------------------------------- MODULE MCFlow --------------------------------
(* ClassicFlow for TLC.                                                       *)
EXTENDS ClassicFlow, TLC

WorkersAlike == Permutations(Workers)

\* Bound: sub-issues of a second plan are made in histories without reports.
SecondPlans ==
  \A i \in Issues : Len(subIssues[i]) <= PlanSize \/ \A r \in DOMAIN journal[i] : journal[i][r].kind # Verify

\* Refuted by the code: what its comments say of it (README, "Known deviations").

\* An archived change stays archived.
ArchivedIsFinal ==
  [][\A i \in Issues : changes[i].status = "archived" =>
       changes'[i].status = "archived" \/ ~Exists(i)']_vars

\* SetTaskMappings "atomically replaces the change's mapping set" by items "all
\* bound to the tasks artifact version artifactID" (store/store.go:298-299).
MappingReplaced == \A i \in Issues : \A m, n \in mapping[i] : m.row = n.row
==============================================================================
