------------------------------ MODULE MCSquads -------------------------------
(* Squads on a small instance. *)
EXTENDS Squads, TLC

\* Humans who are both members, and handlers, are interchangeable.
Interchangeable == Permutations(Humans) \union Permutations(Handlers)

------------------------------------------------------------------------------
(* Refuted: what the comments say of the code.                             *)

\* A run is enqueued whenever an issue is assigned to an agent: whoever is in
\* charge and an agent has a run, or one that is about to be made.
AssignedMeansStarted ==
  \A i \in Issues : assignees[i] \in agents =>
    <<assignees[i], i>> \in runs \/ \E h \in Handlers : Starting(op[h], assignees[i], i)

\* The leader of a squad cannot be removed from its roster.
LeaderStays ==
  [][\A s \in Squads : leaders[s] \in rosters[s] /\ leaders'[s] = leaders[s] =>
       leaders[s] \in rosters'[s]]_vars

\* An issue can be assigned to a squad: an edit that was found valid is saved.
SquadsTakeIssues ==
  [][\A h \in Handlers : At(h, "save") /\ IsSquad(op[h].target) /\ op'[h] # op[h] /\ mishaps' = mishaps =>
       assignees'[op[h].issue] = op[h].target]_vars
==============================================================================
