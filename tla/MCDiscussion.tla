----------------------------- MODULE MCDiscussion -----------------------------
(* Discussion on a small instance. *)
EXTENDS Discussion, TLC, FiniteSets

CONSTANT New    \* a name nobody has at first

MCNames == People \union {New}
MCDisplayName == [u \in People |-> u]
\* Every comment mentions everybody.
MCTexts == {People}
\* Bound: no scan finds anything in a behaviour with comments, attachments or
\* other names.
Apart == \/ /\ posted = 0 /\ files = {} /\ \A h \in Handlers : op[h] = Idle
            /\ names = [a \in Agents |-> DisplayName[a]]
         \/ warned = [s \in Servers |-> [x \in Warning |-> 0]] /\ \A s \in Servers : scan[s] = Resting
Interchangeable ==
  Permutations(Humans) \union Permutations(Agents) \union Permutations(Issues)
    \union Permutations(Servers) \union Permutations(Handlers) \union Permutations(Files)

------------------------------------------------------------------------------
(* Refuted.                                                                *)

\* "Each state notifies once per issue": the due-soon and the overdue notice
\* "can each fire exactly once" (due.go:34-36).  Two servers may both find no
\* earlier notice before either inserts one (notifyIssue).
DueToldOnceInAll ==
  \A x \in Warning : Cardinality({s \in Servers : warned[s][x] > 0}) <= 1

\* "Agents are not in the user directory": of a mention only human users are
\* told (collab/service.go:220-224).  ListUsers lists table users, in which
\* every agent has a row.
OnlyHumansTold == \A h \in Handlers : At(h, "mention") => op[h].left \subseteq Humans
==============================================================================
