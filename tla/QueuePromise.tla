---------------------------- MODULE QueuePromise -----------------------------
(***************************************************************************)
(* What the run queue promises to those who insert runs and read table     *)
(* runs, with no claimers, locks, requests or failures: a run is started   *)
(* once, in its agent's turn, ends once and stays ended, and what is told  *)
(* of it is told once, afterwards, and is how it ended.                    *)
(***************************************************************************)
EXTENDS Naturals, Sequences

CONSTANTS
  Agents, Issues,
  InTurn          \* the agents whose runs start in the order they were queued

VARIABLES
  runs,  \* agent, issue and status of each run, in the order of their insertion
  told   \* run and outcome of each notice

vars == <<runs, told>>

Init == runs = <<>> /\ told = {}

Insert(a, i) ==
  /\ runs' = Append(runs, [agent |-> a, issue |-> i, status |-> "queued"])
  /\ UNCHANGED told

Mark(r, s) == runs' = [runs EXCEPT ![r].status = s] /\ UNCHANGED told

Start(r) ==
  /\ runs[r].status = "queued"
  /\ runs[r].agent \in InTurn =>
       \A q \in DOMAIN runs :
         q < r /\ runs[q].agent = runs[r].agent => runs[q].status # "queued"
  /\ Mark(r, "running")

End(r, o) == runs[r].status = "running" /\ Mark(r, o)

\* A run that ended may have been deleted before the notice goes out.
Tell(r, o) ==
  /\ runs[r].status \in {o, "gone"}
  /\ \A t \in told : t.run # r
  /\ told' = told \union {[run |-> r, outcome |-> o]}
  /\ UNCHANGED runs

\* The runs of an agent or of an issue are deleted at once.
Delete(its) ==
  /\ runs' = [r \in DOMAIN runs |-> IF r \in its THEN [runs[r] EXCEPT !.status = "gone"]
                                                 ELSE runs[r]]
  /\ UNCHANGED told

Next ==
  \/ \E a \in Agents, i \in Issues : Insert(a, i)
  \/ \E r \in DOMAIN runs : Start(r) \/ \E o \in {"done", "failed"} : End(r, o) \/ Tell(r, o)
  \/ \E a \in Agents : Delete({r \in DOMAIN runs : runs[r].agent = a})
  \/ \E i \in Issues : Delete({r \in DOMAIN runs : runs[r].issue = i})

Spec == Init /\ [][Next]_vars
==============================================================================
