---------------------------- MODULE ChangePromise ----------------------------
(***************************************************************************)
(* What the classic workflow promises about a change, with no statements,  *)
(* no workers and no clocks (README "Classic 门禁"): the phases are walked  *)
(* one at a time and never skipped, a phase is left only with an artifact  *)
(* for it and for all before it, and only a change that walked them all    *)
(* and whose newest verify report says pass is archived, once and for all. *)
(***************************************************************************)
EXTENDS Naturals

CONSTANTS Issues, N

VARIABLES
  phase,      \* where the change of each issue stands, 1..N
  status,     \* none, active, archived, failed or gone
  delivered,  \* the kinds that have an artifact
  verdict     \* the newest verify report: none, pass or fail

vars == <<phase, status, delivered, verdict>>

Init ==
  /\ phase = [i \in Issues |-> 1]
  /\ status = [i \in Issues |-> "none"]
  /\ delivered = [i \in Issues |-> {}]
  /\ verdict = [i \in Issues |-> "none"]

Open(i) ==
  /\ status[i] = "none"
  /\ status' = [status EXCEPT ![i] = "active"]
  /\ UNCHANGED <<phase, delivered, verdict>>

Deliver(i, k) ==
  /\ status[i] = "active"
  /\ delivered' = [delivered EXCEPT ![i] = @ \union {k}]
  /\ UNCHANGED <<phase, status, verdict>>

Report(i, v) ==
  /\ status[i] = "active"
  /\ verdict' = [verdict EXCEPT ![i] = v]
  /\ UNCHANGED <<phase, status, delivered>>

Advance(i) ==
  /\ status[i] = "active" /\ phase[i] < N
  /\ 1..phase[i] \subseteq delivered[i]
  /\ phase' = [phase EXCEPT ![i] = @ + 1]
  /\ UNCHANGED <<status, delivered, verdict>>

Archive(i) ==
  /\ status[i] = "active" /\ phase[i] = N
  /\ 1..N \subseteq delivered[i]
  /\ verdict[i] = "pass"
  /\ status' = [status EXCEPT ![i] = "archived"]
  /\ UNCHANGED <<phase, delivered, verdict>>

\* The splitter gives up; the advance it was about to make may still show.
GiveUp(i) ==
  /\ status[i] = "active"
  /\ status' = [status EXCEPT ![i] = "failed"]
  /\ \/ UNCHANGED phase
     \/ /\ phase[i] < N /\ 1..phase[i] \subseteq delivered[i]
        /\ phase' = [phase EXCEPT ![i] = @ + 1]
  /\ UNCHANGED <<delivered, verdict>>

Delete(i) ==
  /\ status[i] # "gone"
  /\ phase' = [phase EXCEPT ![i] = 1]
  /\ status' = [status EXCEPT ![i] = "gone"]
  /\ delivered' = [delivered EXCEPT ![i] = {}]
  /\ verdict' = [verdict EXCEPT ![i] = "none"]

Next ==
  \E i \in Issues :
    \/ Open(i) \/ Advance(i) \/ Archive(i) \/ GiveUp(i) \/ Delete(i)
    \/ \E k \in 1..N : Deliver(i, k)
    \/ \E v \in {"pass", "fail"} : Report(i, v)

Spec == Init /\ [][Next]_vars
==============================================================================
