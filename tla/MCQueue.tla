------------------------------- MODULE MCQueue -------------------------------
(* RunQueue for TLC: one agent with local runtimes, the others on servers.   *)
EXTENDS RunQueue

CONSTANT LocalAgent
MCAgentOf == [c \in Runtimes |-> LocalAgent]

\* Refuted by the code: what its comments say of it (README, "Known deviations").
\* A run that was started reaches done or failed (or is deleted).
Started(r) == r \in DOMAIN runs /\ runs[r].status = "running"
RunsEnd == \A r \in 1..MaxRuns : Started(r) ~> ~Started(r)
==============================================================================
