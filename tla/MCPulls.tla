------------------------------- MODULE MCPulls --------------------------------
(* PullRequests on a small instance. *)
EXTENDS PullRequests, TLC

MCTexts == {[named |-> {1, 2}, closing |-> {1}], [named |-> {2}, closing |-> {1, 2}]}
Interchangeable == Permutations(Handlers)

------------------------------------------------------------------------------
(* Refuted: what a comment says of the code.                               *)

\* A merge that closes issues leaves finished ones untouched.
TerminalUntouched ==
  [][\A h \in Handlers :
       LET i == op[h].issue IN
       At(h, "done") /\ op'[h] # op[h] /\ Exists(i) /\ IsTerminal(issues[i].status) =>
         issues'[i].status = issues[i].status]_vars
==============================================================================
