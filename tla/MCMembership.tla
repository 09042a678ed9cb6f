---------------------------- MODULE MCMembership -----------------------------
(* Membership for TLC: users and requests are interchangeable.             *)
EXTENDS Membership, TLC

Interchangeable == Permutations(Users) \union Permutations(Handlers)

------------------------------------------------------------------------------
(* Refuted: what a comment says of the code.                               *)

\* A change of role that leaves a workspace which had an owner with none.
Dismisses(h) ==
  LET o == op[h] IN
  /\ At(h, "add") /\ o.req = "setrole" /\ op'[h] # op[h]
  /\ Owners(o.ws) # {} /\ \A u \in users : members'[o.ws][u] # "owner"

\* The last owner of a workspace cannot be demoted.
LastOwnerStays == [][\A h \in Handlers : ~Dismisses(h)]_vars
==============================================================================
