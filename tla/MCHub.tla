------------------------------- MODULE MCHub -------------------------------
(***************************************************************************)
(* Two subscribers of the gateway's event channel.  Init, Next and the     *)
(* invariants treat them alike, so the run takes them up to permutation.   *)
(***************************************************************************)
EXTENDS Hub, TLC

Perms == Permutations(Client)

============================================================================
