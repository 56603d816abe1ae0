---------------------------- MODULE Credentials ----------------------------
(***************************************************************************)
(* What a login promises to whoever works with its session, without        *)
(* requests, files or phases: a session is saved only if it is newer than  *)
(* the one on disk and those in use, it is used only once it is saved, and *)
(* a write that fails costs at most what is on disk.  Sessions are         *)
(* numbered as the server issues them; 0 is none.  EngineLoop and Login,   *)
(* which share loginAndSave, both implement this.                          *)
(***************************************************************************)
EXTENDS Naturals

CONSTANT User        \* whoever uses a session

VARIABLES issued,    \* the last session the server issued
          stored,    \* the session on disk
          used       \* used[u]: the session u works with

credentials == <<issued, stored, used>>

Init == /\ issued \in Nat
        /\ stored \in 0 .. issued
        /\ used = [u \in User |-> 0]

\* The server issues a session, which may get lost on its way.
Issue == issued' = issued + 1 /\ UNCHANGED <<stored, used>>

\* The users in U turn to session k together.
Turn(U, k) == used' = [u \in User |-> IF u \in U THEN k ELSE used[u]]

Save == \E k \in 1 .. issued :
          /\ k > stored /\ \A u \in User : k > used[u]
          /\ stored' = k
          /\ \E U \in SUBSET User : Turn(U, k)
          /\ UNCHANGED issued

\* A write that breaks off.
Lose == stored' = 0 /\ UNCHANGED <<issued, used>>

Use == /\ stored # 0
       /\ \E U \in SUBSET User : Turn(U, stored)
       /\ UNCHANGED <<issued, stored>>

\* A process ends, or starts without an account.
Forget == /\ \E U \in SUBSET User : Turn(U, 0)
          /\ UNCHANGED <<issued, stored>>

Next == Issue \/ Save \/ Lose \/ Use \/ Forget

Spec == Init /\ [][Next]_credentials
============================================================================
