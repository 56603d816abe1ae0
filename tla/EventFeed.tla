----------------------------- MODULE EventFeed -----------------------------
(***************************************************************************)
(* What the event hub promises its subscribers, without goroutines, queues *)
(* or limits: an event goes to all members at once; each of them is given  *)
(* its events oldest first, none twice; any that waits may be lost instead,*)
(* and nothing else happens to it.  Events are numbered as they are        *)
(* emitted.  Module Hub implements this.                                   *)
(***************************************************************************)
EXTENDS Naturals

CONSTANT Subscriber

VARIABLES emitted,     \* number of events emitted so far
          members,     \* the subscribers registered
          joined,      \* joined[c]: number of events before c became a member
          pending,     \* pending[c]: events on their way to c
          delivered,   \* delivered[c]: events c was given
          lost         \* lost[c]: events c will never be given

feedVars == <<emitted, members, joined, pending, delivered, lost>>

Nothing == [c \in Subscriber |-> {}]

Init == /\ emitted = 0
        /\ members = {}
        /\ joined = [c \in Subscriber |-> 0]
        /\ pending = Nothing /\ delivered = Nothing /\ lost = Nothing

\* A new member is owed the events from now on.
Join(c) == /\ c \notin members
           /\ pending[c] = {} /\ delivered[c] = {} /\ lost[c] = {}
           /\ members' = members \cup {c}
           /\ joined' = [joined EXCEPT ![c] = emitted]
           /\ UNCHANGED <<emitted, pending, delivered, lost>>

\* What is on its way to a member that leaves stays there.
Leave(c) == /\ members' = members \ {c}
            /\ UNCHANGED <<emitted, joined, pending, delivered, lost>>

Emit == /\ emitted' = emitted + 1
        /\ pending' = [c \in Subscriber |-> IF c \in members THEN pending[c] \cup {emitted + 1}
                                                             ELSE pending[c]]
        /\ UNCHANGED <<members, joined, delivered, lost>>

\* The oldest event on its way to c arrives.
Deliver(c) == \E e \in pending[c] :
                /\ \A f \in pending[c] : e <= f
                /\ pending' = [pending EXCEPT ![c] = @ \ {e}]
                /\ delivered' = [delivered EXCEPT ![c] = @ \cup {e}]
                /\ UNCHANGED <<emitted, members, joined, lost>>

Lose(c) == \E e \in pending[c] :
             /\ pending' = [pending EXCEPT ![c] = @ \ {e}]
             /\ lost' = [lost EXCEPT ![c] = @ \cup {e}]
             /\ UNCHANGED <<emitted, members, joined, delivered>>

Next == Emit \/ \E c \in Subscriber : Join(c) \/ Leave(c) \/ Deliver(c) \/ Lose(c)

Spec == Init /\ [][Next]_feedVars
============================================================================
