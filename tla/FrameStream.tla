---------------------------- MODULE FrameStream ----------------------------
(***************************************************************************)
(* What one frontier connection promises the goroutine that owns it: the   *)
(* frames the peer sent come out in order, none skipped and none twice; at *)
(* most Capacity + 1 of them wait inside; and when the stream breaks, the  *)
(* owner hears of it only after it was given every frame read before the   *)
(* break.  Frames are numbered in the order they arrive.                   *)
(* Module WsConn implements this; module Session is written against it.    *)
(***************************************************************************)
EXTENDS Naturals, Sequences

CONSTANT Capacity      \* frames the connection buffers for its owner

VARIABLES arrived,     \* number of frames read off the socket so far
          out,         \* the frames handed to the owner, in order
          phase,       \* "open", "ended" by the peer, or "abandoned" by the owner
          told         \* has the owner been given the end of the stream?

streamVars == <<arrived, out, phase, told>>

Init == /\ arrived = 0
        /\ out = << >>
        /\ phase = "open"
        /\ told = FALSE

\* One more frame comes off the socket; a full buffer holds the peer back.
Arrive == /\ phase # "ended"
          /\ arrived - Len(out) <= Capacity
          /\ arrived' = arrived + 1
          /\ UNCHANGED <<out, phase, told>>

\* The owner gets the next frame it has not seen.
Deliver == /\ ~told
           /\ phase # "abandoned"
           /\ Len(out) < arrived
           /\ out' = Append(out, Len(out) + 1)
           /\ UNCHANGED <<arrived, phase, told>>

\* The peer closed the connection or the transport failed.
EndOfStream == /\ phase = "open"
               /\ phase' = "ended"
               /\ UNCHANGED <<arrived, out, told>>

\* The owner closes the connection; it asks for nothing more.
Abandon == /\ phase # "abandoned"
           /\ phase' = "abandoned"
           /\ UNCHANGED <<arrived, out, told>>

\* The owner is told that the stream is over: nothing it was owed is left.
Tell == /\ phase = "ended"
        /\ ~told
        /\ Len(out) = arrived
        /\ told' = TRUE
        /\ UNCHANGED <<arrived, out, phase>>

Next == Arrive \/ Deliver \/ EndOfStream \/ Abandon \/ Tell

Spec == Init /\ [][Next]_streamVars

============================================================================
