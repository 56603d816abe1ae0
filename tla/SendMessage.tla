---------------------------- MODULE SendMessage ----------------------------
(***************************************************************************)
(* Sending one message (internal/engine/wssend.go, httpsend.go):           *)
(* dispatchSend over a WebSocket of its own or over HTTP, and how the      *)
(* result is told.                                                         *)
(*                                                                         *)
(* The server is the environment.  It handles the request late or never,   *)
(* and may push the outcome to the WebSocket.  The outcomes of messages    *)
(* that other goroutines or other devices of the user send, and traffic    *)
(* that is no outcome at all, arrive on the same WebSocket, in frames of   *)
(* their own or in one frame with others.  A frame is the sequence of      *)
(* messages it carries.  Concurrent sends share nothing but this traffic.  *)
(*                                                                         *)
(* Time is counted in slices of the drain's Receive; timers hold the time  *)
(* left and Tick lets time pass only when the sender cannot go on at once. *)
(* Sending the frame itself is taken to return at once.                    *)
(***************************************************************************)
EXTENDS Integers, Sequences, SequencesExt

CONSTANTS Mine, Other,   \* client message ids: of this message, of someone else's message
          Nobody,        \* no id
          Channel,       \* the values of send_channel to consider: "ws", "http"
          Deadline,      \* time sendViaWS waits for the acknowledgement (4 s)
          Slice,         \* timeout of one Receive (350 ms)
          MaxNoise       \* bound: unrelated messages per unit of time

ASSUME SendAssumption ==
  /\ Mine # Other /\ Nobody \notin {Mine, Other}
  /\ Channel \subseteq {"ws", "http"}
  /\ {Deadline, Slice} \subseteq Nat \ {0}
  /\ MaxNoise \in Nat

VARIABLES channel,     \* Client.SendChannel, set once at the start
          known,       \* Client.CkUid is not empty
          pc,          \* where the sender is
          left,        \* time left until the deadline
          slice,       \* time left in Receive
          link,        \* the connection: "none", "up", "down"
          wire,        \* frames the connection holds for Receive
          result,      \* what dispatchSend returned
          age,         \* history: time since the frame was written
          got,         \* history: the outcomes of this message that Receive handed out
          request,     \* the server has the request and has not handled it
          fate,        \* what the server did with it
          noise        \* unrelated messages pushed since the last Tick

local == <<pc, left, slice, link, wire, result, age, got>>
server == <<request, fate, noise>>
vars == <<channel, known, local, server>>

\* The server names a message with an id of its own, here the client id again.
Id == {Mine, Other, Nobody}
Message == [client : Id, id : Id, blocked : BOOLEAN]
Answer(kind, id) == [kind |-> kind, id |-> id]
NoAck == [client |-> Nobody, id |-> Nobody, blocked |-> FALSE]

Init == /\ channel \in Channel
        /\ known \in BOOLEAN
        /\ pc = "start" /\ result = Answer("none", Nobody)
        /\ left = 0 /\ slice = 0 /\ age = 0 /\ got = {}
        /\ link = "none" /\ wire = << >>
        /\ request = FALSE /\ fate = "none" /\ noise = 0

----------------------------------------------------------------------------
(* Common steps.                                                           *)

\* dispatchSend returns; the deferred Close drops the connection with what it held.
Finish(answer) ==
  /\ pc' = "done" /\ result' = answer
  /\ link' = "none" /\ wire' = << >>
  /\ UNCHANGED <<left, slice, age>>

Begin ==
  /\ pc = "start"
  /\ IF ~known
       THEN Finish(Answer("error", Nobody))
       ELSE /\ pc' = IF channel = "ws" THEN "dial" ELSE "post"
            /\ UNCHANGED <<result, link, wire, left, slice, age>>
  /\ UNCHANGED <<channel, known, got, server>>

\* What the sender still waits for fails: a handshake, the write, a request.
Fail ==
  /\ pc \in {"dial", "write", "await"}
  /\ Finish(Answer("error", Nobody))
  /\ UNCHANGED <<channel, known, got, server>>

----------------------------------------------------------------------------
(* sendIMAPI.                                                              *)

Post ==
  /\ pc = "post"
  /\ pc' = "await" /\ request' = TRUE
  /\ UNCHANGED <<channel, known, left, slice, link, wire, result, age, got, fate, noise>>

\* A reply with HTTP status 200.  A body that was cut off, or is not protobuf, has no status
\* field; the status then reads as 0 and the message counts as sent.
Reply ==
  /\ pc = "await"
  /\ \/ fate = "delivered" /\ Finish(Answer("ok", Mine))
     \/ fate \in {"blocked", "dropped"} /\ Finish(Answer("error", Nobody))
     \/ Finish(Answer("ok", Nobody))
  /\ UNCHANGED <<channel, known, got, server>>

----------------------------------------------------------------------------
(* sendViaWS.                                                              *)

Dial ==
  /\ pc = "dial"
  /\ pc' = "write" /\ link' = "up"
  /\ UNCHANGED <<channel, known, left, slice, wire, result, age, got, server>>

\* A write to a connection that has just broken may go into a buffer without an error.
Write ==
  /\ pc = "write"
  /\ pc' = "drain" /\ left' = Deadline
  /\ request' = (link = "up")
  /\ UNCHANGED <<channel, known, slice, link, wire, result, age, got, fate, noise>>

\* Variant of MatchSendAck: any acknowledgement will do.
MatchAnyAck(frame) ==
  LET acks == SelectSeq(frame, LAMBDA msg : msg.client # Nobody)
  IN  IF acks = << >> THEN NoAck ELSE Head(acks)

\* Variant of MatchSendAck: only the first message of a frame is looked at.
MatchFirstOnly(frame) == IF Head(frame).client = Mine THEN Head(frame) ELSE NoAck

\* The first message of the frame that has the client id of ours, NoAck if there is none.
MatchSendAck(frame) ==
  LET mine == {i \in DOMAIN frame : frame[i].client = Mine}
  IN  IF mine = {} THEN NoAck ELSE frame[CHOOSE i \in mine : \A j \in mine : i <= j]

\* What sendViaWS makes of the acknowledgement the drain came back with.
Conclude(ack) ==
  Finish(IF ack.blocked THEN Answer("blocked", ack.id)
         ELSE IF ack.id = Nobody THEN Answer("timeout", Nobody) ELSE Answer("ok", ack.id))

\* The head of the drain's loop: the deadline is looked at between two Receives.
DrainTop ==
  /\ pc = "drain"
  /\ \/ left = 0 /\ Conclude(NoAck)
     \/ /\ left > 0
        /\ pc' = "recv" /\ slice' = Slice
        /\ UNCHANGED <<result, link, wire, left, age>>
  /\ UNCHANGED <<channel, known, got, server>>

\* What the drain does with the next frame.
TakeFrame ==
  /\ pc = "recv"
  /\ wire # << >>
  /\ got' = got \cup {msg \in ToSet(Head(wire)) : msg.client = Mine}

GoOn == pc' = "drain" /\ wire' = Tail(wire) /\ UNCHANGED <<result, link, slice, age>>

\* Variant of DrainFrame: a frame that does not match renews the deadline.
DrainFrameRenews ==
  /\ TakeFrame
  /\ LET ack == MatchSendAck(Head(wire))
     IN  IF ack # NoAck THEN Conclude(ack) ELSE GoOn /\ left' = Deadline
  /\ UNCHANGED <<channel, known, server>>

DrainFrame ==
  /\ TakeFrame
  /\ LET ack == MatchSendAck(Head(wire))
     IN  IF ack # NoAck THEN Conclude(ack) ELSE GoOn /\ UNCHANGED left
  /\ UNCHANGED <<channel, known, server>>

DrainTimeout ==
  /\ pc = "recv" /\ slice = 0
  /\ pc' = "drain"
  /\ UNCHANGED <<channel, known, left, slice, link, wire, result, age, got, server>>

\* Variant of DrainError: an error is taken for a frame that did not match.
DrainErrorGoesOn ==
  /\ pc = "recv" /\ link = "down" /\ wire = << >>
  /\ pc' = "drain"
  /\ UNCHANGED <<channel, known, left, slice, link, wire, result, age, got, server>>

\* The connection ended and nothing is queued (module FrameStream).
DrainError ==
  /\ pc = "recv" /\ link = "down" /\ wire = << >>
  /\ Conclude(NoAck)
  /\ UNCHANGED <<channel, known, got, server>>

SenderStep == \/ Begin \/ Fail \/ Post \/ Reply \/ Dial \/ Write
              \/ DrainTop \/ DrainFrame \/ DrainTimeout \/ DrainError

----------------------------------------------------------------------------
(* The server and the network.                                             *)

\* msg is pushed, in the last frame still held or in a frame of its own; not at all
\* when there is no connection any more.
Push(msg) ==
  IF link # "up" THEN UNCHANGED wire
  ELSE \/ wire' = Append(wire, <<msg>>)
       \/ wire # << >> /\ wire' = Append(Front(wire), Append(Last(wire), msg))

\* An outcome may be lost.  A blocked message may have an id; one that is dropped is
\* never heard of again.
Handle ==
  /\ request /\ request' = FALSE
  /\ \/ /\ fate' = "delivered"
        /\ Push([client |-> Mine, id |-> Mine, blocked |-> FALSE]) \/ UNCHANGED wire
     \/ /\ fate' = "blocked"
        /\ \E id \in {Mine, Nobody} : Push([client |-> Mine, id |-> id, blocked |-> TRUE])
     \/ fate' = "dropped" /\ UNCHANGED wire
  /\ UNCHANGED <<channel, known, pc, left, slice, link, result, age, got, noise>>

Noise ==
  /\ link = "up"
  /\ noise < MaxNoise /\ noise' = noise + 1
  /\ \E blocked \in BOOLEAN :
       Push([client |-> Other, id |-> Other, blocked |-> blocked]) \/ Push(NoAck)
  /\ UNCHANGED <<channel, known, pc, left, slice, link, result, age, got, request, fate>>

LinkBreaks ==
  /\ link = "up" /\ link' = "down"
  /\ UNCHANGED <<channel, known, pc, left, slice, wire, result, age, got, server>>

----------------------------------------------------------------------------
(* Time.                                                                   *)

Runnable == \/ pc = "drain"
            \/ pc = "recv" /\ (slice = 0 \/ wire # << >> \/ link = "down")

Down(t) == IF t = 0 THEN 0 ELSE t - 1

Tick ==
  /\ pc \in {"drain", "recv"} /\ ~Runnable
  /\ left' = Down(left) /\ slice' = Down(slice) /\ age' = age + 1
  /\ noise' = 0
  /\ UNCHANGED <<channel, known, pc, link, wire, result, got, request, fate>>

Terminated == pc = "done" /\ ~request /\ UNCHANGED vars

Next == SenderStep \/ Handle \/ Noise \/ LinkBreaks \/ Tick \/ Terminated

(***************************************************************************)
(* Fairness: the sender goes on when it can and time passes.  A handshake  *)
(* and a request have timeouts of their own, so Fail is among the steps    *)
(* that must happen sooner or later.  Nothing is assumed of the server.    *)
(***************************************************************************)
Spec == Init /\ [][Next]_vars

FairSpec == Spec /\ WF_vars(Tick) /\ WF_vars(SenderStep)

----------------------------------------------------------------------------
(* Properties.                                                             *)

\* Every variable keeps its shape; a timer never runs below zero.
TypeOK ==
  /\ channel \in Channel /\ known \in BOOLEAN
  /\ pc \in {"start", "post", "await", "dial", "write", "drain", "recv", "done"}
  /\ left \in 0 .. Deadline
  /\ slice \in 0 .. Slice
  /\ link \in {"none", "up", "down"}
  /\ wire \in Seq(Seq(Message))
  /\ result \in [kind : {"none", "ok", "blocked", "timeout", "error"}, id : Id]
  /\ age \in Nat
  /\ got \subseteq Message
  /\ request \in BOOLEAN
  /\ fate \in {"none", "delivered", "blocked", "dropped"}
  /\ noise \in 0 .. MaxNoise

\* What the caller is told of its message is true of that message, although the outcomes
\* of others arrive on the same connection and in the same frames: a server id means
\* delivered under that id, "blocked" means the server refused it.
ResultIsTrue ==
  /\ result.kind = "ok" /\ result.id # Nobody => fate = "delivered" /\ result.id = Mine
  /\ result.kind = "blocked" => fate = "blocked"

\* "No acknowledgement within the deadline" is never said of a message whose
\* acknowledgement Receive handed out, wherever in a frame it was.
AckNotMissed ==
  result.kind = "timeout" => \A msg \in got : msg.id = Nobody /\ ~msg.blocked

\* The sender gives up before one whole Receive after the deadline, however much
\* unrelated traffic arrives.
EndsInTime == age < Deadline + Slice

\* Every send returns, also when its connection breaks while it waits.
SendReturns == pc # "start" ~> pc = "done"

\* What API.md says of the code 0 that an error-free send becomes: success.
OkMeansDelivered == result.kind = "ok" => fate = "delivered"

=============================================================================
