------------------------------ MODULE WsConn -------------------------------
(***************************************************************************)
(* One WebSocket connection to the IM frontier (internal/engine/wsconn.go).*)
(*                                                                         *)
(* Three goroutines share it: the reader that wsConnect starts, which      *)
(* copies frames from the socket to the buffered channel msgs; the owner,  *)
(* which sends at most once, receives in a loop and closes last (RunSession*)
(* and sendViaWS both follow this order); and the heartbeat's pinger.      *)
(* setClosed is run by the reader and by the owner, possibly at the same   *)
(* time.  Each atomic operation on closed, closeErr, done, msgs and writeMu*)
(* is a step of its own.                                                   *)
(*                                                                         *)
(* Frames are numbered in the order ReadMessage returns them.              *)
(***************************************************************************)
EXTENDS Naturals, Sequences

CONSTANTS MsgCap,      \* capacity of the msgs channel (256 in the code)
          MaxFrames    \* bound: how many frames the peer sends

ASSUME BoundsAssumption == MsgCap \in Nat \ {0} /\ MaxFrames \in Nat

VARIABLES pc,          \* where each goroutine is
          read,        \* number of frames ReadMessage has returned
          hand,        \* the frame the reader holds (0: none); kept if abandoned
          msgs,        \* the msgs channel
          delivered,   \* frames Receive has returned, in order
          closed,      \* the atomic flag closed
          closeErr,    \* the error stored by setClosed
          doneCloses,  \* how often close(c.done) has run
          writeMu,     \* holder of writeMu
          sockClosed,  \* ws.Close() has run
          reported     \* the error Receive has returned to the owner

vars == <<pc, read, hand, msgs, delivered, closed, closeErr, doneCloses,
          writeMu, sockClosed, reported>>

Proc == {"reader", "owner", "pinger"}
SetClosedSteps == {"cas", "store", "close"}
ReaderSteps == {"read", "offer", "gone"} \cup SetClosedSteps
ReceiveSteps == {"check", "wait", "last", "fail"}
CloseSteps == SetClosedSteps \cup {"lock", "control", "shut", "end"}
OwnerSteps == {"start", "sendlock", "sending", "idle"} \cup ReceiveSteps \cup CloseSteps
PingerSteps == {"idle", "lock", "write"}

NoErr == "none"
ErrPeer == "read error"
ErrClient == "closed by client"
ErrAlready == "socket already closed"

Done == doneCloses > 0
Goto(p, step) == pc' = [pc EXCEPT ![p] = step]
At(p, step) == pc[p] = step

Init == /\ pc = [p \in Proc |-> IF p = "reader" THEN "read"
                                ELSE IF p = "owner" THEN "start" ELSE "idle"]
        /\ read = 0
        /\ hand = 0
        /\ msgs = << >>
        /\ delivered = << >>
        /\ closed = FALSE
        /\ closeErr = NoErr
        /\ doneCloses = 0
        /\ writeMu = "free"
        /\ sockClosed = FALSE
        /\ reported = NoErr

----------------------------------------------------------------------------
(* setClosed: the first caller stores its error and closes done.           *)

\* Variant of SetClosedCAS: a check and a later store instead of one atomic step.
SetClosedUnguarded(p, after) ==
  /\ At(p, "cas")
  /\ closed' = TRUE
  /\ Goto(p, "store")
  /\ UNCHANGED <<read, hand, msgs, delivered, closeErr, doneCloses, writeMu,
                 sockClosed, reported>>

SetClosedCAS(p, after) ==
  /\ At(p, "cas")
  /\ closed' = TRUE
  /\ Goto(p, IF closed THEN after ELSE "store")
  /\ UNCHANGED <<read, hand, msgs, delivered, closeErr, doneCloses, writeMu,
                 sockClosed, reported>>

SetClosedStore(p, err) ==
  /\ At(p, "store")
  /\ closeErr' = err
  /\ Goto(p, "close")
  /\ UNCHANGED <<read, hand, msgs, delivered, closed, doneCloses, writeMu,
                 sockClosed, reported>>

SetClosedDone(p, after) ==
  /\ At(p, "close")
  /\ doneCloses' = doneCloses + 1
  /\ Goto(p, after)
  /\ UNCHANGED <<read, hand, msgs, delivered, closed, closeErr, writeMu,
                 sockClosed, reported>>

SetClosed(p, err, after) ==
  SetClosedCAS(p, after) \/ SetClosedStore(p, err) \/ SetClosedDone(p, after)

----------------------------------------------------------------------------
(* The reader goroutine.                                                   *)

ReadFrame ==
  /\ At("reader", "read")
  /\ ~sockClosed
  /\ read < MaxFrames
  /\ read' = read + 1
  /\ hand' = read + 1
  /\ Goto("reader", "offer")
  /\ UNCHANGED <<msgs, delivered, closed, closeErr, doneCloses, writeMu,
                 sockClosed, reported>>

\* Variant of ReadFail: the reader leaves without setClosed.
ReadFailSilently ==
  /\ At("reader", "read")
  /\ Goto("reader", "gone")
  /\ UNCHANGED <<read, hand, msgs, delivered, closed, closeErr, doneCloses,
                 writeMu, sockClosed, reported>>

\* The peer closes, the transport fails, or ws.Close ran on this side.
ReadFail ==
  /\ At("reader", "read")
  /\ Goto("reader", "cas")
  /\ UNCHANGED <<read, hand, msgs, delivered, closed, closeErr, doneCloses,
                 writeMu, sockClosed, reported>>

\* Variant of Enqueue: a select with a default branch, which drops when msgs is full.
EnqueueOrDrop ==
  /\ At("reader", "offer")
  /\ msgs' = IF Len(msgs) < MsgCap THEN Append(msgs, hand) ELSE msgs
  /\ hand' = 0
  /\ Goto("reader", "read")
  /\ UNCHANGED <<read, delivered, closed, closeErr, doneCloses, writeMu,
                 sockClosed, reported>>

Enqueue ==
  /\ At("reader", "offer")
  /\ Len(msgs) < MsgCap
  /\ msgs' = Append(msgs, hand)
  /\ hand' = 0
  /\ Goto("reader", "read")
  /\ UNCHANGED <<read, delivered, closed, closeErr, doneCloses, writeMu,
                 sockClosed, reported>>

\* Variant of AbandonFrame: a plain channel send, which done does not interrupt.
NeverAbandonFrame == FALSE

AbandonFrame ==
  /\ At("reader", "offer")
  /\ Done
  /\ Goto("reader", "gone")
  /\ UNCHANGED <<read, hand, msgs, delivered, closed, closeErr, doneCloses,
                 writeMu, sockClosed, reported>>

ReaderStep == ReadFrame \/ ReadFail \/ Enqueue \/ AbandonFrame
              \/ SetClosed("reader", ErrPeer, "gone")

----------------------------------------------------------------------------
(* The owner: Receive.                                                     *)

\* A channel receive: the oldest queued frame becomes Receive's result.
Take ==
  /\ msgs # << >>
  /\ delivered' = Append(delivered, Head(msgs))
  /\ msgs' = Tail(msgs)
  /\ Goto("owner", "idle")
  /\ UNCHANGED <<read, hand, closed, closeErr, doneCloses, writeMu, sockClosed,
                 reported>>

\* The owner moves on inside a call and touches nothing shared.
OwnerGoto(step) ==
  /\ Goto("owner", step)
  /\ UNCHANGED <<read, hand, msgs, delivered, closed, closeErr, doneCloses,
                 writeMu, sockClosed, reported>>

ReceivePoll ==
  /\ pc["owner"] \in {"start", "idle"}
  /\ reported = NoErr
  /\ \/ Take
     \/ msgs = << >> /\ OwnerGoto("check")

\* Variant of ReceiveCheckClosed: the error is returned without a second look at msgs.
ReceiveFailFast ==
  /\ At("owner", "check")
  /\ OwnerGoto(IF closed THEN "fail" ELSE "wait")

ReceiveCheckClosed ==
  /\ At("owner", "check")
  /\ OwnerGoto(IF closed THEN "last" ELSE "wait")

\* The blocking select: a frame, the timer, or done; any ready case may win.
ReceiveWait ==
  /\ At("owner", "wait")
  /\ \/ Take
     \/ OwnerGoto("idle")
     \/ Done /\ OwnerGoto("last")

ReceiveLast ==
  /\ At("owner", "last")
  /\ \/ Take
     \/ msgs = << >> /\ OwnerGoto("fail")

\* err(): the stored error, or a stand-in while setClosed has not stored it yet.
ReceiveFail ==
  /\ At("owner", "fail")
  /\ reported' = IF closeErr = NoErr THEN ErrAlready ELSE closeErr
  /\ Goto("owner", "idle")
  /\ UNCHANGED <<read, hand, msgs, delivered, closed, closeErr, doneCloses,
                 writeMu, sockClosed>>

Receive == ReceivePoll \/ ReceiveCheckClosed \/ ReceiveWait \/ ReceiveLast
           \/ ReceiveFail

----------------------------------------------------------------------------
(* The owner: Send and Close; the heartbeat: Ping.                         *)

LockWrite(p, from, to) ==
  /\ At(p, from)
  /\ writeMu = "free"
  /\ writeMu' = p
  /\ Goto(p, to)
  /\ UNCHANGED <<read, hand, msgs, delivered, closed, closeErr, doneCloses,
                 sockClosed, reported>>

\* The write returns, with or without an error, and writeMu is released.
UnlockWrite(p, from, to) ==
  /\ At(p, from)
  /\ writeMu' = "free"
  /\ Goto(p, to)
  /\ UNCHANGED <<read, hand, msgs, delivered, closed, closeErr, doneCloses,
                 sockClosed, reported>>

\* A Send that finds the connection closed, or whose write fails, ends in the
\* owner's deferred Close.
SendBegin ==
  /\ At("owner", "start")
  /\ OwnerGoto(IF closed THEN "cas" ELSE "sendlock")

SendWrite == \E next \in {"idle", "cas"} : UnlockWrite("owner", "sending", next)

Send == SendBegin \/ LockWrite("owner", "sendlock", "sending") \/ SendWrite

PingBegin ==
  /\ At("pinger", "idle")
  /\ ~closed
  /\ Goto("pinger", "lock")
  /\ UNCHANGED <<read, hand, msgs, delivered, closed, closeErr, doneCloses,
                 writeMu, sockClosed, reported>>

\* Variant of PingWrite: a return path that forgets to unlock.
PingWriteKeepsLock ==
  /\ At("pinger", "write")
  /\ Goto("pinger", "idle")
  /\ UNCHANGED <<read, hand, msgs, delivered, closed, closeErr, doneCloses,
                 writeMu, sockClosed, reported>>

\* WriteControl has a deadline of five seconds.
PingWrite == UnlockWrite("pinger", "write", "idle")

Ping == PingBegin \/ LockWrite("pinger", "lock", "write") \/ PingWrite

CloseBegin == At("owner", "idle") /\ OwnerGoto("cas")

CloseSocket ==
  /\ At("owner", "shut")
  /\ sockClosed' = TRUE
  /\ Goto("owner", "end")
  /\ UNCHANGED <<read, hand, msgs, delivered, closed, closeErr, doneCloses,
                 writeMu, reported>>

CloseAfterBegin ==
  \/ SetClosed("owner", ErrClient, "lock")
  \/ LockWrite("owner", "lock", "control")
  \/ UnlockWrite("owner", "control", "shut")
  \/ CloseSocket

Close == CloseBegin \/ CloseAfterBegin

----------------------------------------------------------------------------
\* Everything has ended: the owner has closed, the reader and the ping are done.
Terminated == /\ At("owner", "end")
              /\ At("reader", "gone")
              /\ At("pinger", "idle")
              /\ UNCHANGED vars

Next == ReaderStep \/ Receive \/ Send \/ Ping \/ Close \/ Terminated

(***************************************************************************)
(* Fairness.  A goroutine inside an operation keeps running; the owner     *)
(* calls Receive again until it gets an error and then closes; ReadMessage *)
(* returns once ws.Close ran; a ping write has a deadline.  Nothing is     *)
(* assumed of the peer, of the pinger starting another ping, or of Send,   *)
(* whose WriteMessage has no deadline.                                     *)
(***************************************************************************)
Fairness ==
  /\ WF_vars(Enqueue \/ AbandonFrame \/ SetClosed("reader", ErrPeer, "gone"))
  /\ WF_vars(sockClosed /\ ReadFail)
  /\ WF_vars(Receive)
  /\ WF_vars(reported # NoErr /\ CloseBegin)
  /\ WF_vars(CloseAfterBegin)
  /\ WF_vars(LockWrite("pinger", "lock", "write") \/ PingWrite)

Spec == Init /\ [][Next]_vars

FairSpec == Spec /\ Fairness

----------------------------------------------------------------------------
(* Properties.                                                             *)

\* Types; msgs never holds more than its capacity.
TypeOK ==
  /\ pc \in [Proc -> ReaderSteps \cup OwnerSteps \cup PingerSteps]
  /\ pc["reader"] \in ReaderSteps
  /\ pc["owner"] \in OwnerSteps
  /\ pc["pinger"] \in PingerSteps
  /\ read \in Nat
  /\ hand \in Nat
  /\ msgs \in Seq(Nat) /\ Len(msgs) <= MsgCap
  /\ delivered \in Seq(Nat)
  /\ closed \in BOOLEAN
  /\ closeErr \in {NoErr, ErrPeer, ErrClient}
  /\ doneCloses \in Nat
  /\ writeMu \in Proc \cup {"free"}
  /\ sockClosed \in BOOLEAN
  /\ reported \in {NoErr, ErrPeer, ErrClient, ErrAlready}

\* Every frame that ReadMessage returned is in exactly one place, and in order:
\* delivered, then queued, then in the reader's hand (reader, Receive).
FrameConservation ==
  /\ \A i \in 1 .. Len(delivered) : delivered[i] = i
  /\ \A i \in 1 .. Len(msgs) : msgs[i] = Len(delivered) + i
  /\ IF hand = 0
     THEN read = Len(delivered) + Len(msgs)
     ELSE hand = read /\ read = Len(delivered) + Len(msgs) + 1

\* When Receive returns an error, every frame read before the break has been
\* returned first (Receive looks at msgs once more after it saw the close).
ErrorMeansDrained ==
  reported # NoErr =>
    /\ Len(delivered) = read
    /\ pc["reader"] \in {"cas", "store", "close", "gone"}

\* close(c.done) runs at most once although reader and owner may both be in
\* setClosed: closing a closed channel would crash the bot.  Receive can be woken
\* only after closed and closeErr were set.
DoneClosedOnce ==
  /\ doneCloses <= 1
  /\ Done => closed /\ closeErr # NoErr

\* An owner that has not begun to close learns that its connection broke.
EndIsReported ==
  pc["reader"] = "gone" ~> (reported # NoErr \/ pc["owner"] \in CloseSteps
                                             \/ pc["owner"] \in {"sendlock", "sending"})

\* Close always completes and takes the reader with it, whatever the pinger and
\* the reader were doing and however full msgs was: no goroutine is left behind.
CloseReleases ==
  pc["owner"] = "cas" ~> (pc["owner"] = "end" /\ pc["reader"] = "gone")

(* The connection implements the abstract stream.                          *)
PhaseBar == IF pc["owner"] \in CloseSteps THEN "abandoned"
            ELSE IF pc["reader"] \in {"read", "offer"} THEN "open" ELSE "ended"

Stream == INSTANCE FrameStream
            WITH Capacity <- MsgCap, arrived <- read, out <- delivered,
                 phase <- PhaseBar, told <- reported # NoErr

\* Seen by its owner, the connection is an ordered, loss-free, bounded stream whose
\* end is told last.
ImplementsStream == Stream!Spec

============================================================================
