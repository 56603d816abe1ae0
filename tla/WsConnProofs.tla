---------------------------- MODULE WsConnProofs ----------------------------
(***************************************************************************)
(* Proofs about WsConn for every channel capacity and every number of      *)
(* frames: the inductive invariant IInv, the safety properties it implies, *)
(* and the step simulation that makes WsConn implement FrameStream.        *)
(***************************************************************************)
EXTENDS WsConn, TLAPS

\* p has won the compare-and-swap of setClosed and has not closed done yet.
Closer(p) == pc[p] \in {"store", "close"}

\* The winner of setClosed is unique and works on a connection not yet done.
CloserInv ==
  /\ ~closed => doneCloses = 0 /\ closeErr = NoErr
  /\ \A p \in {"reader", "owner"} : Closer(p) => closed /\ doneCloses = 0
  /\ \A p \in {"reader", "owner"} : At(p, "close") => closeErr # NoErr
  /\ ~(Closer("reader") /\ Closer("owner"))
  /\ doneCloses <= 1
  /\ Done => closed /\ closeErr # NoErr

\* The reader holds a frame exactly while it offers one, unless it gave up.
HandInv ==
  /\ pc["reader"] \in {"read"} \cup SetClosedSteps => hand = 0
  /\ At("reader", "offer") => hand # 0
  /\ At("reader", "gone") /\ hand # 0 => pc["owner"] \in CloseSteps

\* Only the reader can have closed a connection its owner is still using, and it
\* adds no frame after that.
OwnerInv ==
  /\ closed /\ pc["owner"] \notin CloseSteps
       => pc["reader"] \in {"store", "close", "gone"}
  /\ pc["owner"] \in {"last", "fail"} => closed
  /\ At("owner", "fail") => msgs = << >>
  /\ pc["owner"] \in ReceiveSteps \cup {"start", "sendlock", "sending"}
       => reported = NoErr
  /\ reported # NoErr =>
       /\ msgs = << >>
       /\ hand = 0
       /\ pc["reader"] \in SetClosedSteps \cup {"gone"}

IInv == TypeOK /\ FrameConservation /\ CloserInv /\ HandInv /\ OwnerInv

----------------------------------------------------------------------------
(* Type correctness.                                                       *)

LEMMA InitType == Init => TypeOK
<1> SUFFICES ASSUME Init PROVE TypeOK
  OBVIOUS
<1>1. closed \in BOOLEAN /\ sockClosed \in BOOLEAN
  BY Zenon DEF Init
<1>2. /\ pc \in [Proc -> ReaderSteps \cup OwnerSteps \cup PingerSteps]
      /\ pc["reader"] \in ReaderSteps
      /\ pc["owner"] \in OwnerSteps
      /\ pc["pinger"] \in PingerSteps
  BY DEF Init, Proc, ReaderSteps, OwnerSteps, PingerSteps
<1> QED
  BY <1>1, <1>2, BoundsAssumption DEF Init, TypeOK, Proc

LEMMA TypeInductive == TypeOK /\ [Next]_vars => TypeOK'
<1> SUFFICES ASSUME TypeOK, [Next]_vars PROVE TypeOK'
  OBVIOUS
<1> USE DEF TypeOK, At, Goto, Proc
<1>1. CASE ReadFrame
  BY <1>1 DEF ReadFrame, ReaderSteps
<1>2. CASE ReadFail
  BY <1>2 DEF ReadFail, ReaderSteps, SetClosedSteps
<1>3. CASE Enqueue
  BY <1>3, BoundsAssumption DEF Enqueue, ReaderSteps
<1>4. CASE AbandonFrame
  BY <1>4 DEF AbandonFrame, ReaderSteps
<1>5. CASE SetClosed("reader", ErrPeer, "gone")
  <2>1. CASE SetClosedCAS("reader", "gone")
    BY <2>1 DEF SetClosedCAS, ReaderSteps, SetClosedSteps
  <2>2. CASE SetClosedStore("reader", ErrPeer)
    BY <2>2 DEF SetClosedStore, ReaderSteps, SetClosedSteps
  <2>3. CASE SetClosedDone("reader", "gone")
    BY <2>3 DEF SetClosedDone, ReaderSteps
  <2> QED
    BY <1>5, <2>1, <2>2, <2>3 DEF SetClosed
<1>6. ASSUME NEW step \in OwnerSteps, OwnerGoto(step) PROVE TypeOK'
  BY <1>6 DEF OwnerGoto
<1>7. CASE Receive
  <2>1. CASE Take
    BY <2>1, BoundsAssumption DEF Take, OwnerSteps
  <2>2. CASE ReceiveFail
    BY <2>2 DEF ReceiveFail, OwnerSteps
  <2>3. {"check", "wait", "last", "fail", "idle"} \subseteq OwnerSteps
    BY DEF OwnerSteps, ReceiveSteps
  <2> QED
    BY <1>6, <1>7, <2>1, <2>2, <2>3
       DEF Receive, ReceivePoll, ReceiveCheckClosed, ReceiveWait, ReceiveLast
<1>8. CASE Send
  <2>1. {"cas", "sendlock", "sending", "idle"} \subseteq OwnerSteps
    BY DEF OwnerSteps, CloseSteps, SetClosedSteps
  <2>2. CASE SendBegin
    BY <1>6, <2>1, <2>2 DEF SendBegin
  <2>3. CASE LockWrite("owner", "sendlock", "sending")
    BY <2>1, <2>3 DEF LockWrite
  <2>4. CASE SendWrite
    BY <2>1, <2>4 DEF SendWrite, UnlockWrite
  <2> QED
    BY <1>8, <2>2, <2>3, <2>4 DEF Send
<1>9. CASE Ping
  BY <1>9 DEF Ping, PingBegin, PingWrite, LockWrite, UnlockWrite, PingerSteps
<1>10. CASE Close
  <2>1. {"cas", "store", "close", "lock", "control", "shut", "end"} \subseteq OwnerSteps
    BY DEF OwnerSteps, CloseSteps, SetClosedSteps
  <2>2. CASE SetClosedCAS("owner", "lock")
    BY <2>1, <2>2 DEF SetClosedCAS
  <2>3. CASE SetClosedStore("owner", ErrClient)
    BY <2>1, <2>3 DEF SetClosedStore
  <2>4. CASE SetClosedDone("owner", "lock")
    BY <2>1, <2>4 DEF SetClosedDone
  <2>5. CASE CloseSocket
    BY <2>1, <2>5 DEF CloseSocket
  <2>6. CASE LockWrite("owner", "lock", "control")
    BY <2>1, <2>6 DEF LockWrite
  <2>7. CASE UnlockWrite("owner", "control", "shut")
    BY <2>1, <2>7 DEF UnlockWrite
  <2>8. CASE CloseBegin
    BY <1>6, <2>1, <2>8 DEF CloseBegin
  <2> QED
    BY <1>10, <2>2, <2>3, <2>4, <2>5, <2>6, <2>7, <2>8
       DEF Close, CloseAfterBegin, SetClosed
<1>11. CASE UNCHANGED vars
  BY <1>11 DEF vars
<1> QED
  BY <1>1, <1>2, <1>3, <1>4, <1>5, <1>7, <1>8, <1>9, <1>10, <1>11
     DEF Next, ReaderStep, Terminated

----------------------------------------------------------------------------
(* The inductive invariant.                                                *)

LEMMA InitIInv == Init => IInv
<1> SUFFICES ASSUME Init PROVE IInv
  OBVIOUS
<1>1. TypeOK
  BY InitType
<1>2. FrameConservation
  BY DEF Init, FrameConservation
<1>3. CloserInv
  BY DEF Init, CloserInv, Closer, At, Done, Proc
<1>4. HandInv /\ OwnerInv
  BY DEF Init, HandInv, OwnerInv, At, Proc, SetClosedSteps, ReceiveSteps
<1> QED
  BY <1>1, <1>2, <1>3, <1>4 DEF IInv

\* Only the reader's two channel steps and Take move frames.
LEMMA ConservationStep ==
  TypeOK /\ HandInv /\ FrameConservation /\ [Next]_vars => FrameConservation'
<1> SUFFICES ASSUME TypeOK, HandInv, FrameConservation, [Next]_vars
             PROVE  FrameConservation'
  OBVIOUS
<1>1. CASE ReadFrame
  BY <1>1 DEF ReadFrame, FrameConservation, HandInv, TypeOK, At
<1>2. CASE Enqueue
  <2>1. /\ delivered' = delivered /\ read' = read /\ hand' = 0
        /\ Len(msgs') = Len(msgs) + 1
        /\ msgs'[Len(msgs) + 1] = hand
        /\ \A i \in 1 .. Len(msgs) : msgs'[i] = msgs[i]
    BY <1>2 DEF Enqueue, TypeOK
  <2>2. hand = read /\ read = Len(delivered) + Len(msgs) + 1
    BY <1>2 DEF Enqueue, FrameConservation, HandInv
  <2>3. Len(msgs) \in Nat /\ Len(delivered) \in Nat
    BY DEF TypeOK
  <2>4. ASSUME NEW i \in 1 .. Len(msgs') PROVE msgs'[i] = Len(delivered') + i
    <3>1. CASE i \in 1 .. Len(msgs)
      BY <2>1, <3>1 DEF FrameConservation
    <3>2. CASE i = Len(msgs) + 1
      BY <2>1, <2>2, <3>2
    <3> QED
      BY <2>1, <2>3, <3>1, <3>2
  <2> QED
    BY <2>1, <2>2, <2>3, <2>4 DEF FrameConservation
<1>3. CASE Take
  <2>1. /\ Len(delivered') = Len(delivered) + 1
        /\ delivered'[Len(delivered) + 1] = msgs[1]
        /\ \A i \in 1 .. Len(delivered) : delivered'[i] = delivered[i]
        /\ Len(msgs') = Len(msgs) - 1
        /\ \A i \in 1 .. Len(msgs') : msgs'[i] = msgs[i + 1]
        /\ read' = read /\ hand' = hand
        /\ Len(msgs) >= 1
    BY <1>3 DEF Take, TypeOK
  <2>2. Len(msgs) \in Nat /\ Len(delivered) \in Nat /\ read \in Nat /\ hand \in Nat
    BY DEF TypeOK
  <2>3. ASSUME NEW i \in 1 .. Len(delivered') PROVE delivered'[i] = i
    <3>1. CASE i \in 1 .. Len(delivered)
      BY <2>1, <3>1 DEF FrameConservation
    <3>2. CASE i = Len(delivered) + 1
      <4>1. msgs[1] = Len(delivered) + 1
        BY <2>1, <2>2 DEF FrameConservation
      <4> QED
        BY <2>1, <3>2, <4>1
    <3> QED
      BY <2>1, <2>2, <3>1, <3>2
  <2>4. ASSUME NEW i \in 1 .. Len(msgs') PROVE msgs'[i] = Len(delivered') + i
    <3>1. i + 1 \in 1 .. Len(msgs) /\ i \in Nat
      BY <2>1, <2>2
    <3>2. msgs[i + 1] = Len(delivered) + (i + 1)
      BY <3>1 DEF FrameConservation
    <3> QED
      BY <2>1, <2>2, <3>1, <3>2
  <2>5. Len(delivered') + Len(msgs') = Len(delivered) + Len(msgs)
    BY <2>1, <2>2
  <2> QED
    BY <2>1, <2>2, <2>3, <2>4, <2>5 DEF FrameConservation
<1>4. CASE UNCHANGED <<delivered, msgs, hand, read>>
  BY <1>4 DEF FrameConservation
<1> QED
  BY <1>1, <1>2, <1>3, <1>4
     DEF Next, ReaderStep, ReadFail, AbandonFrame, SetClosed, SetClosedCAS,
         SetClosedStore, SetClosedDone, Receive, ReceivePoll, ReceiveCheckClosed,
         ReceiveWait, ReceiveLast, ReceiveFail, OwnerGoto, Send, SendBegin, SendWrite,
         LockWrite, UnlockWrite, Ping, PingBegin, PingWrite, Close, CloseBegin,
         CloseAfterBegin, CloseSocket, Terminated, vars

\* setClosed: the compare-and-swap admits one caller to close(done).
LEMMA CloserStep == TypeOK /\ CloserInv /\ [Next]_vars => CloserInv'
<1> SUFFICES ASSUME TypeOK, CloserInv, [Next]_vars PROVE CloserInv'
  OBVIOUS
<1> USE DEF CloserInv, Closer, At, Done, Goto
<1>1. ASSUME NEW p \in {"reader", "owner"}, NEW after \in {"gone", "lock"},
             SetClosedCAS(p, after)
      PROVE  CloserInv'
  BY <1>1 DEF SetClosedCAS, TypeOK, Proc
<1>2. ASSUME NEW p \in {"reader", "owner"}, NEW err \in {ErrPeer, ErrClient},
             SetClosedStore(p, err)
      PROVE  CloserInv'
  BY <1>2 DEF SetClosedStore, TypeOK, Proc, NoErr, ErrPeer, ErrClient
<1>3. ASSUME NEW p \in {"reader", "owner"}, NEW after \in {"gone", "lock"},
             SetClosedDone(p, after)
      PROVE  CloserInv'
  BY <1>3 DEF SetClosedDone, TypeOK, Proc
<1>4. ASSUME UNCHANGED <<closed, closeErr, doneCloses>>,
             NEW p \in Proc,
             NEW step \in (ReaderSteps \cup OwnerSteps \cup PingerSteps)
                            \ {"store", "close"},
             pc' = [pc EXCEPT ![p] = step]
      PROVE  CloserInv'
  BY <1>4 DEF TypeOK, Proc
<1>5. CASE UNCHANGED <<pc, closed, closeErr, doneCloses>>
  BY <1>5
<1> QED
  <2> HIDE DEF CloserInv
  <2> QED
    BY <1>1, <1>2, <1>3, <1>4, <1>5
     DEF Next, ReaderStep, ReadFrame, ReadFail, Enqueue, AbandonFrame, SetClosed,
         Receive, ReceivePoll, Take, ReceiveCheckClosed,
         ReceiveWait, ReceiveLast, ReceiveFail, OwnerGoto, Send, SendBegin, SendWrite,
         LockWrite, UnlockWrite, Ping, PingBegin, PingWrite, Close, CloseBegin,
         CloseAfterBegin, CloseSocket, Terminated, vars, Proc, ReaderSteps, OwnerSteps,
         PingerSteps, SetClosedSteps, ReceiveSteps, CloseSteps

\* The reader's hand, and who may have closed a connection that is in use.
LEMMA OwnerStep == IInv /\ [Next]_vars => (HandInv /\ OwnerInv)'
<1> SUFFICES ASSUME IInv, [Next]_vars PROVE (HandInv /\ OwnerInv)'
  OBVIOUS
<1> USE DEF IInv, TypeOK, HandInv, OwnerInv, At, Goto, Proc, SetClosedSteps
<1>1. CASE ReadFrame
  <2>1. reported = NoErr
    BY <1>1 DEF ReadFrame
  <2> QED
    BY <1>1, <2>1 DEF ReadFrame
<1>2. CASE ReadFail
  BY <1>2 DEF ReadFail
<1>3. CASE Enqueue
  BY <1>3 DEF Enqueue, ReceiveSteps, CloseSteps
<1>4. CASE AbandonFrame
  BY <1>4 DEF AbandonFrame, CloserInv, Done
<1>5. CASE SetClosed("reader", ErrPeer, "gone")
  BY <1>5 DEF SetClosed, SetClosedCAS, SetClosedStore, SetClosedDone, CloserInv, Closer
<1>6. CASE Take /\ (ReceivePoll \/ ReceiveWait \/ ReceiveLast)
  BY <1>6 DEF Take, ReceivePoll, ReceiveWait, ReceiveLast, ReceiveSteps, CloseSteps
<1>7. CASE \/ reported = NoErr /\ pc["owner"] \in {"start", "idle"} /\ OwnerGoto("check")
           \/ ReceiveCheckClosed
           \/ At("owner", "wait") /\ OwnerGoto("idle")
           \/ At("owner", "wait") /\ Done /\ OwnerGoto("last")
           \/ At("owner", "last") /\ msgs = << >> /\ OwnerGoto("fail")
  BY <1>7 DEF OwnerGoto, ReceiveCheckClosed, CloserInv, ReceiveSteps, CloseSteps
<1>8. CASE ReceiveFail
  BY <1>8 DEF ReceiveFail, ReceiveSteps, CloseSteps
<1>9. CASE Send
  BY <1>9 DEF Send, SendBegin, OwnerGoto, LockWrite, SendWrite, UnlockWrite,
     ReceiveSteps, CloseSteps
<1>10. CASE Ping
  BY <1>10 DEF Ping, PingBegin, PingWrite, LockWrite, UnlockWrite
<1>11. CASE Close
  BY <1>11 DEF Close, CloseBegin, CloseAfterBegin, OwnerGoto, SetClosed, SetClosedCAS,
     SetClosedStore, SetClosedDone, LockWrite, UnlockWrite, CloseSocket, ReceiveSteps,
     CloseSteps
<1>12. CASE UNCHANGED vars
  BY <1>12 DEF vars
<1> QED
  BY <1>1, <1>2, <1>3, <1>4, <1>5, <1>6, <1>7, <1>8, <1>9, <1>10, <1>11, <1>12
     DEF Next, ReaderStep, Receive, ReceivePoll, ReceiveCheckClosed, ReceiveWait,
         ReceiveLast, Terminated

----------------------------------------------------------------------------
(* The theorems.                                                           *)

\* The state of a connection is well typed, and msgs stays within its capacity.
THEOREM TypeCorrect == Spec => []TypeOK
  BY InitType, TypeInductive, PTL DEF Spec

\* IInv holds throughout every behaviour of reader, owner and pinger.
THEOREM InductiveInvariant == Spec => []IInv
<1>1. IInv /\ [Next]_vars => IInv'
  BY TypeInductive, ConservationStep, CloserStep, OwnerStep DEF IInv
<1> QED
  BY InitIInv, <1>1, PTL DEF Spec

\* No frame that came off the socket is lost, repeated or reordered on its way
\* through msgs to Receive.
THEOREM FramesConserved == Spec => []FrameConservation
<1>1. IInv => FrameConservation
  BY DEF IInv
<1> QED
  BY InductiveInvariant, <1>1, PTL

\* Receive reports a broken connection only after its last frame.
THEOREM ErrorAfterLastFrame == Spec => []ErrorMeansDrained
<1>1. IInv => ErrorMeansDrained
  BY DEF IInv, TypeOK, FrameConservation, OwnerInv, ErrorMeansDrained, SetClosedSteps
<1> QED
  BY InductiveInvariant, <1>1, PTL

\* done is closed at most once, and never before closed and closeErr are set.
THEOREM DoneClosedAtMostOnce == Spec => []DoneClosedOnce
<1>1. IInv => DoneClosedOnce
  BY DEF IInv, CloserInv, DoneClosedOnce, Done
<1> QED
  BY InductiveInvariant, <1>1, PTL

\* Each step of the connection is a step of the abstract stream, or none.
LEMMA StreamStep == IInv /\ [Next]_vars => [Stream!Next]_(Stream!streamVars)
<1> SUFFICES ASSUME IInv, [Next]_vars PROVE [Stream!Next]_(Stream!streamVars)
  OBVIOUS
<1> USE DEF IInv, TypeOK, At, Goto, Proc
<1>1. CASE ReadFrame
  <2>1. PhaseBar # "ended" /\ PhaseBar' = PhaseBar
    BY <1>1 DEF ReadFrame, PhaseBar
  <2>2. read - Len(delivered) <= MsgCap
    BY <1>1 DEF ReadFrame, FrameConservation, HandInv
  <2> QED
    BY <1>1, <2>1, <2>2 DEF ReadFrame, Stream!Next, Stream!Arrive
<1>2. CASE ReadFail
  <2>1. \/ PhaseBar = "open" /\ PhaseBar' = "ended"
        \/ PhaseBar' = PhaseBar
    BY <1>2 DEF ReadFail, PhaseBar
  <2> QED
    BY <1>2, <2>1 DEF ReadFail, Stream!Next, Stream!EndOfStream, Stream!streamVars
<1>3. CASE Take /\ (ReceivePoll \/ ReceiveWait \/ ReceiveLast)
  <2>1. reported = NoErr /\ PhaseBar # "abandoned" /\ PhaseBar' = PhaseBar
    BY <1>3 DEF Take, ReceivePoll, ReceiveWait, ReceiveLast, OwnerInv, ReceiveSteps,
       CloseSteps, SetClosedSteps, PhaseBar
  <2>2. /\ Len(delivered) < read
        /\ delivered' = Append(delivered, Len(delivered) + 1)
    BY <1>3 DEF Take, FrameConservation
  <2> QED
    BY <1>3, <2>1, <2>2 DEF Take, Stream!Next, Stream!Deliver
<1>4. CASE ReceiveFail
  <2>1. PhaseBar = "ended" /\ PhaseBar' = PhaseBar
    BY <1>4 DEF ReceiveFail, OwnerInv, PhaseBar, CloseSteps, SetClosedSteps
  <2>2. Len(delivered) = read
    BY <1>4 DEF ReceiveFail, OwnerInv, HandInv, FrameConservation, CloseSteps,
       SetClosedSteps
  <2>3. reported = NoErr /\ reported' # NoErr
    BY <1>4 DEF ReceiveFail, OwnerInv, ReceiveSteps, NoErr, ErrPeer, ErrClient, ErrAlready
  <2> QED
    BY <1>4, <2>1, <2>2, <2>3 DEF ReceiveFail, Stream!Next, Stream!Tell
<1>5. CASE /\ UNCHANGED <<read, delivered, reported>>
           /\ pc["owner"] \notin CloseSteps
           /\ pc' = [pc EXCEPT !["owner"] = "cas"]
  <2>1. PhaseBar # "abandoned" /\ PhaseBar' = "abandoned"
    BY <1>5 DEF PhaseBar, CloseSteps, SetClosedSteps
  <2> QED
    BY <1>5, <2>1 DEF Stream!Next, Stream!Abandon
<1>6. CASE UNCHANGED <<read, delivered, reported, PhaseBar>>
  BY <1>6 DEF Stream!streamVars
<1>7. CASE Enqueue \/ AbandonFrame \/ SetClosed("reader", ErrPeer, "gone")
  <2>1. AbandonFrame => pc["owner"] \in CloseSteps
    BY DEF AbandonFrame, CloserInv, OwnerInv, Done
  <2> QED
    BY <1>6, <1>7, <2>1 DEF Enqueue, AbandonFrame, SetClosed, SetClosedCAS,
       SetClosedStore, SetClosedDone, PhaseBar
<1>8. CASE \/ reported = NoErr /\ pc["owner"] \in {"start", "idle"} /\ OwnerGoto("check")
           \/ ReceiveCheckClosed
           \/ At("owner", "wait") /\ (OwnerGoto("idle") \/ OwnerGoto("last"))
           \/ At("owner", "last") /\ OwnerGoto("fail")
  BY <1>6, <1>8 DEF OwnerGoto, ReceiveCheckClosed, PhaseBar, CloseSteps, SetClosedSteps
<1>9. CASE Send
  <2>1. CASE pc' = [pc EXCEPT !["owner"] = "cas"]
    BY <1>5, <1>9, <2>1 DEF Send, SendBegin, SendWrite, OwnerGoto, LockWrite, UnlockWrite,
       CloseSteps, SetClosedSteps
  <2>2. CASE pc' # [pc EXCEPT !["owner"] = "cas"]
    BY <1>6, <1>9, <2>2 DEF Send, SendBegin, SendWrite, OwnerGoto, LockWrite, UnlockWrite,
       CloseSteps, SetClosedSteps, PhaseBar
  <2> QED
    BY <2>1, <2>2
<1>10. CASE Ping
  BY <1>6, <1>10 DEF Ping, PingBegin, PingWrite, LockWrite, UnlockWrite, PhaseBar
<1>11. CASE CloseBegin
  BY <1>5, <1>11 DEF CloseBegin, OwnerGoto, CloseSteps, SetClosedSteps
<1>12. CASE CloseAfterBegin
  BY <1>6, <1>12 DEF CloseAfterBegin, SetClosed, SetClosedCAS, SetClosedStore,
     SetClosedDone, LockWrite, UnlockWrite, CloseSocket, CloseSteps, SetClosedSteps, PhaseBar
<1>13. CASE UNCHANGED vars
  BY <1>6, <1>13 DEF vars, PhaseBar
<1> QED
  BY <1>1, <1>2, <1>3, <1>4, <1>7, <1>8, <1>9, <1>10, <1>11, <1>12, <1>13
     DEF Next, ReaderStep, Receive, ReceivePoll, ReceiveWait, ReceiveLast, Close,
         Terminated

\* The connection is an ordered, loss-free, bounded stream whose end is told last:
\* WsConn implements FrameStream under the mapping of its instance Stream.
THEOREM ConnectionImplementsStream == Spec => ImplementsStream
<1>1. Init => Stream!Init
  BY DEF Init, Stream!Init, PhaseBar, CloseSteps, SetClosedSteps, Proc
<1>2. IInv /\ [Next]_vars => [Stream!Next]_(Stream!streamVars)
  BY StreamStep
<1> QED
  BY InductiveInvariant, <1>1, <1>2, PTL DEF Spec, ImplementsStream, Stream!Spec

----------------------------------------------------------------------------
(* Close and the end of a connection: what fairness needs to bring them    *)
(* about.  A number says how much is left to do; nobody adds to it, and    *)
(* somebody who does not wait takes from it.                               *)

\* Who holds writeMu, and when the socket is closed.
MutexInv ==
  /\ writeMu \in {"free", "owner", "pinger"}
  /\ writeMu = "owner" <=> pc["owner"] \in {"sending", "control"}
  /\ writeMu = "pinger" <=> At("pinger", "write")
  /\ sockClosed <=> At("owner", "end")

\* Past its setClosed the owner finds done closed, unless the reader is about to close it.
DoneInv ==
  /\ pc["owner"] \in CloseSteps \ {"cas"} => closed
  /\ closed /\ At("owner", "cas") => pc["reader"] \in {"store", "close", "gone"}
  /\ pc["reader"] \in {"read", "offer"} /\ pc["owner"] \in {"lock", "control", "shut", "end"}
       => Done
  /\ At("reader", "gone") => closed

Closing == closed /\ pc["owner"] \in CloseSteps
AllEnded == At("owner", "end") /\ At("reader", "gone") /\ At("pinger", "idle")

OwnerLeft == CASE At("owner", "cas") -> 6     [] At("owner", "store") -> 5
               [] At("owner", "close") -> 4   [] At("owner", "lock") -> 3
               [] At("owner", "control") -> 2 [] At("owner", "shut") -> 1
               [] OTHER -> 0
PingerLeft == CASE At("pinger", "lock") -> 2 [] At("pinger", "write") -> 1 [] OTHER -> 0
ReaderLeft == CASE At("reader", "offer") -> 5 [] At("reader", "read") -> 4
                [] At("reader", "cas") -> 3   [] At("reader", "store") -> 2
                [] At("reader", "close") -> 1 [] OTHER -> 0

\* Until the socket is closed the reader may go on reading: its share counts in full.
ClosingLeft == OwnerLeft + PingerLeft + (IF sockClosed THEN ReaderLeft ELSE 5)

\* Somebody can take a step of the close that no other goroutine has to make way for.
CloseGoesOn ==
  Closing /\ ~AllEnded =>
    \/ pc["owner"] \in {"cas", "store", "close", "control", "shut"}
    \/ At("owner", "lock") /\ (writeMu = "free" \/ At("pinger", "write"))
    \/ At("owner", "end") /\ \/ At("pinger", "lock") /\ writeMu = "free"
                             \/ At("pinger", "write")
                             \/ pc["reader"] \in {"read", "cas", "store", "close"}
                             \/ At("reader", "offer") /\ Done

CloseShrinks ==
  [][Closing => /\ Closing' /\ ClosingLeft' <= ClosingLeft
                /\ sockClosed \/ pc'["owner"] # pc["owner"] \/ pc'["pinger"] # pc["pinger"]
                     => ClosingLeft' < ClosingLeft]_vars

LEMMA MutexStep == TypeOK /\ MutexInv /\ [Next]_vars => MutexInv'
<1> SUFFICES ASSUME TypeOK, MutexInv, [Next]_vars PROVE MutexInv'
  OBVIOUS
<1> USE DEF TypeOK, MutexInv, At, Goto, Proc
<1>1. CASE ReaderStep
  <2>1. UNCHANGED <<writeMu, sockClosed>> /\ pc'["owner"] = pc["owner"] /\ pc'["pinger"] = pc["pinger"]
    BY <1>1 DEF ReaderStep, ReadFrame, ReadFail, Enqueue, AbandonFrame, SetClosed, SetClosedCAS,
       SetClosedStore, SetClosedDone
  <2> QED
    BY <2>1
<1>2. CASE Receive
  <2>1. /\ UNCHANGED <<writeMu, sockClosed>> /\ pc'["pinger"] = pc["pinger"]
        /\ pc["owner"] \in {"start", "idle", "check", "wait", "last", "fail"}
        /\ pc'["owner"] \in {"idle", "check", "wait", "last", "fail"}
    BY <1>2 DEF Receive, ReceivePoll, Take, ReceiveCheckClosed, ReceiveWait, ReceiveLast,
       ReceiveFail, OwnerGoto
  <2> QED
    BY <2>1
<1>3. CASE Send
  BY <1>3 DEF Send, SendBegin, OwnerGoto, LockWrite, SendWrite, UnlockWrite
<1>4. CASE Ping
  BY <1>4 DEF Ping, PingBegin, PingWrite, LockWrite, UnlockWrite
<1>5. CASE CloseBegin \/ SetClosed("owner", ErrClient, "lock")
  BY <1>5 DEF CloseBegin, OwnerGoto, SetClosed, SetClosedCAS, SetClosedStore, SetClosedDone
<1>6. CASE LockWrite("owner", "lock", "control") \/ UnlockWrite("owner", "control", "shut")
  BY <1>6 DEF LockWrite, UnlockWrite
<1>7. CASE CloseSocket
  BY <1>7 DEF CloseSocket
<1>8. CASE UNCHANGED vars
  BY <1>8 DEF vars
<1> QED
  BY <1>1, <1>2, <1>3, <1>4, <1>5, <1>6, <1>7, <1>8 DEF Next, Close, CloseAfterBegin, Terminated

LEMMA DoneStep == IInv /\ DoneInv /\ [Next]_vars => DoneInv'
<1> SUFFICES ASSUME IInv, DoneInv, [Next]_vars PROVE DoneInv'
  OBVIOUS
<1> USE DEF IInv, TypeOK, DoneInv, At, Goto, Proc, Done, CloseSteps, SetClosedSteps
<1>1. CASE ReadFrame \/ ReadFail \/ Enqueue \/ AbandonFrame
  BY <1>1 DEF ReadFrame, ReadFail, Enqueue, AbandonFrame, CloserInv
<1>2. CASE SetClosed("reader", ErrPeer, "gone")
  <2>1. CASE SetClosedCAS("reader", "gone")
    BY <2>1 DEF SetClosedCAS
  <2>2. CASE SetClosedStore("reader", ErrPeer)
    BY <2>2 DEF SetClosedStore
  <2>3. CASE SetClosedDone("reader", "gone")
    BY <2>3 DEF SetClosedDone, CloserInv, Closer
  <2> QED
    BY <1>2, <2>1, <2>2, <2>3 DEF SetClosed
<1>3. CASE Receive
  <2>1. /\ UNCHANGED <<closed, doneCloses>> /\ pc'["reader"] = pc["reader"]
        /\ pc'["owner"] \in {"idle", "check", "wait", "last", "fail"}
    BY <1>3 DEF Receive, ReceivePoll, Take, ReceiveCheckClosed, ReceiveWait, ReceiveLast,
       ReceiveFail, OwnerGoto
  <2> QED
    BY <2>1
<1>4. CASE Send \/ CloseBegin
  <2>1. /\ UNCHANGED <<closed, doneCloses>> /\ pc'["reader"] = pc["reader"]
        /\ pc["owner"] \notin CloseSteps
        /\ pc'["owner"] \in {"sendlock", "sending", "idle", "cas"}
    BY <1>4 DEF Send, SendBegin, OwnerGoto, LockWrite, SendWrite, UnlockWrite, CloseBegin
  <2> QED
    BY <2>1 DEF OwnerInv
<1>5. CASE Ping
  <2>1. UNCHANGED <<closed, doneCloses>> /\ pc'["reader"] = pc["reader"] /\ pc'["owner"] = pc["owner"]
    BY <1>5 DEF Ping, PingBegin, PingWrite, LockWrite, UnlockWrite
  <2> QED
    BY <2>1
<1>6. CASE SetClosed("owner", ErrClient, "lock")
  <2>1. CASE SetClosedCAS("owner", "lock")
    BY <2>1 DEF SetClosedCAS
  <2>2. CASE SetClosedStore("owner", ErrClient)
    BY <2>2 DEF SetClosedStore
  <2>3. CASE SetClosedDone("owner", "lock")
    BY <2>3 DEF SetClosedDone
  <2> QED
    BY <1>6, <2>1, <2>2, <2>3 DEF SetClosed
<1>7. CASE LockWrite("owner", "lock", "control") \/ UnlockWrite("owner", "control", "shut")
           \/ CloseSocket
  BY <1>7 DEF LockWrite, UnlockWrite, CloseSocket
<1>8. CASE UNCHANGED vars
  BY <1>8 DEF vars
<1> QED
  BY <1>1, <1>2, <1>3, <1>4, <1>5, <1>6, <1>7, <1>8
     DEF Next, ReaderStep, Close, CloseAfterBegin, Terminated

LEMMA NobodyWaits == IInv /\ MutexInv /\ DoneInv => CloseGoesOn
BY DEF IInv, TypeOK, MutexInv, DoneInv, CloseGoesOn, Closing, AllEnded, At, CloseSteps,
       SetClosedSteps, ReaderSteps, PingerSteps

\* What shrinks one share of ClosingLeft and lets no other grow shrinks the sum.
LEMMA SumShrinks ==
  \A o, p, r, s, m \in Nat :
    s < r => /\ o + p + s < o + p + r /\ o + p + s <= o + p + r
             /\ o + s + p < o + r + p /\ o + s + p <= o + r + p
             /\ m <= o => s + p + m < r + p + o /\ s + p + m <= r + p + o
OBVIOUS

LEMMA ClosingStep ==
  ASSUME IInv, MutexInv, DoneInv, Closing, [Next]_vars
  PROVE  /\ Closing' /\ ClosingLeft' <= ClosingLeft
         /\ vars' # vars /\ (sockClosed \/ pc'["owner"] # pc["owner"] \/ pc'["pinger"] # pc["pinger"])
              => ClosingLeft' < ClosingLeft
<1> USE DEF At, Goto, Proc
<1>1. pc \in [Proc -> ReaderSteps \cup OwnerSteps \cup PingerSteps] /\ closed
      /\ pc["owner"] \in CloseSteps /\ sockClosed \in BOOLEAN
  BY DEF IInv, TypeOK, Closing
<1>2. /\ OwnerLeft \in Nat /\ OwnerLeft' \in Nat /\ PingerLeft \in Nat /\ PingerLeft' \in Nat
      /\ ReaderLeft \in Nat /\ ReaderLeft' \in Nat /\ ReaderLeft' <= 5
  BY DEF OwnerLeft, PingerLeft, ReaderLeft
<1>3. CASE ReaderStep
  <2>1. UNCHANGED sockClosed /\ pc'["owner"] = pc["owner"] /\ pc'["pinger"] = pc["pinger"] /\ closed'
    BY <1>1, <1>3 DEF ReaderStep, ReadFrame, ReadFail, Enqueue, AbandonFrame, SetClosed, SetClosedCAS,
       SetClosedStore, SetClosedDone
  <2>2. UNCHANGED <<OwnerLeft, PingerLeft>>
    BY <2>1 DEF OwnerLeft, PingerLeft
  <2>3. sockClosed => ReaderLeft' < ReaderLeft
    <3>1. \/ At("reader", "read") /\ (sockClosed => pc'["reader"] = "cas")
          \/ At("reader", "offer") /\ pc'["reader"] \in {"read", "gone"}
          \/ At("reader", "cas") /\ pc'["reader"] \in {"store", "gone"}
          \/ At("reader", "store") /\ pc'["reader"] = "close"
          \/ At("reader", "close") /\ pc'["reader"] = "gone"
      BY <1>1, <1>3 DEF ReaderStep, ReadFrame, ReadFail, Enqueue, AbandonFrame, SetClosed,
         SetClosedCAS, SetClosedStore, SetClosedDone
    <3> QED
      BY <3>1 DEF ReaderLeft
  <2>4. Closing'
    BY <1>1, <2>1 DEF Closing
  <2>5. CASE sockClosed
    <3>1. /\ ClosingLeft = OwnerLeft + PingerLeft + ReaderLeft
          /\ ClosingLeft' = OwnerLeft + PingerLeft + ReaderLeft'
      BY <2>1, <2>2, <2>5 DEF ClosingLeft
    <3>2. ClosingLeft' < ClosingLeft /\ ClosingLeft' <= ClosingLeft
      BY <1>2, <2>3, <2>5, <3>1, SumShrinks, Zenon
    <3> QED
      BY <2>4, <3>2
  <2>6. CASE ~sockClosed
    <3>1. /\ ClosingLeft = OwnerLeft + PingerLeft + 5
          /\ ClosingLeft' = OwnerLeft + PingerLeft + 5
      BY <2>1, <2>2, <2>6 DEF ClosingLeft
    <3> QED
      BY <1>2, <2>1, <2>4, <2>6, <3>1
  <2> QED
    BY <2>5, <2>6
<1>4. CASE Receive \/ Send \/ CloseBegin
  <2>1. pc["owner"] \in {"start", "idle", "check", "wait", "last", "fail", "sendlock", "sending"}
    BY <1>4 DEF Receive, ReceivePoll, ReceiveCheckClosed, ReceiveWait, ReceiveLast, ReceiveFail, Send,
       SendBegin, LockWrite, SendWrite, UnlockWrite, CloseBegin
  <2> QED
    BY <1>1, <2>1 DEF CloseSteps, SetClosedSteps
<1>5. CASE Ping
  <2>1. UNCHANGED <<sockClosed, closed>> /\ pc'["owner"] = pc["owner"] /\ pc'["reader"] = pc["reader"]
    BY <1>1, <1>5 DEF Ping, PingBegin, PingWrite, LockWrite, UnlockWrite
  <2>2. \/ At("pinger", "lock") /\ pc'["pinger"] = "write"
        \/ At("pinger", "write") /\ pc'["pinger"] = "idle"
    BY <1>1, <1>5 DEF Ping, PingBegin, PingWrite, LockWrite, UnlockWrite
  <2>3. PingerLeft' < PingerLeft
    BY <2>2 DEF PingerLeft
  <2>4. UNCHANGED <<OwnerLeft, ReaderLeft>>
    BY <2>1 DEF OwnerLeft, ReaderLeft
  <2>5. Closing'
    BY <1>1, <2>1 DEF Closing
  <2>6. PICK n \in Nat : ClosingLeft = OwnerLeft + PingerLeft + n /\ ClosingLeft' = OwnerLeft + PingerLeft' + n
    BY <1>2, <2>1, <2>4 DEF ClosingLeft
  <2>7. ClosingLeft' < ClosingLeft /\ ClosingLeft' <= ClosingLeft
    BY <1>2, <2>3, <2>6, SumShrinks, Zenon
  <2> QED
    BY <2>5, <2>7
<1>6. CASE CloseAfterBegin
  <2>1. /\ pc'["reader"] = pc["reader"] /\ pc'["pinger"] = pc["pinger"]
        /\ closed' /\ (sockClosed => sockClosed') /\ sockClosed' \in BOOLEAN
    BY <1>1, <1>6 DEF CloseAfterBegin, SetClosed, SetClosedCAS, SetClosedStore, SetClosedDone,
       LockWrite, UnlockWrite, CloseSocket
  <2>2. \/ At("owner", "cas") /\ pc'["owner"] \in {"store", "lock"}
        \/ At("owner", "store") /\ pc'["owner"] = "close"
        \/ At("owner", "close") /\ pc'["owner"] = "lock"
        \/ At("owner", "lock") /\ pc'["owner"] = "control"
        \/ At("owner", "control") /\ pc'["owner"] = "shut"
        \/ At("owner", "shut") /\ pc'["owner"] = "end"
    BY <1>1, <1>6 DEF CloseAfterBegin, SetClosed, SetClosedCAS, SetClosedStore, SetClosedDone,
       LockWrite, UnlockWrite, CloseSocket
  <2>3. OwnerLeft' < OwnerLeft /\ pc'["owner"] \in CloseSteps
    BY <2>2 DEF OwnerLeft, CloseSteps, SetClosedSteps
  <2>4. UNCHANGED <<PingerLeft, ReaderLeft>>
    BY <2>1 DEF PingerLeft, ReaderLeft
  <2>5. Closing'
    BY <2>1, <2>3 DEF Closing
  <2>6. PICK m, n \in Nat : /\ m <= n
                          /\ ClosingLeft = OwnerLeft + PingerLeft + n
                          /\ ClosingLeft' = OwnerLeft' + PingerLeft + m
    <3>1. CASE sockClosed
      BY <1>2, <2>1, <2>4, <3>1 DEF ClosingLeft
    <3>2. CASE ~sockClosed /\ sockClosed'
      BY <1>2, <2>4, <3>2 DEF ClosingLeft
    <3>3. CASE ~sockClosed /\ ~sockClosed'
      BY <1>2, <2>4, <3>3 DEF ClosingLeft
    <3> QED
      BY <3>1, <3>2, <3>3
  <2>7. ClosingLeft' < ClosingLeft /\ ClosingLeft' <= ClosingLeft
    BY <1>2, <2>3, <2>6, SumShrinks, Zenon
  <2> QED
    BY <2>5, <2>7
<1>7. CASE UNCHANGED vars
  <2>1. UNCHANGED <<pc, sockClosed, closed>>
    BY <1>7 DEF vars
  <2> QED
    BY <1>1, <1>2, <1>7, <2>1 DEF ClosingLeft, Closing, OwnerLeft, PingerLeft, ReaderLeft
<1> QED
  BY <1>3, <1>4, <1>5, <1>6, <1>7 DEF Next, Close, Terminated

\* A close in progress is never stuck, on writeMu, on a full msgs or on the reader, and every
\* step of those it needs brings it nearer to the end of all three goroutines.
THEOREM CloseIsNeverStuck == Spec => []CloseGoesOn /\ CloseShrinks
<1>1. Init => MutexInv /\ DoneInv
  BY DEF Init, MutexInv, DoneInv, At, Proc, CloseSteps, SetClosedSteps
<1>2. IInv /\ MutexInv /\ DoneInv /\ [Next]_vars => MutexInv' /\ DoneInv'
  BY MutexStep, DoneStep DEF IInv
<1>3. IInv /\ MutexInv /\ DoneInv => CloseGoesOn
  BY NobodyWaits
<1>4. IInv /\ MutexInv /\ DoneInv /\ [Next]_vars
        => [Closing => /\ Closing' /\ ClosingLeft' <= ClosingLeft
                       /\ sockClosed \/ pc'["owner"] # pc["owner"] \/ pc'["pinger"] # pc["pinger"]
                            => ClosingLeft' < ClosingLeft]_vars
  BY ClosingStep
<1> QED
  BY InductiveInvariant, <1>1, <1>2, <1>3, <1>4, PTL DEF Spec, CloseShrinks

----------------------------------------------------------------------------
(***************************************************************************)
(* Reporting the end: of EndIsReported the part that is safety.  The       *)
(* reader has closed the connection and its owner has not been told.       *)
(***************************************************************************)

Unreported == closed /\ reported = NoErr /\ pc["owner"] \notin CloseSteps

StepsLeft == CASE At("owner", "sendlock") -> 7 [] At("owner", "sending") -> 6
               [] At("owner", "wait") -> 5     [] pc["owner"] \in {"start", "idle"} -> 4
               [] At("owner", "check") -> 3    [] At("owner", "last") -> 2
               [] OTHER -> 1

\* A frame still queued costs the owner less than a whole round of Receive.
ReportLeft == 8 * Len(msgs) + StepsLeft

ReportShrinks ==
  [][Unreported =>
       \/ reported' # NoErr \/ At("owner", "cas")'
       \/ Unreported' /\ IF pc'["owner"] # pc["owner"] \/ msgs' # msgs
                           THEN ReportLeft' < ReportLeft ELSE ReportLeft' = ReportLeft]_vars

LEMMA TakeShrinks ==
  ASSUME NEW q \in Seq(Nat), q # << >>, NEW n \in 1 .. 7
  PROVE  8 * Len(Tail(q)) + 4 < 8 * Len(q) + n /\ Tail(q) # q
<1>1. Len(Tail(q)) = Len(q) - 1 /\ Len(q) \in Nat
  OBVIOUS
<1>2. Tail(q) # q
  <2>1. \A k \in Nat : k - 1 # k
    OBVIOUS
  <2> QED
    BY <1>1, <2>1, Zenon
<1>3. \A k \in Nat : 8 * (k - 1) + 4 < 8 * k + n
  OBVIOUS
<1> QED
  BY <1>1, <1>2, <1>3, Zenon

LEMMA UnreportedStep ==
  ASSUME IInv, Unreported, Next
  PROVE  \/ reported' # NoErr \/ At("owner", "cas")'
         \/ Unreported' /\ IF pc'["owner"] # pc["owner"] \/ msgs' # msgs
                             THEN ReportLeft' < ReportLeft ELSE ReportLeft' = ReportLeft
<1> USE DEF At, Goto, Proc
<1>1. /\ pc \in [Proc -> ReaderSteps \cup OwnerSteps \cup PingerSteps] /\ pc["owner"] \in OwnerSteps
      /\ msgs \in Seq(Nat) /\ Len(msgs) \in Nat /\ closed /\ reported = NoErr
      /\ pc["owner"] \notin CloseSteps /\ pc["reader"] \in {"store", "close", "gone"}
  BY DEF IInv, TypeOK, Unreported, OwnerInv
<1>2. StepsLeft \in 1 .. 7
  BY DEF StepsLeft
<1>3. CASE ReaderStep \/ Ping
  <2>1. UNCHANGED <<msgs, reported>> /\ pc'["owner"] = pc["owner"] /\ closed'
    BY <1>1, <1>3 DEF ReaderStep, ReadFrame, ReadFail, Enqueue, AbandonFrame, SetClosed, SetClosedCAS,
       SetClosedStore, SetClosedDone, Ping, PingBegin, PingWrite, LockWrite, UnlockWrite
  <2> QED
    BY <1>1, <2>1 DEF Unreported, ReportLeft, StepsLeft
<1>4. CASE /\ msgs # << >> /\ msgs' = Tail(msgs) /\ pc'["owner"] = "idle"
           /\ UNCHANGED <<closed, reported>>
  <2>1. ReportLeft' = 8 * Len(Tail(msgs)) + 4
    BY <1>4 DEF ReportLeft, StepsLeft
  <2>2. PICK n \in 1 .. 7 : ReportLeft = 8 * Len(msgs) + n
    BY <1>2 DEF ReportLeft
  <2>3. ReportLeft' < ReportLeft /\ msgs' # msgs
    BY <1>1, <1>4, <2>1, <2>2, TakeShrinks, Zenon
  <2> QED
    BY <1>1, <1>4, <2>3 DEF Unreported, CloseSteps, SetClosedSteps
<1>5. CASE /\ UNCHANGED <<msgs, closed, reported>>
           /\ \/ pc["owner"] \in {"start", "idle"} /\ pc'["owner"] = "check"
              \/ pc["owner"] = "check" /\ pc'["owner"] = "last"
              \/ pc["owner"] = "wait" /\ pc'["owner"] \in {"idle", "last"}
              \/ pc["owner"] = "last" /\ pc'["owner"] = "fail"
              \/ pc["owner"] = "sendlock" /\ pc'["owner"] = "sending"
              \/ pc["owner"] = "sending" /\ pc'["owner"] = "idle"
  BY <1>1, <1>5 DEF Unreported, ReportLeft, StepsLeft, CloseSteps, SetClosedSteps
<1>6. CASE Receive
  BY <1>1, <1>4, <1>5, <1>6 DEF Receive, ReceivePoll, Take, ReceiveCheckClosed, ReceiveWait,
     ReceiveLast, ReceiveFail, OwnerGoto, NoErr, ErrAlready
<1>7. CASE Send \/ CloseBegin
  BY <1>1, <1>5, <1>7 DEF Send, SendBegin, LockWrite, SendWrite, UnlockWrite, CloseBegin, OwnerGoto
<1>8. CASE CloseAfterBegin \/ Terminated
  BY <1>1, <1>8 DEF CloseAfterBegin, SetClosed, SetClosedCAS, SetClosedStore, SetClosedDone, LockWrite,
     UnlockWrite, CloseSocket, Terminated, CloseSteps, SetClosedSteps
<1> QED
  BY <1>3, <1>6, <1>7, <1>8 DEF Next, Close

\* Once the reader has closed the connection, every step of its owner brings the report of
\* the end nearer, unless it closes itself, and no step of anybody else takes it further off.
THEOREM ReportComesNearer == Spec => ReportShrinks
<1>1. IInv /\ [Next]_vars =>
        [Unreported =>
           \/ reported' # NoErr \/ At("owner", "cas")'
           \/ Unreported' /\ IF pc'["owner"] # pc["owner"] \/ msgs' # msgs
                               THEN ReportLeft' < ReportLeft ELSE ReportLeft' = ReportLeft]_vars
  BY UnreportedStep
<1> QED
  BY InductiveInvariant, <1>1, PTL DEF Spec, ReportShrinks

============================================================================
