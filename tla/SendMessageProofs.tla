------------------------- MODULE SendMessageProofs -------------------------
(***************************************************************************)
(* What the sender of a message is told, proved for every deadline, every  *)
(* slice of it and any amount of foreign traffic on its connection.        *)
(***************************************************************************)
EXTENDS SendMessage, WellFoundedInduction, SequenceTheorems, TLAPS

\* A set of naturals that is not empty has a least element.
LEMMA LeastElement ==
  ASSUME NEW S \in SUBSET Nat, S # {}
  PROVE  \E i \in S : \A j \in S : i <= j
<1> DEFINE R == {ss \in Nat \X Nat : ss[1] < ss[2]}
<1>1. OpToRel(<, Nat) = R
  BY DEF OpToRel
<1>2. IsWellFoundedOn(R, Nat)
  BY <1>1, NatLessThanWellFounded
<1>3. PICK x \in S : \A y \in S : ~(<<y, x>> \in R)
  <2> HIDE DEF R
  <2>1. QED
    BY <1>2, WFMin
<1>4. ASSUME NEW y \in S PROVE x <= y
  <2>1. x \in Nat /\ y \in Nat /\ ~(y < x)
    <3>1. <<y, x>> \in Nat \X Nat /\ <<y, x>>[1] = y /\ <<y, x>>[2] = x
      OBVIOUS
    <3>2. QED
      BY <1>3, <3>1
  <2>2. QED
    BY <2>1
<1>5. QED
  BY <1>4

\* The drain finds an acknowledgement of ours in a frame, whenever there is one.
LEMMA MatchIsMine ==
  ASSUME NEW frame \in Seq(Message)
  PROVE  \/ /\ \A i \in DOMAIN frame : frame[i].client # Mine
            /\ MatchSendAck(frame) = NoAck
         \/ \E i \in DOMAIN frame : frame[i].client = Mine /\ MatchSendAck(frame) = frame[i]
<1> DEFINE mine == {i \in DOMAIN frame : frame[i].client = Mine}
           least(i) == i \in mine /\ \A j \in mine : i <= j
<1>1. CASE mine = {}
  BY <1>1 DEF MatchSendAck
<1>2. CASE mine # {}
  <2>1. mine \in SUBSET Nat
    OBVIOUS
  <2>2. \E i \in mine : \A j \in mine : i <= j
    BY <1>2, <2>1, LeastElement
  <2>3. PICK i \in mine : i = CHOOSE k \in mine : \A j \in mine : k <= j
    BY <2>2
  <2>4. MatchSendAck(frame) = frame[i]
    BY <1>2, <2>3 DEF MatchSendAck
  <2>5. QED
    BY <2>4
<1>3. QED
  BY <1>1, <1>2

\* A message with our client id says what the server did with ours.
Truthful(msg) ==
  msg.client = Mine =>
    \/ fate = "delivered" /\ msg.id = Mine /\ ~msg.blocked
    \/ fate = "blocked" /\ msg.blocked

\* The server handles the request once, after it was posted or written.
RequestInv ==
  /\ pc \in {"start", "dial", "post", "write"} => ~request /\ fate = "none"
  /\ request => fate = "none"

WireInv == \A i \in DOMAIN wire : \A j \in DOMAIN wire[i] : Truthful(wire[i][j])

\* No outcome of this message was handed out while the sender still waits.
GotInv == pc # "done" => got = {} /\ result.kind = "none"

\* How the clocks of the drain relate.
ClockInv ==
  /\ pc \in {"start", "dial", "post", "write", "await"} => age = 0
  /\ pc = "drain" => (left > 0 => age + left = Deadline)
  /\ pc = "recv" => /\ left > 0 => age + left = Deadline
                    /\ age + slice < Deadline + Slice
  /\ EndsInTime

IInv == /\ TypeOK /\ RequestInv /\ WireInv /\ GotInv /\ ClockInv
        /\ ResultIsTrue /\ AckNotMissed

USE DEF local, server, vars

LEMMA Basics ==
  /\ Deadline \in Nat \ {0} /\ Slice \in Nat \ {0} /\ MaxNoise \in Nat
  /\ Mine # Other /\ Nobody # Mine /\ Nobody # Other
  /\ Id = {Mine, Other, Nobody} /\ Mine \in Id /\ Other \in Id /\ Nobody \in Id
  /\ NoAck \in Message /\ NoAck.client = Nobody /\ NoAck.id = Nobody /\ ~NoAck.blocked
BY SendAssumption DEF SendAssumption, Id, NoAck, Message

LEMMA InitInv == Init => IInv
<1> SUFFICES ASSUME Init PROVE IInv
  OBVIOUS
<1>1. TypeOK
  <2>1. wire \in Seq(Seq(Message)) /\ got \subseteq Message
    BY DEF Init
  <2>2. result \in [kind : {"none", "ok", "blocked", "timeout", "error"}, id : Id]
    BY Basics DEF Init, Answer
  <2>3. 0 \in 0 .. Deadline /\ 0 \in 0 .. Slice /\ 0 \in 0 .. MaxNoise
    BY Basics
  <2>4. QED
    BY <2>1, <2>2, <2>3 DEF Init, TypeOK
<1>2. RequestInv /\ WireInv /\ GotInv /\ ClockInv
  BY Basics DEF Init, RequestInv, WireInv, GotInv, ClockInv, EndsInTime, Answer
<1>3. ResultIsTrue /\ AckNotMissed
  BY DEF Init, ResultIsTrue, AckNotMissed, Answer
<1>4. QED
  BY <1>1, <1>2, <1>3 DEF IInv

\* A sender that returns an error, or an answer that is true, keeps everything.
LEMMA FinishInv ==
  ASSUME IInv, NEW a \in [kind : {"ok", "blocked", "timeout", "error"}, id : Id],
         Finish(a), UNCHANGED <<channel, known, server>>,
         got' \subseteq Message,
         a.kind = "ok" /\ a.id # Nobody => fate = "delivered" /\ a.id = Mine,
         a.kind = "blocked" => fate = "blocked",
         a.kind = "timeout" => got' = {}
  PROVE  IInv'
<1>1. /\ pc' = "done" /\ result' = a /\ link' = "none" /\ wire' = <<>>
      /\ left' = left /\ slice' = slice /\ age' = age
  BY DEF Finish
<1>2. TypeOK'
  <2>1. result' \in [kind : {"none", "ok", "blocked", "timeout", "error"}, id : Id]
    BY <1>1
  <2>2. wire' \in Seq(Seq(Message))
    BY <1>1
  <2>3. QED
    BY <1>1, <2>1, <2>2 DEF IInv, TypeOK
<1>3. RequestInv' /\ GotInv'
  BY <1>1 DEF IInv, RequestInv, GotInv
<1>4. WireInv'
  BY <1>1 DEF WireInv
<1>5. ClockInv'
  BY <1>1 DEF IInv, ClockInv, EndsInTime
<1>6. ResultIsTrue' /\ AckNotMissed'
  BY <1>1 DEF ResultIsTrue, AckNotMissed
<1>7. QED
  BY <1>2, <1>3, <1>4, <1>5, <1>6 DEF IInv

\* A message that is pushed is the only new one on the wire.
LEMMA PushStep ==
  ASSUME wire \in Seq(Seq(Message)), NEW msg \in Message, Push(msg) \/ UNCHANGED wire
  PROVE  /\ wire' \in Seq(Seq(Message))
         /\ \A i \in DOMAIN wire' : \A j \in DOMAIN wire'[i] :
              \/ wire'[i][j] = msg
              \/ \E k \in DOMAIN wire : \E l \in DOMAIN wire[k] : wire'[i][j] = wire[k][l]
<1>1. CASE UNCHANGED wire
  BY <1>1
<1>2. CASE wire' = Append(wire, <<msg>>)
  <2>1. <<msg>> \in Seq(Message)
    OBVIOUS
  <2>2. QED
    BY <1>2, <2>1
<1>3. CASE wire # <<>> /\ wire' = Append(Front(wire), Append(Last(wire), msg))
  <2> DEFINE n == Len(wire)
             last == Append(wire[n], msg)
  <2>1. n \in Nat \ {0} /\ wire[n] \in Seq(Message)
    BY <1>3
  <2>2. last \in Seq(Message)
    BY <2>1
  <2>3. wire' = Append(SubSeq(wire, 1, n - 1), last)
    BY <1>3 DEF Front, Last
  <2>4. /\ SubSeq(wire, 1, n - 1) \in Seq(Seq(Message)) /\ Len(SubSeq(wire, 1, n - 1)) = n - 1
        /\ \A i \in 1 .. n - 1 : SubSeq(wire, 1, n - 1)[i] = wire[i]
    <3>1. /\ n - 1 \in Int /\ 1 \in Int
          /\ \A i \in 1 .. n - 1 : wire[i] \in Seq(Message)
      BY <2>1
    <3> HIDE DEF n
    <3>2. QED
      BY <2>1, <3>1, SubSeqProperties
  <2> HIDE DEF n, last
  <2>5. wire' \in Seq(Seq(Message)) /\ Len(wire') = n /\ wire'[n] = last
        /\ \A i \in 1 .. n - 1 : wire'[i] = wire[i]
    BY <2>1, <2>2, <2>3, <2>4
  <2>6. ASSUME NEW i \in DOMAIN wire', NEW j \in DOMAIN wire'[i]
        PROVE  \/ wire'[i][j] = msg
               \/ \E k \in DOMAIN wire : \E l \in DOMAIN wire[k] : wire'[i][j] = wire[k][l]
    <3>1. CASE i = n
      <4>1. j \in 1 .. Len(wire[n]) + 1 /\ wire'[i][j] = last[j]
        BY <2>1, <2>5, <3>1 DEF last
      <4>2. CASE j = Len(wire[n]) + 1
        BY <2>1, <4>1, <4>2 DEF last
      <4>3. CASE j \in DOMAIN wire[n]
        BY <2>1, <4>1, <4>3 DEF last, n
      <4>4. QED
        <5>1. wire[n] \in Seq(Message) /\ DOMAIN wire[n] = 1 .. Len(wire[n])
          BY <2>1
        <5>2. PICK m \in Nat : Len(wire[n]) = m
          BY <5>1
        <5>3. j \in 1 .. m + 1
          BY <4>1, <5>2
        <5>4. j = m + 1 \/ j \in 1 .. m
          BY <5>3
        <5>5. QED
          BY <4>2, <4>3, <5>1, <5>2, <5>4, Zenon
    <3>2. CASE i # n
      <4>1. i \in 1 .. n - 1 /\ wire'[i] = wire[i]
        BY <2>1, <2>5, <3>2
      <4>2. QED
        BY <2>1, <4>1 DEF n
    <3>3. QED
      BY <3>1, <3>2
  <2>7. QED
    BY <2>5, <2>6
<1>4. QED
  BY <1>1, <1>2, <1>3 DEF Push

LEMMA DrainFrameInv == IInv /\ DrainFrame => IInv'
<1> SUFFICES ASSUME IInv, DrainFrame PROVE IInv'
  OBVIOUS
<1> DEFINE frame == Head(wire)
           ack == MatchSendAck(frame)
<1>1. /\ pc = "recv" /\ wire # <<>> /\ got = {} /\ result.kind = "none"
      /\ UNCHANGED <<channel, known, server>>
      /\ got' = {msg \in ToSet(frame) : msg.client = Mine}
  BY DEF DrainFrame, TakeFrame, IInv, GotInv
<1>2. frame \in Seq(Message) /\ 1 \in DOMAIN wire /\ frame = wire[1]
  BY <1>1 DEF IInv, TypeOK
<1>3. got' \subseteq Message
  BY <1>1, <1>2 DEF ToSet
<1>4. CASE ack = NoAck /\ GoOn /\ UNCHANGED left
  <2>1. \A i \in DOMAIN frame : frame[i].client # Mine
    BY <1>2, <1>4, MatchIsMine, Basics
  <2>2. got' = {}
    BY <1>1, <1>2, <2>1 DEF ToSet
  <2>3. pc' = "drain" /\ wire' = Tail(wire) /\ UNCHANGED <<result, link, slice, age, left>>
    BY <1>4 DEF GoOn
  <2>4. /\ wire' \in Seq(Seq(Message))
        /\ \A i \in DOMAIN wire' : i + 1 \in DOMAIN wire /\ wire'[i] = wire[i + 1]
    BY <1>1, <2>3, HeadTailProperties DEF IInv, TypeOK
  <2>5. TypeOK'
    BY <1>1, <2>2, <2>3, <2>4 DEF IInv, TypeOK
  <2>6. RequestInv' /\ GotInv' /\ ResultIsTrue' /\ AckNotMissed'
    BY <1>1, <2>2, <2>3 DEF IInv, RequestInv, GotInv, ResultIsTrue, AckNotMissed
  <2>7. WireInv'
    BY <1>1, <2>4 DEF IInv, WireInv, Truthful
  <2>8. ClockInv'
    BY <1>1, <2>3, Basics DEF IInv, TypeOK, ClockInv, EndsInTime
  <2>9. QED
    BY <2>5, <2>6, <2>7, <2>8 DEF IInv
<1>5. CASE ack # NoAck /\ Conclude(ack)
  <2>1. PICK i \in DOMAIN frame : frame[i].client = Mine /\ ack = frame[i]
    BY <1>2, <1>5, MatchIsMine
  <2>2. ack \in Message /\ ack.client = Mine
    BY <1>2, <2>1
  <2>3. Truthful(ack)
    BY <1>2, <2>1 DEF IInv, WireInv
  <2>4. /\ ack.id \in Id /\ ack.blocked \in BOOLEAN
        /\ (ack.blocked /\ fate = "blocked") \/ (~ack.blocked /\ ack.id = Mine /\ fate = "delivered")
    BY <2>2, <2>3 DEF Truthful, Message
  <2>5. CASE ack.blocked
    <3>1. Finish(Answer("blocked", ack.id))
      BY <1>5, <2>5 DEF Conclude
    <3>2. fate = "blocked"
      BY <2>4, <2>5
    <3> DEFINE a == Answer("blocked", ack.id)
    <3>3. a.kind = "blocked" /\ a \in [kind : {"ok", "blocked", "timeout", "error"}, id : Id]
      BY <2>4 DEF Answer
    <3> HIDE DEF a
    <3>4. QED
      BY <1>1, <1>3, <3>1, <3>2, <3>3, FinishInv DEF a
  <2>6. CASE ~ack.blocked
    <3>1. Finish(Answer("ok", Mine)) /\ fate = "delivered"
      BY <1>5, <2>4, <2>6, Basics DEF Conclude
    <3> DEFINE a == Answer("ok", Mine)
    <3>2. a.kind = "ok" /\ a.id = Mine /\ a \in [kind : {"ok", "blocked", "timeout", "error"}, id : Id]
      BY Basics DEF Answer
    <3> HIDE DEF a
    <3>3. QED
      BY <1>1, <1>3, <3>1, <3>2, FinishInv DEF a
  <2>7. QED
    BY <2>5, <2>6
<1>6. QED
  BY <1>4, <1>5 DEF DrainFrame

\* The steps that end in an error, in a timeout or in what the server said.
LEMMA EndInv ==
  ASSUME IInv, UNCHANGED <<channel, known, got, server>>,
         \/ Finish(Answer("error", Nobody)) \/ Finish(Answer("ok", Nobody))
         \/ Finish(Answer("ok", Mine)) /\ fate = "delivered"
         \/ Conclude(NoAck) /\ pc # "done"
  PROVE  IInv'
<1>1. got' \subseteq Message
  BY DEF IInv, TypeOK
<1>2. Answer("error", Nobody) \in [kind : {"ok", "blocked", "timeout", "error"}, id : Id]
      /\ Answer("error", Nobody).kind = "error"
  BY Basics DEF Answer
<1>3. Answer("ok", Nobody) \in [kind : {"ok", "blocked", "timeout", "error"}, id : Id]
      /\ Answer("ok", Nobody).kind = "ok" /\ Answer("ok", Nobody).id = Nobody
  BY Basics DEF Answer
<1>4. Answer("ok", Mine) \in [kind : {"ok", "blocked", "timeout", "error"}, id : Id]
      /\ Answer("ok", Mine).kind = "ok" /\ Answer("ok", Mine).id = Mine
  BY Basics DEF Answer
<1>5. Answer("timeout", Nobody) \in [kind : {"ok", "blocked", "timeout", "error"}, id : Id]
      /\ Answer("timeout", Nobody).kind = "timeout"
  BY Basics DEF Answer
<1>6. CASE Finish(Answer("error", Nobody))
  BY <1>1, <1>2, <1>6, FinishInv
<1>7. CASE Finish(Answer("ok", Nobody))
  BY <1>1, <1>3, <1>7, FinishInv
<1>8. CASE Finish(Answer("ok", Mine)) /\ fate = "delivered"
  BY <1>1, <1>4, <1>8, FinishInv
<1>9. CASE Conclude(NoAck) /\ pc # "done"
  <2>1. Finish(Answer("timeout", Nobody)) /\ got' = {}
    BY <1>9, Basics DEF Conclude, IInv, GotInv
  <2>2. QED
    BY <1>1, <1>5, <2>1, FinishInv
<1>10. QED
  BY <1>6, <1>7, <1>8, <1>9

\* What is pushed while the request is handled, or by others, is truthful.
LEMMA PushInv ==
  ASSUME IInv, NEW msg \in Message, Push(msg) \/ UNCHANGED wire,
         Truthful(msg)', fate' = fate \/ fate = "none"
  PROVE  wire' \in Seq(Seq(Message)) /\ WireInv'
<1>1. ASSUME NEW k \in DOMAIN wire, NEW l \in DOMAIN wire[k]
      PROVE  fate = "none" => wire[k][l].client # Mine
  BY DEF IInv, WireInv, Truthful
<1>2. ASSUME NEW k \in DOMAIN wire, NEW l \in DOMAIN wire[k]
      PROVE  Truthful(wire[k][l]) /\ (wire[k][l].client = Mine =>
                \/ fate' = "delivered" /\ wire[k][l].id = Mine /\ ~wire[k][l].blocked
                \/ fate' = "blocked" /\ wire[k][l].blocked)
  BY <1>1 DEF IInv, WireInv, Truthful
<1>3. wire' \in Seq(Seq(Message))
  BY PushStep DEF IInv, TypeOK
<1>4. ASSUME NEW i \in DOMAIN wire', NEW j \in DOMAIN wire'[i]
      PROVE  Truthful(wire[i][j])'
  <2>1. CASE wire'[i][j] = msg
    BY <2>1 DEF Truthful
  <2>2. CASE \E k \in DOMAIN wire : \E l \in DOMAIN wire[k] : wire'[i][j] = wire[k][l]
    BY <1>2, <2>2 DEF Truthful
  <2>3. QED
    BY <2>1, <2>2, PushStep DEF IInv, TypeOK
<1>5. QED
  BY <1>3, <1>4 DEF WireInv

LEMMA HandleInv == IInv /\ Handle => IInv'
<1> SUFFICES ASSUME IInv, Handle PROVE IInv'
  OBVIOUS
<1>1. /\ request /\ request' = FALSE /\ fate = "none"
      /\ fate' \in {"delivered", "blocked", "dropped"}
      /\ UNCHANGED <<channel, known, pc, left, slice, link, result, age, got, noise>>
  BY DEF Handle, IInv, RequestInv
<1>2. wire' \in Seq(Seq(Message)) /\ WireInv'
  <2>1. CASE fate' = "delivered" /\ (Push([client |-> Mine, id |-> Mine, blocked |-> FALSE]) \/ UNCHANGED wire)
    <3> DEFINE msg == [client |-> Mine, id |-> Mine, blocked |-> FALSE]
    <3>1. msg \in Message /\ Truthful(msg)'
      BY <2>1, Basics DEF Message, Truthful
    <3> HIDE DEF msg
    <3>2. QED
      BY <1>1, <2>1, <3>1, PushInv DEF msg
  <2>2. CASE fate' = "blocked" /\ \E id \in {Mine, Nobody} : Push([client |-> Mine, id |-> id, blocked |-> TRUE])
    <3>1. PICK id \in {Mine, Nobody} : Push([client |-> Mine, id |-> id, blocked |-> TRUE])
      BY <2>2
    <3> DEFINE msg == [client |-> Mine, id |-> id, blocked |-> TRUE]
    <3>2. msg \in Message /\ Truthful(msg)'
      BY <2>2, Basics DEF Message, Truthful
    <3>3. Push(msg)
      BY <3>1
    <3> HIDE DEF msg
    <3>4. QED
      BY <1>1, <3>2, <3>3, PushInv
  <2>3. CASE UNCHANGED wire
    <3>1. Truthful(NoAck)'
      BY Basics DEF Truthful
    <3>2. QED
      BY <1>1, <2>3, <3>1, Basics, PushInv
  <2>4. QED
    BY <2>1, <2>2, <2>3 DEF Handle
<1>3. TypeOK'
  BY <1>1, <1>2 DEF IInv, TypeOK
<1>4. RequestInv' /\ GotInv' /\ ClockInv' /\ AckNotMissed'
  BY <1>1 DEF IInv, RequestInv, GotInv, ClockInv, EndsInTime, AckNotMissed
<1>5. ResultIsTrue'
  BY <1>1 DEF IInv, ResultIsTrue
<1>6. QED
  BY <1>2, <1>3, <1>4, <1>5 DEF IInv

LEMMA NoiseInv == IInv /\ Noise => IInv'
<1> SUFFICES ASSUME IInv, Noise PROVE IInv'
  OBVIOUS
<1>1. /\ noise' \in 0 .. MaxNoise
      /\ UNCHANGED <<channel, known, pc, left, slice, link, result, age, got, request, fate>>
  BY Basics DEF Noise, IInv, TypeOK
<1>2. PICK msg \in Message : msg.client # Mine /\ Push(msg)
  <2>1. \A b \in BOOLEAN : /\ [client |-> Other, id |-> Other, blocked |-> b] \in Message
                           /\ [client |-> Other, id |-> Other, blocked |-> b].client # Mine
    BY Basics DEF Message
  <2>2. QED
    BY <2>1, Basics DEF Noise
<1>3. wire' \in Seq(Seq(Message)) /\ WireInv'
  <2>1. Truthful(msg)'
    BY <1>2 DEF Truthful
  <2>2. QED
    BY <1>1, <1>2, <2>1, PushInv
<1>4. TypeOK'
  BY <1>1, <1>3 DEF IInv, TypeOK
<1>5. RequestInv' /\ GotInv' /\ ClockInv' /\ AckNotMissed' /\ ResultIsTrue'
  BY <1>1 DEF IInv, RequestInv, GotInv, ClockInv, EndsInTime, AckNotMissed, ResultIsTrue
<1>6. QED
  BY <1>3, <1>4, <1>5 DEF IInv

LEMMA TickInv == IInv /\ Tick => IInv'
<1> SUFFICES ASSUME IInv, Tick PROVE IInv'
  OBVIOUS
<1>1. /\ pc = "recv" /\ slice \in 1 .. Slice /\ slice' = slice - 1 /\ age' = age + 1 /\ noise' = 0
      /\ left \in 0 .. Deadline
      /\ left' = IF left = 0 THEN 0 ELSE left - 1
      /\ UNCHANGED <<channel, known, pc, link, wire, result, got, request, fate>>
  BY Basics DEF Tick, Runnable, Down, IInv, TypeOK
<1>2. TypeOK'
  BY <1>1, Basics DEF IInv, TypeOK
<1>3. ClockInv'
  BY <1>1, Basics DEF IInv, TypeOK, ClockInv, EndsInTime
<1>4. RequestInv' /\ GotInv' /\ WireInv' /\ AckNotMissed' /\ ResultIsTrue'
  BY <1>1 DEF IInv, RequestInv, GotInv, WireInv, Truthful, AckNotMissed, ResultIsTrue
<1>5. QED
  BY <1>2, <1>3, <1>4 DEF IInv

LEMMA StepInv == IInv /\ [Next]_vars => IInv'
<1> SUFFICES ASSUME IInv, [Next]_vars PROVE IInv'
  OBVIOUS
<1> USE Basics
<1>1. CASE Begin
  <2>1. CASE ~known
    BY <1>1, <2>1, EndInv DEF Begin
  <2>2. CASE known
    BY <1>1, <2>2 DEF Begin, IInv, TypeOK, RequestInv, WireInv, Truthful, GotInv, ClockInv, EndsInTime,
                      ResultIsTrue, AckNotMissed
  <2>3. QED
    BY <2>1, <2>2 DEF IInv, TypeOK
<1>2. CASE Fail
  BY <1>2, EndInv DEF Fail
<1>3. CASE Post
  BY <1>3 DEF Post, IInv, TypeOK, RequestInv, WireInv, Truthful, GotInv, ClockInv, EndsInTime,
              ResultIsTrue, AckNotMissed
<1>4. CASE Reply
  BY <1>4, EndInv DEF Reply
<1>5. CASE Dial
  BY <1>5 DEF Dial, IInv, TypeOK, RequestInv, WireInv, Truthful, GotInv, ClockInv, EndsInTime,
              ResultIsTrue, AckNotMissed
<1>6. CASE Write
  BY <1>6 DEF Write, IInv, TypeOK, RequestInv, WireInv, Truthful, GotInv, ClockInv, EndsInTime,
              ResultIsTrue, AckNotMissed
<1>7. CASE DrainTop
  <2>1. CASE Conclude(NoAck)
    BY <1>7, <2>1, EndInv DEF DrainTop
  <2>2. CASE left > 0 /\ pc' = "recv" /\ slice' = Slice /\ UNCHANGED <<result, link, wire, left, age>>
    BY <1>7, <2>2 DEF DrainTop, IInv, TypeOK, RequestInv, WireInv, Truthful, GotInv, ClockInv,
                      EndsInTime, ResultIsTrue, AckNotMissed
  <2>3. QED
    BY <1>7, <2>1, <2>2 DEF DrainTop
<1>8. CASE DrainFrame
  BY <1>8, DrainFrameInv
<1>9. CASE DrainTimeout
  BY <1>9 DEF DrainTimeout, IInv, TypeOK, RequestInv, WireInv, Truthful, GotInv, ClockInv, EndsInTime,
              ResultIsTrue, AckNotMissed
<1>10. CASE DrainError
  BY <1>10, EndInv DEF DrainError
<1>11. CASE Handle
  BY <1>11, HandleInv
<1>12. CASE Noise
  BY <1>12, NoiseInv
<1>13. CASE LinkBreaks
  BY <1>13 DEF LinkBreaks, IInv, TypeOK, RequestInv, WireInv, Truthful, GotInv, ClockInv, EndsInTime,
               ResultIsTrue, AckNotMissed
<1>14. CASE Tick
  BY <1>14, TickInv
<1>15. CASE UNCHANGED vars
  BY <1>15 DEF IInv, TypeOK, RequestInv, WireInv, Truthful, GotInv, ClockInv, EndsInTime,
               ResultIsTrue, AckNotMissed
<1>16. QED
  BY <1>1, <1>2, <1>3, <1>4, <1>5, <1>6, <1>7, <1>8, <1>9, <1>10, <1>11, <1>12, <1>13, <1>14, <1>15
  DEF Next, SenderStep, Terminated

\* Every reachable state satisfies the inductive invariant.
THEOREM SendInvariant == Spec => []IInv
<1>1. Init => IInv
  BY InitInv
<1>2. IInv /\ [Next]_vars => IInv'
  BY StepInv
<1>3. QED
  BY <1>1, <1>2, PTL DEF Spec

\* Types of a send, for any deadline, slice and amount of traffic.
THEOREM SendTypeCorrect == Spec => []TypeOK
<1>1. IInv => TypeOK
  BY DEF IInv
<1>2. QED
  BY <1>1, SendInvariant, PTL

\* What the caller is told of a message is true of that message.
THEOREM ResultsAreTrue == Spec => []ResultIsTrue
<1>1. IInv => ResultIsTrue
  BY DEF IInv
<1>2. QED
  BY <1>1, SendInvariant, PTL

\* A message is not reported unacknowledged when its outcome was handed to the drain.
THEOREM NoAckIsMissed == Spec => []AckNotMissed
<1>1. IInv => AckNotMissed
  BY DEF IInv
<1>2. QED
  BY <1>1, SendInvariant, PTL

\* The drain is over less than one slice after the deadline.
THEOREM DrainEndsInTime == Spec => []EndsInTime
<1>1. IInv => EndsInTime
  BY DEF IInv, ClockInv
<1>2. QED
  BY <1>1, SendInvariant, PTL
----------------------------------------------------------------------------
(***************************************************************************)
(* The end of a drain: of SendReturns the part that is safety.             *)
(***************************************************************************)

Draining == pc \in {"drain", "recv"}

\* What Receive may still hand out before time passes.
Frames == Len(wire) + (MaxNoise - noise) + (IF request THEN 1 ELSE 0)

FramesInv ==
  /\ Frames <= MaxNoise + 1
  /\ pc \in {"start", "dial", "post", "write"} => Frames <= MaxNoise

\* The time a drain still takes at most, ...
TimeLeft == IF left > 0 THEN left + Slice ELSE slice

\* ... and its steps before time passes.
Turn == IF pc = "drain" THEN 1 ELSE IF slice = 0 THEN 2 ELSE 0

StepsLeft == 2 * Frames + Turn

DrainShrinks ==
  [][Draining =>
       \/ pc' = "done"
       \/ TimeLeft' < TimeLeft
       \/ TimeLeft' = TimeLeft /\ IF pc' # pc THEN StepsLeft' < StepsLeft ELSE StepsLeft' <= StepsLeft]_vars

LEMMA PushLen ==
  ASSUME wire \in Seq(Seq(Message)), NEW msg \in Message, Push(msg) \/ UNCHANGED wire
  PROVE  \E n \in Nat : Len(wire) = n /\ Len(wire') \in {n, n + 1}
<1>1. CASE UNCHANGED wire \/ wire' = Append(wire, <<msg>>)
  <2>1. <<msg>> \in Seq(Message)
    OBVIOUS
  <2>2. QED
    BY <1>1, <2>1
<1>2. CASE wire # <<>> /\ wire' = Append(Front(wire), Append(Last(wire), msg))
  <2> DEFINE last == Append(wire[Len(wire)], msg)
  <2>1. PICK n \in Nat : n = Len(wire) - 1 /\ Len(wire) = n + 1 /\ wire[Len(wire)] \in Seq(Message)
    <3>1. Len(wire) \in Nat \ {0} /\ wire[Len(wire)] \in Seq(Message)
      BY <1>2
    <3>2. \A k \in Nat \ {0} : k - 1 \in Nat /\ k = (k - 1) + 1
      OBVIOUS
    <3>3. QED
      BY <3>1, <3>2, Zenon
  <2>2. last \in Seq(Message)
    BY <2>1
  <2>3. SubSeq(wire, 1, n) \in Seq(Seq(Message)) /\ Len(SubSeq(wire, 1, n)) = n
    <3>1. n \in Int /\ 1 \in Int /\ \A i \in 1 .. n : wire[i] \in Seq(Message)
      BY <2>1
    <3>2. QED
      BY <2>1, <3>1, SubSeqProperties
  <2>4. wire' = Append(SubSeq(wire, 1, n), last)
    BY <1>2, <2>1 DEF Front, Last
  <2> HIDE DEF last
  <2>5. Len(wire') = n + 1
    BY <2>2, <2>3, <2>4
  <2>6. QED
    BY <2>1, <2>5
<1>3. QED
  BY <1>1, <1>2 DEF Push

\* What a step makes of the number of frames.
LEMMA FrameCount ==
  ASSUME IInv, Next
  PROVE  \E f, g \in Nat :
           /\ Frames = f /\ Frames' = g
           /\ \/ g <= f
              \/ pc \in {"post", "write"} /\ g <= f + 1 /\ pc' \in {"await", "drain"}
              \/ Tick /\ g <= MaxNoise + 1
           /\ DrainFrame => g < f
<1> DEFINE Owed(r) == IF r THEN 1 ELSE 0
<1>1. /\ wire \in Seq(Seq(Message)) /\ request \in BOOLEAN /\ noise \in 0 .. MaxNoise /\ MaxNoise \in Nat
      /\ Owed(request) \in {0, 1} /\ Owed(request') \in {0, 1} /\ Owed(FALSE) = 0 /\ Owed(TRUE) = 1
  BY Basics DEF IInv, TypeOK
<1>2. PICK n \in Nat, k \in Nat : n = Len(wire) /\ k = MaxNoise - noise
  BY <1>1
<1>3. Frames = n + k + Owed(request)
  BY <1>1, <1>2 DEF Frames
<1>4. DrainFrame => pc = "recv" /\ wire # <<>> /\ pc' # "recv"
  BY DEF DrainFrame, TakeFrame, GoOn, Conclude, Finish
<1> HIDE DEF Owed
<1>5. PICK f \in Nat : f = n + k + Owed(request)
  BY <1>1
<1>6. CASE /\ wire' \in {wire, <<>>} /\ UNCHANGED noise
           /\ UNCHANGED request \/ (pc \in {"post", "write"} /\ pc' \in {"await", "drain"})
           /\ ~DrainFrame
  <2>1. PICK m \in Nat : m <= n /\ Len(wire') = m
    BY <1>1, <1>2, <1>6
  <2>2. Frames' = m + k + Owed(request')
    BY <1>2, <1>6, <2>1 DEF Frames, Owed
  <2>3. PICK g \in Nat : g = m + k + Owed(request')
    BY <1>1
  <2>4. \/ g <= f
        \/ pc \in {"post", "write"} /\ g <= f + 1 /\ pc' \in {"await", "drain"}
    BY <1>1, <1>5, <1>6, <2>1, <2>3
  <2>5. QED
    BY <1>3, <1>5, <1>6, <2>2, <2>3, <2>4, Zenon
<1>7. CASE DrainFrame /\ GoOn
  <2>1. Len(wire') = n - 1 /\ n - 1 \in Nat /\ UNCHANGED <<noise, request>>
    BY <1>1, <1>2, <1>7 DEF DrainFrame, TakeFrame, GoOn
  <2>2. Frames' = (n - 1) + k + Owed(request)
    BY <1>2, <2>1 DEF Frames, Owed
  <2>3. PICK g \in Nat : g = (n - 1) + k + Owed(request)
    BY <1>1, <2>1
  <2>4. g <= f /\ g < f
    BY <1>1, <1>5, <2>1, <2>3
  <2>5. QED
    BY <1>3, <1>5, <2>2, <2>3, <2>4, Zenon
<1>8. CASE DrainFrame /\ ~GoOn
  <2>1. wire # <<>> /\ wire' = <<>> /\ UNCHANGED <<noise, request>>
    BY <1>8 DEF DrainFrame, TakeFrame, Conclude, Finish
  <2>2. n # 0 /\ Len(wire') = 0
    BY <1>1, <1>2, <2>1
  <2>3. Frames' = 0 + k + Owed(request)
    BY <1>2, <2>1, <2>2 DEF Frames, Owed
  <2>4. PICK g \in Nat : g = 0 + k + Owed(request)
    BY <1>1
  <2>5. g <= f /\ g < f
    BY <1>1, <1>5, <2>2, <2>4
  <2>6. QED
    BY <1>3, <1>5, <2>3, <2>4, <2>5, Zenon
<1>9. CASE Handle
  <2>1. request /\ ~request' /\ UNCHANGED noise /\ ~DrainFrame
    BY <1>4, <1>9 DEF Handle
  <2>2. PICK m \in {n, n + 1} : Len(wire') = m
    <3>1. \E msg \in Message : Push(msg) \/ UNCHANGED wire
      BY <1>9, Basics DEF Handle, Message
    <3>2. QED
      BY <1>1, <1>2, <3>1, PushLen
  <2>3. Frames' = m + k + 0
    BY <1>2, <2>1, <2>2 DEF Frames
  <2>4. PICK g \in Nat : g = m + k + 0
    BY <2>2
  <2>5. g <= f
    BY <1>5, <2>1, <2>2, <2>4 DEF Owed
  <2>6. QED
    BY <1>3, <1>5, <2>1, <2>3, <2>4, <2>5, Zenon
<1>10. CASE Noise
  <2>1. noise' = noise + 1 /\ noise < MaxNoise /\ UNCHANGED request /\ ~DrainFrame
    BY <1>1, <1>4, <1>10 DEF Noise
  <2>2. PICK m \in {n, n + 1} : Len(wire') = m
    <3>1. \E msg \in Message : Push(msg) \/ UNCHANGED wire
      BY <1>10, Basics DEF Noise, Message
    <3>2. QED
      BY <1>1, <1>2, <3>1, PushLen
  <2>3. k - 1 = MaxNoise - noise' /\ k - 1 \in Nat
    BY <1>1, <1>2, <2>1
  <2>4. Frames' = m + (k - 1) + Owed(request)
    BY <2>1, <2>2, <2>3 DEF Frames, Owed
  <2>5. PICK g \in Nat : g = m + (k - 1) + Owed(request)
    BY <1>1, <2>2, <2>3
  <2>6. g <= f
    BY <1>1, <1>5, <2>2, <2>5
  <2>7. QED
    BY <1>3, <1>5, <2>1, <2>4, <2>5, <2>6, Zenon
<1>11. CASE Tick
  <2>1. wire' = <<>> /\ noise' = 0 /\ UNCHANGED request /\ ~DrainFrame
    BY <1>4, <1>11 DEF Tick, Runnable
  <2>2. Frames' = 0 + MaxNoise + Owed(request)
    BY <1>1, <2>1 DEF Frames, Owed
  <2>3. PICK g \in Nat : g = 0 + MaxNoise + Owed(request)
    BY <1>1
  <2>4. g <= MaxNoise + 1
    BY <1>1, <2>3
  <2>5. QED
    BY <1>3, <1>5, <1>11, <2>1, <2>2, <2>3, <2>4, Zenon
<1>12. CASE (SenderStep /\ ~DrainFrame) \/ LinkBreaks \/ Terminated
  <2>1. ~DrainFrame
    BY <1>4, <1>12 DEF LinkBreaks, Terminated
  <2>2. /\ wire' \in {wire, <<>>} /\ UNCHANGED noise
        /\ UNCHANGED request \/ (pc \in {"post", "write"} /\ pc' \in {"await", "drain"})
    BY <1>12 DEF SenderStep, Begin, Fail, Post, Reply, Dial, Write, DrainTop, DrainTimeout, DrainError,
                 LinkBreaks, Terminated, Conclude, Finish
  <2>3. QED
    BY <1>6, <2>1, <2>2
<1>13. QED
  BY <1>7, <1>8, <1>9, <1>10, <1>11, <1>12 DEF Next

LEMMA FramesStep == IInv /\ FramesInv /\ [Next]_vars => FramesInv'
<1> SUFFICES ASSUME IInv, FramesInv, [Next]_vars PROVE FramesInv'
  OBVIOUS
<1>1. CASE UNCHANGED vars
  BY <1>1 DEF FramesInv, Frames
<1>2. CASE Next
  <2>1. PICK f, g \in Nat :
           /\ Frames = f /\ Frames' = g
           /\ \/ g <= f
              \/ pc \in {"post", "write"} /\ g <= f + 1 /\ pc' \in {"await", "drain"}
              \/ Tick /\ g <= MaxNoise + 1
    BY <1>2, FrameCount
  <2>2. pc' \in {"start", "dial", "post", "write"} => pc \in {"start", "dial", "post", "write"}
    BY <1>2 DEF Next, SenderStep, Begin, Fail, Post, Reply, Dial, Write, DrainTop, DrainFrame, TakeFrame,
                GoOn, DrainTimeout, DrainError, LinkBreaks, Handle, Noise, Tick, Terminated, Conclude, Finish
  <2>3. Tick => pc' \notin {"start", "dial", "post", "write"}
    BY DEF Tick
  <2>4. QED
    BY <2>1, <2>2, <2>3, Basics DEF FramesInv
<1>3. QED
  BY <1>1, <1>2

LEMMA DrainStep ==
  ASSUME IInv, Draining, Next
  PROVE  \/ pc' = "done"
         \/ TimeLeft' < TimeLeft
         \/ TimeLeft' = TimeLeft /\ IF pc' # pc THEN StepsLeft' < StepsLeft ELSE StepsLeft' <= StepsLeft
<1>1. /\ pc \in {"drain", "recv"} /\ age \in Nat /\ left \in Nat /\ slice \in Nat /\ slice <= Slice
      /\ Slice \in Nat \ {0} /\ Deadline \in Nat
  BY Basics DEF Draining, IInv, TypeOK
<1>2. PICK f, g \in Nat :
        /\ Frames = f /\ Frames' = g
        /\ DrainFrame => g < f
        /\ Tick \/ g <= f
  BY <1>1, FrameCount
<1>3. CASE Tick
  BY <1>1, <1>3 DEF Tick, Runnable, Down, TimeLeft
<1>4. CASE Handle \/ Noise \/ LinkBreaks
  <2>1. UNCHANGED <<pc, left, slice>> /\ ~Tick
    BY <1>1, <1>4 DEF Handle, Noise, LinkBreaks, Tick
  <2>2. PICK c \in Nat : Turn = c /\ Turn' = c
    BY <2>1 DEF Turn
  <2>3. StepsLeft = 2 * f + c /\ StepsLeft' = 2 * g + c
    BY <1>2, <2>2, Zenon DEF StepsLeft
  <2>4. QED
    BY <1>2, <2>1, <2>2, <2>3 DEF TimeLeft
<1>5. CASE DrainFrame /\ GoOn
  <2>1. UNCHANGED <<left, slice>> /\ pc = "recv" /\ pc' = "drain"
    BY <1>5 DEF DrainFrame, TakeFrame, GoOn, Conclude, Finish
  <2>5. g < f
    BY <1>2, <1>5
  <2>2. PICK c \in {0, 2} : Turn = c /\ Turn' = 1
    BY <2>1 DEF Turn
  <2>3. StepsLeft = 2 * f + c /\ StepsLeft' = 2 * g + 1
    BY <1>2, <2>2, Zenon DEF StepsLeft
  <2>4. QED
    BY <2>1, <2>2, <2>3, <2>5 DEF TimeLeft
<1>6. CASE pc = "drain" /\ left > 0 /\ pc' = "recv" /\ slice' = Slice /\ UNCHANGED left /\ ~Tick
  <2>1. Turn = 1 /\ Turn' = 0
    BY <1>1, <1>6 DEF Turn
  <2>2. StepsLeft = 2 * f + 1 /\ StepsLeft' = 2 * g + 0
    BY <1>2, <2>1, Zenon DEF StepsLeft
  <2>3. QED
    BY <1>2, <1>6, <2>2 DEF TimeLeft
<1>7. CASE DrainTimeout
  <2>1. UNCHANGED <<left, slice>> /\ pc = "recv" /\ slice = 0 /\ pc' = "drain" /\ ~Tick
    BY <1>7 DEF DrainTimeout, Tick
  <2>2. Turn = 2 /\ Turn' = 1
    BY <2>1 DEF Turn
  <2>3. StepsLeft = 2 * f + 2 /\ StepsLeft' = 2 * g + 1
    BY <1>2, <2>2, Zenon DEF StepsLeft
  <2>4. QED
    BY <1>2, <2>1, <2>3 DEF TimeLeft
<1>8. CASE pc' = "done"
  BY <1>8
<1>9. QED
  BY <1>1, <1>3, <1>4, <1>5, <1>6, <1>7, <1>8
     DEF Next, SenderStep, Begin, Fail, Post, Reply, Dial, Write, DrainTop, DrainFrame, DrainError,
         Terminated, Conclude, Finish, Tick

\* However the server behaves, no more than MaxNoise + 1 frames can be waiting for a Receive,
\* and every step of a drain takes it nearer to its end: time that passes shortens what is left
\* of deadline and Receive, and until time passes each turn of the loop uses up a frame.
THEOREM DrainComesToAnEnd == Spec => []FramesInv /\ DrainShrinks
<1>1. Init => FramesInv
  <2>1. ASSUME Init PROVE Frames = MaxNoise
    BY <2>1, Basics DEF Init, Frames
  <2>2. QED
    BY <2>1, Basics DEF FramesInv
<1>2. IInv /\ FramesInv /\ [Next]_vars => FramesInv'
  BY FramesStep
<1>3. IInv /\ [Next]_vars =>
        [Draining =>
           \/ pc' = "done"
           \/ TimeLeft' < TimeLeft
           \/ TimeLeft' = TimeLeft /\ IF pc' # pc THEN StepsLeft' < StepsLeft ELSE StepsLeft' <= StepsLeft]_vars
  BY DrainStep
<1>4. QED
  BY SendInvariant, <1>1, <1>2, <1>3, PTL DEF Spec, DrainShrinks

=============================================================================
