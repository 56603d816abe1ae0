----------------------------- MODULE HubProofs -----------------------------
(***************************************************************************)
(* What a subscriber of the event hub is sent and what it misses, proved   *)
(* for any number of subscribers, events and pings and every queue limit.  *)
(***************************************************************************)
EXTENDS Hub, SequenceTheorems, FiniteSetTheorems, TLAPS

\* EventOrder for one subscriber: written, in hand, queued.
Ordered(w, h, o) ==
  /\ EventsAscend(w)
  /\ EventsAscend(o)
  /\ \A i \in 1 .. Len(w) : \A f \in h : IsEvent(w[i]) /\ IsEvent(f) => w[i] < f
  /\ \A j \in 1 .. Len(o) : IsEvent(o[j]) =>
       /\ \A f \in h : f < o[j]
       /\ \A i \in 1 .. Len(w) : w[i] < o[j]

\* The last event that can have been pushed to c.
Lim(c) == IF Owed(c) THEN event - 1 ELSE event

\* A broadcast pushes the newest event, once to each subscriber of its copy.
EngineInv ==
  /\ emitting => event > 0 /\ frame[Engine] = event
  /\ ~emitting => todo = {} /\ push[Engine] = "no"
  /\ push[Engine] # "no" => cur \notin todo

\* Nobody but the engine pushes events; who has not been registered has been sent nothing.
ServeInv(c) ==
  /\ ~IsEvent(frame[c])
  /\ push[c] # "no" => serve[c] = "read"
  /\ c \in subs => serve[c] \in {"greet", "read"}
  /\ Owed(c) => serve[c] \notin {"absent", "upgraded"} /\ joined[c] < event
  /\ joined[c] <= event
  /\ serve[c] \in {"absent", "upgraded"} =>
       written[c] = << >> /\ out[c] = << >> /\ hand[c] = {} /\ lost[c] = {}
  /\ writer[c] # "write" => hand[c] = {}
  /\ \A f, g \in hand[c] : f = g

StreamInv(c) ==
  /\ Ordered(written[c], hand[c], out[c])
  /\ \A f \in Accounted(c) : f <= Lim(c)

\* Whoever made room finds it, unless somebody else pushed in between.
RaceInv == \A p \in Pusher : push[p] = "retry" /\ ~raced[p] => Len(out[Target(p)]) < QueueLimit

\* The first half of NothingSkipped.
Complete(c) == c \in subs => Events(Accounted(c)) = (joined[c] + 1) .. Lim(c)

IInv ==
  /\ TypeOK /\ EngineInv /\ RaceInv
  /\ \A c \in Client : ServeInv(c) /\ StreamInv(c) /\ Complete(c)

----------------------------------------------------------------------------
(* Sequences of frames.                                                    *)

LEMMA AppendElems ==
  ASSUME NEW s \in Seq(Int), NEW f \in Int
  PROVE  /\ Append(s, f) \in Seq(Int) /\ Len(Append(s, f)) = Len(s) + 1 /\ Len(s) \in Nat
         /\ \A i \in 1 .. Len(s) : Append(s, f)[i] = s[i]
         /\ Append(s, f)[Len(s) + 1] = f
         /\ Elems(Append(s, f)) = Elems(s) \cup {f}
<1>1. /\ Append(s, f) \in Seq(Int) /\ Len(Append(s, f)) = Len(s) + 1 /\ Len(s) \in Nat
      /\ \A i \in 1 .. Len(s) : Append(s, f)[i] = s[i]
      /\ Append(s, f)[Len(s) + 1] = f
  OBVIOUS
<1>2. 1 .. (Len(s) + 1) = (1 .. Len(s)) \cup {Len(s) + 1}
  BY <1>1
<1>3. QED
  BY <1>1, <1>2 DEF Elems

LEMMA TailElems ==
  ASSUME NEW s \in Seq(Int), s # << >>
  PROVE  /\ Tail(s) \in Seq(Int) /\ Len(s) \in Nat /\ Len(s) > 0 /\ Len(Tail(s)) = Len(s) - 1
         /\ Head(s) = s[1] /\ s[1] \in Int
         /\ \A i \in 1 .. Len(Tail(s)) : Tail(s)[i] = s[i + 1] /\ i + 1 \in 1 .. Len(s)
         /\ Elems(s) = {Head(s)} \cup Elems(Tail(s))
<1>1. /\ Tail(s) \in Seq(Int) /\ Len(s) \in Nat /\ Len(s) > 0 /\ Len(Tail(s)) = Len(s) - 1
      /\ Head(s) = s[1] /\ s[1] \in Int
  OBVIOUS
<1>2. \A i \in 1 .. Len(Tail(s)) : Tail(s)[i] = s[i + 1] /\ i + 1 \in 1 .. Len(s)
  BY <1>1
<1>3. \A f : f \in Elems(s) => f \in {Head(s)} \cup Elems(Tail(s))
  <2> SUFFICES ASSUME NEW i \in 1 .. Len(s) PROVE s[i] \in {Head(s)} \cup Elems(Tail(s))
    BY DEF Elems
  <2>1. CASE i = 1
    BY <1>1, <2>1
  <2>2. CASE i # 1
    <3>1. i - 1 \in 1 .. Len(Tail(s)) /\ (i - 1) + 1 = i
      BY <1>1, <2>2
    <3>2. Tail(s)[i - 1] = s[i]
      BY <1>2, <3>1
    <3>3. QED
      BY <3>1, <3>2 DEF Elems
  <2>3. QED
    BY <2>1, <2>2
<1>4. \A f : f \in {Head(s)} \cup Elems(Tail(s)) => f \in Elems(s)
  <2>1. Head(s) \in Elems(s)
    <3>1. 1 \in 1 .. Len(s)
      BY <1>1
    <3>2. QED
      BY <1>1, <3>1 DEF Elems
  <2>2. ASSUME NEW i \in 1 .. Len(Tail(s)) PROVE Tail(s)[i] \in Elems(s)
    BY <1>2 DEF Elems
  <2>3. QED
    BY <2>1, <2>2 DEF Elems
<1>5. QED
  BY <1>1, <1>2, <1>3, <1>4

LEMMA SeqInt == ASSUME NEW s \in Seq(Int) PROVE Len(s) \in Nat /\ \A i \in 1 .. Len(s) : s[i] \in Int
OBVIOUS

\* A frame may be queued that is newer than all before it, or no event.
LEMMA AppendOrdered ==
  ASSUME NEW w \in Seq(Int), NEW h \in SUBSET Int, NEW o \in Seq(Int), NEW f \in Int,
         Ordered(w, h, o),
         IsEvent(f) => \A g \in Elems(w) \cup h \cup Elems(o) : g < f
  PROVE  Ordered(w, h, Append(o, f))
<1> DEFINE a == Append(o, f)
<1>1. /\ Len(a) = Len(o) + 1 /\ Len(o) \in Nat
      /\ \A i \in 1 .. Len(o) : a[i] = o[i]
      /\ a[Len(o) + 1] = f
  BY AppendElems
<1> HIDE DEF a
<1>2. ASSUME NEW j \in 1 .. Len(a) PROVE j \in 1 .. Len(o) \/ j = Len(o) + 1
  BY <1>1
<1>3. EventsAscend(a)
  <2> SUFFICES ASSUME NEW i \in 1 .. Len(a), NEW j \in 1 .. Len(a), i < j, IsEvent(a[i]), IsEvent(a[j])
               PROVE  a[i] < a[j]
    BY DEF EventsAscend
  <2>1. i \in 1 .. Len(o)
    BY <1>1
  <2>2. CASE j \in 1 .. Len(o)
    BY <1>1, <2>1, <2>2 DEF Ordered, EventsAscend
  <2>3. CASE j = Len(o) + 1
    <3>1. a[j] = f /\ a[i] = o[i] /\ o[i] \in Elems(o)
      BY <1>1, <2>1, <2>3 DEF Elems
    <3>2. QED
      BY <3>1
  <2>4. QED
    BY <1>2, <2>2, <2>3
<1>4. ASSUME NEW j \in 1 .. Len(a), IsEvent(a[j])
      PROVE  (\A g \in h : g < a[j]) /\ (\A i \in 1 .. Len(w) : w[i] < a[j])
  <2>1. CASE j \in 1 .. Len(o)
    BY <1>1, <1>4, <2>1 DEF Ordered
  <2>2. CASE j = Len(o) + 1
    BY <1>1, <1>4, <2>2 DEF Elems
  <2>3. QED
    BY <1>2, <2>1, <2>2
<1>5. QED
  BY <1>3, <1>4 DEF Ordered, a

\* The oldest frame may be dropped, or go to the writer's hand.
LEMMA TailOrdered ==
  ASSUME NEW w \in Seq(Int), NEW h \in SUBSET Int, NEW o \in Seq(Int), o # << >>, Ordered(w, h, o)
  PROVE  Ordered(w, h, Tail(o)) /\ Ordered(w, {Head(o)}, Tail(o))
<1> DEFINE t == Tail(o)
<1>1. /\ Len(o) \in Nat /\ Len(o) > 0 /\ Len(t) = Len(o) - 1 /\ Head(o) = o[1] /\ o[1] \in Int
      /\ \A i \in 1 .. Len(t) : t[i] = o[i + 1] /\ i + 1 \in 1 .. Len(o)
  BY TailElems
<1>2. 1 \in 1 .. Len(o)
  BY <1>1
<1> HIDE DEF t
<1>3. EventsAscend(t)
  <2> SUFFICES ASSUME NEW i \in 1 .. Len(t), NEW j \in 1 .. Len(t), i < j, IsEvent(t[i]), IsEvent(t[j])
               PROVE  t[i] < t[j]
    BY DEF EventsAscend
  <2>1. i + 1 \in 1 .. Len(o) /\ j + 1 \in 1 .. Len(o) /\ i + 1 < j + 1
    BY <1>1
  <2>2. t[i] = o[i + 1] /\ t[j] = o[j + 1]
    BY <1>1
  <2>3. QED
    BY <2>1, <2>2 DEF Ordered, EventsAscend
<1>4. ASSUME NEW j \in 1 .. Len(t), IsEvent(t[j])
      PROVE  /\ \A g \in h : g < t[j]
             /\ \A i \in 1 .. Len(w) : w[i] < t[j]
             /\ o[1] < t[j]
  <2>1. t[j] = o[j + 1] /\ j + 1 \in 1 .. Len(o) /\ 1 < j + 1
    BY <1>1
  <2>2. o[1] < o[j + 1]
    <3>1. CASE IsEvent(o[1])
      BY <1>2, <1>4, <2>1, <3>1 DEF Ordered, EventsAscend
    <3>2. CASE ~IsEvent(o[1])
      <4>1. o[j + 1] \in Int
        BY <2>1, SeqInt
      <4>2. QED
        BY <1>1, <1>4, <2>1, <3>2, <4>1 DEF IsEvent
    <3>3. QED
      BY <3>1, <3>2
  <2>3. QED
    BY <1>4, <2>1, <2>2 DEF Ordered
<1>5. \A i \in 1 .. Len(w) : IsEvent(w[i]) /\ IsEvent(o[1]) => w[i] < o[1]
  BY <1>2 DEF Ordered
<1>6. QED
  BY <1>1, <1>3, <1>4, <1>5 DEF Ordered, t

\* A frame in the hand may be written.
LEMMA WrittenOrdered ==
  ASSUME NEW w \in Seq(Int), NEW h \in SUBSET Int, NEW o \in Seq(Int), NEW f \in h, Ordered(w, h, o)
  PROVE  Ordered(Append(w, f), {}, o)
<1> DEFINE a == Append(w, f)
<1>1. /\ Len(a) = Len(w) + 1 /\ Len(w) \in Nat
      /\ \A i \in 1 .. Len(w) : a[i] = w[i]
      /\ a[Len(w) + 1] = f
  BY AppendElems
<1> HIDE DEF a
<1>2. ASSUME NEW j \in 1 .. Len(a) PROVE j \in 1 .. Len(w) \/ j = Len(w) + 1
  BY <1>1
<1>3. EventsAscend(a)
  <2> SUFFICES ASSUME NEW i \in 1 .. Len(a), NEW j \in 1 .. Len(a), i < j, IsEvent(a[i]), IsEvent(a[j])
               PROVE  a[i] < a[j]
    BY DEF EventsAscend
  <2>1. i \in 1 .. Len(w)
    BY <1>1
  <2>2. CASE j \in 1 .. Len(w)
    BY <1>1, <2>1, <2>2 DEF Ordered, EventsAscend
  <2>3. CASE j = Len(w) + 1
    BY <1>1, <2>1, <2>3 DEF Ordered
  <2>4. QED
    BY <1>2, <2>2, <2>3
<1>4. ASSUME NEW j \in 1 .. Len(o), IsEvent(o[j]), NEW i \in 1 .. Len(a)
      PROVE  a[i] < o[j]
  <2>1. CASE i \in 1 .. Len(w)
    BY <1>1, <1>4, <2>1 DEF Ordered
  <2>2. CASE i = Len(w) + 1
    BY <1>1, <1>4, <2>2 DEF Ordered
  <2>3. QED
    BY <1>2, <2>1, <2>2
<1>5. QED
  BY <1>3, <1>4 DEF Ordered, a

LEMMA EmptyHandOrdered ==
  ASSUME NEW w, NEW h, NEW o, Ordered(w, h, o)
  PROVE  Ordered(w, {}, o)
BY DEF Ordered

----------------------------------------------------------------------------
(* The steps, with the channel operations of a push taken apart.           *)

Put(p) == push[p] \in {"try", "retry"} /\ Len(out[Target(p)]) < QueueLimit /\ Enqueue(p)

FindFull(p) ==
  /\ push[p] = "try"
  /\ push' = [push EXCEPT ![p] = "drop"]
  /\ UNCHANGED <<serve, writer, conn, done, subs, out, hand, frame, cur, todo,
                 emitting, event, stopped, pings, written, lost, joined, raced>>

Queueing == \E p \in Pusher : Put(p) \/ FindFull(p) \/ PushDrop(p) \/ GiveUp(p)

Serving == \E c \in Client : \/ Upgrade(c) \/ Register(c) \/ PushHello(c) \/ PushPong(c)
                              \/ Unregister(c) \/ ServeClose(c) \/ PeerBreaks(c)

Writing == \E c \in Client : WriterStep(c)

LEMMA NextCases ==
  ASSUME [Next]_vars
  PROVE  Broadcast \/ BroadcastNext \/ Queueing \/ Serving \/ Writing \/ Stop \/ UNCHANGED vars
<1>1. ASSUME NEW p \in Pusher, Push(p) PROVE Queueing
  <2>1. Put(p) \/ FindFull(p) \/ PushDrop(p) \/ GiveUp(p)
    BY <1>1 DEF Push, PushTry, PushRetry, Put, FindFull
  <2>2. QED
    BY <2>1 DEF Queueing
<1>2. CASE EngineStep
  BY <1>1, <1>2 DEF EngineStep, Pusher
<1>3. ASSUME NEW c \in Client,
             Upgrade(c) \/ ServeStep(c) \/ PushPong(c) \/ WriterStep(c) \/ PeerBreaks(c)
      PROVE  Queueing \/ Serving \/ Writing
  <2>1. CASE Push(c)
    BY <1>1, <2>1 DEF Pusher
  <2>2. CASE Upgrade(c) \/ Register(c) \/ PushHello(c) \/ PushPong(c) \/ Unregister(c)
               \/ ServeClose(c) \/ PeerBreaks(c)
    BY <2>2 DEF Serving
  <2>3. CASE WriterStep(c)
    BY <2>3 DEF Writing
  <2>4. QED
    BY <1>3, <2>1, <2>2, <2>3 DEF ServeStep
<1>4. CASE Terminated
  BY <1>4 DEF Terminated
<1>5. QED
  BY <1>2, <1>3, <1>4 DEF Next

LEMMA TargetIsClient == ASSUME TypeOK, NEW p \in Pusher PROVE Target(p) \in Client
BY DEF TypeOK, Target, Pusher

----------------------------------------------------------------------------
(* Initially.                                                              *)

LEMMA InitInv == Init => IInv
<1> SUFFICES ASSUME Init PROVE IInv
  OBVIOUS
<1>1. TypeOK
  <2>1. << >> \in Seq(Int) /\ Len(<< >>) = 0 /\ 0 <= QueueLimit
    BY HubAssumption
  <2>2. /\ out \in [Client -> Seq(Frame)] /\ written \in [Client -> Seq(Frame)]
        /\ \A c \in Client : Len(out[c]) <= QueueLimit
    BY <2>1 DEF Init, Frame
  <2>3. /\ hand \in [Client -> SUBSET Frame] /\ lost \in [Client -> SUBSET Frame]
        /\ frame \in [Pusher -> Frame]
    BY DEF Init, Frame, Hello
  <2>4. QED
    BY <2>2, <2>3 DEF Init, TypeOK
<1>2. EngineInv /\ RaceInv
  BY DEF Init, EngineInv, RaceInv, Pusher
<1>3. ASSUME NEW c \in Client PROVE ServeInv(c) /\ StreamInv(c) /\ Complete(c)
  BY <1>3 DEF Init, ServeInv, StreamInv, Complete, Ordered, EventsAscend, Accounted, Elems, Lim, Owed,
              IsEvent, Hello, Pusher
<1>4. QED
  BY <1>1, <1>2, <1>3 DEF IInv

----------------------------------------------------------------------------
(* Types.                                                                  *)

LEMMA TypeStep == ASSUME TypeOK, [Next]_vars PROVE TypeOK'
<1> USE DEF TypeOK, Frame
<1>1. CASE Broadcast
  BY <1>1 DEF Broadcast, Pusher
<1>2. CASE BroadcastNext
  BY <1>2 DEF BroadcastNext
<1>3. ASSUME NEW p \in Pusher, Put(p) PROVE TypeOK'
  <2>1. Target(p) \in Client
    BY TargetIsClient
  <2>2. Append(out[Target(p)], frame[p]) \in Seq(Int)
          /\ Len(Append(out[Target(p)], frame[p])) = Len(out[Target(p)]) + 1
          /\ Len(out[Target(p)]) \in Nat
    BY <2>1, AppendElems
  <2>3. out' \in [Client -> Seq(Int)] /\ \A c \in Client : Len(out'[c]) <= QueueLimit
    <3>1. Len(out[Target(p)]) < QueueLimit
            /\ out' = [out EXCEPT ![Target(p)] = Append(out[Target(p)], frame[p])]
      BY <1>3 DEF Put, Enqueue
    <3>2. Len(Append(out[Target(p)], frame[p])) <= QueueLimit
      BY <2>2, <3>1, HubAssumption
    <3> HIDE DEF TypeOK
    <3>3. out \in [Client -> Seq(Int)] /\ \A c \in Client : Len(out[c]) <= QueueLimit
      BY DEF TypeOK
    <3>4. QED
      BY <2>1, <2>2, <3>1, <3>2, <3>3
  <2>4. raced' \in [Pusher -> BOOLEAN] /\ push' \in [Pusher -> {"no", "try", "drop", "retry"}]
    BY <1>3 DEF Put, Enqueue
  <2>5. QED
    BY <1>3, <2>3, <2>4 DEF Put, Enqueue
<1>4. ASSUME NEW p \in Pusher, FindFull(p) PROVE TypeOK'
  BY <1>4 DEF FindFull
<1>5. ASSUME NEW c \in Client, out[c] # << >>
      PROVE  /\ Tail(out[c]) \in Seq(Int) /\ Len(Tail(out[c])) <= QueueLimit
             /\ Head(out[c]) \in Int
  BY <1>5, TailElems, HubAssumption
<1>6. ASSUME NEW p \in Pusher, PushDrop(p) PROVE TypeOK'
  <2>1. Target(p) \in Client
    BY TargetIsClient
  <2>2. /\ out' \in [Client -> Seq(Int)] /\ \A c \in Client : Len(out'[c]) <= QueueLimit
        /\ lost' \in [Client -> SUBSET Int]
    <3> DEFINE c == Target(p)
    <3>1. CASE /\ out[c] # << >>
               /\ out' = [out EXCEPT ![c] = Tail(@)]
               /\ lost' = [lost EXCEPT ![c] = @ \cup {Head(out[c])}]
      <4>1. out' \in [Client -> Seq(Int)] /\ \A d \in Client : Len(out'[d]) <= QueueLimit
        BY <1>5, <2>1, <3>1
      <4>2. lost[c] \cup {Head(out[c])} \in SUBSET Int
        BY <1>5, <2>1, <3>1
      <4>3. QED
        BY <2>1, <3>1, <4>1, <4>2
    <3>2. QED
      BY <1>6, <3>1 DEF PushDrop
  <2>3. QED
    BY <1>6, <2>2 DEF PushDrop
<1>7. ASSUME NEW p \in Pusher, GiveUp(p) PROVE TypeOK'
  <2>1. Target(p) \in Client
    BY TargetIsClient
  <2>2. lost' \in [Client -> SUBSET Int]
    BY <1>7, <2>1 DEF GiveUp
  <2>3. QED
    BY <1>7, <2>2 DEF GiveUp
<1>8. CASE Serving
  <2> PICK c \in Client : \/ Upgrade(c) \/ Register(c) \/ PushHello(c) \/ PushPong(c)
                          \/ Unregister(c) \/ ServeClose(c) \/ PeerBreaks(c)
    BY <1>8 DEF Serving
  <2>1. CASE Upgrade(c)
    BY <2>1 DEF Upgrade
  <2>2. CASE Register(c)
    BY <2>2 DEF Register
  <2>3. CASE PushHello(c)
    BY <2>3 DEF PushHello, Pusher, Hello
  <2>4. CASE PushPong(c)
    <3>1. /\ pings' \in [Client -> Nat] /\ push' \in [Pusher -> {"no", "try", "drop", "retry"}]
          /\ frame' \in [Pusher -> Int]
      BY <2>4 DEF PushPong, Pusher, Pong
    <3>2. QED
      BY <2>4, <3>1 DEF PushPong
  <2>5. CASE Unregister(c)
    BY <2>5 DEF Unregister
  <2>6. CASE ServeClose(c)
    BY <2>6 DEF ServeClose, CloseClients
  <2>7. CASE PeerBreaks(c)
    BY <2>7 DEF PeerBreaks
  <2>8. QED
    BY <2>1, <2>2, <2>3, <2>4, <2>5, <2>6, <2>7
<1>9. CASE Writing
  <2> PICK c \in Client : WriterStep(c)
    BY <1>9 DEF Writing
  <2>1. CASE WriterTake(c)
    <3>1. /\ out' \in [Client -> Seq(Int)] /\ \A d \in Client : Len(out'[d]) <= QueueLimit
          /\ hand' \in [Client -> SUBSET Int]
      BY <1>5, <2>1 DEF WriterTake
    <3>2. QED
      BY <2>1, <3>1 DEF WriterTake
  <2>2. CASE WriteOk(c)
    <3>1. PICK f \in hand[c] : written' = [written EXCEPT ![c] = Append(@, f)]
      BY <2>2 DEF WriteOk
    <3>2. Append(written[c], f) \in Seq(Int)
      BY AppendElems
    <3>3. written' \in [Client -> Seq(Int)]
      BY <3>1, <3>2
    <3>4. QED
      BY <2>2, <3>3 DEF WriteOk
  <2>3. CASE WriteFail(c)
    BY <2>3 DEF WriteFail, CloseClients
  <2>4. CASE WriterDone(c)
    BY <2>4 DEF WriterDone
  <2>5. QED
    BY <2>1, <2>2, <2>3, <2>4 DEF WriterStep
<1>10. CASE Stop
  BY <1>10 DEF Stop, CloseClients
<1>11. CASE UNCHANGED vars
  BY <1>11 DEF vars
<1>12. QED
  BY <1>1, <1>2, <1>3, <1>4, <1>6, <1>7, <1>8, <1>9, <1>10, <1>11, NextCases DEF Queueing

----------------------------------------------------------------------------
(* The engine and the goroutine that serves a subscriber.                  *)

LEMMA EngineStepInv == ASSUME TypeOK, EngineInv, [Next]_vars PROVE EngineInv'
<1> USE DEF EngineInv
<1>0. Engine \notin Client /\ Engine \in Pusher
  BY HubAssumption DEF Pusher
<1>1. CASE Broadcast
  BY <1>0, <1>1 DEF Broadcast, TypeOK
<1>2. CASE BroadcastNext
  BY <1>0, <1>2 DEF BroadcastNext, TypeOK
<1>3. CASE Queueing
  <2> PICK p \in Pusher : Put(p) \/ FindFull(p) \/ PushDrop(p) \/ GiveUp(p)
    BY <1>3 DEF Queueing
  <2>1. UNCHANGED <<frame, cur, todo, emitting, event>>
    BY DEF Put, Enqueue, FindFull, PushDrop, GiveUp
  <2>2. push[p] # "no"
    BY DEF Put, FindFull, PushDrop, GiveUp
  <2>3. p # Engine => push'[Engine] = push[Engine]
    BY <1>0 DEF Put, Enqueue, FindFull, PushDrop, GiveUp, TypeOK
  <2>4. QED
    BY <2>1, <2>2, <2>3
<1>4. CASE Serving
  BY <1>0, <1>4 DEF Serving, Upgrade, Register, PushHello, PushPong, Unregister, ServeClose,
                    PeerBreaks, TypeOK
<1>5. CASE Writing
  BY <1>5 DEF Writing, WriterStep, WriterTake, WriteOk, WriteFail, WriterDone
<1>6. CASE Stop \/ UNCHANGED vars
  BY <1>6 DEF Stop, vars
<1>7. QED
  BY <1>1, <1>2, <1>3, <1>4, <1>5, <1>6, NextCases

\* Whom a frame is pushed to has been registered.
LEMMA TargetWasRegistered ==
  ASSUME TypeOK, EngineInv, \A d \in Client : ServeInv(d), NEW p \in Pusher, push[p] # "no"
  PROVE  serve[Target(p)] \notin {"absent", "upgraded"}
<1>1. CASE p = Engine
  BY <1>1 DEF EngineInv, ServeInv, Owed, Target, TypeOK
<1>2. CASE p # Engine
  BY <1>2 DEF ServeInv, Target, Pusher
<1>3. QED
  BY <1>1, <1>2

\* A broadcast that goes on to its next subscriber owes the same pushes as before.
LEMMA OwedNext ==
  ASSUME TypeOK, EngineInv, BroadcastNext, NEW d \in Client
  PROVE  Owed(d)' = Owed(d)
<1>0. Engine \in Pusher
  BY DEF Pusher
<1>1. emitting /\ push[Engine] = "no"
  BY DEF BroadcastNext
<1>2. CASE todo = {} /\ emitting' = FALSE
  BY <1>1, <1>2 DEF Owed
<1>3. CASE \E c \in todo : /\ cur' = c /\ todo' = todo \ {c}
                           /\ push' = [push EXCEPT ![Engine] = "try"] /\ UNCHANGED emitting
  <2>1. push'[Engine] = "try" /\ emitting'
    BY <1>0, <1>1, <1>3 DEF TypeOK
  <2>2. d \in todo <=> d \in todo' \/ cur' = d
    BY <1>3
  <2>3. QED
    BY <1>1, <2>1, <2>2 DEF Owed
<1>4. QED
  BY <1>2, <1>3 DEF BroadcastNext

LEMMA ServeStepInv ==
  ASSUME TypeOK, EngineInv, \A d \in Client : ServeInv(d), [Next]_vars, NEW d \in Client
  PROVE  ServeInv(d)'
<1>0. Engine \notin Client /\ Engine \in Pusher /\ d \in Pusher
  BY HubAssumption DEF Pusher
<1>1. CASE Broadcast
  BY <1>0, <1>1 DEF Broadcast, EngineInv, ServeInv, Owed, TypeOK
<1>2. CASE BroadcastNext
  <2>1. Owed(d)' = Owed(d)
    BY <1>2, OwedNext
  <2>2. push'[d] = push[d]
    BY <1>0, <1>2 DEF BroadcastNext, TypeOK
  <2>3. QED
    BY <1>2, <2>1, <2>2 DEF BroadcastNext, ServeInv
<1>3. CASE Queueing
  <2> PICK p \in Pusher : Put(p) \/ FindFull(p) \/ PushDrop(p) \/ GiveUp(p)
    BY <1>3 DEF Queueing
  <2>1. push[p] # "no"
    BY DEF Put, FindFull, PushDrop, GiveUp
  <2>2. serve[Target(p)] \notin {"absent", "upgraded"} /\ Target(p) \in Client
    BY <2>1, TargetWasRegistered, TargetIsClient
  <2>3. /\ UNCHANGED <<serve, writer, subs, hand, frame, cur, todo, emitting, event, written, joined>>
        /\ push' \in [Pusher -> {"no", "try", "drop", "retry"}]
        /\ \A q \in Pusher : push'[q] # "no" => push[q] # "no"
    BY DEF Put, Enqueue, FindFull, PushDrop, GiveUp, TypeOK
  <2>4. d # Target(p) => out'[d] = out[d] /\ lost'[d] = lost[d]
    BY <2>2 DEF Put, Enqueue, FindFull, PushDrop, GiveUp, TypeOK
  <2>5. Owed(d)' => Owed(d)
    BY <1>0, <2>3 DEF Owed
  <2>6. QED
    BY <1>0, <2>2, <2>3, <2>4, <2>5 DEF ServeInv
<1>4. CASE Serving
  <2> PICK c \in Client : \/ Upgrade(c) \/ Register(c) \/ PushHello(c) \/ PushPong(c)
                          \/ Unregister(c) \/ ServeClose(c) \/ PeerBreaks(c)
    BY <1>4 DEF Serving
  <2>1. Owed(d)' = Owed(d)
    BY <1>0 DEF Upgrade, Register, PushHello, PushPong, Unregister, ServeClose, PeerBreaks, Owed,
                TypeOK, Pusher
  <2>2. CASE Upgrade(c)
    BY <2>1, <2>2 DEF Upgrade, ServeInv, TypeOK
  <2>3. CASE Register(c)
    BY <2>1, <2>3 DEF Register, ServeInv, TypeOK
  <2>4. CASE PushHello(c)
    BY <1>0, <2>1, <2>4 DEF PushHello, ServeInv, TypeOK, IsEvent, Hello, Pusher
  <2>5. CASE PushPong(c)
    BY <1>0, <2>1, <2>5 DEF PushPong, ServeInv, TypeOK, IsEvent, Pong, Pusher
  <2>6. CASE Unregister(c)
    BY <2>1, <2>6 DEF Unregister, ServeInv, TypeOK
  <2>7. CASE ServeClose(c)
    BY <2>1, <2>7 DEF ServeClose, ServeInv, TypeOK
  <2>8. CASE PeerBreaks(c)
    BY <2>1, <2>8 DEF PeerBreaks, ServeInv, TypeOK
  <2>9. QED
    BY <2>2, <2>3, <2>4, <2>5, <2>6, <2>7, <2>8
<1>5. CASE Writing
  <2> PICK c \in Client : WriterStep(c)
    BY <1>5 DEF Writing
  <2>1. UNCHANGED <<serve, subs, push, frame, cur, todo, emitting, event, joined>>
          /\ (Owed(d)' = Owed(d))
    BY DEF WriterStep, WriterTake, WriteOk, WriteFail, WriterDone, Owed
  <2>2. c # d => /\ writer'[d] = writer[d] /\ out'[d] = out[d] /\ hand'[d] = hand[d]
                 /\ written'[d] = written[d] /\ lost'[d] = lost[d]
    BY DEF WriterStep, WriterTake, WriteOk, WriteFail, WriterDone, TypeOK
  <2>3. CASE c # d
    BY <2>1, <2>2, <2>3 DEF ServeInv
  <2>4. CASE c = d /\ WriterTake(c)
    BY <2>1, <2>4 DEF WriterTake, ServeInv, TypeOK
  <2>5. CASE c = d /\ WriteOk(c)
    BY <2>1, <2>5 DEF WriteOk, ServeInv, TypeOK
  <2>6. CASE c = d /\ WriteFail(c)
    BY <2>1, <2>6 DEF WriteFail, ServeInv, TypeOK
  <2>7. CASE c = d /\ WriterDone(c)
    <3>1. writer[d] # "write" /\ UNCHANGED <<out, hand, written, lost>>
      BY <2>7 DEF WriterDone
    <3>2. QED
      BY <2>1, <3>1 DEF ServeInv
  <2>8. QED
    BY <2>3, <2>4, <2>5, <2>6, <2>7 DEF WriterStep
<1>6. CASE Stop \/ UNCHANGED vars
  BY <1>6 DEF Stop, vars, ServeInv, Owed
<1>7. QED
  BY <1>1, <1>2, <1>3, <1>4, <1>5, <1>6, NextCases

----------------------------------------------------------------------------
(* Room that was made stays, unless somebody else pushes.                  *)

LEMMA RaceStep ==
  ASSUME TypeOK, EngineInv, RaceInv, [Next]_vars
  PROVE  RaceInv'
<1>0. Engine \notin Client /\ Engine \in Pusher /\ \A p \in Pusher : Target(p) \in Client
  BY HubAssumption, TargetIsClient DEF Pusher
<1> SUFFICES ASSUME NEW q \in Pusher, push'[q] = "retry", ~raced'[q]
             PROVE  Len(out'[Target(q)']) < QueueLimit
  BY DEF RaceInv
<1>1. ASSUME \A r \in Pusher : push'[r] = "retry" => push[r] = "retry" /\ raced'[r] = raced[r],
             \A c \in Client : Len(out'[c]) <= Len(out[c]),
             push'[Engine] = "retry" => cur' = cur
      PROVE  Len(out'[Target(q)']) < QueueLimit
  <2>1. push[q] = "retry" /\ ~raced[q] /\ Target(q)' = Target(q)
    BY <1>0, <1>1 DEF Target
  <2>2. Len(out[Target(q)]) < QueueLimit /\ Len(out'[Target(q)]) <= Len(out[Target(q)])
    BY <1>0, <1>1, <2>1 DEF RaceInv
  <2>3. Len(out[Target(q)]) \in Nat /\ Len(out'[Target(q)]) \in Nat
    <3>1. TypeOK'
      BY TypeStep
    <3>2. out[Target(q)] \in Seq(Int) /\ out'[Target(q)] \in Seq(Int)
      BY <1>0, <3>1 DEF TypeOK, Frame
    <3>3. QED
      BY <3>2
  <2>4. QED
    BY <2>1, <2>2, <2>3, HubAssumption
<1>2. \A c \in Client : Len(out[c]) \in Nat
  BY DEF TypeOK, Frame
<1>3. CASE Broadcast \/ Stop \/ UNCHANGED vars
  BY <1>1, <1>2, <1>3 DEF Broadcast, Stop, vars
<1>4. CASE BroadcastNext
  <2>1. push'[Engine] # "retry" /\ \A r \in Pusher : push'[r] = "retry" => push[r] = "retry"
    BY <1>0, <1>4 DEF BroadcastNext, TypeOK
  <2>2. QED
    BY <1>1, <1>2, <1>4, <2>1 DEF BroadcastNext
<1>5. CASE Queueing
  <2> PICK p \in Pusher : Put(p) \/ FindFull(p) \/ PushDrop(p) \/ GiveUp(p)
    BY <1>5 DEF Queueing
  <2>0. Target(q)' = Target(q)
    BY DEF Put, Enqueue, FindFull, PushDrop, GiveUp, Target
  <2>1. CASE Put(p)
    <3>1. q # p /\ push[q] = "retry" /\ Target(q) # Target(p) /\ ~raced[q]
      BY <2>1 DEF Put, Enqueue, TypeOK
    <3>2. out'[Target(q)] = out[Target(q)]
      BY <1>0, <2>1, <3>1 DEF Put, Enqueue, TypeOK
    <3>3. QED
      BY <2>0, <3>1, <3>2 DEF RaceInv
  <2>2. CASE FindFull(p)
    BY <1>1, <1>2, <2>2 DEF FindFull, TypeOK
  <2>3. CASE PushDrop(p)
    <3>1. \A c \in Client : /\ Len(out'[c]) \in Nat /\ Len(out'[c]) <= Len(out[c])
                            /\ c = Target(p) => Len(out'[c]) < QueueLimit
      <4> SUFFICES ASSUME NEW c \in Client
                   PROVE  /\ Len(out'[c]) \in Nat /\ Len(out'[c]) <= Len(out[c])
                          /\ c = Target(p) => Len(out'[c]) < QueueLimit
        OBVIOUS
      <4>1. CASE c # Target(p)
        <5>1. out'[c] = out[c]
          BY <2>3, <4>1 DEF PushDrop, TypeOK
        <5>2. QED
          BY <1>2, <4>1, <5>1
      <4>2. CASE c = Target(p) /\ out[c] = << >>
        <5>1. out'[c] = << >> /\ Len(<< >>) = 0
          BY <2>3, <4>2 DEF PushDrop
        <5>2. QED
          BY <4>2, <5>1, HubAssumption
      <4>3. CASE c = Target(p) /\ out[c] # << >>
        <5>1. out'[c] = Tail(out[c])
          BY <2>3, <4>3 DEF PushDrop, TypeOK
        <5>2. Len(Tail(out[c])) = Len(out[c]) - 1 /\ Len(out[c]) > 0 /\ Len(out[c]) <= QueueLimit
          BY <4>3, TailElems DEF TypeOK, Frame
        <5>3. QED
          BY <1>2, <5>1, <5>2, HubAssumption
      <4>4. QED
        BY <4>1, <4>2, <4>3
    <3>2. CASE q = p
      BY <1>0, <2>0, <3>1, <3>2
    <3>3. CASE q # p
      <4>1. push[q] = "retry" /\ ~raced[q]
        BY <2>3, <3>3 DEF PushDrop, TypeOK
      <4>2. Len(out[Target(q)]) < QueueLimit
        BY <4>1 DEF RaceInv
      <4>3. QED
        BY <1>0, <1>2, <2>0, <3>1, <4>2, HubAssumption
    <3>4. QED
      BY <3>2, <3>3
  <2>4. CASE GiveUp(p)
    BY <1>1, <1>2, <2>4 DEF GiveUp, TypeOK
  <2>5. QED
    BY <2>1, <2>2, <2>3, <2>4
<1>6. CASE Serving
  BY <1>0, <1>1, <1>2, <1>6 DEF Serving, Upgrade, Register, PushHello, PushPong, Unregister,
     ServeClose, PeerBreaks, TypeOK, Pusher
<1>7. CASE Writing
  <2> PICK c \in Client : WriterStep(c)
    BY <1>7 DEF Writing
  <2>1. \A d \in Client : Len(out'[d]) <= Len(out[d])
    <3>1. CASE WriterTake(c)
      <4>1. Len(Tail(out[c])) = Len(out[c]) - 1
        BY <3>1, TailElems DEF WriterTake, TypeOK, Frame
      <4>2. QED
        BY <1>2, <3>1, <4>1 DEF WriterTake, TypeOK
    <3>2. CASE UNCHANGED out
      BY <1>2, <3>2
    <3>3. QED
      BY <3>1, <3>2 DEF WriterStep, WriteOk, WriteFail, WriterDone
  <2>2. UNCHANGED <<push, raced, cur>>
    BY DEF WriterStep, WriterTake, WriteOk, WriteFail, WriterDone
  <2>3. QED
    BY <1>1, <2>1, <2>2
<1>8. QED
  BY <1>3, <1>4, <1>5, <1>6, <1>7, NextCases

----------------------------------------------------------------------------
(* What a step does to the frames of one subscriber.                       *)

\* Everything the stream of d is judged by stays as it is.
Quiet(d) ==
  /\ Ordered(written[d], hand[d], out[d])'
  /\ Accounted(d)' = Accounted(d) /\ Lim(d)' = Lim(d)
  /\ joined'[d] = joined[d] /\ (d \in subs' => d \in subs)

\* An event is emitted that d, not being registered, is not to get.
Passed(d) ==
  /\ Ordered(written[d], hand[d], out[d])'
  /\ Accounted(d)' = Accounted(d) /\ Lim(d)' > Lim(d) /\ d \notin subs'

\* d is registered; nothing has been sent to it.
Joins(d) ==
  /\ Ordered(written[d], hand[d], out[d])'
  /\ Accounted(d)' = {} /\ Lim(d)' = Lim(d) /\ joined'[d] = Lim(d)

\* A frame f joins the stream of d: no event, or the one it is owed.
Adds(d, f) ==
  /\ Ordered(written[d], hand[d], out[d])'
  /\ Accounted(d)' = Accounted(d) \cup {f}
  /\ joined'[d] = joined[d] /\ subs' = subs
  /\ \/ f <= 0 /\ Lim(d)' = Lim(d)
     \/ f = Lim(d)' /\ Lim(d)' = Lim(d) + 1 /\ joined[d] <= Lim(d)

Effect(d) == Quiet(d) \/ Passed(d) \/ Joins(d) \/ (\E f \in Int : Adds(d, f))

LEMMA LimBounds ==
  ASSUME TypeOK, NEW d \in Client, ServeInv(d)
  PROVE  Lim(d) \in Nat /\ joined[d] <= Lim(d) /\ joined[d] \in Nat
BY DEF TypeOK, ServeInv, Lim

LEMMA AccountedInt == ASSUME TypeOK, NEW d \in Client PROVE Accounted(d) \in SUBSET Int
BY SeqInt DEF TypeOK, Accounted, Elems, Frame

LEMMA AccountedElems ==
  ASSUME NEW d \in Client
  PROVE  /\ Accounted(d) = Elems(written[d]) \cup hand[d] \cup Elems(out[d]) \cup lost[d]
         /\ Accounted(d)' = Elems(written'[d]) \cup hand'[d] \cup Elems(out'[d]) \cup lost'[d]
BY DEF Accounted

\* An effect keeps the stream in order and complete.
LEMMA EffectKeeps ==
  ASSUME TypeOK, TypeOK', NEW d \in Client, ServeInv(d), StreamInv(d), Effect(d), Complete(d)
  PROVE  StreamInv(d)' /\ Complete(d)'
<1> USE DEF Complete
<1>1. Lim(d) \in Nat /\ joined[d] <= Lim(d) /\ joined[d] \in Nat
  BY LimBounds
<1>2. Lim(d)' \in Int /\ Accounted(d) \in SUBSET Int
  <2>1. event' \in Int
    BY DEF TypeOK
  <2>2. Lim(d)' \in Int
    BY <2>1 DEF Lim
  <2>3. QED
    BY <2>2, AccountedInt
<1>3. Ordered(written[d], hand[d], out[d])' /\ (\A f \in Accounted(d) : f <= Lim(d))
  BY DEF Effect, Quiet, Passed, Joins, Adds, StreamInv
<1> HIDE DEF Lim, Accounted
<1>4. CASE Quiet(d)
  BY <1>1, <1>2, <1>3, <1>4 DEF Quiet, StreamInv
<1>5. CASE Passed(d)
  BY <1>1, <1>2, <1>3, <1>5 DEF Passed, StreamInv
<1>6. CASE Joins(d)
  <2>1. (joined'[d] + 1) .. Lim(d)' = {}
    BY <1>1, <1>6 DEF Joins
  <2>2. QED
    BY <1>3, <1>6, <2>1 DEF Joins, StreamInv, Events
<1>7. ASSUME NEW f \in Int, Adds(d, f)
      PROVE  StreamInv(d)' /\ Complete(d)'
  <2>1. StreamInv(d)'
    BY <1>1, <1>2, <1>3, <1>7 DEF Adds, StreamInv
  <2>2. CASE f <= 0 /\ Lim(d)' = Lim(d)
    <3>1. Events(Accounted(d)') = Events(Accounted(d))
      BY <1>7, <2>2 DEF Adds, IsEvent, Events
    <3>2. QED
      BY <1>7, <2>1, <2>2, <3>1 DEF Adds
  <2>3. CASE f = Lim(d)' /\ Lim(d)' = Lim(d) + 1
    <3>1. Events(Accounted(d)') = Events(Accounted(d)) \cup {f}
      BY <1>1, <1>7, <2>3 DEF Adds, IsEvent, Events
    <3>2. (joined[d] + 1) .. (Lim(d) + 1) = ((joined[d] + 1) .. Lim(d)) \cup {Lim(d) + 1}
      BY <1>1
    <3>3. QED
      BY <1>7, <2>1, <2>3, <3>1, <3>2 DEF Adds
  <2>4. QED
    BY <1>7, <2>2, <2>3 DEF Adds
<1>8. QED
  BY <1>4, <1>5, <1>6, <1>7 DEF Effect

\* What no step touches stays as it is.
LEMMA Untouched ==
  ASSUME NEW d \in Client, StreamInv(d), Owed(d)' = Owed(d), event' = event,
         written'[d] = written[d], hand'[d] = hand[d], out'[d] = out[d], lost'[d] = lost[d],
         joined'[d] = joined[d], d \in subs' => d \in subs
  PROVE  Quiet(d)
<1>1. Accounted(d)' = Accounted(d)
  BY AccountedElems
<1>2. Lim(d)' = Lim(d)
  BY DEF Lim
<1>3. Ordered(written[d], hand[d], out[d])'
  BY DEF StreamInv, Ordered
<1>4. QED
  BY <1>1, <1>2, <1>3 DEF Quiet

LEMMA BroadcastEffect ==
  ASSUME TypeOK, EngineInv, NEW d \in Client, StreamInv(d), Broadcast
  PROVE  Effect(d)
<1>1. /\ UNCHANGED <<written, hand, out, lost, joined, subs, cur, push>>
      /\ ~emitting /\ emitting' /\ event' = event + 1 /\ todo' = subs /\ push[Engine] = "no"
  BY DEF Broadcast, EngineInv
<1>2. Accounted(d)' = Accounted(d) /\ Ordered(written[d], hand[d], out[d])'
  BY <1>1, AccountedElems DEF StreamInv, Ordered
<1>3. ~Owed(d) /\ (Owed(d)' <=> d \in subs)
  BY <1>1 DEF Owed
<1>4. event \in Nat
  BY DEF TypeOK
<1>5. CASE d \in subs
  <2>1. Lim(d)' = Lim(d)
    BY <1>1, <1>3, <1>4, <1>5 DEF Lim
  <2>2. QED
    BY <1>1, <1>2, <2>1 DEF Effect, Quiet
<1>6. CASE d \notin subs
  <2>1. Lim(d)' > Lim(d)
    BY <1>1, <1>3, <1>4, <1>6 DEF Lim
  <2>2. QED
    BY <1>1, <1>2, <1>6, <2>1 DEF Effect, Passed
<1>7. QED
  BY <1>5, <1>6

\* The newest event is the one the engine owes the subscriber it pushes to.
LEMMA PushedLim ==
  ASSUME TypeOK, EngineInv, NEW p \in Pusher, push[p] # "no", NEW d \in Client,
         UNCHANGED <<cur, todo, emitting, event>>, push' = [push EXCEPT ![p] = "no"]
  PROVE  /\ d # Target(p) => Owed(d)' = Owed(d)
         /\ p # Engine => Owed(d)' = Owed(d)
         /\ p = Engine /\ d = Target(p) => Owed(d) /\ ~Owed(d)' /\ frame[p] = event
<1>1. Engine \in Pusher /\ Engine \notin Client
  BY HubAssumption DEF Pusher
<1>2. CASE p # Engine
  <2>1. push'[Engine] = push[Engine]
    BY <1>1, <1>2 DEF TypeOK
  <2>2. Owed(d)' = Owed(d)
    BY <2>1 DEF Owed
  <2>3. QED
    BY <1>2, <2>2
<1>3. CASE p = Engine
  <2>1. push'[Engine] = "no" /\ emitting /\ Target(p) = cur
    BY <1>1, <1>3 DEF TypeOK, EngineInv, Target
  <2>2. d # cur => Owed(d)' = Owed(d)
    BY <2>1 DEF Owed
  <2>3. d = cur => Owed(d) /\ ~Owed(d)' /\ frame[p] = event
    BY <1>3, <2>1 DEF Owed, EngineInv
  <2>4. QED
    BY <1>3, <2>1, <2>2, <2>3
<1>4. QED
  BY <1>2, <1>3

\* A push that ends, in the queue or given up, accounts for its frame.
LEMMA PushEffect ==
  ASSUME TypeOK, EngineInv, NEW p \in Pusher, push[p] # "no", NEW d \in Client,
         ServeInv(d), StreamInv(d), d = Target(p),
         UNCHANGED <<cur, todo, emitting, event, joined, subs>>,
         push' = [push EXCEPT ![p] = "no"],
         Accounted(d)' = Accounted(d) \cup {frame[p]},
         (IsEvent(frame[p]) => \A f \in Accounted(d) : f < frame[p])
            => Ordered(written[d], hand[d], out[d])'
  PROVE  Effect(d)
<1>1. frame[p] \in Int /\ event \in Nat /\ Lim(d) \in Nat /\ joined[d] <= Lim(d)
  BY LimBounds DEF TypeOK, Frame
<1>2. Accounted(d) \in SUBSET Int /\ \A f \in Accounted(d) : f <= Lim(d)
  BY AccountedInt DEF StreamInv
<1>3. CASE p = Engine
  <2>1. Lim(d) = event - 1 /\ Lim(d)' = event /\ frame[p] = event
    BY <1>3, PushedLim DEF Lim
  <2>2. Ordered(written[d], hand[d], out[d])'
    <3>1. \A f \in Accounted(d) : f < frame[p]
      BY <1>1, <1>2, <2>1
    <3>2. QED
      BY <3>1
  <2>3. Adds(d, frame[p])
    BY <1>1, <2>1, <2>2 DEF Adds
  <2>4. QED
    BY <1>1, <2>3 DEF Effect
<1>4. CASE p # Engine
  <2>1. p = d
    BY <1>4 DEF Target
  <2>2. ~IsEvent(frame[p])
    BY <2>1 DEF ServeInv
  <2>3. Lim(d)' = Lim(d)
    BY <1>4, PushedLim DEF Lim
  <2>4. frame[p] <= 0
    BY <1>1, <2>2 DEF IsEvent
  <2>5. Adds(d, frame[p])
    BY <2>2, <2>3, <2>4 DEF Adds
  <2>6. QED
    BY <1>1, <2>5 DEF Effect
<1>5. QED
  BY <1>3, <1>4

LEMMA PutEffect ==
  ASSUME TypeOK, EngineInv, NEW p \in Pusher, NEW d \in Client, ServeInv(d), StreamInv(d), Put(p)
  PROVE  Effect(d)
<1>1. /\ UNCHANGED <<written, hand, lost, joined, subs, cur, todo, emitting, event>>
      /\ push' = [push EXCEPT ![p] = "no"] /\ push[p] # "no"
      /\ out' = [out EXCEPT ![Target(p)] = Append(@, frame[p])]
  BY DEF Put, Enqueue
<1>2. CASE d # Target(p)
  <2>1. out'[d] = out[d]
    BY <1>1, <1>2 DEF TypeOK
  <2>2. Owed(d)' = Owed(d)
    BY <1>1, <1>2, PushedLim
  <2>3. QED
    BY <1>1, <2>1, <2>2, Untouched DEF Effect
<1>3. CASE d = Target(p)
  <2>1. /\ written[d] \in Seq(Int) /\ hand[d] \in SUBSET Int /\ out[d] \in Seq(Int)
        /\ frame[p] \in Int /\ out'[d] = Append(out[d], frame[p])
    BY <1>1, <1>3 DEF TypeOK, Frame
  <2>2. Elems(out'[d]) = Elems(out[d]) \cup {frame[p]}
    BY <2>1, AppendElems
  <2>3. Accounted(d)' = Accounted(d) \cup {frame[p]}
    BY <1>1, <2>2, AccountedElems
  <2>4. ASSUME IsEvent(frame[p]) => \A f \in Accounted(d) : f < frame[p]
        PROVE  Ordered(written[d], hand[d], out[d])'
    <3>1. IsEvent(frame[p]) => \A g \in Elems(written[d]) \cup hand[d] \cup Elems(out[d]) : g < frame[p]
      BY <2>4, AccountedElems
    <3>2. Ordered(written[d], hand[d], out'[d])
      BY <2>1, <3>1, AppendOrdered DEF StreamInv
    <3>3. QED
      BY <1>1, <3>2 DEF Ordered
  <2>5. QED
    BY <1>1, <1>3, <2>3, <2>4, PushEffect
<1>4. QED
  BY <1>2, <1>3

LEMMA GiveUpEffect ==
  ASSUME TypeOK, EngineInv, NEW p \in Pusher, NEW d \in Client, ServeInv(d), StreamInv(d), GiveUp(p)
  PROVE  Effect(d)
<1>1. /\ UNCHANGED <<written, hand, out, joined, subs, cur, todo, emitting, event>>
      /\ push' = [push EXCEPT ![p] = "no"] /\ push[p] # "no"
      /\ lost' = [lost EXCEPT ![Target(p)] = @ \cup {frame[p]}]
  BY DEF GiveUp
<1>2. CASE d # Target(p)
  <2>1. lost'[d] = lost[d]
    BY <1>1, <1>2 DEF TypeOK
  <2>2. Owed(d)' = Owed(d)
    BY <1>1, <1>2, PushedLim
  <2>3. QED
    BY <1>1, <2>1, <2>2, Untouched DEF Effect
<1>3. CASE d = Target(p)
  <2>1. lost'[d] = lost[d] \cup {frame[p]}
    BY <1>1, <1>3 DEF TypeOK
  <2>2. Accounted(d)' = Accounted(d) \cup {frame[p]}
    BY <1>1, <2>1, AccountedElems
  <2>3. Ordered(written[d], hand[d], out[d])'
    BY <1>1 DEF StreamInv, Ordered
  <2>4. QED
    BY <1>1, <1>3, <2>2, <2>3, PushEffect
<1>4. QED
  BY <1>2, <1>3

\* The dropped frame is given up; nothing else happens to the stream.
LEMMA DropEffect ==
  ASSUME TypeOK, EngineInv, NEW p \in Pusher, NEW d \in Client, StreamInv(d), PushDrop(p)
  PROVE  Effect(d)
<1>1. /\ UNCHANGED <<written, hand, joined, subs, cur, todo, emitting, event>>
      /\ push' = [push EXCEPT ![p] = "retry"] /\ push[p] = "drop"
  BY DEF PushDrop
<1>2. push'[Engine] # "no" <=> push[Engine] # "no"
  BY <1>1 DEF TypeOK, Pusher
<1>3. Owed(d)' = Owed(d) /\ Lim(d)' = Lim(d)
  BY <1>1, <1>2 DEF Owed, Lim
<1>4. CASE out'[d] = out[d] /\ lost'[d] = lost[d]
  BY <1>1, <1>3, <1>4, Untouched DEF Effect
<1>5. CASE out[d] # << >> /\ out'[d] = Tail(out[d]) /\ lost'[d] = lost[d] \cup {Head(out[d])}
  <2>1. written[d] \in Seq(Int) /\ hand[d] \in SUBSET Int /\ out[d] \in Seq(Int)
    BY DEF TypeOK, Frame
  <2>2. Elems(out[d]) = {Head(out[d])} \cup Elems(out'[d])
    BY <1>5, <2>1, TailElems
  <2>3. Accounted(d)' = Accounted(d)
    <3> DEFINE h == {Head(out[d])}
    <3>1. Elems(out[d]) = h \cup Elems(out'[d]) /\ lost'[d] = lost[d] \cup h
      BY <1>5, <2>2
    <3>2. /\ Accounted(d) = Elems(written[d]) \cup hand[d] \cup Elems(out[d]) \cup lost[d]
          /\ Accounted(d)' = Elems(written[d]) \cup hand[d] \cup Elems(out'[d]) \cup lost'[d]
      BY <1>1, AccountedElems
    <3> HIDE DEF h
    <3>3. QED
      BY <3>1, <3>2
  <2>4. Ordered(written[d], hand[d], out'[d])
    BY <1>5, <2>1, TailOrdered DEF StreamInv
  <2>5. Ordered(written[d], hand[d], out[d])'
    BY <1>1, <2>4 DEF Ordered
  <2>6. QED
    BY <1>1, <1>3, <2>3, <2>5 DEF Effect, Quiet
<1>6. CASE d # Target(p)
  BY <1>4, <1>6 DEF PushDrop, TypeOK
<1>7. CASE d = Target(p)
  BY <1>4, <1>5, <1>7 DEF PushDrop, TypeOK
<1>8. QED
  BY <1>6, <1>7

LEMMA FullEffect ==
  ASSUME TypeOK, NEW p \in Pusher, NEW d \in Client, StreamInv(d), FindFull(p)
  PROVE  Effect(d)
<1>1. /\ UNCHANGED <<written, hand, out, lost, joined, subs, cur, todo, emitting, event>>
      /\ push' = [push EXCEPT ![p] = "drop"] /\ push[p] = "try"
  BY DEF FindFull
<1>2. push'[Engine] # "no" <=> push[Engine] # "no"
  BY <1>1 DEF TypeOK, Pusher
<1>3. Owed(d)' = Owed(d)
  BY <1>1, <1>2 DEF Owed
<1>4. QED
  BY <1>1, <1>3, Untouched DEF Effect

LEMMA ServingEffect ==
  ASSUME TypeOK, NEW d \in Client, ServeInv(d), StreamInv(d), Serving
  PROVE  Effect(d)
<1> PICK c \in Client : \/ Upgrade(c) \/ Register(c) \/ PushHello(c) \/ PushPong(c)
                        \/ Unregister(c) \/ ServeClose(c) \/ PeerBreaks(c)
  BY DEF Serving
<1>1. UNCHANGED <<written, hand, out, lost, cur, todo, emitting, event>>
  BY DEF Upgrade, Register, PushHello, PushPong, Unregister, ServeClose, PeerBreaks
<1>2. push'[Engine] = push[Engine]
  BY HubAssumption DEF Upgrade, Register, PushHello, PushPong, Unregister, ServeClose, PeerBreaks,
                       TypeOK, Pusher
<1>3. Owed(d)' = Owed(d)
  BY <1>1, <1>2 DEF Owed
<1>4. CASE c = d /\ Register(c)
  <2>1. joined'[d] = event /\ serve[d] = "upgraded"
    BY <1>4 DEF Register, TypeOK
  <2>2. Accounted(d) = {} /\ ~Owed(d)
    BY <2>1 DEF ServeInv, Accounted, Elems
  <2>3. Accounted(d)' = Accounted(d)
    BY <1>1, AccountedElems
  <2>4. Lim(d) = event /\ Lim(d)' = Lim(d)
    BY <1>1, <1>3, <2>2 DEF Lim
  <2>5. Ordered(written[d], hand[d], out[d])'
    BY <1>1 DEF StreamInv, Ordered
  <2>6. QED
    BY <2>1, <2>2, <2>3, <2>4, <2>5 DEF Effect, Joins
<1>5. CASE ~(c = d /\ Register(c))
  <2>1. joined'[d] = joined[d] /\ (d \in subs' => d \in subs)
    BY <1>5 DEF Upgrade, Register, PushHello, PushPong, Unregister, ServeClose, PeerBreaks, TypeOK
  <2>2. QED
    BY <1>1, <1>3, <2>1, Untouched DEF Effect
<1>6. QED
  BY <1>4, <1>5

LEMMA WritingEffect ==
  ASSUME TypeOK, NEW d \in Client, ServeInv(d), StreamInv(d), Writing
  PROVE  Effect(d)
<1> PICK c \in Client : WriterStep(c)
  BY DEF Writing
<1>1. UNCHANGED <<subs, push, cur, todo, emitting, event, joined>>
  BY DEF WriterStep, WriterTake, WriteOk, WriteFail, WriterDone
<1>2. Owed(d)' = Owed(d) /\ Lim(d)' = Lim(d)
  BY <1>1 DEF Owed, Lim
<1>3. /\ written[d] \in Seq(Int) /\ hand[d] \in SUBSET Int /\ out[d] \in Seq(Int)
      /\ Ordered(written[d], hand[d], out[d])
  BY DEF TypeOK, Frame, StreamInv
<1>4. ASSUME Accounted(d)' = Accounted(d), Ordered(written'[d], hand'[d], out'[d])
      PROVE  Effect(d)
  BY <1>1, <1>2, <1>4 DEF Effect, Quiet, Ordered
<1>5. CASE c # d
  <2>1. out'[d] = out[d] /\ hand'[d] = hand[d] /\ written'[d] = written[d] /\ lost'[d] = lost[d]
    BY <1>5 DEF WriterStep, WriterTake, WriteOk, WriteFail, WriterDone, TypeOK
  <2>2. QED
    BY <1>1, <1>2, <2>1, Untouched DEF Effect
<1>6. CASE c = d /\ WriterTake(c)
  <2>1. /\ out[d] # << >> /\ out'[d] = Tail(out[d]) /\ hand'[d] = {Head(out[d])}
        /\ written' = written /\ lost' = lost /\ hand[d] = {}
    BY <1>6 DEF WriterTake, TypeOK, ServeInv
  <2>2. Elems(out[d]) = {Head(out[d])} \cup Elems(out'[d])
    BY <1>3, <2>1, TailElems
  <2>3. Accounted(d)' = Accounted(d)
    <3> DEFINE h == {Head(out[d])}
    <3>1. Elems(out[d]) = h \cup Elems(out'[d]) /\ hand'[d] = h
      BY <2>1, <2>2
    <3>2. /\ Accounted(d) = Elems(written[d]) \cup Elems(out[d]) \cup lost[d]
          /\ Accounted(d)' = Elems(written[d]) \cup hand'[d] \cup Elems(out'[d]) \cup lost[d]
      BY <2>1, AccountedElems
    <3> HIDE DEF h
    <3>3. QED
      BY <3>1, <3>2
  <2>4. Ordered(written'[d], hand'[d], out'[d])
    BY <1>3, <2>1, TailOrdered
  <2>5. QED
    BY <1>4, <2>3, <2>4
<1>7. CASE c = d /\ WriteOk(c)
  <2>1. /\ hand'[d] = {} /\ out' = out /\ lost' = lost
        /\ \E f \in hand[d] : written'[d] = Append(written[d], f)
    BY <1>7 DEF WriteOk, TypeOK
  <2>2. PICK f \in hand[d] : written'[d] = Append(written[d], f)
    BY <2>1
  <2>3. hand[d] = {f}
    BY <2>2 DEF ServeInv
  <2>4. Elems(written'[d]) = Elems(written[d]) \cup hand[d]
    BY <1>3, <2>2, <2>3, AppendElems
  <2>5. Accounted(d)' = Accounted(d)
    <3>1. /\ Accounted(d) = Elems(written[d]) \cup hand[d] \cup Elems(out[d]) \cup lost[d]
          /\ Accounted(d)' = Elems(written'[d]) \cup Elems(out[d]) \cup lost[d]
      BY <2>1, AccountedElems
    <3>2. QED
      BY <2>4, <3>1
  <2>6. Ordered(written'[d], hand'[d], out'[d])
    BY <1>3, <2>1, <2>2, WrittenOrdered
  <2>7. QED
    BY <1>4, <2>5, <2>6
<1>8. CASE c = d /\ WriteFail(c)
  <2>1. hand'[d] = {} /\ out' = out /\ written' = written /\ lost'[d] = lost[d] \cup hand[d]
    BY <1>8 DEF WriteFail, TypeOK
  <2>2. Accounted(d)' = Accounted(d)
    BY <2>1, AccountedElems
  <2>3. Ordered(written'[d], hand'[d], out'[d])
    BY <1>3, <2>1, EmptyHandOrdered
  <2>4. QED
    BY <1>4, <2>2, <2>3
<1>9. CASE c = d /\ WriterDone(c)
  BY <1>1, <1>2, <1>9, Untouched DEF WriterDone, Effect
<1>10. QED
  BY <1>5, <1>6, <1>7, <1>8, <1>9 DEF WriterStep

LEMMA StepEffect ==
  ASSUME TypeOK, EngineInv, NEW d \in Client, ServeInv(d), StreamInv(d), [Next]_vars
  PROVE  Effect(d)
<1>1. CASE BroadcastNext
  <2>1. UNCHANGED <<written, hand, out, lost, joined, subs, event>>
    BY <1>1 DEF BroadcastNext
  <2>2. QED
    BY <1>1, <2>1, OwedNext, Untouched DEF Effect
<1>2. CASE Queueing
  BY <1>2, PutEffect, FullEffect, DropEffect, GiveUpEffect DEF Queueing
<1>3. CASE Stop \/ UNCHANGED vars
  <2>1. UNCHANGED <<written, hand, out, lost, joined, subs, cur, todo, push, emitting, event>>
    BY <1>3 DEF Stop, vars
  <2>2. Owed(d)' = Owed(d)
    BY <2>1 DEF Owed
  <2>3. QED
    BY <2>1, <2>2, Untouched DEF Effect
<1>4. QED
  BY <1>1, <1>2, <1>3, BroadcastEffect, ServingEffect, WritingEffect, NextCases

----------------------------------------------------------------------------
(* The hub implements the event feed.                                      *)

\* What a step may do with the events of d: leave them where they are, ...
Keeps(d) ==
  /\ Pending(d)' = Pending(d)
  /\ Events(Elems(written[d]))' = Events(Elems(written[d]))
  /\ Events(lost[d])' = Events(lost[d])

\* ... hand the oldest one over ...
Gives(d) == \E e \in Pending(d) :
  /\ \A f \in Pending(d) : e <= f
  /\ Pending(d)' = Pending(d) \ {e}
  /\ Events(Elems(written[d]))' = Events(Elems(written[d])) \cup {e}
  /\ Events(lost[d])' = Events(lost[d])

\* ... or give one up.
Drops(d) == \E e \in Pending(d) :
  /\ Pending(d)' = Pending(d) \ {e}
  /\ Events(Elems(written[d]))' = Events(Elems(written[d]))
  /\ Events(lost[d])' = Events(lost[d]) \cup {e}

\* One that touches the events of one subscriber only is a step of the feed.
LEMMA OneMoves ==
  ASSUME NEW c \in Client, UNCHANGED <<event, subs, joined>>,
         \A d \in Client : d # c => Keeps(d),
         Keeps(c) \/ Gives(c) \/ Drops(c)
  PROVE  [Feed!Next]_(Feed!feedVars)
<1>1. CASE Keeps(c)
  BY <1>1 DEF Keeps, Feed!feedVars
<1>2. CASE Gives(c)
  <2>1. Feed!Deliver(c)
    BY <1>2 DEF Gives, Keeps, Feed!Deliver
  <2>2. QED
    BY <2>1 DEF Feed!Next
<1>3. CASE Drops(c)
  <2>1. Feed!Lose(c)
    BY <1>3 DEF Drops, Keeps, Feed!Lose
  <2>2. QED
    BY <2>1 DEF Feed!Next
<1>4. QED
  BY <1>1, <1>2, <1>3

LEMMA IsPending ==
  ASSUME NEW d \in Client
  PROVE  /\ \A f : f \in Pending(d) <=>
                 IsEvent(f) /\ (f \in hand[d] \/ f \in Elems(out[d]) \/ (Owed(d) /\ f = event))
         /\ \A f : f \in Pending(d)' <=>
                 IsEvent(f) /\ (f \in hand'[d] \/ f \in Elems(out'[d]) \/ (Owed(d)' /\ f = event'))
BY DEF Pending, Events

\* The hand is older than the queue, the queue ascends, and an owed event is the newest.
LEMMA PendingOrder ==
  ASSUME TypeOK, EngineInv, NEW d \in Client, StreamInv(d)
  PROVE  /\ \A f \in hand[d], g \in Elems(out[d]) : IsEvent(g) => f < g
         /\ out[d] # << >> => \A g \in Elems(Tail(out[d])) : IsEvent(g) => Head(out[d]) < g
         /\ Owed(d) => event > 0 /\ \A f \in hand[d] \cup Elems(out[d]) : f < event
<1>1. /\ written[d] \in Seq(Int) /\ hand[d] \in SUBSET Int /\ out[d] \in Seq(Int)
      /\ Ordered(written[d], hand[d], out[d]) /\ event \in Nat
  BY DEF TypeOK, Frame, StreamInv
<1>2. \A f \in hand[d], g \in Elems(out[d]) : IsEvent(g) => f < g
  BY <1>1 DEF Ordered, Elems
<1>3. ASSUME out[d] # << >>
      PROVE  \A g \in Elems(Tail(out[d])) : IsEvent(g) => Head(out[d]) < g
  <2>1. Ordered(written[d], {Head(out[d])}, Tail(out[d]))
    BY <1>1, <1>3, TailOrdered
  <2>2. QED
    BY <2>1 DEF Ordered, Elems
<1>4. ASSUME Owed(d) PROVE event > 0 /\ \A f \in hand[d] \cup Elems(out[d]) : f < event
  <2>1. Lim(d) = event - 1 /\ event > 0
    BY <1>4 DEF Lim, Owed, EngineInv
  <2>2. \A f \in hand[d] \cup Elems(out[d]) : f \in Int /\ f <= event - 1
    BY <2>1, AccountedElems, AccountedInt DEF StreamInv
  <2>3. QED
    BY <1>1, <2>1, <2>2
<1>5. QED
  BY <1>2, <1>3, <1>4

\* A subscriber none of whose frames move keeps its events where they are.
LEMMA UntouchedKeeps ==
  ASSUME NEW d \in Client, Owed(d)' = Owed(d), event' = event, written'[d] = written[d],
         hand'[d] = hand[d], out'[d] = out[d], lost'[d] = lost[d]
  PROVE  Keeps(d)
BY DEF Keeps, Pending

\* The engine puts the event it owes in the queue; a frame of a reader is no event.
LEMMA PutKeeps ==
  ASSUME TypeOK, EngineInv, NEW p \in Pusher, NEW d \in Client, ServeInv(d), Put(p)
  PROVE  Keeps(d)
<1>1. /\ UNCHANGED <<written, hand, lost, cur, todo, emitting, event>>
      /\ push' = [push EXCEPT ![p] = "no"] /\ push[p] # "no"
      /\ out' = [out EXCEPT ![Target(p)] = Append(@, frame[p])]
  BY DEF Put, Enqueue
<1>2. CASE d # Target(p)
  <2>1. out'[d] = out[d] /\ Owed(d)' = Owed(d)
    BY <1>1, <1>2, PushedLim DEF TypeOK
  <2>2. QED
    BY <1>1, <2>1, UntouchedKeeps
<1>3. CASE d = Target(p)
  <2>1. out[d] \in Seq(Int) /\ frame[p] \in Int /\ out'[d] = Append(out[d], frame[p])
    BY <1>1, <1>3 DEF TypeOK, Frame
  <2>2. Elems(out'[d]) = Elems(out[d]) \cup {frame[p]}
    BY <2>1, AppendElems
  <2>3. \A f : f \in Pending(d)' <=> f \in Pending(d)
    <3>1. CASE p = Engine
      <4>1. Owed(d) /\ ~Owed(d)' /\ frame[p] = event
        BY <1>1, <1>3, <3>1, PushedLim
      <4>2. QED
        BY <1>1, <2>2, <4>1, IsPending
    <3>2. CASE p # Engine
      <4>1. Owed(d)' = Owed(d)
        BY <1>1, <3>2, PushedLim
      <4>2. ~IsEvent(frame[p])
        BY <1>3, <3>2 DEF ServeInv, Target
      <4>3. QED
        BY <1>1, <2>2, <4>1, <4>2, IsPending
    <3>3. QED
      BY <3>1, <3>2
  <2>4. QED
    BY <1>1, <2>3 DEF Keeps
<1>4. QED
  BY <1>2, <1>3

\* What the engine gives up is the event it owes.
LEMMA GiveUpMoves ==
  ASSUME TypeOK, EngineInv, NEW p \in Pusher, NEW d \in Client, ServeInv(d), StreamInv(d), GiveUp(p)
  PROVE  IF d = Target(p) THEN Keeps(d) \/ Drops(d) ELSE Keeps(d)
<1>1. /\ UNCHANGED <<written, hand, out, cur, todo, emitting, event>>
      /\ push' = [push EXCEPT ![p] = "no"] /\ push[p] # "no"
      /\ lost' = [lost EXCEPT ![Target(p)] = @ \cup {frame[p]}]
  BY DEF GiveUp
<1>2. CASE d # Target(p)
  <2>1. lost'[d] = lost[d] /\ Owed(d)' = Owed(d)
    BY <1>1, <1>2, PushedLim DEF TypeOK
  <2>2. QED
    BY <1>1, <1>2, <2>1, UntouchedKeeps
<1>3. CASE d = Target(p)
  <2>1. lost'[d] = lost[d] \cup {frame[p]}
    BY <1>1, <1>3 DEF TypeOK
  <2>2. CASE p = Engine
    <3>1. Owed(d) /\ ~Owed(d)' /\ frame[p] = event
      BY <1>1, <1>3, <2>2, PushedLim
    <3>2. event > 0 /\ event \in Nat /\ \A f \in hand[d] \cup Elems(out[d]) : f < event
      BY <3>1, PendingOrder DEF TypeOK
    <3>3. event \in Pending(d)
      BY <3>1, <3>2, IsPending DEF IsEvent
    <3>4. \A f : f \in Pending(d)' <=> f \in Pending(d) \ {event}
      BY <1>1, <3>1, <3>2, IsPending
    <3>5. Events(lost[d])' = Events(lost[d]) \cup {event}
      BY <2>1, <3>1, <3>2 DEF Events, IsEvent
    <3>6. Drops(d)
      BY <1>1, <3>3, <3>4, <3>5 DEF Drops
    <3>7. QED
      BY <1>3, <3>6
  <2>3. CASE p # Engine
    <3>1. Owed(d)' = Owed(d)
      BY <1>1, <2>3, PushedLim
    <3>2. ~IsEvent(frame[p])
      BY <1>3, <2>3 DEF ServeInv, Target
    <3>3. Events(lost[d])' = Events(lost[d])
      BY <2>1, <3>2 DEF Events
    <3>4. Pending(d)' = Pending(d)
      BY <1>1, <3>1 DEF Pending
    <3>5. Keeps(d)
      BY <1>1, <3>3, <3>4 DEF Keeps
    <3>6. QED
      BY <1>3, <3>5
  <2>4. QED
    BY <2>2, <2>3
<1>4. QED
  BY <1>2, <1>3

\* Room is made at the cost of the oldest queued frame.
LEMMA DropMoves ==
  ASSUME TypeOK, EngineInv, NEW p \in Pusher, NEW d \in Client, StreamInv(d), PushDrop(p)
  PROVE  IF d = Target(p) THEN Keeps(d) \/ Drops(d) ELSE Keeps(d)
<1>1. /\ UNCHANGED <<written, hand, cur, todo, emitting, event>>
      /\ push' = [push EXCEPT ![p] = "retry"] /\ push[p] = "drop"
  BY DEF PushDrop
<1>2. push'[Engine] # "no" <=> push[Engine] # "no"
  BY <1>1 DEF TypeOK, Pusher
<1>3. Owed(d)' = Owed(d)
  BY <1>1, <1>2 DEF Owed
<1>4. CASE out'[d] = out[d] /\ lost'[d] = lost[d]
  <2>1. Keeps(d)
    BY <1>1, <1>3, <1>4, UntouchedKeeps
  <2>2. QED
    BY <2>1
<1>5. CASE /\ d = Target(p) /\ out[d] # << >>
           /\ out'[d] = Tail(out[d]) /\ lost'[d] = lost[d] \cup {Head(out[d])}
  <2> DEFINE h == Head(out[d])
  <2>1. out[d] \in Seq(Int)
    BY DEF TypeOK, Frame
  <2>2. Elems(out[d]) = {h} \cup Elems(out'[d]) /\ h \in Int
    BY <1>5, <2>1, TailElems
  <2>3. /\ \A g \in Elems(out'[d]) : IsEvent(g) => h < g
        /\ IsEvent(h) => \A f \in hand[d] : f < h
        /\ Owed(d) => h < event
    BY <1>5, <2>2, PendingOrder
  <2> HIDE DEF h
  <2>4. CASE IsEvent(h)
    <3>1. h \in Pending(d)
      BY <2>2, <2>4, IsPending
    <3>2. h \notin hand[d] /\ h \notin Elems(out'[d]) /\ ~(Owed(d) /\ h = event)
      BY <2>2, <2>3, <2>4
    <3>3. \A f : f \in Pending(d)' <=> f \in Pending(d) \ {h}
      BY <1>1, <1>3, <2>2, <3>2, IsPending
    <3>4. Events(lost[d])' = Events(lost[d]) \cup {h}
      BY <1>5, <2>4 DEF Events, h
    <3>5. Drops(d)
      BY <1>1, <3>1, <3>3, <3>4 DEF Drops
    <3>6. QED
      BY <1>5, <3>5
  <2>5. CASE ~IsEvent(h)
    <3>1. \A f : f \in Pending(d)' <=> f \in Pending(d)
      BY <1>1, <1>3, <2>2, <2>5, IsPending
    <3>2. Events(lost[d])' = Events(lost[d])
      BY <1>5, <2>5 DEF Events, h
    <3>3. Keeps(d)
      BY <1>1, <3>1, <3>2 DEF Keeps
    <3>4. QED
      BY <1>5, <3>3
  <2>6. QED
    BY <2>4, <2>5
<1>6. QED
  BY <1>4, <1>5 DEF PushDrop, TypeOK

LEMMA QueueingImplements ==
  ASSUME TypeOK, EngineInv, \A d \in Client : ServeInv(d) /\ StreamInv(d), Queueing
  PROVE  [Feed!Next]_(Feed!feedVars)
<1> PICK p \in Pusher : Put(p) \/ FindFull(p) \/ PushDrop(p) \/ GiveUp(p)
  BY DEF Queueing
<1>1. UNCHANGED <<event, subs, joined>>
  BY DEF Put, Enqueue, FindFull, PushDrop, GiveUp
<1>2. ASSUME NEW d \in Client, FindFull(p) PROVE Keeps(d)
  <2>1. /\ UNCHANGED <<written, hand, out, lost, cur, todo, emitting, event>>
        /\ push' = [push EXCEPT ![p] = "drop"] /\ push[p] = "try"
    BY <1>2 DEF FindFull
  <2>2. push'[Engine] # "no" <=> push[Engine] # "no"
    BY <2>1 DEF TypeOK, Pusher
  <2>3. Owed(d)' = Owed(d)
    BY <2>1, <2>2 DEF Owed
  <2>4. QED
    BY <2>1, <2>3, UntouchedKeeps
<1>3. ASSUME NEW d \in Client
      PROVE  IF d = Target(p) THEN Keeps(d) \/ Drops(d) ELSE Keeps(d)
  BY <1>2, PutKeeps, GiveUpMoves, DropMoves
<1>4. Target(p) \in Client
  BY TargetIsClient
<1>5. QED
  BY <1>1, <1>3, <1>4, OneMoves

\* A subscriber that registers has been sent nothing and is owed nothing yet.
LEMMA ServingImplements ==
  ASSUME TypeOK, EngineInv, \A d \in Client : ServeInv(d), Serving
  PROVE  [Feed!Next]_(Feed!feedVars)
<1> PICK c \in Client : \/ Upgrade(c) \/ Register(c) \/ PushHello(c) \/ PushPong(c)
                        \/ Unregister(c) \/ ServeClose(c) \/ PeerBreaks(c)
  BY DEF Serving
<1>1. UNCHANGED <<written, hand, out, lost, cur, todo, emitting, event>>
  BY DEF Upgrade, Register, PushHello, PushPong, Unregister, ServeClose, PeerBreaks
<1>2. push'[Engine] = push[Engine]
  BY HubAssumption DEF Upgrade, Register, PushHello, PushPong, Unregister, ServeClose, PeerBreaks,
                       TypeOK, Pusher
<1>3. \A d \in Client : Keeps(d)
  <2> SUFFICES ASSUME NEW d \in Client PROVE Keeps(d)
    OBVIOUS
  <2>1. Owed(d)' = Owed(d)
    BY <1>1, <1>2 DEF Owed
  <2>2. QED
    BY <1>1, <2>1, UntouchedKeeps
<1>4. CASE Register(c)
  <2>1. /\ c \notin subs /\ subs' = subs \cup {c} /\ joined' = [joined EXCEPT ![c] = event]
        /\ serve[c] = "upgraded"
    BY <1>4 DEF Register, ServeInv
  <2>2. ~Owed(c) /\ written[c] = << >> /\ out[c] = << >> /\ hand[c] = {} /\ lost[c] = {}
    BY <2>1 DEF ServeInv
  <2>3. Pending(c) = {} /\ Events(Elems(written[c])) = {} /\ Events(lost[c]) = {}
    BY <2>2 DEF Pending, Events, Elems
  <2>4. Feed!Join(c)
    BY <1>1, <1>3, <2>1, <2>3 DEF Feed!Join, Keeps
  <2>5. QED
    BY <2>4 DEF Feed!Next
<1>5. CASE Unregister(c)
  <2>1. subs' = subs \ {c} /\ joined' = joined
    BY <1>5 DEF Unregister
  <2>2. Feed!Leave(c)
    BY <1>1, <1>3, <2>1 DEF Feed!Leave, Keeps
  <2>3. QED
    BY <2>2 DEF Feed!Next
<1>6. CASE Upgrade(c) \/ PushHello(c) \/ PushPong(c) \/ ServeClose(c) \/ PeerBreaks(c)
  <2>1. UNCHANGED <<event, subs, joined>>
    BY <1>6 DEF Upgrade, PushHello, PushPong, ServeClose, PeerBreaks
  <2>2. QED
    BY <1>3, <2>1, OneMoves
<1>7. QED
  BY <1>4, <1>5, <1>6

\* The writer hands over what it took first, or gives it up.
LEMMA WritingImplements ==
  ASSUME TypeOK, EngineInv, \A d \in Client : ServeInv(d) /\ StreamInv(d), Writing
  PROVE  [Feed!Next]_(Feed!feedVars)
<1> PICK c \in Client : WriterStep(c)
  BY DEF Writing
<1>1. UNCHANGED <<subs, push, cur, todo, emitting, event, joined>>
  BY DEF WriterStep, WriterTake, WriteOk, WriteFail, WriterDone
<1>2. \A d \in Client : Owed(d)' = Owed(d)
  BY <1>1 DEF Owed
<1>3. ASSUME NEW d \in Client, d # c PROVE Keeps(d)
  <2>1. out'[d] = out[d] /\ hand'[d] = hand[d] /\ written'[d] = written[d] /\ lost'[d] = lost[d]
    BY <1>3 DEF WriterStep, WriterTake, WriteOk, WriteFail, WriterDone, TypeOK
  <2>2. QED
    BY <1>1, <1>2, <2>1, UntouchedKeeps
<1>4. /\ written[c] \in Seq(Int) /\ hand[c] \in SUBSET Int /\ out[c] \in Seq(Int)
      /\ event \in Nat
  BY DEF TypeOK, Frame
<1>5. CASE WriterTake(c)
  <2>1. /\ out[c] # << >> /\ out'[c] = Tail(out[c]) /\ hand'[c] = {Head(out[c])}
        /\ written' = written /\ lost' = lost /\ hand[c] = {}
    BY <1>5 DEF WriterTake, TypeOK, ServeInv
  <2>2. Elems(out[c]) = {Head(out[c])} \cup Elems(out'[c])
    BY <1>4, <2>1, TailElems
  <2>3. \A f : f \in Pending(c)' <=> f \in Pending(c)
    BY <1>1, <1>2, <2>1, <2>2, IsPending
  <2>4. Keeps(c)
    BY <2>1, <2>3 DEF Keeps
  <2>5. QED
    BY <1>1, <1>3, <2>4, OneMoves
<1>6. ASSUME NEW f \in hand[c], IsEvent(f), hand'[c] = {}, out' = out
      PROVE  /\ f \in Pending(c) /\ \A e \in Pending(c) : f <= e
             /\ Pending(c)' = Pending(c) \ {f}
  <2>1. f \in Int /\ hand[c] = {f}
    BY <1>4, <1>6 DEF ServeInv
  <2>2. /\ \A e \in Elems(out[c]) : IsEvent(e) => f < e
        /\ Owed(c) => f < event
    BY <2>1, PendingOrder
  <2>3. f \in Pending(c)
    BY <1>6, IsPending
  <2>4. ASSUME NEW e \in Pending(c) PROVE f <= e /\ (e = f \/ e \in Pending(c)')
    <3>1. IsEvent(e) /\ (e \in hand[c] \/ e \in Elems(out[c]) \/ (Owed(c) /\ e = event))
      BY <2>4, IsPending
    <3>2. CASE e \in hand[c]
      BY <2>1, <3>2
    <3>3. CASE e \in Elems(out[c])
      <4>1. e \in Int /\ f < e
        BY <1>4, <2>2, <3>1, <3>3, SeqInt DEF Elems
      <4>2. e \in Pending(c)'
        BY <1>6, <3>1, <3>3, IsPending
      <4>3. QED
        BY <2>1, <4>1, <4>2
    <3>4. CASE Owed(c) /\ e = event
      <4>1. e \in Pending(c)'
        BY <1>1, <1>2, <3>1, <3>4, IsPending
      <4>2. QED
        BY <1>4, <2>1, <2>2, <3>4, <4>1
    <3>5. QED
      BY <3>1, <3>2, <3>3, <3>4
  <2>5. ASSUME NEW e \in Pending(c)' PROVE e \in Pending(c) /\ e # f
    <3>1. IsEvent(e) /\ (e \in Elems(out[c]) \/ (Owed(c) /\ e = event))
      BY <1>1, <1>2, <1>6, <2>5, IsPending
    <3>2. e \in Pending(c)
      BY <3>1, IsPending
    <3>3. CASE e \in Elems(out[c])
      <4>1. e \in Int /\ f < e
        BY <1>4, <2>2, <3>1, <3>3, SeqInt DEF Elems
      <4>2. QED
        BY <2>1, <3>2, <4>1
    <3>4. CASE Owed(c) /\ e = event
      BY <1>4, <2>1, <2>2, <3>2, <3>4
    <3>5. QED
      BY <3>1, <3>3, <3>4
  <2>6. QED
    BY <2>3, <2>4, <2>5
<1>7. ASSUME \A f \in hand[c] : ~IsEvent(f), hand'[c] = {}, out' = out
      PROVE  Pending(c)' = Pending(c)
  <2>1. \A f : f \in Pending(c)' <=> f \in Pending(c)
    BY <1>1, <1>2, <1>7, IsPending
  <2>2. QED
    BY <2>1
<1>8. CASE WriteOk(c)
  <2>1. /\ hand'[c] = {} /\ out' = out /\ lost' = lost
        /\ \E f \in hand[c] : written'[c] = Append(written[c], f)
    BY <1>8 DEF WriteOk, TypeOK
  <2>2. PICK f \in hand[c] : written'[c] = Append(written[c], f)
    BY <2>1
  <2>3. hand[c] = {f} /\ f \in Int
    BY <1>4, <2>2 DEF ServeInv
  <2>4. Elems(written'[c]) = Elems(written[c]) \cup {f}
    BY <1>4, <2>2, <2>3, AppendElems
  <2>5. CASE IsEvent(f)
    <3>1. Events(Elems(written[c]))' = Events(Elems(written[c])) \cup {f}
      BY <2>4, <2>5 DEF Events
    <3>2. Gives(c)
      BY <1>6, <2>1, <2>5, <3>1 DEF Gives
    <3>3. QED
      BY <1>1, <1>3, <3>2, OneMoves
  <2>6. CASE ~IsEvent(f)
    <3>1. Events(Elems(written[c]))' = Events(Elems(written[c]))
      BY <2>4, <2>6 DEF Events
    <3>2. Keeps(c)
      BY <1>7, <2>1, <2>3, <2>6, <3>1 DEF Keeps
    <3>3. QED
      BY <1>1, <1>3, <3>2, OneMoves
  <2>7. QED
    BY <2>5, <2>6
<1>9. CASE WriteFail(c)
  <2>1. hand'[c] = {} /\ out' = out /\ written' = written /\ lost'[c] = lost[c] \cup hand[c]
    BY <1>9 DEF WriteFail, TypeOK
  <2>2. CASE \E f \in hand[c] : IsEvent(f)
    <3>1. PICK f \in hand[c] : IsEvent(f)
      BY <2>2
    <3>2. hand[c] = {f}
      BY <3>1 DEF ServeInv
    <3>3. Events(lost[c])' = Events(lost[c]) \cup {f}
      BY <2>1, <3>1, <3>2 DEF Events
    <3>4. Drops(c)
      BY <1>6, <2>1, <3>1, <3>3 DEF Drops
    <3>5. QED
      BY <1>1, <1>3, <3>4, OneMoves
  <2>3. CASE \A f \in hand[c] : ~IsEvent(f)
    <3>1. Events(lost[c])' = Events(lost[c])
      BY <2>1, <2>3 DEF Events
    <3>2. Keeps(c)
      BY <1>7, <2>1, <2>3, <3>1 DEF Keeps
    <3>3. QED
      BY <1>1, <1>3, <3>2, OneMoves
  <2>4. QED
    BY <2>2, <2>3
<1>10. CASE WriterDone(c)
  <2>1. UNCHANGED <<written, hand, out, lost>>
    BY <1>10 DEF WriterDone
  <2>2. Keeps(c)
    BY <1>1, <1>2, <2>1, UntouchedKeeps
  <2>3. QED
    BY <1>1, <1>3, <2>2, OneMoves
<1>11. QED
  BY <1>5, <1>8, <1>9, <1>10 DEF WriterStep

\* The copy of the registry is whom the new event goes to.
LEMMA BroadcastImplements ==
  ASSUME TypeOK, EngineInv, Broadcast
  PROVE  Feed!Emit
<1>1. /\ UNCHANGED <<written, hand, out, lost, joined, subs, cur, push>>
      /\ ~emitting /\ emitting' /\ event' = event + 1 /\ todo' = subs /\ push[Engine] = "no"
  BY DEF Broadcast, EngineInv
<1>2. ASSUME NEW d \in Client
      PROVE  Pending(d)' = IF d \in subs THEN Pending(d) \cup {event + 1} ELSE Pending(d)
  <2>1. ~Owed(d) /\ (Owed(d)' <=> d \in subs) /\ IsEvent(event + 1)
    BY <1>1 DEF Owed, IsEvent, TypeOK
  <2>2. \A f : f \in Pending(d)' <=> f \in Pending(d) \/ (d \in subs /\ f = event + 1)
    BY <1>1, <2>1, IsPending
  <2>3. QED
    BY <2>2
<1>3. QED
  BY <1>1, <1>2 DEF Feed!Emit

LEMMA FeedStep == IInv /\ [Next]_vars => [Feed!Next]_(Feed!feedVars)
<1> SUFFICES ASSUME IInv, [Next]_vars PROVE [Feed!Next]_(Feed!feedVars)
  OBVIOUS
<1>0. TypeOK /\ EngineInv /\ \A d \in Client : ServeInv(d) /\ StreamInv(d)
  BY DEF IInv
<1>1. CASE Broadcast
  BY <1>0, <1>1, BroadcastImplements DEF Feed!Next
<1>2. ASSUME UNCHANGED <<event, subs, joined, written, hand, out, lost>>,
             \A d \in Client : Owed(d)' = Owed(d)
      PROVE  [Feed!Next]_(Feed!feedVars)
  <2>1. \A d \in Client : Keeps(d)
    BY <1>2, UntouchedKeeps
  <2>2. QED
    BY <1>0, <1>2, <2>1, OneMoves DEF TypeOK
<1>3. CASE BroadcastNext
  BY <1>0, <1>2, <1>3, OwedNext DEF BroadcastNext
<1>4. CASE Stop \/ UNCHANGED vars
  BY <1>2, <1>4 DEF Stop, vars, Owed
<1>5. QED
  BY <1>0, <1>1, <1>3, <1>4, QueueingImplements, ServingImplements, WritingImplements, NextCases

----------------------------------------------------------------------------
(* The theorems.                                                           *)

LEMMA IInvStep == ASSUME IInv, [Next]_vars PROVE IInv'
<1>1. TypeOK /\ EngineInv /\ RaceInv /\ \A c \in Client : ServeInv(c) /\ StreamInv(c) /\ Complete(c)
  BY DEF IInv
<1>2. TypeOK' /\ EngineInv' /\ RaceInv'
  BY <1>1, TypeStep, EngineStepInv, RaceStep
<1>3. \A c \in Client : ServeInv(c)'
  BY <1>1, ServeStepInv
<1>4. ASSUME NEW c \in Client PROVE StreamInv(c)' /\ Complete(c)'
  <2>1. Effect(c)
    BY <1>1, StepEffect
  <2>2. QED
    BY <1>1, <1>2, <2>1, EffectKeeps
<1>5. QED
  BY <1>2, <1>3, <1>4 DEF IInv

\* The invariant that carries the others.
THEOREM HubInvariant == Spec => []IInv
<1>1. Init => IInv
  BY InitInv
<1>2. IInv /\ [Next]_vars => IInv'
  BY IInvStep
<1>3. QED
  BY <1>1, <1>2, PTL DEF Spec

\* wsClient.push from two goroutines: no queue ever exceeds its capacity.
THEOREM HubTypeCorrect == Spec => []TypeOK
<1>1. IInv => TypeOK
  BY DEF IInv
<1>2. QED
  BY <1>1, HubInvariant, PTL

\* A subscriber gets events in the order they were emitted, whatever is dropped.
THEOREM EventsStayInOrder == Spec => []EventOrder
<1>1. IInv => EventOrder
  BY DEF IInv, StreamInv, Ordered, EventOrder
<1>2. QED
  BY <1>1, HubInvariant, PTL

\* push loses the new frame only to a frame that another goroutine queued.
THEOREM RoomIsLostToARace == Spec => GiveUpOnlyInRace
<1>1. IInv => \A p \in Pusher : GiveUp(p) => raced[p]
  <2> SUFFICES ASSUME IInv, NEW p \in Pusher, GiveUp(p) PROVE raced[p]
    OBVIOUS
  <2>1. push[p] = "retry" /\ Len(out[Target(p)]) = QueueLimit
    BY DEF GiveUp
  <2>2. ~raced[p] => Len(out[Target(p)]) < QueueLimit
    BY <2>1 DEF IInv, RaceInv
  <2>3. QED
    BY <2>1, <2>2, HubAssumption
<1>2. QED
  BY <1>1, HubInvariant, PTL DEF GiveUpOnlyInRace

\* Whatever the goroutines do, a subscriber sees an ordered feed that may lose events but
\* never repeats, reorders or silently skips one (broadcastTo, wsClient.push, writeLoop).
THEOREM HubImplementsFeed == Spec => ImplementsFeed
<1>1. Init => Feed!Init
  BY DEF Init, Feed!Init, Feed!Nothing, Pending, Owed, Events, Elems
<1>2. IInv /\ [Next]_vars => [Feed!Next]_(Feed!feedVars)
  BY FeedStep
<1>3. QED
  BY HubInvariant, <1>1, <1>2, PTL DEF Spec, ImplementsFeed, Feed!Spec

\* The second half of NothingSkipped, with what carries it along the steps of the feed.
Fate(c) ==
  LET given == Events(Elems(written[c])) IN
  /\ Events(lost[c]) \cap given = {}
  /\ Events(lost[c]) \cap Pending(c) = {}
  /\ given \cap Pending(c) = {}

\* Every event since a subscriber registered is written, on its way or given up for a full
\* queue, and never two of these (wsClient.push, writeLoop).
THEOREM NothingIsSkipped == Spec => []NothingSkipped
<1> DEFINE AllFates == \A c \in Client : Fate(c)
<1>1. Init => AllFates
  BY DEF Init, Fate, Pending, Owed, Events, Elems
<1>2. IInv /\ AllFates /\ [Next]_vars => AllFates'
  <2> SUFFICES ASSUME IInv, AllFates, [Next]_vars, NEW c \in Client PROVE Fate(c)'
    OBVIOUS
  <2> Fate(c)
    OBVIOUS
  <2>1. CASE Keeps(c) \/ Gives(c) \/ Drops(c)
    BY <2>1 DEF Keeps, Gives, Drops, Fate
  <2>2. CASE Feed!Emit
    <3>1. /\ Pending(c)' = IF c \in subs THEN Pending(c) \cup {event + 1} ELSE Pending(c)
          /\ Events(Elems(written[c]))' = Events(Elems(written[c]))
          /\ Events(lost[c])' = Events(lost[c])
      BY <2>2 DEF Feed!Emit
    <3>2. \A f \in Accounted(c) : f \in Int /\ f <= event
      BY AccountedInt DEF IInv, StreamInv, TypeOK, Lim
    <3>3. event + 1 \notin Elems(written[c]) /\ event + 1 \notin lost[c]
      BY <3>2, AccountedElems DEF IInv, TypeOK
    <3>4. QED
      BY <3>1, <3>3 DEF Fate, Events
  <2>3. CASE \E d \in Client : Feed!Join(d) \/ Feed!Leave(d)
    <3>1. Keeps(c)
      BY <2>3 DEF Feed!Join, Feed!Leave, Keeps
    <3>2. QED
      BY <2>1, <3>1
  <2>4. ASSUME NEW d \in Client, Feed!Deliver(d) PROVE Keeps(c) \/ Gives(c)
    BY <2>4 DEF Feed!Deliver, Keeps, Gives
  <2>5. ASSUME NEW d \in Client, Feed!Lose(d) PROVE Keeps(c) \/ Drops(c)
    BY <2>5 DEF Feed!Lose, Keeps, Drops
  <2>6. CASE UNCHANGED Feed!feedVars
    <3>1. Keeps(c)
      BY <2>6 DEF Feed!feedVars, Keeps
    <3>2. QED
      BY <2>1, <3>1
  <2>7. QED
    BY <2>1, <2>2, <2>3, <2>4, <2>5, <2>6, FeedStep DEF Feed!Next
<1>3. IInv /\ AllFates => NothingSkipped
  BY DEF IInv, Complete, Lim, NothingSkipped, Fate, Pending, Events
<1>4. QED
  BY HubInvariant, <1>1, <1>2, <1>3, PTL DEF Spec

----------------------------------------------------------------------------
(* What BroadcastEnds rests on: fairness to the engine is all it needs.    *)

\* The steps a broadcast still takes at most: a subscriber costs one to be taken from the
\* copy and up to three channel operations.
PushLeft == CASE push[Engine] = "try"   -> 3
              [] push[Engine] = "drop"  -> 2
              [] push[Engine] = "retry" -> 1
              [] OTHER                  -> 0

Work == 4 * Cardinality(todo) + PushLeft + (IF emitting THEN 1 ELSE 0)

\* There are only so many, and the engine can always take the next one: a push to a queue
\* within its limit has one branch or the other.
WorkInv ==
  /\ IsFiniteSet(subs) /\ IsFiniteSet(todo)
  /\ emitting => push[Engine] \in {"no", "drop"} \/ Len(out[cur]) <= QueueLimit

\* Each step of the engine leaves fewer, and nothing anybody else does makes more.
WorkShrinks == [][emitting => IF EngineStep THEN Work' < Work ELSE Work' = Work]_vars

LEMMA WorkType ==
  ASSUME IsFiniteSet(todo)
  PROVE  Work \in Nat /\ PushLeft \in 0 .. 3 /\ Cardinality(todo) \in Nat
<1>1. Cardinality(todo) \in Nat
  BY FS_CardinalityType
<1>2. PushLeft \in 0 .. 3
  BY DEF PushLeft
<1>3. QED
  BY <1>1, <1>2 DEF Work

\* What the engine's goroutine alone writes.
LEMMA EngineAlone ==
  ASSUME TypeOK, [Next]_vars, ~EngineStep
  PROVE  UNCHANGED <<todo, emitting>> /\ push'[Engine] = push[Engine]
<1>0. Engine \notin Client /\ Engine \in Pusher
  BY HubAssumption DEF Pusher
<1>1. ASSUME NEW p \in Pusher, p # Engine, Push(p)
      PROVE  UNCHANGED <<todo, emitting>> /\ push'[Engine] = push[Engine]
  BY <1>0, <1>1 DEF Push, PushTry, PushDrop, PushRetry, GiveUp, Enqueue, TypeOK
<1>2. ASSUME NEW c \in Client,
             Upgrade(c) \/ ServeStep(c) \/ PushPong(c) \/ WriterStep(c) \/ PeerBreaks(c)
      PROVE  UNCHANGED <<todo, emitting>> /\ push'[Engine] = push[Engine]
  <2>1. CASE Push(c)
    BY <1>0, <1>1, <2>1 DEF Pusher
  <2>2. CASE ~Push(c)
    BY <1>0, <1>2, <2>2 DEF Upgrade, ServeStep, Register, PushHello, PushPong, Unregister, ServeClose,
       WriterStep, WriterTake, WriteOk, WriteFail, WriterDone, PeerBreaks, TypeOK, Pusher
  <2>3. QED
    BY <2>1, <2>2
<1>3. CASE Stop \/ Terminated \/ UNCHANGED vars
  BY <1>3 DEF Stop, Terminated, vars
<1>4. QED
  BY <1>2, <1>3 DEF Next

LEMMA EngineWorks ==
  ASSUME TypeOK, IsFiniteSet(todo), emitting, EngineStep
  PROVE  Work' < Work
<1>0. Engine \in Pusher /\ push \in [Pusher -> {"no", "try", "drop", "retry"}]
  BY DEF Pusher, TypeOK
<1>1. Cardinality(todo) \in Nat
  BY FS_CardinalityType
<1>2. CASE BroadcastNext
  <2>1. push[Engine] = "no"
    BY <1>2 DEF BroadcastNext
  <2>2. ASSUME NEW c \in todo, todo' = todo \ {c}, push' = [push EXCEPT ![Engine] = "try"],
               UNCHANGED emitting
        PROVE  Work' < Work
    <3>1. Cardinality(todo') = Cardinality(todo) - 1
      BY <2>2, FS_RemoveElement
    <3>2. PushLeft = 0 /\ PushLeft' = 3
      BY <1>0, <2>1, <2>2 DEF PushLeft
    <3>3. QED
      BY <1>1, <2>2, <3>1, <3>2 DEF Work
  <2>3. CASE todo = {} /\ emitting' = FALSE /\ UNCHANGED <<cur, todo, push>>
    <3>1. PushLeft' = PushLeft /\ PushLeft \in 0 .. 3
      BY <2>3 DEF PushLeft
    <3>2. QED
      BY <1>1, <2>3, <3>1 DEF Work
  <2>4. QED
    BY <1>2, <2>2, <2>3 DEF BroadcastNext
<1>3. CASE Push(Engine)
  <2>1. UNCHANGED <<todo, emitting>>
    BY <1>3 DEF Push, PushTry, PushDrop, PushRetry, GiveUp, Enqueue
  <2>2. \/ push[Engine] = "try" /\ push'[Engine] \in {"drop", "no"}
        \/ push[Engine] = "drop" /\ push'[Engine] = "retry"
        \/ push[Engine] = "retry" /\ push'[Engine] = "no"
    BY <1>0, <1>3 DEF Push, PushTry, PushDrop, PushRetry, GiveUp, Enqueue
  <2>3. PushLeft' < PushLeft /\ PushLeft \in Nat /\ PushLeft' \in Nat
    BY <2>2 DEF PushLeft
  <2>4. QED
    BY <1>1, <2>1, <2>3 DEF Work
<1>4. QED
  BY <1>2, <1>3 DEF EngineStep, Broadcast

\* A broadcast takes at most 4 * n + 1 steps of the engine for n subscribers, and at no point
\* does the engine wait for a writer, a reader or a peer (broadcastTo, wsClient.push).
THEOREM BroadcastNeverWaits == Spec => []WorkInv /\ WorkShrinks
<1> DEFINE Finite == IsFiniteSet(subs) /\ IsFiniteSet(todo)
<1>1. Init => Finite
  BY FS_EmptySet DEF Init
<1>2. IInv /\ Finite /\ [Next]_vars => Finite'
  <2> SUFFICES ASSUME IInv, Finite, [Next]_vars PROVE Finite'
    OBVIOUS
  <2>1. subs' = subs \/ \E c \in Client : subs' = subs \cup {c} \/ subs' = subs \ {c}
    <3>1. CASE Serving
      BY <3>1 DEF Serving, Upgrade, Register, PushHello, PushPong, Unregister, ServeClose, PeerBreaks
    <3>2. CASE Broadcast \/ BroadcastNext \/ Queueing \/ Writing \/ Stop \/ UNCHANGED vars
      BY <3>2 DEF Broadcast, BroadcastNext, Queueing, Put, Enqueue, FindFull, PushDrop, GiveUp, Writing,
         WriterStep, WriterTake, WriteOk, WriteFail, WriterDone, Stop, vars
    <3>3. QED
      BY <3>1, <3>2, NextCases
  <2>2. todo' = todo \/ todo' = subs \/ \E c \in todo : todo' = todo \ {c}
    BY EngineAlone DEF EngineStep, Broadcast, BroadcastNext, Push, PushTry, PushDrop, PushRetry, GiveUp,
       Enqueue, IInv
  <2>3. IsFiniteSet(subs')
    BY <2>1, FS_AddElement, FS_RemoveElement
  <2>4. IsFiniteSet(todo')
    BY <2>2, FS_RemoveElement
  <2>5. QED
    BY <2>3, <2>4
<1>3. IInv /\ Finite => WorkInv
  BY DEF IInv, TypeOK, WorkInv
<1>4. IInv /\ Finite /\ [Next]_vars => (emitting => IF EngineStep THEN Work' < Work ELSE Work' = Work)
  <2> SUFFICES ASSUME IInv, Finite, [Next]_vars, emitting
               PROVE  IF EngineStep THEN Work' < Work ELSE Work' = Work
    OBVIOUS
  <2>1. CASE EngineStep
    BY <2>1, EngineWorks DEF IInv
  <2>2. CASE ~EngineStep
    <3>1. UNCHANGED <<todo, emitting>> /\ push'[Engine] = push[Engine]
      BY <2>2, EngineAlone DEF IInv
    <3>2. QED
      BY <2>2, <3>1 DEF Work, PushLeft
  <2>3. QED
    BY <2>1, <2>2
<1>5. QED
  BY HubInvariant, <1>1, <1>2, <1>3, <1>4, PTL DEF Spec, WorkShrinks

----------------------------------------------------------------------------
(* What is safety in BrokenClientLeaves.                                   *)

\* Its connection is of no use any more: broken by the peer or closed here.
Broken(c) == conn[c] \in {"broken", "closed"}

\* The steps the two goroutines of a broken subscriber still take at most.
LeavingLeft(c) ==
  (CASE serve[c] = "upgraded" -> 7
     [] serve[c] = "greet"    -> 6
     [] serve[c] = "read"     -> 2
     [] serve[c] = "close"    -> 1
     [] OTHER                 -> 0)
  + (CASE push[c] = "try" -> 3 [] push[c] = "drop" -> 2 [] push[c] = "retry" -> 1 [] OTHER -> 0)
  + (CASE writer[c] = "loop" -> 2 [] writer[c] = "write" -> 1 [] OTHER -> 0)

\* Where each of the two can be, by the state of the connection and of the channel done.
LeavingInv(c) ==
  /\ serve[c] = "absent" <=> conn[c] = "none"
  /\ serve[c] = "absent" <=> writer[c] = "none"
  /\ writer[c] = "gone" \/ done[c] => Broken(c)
  /\ serve[c] = "gone" => done[c] \/ writer[c] = "gone"
  /\ c \in subs <=> serve[c] \in {"greet", "read"}

\* Who lost its writer is broken.  One of the two goroutines of a broken subscriber can go
\* on whatever the rest does: the one that serves it wherever it is, and once that has left,
\* its writer, unless no step is left; then the registry and both goroutines are rid of it.
LeavingGoesOn ==
  \A c \in Client :
    /\ writer[c] = "gone" => Broken(c)
    /\ Broken(c) =>
         /\ LeavingLeft(c) \in 0 .. 9
         /\ \/ serve[c] \in {"upgraded", "greet", "close"}
            \/ serve[c] = "read" /\ (push[c] \in {"no", "drop"} \/ Len(out[c]) <= QueueLimit)
            \/ serve[c] = "gone" /\ (writer[c] = "write" \/ (writer[c] = "loop" /\ done[c]))
            \/ LeavingLeft(c) = 0
         /\ LeavingLeft(c) = 0 => c \notin subs /\ serve[c] = "gone" /\ writer[c] = "gone"

LeavingShrinks ==
  [][\A c \in Client : Broken(c) =>
       /\ Broken(c)'
       /\ IF ServeStep(c) \/ WriterStep(c) THEN LeavingLeft(c)' < LeavingLeft(c)
                                           ELSE LeavingLeft(c)' = LeavingLeft(c)]_vars

LEMMA LeavingType ==
  ASSUME TypeOK, NEW c \in Client, ServeInv(c), LeavingInv(c), Broken(c)
  PROVE  /\ LeavingLeft(c) \in 0 .. 9
         /\ serve[c] = "gone" \/ LeavingLeft(c) > 0
         /\ LeavingLeft(c) = 0 => c \notin subs /\ serve[c] = "gone" /\ writer[c] = "gone"
         /\ serve[c] = "gone" /\ writer[c] = "gone" => LeavingLeft(c) = 0
<1>1. /\ serve[c] \in {"absent", "upgraded", "greet", "read", "close", "gone"}
      /\ push[c] \in {"no", "try", "drop", "retry"}
      /\ writer[c] \in {"none", "loop", "write", "gone"}
  BY DEF TypeOK, Pusher
<1>2. serve[c] # "absent" /\ writer[c] # "none"
  BY DEF LeavingInv, Broken
<1>3. push[c] = "no" \/ serve[c] = "read"
  BY DEF ServeInv
<1>4. c \in subs => serve[c] # "gone"
  BY DEF LeavingInv
<1>5. QED
  BY <1>1, <1>2, <1>3, <1>4 DEF LeavingLeft

\* What one channel operation of c, or of anybody else, leaves alone.
LEMMA QueueingLeaves ==
  ASSUME TypeOK, NEW p \in Pusher, Push(p)
  PROVE  /\ UNCHANGED <<serve, writer, conn, done, subs>>
         /\ \A c \in Client : p # c => push'[c] = push[c]
         /\ \/ push[p] = "try" /\ push'[p] \in {"drop", "no"}
            \/ push[p] = "drop" /\ push'[p] = "retry"
            \/ push[p] = "retry" /\ push'[p] = "no"
<1>1. push \in [Pusher -> {"no", "try", "drop", "retry"}] /\ Client \subseteq Pusher
  BY DEF TypeOK, Pusher
<1>2. Put(p) \/ FindFull(p) \/ PushDrop(p) \/ GiveUp(p)
  BY DEF Push, PushTry, PushRetry, Put, FindFull
<1>3. QED
  BY <1>1, <1>2 DEF Put, Enqueue, FindFull, PushDrop, GiveUp

\* One step of the goroutines of c: the invariant holds after it, and who was broken is
\* and has one step less to take.
LEMMA OwnStepLeaves ==
  ASSUME TypeOK, NEW c \in Client, ServeInv(c), LeavingInv(c), ServeStep(c) \/ WriterStep(c)
  PROVE  LeavingInv(c)' /\ (Broken(c) => Broken(c)' /\ LeavingLeft(c)' < LeavingLeft(c))
<1>0. /\ serve \in [Client -> {"absent", "upgraded", "greet", "read", "close", "gone"}]
      /\ push \in [Pusher -> {"no", "try", "drop", "retry"}] /\ c \in Pusher
      /\ writer \in [Client -> {"none", "loop", "write", "gone"}]
      /\ conn \in [Client -> {"none", "open", "broken", "closed"}]
      /\ done \in [Client -> BOOLEAN]
  BY DEF TypeOK, Pusher
<1>1. CASE Push(c)
  <2>1. /\ UNCHANGED <<serve, writer, conn, done, subs>>
        /\ \/ push[c] = "try" /\ push'[c] \in {"drop", "no"}
           \/ push[c] = "drop" /\ push'[c] = "retry"
           \/ push[c] = "retry" /\ push'[c] = "no"
    BY <1>0, <1>1, QueueingLeaves
  <2>2. LeavingInv(c)' /\ (Broken(c) => Broken(c)')
    BY <2>1 DEF LeavingInv, Broken
  <2>3. LeavingLeft(c)' < LeavingLeft(c)
    BY <1>0, <2>1 DEF LeavingLeft
  <2>4. QED
    BY <2>2, <2>3
<1>2. CASE Register(c) \/ PushHello(c) \/ Unregister(c)
  <2>1. UNCHANGED <<conn, writer, done>>
    BY <1>2 DEF Register, PushHello, Unregister
  <2>2. \/ serve[c] = "upgraded" /\ serve'[c] = "greet" /\ push' = push /\ subs' = subs \cup {c}
        \/ serve[c] = "greet" /\ serve'[c] = "read" /\ push'[c] = "try" /\ subs' = subs
        \/ serve[c] = "read" /\ serve'[c] = "close" /\ push' = push /\ subs' = subs \ {c}
    BY <1>0, <1>2 DEF Register, PushHello, Unregister
  <2>3. LeavingInv(c)' /\ (Broken(c) => Broken(c)')
    BY <2>1, <2>2 DEF LeavingInv, Broken
  <2>4. serve[c] = "greet" => push[c] = "no"
    BY <1>0 DEF ServeInv
  <2>5. LeavingLeft(c)' < LeavingLeft(c)
    BY <1>0, <2>1, <2>2, <2>4 DEF LeavingLeft
  <2>6. QED
    BY <2>3, <2>5
<1>3. CASE ServeClose(c)
  <2>1. /\ serve[c] = "close" /\ serve'[c] = "gone" /\ UNCHANGED <<writer, push, subs>>
        /\ done'[c] /\ conn'[c] = IF done[c] THEN conn[c] ELSE "closed"
    BY <1>0, <1>3 DEF ServeClose, CloseClients
  <2>2. LeavingInv(c)' /\ (Broken(c) => Broken(c)')
    BY <2>1 DEF LeavingInv, Broken
  <2>3. LeavingLeft(c)' < LeavingLeft(c)
    BY <1>0, <2>1 DEF LeavingLeft
  <2>4. QED
    BY <2>2, <2>3
<1>4. CASE WriterTake(c) \/ WriteOk(c) \/ WriterDone(c)
  <2>1. UNCHANGED <<serve, push, conn, done, subs>>
    BY <1>4 DEF WriterTake, WriteOk, WriterDone
  <2>2. \/ writer[c] = "loop" /\ writer'[c] = "write"
        \/ conn[c] = "open" /\ writer[c] = "write" /\ writer'[c] = "loop"
        \/ writer[c] = "loop" /\ done[c] /\ writer'[c] = "gone"
    BY <1>0, <1>4 DEF WriterTake, WriteOk, WriterDone
  <2>3. LeavingInv(c)' /\ (Broken(c) => Broken(c)')
    BY <2>1, <2>2 DEF LeavingInv, Broken
  <2>4. Broken(c) => LeavingLeft(c)' < LeavingLeft(c)
    BY <1>0, <2>1, <2>2 DEF LeavingLeft, Broken
  <2>5. QED
    BY <2>3, <2>4
<1>5. CASE WriteFail(c)
  <2>1. /\ writer[c] \in {"loop", "write"} /\ writer'[c] = "gone" /\ UNCHANGED <<serve, push, subs>>
        /\ done'[c] /\ conn'[c] = IF done[c] THEN conn[c] ELSE "closed"
    BY <1>0, <1>5 DEF WriteFail, CloseClients
  <2>2. LeavingInv(c)' /\ (Broken(c) => Broken(c)')
    BY <2>1 DEF LeavingInv, Broken
  <2>3. LeavingLeft(c)' < LeavingLeft(c)
    BY <1>0, <2>1 DEF LeavingLeft
  <2>4. QED
    BY <2>2, <2>3
<1>6. QED
  BY <1>1, <1>2, <1>3, <1>4, <1>5 DEF ServeStep, WriterStep

\* A step of anybody else: a broken subscriber is broken after it, no nearer to its end and
\* no further from it.
LEMMA OtherStepLeaves ==
  ASSUME TypeOK, [Next]_vars, NEW c \in Client, LeavingInv(c), ~(ServeStep(c) \/ WriterStep(c))
  PROVE  LeavingInv(c)' /\ (Broken(c) => Broken(c)' /\ LeavingLeft(c)' = LeavingLeft(c))
<1>0. /\ serve \in [Client -> {"absent", "upgraded", "greet", "read", "close", "gone"}]
      /\ push \in [Pusher -> {"no", "try", "drop", "retry"}] /\ c \in Pusher /\ c # Engine
      /\ Client \subseteq Pusher
      /\ writer \in [Client -> {"none", "loop", "write", "gone"}]
      /\ conn \in [Client -> {"none", "open", "broken", "closed"}]
      /\ done \in [Client -> BOOLEAN] /\ subs \subseteq Client
  BY HubAssumption DEF TypeOK, Pusher
<1> DEFINE Same == /\ serve'[c] = serve[c] /\ push'[c] = push[c] /\ writer'[c] = writer[c]
                   /\ c \in subs' <=> c \in subs
           Alone == Same /\ done'[c] = done[c] /\ conn'[c] = conn[c]
           Goal == LeavingInv(c)' /\ (Broken(c) => Broken(c)' /\ LeavingLeft(c)' = LeavingLeft(c))
<1>1. Same => LeavingLeft(c)' = LeavingLeft(c)
  BY DEF LeavingLeft
<1>2. Alone => Goal
  BY <1>1 DEF LeavingInv, Broken
<1>3. ASSUME Same, serve[c] # "absent",
             conn'[c] \in {conn[c], "closed", "broken"}, done'[c] => done[c] \/ conn'[c] # "open",
             conn'[c] = conn[c] \/ conn[c] # "none", Broken(c) => Broken(c)', done[c] => done'[c]
      PROVE  Goal
  BY <1>0, <1>1, <1>3 DEF LeavingInv, Broken
<1>4. ASSUME NEW p \in Pusher, p # c, Push(p) PROVE Goal
  <2>1. Alone
    BY <1>0, <1>4, QueueingLeaves
  <2>2. QED
    BY <1>2, <2>1
<1>5. ASSUME NEW d \in Client, d # c, ServeStep(d) \/ WriterStep(d) \/ Upgrade(d) \/ PushPong(d) \/ PeerBreaks(d)
      PROVE  Goal
  <2>1. CASE Push(d)
    BY <1>0, <1>4, <1>5, <2>1
  <2>2. CASE Register(d) \/ PushHello(d) \/ Unregister(d) \/ Upgrade(d) \/ PushPong(d) \/ PeerBreaks(d)
    <3>1. Alone
      BY <1>0, <1>5, <2>2 DEF Register, PushHello, Unregister, Upgrade, PushPong, PeerBreaks
    <3>2. QED
      BY <1>2, <3>1
  <2>3. CASE ServeClose(d) \/ WriterStep(d)
    <3>1. Alone
      BY <1>0, <1>5, <2>3 DEF ServeClose, WriterStep, WriterTake, WriteOk, WriteFail, WriterDone, CloseClients
    <3>2. QED
      BY <1>2, <3>1
  <2>4. QED
    BY <1>5, <2>1, <2>2, <2>3 DEF ServeStep
<1>6. CASE Upgrade(c)
  <2>1. /\ serve[c] = "absent" /\ UNCHANGED <<done, subs>>
        /\ \/ serve'[c] = "upgraded" /\ conn'[c] = "open" /\ writer'[c] = "loop"
           \/ serve'[c] = "gone" /\ conn'[c] = "closed" /\ writer'[c] = "gone"
    BY <1>0, <1>6 DEF Upgrade
  <2>2. conn[c] = "none" /\ ~Broken(c) /\ ~done[c] /\ c \notin subs
    BY <2>1 DEF LeavingInv, Broken
  <2>3. QED
    BY <2>1, <2>2 DEF LeavingInv, Broken
<1>7. CASE PushPong(c)
  <2>1. conn[c] = "open" /\ UNCHANGED <<serve, writer, conn, done, subs>>
    BY <1>7 DEF PushPong
  <2>2. QED
    BY <2>1 DEF LeavingInv, Broken
<1>8. CASE PeerBreaks(c)
  <2>1. conn[c] = "open" /\ conn'[c] = "broken" /\ UNCHANGED <<serve, writer, push, done, subs>>
    BY <1>0, <1>8 DEF PeerBreaks
  <2>2. QED
    BY <2>1 DEF LeavingInv, Broken
<1>9. CASE Stop
  <2>1. UNCHANGED <<serve, writer, push, subs>>
    BY <1>9 DEF Stop
  <2>2. /\ done'[c] = (done[c] \/ c \in subs)
        /\ conn'[c] = IF c \in subs /\ ~done[c] THEN "closed" ELSE conn[c]
    BY <1>9 DEF Stop, CloseClients
  <2>3. LeavingInv(c)' /\ (Broken(c) => Broken(c)')
    BY <1>0, <2>1, <2>2 DEF LeavingInv, Broken
  <2>4. QED
    BY <1>1, <2>1, <2>3
<1>10. CASE Broadcast \/ BroadcastNext \/ Terminated \/ UNCHANGED vars
  <2>1. Alone
    BY <1>0, <1>10 DEF Broadcast, BroadcastNext, Terminated, vars
  <2>2. QED
    BY <1>2, <2>1
<1>11. CASE Push(Engine)
  BY <1>0, <1>4, <1>11 DEF Pusher
<1>12. QED
  BY <1>5, <1>6, <1>7, <1>8, <1>9, <1>10, <1>11 DEF Next, EngineStep

\* A subscriber whose connection is of no use stays so; its reader and its writer have at
\* most nine steps left, each of theirs shortens that, nobody else's lengthens it, and at the
\* end it is out of the registry and its writer gone (handleWs, writeLoop, close).
THEOREM BrokenClientsGetNearerToLeaving ==
  Spec => []LeavingGoesOn /\ LeavingShrinks
<1> DEFINE All == \A c \in Client : LeavingInv(c)
<1>1. Init => All
  BY DEF Init, LeavingInv, Broken
<1>2. IInv /\ All /\ [Next]_vars => All'
  BY OwnStepLeaves, OtherStepLeaves DEF IInv
<1>3. IInv /\ All => LeavingGoesOn
  <2> SUFFICES ASSUME IInv, All, NEW c \in Client
               PROVE  /\ writer[c] = "gone" => Broken(c)
                      /\ Broken(c) =>
                           /\ LeavingLeft(c) \in 0 .. 9
                           /\ \/ serve[c] \in {"upgraded", "greet", "close"}
                              \/ serve[c] = "read" /\ (push[c] \in {"no", "drop"} \/ Len(out[c]) <= QueueLimit)
                              \/ serve[c] = "gone" /\ (writer[c] = "write" \/ (writer[c] = "loop" /\ done[c]))
                              \/ LeavingLeft(c) = 0
                           /\ LeavingLeft(c) = 0 => c \notin subs /\ serve[c] = "gone" /\ writer[c] = "gone"
    BY DEF LeavingGoesOn
  <2>1. TypeOK /\ ServeInv(c) /\ LeavingInv(c) /\ Len(out[c]) <= QueueLimit
    BY DEF IInv, TypeOK
  <2>2. writer[c] = "gone" => Broken(c)
    BY <2>1 DEF LeavingInv
  <2>3. ASSUME Broken(c)
        PROVE  \/ serve[c] \in {"upgraded", "greet", "close", "read"}
               \/ serve[c] = "gone" /\ (writer[c] \in {"write", "gone"} \/ (writer[c] = "loop" /\ done[c]))
    <3>1. /\ serve[c] \in {"absent", "upgraded", "greet", "read", "close", "gone"}
          /\ writer[c] \in {"none", "loop", "write", "gone"}
      BY <2>1 DEF TypeOK
    <3>2. QED
      BY <2>1, <2>3, <3>1 DEF LeavingInv, Broken
  <2>4. QED
    BY <2>1, <2>2, <2>3, LeavingType
<1>4. IInv /\ All /\ [Next]_vars =>
        \A c \in Client : Broken(c) =>
          /\ Broken(c)'
          /\ IF ServeStep(c) \/ WriterStep(c) THEN LeavingLeft(c)' < LeavingLeft(c)
                                              ELSE LeavingLeft(c)' = LeavingLeft(c)
  BY OwnStepLeaves, OtherStepLeaves DEF IInv
<1>5. QED
  BY HubInvariant, <1>1, <1>2, <1>3, <1>4, PTL DEF Spec, LeavingShrinks
=============================================================================
