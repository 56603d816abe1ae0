-------------------------------- MODULE Hub --------------------------------
(***************************************************************************)
(* The event side of the gateway (internal/gateway/gateway.go): the        *)
(* registry of WebSocket subscribers, the bounded queue and the writer     *)
(* goroutine of each, the broadcast of events and Stop.                    *)
(*                                                                         *)
(* Goroutines: the engine, which alone emits events; for each subscriber c *)
(* the one that serves it (the HTTP handler up to the hello, then its      *)
(* reader, which answers pings), written c, and its writer.  The engine and*)
(* c may push to the queue of c at the same time; a push is up to three    *)
(* separate channel operations.  The registry is changed and copied under  *)
(* g.mu, so each of those is one step.                                     *)
(*                                                                         *)
(* A frame is an integer: events are numbered from 1 in the order they are *)
(* emitted, Hello is 0 and Pong is -1.  /oriws has a registry of its own   *)
(* that runs the same code, except that its readers never push a pong.     *)
(***************************************************************************)
EXTENDS Integers, Sequences, FiniteSets

CONSTANTS Client,      \* the subscribers that may connect, each once
          Engine,      \* the engine goroutine
          QueueLimit,  \* capacity of a subscriber's queue (1000 by default)
          MaxEvents,   \* bound: events emitted
          MaxPings     \* bound: pings a subscriber sends

ASSUME HubAssumption ==
  /\ Engine \notin Client
  /\ QueueLimit \in Nat \ {0}
  /\ MaxEvents \in Nat /\ MaxPings \in Nat

VARIABLES serve,       \* serve[c]: progress of the goroutine that serves c
          writer,      \* writer[c]: its writer goroutine
          conn,        \* conn[c]: "none", "open", "broken" by the peer, "closed" here
          done,        \* done[c]: the channel done of c is closed
          subs,        \* the registry
          out,         \* out[c]: the queue of c
          hand,        \* hand[c]: the frames the writer of c is writing (none or one)
          push,        \* push[p]: the next step of the push p is in
          frame,       \* frame[p]: the frame p pushes
          cur,         \* the subscriber the engine pushes to
          todo,        \* subscribers of the copied registry the engine has yet to serve
          emitting,    \* the engine is inside broadcastTo
          event,       \* number of events emitted so far
          stopped,     \* Stop has run
          pings,       \* pings[c]: pings c has sent
          written,     \* history: written[c]: the frames written to the socket of c
          lost,        \* history: lost[c]: the frames given up for c
          joined,      \* history: joined[c]: number of events before c was registered
          raced        \* history: raced[p]: someone else pushed since p made room

vars == <<serve, writer, conn, done, subs, out, hand, push, frame, cur, todo, emitting,
          event, stopped, pings, written, lost, joined, raced>>

Pusher == Client \cup {Engine}
Hello == 0
Pong == -1
Frame == Int
IsEvent(f) == f > 0

\* The subscriber whose queue p pushes to.
Target(p) == IF p = Engine THEN cur ELSE p

Init == /\ serve = [c \in Client |-> "absent"]
        /\ writer = [c \in Client |-> "none"]
        /\ conn = [c \in Client |-> "none"]
        /\ done = [c \in Client |-> FALSE]
        /\ subs = {}
        /\ out = [c \in Client |-> << >>]
        /\ hand = [c \in Client |-> {}]
        /\ push = [p \in Pusher |-> "no"]
        /\ frame = [p \in Pusher |-> Hello]
        /\ cur \in Client
        /\ todo = {}
        /\ emitting = FALSE
        /\ event = 0
        /\ stopped = FALSE
        /\ pings = [c \in Client |-> 0]
        /\ written = [c \in Client |-> << >>]
        /\ lost = [c \in Client |-> {}]
        /\ joined = [c \in Client |-> 0]
        /\ raced = [p \in Pusher |-> FALSE]

----------------------------------------------------------------------------
(* wsClient.push: enqueue; if the queue is full drop the oldest frame and  *)
(* try once more; if it is full again give the new frame up.               *)

Enqueue(p) ==
  /\ out' = [out EXCEPT ![Target(p)] = Append(@, frame[p])]
  /\ push' = [push EXCEPT ![p] = "no"]
  /\ raced' = [q \in Pusher |-> IF q # p /\ Target(q) = Target(p) /\ push[q] = "retry"
                                THEN TRUE ELSE raced[q]]
  /\ UNCHANGED <<serve, writer, conn, done, subs, hand, frame, cur, todo, emitting,
                 event, stopped, pings, written, lost, joined>>

\* Variant of PushTry: a blocking channel send.
PushTryBlocking(p) ==
  /\ push[p] = "try"
  /\ Len(out[Target(p)]) < QueueLimit
  /\ Enqueue(p)

PushTry(p) ==
  /\ push[p] = "try"
  /\ \/ Len(out[Target(p)]) < QueueLimit /\ Enqueue(p)
     \/ /\ Len(out[Target(p)]) = QueueLimit
        /\ push' = [push EXCEPT ![p] = "drop"]
        /\ UNCHANGED <<serve, writer, conn, done, subs, out, hand, frame, cur, todo,
                       emitting, event, stopped, pings, written, lost, joined, raced>>

\* Variant of PushDrop: no room is made.
PushDropNothing(p) ==
  /\ push[p] = "drop"
  /\ push' = [push EXCEPT ![p] = "retry"]
  /\ raced' = [raced EXCEPT ![p] = FALSE]
  /\ UNCHANGED <<serve, writer, conn, done, subs, out, hand, frame, cur, todo, emitting,
                 event, stopped, pings, written, lost, joined>>

\* Variant of PushDrop: the oldest frame goes to the back of the queue instead.
PushDropRotates(p) ==
  /\ push[p] = "drop"
  /\ LET q == out[Target(p)] IN
     out' = [out EXCEPT ![Target(p)] = IF q = << >> THEN q ELSE Tail(q) \o <<Head(q)>>]
  /\ push' = [push EXCEPT ![p] = "retry"]
  /\ raced' = [raced EXCEPT ![p] = FALSE]
  /\ UNCHANGED <<serve, writer, conn, done, subs, hand, frame, cur, todo, emitting,
                 event, stopped, pings, written, lost, joined>>

\* The writer may have emptied the queue in the meantime; then nothing is dropped.
PushDrop(p) ==
  /\ push[p] = "drop"
  /\ LET c == Target(p) IN
     \/ /\ out[c] # << >>
        /\ out' = [out EXCEPT ![c] = Tail(@)]
        /\ lost' = [lost EXCEPT ![c] = @ \cup {Head(out[c])}]
     \/ /\ out[c] = << >>
        /\ UNCHANGED <<out, lost>>
  /\ push' = [push EXCEPT ![p] = "retry"]
  /\ raced' = [raced EXCEPT ![p] = FALSE]
  /\ UNCHANGED <<serve, writer, conn, done, subs, hand, frame, cur, todo, emitting,
                 event, stopped, pings, written, joined>>

GiveUp(p) ==
  /\ push[p] = "retry"
  /\ Len(out[Target(p)]) = QueueLimit
  /\ push' = [push EXCEPT ![p] = "no"]
  /\ lost' = [lost EXCEPT ![Target(p)] = @ \cup {frame[p]}]
  /\ UNCHANGED <<serve, writer, conn, done, subs, out, hand, frame, cur, todo, emitting,
                 event, stopped, pings, written, joined, raced>>

PushRetry(p) ==
  \/ push[p] = "retry" /\ Len(out[Target(p)]) < QueueLimit /\ Enqueue(p)
  \/ GiveUp(p)

Push(p) == PushTry(p) \/ PushDrop(p) \/ PushRetry(p)

----------------------------------------------------------------------------
(* The engine: broadcastTo.                                                *)

\* Variant of Broadcast: only the subscribers that already got their hello.
BroadcastToGreeted ==
  /\ ~emitting /\ event < MaxEvents
  /\ emitting' = TRUE
  /\ event' = event + 1
  /\ frame' = [frame EXCEPT ![Engine] = event + 1]
  /\ todo' = {c \in subs : serve[c] = "read"}
  /\ UNCHANGED <<serve, writer, conn, done, subs, out, hand, push, cur, stopped, pings,
                 written, lost, joined, raced>>

\* An event is marshalled and the registry copied under g.mu.
Broadcast ==
  /\ ~emitting /\ event < MaxEvents
  /\ emitting' = TRUE
  /\ event' = event + 1
  /\ frame' = [frame EXCEPT ![Engine] = event + 1]
  /\ todo' = subs
  /\ UNCHANGED <<serve, writer, conn, done, subs, out, hand, push, cur, stopped, pings,
                 written, lost, joined, raced>>

\* Variant of BroadcastNext: a subscriber may be taken from the copy again.
BroadcastNextAgain ==
  /\ emitting /\ push[Engine] = "no"
  /\ \/ \E c \in todo : /\ cur' = c
                        /\ push' = [push EXCEPT ![Engine] = "try"]
                        /\ UNCHANGED <<todo, emitting>>
     \/ /\ emitting' = FALSE
        /\ todo' = {}
        /\ UNCHANGED <<cur, push>>
  /\ UNCHANGED <<serve, writer, conn, done, subs, out, hand, frame, event, stopped, pings,
                 written, lost, joined, raced>>

\* The next subscriber of the copy, in any order, or the end of the broadcast.
BroadcastNext ==
  /\ emitting /\ push[Engine] = "no"
  /\ \/ \E c \in todo : /\ cur' = c
                        /\ todo' = todo \ {c}
                        /\ push' = [push EXCEPT ![Engine] = "try"]
                        /\ UNCHANGED emitting
     \/ /\ todo = {}
        /\ emitting' = FALSE
        /\ UNCHANGED <<cur, todo, push>>
  /\ UNCHANGED <<serve, writer, conn, done, subs, out, hand, frame, event, stopped, pings,
                 written, lost, joined, raced>>

EngineStep == Broadcast \/ BroadcastNext \/ Push(Engine)

----------------------------------------------------------------------------
(* close: the channel done and the socket, at most once.                   *)

CloseClients(S) ==
  /\ done' = [c \in Client |-> done[c] \/ c \in S]
  /\ conn' = [c \in Client |-> IF c \in S /\ ~done[c] THEN "closed" ELSE conn[c]]

----------------------------------------------------------------------------
(* Serving one subscriber: handleWs, then its reader goroutine.            *)

\* The upgrade succeeds; a bad token is answered and the connection closed.
Upgrade(c) ==
  /\ serve[c] = "absent"
  /\ ~stopped
  /\ \/ /\ serve' = [serve EXCEPT ![c] = "upgraded"]
        /\ conn' = [conn EXCEPT ![c] = "open"]
        /\ writer' = [writer EXCEPT ![c] = "loop"]
     \/ /\ serve' = [serve EXCEPT ![c] = "gone"]
        /\ conn' = [conn EXCEPT ![c] = "closed"]
        /\ writer' = [writer EXCEPT ![c] = "gone"]
  /\ UNCHANGED <<done, subs, out, hand, push, frame, cur, todo, emitting, event, stopped,
                 pings, written, lost, joined, raced>>

Register(c) ==
  /\ serve[c] = "upgraded"
  /\ serve' = [serve EXCEPT ![c] = "greet"]
  /\ subs' = subs \cup {c}
  /\ joined' = [joined EXCEPT ![c] = event]
  /\ UNCHANGED <<writer, conn, done, out, hand, push, frame, cur, todo, emitting, event,
                 stopped, pings, written, lost, raced>>

PushHello(c) ==
  /\ serve[c] = "greet"
  /\ serve' = [serve EXCEPT ![c] = "read"]
  /\ push' = [push EXCEPT ![c] = "try"]
  /\ frame' = [frame EXCEPT ![c] = Hello]
  /\ UNCHANGED <<writer, conn, done, subs, out, hand, cur, todo, emitting, event, stopped,
                 pings, written, lost, joined, raced>>

\* The reader got a message that contains "ping".
PushPong(c) ==
  /\ serve[c] = "read" /\ push[c] = "no"
  /\ conn[c] = "open"
  /\ pings[c] < MaxPings
  /\ pings' = [pings EXCEPT ![c] = @ + 1]
  /\ push' = [push EXCEPT ![c] = "try"]
  /\ frame' = [frame EXCEPT ![c] = Pong]
  /\ UNCHANGED <<serve, writer, conn, done, subs, out, hand, cur, todo, emitting, event,
                 stopped, written, lost, joined, raced>>

\* Variant of Unregister: the reader closes the client and leaves it registered.
UnregisterForgotten(c) ==
  /\ serve[c] = "read" /\ push[c] = "no"
  /\ conn[c] \in {"broken", "closed"}
  /\ serve' = [serve EXCEPT ![c] = "close"]
  /\ UNCHANGED <<writer, conn, done, subs, out, hand, push, frame, cur, todo, emitting,
                 event, stopped, pings, written, lost, joined, raced>>

\* ReadMessage fails: the deferred function removes c from the registry, ...
Unregister(c) ==
  /\ serve[c] = "read" /\ push[c] = "no"
  /\ conn[c] \in {"broken", "closed"}
  /\ serve' = [serve EXCEPT ![c] = "close"]
  /\ subs' = subs \ {c}
  /\ UNCHANGED <<writer, conn, done, out, hand, push, frame, cur, todo, emitting, event,
                 stopped, pings, written, lost, joined, raced>>

\* ... and then closes it.
ServeClose(c) ==
  /\ serve[c] = "close"
  /\ serve' = [serve EXCEPT ![c] = "gone"]
  /\ CloseClients({c})
  /\ UNCHANGED <<writer, subs, out, hand, push, frame, cur, todo, emitting, event, stopped,
                 pings, written, lost, joined, raced>>

ServeStep(c) == Register(c) \/ PushHello(c) \/ Push(c) \/ Unregister(c) \/ ServeClose(c)

----------------------------------------------------------------------------
(* writeLoop.  A write has a deadline of ten seconds, so it always returns.*)

WriterTake(c) ==
  /\ writer[c] = "loop"
  /\ out[c] # << >>
  /\ writer' = [writer EXCEPT ![c] = "write"]
  /\ hand' = [hand EXCEPT ![c] = {Head(out[c])}]
  /\ out' = [out EXCEPT ![c] = Tail(@)]
  /\ UNCHANGED <<serve, conn, done, subs, push, frame, cur, todo, emitting, event, stopped,
                 pings, written, lost, joined, raced>>

WriteOk(c) ==
  /\ writer[c] = "write"
  /\ conn[c] = "open"
  /\ writer' = [writer EXCEPT ![c] = "loop"]
  /\ \E f \in hand[c] : written' = [written EXCEPT ![c] = Append(@, f)]
  /\ hand' = [hand EXCEPT ![c] = {}]
  /\ UNCHANGED <<serve, conn, done, subs, out, push, frame, cur, todo, emitting, event,
                 stopped, pings, lost, joined, raced>>

\* Variant of WriteFail: the writer just ends.
WriteFailSilently(c) ==
  /\ writer[c] \in {"loop", "write"}
  /\ writer' = [writer EXCEPT ![c] = "gone"]
  /\ lost' = [lost EXCEPT ![c] = @ \cup hand[c]]
  /\ hand' = [hand EXCEPT ![c] = {}]
  /\ UNCHANGED <<serve, conn, done, subs, out, push, frame, cur, todo, emitting, event,
                 stopped, pings, written, joined, raced>>

\* A write or a ping fails, or runs into its deadline: the writer closes the client.
WriteFail(c) ==
  /\ writer[c] \in {"loop", "write"}
  /\ writer' = [writer EXCEPT ![c] = "gone"]
  /\ lost' = [lost EXCEPT ![c] = @ \cup hand[c]]
  /\ hand' = [hand EXCEPT ![c] = {}]
  /\ CloseClients({c})
  /\ UNCHANGED <<serve, subs, out, push, frame, cur, todo, emitting, event, stopped, pings,
                 written, joined, raced>>

WriterDone(c) ==
  /\ writer[c] = "loop"
  /\ done[c]
  /\ writer' = [writer EXCEPT ![c] = "gone"]
  /\ UNCHANGED <<serve, conn, done, subs, out, hand, push, frame, cur, todo, emitting, event,
                 stopped, pings, written, lost, joined, raced>>

WriterStep(c) == WriterTake(c) \/ WriteOk(c) \/ WriteFail(c) \/ WriterDone(c)

----------------------------------------------------------------------------
PeerBreaks(c) ==
  /\ conn[c] = "open"
  /\ conn' = [conn EXCEPT ![c] = "broken"]
  /\ UNCHANGED <<serve, writer, done, subs, out, hand, push, frame, cur, todo, emitting,
                 event, stopped, pings, written, lost, joined, raced>>

\* The server stops accepting; every registered subscriber is closed under g.mu.
Stop ==
  /\ ~stopped
  /\ stopped' = TRUE
  /\ CloseClients(subs)
  /\ UNCHANGED <<serve, writer, subs, out, hand, push, frame, cur, todo, emitting, event,
                 pings, written, lost, joined, raced>>

\* The bounds are reached and every goroutine has ended.
Terminated ==
  /\ stopped /\ ~emitting /\ event = MaxEvents
  /\ \A c \in Client : serve[c] \in {"absent", "gone"} /\ writer[c] \in {"none", "gone"}
  /\ UNCHANGED vars

Next == \/ EngineStep
        \/ \E c \in Client : \/ Upgrade(c) \/ ServeStep(c) \/ PushPong(c)
                             \/ WriterStep(c) \/ PeerBreaks(c)
        \/ Stop
        \/ Terminated

(***************************************************************************)
(* Fairness: a goroutine that can go on does.  The engine need not emit,   *)
(* nobody need connect, ping, break or stop, and a write need not succeed. *)
(***************************************************************************)
Fairness ==
  /\ WF_vars(BroadcastNext \/ Push(Engine))
  /\ \A c \in Client : /\ WF_vars(ServeStep(c))
                       /\ WF_vars(WriterTake(c) \/ WriterDone(c))
                       /\ WF_vars(WriteOk(c) \/ (writer[c] = "write" /\ WriteFail(c)))

Spec == Init /\ [][Next]_vars

FairSpec == Spec /\ Fairness

----------------------------------------------------------------------------
(* Properties.                                                             *)

\* Types; no queue exceeds its limit, however many goroutines push to it.
TypeOK ==
  /\ serve \in [Client -> {"absent", "upgraded", "greet", "read", "close", "gone"}]
  /\ writer \in [Client -> {"none", "loop", "write", "gone"}]
  /\ conn \in [Client -> {"none", "open", "broken", "closed"}]
  /\ done \in [Client -> BOOLEAN]
  /\ subs \subseteq Client
  /\ out \in [Client -> Seq(Frame)]
  /\ \A c \in Client : Len(out[c]) <= QueueLimit
  /\ hand \in [Client -> SUBSET Frame]
  /\ push \in [Pusher -> {"no", "try", "drop", "retry"}]
  /\ frame \in [Pusher -> Frame]
  /\ cur \in Client
  /\ todo \subseteq Client
  /\ emitting \in BOOLEAN
  /\ event \in Nat
  /\ stopped \in BOOLEAN
  /\ pings \in [Client -> Nat]
  /\ written \in [Client -> Seq(Frame)]
  /\ lost \in [Client -> SUBSET Frame]
  /\ joined \in [Client -> Nat]
  /\ raced \in [Pusher -> BOOLEAN]

EventsAscend(s) ==
  \A i, j \in 1 .. Len(s) : i < j /\ IsEvent(s[i]) /\ IsEvent(s[j]) => s[i] < s[j]

\* What a subscriber has been sent and will be sent are events in the order they were
\* emitted, none twice, whatever was dropped and whoever else pushed to its queue.
EventOrder ==
  \A c \in Client :
    /\ EventsAscend(written[c])
    /\ EventsAscend(out[c])
    /\ \A i \in 1 .. Len(written[c]) : \A f \in hand[c] :
         IsEvent(written[c][i]) /\ IsEvent(f) => written[c][i] < f
    /\ \A j \in 1 .. Len(out[c]) : IsEvent(out[c][j]) =>
         /\ \A f \in hand[c] : f < out[c][j]
         /\ \A i \in 1 .. Len(written[c]) : written[c][i] < out[c][j]

Elems(s) == {s[i] : i \in 1 .. Len(s)}

Events(S) == {f \in S : IsEvent(f)}

\* Frames of c that are written, in the writer's hand, queued or given up.
Accounted(c) == Elems(written[c]) \cup hand[c] \cup Elems(out[c]) \cup lost[c]

\* The broadcast of the last event still owes c its push.
Owed(c) == emitting /\ (c \in todo \/ (cur = c /\ push[Engine] # "no"))

\* The events on their way to c: in the writer's hand, queued, or owed by the engine.
Pending(c) == Events(hand[c] \cup Elems(out[c]) \cup (IF Owed(c) THEN {event} ELSE {}))

\* A registered subscriber misses no event silently: each one emitted since it joined
\* is written, on its way, or was given up for a full queue; none from before is sent.
\* And each has one fate: what was given up has not been written and never will be.
NothingSkipped ==
  \A c \in Client :
    /\ c \in subs =>
         Events(Accounted(c)) = (joined[c] + 1) .. (IF Owed(c) THEN event - 1 ELSE event)
    /\ lost[c] \cap (Events(Elems(written[c])) \cup Pending(c)) = {}

Feed == INSTANCE EventFeed
          WITH Subscriber <- Client, emitted <- event, members <- subs,
               pending <- [c \in Client |-> Pending(c)],
               delivered <- [c \in Client |-> Events(Elems(written[c]))],
               lost <- [c \in Client |-> Events(lost[c])]

\* Seen by its subscribers, the hub gives each event to all of them at once and hands it on
\* oldest first, although a broadcast goes from queue to queue, three channel operations
\* each, while subscribers come and go, readers push and writers drain.
ImplementsFeed == Feed!Spec

\* push makes room before it gives up: the new frame is lost only if someone else took
\* the place that push had freed.
GiveUpOnlyInRace == [][\A p \in Pusher : GiveUp(p) => raced[p]]_vars

\* A slow or dead subscriber never blocks the engine: every broadcast ends, whatever
\* the writers, readers and peers do.
BroadcastEnds == emitting ~> ~emitting

\* A subscriber whose connection broke, was closed by Stop or lost its writer is removed
\* from the registry and its writer ends: no goroutine and no queue is left behind.
BrokenClientLeaves ==
  \A c \in Client :
    c \in subs /\ (conn[c] \in {"broken", "closed"} \/ writer[c] = "gone")
      ~> c \notin subs /\ writer[c] = "gone"

\* What the package comment and API.md promise: the first frame on /ws is the hello.
HelloFirst ==
  \A c \in Client : written[c] # << >> => Head(written[c]) = Hello

============================================================================
