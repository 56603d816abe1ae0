------------------------------ MODULE Session ------------------------------
(***************************************************************************)
(* RunSession (internal/engine/client.go): the receive loop of one         *)
(* connected session, with its heartbeat goroutine and, when the caller    *)
(* gave a shouldStop function, the goroutine that polls it.  They share the*)
(* channel stop (closed once), the atomic lastRecv, the plain variable     *)
(* reason, and the connection.                                             *)
(*                                                                         *)
(* The connection is used through what FrameStream promises: Receive hands *)
(* out queued frames in order, reports the end of the stream only when     *)
(* none is left, and otherwise gives up after its timeout.  Ping holds the *)
(* write mutex for at most PingMax seconds.                                *)
(*                                                                         *)
(* Time is counted in seconds.  Timers hold the seconds left, and Tick     *)
(* lets a second pass only when no goroutine has something to do at once.  *)
(***************************************************************************)
EXTENDS Integers, Sequences

CONSTANTS Heartbeat,   \* period of the heartbeat ticker (15 s)
          DeadAfter,   \* silence after which the session is given up (40 s)
          StopPoll,    \* period of the shouldStop poll (2 s)
          RecvTimeout, \* timeout of each Receive (1 s)
          PingMax,     \* deadline of a ping write (5 s)
          CloseMax,    \* deadline of the close frame's write (1 s)
          Burst        \* bound: frames arriving within one second

ASSUME PeriodsAssumption ==
  /\ {Heartbeat, DeadAfter, StopPoll, RecvTimeout} \subseteq Nat \ {0}
  /\ {PingMax, CloseMax, Burst} \subseteq Nat
  /\ PingMax < Heartbeat

VARIABLES main,        \* receive loop: "top", "recv", "got", "leave", "closing", "bye", "ended"
          recvLeft,    \* seconds until Receive times out
          quiet,       \* seconds since lastRecv was stored (counted up to QuietMax)
          lull,        \* history: seconds since a frame last arrived (up to QuietMax)
          inbox,       \* frames the connection holds for Receive
          arrivals,    \* frames that arrived in this second
          link,        \* "up", "silent" (half-open: the peer is gone unnoticed), "down"
          hb,          \* heartbeat: "wait", "ping", "check", "gone"
          hbLeft,      \* seconds to the next heartbeat tick
          pingLeft,    \* seconds the current ping may still take
          poller,      \* shouldStop goroutine: "wait", "stopping", "gone"
          pollLeft,    \* seconds to the next poll
          want,        \* shouldStop() would return true
          asked,       \* history: seconds the wish to stop has waited (up to AskedMax)
          stop,        \* the channel stop is closed
          dead,        \* the heartbeat found the session dead
          reason,      \* the variable reason
          byeLeft,     \* seconds the close frame's write may still take
          returned     \* RunSession's result

vars == <<main, recvLeft, quiet, lull, inbox, arrivals, link, hb, hbLeft, pingLeft,
          poller, pollLeft, want, asked, stop, dead, reason, byeLeft, returned>>

\* What only time moves, apart from the actions that set a timer.
timers == <<recvLeft, hbLeft, pingLeft, pollLeft, byeLeft, asked>>

FrameKinds == {"data", "empty"}

\* The longest silence a running session can see (see DeadPeerDropped), the longest a
\* wish to stop can wait for the loop to be left (see StopIsPrompt), and how long Close takes.
SilenceBound == DeadAfter + Heartbeat + PingMax + RecvTimeout
StopBound == StopPoll + RecvTimeout
CloseBound == PingMax + CloseMax

\* Bounds: seconds are counted up to one more than the properties allow.
QuietMax == SilenceBound + CloseBound + 1
AskedMax == StopBound + CloseBound + 1

\* setClosed has run, on this side or in the reader, so Ping returns at once.
ConnClosed == main \in {"closing", "bye", "ended"} \/ link = "down"

InitWith(pollerState) ==
  /\ main = "top"
  /\ recvLeft = 0
  /\ quiet = 0 /\ lull = 0
  /\ inbox = << >>
  /\ arrivals = 0
  /\ link = "up"
  /\ hb = "wait" /\ hbLeft = Heartbeat /\ pingLeft = 0
  /\ poller = pollerState /\ pollLeft = StopPoll
  /\ want = FALSE /\ asked = 0
  /\ stop = FALSE
  /\ dead = FALSE
  /\ reason = "disconnect"
  /\ byeLeft = 0
  /\ returned = "none"

\* shouldStop may be nil (the bot passes nil, the smoke test a function).
Init == InitWith("wait") \/ InitWith("gone")

----------------------------------------------------------------------------
(* The world: the peer, the network, the caller.                           *)

Arrive(kind) ==
  /\ link = "up"
  /\ main # "ended"
  /\ arrivals < Burst
  /\ arrivals' = arrivals + 1
  /\ inbox' = Append(inbox, kind)
  /\ lull' = 0
  /\ UNCHANGED <<main, quiet, link, hb, poller, want, stop, dead, reason, returned, timers>>

LinkChange ==
  /\ link # "down"
  /\ link' \in (IF link = "up" THEN {"silent", "down"} ELSE {"down"})
  /\ UNCHANGED <<main, quiet, lull, inbox, arrivals, hb, poller, want, stop, dead, reason,
                 returned, timers>>

WantStop ==
  /\ ~want
  /\ want' = TRUE
  /\ UNCHANGED <<main, quiet, lull, inbox, arrivals, link, hb, poller, stop, dead, reason,
                 returned, timers>>

World == (\E kind \in FrameKinds : Arrive(kind)) \/ LinkChange \/ WantStop

----------------------------------------------------------------------------
(* The receive loop.                                                       *)

\* Variant of LoopTop: the select on stop is left out.
LoopTopBlind ==
  /\ main = "top"
  /\ main' = "recv"
  /\ recvLeft' = RecvTimeout
  /\ UNCHANGED <<quiet, lull, inbox, arrivals, link, hb, hbLeft, pingLeft, poller, pollLeft,
                 want, stop, asked, dead, reason, byeLeft, returned>>

\* The select on stop, then the call of Receive.
LoopTop ==
  /\ main = "top"
  /\ main' = IF stop THEN "leave" ELSE "recv"
  /\ recvLeft' = RecvTimeout
  /\ UNCHANGED <<quiet, lull, inbox, arrivals, link, hb, hbLeft, pingLeft, poller, pollLeft,
                 want, stop, asked, dead, reason, byeLeft, returned>>

\* Variant of ReceiveFrame: an empty frame is dropped before lastRecv is stored.
ReceiveFrameIgnoringEmpty ==
  /\ main = "recv"
  /\ inbox # << >>
  /\ inbox' = Tail(inbox)
  /\ quiet' = IF Head(inbox) = "empty" THEN quiet ELSE 0
  /\ main' = IF Head(inbox) = "empty" THEN "top" ELSE "got"
  /\ UNCHANGED <<lull, arrivals, link, hb, poller, want, stop, dead, reason, returned,
                 timers>>

\* Receive returns a frame; an empty one counts as life but is not handled.
ReceiveFrame ==
  /\ main = "recv"
  /\ inbox # << >>
  /\ inbox' = Tail(inbox)
  /\ quiet' = 0
  /\ main' = IF Head(inbox) = "empty" THEN "top" ELSE "got"
  /\ UNCHANGED <<lull, arrivals, link, hb, poller, want, stop, dead, reason, returned,
                 timers>>

\* OnRaw and handleIncoming, which do not block.
HandleFrame ==
  /\ main = "got"
  /\ main' = "top"
  /\ UNCHANGED <<quiet, lull, inbox, arrivals, link, hb, poller, want, stop, dead, reason,
                 returned, timers>>

\* Variant of ReceiveTimeout: lastRecv is stored whatever Receive returned.
ReceiveTimeoutStores ==
  /\ main = "recv"
  /\ recvLeft = 0
  /\ main' = "top"
  /\ quiet' = 0
  /\ UNCHANGED <<lull, inbox, arrivals, link, hb, poller, want, stop, dead, reason, returned,
                 timers>>

ReceiveTimeout ==
  /\ main = "recv"
  /\ recvLeft = 0
  /\ main' = "top"
  /\ UNCHANGED <<quiet, lull, inbox, arrivals, link, hb, poller, want, stop, dead, reason,
                 returned, timers>>

ReceiveError ==
  /\ main = "recv"
  /\ link = "down" /\ inbox = << >>
  /\ main' = "leave"
  /\ UNCHANGED <<quiet, lull, inbox, arrivals, link, hb, poller, want, stop, dead, reason,
                 returned, timers>>

\* Variant of Leave: only the connection is closed.
LeaveWithoutDone ==
  /\ main = "leave"
  /\ main' = "closing"
  /\ UNCHANGED <<quiet, lull, inbox, arrivals, link, hb, poller, want, stop, dead, reason,
                 returned, timers>>

\* done() after the loop, then Close up to its setClosed.
Leave ==
  /\ main = "leave"
  /\ stop' = TRUE
  /\ main' = "closing"
  /\ UNCHANGED <<quiet, lull, inbox, arrivals, link, hb, poller, want, dead, reason, returned,
                 timers>>

\* Close gets the write mutex once no ping holds it, and writes the close frame.
CloseFrame ==
  /\ main = "closing"
  /\ hb # "ping"
  /\ main' = "bye"
  /\ byeLeft' = CloseMax
  /\ UNCHANGED <<recvLeft, quiet, lull, inbox, arrivals, link, hb, hbLeft, pingLeft, poller,
                 pollLeft, want, asked, stop, dead, reason, returned>>

Return ==
  /\ main = "bye"
  /\ main' = "ended"
  /\ returned' = reason
  /\ UNCHANGED <<quiet, lull, inbox, arrivals, link, hb, poller, want, stop, dead, reason, timers>>

Loop == LoopTop \/ ReceiveFrame \/ HandleFrame \/ ReceiveTimeout \/ ReceiveError
        \/ Leave \/ CloseFrame \/ Return

----------------------------------------------------------------------------
(* The heartbeat goroutine.                                                *)

HbFire ==
  /\ hb = "wait"
  /\ hbLeft = 0
  /\ hbLeft' = Heartbeat
  /\ hb' = IF ConnClosed THEN "check" ELSE "ping"
  /\ pingLeft' = PingMax
  /\ UNCHANGED <<main, recvLeft, quiet, lull, inbox, arrivals, link, poller, pollLeft, want,
                 stop, asked, dead, reason, byeLeft, returned>>

\* The ping is written or fails; either way nobody is told.
PingDone ==
  /\ hb = "ping"
  /\ hb' = "check"
  /\ UNCHANGED <<main, quiet, lull, inbox, arrivals, link, poller, want, stop, dead, reason,
                 returned, timers>>

HbCheck ==
  /\ hb = "check"
  /\ IF quiet > DeadAfter
     THEN dead' = TRUE /\ stop' = TRUE /\ hb' = "gone"
     ELSE hb' = "wait" /\ UNCHANGED <<dead, stop>>
  /\ UNCHANGED <<main, quiet, lull, inbox, arrivals, link, poller, want, reason, returned, timers>>

HbStop ==
  /\ hb = "wait"
  /\ stop
  /\ hb' = "gone"
  /\ UNCHANGED <<main, quiet, lull, inbox, arrivals, link, poller, want, stop, dead, reason,
                 returned, timers>>

HeartbeatStep == HbFire \/ PingDone \/ HbCheck \/ HbStop

----------------------------------------------------------------------------
(* The goroutine that polls shouldStop.                                    *)

\* Variant of PollFire: reason is set before shouldStop is asked.
PollFireEarlyReason ==
  /\ poller = "wait"
  /\ pollLeft = 0
  /\ pollLeft' = StopPoll
  /\ reason' = "stop"
  /\ poller' = IF want THEN "stopping" ELSE "wait"
  /\ UNCHANGED <<main, recvLeft, quiet, lull, inbox, arrivals, link, hb, hbLeft, pingLeft, want,
                 asked, stop, dead, byeLeft, returned>>

PollFire ==
  /\ poller = "wait"
  /\ pollLeft = 0
  /\ pollLeft' = StopPoll
  /\ IF want THEN reason' = "stop" /\ poller' = "stopping"
             ELSE UNCHANGED <<reason, poller>>
  /\ UNCHANGED <<main, recvLeft, quiet, lull, inbox, arrivals, link, hb, hbLeft, pingLeft, want,
                 asked, stop, dead, byeLeft, returned>>

\* Variant of PollStop: the goroutine ends without closing stop.
PollStopForgotten ==
  /\ poller = "stopping"
  /\ poller' = "gone"
  /\ UNCHANGED <<main, quiet, lull, inbox, arrivals, link, hb, want, stop, dead, reason, returned,
                 timers>>

PollStop ==
  /\ poller = "stopping"
  /\ stop' = TRUE
  /\ poller' = "gone"
  /\ UNCHANGED <<main, quiet, lull, inbox, arrivals, link, hb, want, dead, reason, returned,
                 timers>>

PollQuit ==
  /\ poller = "wait"
  /\ stop
  /\ poller' = "gone"
  /\ UNCHANGED <<main, quiet, lull, inbox, arrivals, link, hb, want, stop, dead, reason, returned,
                 timers>>

PollerStep == PollFire \/ PollStop \/ PollQuit

----------------------------------------------------------------------------
(* Time.                                                                   *)

\* Some goroutine can go on at once: no second passes before it does.
Runnable ==
  \/ main \in {"top", "got", "leave"}
  \/ main = "recv" /\ (inbox # << >> \/ link = "down" \/ recvLeft = 0)
  \/ main = "closing" /\ hb # "ping"
  \/ main = "bye" /\ byeLeft = 0
  \/ hb = "wait" /\ (stop \/ hbLeft = 0)
  \/ hb = "ping" /\ pingLeft = 0
  \/ hb = "check"
  \/ poller = "wait" /\ (stop \/ pollLeft = 0)
  \/ poller = "stopping"

Down(t) == IF t = 0 THEN 0 ELSE t - 1

UpTo(max, t) == IF t < max THEN t + 1 ELSE t

\* The caller wants to stop a session that asks it, or did until it closed stop.
Asked == want /\ (poller # "gone" \/ stop)

Tick ==
  /\ ~Runnable
  /\ main # "ended" \/ hb # "gone" \/ poller # "gone"
  /\ quiet' = UpTo(QuietMax, quiet)
  /\ lull' = UpTo(QuietMax, lull)
  /\ recvLeft' = Down(recvLeft)
  /\ hbLeft' = Down(hbLeft)
  /\ pingLeft' = Down(pingLeft)
  /\ pollLeft' = Down(pollLeft)
  /\ byeLeft' = Down(byeLeft)
  /\ asked' = IF Asked /\ main # "ended" THEN UpTo(AskedMax, asked) ELSE asked
  /\ arrivals' = 0
  /\ UNCHANGED <<main, inbox, link, hb, poller, want, stop, dead, reason, returned>>

Terminated ==
  /\ main = "ended" /\ hb = "gone" /\ poller = "gone"
  /\ UNCHANGED vars

Next == World \/ Loop \/ HeartbeatStep \/ PollerStep \/ Tick \/ Terminated

(***************************************************************************)
(* Fairness: each goroutine is scheduled and time passes.  Nothing is      *)
(* assumed of the peer, of the network or of the caller's wish to stop.    *)
(***************************************************************************)
Fairness == WF_vars(Loop) /\ WF_vars(HeartbeatStep) /\ WF_vars(PollerStep) /\ WF_vars(Tick)

Spec == Init /\ [][Next]_vars

FairSpec == Spec /\ Fairness

----------------------------------------------------------------------------
(* Properties.                                                             *)

\* Types, with every timer within its period.
TypeOK ==
  /\ main \in {"top", "recv", "got", "leave", "closing", "bye", "ended"}
  /\ recvLeft \in 0 .. RecvTimeout
  /\ {quiet, lull} \subseteq 0 .. QuietMax
  /\ inbox \in Seq(FrameKinds)
  /\ arrivals \in 0 .. Burst
  /\ link \in {"up", "silent", "down"}
  /\ hb \in {"wait", "ping", "check", "gone"}
  /\ hbLeft \in 0 .. Heartbeat
  /\ pingLeft \in 0 .. PingMax
  /\ poller \in {"wait", "stopping", "gone"}
  /\ pollLeft \in 0 .. StopPoll
  /\ {want, stop, dead} \subseteq BOOLEAN
  /\ asked \in 0 .. AskedMax
  /\ reason \in {"disconnect", "stop"}
  /\ byeLeft \in 0 .. CloseMax
  /\ returned \in {"none", "disconnect", "stop"}

\* A half-open connection is dropped in bounded time: the loop never runs on a
\* connection on which nothing arrived for longer than the dead limit, one heartbeat
\* period, a slow ping and one Receive together; and RunSession returns within the time
\* that a ping holding the write mutex and the close frame may take on top of it.
DeadPeerDropped ==
  /\ main \in {"top", "recv", "got"} => lull <= SilenceBound
  /\ main # "ended" => lull <= SilenceBound + CloseBound

\* A stop is prompt, on a dead link as well: RunSession has returned when one poll, one
\* Receive, a slow ping and the close frame have passed since the caller wanted it.
StopIsPrompt == main # "ended" => asked <= StopBound + CloseBound

\* RunSession's result and its way out agree: "stop" is returned only if the caller
\* asked to stop, and the loop is left only for a stop request, a broken connection
\* or a silence longer than the dead limit.
LeavesForAReason ==
  /\ returned = "stop" => want
  /\ main \in {"leave", "closing", "bye", "ended"} => want \/ link = "down" \/ dead

\* A peer that keeps sending is never given up, whatever it sends: a running session
\* is declared dead only if nothing arrived for longer than the dead limit, except for
\* a frame of this very second that may still be on its way to lastRecv.
DeadOnlyWhenSilent ==
  [][dead' /\ ~dead /\ main \in {"top", "recv", "got"}
       => lull > DeadAfter \/ arrivals > 0]_vars

\* A connection that broke, noticed or not, ends its session, and so does a request
\* to stop if there is a poller.
SessionEnds == (link # "up" \/ (want /\ poller # "gone")) ~> main = "ended"

\* Neither goroutine outlives the session: no second passes between the return of
\* RunSession and the end of both, even if it returned while one was about to act.
NoGoroutineLeak == [][Tick => main # "ended"]_vars

\* What the comment on RunSession says of its result: "disconnect" is returned when
\* the connection broke.
DisconnectMeansBroken == returned = "disconnect" => link # "up"

============================================================================
