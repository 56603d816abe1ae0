--------------------------- MODULE SessionProofs ---------------------------
(***************************************************************************)
(* How long a session can run without hearing anything, why it ends and    *)
(* that nothing of it remains, proved for every choice of the periods and  *)
(* every rate of arrival.                                                  *)
(***************************************************************************)
EXTENDS Session, TLAPS

Running == main \in {"top", "recv", "got"}

\* TypeOK, one variable at a time.
Typed ==
  /\ main \in {"top", "recv", "got", "leave", "closing", "bye", "ended"}
  /\ recvLeft \in 0 .. RecvTimeout /\ hbLeft \in 0 .. Heartbeat /\ pingLeft \in 0 .. PingMax
  /\ pollLeft \in 0 .. StopPoll /\ byeLeft \in 0 .. CloseMax
  /\ quiet \in 0 .. QuietMax /\ lull \in 0 .. QuietMax
  /\ inbox \in Seq(FrameKinds) /\ arrivals \in 0 .. Burst
  /\ link \in {"up", "silent", "down"}
  /\ hb \in {"wait", "ping", "check", "gone"} /\ poller \in {"wait", "stopping", "gone"}
  /\ want \in BOOLEAN /\ stop \in BOOLEAN /\ dead \in BOOLEAN
  /\ reason \in {"disconnect", "stop"} /\ returned \in {"none", "disconnect", "stop"}
  /\ asked \in 0 .. AskedMax

\* A second never passes while a frame waits for a running loop.
FramesInv == Running => /\ inbox = << >> => quiet = lull
                        /\ inbox # << >> => lull = 0 /\ arrivals > 0

\* Until stop is closed the heartbeat looks at lastRecv again in time ...
HeartbeatInv ==
  Running /\ ~stop =>
    /\ hb # "gone"
    /\ hb = "wait" => quiet + hbLeft <= DeadAfter + Heartbeat
    /\ hb = "ping" => quiet + pingLeft <= DeadAfter + Heartbeat + PingMax
    /\ hb = "check" => quiet <= DeadAfter + Heartbeat + PingMax

\* ... and once it is closed the loop is left after the Receive it is in.
StopInv == Running /\ stop => /\ main = "recv" => lull + recvLeft <= SilenceBound
                              /\ main # "recv" => lull <= SilenceBound

\* Who closed stop, and why reason was set.
ReasonInv ==
  /\ reason = "stop" => want
  /\ poller = "stopping" => want
  /\ Running /\ stop => want \/ dead
  /\ ~Running => want \/ link = "down" \/ dead
  /\ returned = "stop" => want

\* A ping holds the write mutex, which Close needs; afterwards a ping returns at once.
EndInv ==
  /\ main \in {"closing", "bye", "ended"} => stop
  /\ main \in {"bye", "ended"} => hb # "ping"

\* Once the loop is left only the write mutex and the close frame take time.
CloseInv ==
  /\ main = "leave" => lull <= SilenceBound
  /\ main = "closing" /\ hb # "ping" => lull <= SilenceBound + PingMax
  /\ main = "closing" /\ hb = "ping" => lull + pingLeft <= SilenceBound + PingMax
  /\ main = "bye" => lull + byeLeft <= SilenceBound + CloseBound

\* The next poll hears of the wish to stop, the next turn of the loop sees stop closed, ...
PollInv ==
  /\ ~Asked => asked = 0
  /\ ~stop /\ poller = "wait" /\ want => asked + pollLeft <= StopPoll
  /\ ~stop => asked <= StopPoll
  /\ Running => /\ stop /\ main = "recv" => asked + recvLeft <= StopBound
                /\ asked <= StopBound

\* ... and the rest is as in CloseInv.
PromptInv ==
  /\ main = "leave" => asked <= StopBound
  /\ main = "closing" /\ hb # "ping" => asked <= StopBound + PingMax
  /\ main = "closing" /\ hb = "ping" => asked + pingLeft <= StopBound + PingMax
  /\ main = "bye" => asked + byeLeft <= StopBound + CloseBound

IInv == /\ Typed /\ FramesInv /\ HeartbeatInv /\ StopInv /\ ReasonInv /\ EndInv
        /\ CloseInv /\ PollInv /\ PromptInv

----------------------------------------------------------------------------
LEMMA Periods ==
  /\ Heartbeat \in Nat /\ DeadAfter \in Nat /\ StopPoll \in Nat /\ RecvTimeout \in Nat
  /\ PingMax \in Nat /\ CloseMax \in Nat /\ Burst \in Nat
  /\ SilenceBound = DeadAfter + Heartbeat + PingMax + RecvTimeout /\ SilenceBound \in Nat
  /\ StopBound = StopPoll + RecvTimeout /\ StopBound \in Nat
  /\ CloseBound = PingMax + CloseMax /\ CloseBound \in Nat
  /\ QuietMax = SilenceBound + CloseBound + 1 /\ QuietMax \in Nat
  /\ AskedMax = StopBound + CloseBound + 1 /\ AskedMax \in Nat
BY PeriodsAssumption DEF SilenceBound, StopBound, CloseBound, QuietMax, AskedMax

LEMMA TypeOKTyped == TypeOK <=> Typed
<1>1. {quiet, lull} \subseteq 0 .. QuietMax <=> quiet \in 0 .. QuietMax /\ lull \in 0 .. QuietMax
  BY Zenon
<1>2. {want, stop, dead} \subseteq BOOLEAN
        <=> want \in BOOLEAN /\ stop \in BOOLEAN /\ dead \in BOOLEAN
  BY Zenon
<1>3. QED
  BY <1>1, <1>2, Zenon DEF TypeOK, Typed

LEMMA InitInv == Init => IInv
<1> SUFFICES ASSUME Init PROVE IInv
  OBVIOUS
<1>1. Typed
  <2>1. << >> \in Seq(FrameKinds)
    OBVIOUS
  <2>2. Typed
    <3>1. /\ main = "top" /\ hb = "wait" /\ poller \in {"wait", "gone"} /\ link = "up"
          /\ recvLeft = 0 /\ hbLeft = Heartbeat /\ pingLeft = 0 /\ pollLeft = StopPoll
          /\ byeLeft = 0 /\ quiet = 0 /\ lull = 0 /\ inbox = << >> /\ arrivals = 0
          /\ want = FALSE /\ stop = FALSE /\ dead = FALSE /\ asked = 0
          /\ reason = "disconnect" /\ returned = "none"
      BY DEF Init, InitWith
    <3>2. /\ recvLeft \in 0 .. RecvTimeout /\ hbLeft \in 0 .. Heartbeat /\ pingLeft \in 0 .. PingMax
          /\ pollLeft \in 0 .. StopPoll /\ byeLeft \in 0 .. CloseMax
          /\ quiet \in 0 .. QuietMax /\ lull \in 0 .. QuietMax /\ arrivals \in 0 .. Burst
          /\ asked \in 0 .. AskedMax
      BY <3>1, Periods
    <3>3. QED
      BY <2>1, <3>1, <3>2 DEF Typed
  <2>3. QED
    BY <2>2
<1>2. FramesInv /\ HeartbeatInv /\ StopInv /\ ReasonInv /\ EndInv
  BY Periods DEF Init, InitWith, FramesInv, HeartbeatInv, StopInv, ReasonInv, EndInv, Running
<1>3. CloseInv /\ PollInv /\ PromptInv
  BY Periods DEF Init, InitWith, CloseInv, PollInv, PromptInv, Running, Asked
<1>4. QED
  BY <1>1, <1>2, <1>3 DEF IInv

LEMMA QueueTypes ==
  ASSUME inbox \in Seq(FrameKinds)
  PROVE  /\ \A kind \in FrameKinds : Append(inbox, kind) \in Seq(FrameKinds)
                                     /\ Append(inbox, kind) # << >>
         /\ inbox # << >> => Tail(inbox) \in Seq(FrameKinds)
OBVIOUS

\* The timers and clocks a second moves.
LEMMA TickTimes ==
  ASSUME Typed, Tick
  PROVE  /\ quiet' \in 0 .. QuietMax /\ quiet' <= quiet + 1
         /\ lull' \in 0 .. QuietMax /\ lull' <= lull + 1
         /\ recvLeft' \in 0 .. RecvTimeout /\ (recvLeft # 0 => recvLeft' = recvLeft - 1)
         /\ hbLeft' \in 0 .. Heartbeat /\ (hbLeft # 0 => hbLeft' = hbLeft - 1)
         /\ pingLeft' \in 0 .. PingMax /\ (pingLeft # 0 => pingLeft' = pingLeft - 1)
         /\ pollLeft' \in 0 .. StopPoll /\ (pollLeft # 0 => pollLeft' = pollLeft - 1)
         /\ byeLeft' \in 0 .. CloseMax /\ (byeLeft # 0 => byeLeft' = byeLeft - 1)
         /\ asked' \in 0 .. AskedMax /\ asked' <= asked + 1 /\ (~Asked => asked' = asked)
<1>1. /\ quiet' = UpTo(QuietMax, quiet) /\ lull' = UpTo(QuietMax, lull)
      /\ recvLeft' = Down(recvLeft) /\ hbLeft' = Down(hbLeft) /\ pingLeft' = Down(pingLeft)
      /\ pollLeft' = Down(pollLeft) /\ byeLeft' = Down(byeLeft)
      /\ asked' = IF Asked /\ main # "ended" THEN UpTo(AskedMax, asked) ELSE asked
  BY DEF Tick
<1>2. /\ quiet \in 0 .. QuietMax /\ lull \in 0 .. QuietMax
      /\ recvLeft \in 0 .. RecvTimeout /\ hbLeft \in 0 .. Heartbeat /\ pingLeft \in 0 .. PingMax
      /\ pollLeft \in 0 .. StopPoll /\ byeLeft \in 0 .. CloseMax /\ asked \in 0 .. AskedMax
  BY DEF Typed
<1>3. QED
  BY <1>1, <1>2, Periods DEF UpTo, Down

LEMMA TypeStep == ASSUME Typed, [Next]_vars PROVE Typed'
<1> USE DEF Typed, timers
<1>1. ASSUME NEW kind \in FrameKinds, Arrive(kind) PROVE Typed'
  BY <1>1, QueueTypes, Periods DEF Arrive
<1>2. CASE LinkChange
  BY <1>2 DEF LinkChange
<1>3. CASE WantStop
  BY <1>3 DEF WantStop
<1>4. CASE LoopTop
  BY <1>4, Periods DEF LoopTop
<1>5. CASE ReceiveFrame
  BY <1>5, QueueTypes, Periods DEF ReceiveFrame
<1>6. CASE HandleFrame
  BY <1>6 DEF HandleFrame
<1>7. CASE ReceiveTimeout
  BY <1>7 DEF ReceiveTimeout
<1>8. CASE ReceiveError
  BY <1>8 DEF ReceiveError
<1>9. CASE Leave
  BY <1>9 DEF Leave
<1>10. CASE CloseFrame
  BY <1>10, Periods DEF CloseFrame
<1>11. CASE Return
  BY <1>11 DEF Return
<1>12. CASE HbFire
  BY <1>12, Periods DEF HbFire
<1>13. CASE PingDone
  BY <1>13 DEF PingDone
<1>14. CASE HbCheck
  <2>1. UNCHANGED <<main, quiet, lull, inbox, arrivals, link, poller, want, reason, returned, timers>>
    BY <1>14 DEF HbCheck
  <2>2. hb' \in {"gone", "wait"} /\ dead' \in BOOLEAN /\ stop' \in BOOLEAN
    BY <1>14 DEF HbCheck
  <2>3. QED
    BY <2>1, <2>2
<1>15. CASE HbStop
  BY <1>15 DEF HbStop
<1>16. CASE PollFire
  BY <1>16, Periods DEF PollFire
<1>17. CASE PollStop
  BY <1>17 DEF PollStop
<1>18. CASE PollQuit
  BY <1>18 DEF PollQuit
<1>19. CASE Tick
  BY <1>19, TickTimes, Periods DEF Tick
<1>20. CASE UNCHANGED vars
  BY <1>20 DEF vars
<1>21. QED
  BY <1>1, <1>2, <1>3, <1>4, <1>5, <1>6, <1>7, <1>8, <1>9, <1>10, <1>11,
     <1>12, <1>13, <1>14, <1>15, <1>16, <1>17, <1>18, <1>19, <1>20
     DEF Next, World, Loop, HeartbeatStep, PollerStep, Terminated

LEMMA FramesStep == ASSUME Typed, FramesInv, [Next]_vars PROVE FramesInv'
<1> USE DEF FramesInv, Running
<1>1. CASE World
  BY <1>1, QueueTypes DEF World, Arrive, LinkChange, WantStop, Typed
<1>2. CASE Loop
  BY <1>2 DEF Loop, LoopTop, ReceiveFrame, HandleFrame, ReceiveTimeout, ReceiveError, Leave,
     CloseFrame, Return
<1>3. CASE HeartbeatStep
  BY <1>3 DEF HeartbeatStep, HbFire, PingDone, HbCheck, HbStop
<1>4. CASE PollerStep
  BY <1>4 DEF PollerStep, PollFire, PollStop, PollQuit
<1>5. CASE Tick
  BY <1>5 DEF Tick, Runnable
<1>6. CASE UNCHANGED vars
  BY <1>6 DEF vars
<1>7. QED
  BY <1>1, <1>2, <1>3, <1>4, <1>5, <1>6 DEF Next, Terminated

LEMMA HeartbeatKept == ASSUME Typed, HeartbeatInv, [Next]_vars PROVE HeartbeatInv'
<1> USE Periods DEF HeartbeatInv, Running, Typed
<1>1. CASE World
  BY <1>1 DEF World, Arrive, LinkChange, WantStop, timers
<1>2. CASE Loop
  BY <1>2 DEF Loop, LoopTop, ReceiveFrame, HandleFrame, ReceiveTimeout, ReceiveError, Leave,
     CloseFrame, Return, timers
<1>3. CASE HeartbeatStep
  BY <1>3 DEF HeartbeatStep, HbFire, PingDone, HbCheck, HbStop, timers
<1>4. CASE PollerStep
  BY <1>4 DEF PollerStep, PollFire, PollStop, PollQuit, timers
<1>5. CASE Tick
  <2>1. /\ hb = "wait" => hbLeft # 0
        /\ hb = "ping" => pingLeft # 0
        /\ hb # "check"
    BY <1>5 DEF Tick, Runnable
  <2>2. /\ quiet' <= quiet + 1 /\ UNCHANGED <<main, stop, hb>> /\ quiet' \in Nat
        /\ hbLeft # 0 => hbLeft' = hbLeft - 1
        /\ pingLeft # 0 => pingLeft' = pingLeft - 1
    BY <1>5, TickTimes DEF Tick
  <2>3. QED
    BY <2>1, <2>2
<1>6. CASE UNCHANGED vars
  BY <1>6 DEF vars
<1>7. QED
  BY <1>1, <1>2, <1>3, <1>4, <1>5, <1>6 DEF Next, Terminated

\* The silence a running session has seen.
LEMMA SilenceBounded ==
  ASSUME Typed, FramesInv, HeartbeatInv, Running, ~stop
  PROVE  lull <= DeadAfter + Heartbeat + PingMax
<1>1. quiet <= DeadAfter + Heartbeat + PingMax
  BY Periods DEF HeartbeatInv, Typed
<1>2. QED
  BY <1>1, Periods DEF FramesInv, Typed

LEMMA StopKept ==
  ASSUME Typed, FramesInv, HeartbeatInv, StopInv, [Next]_vars
  PROVE  StopInv'
<1> USE Periods DEF StopInv, Running, Typed
<1>1. CASE World
  <2>1. UNCHANGED <<main, stop, recvLeft>> /\ (lull' = lull \/ lull' = 0)
    BY <1>1 DEF World, Arrive, LinkChange, WantStop, timers
  <2>2. QED
    BY <2>1
<1>2. CASE Loop
  <2>1. CASE LoopTop
    BY <2>1 DEF LoopTop
  <2>2. CASE ~LoopTop
    <3>1. lull' = lull /\ (stop' => stop \/ main' = "closing")
            /\ (main' \in {"top", "recv", "got"} => main \in {"recv", "got"} /\ main' # "recv")
      BY <1>2, <2>2 DEF Loop, ReceiveFrame, HandleFrame, ReceiveTimeout, ReceiveError, Leave,
         CloseFrame, Return
    <3>2. QED
      BY <3>1
  <2>3. QED
    BY <2>1, <2>2
<1>3. CASE HeartbeatStep
  <2>1. UNCHANGED <<main, lull, recvLeft>>
    BY <1>3 DEF HeartbeatStep, HbFire, PingDone, HbCheck, HbStop, timers
  <2>2. stop => stop'
    BY <1>3 DEF HeartbeatStep, HbFire, PingDone, HbCheck, HbStop
  <2>3. CASE stop
    BY <2>1, <2>3
  <2>4. CASE ~stop
    BY <2>1, <2>4, SilenceBounded
  <2>5. QED
    BY <2>3, <2>4
<1>4. CASE PollerStep
  <2>1. UNCHANGED <<main, lull, recvLeft>>
    BY <1>4 DEF PollerStep, PollFire, PollStop, PollQuit, timers
  <2>2. CASE stop
    BY <2>1, <2>2
  <2>3. CASE ~stop
    BY <2>1, <2>3, SilenceBounded
  <2>4. QED
    BY <2>2, <2>3
<1>5. CASE Tick
  <2>1. main \notin {"top", "got"} /\ (main = "recv" => recvLeft # 0)
    BY <1>5 DEF Tick, Runnable
  <2>2. /\ lull' <= lull + 1 /\ lull' \in Nat /\ UNCHANGED <<main, stop>>
        /\ recvLeft # 0 => recvLeft' = recvLeft - 1
    BY <1>5, TickTimes DEF Tick
  <2>3. QED
    BY <2>1, <2>2
<1>6. CASE UNCHANGED vars
  BY <1>6 DEF vars
<1>7. QED
  BY <1>1, <1>2, <1>3, <1>4, <1>5, <1>6 DEF Next, Terminated

LEMMA ReasonStep == ASSUME Typed, ReasonInv, EndInv, [Next]_vars PROVE ReasonInv' /\ EndInv'
<1> USE DEF ReasonInv, EndInv, Running, Typed
<1>1. CASE World
  BY <1>1 DEF World, Arrive, LinkChange, WantStop
<1>2. CASE Loop
  BY <1>2 DEF Loop, LoopTop, ReceiveFrame, HandleFrame, ReceiveTimeout, ReceiveError, Leave,
     CloseFrame, Return
<1>3. CASE HeartbeatStep
  BY <1>3 DEF HeartbeatStep, HbFire, PingDone, HbCheck, HbStop, ConnClosed
<1>4. CASE PollerStep
  BY <1>4 DEF PollerStep, PollFire, PollStop, PollQuit
<1>5. CASE Tick
  BY <1>5 DEF Tick
<1>6. CASE UNCHANGED vars
  BY <1>6 DEF vars
<1>7. QED
  BY <1>1, <1>2, <1>3, <1>4, <1>5, <1>6 DEF Next, Terminated

\* What the loop has gone without hearing when it is left, and what Close adds.
LEMMA CloseKept ==
  ASSUME Typed, FramesInv, HeartbeatInv, StopInv, CloseInv, [Next]_vars
  PROVE  CloseInv'
<1> USE Periods DEF CloseInv, Typed
<1>1. CASE World
  <2>1. UNCHANGED <<main, hb, pingLeft, byeLeft>> /\ (lull' = lull \/ lull' = 0)
    BY <1>1 DEF World, Arrive, LinkChange, WantStop, timers
  <2>2. QED
    BY <2>1
<1>2. CASE Loop
  <2>1. Running => lull <= SilenceBound
    BY SilenceBounded DEF StopInv, Running
  <2>2. QED
    BY <1>2, <2>1 DEF Loop, LoopTop, ReceiveFrame, HandleFrame, ReceiveTimeout, ReceiveError, Leave,
       CloseFrame, Return, timers, Running
<1>3. CASE HeartbeatStep
  BY <1>3 DEF HeartbeatStep, HbFire, PingDone, HbCheck, HbStop, ConnClosed, timers
<1>4. CASE PollerStep
  <2>1. UNCHANGED <<main, hb, lull, pingLeft, byeLeft>>
    BY <1>4 DEF PollerStep, PollFire, PollStop, PollQuit, timers
  <2>2. QED
    BY <2>1
<1>5. CASE Tick
  <2>1. /\ main # "leave" /\ (main = "bye" => byeLeft # 0)
        /\ main = "closing" => hb = "ping" /\ pingLeft # 0
    BY <1>5 DEF Tick, Runnable
  <2>2. /\ lull' <= lull + 1 /\ lull' \in Nat /\ UNCHANGED <<main, hb>>
        /\ pingLeft # 0 => pingLeft' = pingLeft - 1
        /\ byeLeft # 0 => byeLeft' = byeLeft - 1
    BY <1>5, TickTimes DEF Tick
  <2>3. QED
    BY <2>1, <2>2
<1>6. CASE UNCHANGED vars
  BY <1>6 DEF vars
<1>7. QED
  BY <1>1, <1>2, <1>3, <1>4, <1>5, <1>6 DEF Next, Terminated

\* How long the wish to stop waits for the poller, for the loop and for Close.
LEMMA PromptKept ==
  ASSUME Typed, ReasonInv, EndInv, PollInv, PromptInv, [Next]_vars
  PROVE  PollInv' /\ PromptInv'
<1> USE Periods DEF PollInv, PromptInv, Typed, Running, Asked
<1>1. CASE World
  <2>1. UNCHANGED <<main, hb, poller, stop, timers>> /\ (want' = want \/ (~want /\ want'))
    BY <1>1 DEF World, Arrive, LinkChange, WantStop
  <2>2. ~want => asked = 0
    OBVIOUS
  <2>3. QED
    BY <2>1, <2>2 DEF timers
<1>2. CASE Loop
  <2>1. UNCHANGED <<hb, pingLeft, poller, pollLeft, want, asked>>
    BY <1>2 DEF Loop, LoopTop, ReceiveFrame, HandleFrame, ReceiveTimeout, ReceiveError, Leave,
       CloseFrame, Return, timers
  <2>2. CASE LoopTop
    BY <2>1, <2>2 DEF LoopTop
  <2>3. CASE ReceiveFrame \/ HandleFrame \/ ReceiveTimeout
    <3>1. Running /\ main' \in {"top", "got"} /\ UNCHANGED stop
      BY <2>3 DEF ReceiveFrame, HandleFrame, ReceiveTimeout
    <3>2. QED
      BY <2>1, <3>1
  <2>4. CASE ReceiveError
    BY <2>1, <2>4 DEF ReceiveError
  <2>5. CASE Leave
    BY <2>1, <2>5 DEF Leave
  <2>6. CASE CloseFrame
    BY <2>1, <2>6 DEF CloseFrame
  <2>7. CASE Return
    BY <2>1, <2>7 DEF Return
  <2>8. QED
    BY <1>2, <2>2, <2>3, <2>4, <2>5, <2>6, <2>7 DEF Loop
<1>3. CASE HeartbeatStep
  <2>1. UNCHANGED <<main, recvLeft, poller, pollLeft, want, asked, byeLeft>>
    BY <1>3 DEF HeartbeatStep, HbFire, PingDone, HbCheck, HbStop, timers
  <2>2. CASE HbFire
    <3>1. main = "closing" => hb' # "ping"
      BY <2>2 DEF HbFire, ConnClosed
    <3>2. QED
      BY <2>1, <2>2, <3>1 DEF HbFire
  <2>3. CASE PingDone
    BY <2>1, <2>3 DEF PingDone
  <2>4. CASE HbCheck
    <3>1. hb' # "ping" /\ hb # "ping" /\ (stop => stop')
      BY <2>4 DEF HbCheck
    <3>2. QED
      BY <2>1, <3>1
  <2>5. CASE HbStop
    BY <2>1, <2>5 DEF HbStop
  <2>6. QED
    BY <1>3, <2>2, <2>3, <2>4, <2>5 DEF HeartbeatStep
<1>4. CASE PollerStep
  <2>1. UNCHANGED <<main, hb, recvLeft, pingLeft, byeLeft, want, asked>>
    BY <1>4 DEF PollerStep, PollFire, PollStop, PollQuit, timers
  <2>2. CASE PollFire
    BY <2>1, <2>2 DEF PollFire
  <2>3. CASE PollStop
    BY <2>1, <2>3 DEF PollStop, ReasonInv
  <2>4. CASE PollQuit
    BY <2>1, <2>4 DEF PollQuit
  <2>5. QED
    BY <1>4, <2>2, <2>3, <2>4 DEF PollerStep
<1>5. CASE Tick
  <2>1. /\ main \notin {"top", "got", "leave"} /\ (main = "recv" => recvLeft # 0)
        /\ (main = "bye" => byeLeft # 0) /\ (main = "closing" => hb = "ping" /\ pingLeft # 0)
        /\ poller # "stopping" /\ (poller = "wait" => ~stop /\ pollLeft # 0)
    BY <1>5 DEF Tick, Runnable
  <2>2. /\ UNCHANGED <<main, hb, poller, want, stop>>
        /\ asked' \in Nat /\ asked' <= asked + 1 /\ (~Asked => asked' = asked)
        /\ pingLeft # 0 => pingLeft' = pingLeft - 1
        /\ byeLeft # 0 => byeLeft' = byeLeft - 1
        /\ recvLeft # 0 => recvLeft' = recvLeft - 1
        /\ pollLeft # 0 => pollLeft' = pollLeft - 1
    BY <1>5, TickTimes DEF Tick
  <2>3. PollInv'
    BY <2>1, <2>2
  <2>4. PromptInv'
    BY <2>1, <2>2
  <2>5. QED
    BY <2>3, <2>4
<1>6. CASE UNCHANGED vars
  BY <1>6 DEF vars
<1>7. QED
  BY <1>1, <1>2, <1>3, <1>4, <1>5, <1>6 DEF Next, Terminated

----------------------------------------------------------------------------
\* The invariant from which the rest follows.
THEOREM SessionInvariant == Spec => []IInv
<1>1. Init => IInv
  BY InitInv
<1>2. IInv /\ [Next]_vars => IInv'
  BY TypeStep, FramesStep, HeartbeatKept, StopKept, ReasonStep, CloseKept, PromptKept DEF IInv
<1>3. QED
  BY <1>1, <1>2, PTL DEF Spec

\* The timers of the three goroutines stay within their periods.
THEOREM SessionTypeCorrect == Spec => []TypeOK
<1>1. IInv => TypeOK
  BY TypeOKTyped DEF IInv
<1>2. QED
  BY <1>1, SessionInvariant, PTL

\* RunSession never runs longer than SilenceBound without hearing from the peer, and has
\* returned CloseBound later.
THEOREM SilenceIsBounded == Spec => []DeadPeerDropped
<1>1. IInv => DeadPeerDropped
  <2> SUFFICES ASSUME IInv PROVE DeadPeerDropped
    OBVIOUS
  <2>1. Running => lull <= SilenceBound
    <3>1. CASE ~stop
      BY <3>1, SilenceBounded, Periods DEF IInv, Typed
    <3>2. CASE stop
      BY <3>2, Periods DEF IInv, Typed, StopInv, Running
    <3>3. QED
      BY <3>1, <3>2
  <2>2. main # "ended" => lull <= SilenceBound + CloseBound
    BY <2>1, Periods DEF IInv, Typed, CloseInv, Running
  <2>3. QED
    BY <2>1, <2>2 DEF DeadPeerDropped, Running
<1>2. QED
  BY <1>1, SessionInvariant, PTL

\* A caller that asks a session to stop has RunSession's result within StopBound + CloseBound.
THEOREM StopTakesBoundedTime == Spec => []StopIsPrompt
<1>1. IInv => StopIsPrompt
  BY Periods DEF IInv, Typed, PollInv, PromptInv, StopIsPrompt, Running
<1>2. QED
  BY <1>1, SessionInvariant, PTL

\* The loop is left, and "stop" is returned, only for a reason.
THEOREM EndsForAReason == Spec => []LeavesForAReason
<1>1. IInv => LeavesForAReason
  BY DEF IInv, ReasonInv, LeavesForAReason, Running
<1>2. QED
  BY <1>1, SessionInvariant, PTL

\* The heartbeat gives up only a peer from which nothing came.
THEOREM LivePeerKept == Spec => DeadOnlyWhenSilent
<1>1. IInv /\ [Next]_vars
        => (dead' /\ ~dead /\ main \in {"top", "recv", "got"} => lull > DeadAfter \/ arrivals > 0)
  <2> SUFFICES ASSUME IInv, [Next]_vars, dead', ~dead, Running
               PROVE  lull > DeadAfter \/ arrivals > 0
    BY DEF Running
  <2>1. HbCheck
    BY DEF Next, vars, World, Arrive, LinkChange, WantStop, Loop, LoopTop, ReceiveFrame, HandleFrame,
       ReceiveTimeout, ReceiveError, Leave, CloseFrame, Return, HeartbeatStep, HbFire, PingDone,
       HbStop, PollerStep, PollFire, PollStop, PollQuit, Tick, Terminated
  <2>2. quiet > DeadAfter
    BY <2>1 DEF HbCheck
  <2>3. QED
    BY <2>2 DEF IInv, FramesInv
<1>2. QED
  BY <1>1, SessionInvariant, PTL DEF DeadOnlyWhenSilent, Spec

\* The heartbeat and the poller end with the session.
THEOREM NothingOutlivesTheSession == Spec => NoGoroutineLeak
<1>1. IInv => (Tick => main # "ended")
  BY DEF IInv, Typed, EndInv, Tick, Runnable
<1>2. QED
  BY <1>1, SessionInvariant, PTL DEF NoGoroutineLeak
=============================================================================
