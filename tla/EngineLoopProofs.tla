-------------------------- MODULE EngineLoopProofs --------------------------
(***************************************************************************)
(* The safety properties of the main loop, proved for every number of      *)
(* logins, every state of the network and every account on disk.           *)
(***************************************************************************)
EXTENDS EngineLoop, TLAPS

\* Which steps belong to runEngineLoop, and which to runCli before it.
PhaseInv ==
  /\ pc \in {"down", "check"} => ~inLoop
  /\ pc \in {"probe", "emit", "dial", "connect", "session", "wait", "rest", "adoptEngine"}
       => inLoop

\* No account holds a cookie that was not issued yet.
IssuedInv ==
  /\ acc.cookie <= issued /\ eng.cookie <= issued /\ new.cookie <= issued
  /\ file # NoFile => file.cookie <= issued

\* What the steps of a login have achieved so far.
LoginInv ==
  /\ pc = "check" => file = acc
  /\ pc \in {"save", "write"} => /\ new.cookie = issued
                                 /\ acc.cookie < issued /\ eng.cookie < issued
                                 /\ file # NoFile => file.cookie < issued
  /\ pc = "write" => file = NoFile
  /\ pc \in {"adopt", "adoptEngine"} => file = new
  /\ pc = "adoptEngine" => acc = new

\* What Emit is about to say fits the state already shown.
EmitInv ==
  pc = "emit" => /\ after.goto # "probe"
                 /\ state = "online" <=> after.event = "connect"
                 /\ state = "online" <=> after.goto = "session"

\* The loop has slept since its last attempt whenever it heads for the next one.
DialInv ==
  /\ dials <= 1
  /\ (pc \notin {"emit", "connect", "session", "wait", "rest"}
        \/ (pc = "emit" /\ after.goto = "login")) => dials = 0

IInv == /\ TypeOK /\ PhaseInv /\ IssuedInv /\ LoginInv /\ EmitInv /\ DialInv
        /\ StateMatchesEvents /\ OneAccount /\ DiskNotBehind

USE DEF process, server, vars, MinBackoff

\* The constants' types, the account records' fields and that no file is not an account.
LEMMA Basics ==
  /\ MaxLogin \in Nat \ {0}
  /\ Nobody \in Account /\ Nobody.cookie = 0
  /\ \A a \in Account : a.cookie \in 0 .. MaxLogin /\ a # NoFile
BY EngineLoopAssumption DEF EngineLoopAssumption, Nobody, Account, NoFile

LEMMA InitInv == Init => IInv
<1> SUFFICES ASSUME Init PROVE IInv
  OBVIOUS
<1>1. file # NoFile => file \in Account /\ file.cookie <= 1
  BY Basics, EngineLoopAssumption DEF Init, Account, EngineLoopAssumption
<1>2. TypeOK
  <2>1. file \in Account \cup {NoFile}
    BY <1>1
  <2>2. {acc, eng, new} \subseteq Account
    BY Basics DEF Init
  <2>3. after \in [event : {"none", "connect", "disconnect"},
                   goto : {"probe", "login", "wait", "session", "rest"}]
    BY DEF Init
  <2>4. issued \in 1 .. MaxLogin /\ alive \subseteq 1 .. issued
    BY Basics DEF Init
  <2>5. QED
    BY <2>1, <2>2, <2>3, <2>4 DEF Init, TypeOK
<1>3. PhaseInv /\ LoginInv /\ EmitInv /\ DialInv
  BY DEF Init, PhaseInv, LoginInv, EmitInv, DialInv
<1>4. IssuedInv
  BY Basics, <1>1 DEF Init, IssuedInv
<1>5. StateMatchesEvents /\ OneAccount /\ DiskNotBehind
  BY DEF Init, StateMatchesEvents, OneAccount, DiskNotBehind
<1>6. QED
  BY <1>2, <1>3, <1>4, <1>5 DEF IInv

\* A process that ends leaves the file alone and forgets the rest.
LEMMA ExitInv == IInv /\ Exit /\ UNCHANGED <<file, server, net>> => IInv'
<1> SUFFICES ASSUME IInv, Exit, UNCHANGED <<file, server, net>> PROVE IInv'
  OBVIOUS
<1>1. TypeOK'
  <2>1. {acc', eng', new'} \subseteq Account
    BY Basics DEF Exit
  <2>2. after' \in [event : {"none", "connect", "disconnect"},
                    goto : {"probe", "login", "wait", "session", "rest"}]
    BY DEF Exit
  <2>3. /\ file' \in Account \cup {NoFile} /\ alive' \subseteq 1 .. issued'
        /\ issued' \in 1 .. MaxLogin /\ net' \in Nets
    BY DEF IInv, TypeOK
  <2>4. QED
    BY <2>1, <2>2, <2>3 DEF Exit, TypeOK
<1>2. (PhaseInv /\ LoginInv /\ EmitInv /\ DialInv)'
  BY DEF Exit, PhaseInv, LoginInv, EmitInv, DialInv
<1>3. IssuedInv'
  BY Basics DEF Exit, IssuedInv, IInv, TypeOK
<1>4. (StateMatchesEvents /\ OneAccount /\ DiskNotBehind)'
  BY DEF Exit, StateMatchesEvents, OneAccount, DiskNotBehind
<1>5. QED
  BY <1>1, <1>2, <1>3, <1>4 DEF IInv

LEMMA StepInv == IInv /\ [Next]_vars => IInv'
<1> SUFFICES ASSUME IInv, [Next]_vars PROVE IInv'
  OBVIOUS
<1> USE Basics DEF IInv, TypeOK, PhaseInv, IssuedInv, LoginInv, EmitInv, DialInv,
                   StateMatchesEvents, OneAccount, DiskNotBehind
<1>1. CASE Start
  BY <1>1 DEF Start
<1>2. CASE Check
  <2>1. CASE ProbeSays(acc.cookie) = "expired"
    BY <1>2, <2>1 DEF Check
  <2>2. CASE ProbeSays(acc.cookie) # "expired"
    BY <1>2, <2>2 DEF Check, BeginLoop
  <2>3. QED
    BY <2>1, <2>2
<1>3. CASE LoginFails
  <2>1. CASE inLoop
    BY <1>3, <2>1 DEF LoginFails, LoginFailed
  <2>2. CASE ~inLoop
    BY <1>3, <2>2, ExitInv DEF LoginFails, LoginFailed
  <2>3. QED
    BY <2>1, <2>2
<1>4. CASE LoginSucceeds
  <2>1. new' \in Account /\ new'.cookie = issued + 1
    BY <1>4 DEF LoginSucceeds, Account
  <2>2. TypeOK'
    BY <1>4, <2>1 DEF LoginSucceeds
  <2>3. IssuedInv'
    BY <1>4, <2>1 DEF LoginSucceeds
  <2>4. (PhaseInv /\ LoginInv /\ EmitInv /\ DialInv)'
    BY <1>4 DEF LoginSucceeds
  <2>5. (StateMatchesEvents /\ OneAccount /\ DiskNotBehind)'
    BY <1>4 DEF LoginSucceeds
  <2>6. QED
    BY <2>2, <2>3, <2>4, <2>5
<1>5. CASE SaveOpen
  <2>1. CASE pc' = "write"
    BY <1>5, <2>1 DEF SaveOpen, LoginFailed, Exit
  <2>2. CASE LoginFailed /\ UNCHANGED <<file, server, net>>
    <3>1. CASE inLoop
      BY <1>5, <2>2, <3>1 DEF SaveOpen, LoginFailed
    <3>2. CASE ~inLoop
      BY <2>2, <3>2, ExitInv DEF LoginFailed
    <3>3. QED
      BY <3>1, <3>2
  <2>3. QED
    BY <1>5, <2>1, <2>2 DEF SaveOpen
<1>6. CASE SaveWrite
  <2>1. CASE pc' = "adopt"
    BY <1>6, <2>1 DEF SaveWrite, LoginFailed, Exit
  <2>2. CASE LoginFailed /\ UNCHANGED <<file, server, net>>
    <3>1. CASE inLoop
      BY <1>6, <2>2, <3>1 DEF SaveWrite, LoginFailed
    <3>2. CASE ~inLoop
      BY <2>2, <3>2, ExitInv DEF LoginFailed
    <3>3. QED
      BY <3>1, <3>2
  <2>3. QED
    BY <1>6, <2>1, <2>2 DEF SaveWrite
<1>7. CASE Adopt
  <2>1. CASE inLoop
    BY <1>7, <2>1 DEF Adopt
  <2>2. CASE ~inLoop
    BY <1>7, <2>2 DEF Adopt, BeginLoop
  <2>3. QED
    BY <2>1, <2>2
<1>8. CASE AdoptEngine
  BY <1>8 DEF AdoptEngine
<1>9. CASE Probe
  BY <1>9 DEF Probe, Publish, ProbeSays
<1>10. CASE Dial
  BY <1>10 DEF Dial
<1>11. CASE ConnectFails
  BY <1>11 DEF ConnectFails, Publish
<1>12. CASE ConnectSucceeds
  BY <1>12 DEF ConnectSucceeds, Publish
<1>13. CASE Emit
  BY <1>13 DEF Emit
<1>14. CASE Wake
  BY <1>14 DEF Wake, CapDur, MaxBackoff
<1>15. CASE Rested
  BY <1>15 DEF Rested
<1>16. CASE SessionOver
  BY <1>16 DEF SessionOver, Publish
<1>17. CASE Kill
  BY <1>17, ExitInv DEF Kill
<1>18. CASE Expire
  BY <1>18 DEF Expire
<1>19. CASE NetChange
  BY <1>19 DEF NetChange
<1>20. CASE UNCHANGED vars
  BY <1>20
<1>21. QED
  BY <1>1, <1>2, <1>3, <1>4, <1>5, <1>6, <1>7, <1>8, <1>9, <1>10,
     <1>11, <1>12, <1>13, <1>14, <1>15, <1>16, <1>17, <1>18, <1>19, <1>20
  DEF Next, LoopStep

\* Every reachable state satisfies the inductive invariant.
THEOREM LoopInvariant == Spec => []IInv
<1>1. Init => IInv
  BY InitInv
<1>2. IInv /\ [Next]_vars => IInv'
  BY StepInv
<1>3. QED
  BY <1>1, <1>2, PTL DEF Spec

\* Types and the six backoff values, for any number of logins.
THEOREM LoopTypeCorrect == Spec => []TypeOK
<1>1. IInv => TypeOK
  BY DEF IInv
<1>2. QED
  BY <1>1, LoopInvariant, PTL

\* The polled state and the last event always agree once the event is out.
THEOREM StateAndEventsAgree == Spec => []StateMatchesEvents
<1>1. IInv => StateMatchesEvents
  BY DEF IInv
<1>2. QED
  BY <1>1, LoopInvariant, PTL

\* Gateway and engine use the same login outside the assignment in relogin.
THEOREM AlwaysOneAccount == Spec => []OneAccount
<1>1. IInv => OneAccount
  BY DEF IInv
<1>2. QED
  BY <1>1, LoopInvariant, PTL

\* No restart falls back to an older login than the one in use.
THEOREM DiskNeverBehind == Spec => []DiskNotBehind
<1>1. IInv => DiskNotBehind
  BY DEF IInv
<1>2. QED
  BY <1>1, LoopInvariant, PTL

\* Between two connection attempts the loop has slept.
THEOREM AttemptsAreSpaced == Spec => []NoBusyReconnect
<1>1. IInv => NoBusyReconnect
  BY DEF IInv, DialInv, NoBusyReconnect
<1>2. QED
  BY <1>1, LoopInvariant, PTL

----------------------------------------------------------------------------
\* The promise of a login.

Stored == IF file = NoFile THEN 0 ELSE file.cookie
Used == [u \in {"gateway", "engine"} |-> IF u = "gateway" THEN acc.cookie ELSE eng.cookie]

\* Who turns to what is on disk, or to no session, does what Use or Forget allows.
LEMMA Turning ==
  ASSUME NEW U \in SUBSET {"gateway", "engine"}, NEW k,
         k = 0 \/ k = Stored,
         acc'.cookie = IF "gateway" \in U THEN k ELSE acc.cookie,
         eng'.cookie = IF "engine" \in U THEN k ELSE eng.cookie,
         UNCHANGED <<issued, file>>
  PROVE  Credentials!Next
<1>1. Used' = [u \in {"gateway", "engine"} |-> IF u \in U THEN k ELSE Used[u]]
  BY DEF Used
<1>2. Credentials!Turn(U, k)
  BY <1>1 DEF Used, Credentials!Turn
<1>3. UNCHANGED <<issued, Stored>>
  BY DEF Stored
<1>4. CASE k = 0
  BY <1>2, <1>3, <1>4 DEF Credentials!Next, Credentials!Forget, Stored
<1>5. CASE k # 0
  <2>1. k = Stored
    BY <1>5
  <2>2. Stored # 0 /\ Credentials!Turn(U, Stored)
    BY <1>2, <1>5, <2>1 DEF Credentials!Turn
  <2>3. Credentials!Use
    BY <1>3, <2>2 DEF Credentials!Use, Stored
  <2>4. QED
    BY <2>3 DEF Credentials!Next
<1>6. QED
  BY <1>4, <1>5

\* What touches neither the accounts nor the file is no step of the promise.
LEMMA Unseen ==
  ASSUME UNCHANGED <<acc, eng, file, issued>>
  PROVE  UNCHANGED Credentials!credentials
BY DEF Credentials!credentials

\* A process that ends has no session.
LEMMA ExitForgets ==
  ASSUME Exit, UNCHANGED <<file, issued>>
  PROVE  Credentials!Next
<1>1. acc'.cookie = 0 /\ eng'.cookie = 0
  BY DEF Exit, Nobody
<1>2. QED
  BY <1>1, Turning, {"gateway", "engine"} \in SUBSET {"gateway", "engine"}

LEMMA FailureImplements ==
  ASSUME LoginFailed, UNCHANGED <<file, issued>>
  PROVE  [Credentials!Next]_(Credentials!credentials)
<1>1. CASE inLoop
  BY <1>1, Unseen DEF LoginFailed
<1>2. CASE ~inLoop
  BY <1>2, ExitForgets DEF LoginFailed
<1>3. QED
  BY <1>1, <1>2

\* Opening the file for writing loses what is in it, writing it saves the new session.
LEMMA SavingImplements ==
  ASSUME IInv, SaveOpen \/ SaveWrite
  PROVE  [Credentials!Next]_(Credentials!credentials)
<1> USE DEF IInv
<1>1. CASE SaveOpen
  <2>1. CASE file' = NoFile /\ UNCHANGED <<acc, eng, issued>>
    <3>1. Credentials!Lose
      BY <2>1 DEF Credentials!Lose
    <3>2. QED
      BY <3>1 DEF Credentials!Next
  <2>2. CASE LoginFailed /\ UNCHANGED <<file, issued>>
    BY <2>2, FailureImplements
  <2>3. QED
    BY <1>1, <2>1, <2>2 DEF SaveOpen
<1>2. CASE SaveWrite
  <2>1. CASE file' = new /\ UNCHANGED <<acc, eng, issued>>
    <3>1. pc = "write" /\ file = NoFile /\ new.cookie = issued /\ new # NoFile
          /\ acc.cookie < issued /\ eng.cookie < issued
          /\ issued \in 1 .. issued /\ issued > 0
      BY <1>2, Basics DEF SaveWrite, LoginInv, TypeOK
    <3>2. Stored = 0 /\ Stored' = issued /\ \A u \in {"gateway", "engine"} : issued > Used[u]
      BY <2>1, <3>1 DEF Stored, Used
    <3>3. Credentials!Turn({}, issued)
      BY <2>1 DEF Credentials!Turn
    <3>4. Credentials!Save
      <4>1. UNCHANGED issued /\ {} \in SUBSET {"gateway", "engine"}
        BY <2>1
      <4>2. 0 < issued /\ issued > Stored
        BY <3>1, <3>2
      <4>3. QED
        <5>1. Used' = [u \in {"gateway", "engine"} |-> IF u \in {} THEN issued ELSE Used[u]]
          BY <3>3 DEF Used, Credentials!Turn
        <5>2. \E k \in 1 .. issued :
                /\ k > Stored /\ \A u \in {"gateway", "engine"} : k > Used[u]
                /\ Stored' = k
                /\ \E U \in SUBSET {"gateway", "engine"} :
                      Used' = [u \in {"gateway", "engine"} |-> IF u \in U THEN k ELSE Used[u]]
          BY <3>1, <3>2, <4>1, <4>2, <5>1
        <5>3. QED
          BY <4>1, <5>2 DEF Credentials!Save, Credentials!Turn, Stored, Used
    <3>5. QED
      BY <3>4 DEF Credentials!Next
  <2>2. CASE LoginFailed /\ UNCHANGED <<file, issued>>
    BY <2>2, FailureImplements
  <2>3. QED
    BY <1>2, <2>1, <2>2 DEF SaveWrite
<1>3. QED
  BY <1>1, <1>2

LEMMA StepImplements ==
  ASSUME IInv, [Next]_vars
  PROVE  [Credentials!Next]_(Credentials!credentials)
<1> USE DEF IInv, TypeOK
<1>1. CASE Start
  <2>1. CASE file = NoFile
    <3>1. acc'.cookie = 0 /\ eng' = eng /\ UNCHANGED <<issued, file>>
      BY <1>1, <2>1 DEF Start, Nobody
    <3>2. QED
      BY <3>1, Turning, {"gateway"} \in SUBSET {"gateway", "engine"}
  <2>2. CASE file # NoFile
    <3>1. acc' = file /\ eng' = eng /\ Stored = file.cookie /\ UNCHANGED <<issued, file>>
      BY <1>1, <2>2 DEF Start, Stored
    <3>2. QED
      BY <3>1, Turning, {"gateway"} \in SUBSET {"gateway", "engine"}
  <2>3. QED
    BY <2>1, <2>2
<1>2. CASE Check
  <2>1. CASE UNCHANGED <<acc, eng, file, issued>>
    BY <2>1, Unseen
  <2>2. CASE BeginLoop(acc) /\ UNCHANGED <<file, issued>>
    <3>1. file = acc /\ file # NoFile /\ Stored = acc.cookie
      BY <1>2, Basics DEF Check, LoginInv, Stored
    <3>2. acc' = acc /\ eng' = acc
      BY <2>2 DEF BeginLoop
    <3>3. QED
      BY <2>2, <3>1, <3>2, Turning, {"engine"} \in SUBSET {"gateway", "engine"}
  <2>3. QED
    BY <1>2, <2>1, <2>2 DEF Check
<1>3. CASE LoginFails
  BY <1>3, FailureImplements DEF LoginFails
<1>4. CASE LoginSucceeds
  <2>1. Credentials!Issue
    BY <1>4 DEF LoginSucceeds, Credentials!Issue
  <2>2. QED
    BY <2>1 DEF Credentials!Next
<1>5. CASE SaveOpen \/ SaveWrite
  BY <1>5, SavingImplements
<1>6. CASE Adopt
  <2>1. file = new /\ file # NoFile /\ Stored = new.cookie /\ UNCHANGED <<file, issued>>
    BY <1>6, Basics DEF Adopt, LoginInv, Stored
  <2>2. CASE inLoop
    <3>1. acc' = new /\ eng' = eng
      BY <1>6, <2>2 DEF Adopt
    <3>2. QED
      BY <2>1, <3>1, Turning, {"gateway"} \in SUBSET {"gateway", "engine"}
  <2>3. CASE ~inLoop
    <3>1. acc' = new /\ eng' = new
      BY <1>6, <2>3 DEF Adopt, BeginLoop
    <3>2. QED
      BY <2>1, <3>1, Turning, {"gateway", "engine"} \in SUBSET {"gateway", "engine"}
  <2>4. QED
    BY <2>2, <2>3
<1>7. CASE AdoptEngine
  <2>1. file = new /\ file # NoFile /\ Stored = new.cookie /\ acc' = acc /\ eng' = new
        /\ UNCHANGED <<file, issued>>
    BY <1>7, Basics DEF AdoptEngine, LoginInv, Stored
  <2>2. QED
    BY <2>1, Turning, {"engine"} \in SUBSET {"gateway", "engine"}
<1>8. CASE Probe \/ Dial \/ ConnectFails \/ ConnectSucceeds \/ Emit \/ Wake \/ Rested \/ SessionOver
           \/ Expire \/ NetChange \/ UNCHANGED vars
  <2>1. UNCHANGED <<acc, eng, file, issued>>
    BY <1>8 DEF Probe, Dial, ConnectFails, ConnectSucceeds, Emit, Wake, Rested, SessionOver, Expire, NetChange
  <2>2. QED
    BY <2>1, Unseen
<1>9. CASE Kill
  BY <1>9, ExitForgets DEF Kill
<1>10. QED
  BY <1>1, <1>2, <1>3, <1>4, <1>5, <1>6, <1>7, <1>8, <1>9 DEF Next, LoopStep

LEMMA InitImplements == Init => Credentials!Init
<1> SUFFICES ASSUME Init PROVE Credentials!Init
  OBVIOUS
<1>1. issued \in Nat /\ Stored \in 0 .. issued
  BY InitInv, Basics DEF Init, IInv, IssuedInv, TypeOK, Stored
<1>2. Used = [u \in {"gateway", "engine"} |-> 0]
  BY Basics DEF Init, Used
<1>3. QED
  BY <1>1, <1>2 DEF Credentials!Init, Stored, Used

\* The loop and its relogin keep the promise of a login, step by step.
THEOREM LoopImplementsCredentials == Spec => ImplementsCredentials
<1>1. Init => Credentials!Init
  BY InitImplements
<1>2. IInv /\ [Next]_vars => [Credentials!Next]_(Credentials!credentials)
  BY StepImplements
<1>3. QED
  BY <1>1, <1>2, LoopInvariant, PTL DEF Spec, ImplementsCredentials, Credentials!Spec

----------------------------------------------------------------------------
\* What of ComesOnline is safety: nothing keeps an account with a valid cookie and its user
\* id offline, whatever became of file, network and logins before.

Stable == net = "up" /\ pc # "down" /\ acc.cookie \in alive /\ acc.uid

\* How many steps of the loop are left at most until it shows "online".
Distance == CASE pc = "session" -> 0
              [] pc = "emit" -> CASE after.goto = "session" -> 0
                                  [] after.goto = "login"   -> 8
                                  [] OTHER                  -> 5
              [] pc = "login" -> 7
              [] pc = "save"  -> 6
              [] pc = "write" -> 5
              [] pc \in {"check", "wait", "rest", "adopt"} -> 4
              [] pc \in {"probe", "adoptEngine"} -> 3
              [] pc = "dial" -> 2
              [] OTHER -> 1

\* What is shown as online is so, and who is about to connect will be let in.
OnTheWay ==
  /\ state = "online" <=> Distance = 0
  /\ pc = "connect" => eng.uid /\ eng.cookie \in alive

\* Every step of the process, those of a person and of the server in a login included.
ComesNearer ==
  [][Stable /\ Stable' /\ state # "online" /\ process' # process => Distance' < Distance]_vars

\* Who has no user id is not let in, with whatever cookie.
OnlyWithUid == state = "online" => acc.uid

LEMMA Underway ==
  ASSUME IInv, Stable
  PROVE  OnTheWay
<1> USE DEF IInv, Stable
<1>1. pc = "connect" => eng.uid /\ eng.cookie \in alive
  BY DEF PhaseInv, OneAccount
<1>2. state = "online" <=> Distance = 0
  <2>1. CASE pc = "emit"
    BY <2>1 DEF Distance, EmitInv
  <2>2. CASE pc # "emit"
    BY <2>2 DEF Distance, StateMatchesEvents
  <2>3. QED
    BY <2>1, <2>2
<1>3. QED
  BY <1>1, <1>2 DEF OnTheWay

LEMMA Approach ==
  ASSUME IInv, Stable, Stable', state # "online", process' # process, Next
  PROVE  Distance' < Distance
<1>1. OnTheWay
  BY Underway
<1> USE DEF OnTheWay, Stable
<1>2. CASE Check
  BY <1>2 DEF Check, BeginLoop, Distance, ProbeSays
<1>3. CASE LoginFails
  BY <1>3 DEF LoginFails, LoginFailed, Exit, Distance
<1>4. CASE LoginSucceeds
  BY <1>4 DEF LoginSucceeds, Distance
<1>5. CASE SaveOpen
  BY <1>5 DEF SaveOpen, LoginFailed, Exit, Distance
<1>6. CASE SaveWrite
  BY <1>6 DEF SaveWrite, LoginFailed, Exit, Distance
<1>7. CASE Adopt
  BY <1>7 DEF Adopt, BeginLoop, Distance
<1>8. CASE AdoptEngine
  BY <1>8 DEF AdoptEngine, Distance
<1>9. CASE Probe
  BY <1>9 DEF Probe, Distance, ProbeSays
<1>10. CASE Dial
  BY <1>10 DEF Dial, Distance
<1>11. CASE ConnectFails
  BY <1>1, <1>11 DEF ConnectFails
<1>12. CASE ConnectSucceeds
  BY <1>12 DEF ConnectSucceeds, Publish, Distance
<1>13. CASE Emit
  <2>1. after.goto \in {"wait", "rest", "login"} /\ pc' = after.goto
    BY <1>1, <1>13 DEF Emit, Distance, IInv, EmitInv, TypeOK
  <2>2. QED
    BY <1>13, <2>1 DEF Emit, Distance
<1>14. CASE Wake \/ Rested
  BY <1>14 DEF Wake, Rested, Distance
<1>15. CASE SessionOver
  BY <1>1, <1>15 DEF SessionOver, Distance
<1>16. CASE Kill \/ Start
  BY <1>16 DEF Kill, Exit, Start
<1>17. CASE Expire \/ NetChange
  BY <1>17 DEF Expire, NetChange
<1>18. QED
  BY <1>2, <1>3, <1>4, <1>5, <1>6, <1>7, <1>8, <1>9, <1>10, <1>11, <1>12, <1>13, <1>14, <1>15, <1>16,
     <1>17 DEF Next, LoopStep

LEMMA UidStep == IInv /\ OnlyWithUid /\ [Next]_vars => OnlyWithUid'
<1> SUFFICES ASSUME IInv, OnlyWithUid, [Next]_vars, state' = "online" PROVE acc'.uid
  BY DEF OnlyWithUid
<1> USE DEF IInv, OnlyWithUid
<1>1. CASE ConnectSucceeds
  BY <1>1 DEF ConnectSucceeds, PhaseInv, OneAccount
<1>2. CASE UNCHANGED <<acc, state>>
  BY <1>2
<1>3. CASE Adopt \/ Start \/ Check
  BY <1>3 DEF Adopt, Start, Check, BeginLoop, StateMatchesEvents
<1>4. CASE Dial \/ ConnectFails \/ SessionOver
  BY <1>4 DEF Dial, ConnectFails, SessionOver, Publish
<1>5. CASE LoginFails \/ SaveOpen \/ SaveWrite \/ Kill
  BY <1>5 DEF LoginFails, SaveOpen, SaveWrite, Kill, LoginFailed, Exit
<1>6. Probe => UNCHANGED <<acc, state>> \/ (state' = "invalid" /\ acc' = acc)
  BY DEF Probe, Publish
<1>7. LoginSucceeds \/ AdoptEngine \/ Emit \/ Wake \/ Rested \/ Expire \/ NetChange \/ UNCHANGED vars
      => UNCHANGED <<acc, state>>
  BY DEF LoginSucceeds, AdoptEngine, Emit, Wake, Rested, Expire, NetChange
<1>8. QED
  BY <1>1, <1>2, <1>3, <1>4, <1>5, <1>6, <1>7 DEF Next, LoopStep

\* While the network is up and the account keeps a valid cookie and its user id, every step
\* the process takes brings it nearer to being online, wherever it was and whatever is on
\* disk; and no account is ever online without its user id.
THEOREM NothingInTheWay == Spec => [](Stable => OnTheWay) /\ ComesNearer /\ []OnlyWithUid
<1>1. Init => OnlyWithUid
  BY DEF Init, OnlyWithUid
<1>2. IInv /\ OnlyWithUid /\ [Next]_vars => OnlyWithUid'
  BY UidStep
<1>3. IInv => (Stable => OnTheWay)
  BY Underway
<1>4. IInv /\ [Next]_vars
        => [Stable /\ Stable' /\ state # "online" /\ process' # process => Distance' < Distance]_vars
  BY Approach
<1>5. QED
  BY <1>1, <1>2, <1>3, <1>4, LoopInvariant, PTL DEF Spec, ComesNearer

============================================================================
