----------------------------- MODULE EngineLoop -----------------------------
(***************************************************************************)
(* The bot's main loop (cmd/bot/main.go): load the account, probe its      *)
(* cookie, log in again when it expired, connect, run a session, report    *)
(* the state and the events to the gateway, back off and start over.       *)
(*                                                                         *)
(* A cookie is the number of the login that issued it (0: none).  An       *)
(* account is its cookie and whether its user id is known.  The process    *)
(* may be killed at any step and be started again; the account then comes  *)
(* from cookie.json, which os.WriteFile truncates before it writes it.  An *)
(* unreadable cookie.json counts as a missing one, as in runCli.           *)
(*                                                                         *)
(* The passport server and the network are the environment: alive holds    *)
(* the cookies the server accepts, net is "up" (both servers are reachable *)
(* and accept a valid cookie), "down", or "garbled" (something in between  *)
(* answers with a body that is not JSON).                                  *)
(***************************************************************************)
EXTENDS Integers

CONSTANTS MaxLogin,    \* bound: number of the last cookie the server issues
          StoredUid,   \* whether the account on disk at the start has its user id
          Nets         \* the states of the network

ASSUME EngineLoopAssumption ==
  /\ MaxLogin \in Nat \ {0}
  /\ StoredUid \subseteq BOOLEAN
  /\ Nets \subseteq {"up", "down", "garbled"}

Account == [cookie : 0 .. MaxLogin, uid : BOOLEAN]
Nobody == [cookie |-> 0, uid |-> FALSE]
NoFile == [missing |-> TRUE]

MinBackoff == 2
MaxBackoff == 60

VARIABLES pc,        \* where the main goroutine is
          inLoop,    \* runCli has handed over to runEngineLoop
          acc,       \* *acc, which the gateway shares
          eng,       \* the cookie and the user id the engine client uses
          new,       \* the account of the login in progress
          file,      \* cookie.json
          state,     \* the account state the gateway shows
          last,      \* the last connect or disconnect event
          after,     \* the event to emit and where to go then
          backoff,   \* seconds
          dials,     \* history: connection attempts since the loop last slept
          alive, issued, net

process == <<pc, inLoop, acc, eng, new, state, last, after, backoff, dials>>
server == <<alive, issued>>
vars == <<process, file, server, net>>

Init == /\ pc = "down"
        /\ inLoop = FALSE
        /\ acc = Nobody /\ eng = Nobody /\ new = Nobody
        /\ file \in {NoFile} \cup [cookie : {0, 1}, uid : StoredUid]
        /\ state = "offline"
        /\ last = "none"
        /\ after = [event |-> "none", goto |-> "probe"]
        /\ backoff = MinBackoff
        /\ dials = 0
        /\ alive \in SUBSET {1}
        /\ issued = 1
        /\ net \in Nets

----------------------------------------------------------------------------
(* ProbeCookie: only a request that fails is a network error; every body   *)
(* without a valid user id, JSON or not, counts as an expired session.     *)

ProbeSays(k) == IF net = "down" THEN "error"
                ELSE IF net = "up" /\ k \in alive THEN "alive" ELSE "expired"

\* setState followed by the event that reports it; other goroutines see both.
Publish(s, event, goto) ==
  /\ state' = s
  /\ after' = [event |-> event, goto |-> goto]
  /\ pc' = "emit"

Emit ==
  /\ pc = "emit"
  /\ last' = after.event
  /\ pc' = after.goto
  /\ UNCHANGED <<inLoop, acc, eng, new, state, after, backoff, dials, file, server, net>>

----------------------------------------------------------------------------
(* runCli: load the account, make sure of its cookie, build the engine.    *)

BeginLoop(a) ==
  /\ acc' = a /\ eng' = a
  /\ pc' = "probe"
  /\ inLoop' = TRUE
  /\ UNCHANGED <<new, state, last, after, backoff, dials>>

Start ==
  /\ pc = "down"
  /\ IF file = NoFile
       THEN pc' = "login" /\ acc' = Nobody
       ELSE pc' = (IF file.cookie = 0 THEN "login" ELSE "check") /\ acc' = file
  /\ UNCHANGED <<inLoop, eng, new, state, last, after, backoff, dials, file, server, net>>

Check ==
  /\ pc = "check"
  /\ IF ProbeSays(acc.cookie) = "expired"
       THEN /\ pc' = "login"
            /\ UNCHANGED <<inLoop, acc, eng, new, state, last, after, backoff, dials>>
       ELSE BeginLoop(acc)
  /\ UNCHANGED <<file, server, net>>

\* The process ends: by a signal at any step, or because the first login failed.
Exit ==
  /\ pc' = "down"
  /\ inLoop' = FALSE
  /\ acc' = Nobody /\ eng' = Nobody /\ new' = Nobody
  /\ state' = "offline" /\ last' = "none"
  /\ after' = [event |-> "none", goto |-> "probe"]
  /\ backoff' = MinBackoff
  /\ dials' = 0

Kill == pc # "down" /\ Exit /\ UNCHANGED <<file, server, net>>

----------------------------------------------------------------------------
(* loginAndSave and relogin.                                               *)

\* The loop goes to sleep, runCli gives up.
LoginFailed ==
  IF inLoop THEN /\ pc' = "wait"
                 /\ UNCHANGED <<inLoop, acc, eng, new, state, last, after, backoff, dials>>
            ELSE Exit

\* A QR code times out, a code is refused, the server cannot be reached, ...
LoginFails == pc = "login" /\ LoginFailed /\ UNCHANGED <<file, server, net>>

\* The account takes the user id as the server's reply has it, which may be not at all.
LoginSucceeds ==
  /\ pc = "login"
  /\ net = "up" /\ issued < MaxLogin
  /\ issued' = issued + 1
  /\ alive' = alive \cup {issued + 1}
  /\ new' \in [cookie : {issued + 1}, uid : BOOLEAN]
  /\ pc' = "save"
  /\ UNCHANGED <<inLoop, acc, eng, state, last, after, backoff, dials, file, net>>

\* Variant of SaveOpen: an account that cannot be saved is used all the same.
SaveOpenLenient ==
  /\ pc = "save"
  /\ \/ file' = NoFile /\ pc' = "write"
     \/ UNCHANGED file /\ pc' = "adopt"
  /\ UNCHANGED <<inLoop, acc, eng, new, state, last, after, backoff, dials, server, net>>

\* os.WriteFile opens and truncates; an error discards the login.
SaveOpen ==
  /\ pc = "save"
  /\ \/ /\ file' = NoFile
        /\ pc' = "write"
        /\ UNCHANGED <<inLoop, acc, eng, new, state, last, after, backoff, dials>>
     \/ LoginFailed /\ UNCHANGED file
  /\ UNCHANGED <<server, net>>

SaveWrite ==
  /\ pc = "write"
  /\ \/ /\ file' = new
        /\ pc' = "adopt"
        /\ UNCHANGED <<inLoop, acc, eng, new, state, last, after, backoff, dials>>
     \/ LoginFailed /\ UNCHANGED file
  /\ UNCHANGED <<server, net>>

\* *acc = *na, which the gateway sees before the engine has the new cookie.
Adopt ==
  /\ pc = "adopt"
  /\ IF inLoop
       THEN /\ acc' = new
            /\ pc' = "adoptEngine"
            /\ UNCHANGED <<inLoop, eng, new, state, last, after, backoff, dials>>
       ELSE BeginLoop(new)
  /\ UNCHANGED <<file, server, net>>

\* Variant of AdoptEngine: the engine keeps its old cookie.
AdoptEngineForgotten ==
  /\ pc = "adoptEngine"
  /\ backoff' = MinBackoff
  /\ pc' = "dial"
  /\ UNCHANGED <<inLoop, acc, eng, new, state, last, after, dials, file, server, net>>

AdoptEngine ==
  /\ pc = "adoptEngine"
  /\ eng' = new
  /\ backoff' = MinBackoff
  /\ pc' = "dial"
  /\ UNCHANGED <<inLoop, acc, new, state, last, after, dials, file, server, net>>

----------------------------------------------------------------------------
(* runEngineLoop.                                                          *)

Probe ==
  /\ pc = "probe"
  /\ IF ProbeSays(acc.cookie) = "expired"
       THEN Publish("invalid", "disconnect", "login")
       ELSE pc' = "dial" /\ UNCHANGED <<state, after>>
  /\ UNCHANGED <<inLoop, acc, eng, new, last, backoff, dials, file, server, net>>

Dial ==
  /\ pc = "dial"
  /\ state' = "connecting"
  /\ dials' = dials + 1
  /\ pc' = "connect"
  /\ UNCHANGED <<inLoop, acc, eng, new, last, after, backoff, file, server, net>>

\* Variant of ConnectFails: try again at once.
ConnectFailsRetry ==
  /\ pc = "connect"
  /\ ~eng.uid \/ net # "up" \/ eng.cookie \notin alive
  /\ Publish("offline", "disconnect", "probe")
  /\ UNCHANGED <<inLoop, acc, eng, new, last, backoff, dials, file, server, net>>

\* Connect refuses at once without a user id.  The server may turn a dead cookie down.
ConnectFails ==
  /\ pc = "connect"
  /\ ~eng.uid \/ net # "up" \/ eng.cookie \notin alive
  /\ Publish("offline", "disconnect", "wait")
  /\ UNCHANGED <<inLoop, acc, eng, new, last, backoff, dials, file, server, net>>

ConnectSucceeds ==
  /\ pc = "connect"
  /\ eng.uid /\ net = "up"
  /\ backoff' = MinBackoff
  /\ Publish("online", "connect", "session")
  /\ UNCHANGED <<inLoop, acc, eng, new, last, dials, file, server, net>>

\* Variant of SessionOver: the loop goes on without a word.
SessionOverSilently ==
  /\ pc = "session"
  /\ pc' = "rest"
  /\ UNCHANGED <<inLoop, acc, eng, new, state, last, after, backoff, dials, file, server, net>>

\* RunSession returns, for whatever reason (module Session).
SessionOver ==
  /\ pc = "session"
  /\ Publish("offline", "disconnect", "rest")
  /\ UNCHANGED <<inLoop, acc, eng, new, last, backoff, dials, file, server, net>>

CapDur(d, max) == IF d > max THEN max ELSE d

\* Variant of Wake: the backoff has no ceiling.
WakeUncapped ==
  /\ pc = "wait"
  /\ pc' = "probe"
  /\ dials' = 0
  /\ backoff' = backoff * 2
  /\ UNCHANGED <<inLoop, acc, eng, new, state, last, after, file, server, net>>

\* time.Sleep(backoff) is over.
Wake ==
  /\ pc = "wait"
  /\ pc' = "probe"
  /\ dials' = 0
  /\ backoff' = CapDur(backoff * 2, MaxBackoff)
  /\ UNCHANGED <<inLoop, acc, eng, new, state, last, after, file, server, net>>

\* The two seconds after a session are over.
Rested ==
  /\ pc = "rest"
  /\ pc' = "probe"
  /\ dials' = 0
  /\ UNCHANGED <<inLoop, acc, eng, new, state, last, after, backoff, file, server, net>>

LoopStep == \/ Check \/ SaveOpen \/ SaveWrite \/ Adopt \/ AdoptEngine
            \/ Probe \/ Dial \/ ConnectFails \/ ConnectSucceeds \/ Emit \/ Wake \/ Rested

----------------------------------------------------------------------------
Expire == \E k \in alive : /\ alive' = alive \ {k}
                           /\ UNCHANGED <<process, file, issued, net>>

NetChange == net' \in Nets \ {net} /\ UNCHANGED <<process, file, server>>

Next == \/ Start \/ LoopStep \/ LoginFails \/ LoginSucceeds \/ SessionOver \/ Kill
        \/ Expire \/ NetChange

Spec == Init /\ [][Next]_vars

(***************************************************************************)
(* Fairness: the process goes on by itself.  A login waits for a person    *)
(* and a session for its end, so neither is fair; what the environment     *)
(* must do for the account to come online is the premise of ComesOnline.   *)
(***************************************************************************)
FairSpec == Spec /\ WF_vars(LoopStep)

----------------------------------------------------------------------------
(* Properties.                                                             *)

\* Types; the backoff is one of the six values the doubling under a ceiling gives.
TypeOK ==
  /\ pc \in {"down", "check", "login", "save", "write", "adopt", "adoptEngine", "probe",
             "emit", "dial", "connect", "session", "wait", "rest"}
  /\ inLoop \in BOOLEAN
  /\ {acc, eng, new} \subseteq Account
  /\ file \in Account \cup {NoFile}
  /\ state \in {"offline", "connecting", "online", "invalid"}
  /\ last \in {"none", "connect", "disconnect"}
  /\ after \in [event : {"none", "connect", "disconnect"},
                goto : {"probe", "login", "wait", "session", "rest"}]
  /\ backoff \in {2, 4, 8, 16, 32, 60}
  /\ dials \in Nat
  /\ alive \subseteq 1 .. issued
  /\ issued \in 1 .. MaxLogin
  /\ net \in Nets

\* Whoever polls the state and whoever follows the events learn the same: outside the
\* instant between the two, "online" is shown exactly when the last event was a connect,
\* and exactly while a session runs.
StateMatchesEvents ==
  pc # "emit" => /\ state = "online" <=> last = "connect"
                 /\ state = "online" <=> pc = "session"

\* The gateway (through acc) and the engine never work for different logins, but for the
\* moment in which relogin replaces both.
OneAccount == inLoop /\ pc # "adoptEngine" => acc = eng

\* A login is on disk before it is used: a restart never falls back to an older cookie.
\* (A write that failed half-way leaves no account at all.)
DiskNotBehind == inLoop /\ file # NoFile => eng.cookie <= file.cookie

\* The sessions of the loop, as the promise of a login sees them.
Credentials == INSTANCE Credentials WITH
  User   <- {"gateway", "engine"},
  stored <- IF file = NoFile THEN 0 ELSE file.cookie,
  used   <- [u \in {"gateway", "engine"} |-> IF u = "gateway" THEN acc.cookie ELSE eng.cookie]

\* Through kills, failed writes and relogins: gateway and engine turn to a cookie only once
\* it is on disk, and only a newer one than both use is put there (main.go:160, 365).
ImplementsCredentials == Credentials!Spec

\* The loop sleeps between any two connection attempts, however they fail.
NoBusyReconnect == dials <= 1

\* Once the network stays up, the process is left alone and the account keeps a valid cookie
\* and its user id, it is online again and again, whatever happened before: unless a login
\* that began earlier waits for its person for ever.
ComesOnline ==
  /\ <>[](net = "up" /\ pc # "down" /\ acc.cookie \in alive /\ acc.uid)
  /\ []<>(pc # "login")
  => []<>(state = "online")

\* What the README says of the start (README.md:23: probe the cookie, log in again if it
\* expired, connect) and of the user id (54: filled in by the login): with a cookie the server
\* accepts and a network that stays up the account comes online.
ValidCookieComesOnline ==
  /\ <>[](net = "up" /\ pc # "down" /\ acc.cookie \in alive)
  /\ []<>(pc # "login")
  => []<>(state = "online")

\* What the comment on ProbeResult.Expired promises: a person is asked to log in again
\* only when the session did expire.
ReloginOnlyIfExpired == inLoop /\ pc = "login" => acc.cookie \notin alive

=============================================================================
