# A TLA+ model of jumpbyte-bot

jumpbyte-bot is a Go process that keeps one Douyin account online in the IM service,
publishes what happens there as events, and offers an HTTP API to send messages.
These modules model its concurrent and fault-handling core and the pure code that reads
frames and videos, TLC checks them on small instances, and TLAPS proves the safety of seven
of them, and the wire codec, for every instance.
`PROJECT.json` maps each definition to the lines it stands for and lists runs, mutants,
hazards, findings and theorems.

## The system and its parts

One process (`cmd/bot/main.go`) loads an account, logs in when it must, and then runs a
loop: probe the cookie, connect, run a session until it ends, wait, start over. A session
receives frames, from which chats are extracted and handed to the gateway as events. The
gateway serves subscribers over WebSockets and API calls over HTTP; those calls use the
same engine client to send.

    main loop --probe/login--> passport server          API request, terminal
       |  \--state, events--> gateway --queues--> subscribers    |
       |                        ^   \--shared *Account           | dispatchSend
       v                        |                                v
    RunSession --collectChat--> events             sendViaWS / sendIMAPI
       |                                                         |
       +---------------------- WsConn (one per session, one per WS send)

| Component (source) | State it keeps | Operations | What is hard, and what makes it correct |
|---|---|---|---|
| IM connection (`engine/wsconn.go`) | socket, channel `msgs`, `done`, `closed`, `closeErr`, `writeMu` | reader, Receive, Send, Ping, Close | Reader, owner and pinger close and use it at once. No frame is lost, reordered or duplicated; the end is reported after the last frame; `done` is closed once; Close always gets through |
| Session loop (`engine/client.go` RunSession) | `lastRecv`, `reason`, channel `stop`, two tickers | receive loop, heartbeat, stop poller | Timers of three goroutines race. A dead peer is dropped in bounded time, a lively one is not, the result names the cause, no goroutine stays |
| Frame parsing, short-id cache (`engine/client.go` collectChat, handleIncoming) | `shortIDs` | extract chats, remember ids | The decoder guesses, and may give up half-way; a frame may hold several conversations. Events are true of their messages; of a frame of one conversation the id stored is its own |
| Wire codec (`engine/proto.go`) | none | encode and decode fields and varints | Truncated and oversized input. Decoding inverts encoding where the guess can be right; a cut disturbs no field in front of it |
| WebSocket send (`engine/wssend.go`) | one connection per message | build, send, wait for the acknowledgement | Other traffic, a deadline and a broken link meet the acknowledgement. The result is true of the message, and comes in time |
| HTTP send and actions (`engine/httpsend.go`, `imactions.go`) | none of its own | send, recall, react | A reply that cannot be read. An error-free send was accepted |
| Uploads (`engine/upload.go`, `video.go`) | one request chain | apply, parts, finish, commit | A failure half-way. All bytes are sent once, in order, and committed last |
| Conversation list, play addresses (`convlist.go`, `videoplay.go`) | none | one request each | Parsing |
| Event hub (`gateway/gateway.go`) | registries, one queue and writer per subscriber | register, push, broadcast, ping, Stop | Two goroutines push to a full queue; subscribers come and go under a broadcast. Order is kept, losses are accounted for, the engine never blocks, nothing is left behind |
| HTTP API (`gateway/gateway.go`) | current state, shared `*Account` | about 20 actions, token check, `/health` | The account is replaced under it. Conversation and short id belong together |
| Main loop and relogin (`cmd/bot/main.go`) | backoff, engine credentials, account | start, probe, login, connect, run, back off | Expiry, failing logins and writes, kills at any point. State and events agree, one account everywhere, comes online again, does not hammer the server |
| Account file (`config/config.go`) | `cookie.json` | load (3 layouts), save | A crash in the middle of a write |
| Login (`login/*.go`) | cookie jar, ticket | QR polling, SMS, second factor | Expiring codes, redirects, polling against a person |
| Terminal (`cmd/bot/main.go`) | stdin reader, print queue | send typed lines, print | Commands and login prompts share standard input |
| Media (`media/*.go`) | proxy address | fetch, decrypt, serve | Box and sample arithmetic on untrusted sizes |
| Nicknames (`webapi/im.go`, `store/cache.go`) | SQLite cache | look up, refresh | Staleness |
| Bot configuration, signing, QR rendering | none | pure or one file | Test vectors decide, not a model |

The hazards of each part, at the line where they bite, are under "hazards" in
`PROJECT.json`; a hazard without a property says why it has none.

## The modules

| Module | Models | State and actions against the code |
|---|---|---|
| `FrameStream` | the promise of a connection to its owner | frames arrived and handed out, whether the stream ended, whether the owner was told |
| `WsConn` | `wsconn.go` | `pc` of reader, owner and pinger; `msgs`, `closed`, `closeErr`, `doneCloses`, `writeMu` are the fields of WsConn. Each atomic operation of setClosed (compare-and-swap, store, close) is a step, each select of Receive is one or two, the write mutex is taken and released in steps |
| `WsConnProofs` | | the theorems about WsConn |
| `EventFeed` | the promise of the hub to a subscriber | since it joined, every event is delivered in order or lost to it, once |
| `Credentials` | the promise of a login | a session is saved only if it is newer than those on disk and in use, and used only once saved |
| `Session` | RunSession | timers hold the seconds left; `quiet` is the time since `lastRecv` was stored, `lull` the time since a frame really arrived. Written against the promise of FrameStream |
| `Hub` | registry, push, writeLoop, broadcastTo, handleWs, handleOriWs, Stop | `push` is the position inside the three channel operations of wsClient.push, per pushing goroutine; `todo` is the broadcast's copy of the registry |
| `MCHub` | | the symmetry of a two-subscriber instance |
| `SessionProofs`, `HubProofs` | | the theorems about Session and Hub |
| `EngineLoop` | runCli, runEngineLoop, relogin, loginAndSave, SaveAccount as truncate then write, the probe's verdict, kills and restarts | `acc` is the account shared with the gateway, `eng` the engine's copy, `file` the content of cookie.json, `state` and `last` what the gateway shows and sent |
| `EngineLoopProofs` | | the theorems about EngineLoop |
| `Login` | LoadAccount's layouts, SMSLogin and QRLogin with doMfa, loginAndSave, terminalHooks' prompt, stdinSender | `jar` is the session in the cookie jar of a login, `answer` what its prompt returned, `buffer` what each of the two readers of standard input has read and not used |
| `LoginProofs` | | the theorems about Login |
| `Api` | handleAPI, dispatch and its actions, resolveConv, the requests of an upload (`upload.go`, `video.go`), resolveConvSend, buildIMAPIBody and its post, Recall; with them handleIncoming and relogin, whose state the calls read | every call is a goroutine with its `pc`; `acc`, `cookie`, `uid` and `device` are the fields relogin assigns one by one, as the logins they are of; `held` and `committed` are what the storage servers have |
| `MCApi`, `ApiProofs` | | the symmetry of its run; the theorems about Api |
| `Protobuf` | `proto.go` | pure: encoders and the schema-less decoder on sequences of bytes; its loops are recursive functions, `Decode` takes buffer, position and depth |
| `ProtobufProofs` | | the theorems about Protobuf |
| `ChatFrames` | searchPath, childMsgs and the other lookups, collectChat, its JSON fallback, handleIncoming, BuildConvID, parseConvListResp | pure: from the fields of a frame to events and learned short ids |
| `Mp4` | DecryptVideo, decryptTrak, boxesIn, the sample tables, cencDecryptSample | pure: from a file to which byte met which byte of a key stream |
| `MCData` | | bounded inputs for the three and the references they are compared with |
| `SendMessage` | dispatchSend, sendViaWS, drainSendAck, matchSendAck, sendIMAPI | `wire` holds frames as sequences of messages; `left` and `slice` are the deadline and Receive's timeout |

Three abstract specifications link the parts, each by a refinement that is checked and
proved. WsConn implements FrameStream (`ImplementsStream`); Session and SendMessage use only
that promise: queued frames first, then the error. Hub implements EventFeed
(`ImplementsFeed`), with queues, pushers and writers hidden behind what became of each
event. EngineLoop and Login share loginAndSave: EngineLoop has a login as a step that
succeeds or fails and the write of the file in detail, Login has the requests and the
terminal, and the write as one step that may also leave a torn file. Both implement
Credentials (`ImplementsCredentials`), so what the two halves promise is the same.
EngineLoop has a session as a state that ends at some time, which is what `SessionEnds` of
Session says of it, and Hub has an engine that emits events at any time. Api composes what
API calls share with the loop and the receiver: relogin's assignments and the short-id
cache, as ChatFrames fills it.

Abstractions. A frame in WsConn and an event in Hub is a number, a cookie is the number of
the login that issued it, an account is its cookie and whether its user id is known.
EngineLoop assumes the gateway runs (without one the bot only leaves out the emits) and is
run as `runCli` runs it, with no shouldStop: only the smoke test passes one
(`main.go:83`), so the bot itself never reports `stop`. Session models shouldStop all the
same. The `INVALID` reason of `main.go:334` is a disconnect event here.
In Login a session and a code are numbers, a phone is there or not, a device is none, old or
new. In Api a message belongs to logins by number and names a conversation and where its short
id came from; bytes of a file are counted in units. Protobuf works on bytes, with integers of
`Full` groups of seven bits and one bit more. Go's 64 bits are nine groups and one; the runs
take two, 15 bits, so that "too long for an integer" is reached by three bytes, and the
theorems hold for any. ChatFrames abstracts texts to what
the code asks of them; that the id of a private chat decodes as a message and not as a text,
on which it relies, is an assumption TLC evaluates with Protobuf's bytes (in MCData).

## The runs

| Run | Question and bounds |
|---|---|
| `wsconn` | All interleavings of reader, owner and pinger, with a queue of 2 and up to 4 frames: the queue can be empty, full, and full with a frame in the reader's hand, and one more frame may follow. |
| `session` | Discrete time with periods 3/5/2/1/2/1 for 15/40/2/1/5/1 seconds. They keep the order of the constants where it matters (Receive < poll, ping < heartbeat < dead limit, which is no multiple of the heartbeat). The bounds in `DeadPeerDropped` and `StopIsPrompt` are formulas of the constants; `asked` counts, for the latter, the time since shouldStop began to answer yes. |
| `hub` | One subscriber, a queue of 2, three events, one ping, so both pushers can meet at a full queue with one frame to drop. Breaking, closing, Stop and a failing write at any point. Deadlock is checked. |
| `hub_hello` | Finding. |
| `engine_loop` | Three logins: enough for a cookie that expired, the one that replaced it and one lost to a failed save. Kills and network changes at any time, a network with garbled replies among them. The first account, and the one a login brings, has a user id or not. |
| `engine_no_uid` | Finding. |
| `send` | Both channels, a deadline of 3 and a Receive of 2 (like 4 s and 350 ms, no multiple), up to two unrelated messages per unit of time without a total limit, any grouping of messages into frames, a link that breaks at any time. |
| `login` | Every usable and unusable first cookie.json; two sessions and two codes, so that an old code and an old session exist beside the right one; two waiting lines, so that one Read can take a line that is not its own. |
| `login_stdin` | Finding. |
| `api` | Two calls of any kind, a relogin that may start once and stop between any two assignments, two groups and a peer, two conversations named by events, a video of three units in parts of two, so that the last part is short. Calls are never repeated, so the system may stop: deadlock is not checked. |
| `data` | One call of a pure function per behaviour. Buffers of up to 4 bytes over 8 telling ones (tags, lengths, digits, two bytes with the continuation bit), cut anywhere; trees of up to two fields and three levels; frames of one or two messages, of one conversation or of two, with a field the decoder gives up at before any field; lists of up to two entries; videos of one or two tracks in every chunk layout of two or three samples, whole or with one box missing or one table too short. |
| `chat_sent` | Finding. |

What they show is said with each property in its module. The most telling ones:

- `ErrorMeansDrained`, `ImplementsStream` (WsConn): an error from Receive means every frame
  was handed out, although a reader may put a frame into the queue between the two looks.
- `DeadPeerDropped`, `DeadOnlyWhenSilent` (Session): the bound, from both sides, on when a
  silent connection is given up; `StopIsPrompt`: how long a session asked to stop may take,
  although its heartbeat may hold the lock the close frame needs.
- `NothingSkipped`, `GiveUpOnlyInRace`, `ImplementsFeed` (Hub): what a subscriber misses is
  exactly what a full queue dropped, it has one fate, and a new frame is refused only after
  losing a race.
- `StateMatchesEvents`, `OneAccount`, `ComesOnline` (EngineLoop); `ImplementsCredentials`
  (EngineLoop, Login): no session is used before it is saved, and none is saved over a newer.
- `ResultIsTrue`, `AckNotMissed`, `EndsInTime` (SendMessage).
- `AccountKept` (Login): what only the first account knew, phone and device, survives every
  login, failed write and restart, so the next login takes the same path. The one exception is
  in the property: a start that finds a file it cannot read, as a write that broke off leaves
  it (`config.go:100`), knows neither.
- `OneLoginPerMessage`, `RepliesReachTheChat`, `SentOnlyCommitted` (Api): what a message
  says belongs together although its parts were read at different times.
- `CutKeepsPrefix`, `FrameEventsAreTrue`, `VideoComesOutPlain` (MCData). What the code does not
  keep is left out of the first two and stated apart, see the further configurations.

Each property of a passing run has a mutant: a variant of one definition, in the module,
with which the run must fail.

### Findings

- `hub_hello`: a subscriber is in the registry before its hello is queued, so an event may
  be its first frame (`gateway.go:373`), against API.md:299.
- `engine_no_uid`: an account without a stored user id never connects, although the probe
  learned the id (`main.go:224`). Such an account comes from a bare cookie string
  (`config.go:73`), or from a login whose reply had no user id, which loginAndSave stores
  unchecked (`main.go:175`). `ValidCookieComesOnline` is `ComesOnline` without the user id in
  its premise.
- `login_stdin`: stdinSender waits in a Read of standard input when a relogin asks for an SMS
  code, gets the code and passes over it; the prompt goes on waiting (`main.go:386`).
- `chat_sent`: the id of a private chat is never decoded as a text. So the event of a message
  sent from another device names the user's chat with himself (`client.go:295`), and
  get_conversations lists private chats with an empty conv_id (`convlist.go:71`), against
  API.md:55, 60 and 243. The counterexample of `ConversationIsNamed` shows both.

### Further configurations

Six configurations, to be run by hand, refute what a comment or the documentation says, and
one is a larger instance of `hub`:

- `SessionQuiet.cfg` (Session): pongs do not refresh `lastRecv`, so a working connection
  without data frames for the dead limit is closed and reported as broken (`client.go:225`,
  against the comment at 204).
- `EngineLoopGarbled.cfg` (EngineLoop): a reply that is not JSON counts as an expired session
  (`probe.go:35`, against the comment at 6).
- `SendStatus.cfg` (SendMessage): a reply cut off or not protobuf counts as a message sent
  (`httpsend.go:208`, against API.md:42).
- `CutVarint.cfg` (MCData, `OutOfBoundsIsRefused`): a varint that runs off the end of the buffer
  is read as the number so far (`proto.go:85`, against the comment at 68), so a field cut
  off in its middle comes out with a wrong number.
- `TwoChats.cfg` (MCData, `ChatsAreKeptApart`): of a frame with messages of two conversations
  the short id of one is stored under the other (`client.go:287`, 419-433), and the other's
  later sends go out with it. Whether the server ever mixes them the code does not say.
- `FallbackSent.cfg` (MCData, `OwnMessagesAreSent`): a frame that only the fallback on raw JSON
  can read has no sender (`client.go:452`), so a message of the user's own becomes a `message`
  event, which API.md:416 says it is not unless `emit_self` asks for a `message_self`.
- `HubPair.cfg` (MCHub): two subscribers that join and leave during a broadcast, up to
  symmetry, queue of 1, two events: `NothingSkipped` and `ImplementsFeed` hold for each.

### Fairness

- WsConn: a goroutine inside an operation goes on; the owner receives until it gets an error
  and then closes, as both callers do; ReadMessage returns once the socket is closed; a ping
  has a write deadline. The peer, and a data write, which has no deadline, owe nothing.
- Session: goroutines are scheduled and time passes. The peer and shouldStop owe nothing.
- Hub: a goroutine that can go on does; a write ends, in success or failure, because
  writeLoop sets a write deadline. Nobody need emit, connect or break.
- EngineLoop: only the process's own steps (LoopStep) are fair. A login waits for a person
  and a session for its end, so neither is. `ComesOnline` says in its premise what it needs
  instead: from some time on the network is up, the process is left alone and the account
  has a valid cookie and its user id, and no login waits for ever. What was before, garbled
  replies, failed writes and logins without a user id, is free.
- Login: the program's own steps go on, which includes that every request comes back
  (`NewClient` sets 30 s) and that a QR code expires; both readers of standard input are
  scheduled, and a user who is asked types something. The server need not confirm a code.
- Api and MCData state safety only and need none.
- SendMessage: the sender goes on and time passes. Handshake and request have timeouts
  of their own (30 s each), so their failure is among the fair steps.

## The proofs

Assumed are only the named assumptions on constants: a queue holds at least one frame, at
least one login exists, and so on.

`WsConnProofs`, for every capacity and number of frames. `FrameConservation` (received,
queued and held frames are the frames read, in order) is nearly inductive; the other
properties are not. `IInv` adds `CloserInv` (only the winner of the compare-and-swap stores
and closes, and there is one), `HandInv` (when the reader holds a frame) and `OwnerInv`
(before its owner closes, only the reader can have closed a connection, and it adds no
frame after that). The last is why a Receive that saw `closed` and then an empty queue
may report an error: `ErrorAfterLastFrame`. `DoneClosedAtMostOnce` and
`ConnectionImplementsStream` follow. Two theorems state what of a liveness property is safety.
For `CloseReleases`, `MutexInv` and `DoneInv` say who holds the write mutex and who finds
`done` closed; with them somebody can always take a step of a close in progress
(`CloseGoesOn`), and the steps left to its three goroutines (`ClosingLeft`) grow by no step
and shrink by every step of those it needs (`CloseIsNeverStuck`). For `EndIsReported`,
`ReportLeft` weighs the frames still queued and the place in Receive (`ReportComesNearer`).

`EngineLoopProofs`, for every number of logins. `IInv` adds to the properties which phases
are inside the loop (`PhaseInv`), that nobody uses a cookie not yet issued (`IssuedInv`),
what file and accounts hold at each step of a relogin (`LoginInv`), what an event about to
be sent has to do with the state already shown (`EmitInv`), and when an attempt to connect
may already have been made since the last sleep (`DialInv`). Without `LoginInv` and
`IssuedInv`, `DiskNotBehind` fails in the step that writes the file; without `EmitInv`,
`StateMatchesEvents` fails when the event follows the state. `LoopImplementsCredentials` needs
that while a login is being saved the cookies in use and on disk are all older than the new
one, which `LoginInv` says. `NothingInTheWay` is what of `ComesOnline` is safety: while the
network, the cookie and the process stay as they are (`Stable`), the loop is at a place from
which it comes online (`OnTheWay`), at a `Distance` every step of its own shortens
(`ComesNearer`), wherever it was when things became stable. A login is part of that way: a
garbled reply may have sent a loop with a valid cookie there, and whichever way it ends the
loop goes on. The user id belongs to `Stable`, since without one nothing ever is online
(`OnlyWithUid`), which is `engine_no_uid`.

`SendMessageProofs`, for every deadline, slice and amount of foreign traffic. `IInv` adds
that every message on its way, on the wire or in a frame being looked at, that has our
client id says what the server did with ours (`WireInv`, `GotInv`), what the request can
have come to at each step (`RequestInv`), and how deadline, slice and elapsed time are
related (`ClockInv`): the drain looks at the deadline only between two Receives, each of
which takes at most a slice, from which `DrainEndsInTime` follows. That a frame with our
acknowledgement in any place yields it needs that a set of indices has a least one.
`DrainComesToAnEnd` is what of `SendReturns` is safety: the time left (`TimeLeft`) falls
with every tick, and between two ticks every turn of the loop uses up one of at most
`MaxNoise` + 1 frames or a Receive (`StepsLeft`).

`LoginProofs`, for every number of sessions, codes and lines. `AccountKept` is nearly
inductive: `known` is the first account, kept over restarts, and a readable file always holds its
phone and device; `SessionInv` adds that nobody holds a session not yet issued and that a login
starts from an empty jar, so a session in the jar is newer than the account's
(`LoginBringsNewSession`). The variant that keeps the old jar breaks just that. For
`LoginImplementsCredentials`, `StoreInv` adds that while a program runs the disk holds the
session it uses or, after a torn write, none; so what is saved next is newer than both.
`LoginComesToAnEnd` is what of `LoginEnds` is safety, and needs no invariant but the types:
the flags and places of both flows have a rank (`StepsAhead`, at most eight) that every step
of the program and every answer it acts on lowers, since the poll of a QR code is left for
the second factor only once.

`ApiProofs`, for every number of concurrent calls, groups, peers and logins and every size of
a video and its parts. `IInv` adds to `OneLoginPerMessage` how far relogin has come
(`ReloginInv`) and that a running call that saw nothing of a relogin has read only the
present login (`LoginInv`); for `RepliesReachTheChat` which kind of call can be where, with
which target and short id (`ChatInv`); for `SentOnlyCommitted` how much of each object is on
the storage at each step of its upload (`StoreInv`): before a part is sent, exactly the bytes
below its offset must be there, whence `PartsLeaveNoGap`. A step of one call does not disturb
another's part (`Frame`), but an image is another call's upload, so that a whole object stays
whole is a lemma of its own (`WholeStays`).

`SessionProofs`, for every choice of the periods and every rate of arrival. `IInv` adds that
a running loop leaves no frame unread while a second passes, so that `lastRecv` is as old as
the last arrival (`FramesInv`); for each place the heartbeat can be in, how much silence
there can have been and how long it takes at most to look again (`HeartbeatInv`), and that
the loop is left after the Receive it is in once `stop` is closed (`StopInv`). The three
together are `DeadPeerDropped`: the bound of 40 + 15 + 5 + 1 seconds is the sum of their
waits. `ReasonInv` says who closed `stop`, and `EndInv` that no ping holds the write mutex
once the close frame is being written, without which `NoGoroutineLeak` is not inductive.
`PollInv` bounds how long a wish to stop waits for the next poll and the Receive under way,
`CloseInv` and `PromptInv` what leaving may add to a silence and to that wish: a ping that holds
the write mutex, and the close frame. They give `StopTakesBoundedTime`, and `SilenceIsBounded`
the bound on a session with a dead peer up to its return. The two are the form of
`SessionEnds` that can be proved: in discrete time, an end within a bound.

`HubProofs`, for any number of subscribers and events and every capacity of a queue.
`EventOrder` and `NothingSkipped` are not inductive: a frame about to be pushed is in no
queue. `IInv` adds that the frame of the engine is the newest event, which it owes exactly
the subscribers of its copy it has not served (`EngineInv`); that a reader pushes no events
and that a subscriber not registered has been sent nothing (`ServeInv`); that no frame of a
subscriber is newer than the last event it can have been sent (`StreamInv`), so that what is
appended next is newer than everything before it; and that whoever made room in a queue
still has it unless somebody else pushed (`RaceInv`), which is `GiveUpOnlyInRace`. What a
step does to the frames of one subscriber is summarised in `Effect`: nothing, an event that
passes it by, its registration, or one frame more. Each action has one of these effects, and
`EffectKeeps` shows once that they keep the invariant. The refinement has the same form: an
action keeps the fate of every event (`Keeps`), gives one to a subscriber (`Gives`) or drops
one (`Drops`), and each is a step of EventFeed. `BroadcastNeverWaits` is what of
`BroadcastEnds` is safety: a broadcast under way always has a step of the engine to take,
the `Work` left shrinks with it, and nobody else adds to it.
`BrokenClientsGetNearerToLeaving` is the same for `BrokenClientLeaves`: `LeavingInv` ties
the places of reader and writer to the state of connection, registry and `done`, so a
subscriber whose connection is of no use always has a step of its reader, or of its writer
once the reader has left (`LeavingGoesOn`), and the at most nine steps left shrink with each
of theirs alone.

`ProtobufProofs`, for every buffer and every width of an integer. The decoder is a recursive
function, so before anything can be said of what it returns, a function that solves its
equation must be shown to exist. `Turn` is the body of the loop with the results of the calls
it makes as a parameter; it depends only on calls with fewer bytes left (`TurnCongruence`), so
solutions for buffers of up to n bytes agree (`Unique`) and can be carried on by one byte
(`OneMore`), and there is one for all (`DecodeDefined`). The same is done for powers, varints
and the groups of a varint. The induction is on sets, by a least counterexample
(`SetInduction`), since a theorem with an operator as its parameter cannot be used here.
`DecodeCases` then says what one turn of the loop does, and the theorems follow from it:

- `VarintComesBack`, `NumberComesBack`, `DataComesBack`: what encodeVarint, encodeFieldVarint
  and encodeLenDelim wrote, at any place of any buffer, is read back, and reading goes on
  behind it. The content of a length-delimited field is guessed from exactly its own bytes;
  whether the guess is the one the writer meant depends on them, which is what `RoundTrip`
  asks of trees where the decoder can tell.
- `CutsAreRead`: a buffer that was cut off gives the first fields of the whole and at most one
  more, a number or an empty text; a panic that the whole does not cause needs a cut through
  the varint of a length.
- `PanicsOnOverflow`: when that is. A length is compared with the end of the buffer as
  `pos+length` (`proto.go:130`), an int: a length close to the largest int wraps around, passes,
  and the slice expression that follows is out of range. These lengths, and no others, take the
  program down. No recover stands between decodeProtobuf and the top of the receiving goroutine.

The type invariants of WsConn, Hub, SendMessage and Login, and `DiskNotBehind`, are proved for
every instance and left out of the runs.

Only model-checked: every liveness property (`SessionEnds`, `EndIsReported`,
`CloseReleases`, `BroadcastEnds`, `BrokenClientLeaves`, `ComesOnline`, `SendReturns`,
`LoginEnds`), which is out of the prover's reach but for the safety parts named above, and
the pure code of `data` beyond the codec. `CutKeepsPrefix` is the part
of `CutsAreRead` that concerns the fields in front of the cut, on the buffers of the run, and
says more of trees whose fields the decoder can tell; a tree of fields of any depth (`RoundTrip`), the search for chats in one and the boxes
of a video are read by recursive operators, which the provers do not accept, and about
which nothing is proved.

## Not modelled, and why

- Ciphers, signing and device fingerprints (`sign`, `abogus`, `fingerprint.go`, `image.go`):
  byte functions against a fixed protocol, for which only test vectors say what is right.
- Rendering of QR codes, the layout of printed lines and the print worker, which drops lines
  when nicknames are slow: nothing but the screen depends on it.
- Nicknames (`webapi/im.go`, `store/cache.go`): a table in SQLite before one request, for
  printed names; its consistency under concurrent use is SQLite's.
- Media proxies, play addresses and bot.json: one request or one file read each.
- The data race on the account struct itself (`relogin` overwrites it while `list` reads
  it): the order of the replacements is inside, a torn read is not.
- A Stop that misses a subscriber about to register: the process exits right after
  (`main.go:291`).
- Numbers in JSON bodies, which pass through floating point (`gateway.go:752`).
- A data write on a half-open link, which has no deadline: assumed to return.

What could be added without new techniques: the state a subscriber believes in (EngineLoop
and Hub composed, where a hello carries a snapshot that events may have superseded).
