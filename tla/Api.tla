--------------------------------- MODULE Api ---------------------------------
(***************************************************************************)
(* The HTTP API of the gateway and what its requests do                    *)
(* (internal/gateway/gateway.go, internal/engine/upload.go, video.go,      *)
(* httpsend.go, imactions.go), while the engine receives frames and the    *)
(* main loop may log in again.                                             *)
(*                                                                         *)
(* Every request is a goroutine of its own.  Requests share, without a     *)
(* lock, the account of the gateway, the three fields of the engine's      *)
(* client and the short ids learned from frames.  A login is a number: the *)
(* account, the cookie, the user id and the device of one login go         *)
(* together, and a later login may be another user's.                      *)
(*                                                                         *)
(* The storage servers accept whatever they are asked to: a commit of what *)
(* was never written succeeds.  A request to a server may fail at any      *)
(* point; what it left behind there is not kept, as nothing refers to it.  *)
(*                                                                         *)
(* Bytes are counted in units of which a part of a video holds PartSize.   *)
(* Whether a message is sent over HTTP or over a WebSocket (SendMessage)   *)
(* makes no difference here.                                               *)
(***************************************************************************)
EXTENDS Integers, FiniteSets

CONSTANTS Request,     \* API calls, one goroutine each
          Group,       \* ids of groups
          NoId,        \* no id
          Peer,        \* users the bot chats with
          VideoSize,   \* bytes of a video
          PartSize,    \* bytes of a part (videoPartSize)
          MaxLogin,    \* bound: logins
          MaxConv      \* bound: conversations with messages

ASSUME ApiAssumption ==
  /\ {VideoSize, PartSize, MaxLogin, MaxConv} \subseteq Nat \ {0}
  /\ Group \cap Peer = {} /\ NoId \notin Group \cup Peer

Login == 1..MaxLogin
NoLogin == 0

\* A conversation: a group, or a private chat of a login's user with a peer.
Private(login, peer) == [group |-> FALSE, own |-> login, id |-> peer]
GroupOf(id) == [group |-> TRUE, own |-> NoLogin, id |-> id]
Conversation == [group : {TRUE}, own : {NoLogin}, id : Group]
                \cup [group : {FALSE}, own : Login, id : Peer]

\* A short id: none (0), the number of the group itself, or the true one, learned or given.
Short(kind, id) == [kind |-> kind, id |-> id]
ShortId == [kind : {"none", "number", "true"}, id : Group \cup Peer \cup {NoId}]

Object == {"image", "video", "check"}
Size(o) == IF o = "video" THEN VideoSize ELSE 1
Bytes(o) == 0..(Size(o) - 1)

Kind == {"text", "image", "upload", "video", "recall", "query"}
NoMessage == [none |-> TRUE]

VARIABLES acc,        \* the login of *acc, which the gateway shares
          cookie, uid, device,   \* the logins the fields of the engine's client are of
          relog,      \* where relogin is: "idle", or the assignment it is to do next
          shorts,     \* groups whose short id handleIncoming has learned
          events,     \* history: conversations named in events
          pc,         \* where a request is
          kind,       \* its action
          target,     \* the conversation it is for
          byUid,      \* the target was given as to_uid
          short,      \* the short id to send
          asset,      \* the upload whose result it was given, or the request itself
          object,     \* the object it uploads
          off,        \* loop variable of uploadVideo
          pic,        \* uploadCheckPic came back with an address
          message,    \* history: the message it posted
          answer,     \* what it answered
          touched,    \* history: relogin was under way while it ran
          held,       \* external: the bytes of its objects the storage has accepted
          committed   \* external: its committed objects

login == <<acc, cookie, uid, device, relog>>
input == <<kind, target, byUid, asset>>
upload == <<object, off, pic, held, committed>>
outcome == <<message, answer>>
vars == <<login, shorts, events, pc, input, short, upload, outcome, touched>>

NoConv == [group |-> FALSE, own |-> NoLogin, id |-> NoId]
NoShort == Short("none", NoId)

Init ==
  /\ acc = 1 /\ cookie = 1 /\ uid = 1 /\ device = 1 /\ relog = "idle"
  /\ shorts = {} /\ events = {}
  /\ pc = [r \in Request |-> "idle"]
  /\ kind = [r \in Request |-> "query"]
  /\ target = [r \in Request |-> NoConv]
  /\ byUid = [r \in Request |-> FALSE]
  /\ asset = [r \in Request |-> r]
  /\ short = [r \in Request |-> NoShort]
  /\ object = [r \in Request |-> "image"]
  /\ off = [r \in Request |-> 0]
  /\ pic = [r \in Request |-> FALSE]
  /\ message = [r \in Request |-> NoMessage]
  /\ answer = [r \in Request |-> "none"]
  /\ touched = [r \in Request |-> FALSE]
  /\ held = [r \in Request |-> [o \in Object |-> {}]]
  /\ committed = [r \in Request |-> {}]

Running(r) == pc[r] \notin {"idle", "done"}

----------------------------------------------------------------------------
(* The engine and the main loop.                                           *)

Named(conv) == /\ events' = events \cup {conv}
               /\ Cardinality(events') <= MaxConv

\* A message arrives: handleIncoming names its conversation in an event, and learns the short
\* id when the conversation id came with the message, which is only so for groups
\* (ChatFrames).  No session runs while relogin does.
Incoming ==
  /\ relog = "idle"
  /\ \/ \E g \in Group :
          /\ Named(GroupOf(g))
          /\ shorts' \in {shorts, shorts \cup {g}}
     \/ \E p \in Peer : Named(Private(uid, p)) /\ UNCHANGED shorts
  /\ UNCHANGED <<login, pc, input, short, upload, outcome, touched>>

\* Variant of After: the device id of the engine is forgotten.
AfterNoDevice(step) == CASE step = "idle" -> "cookie" [] step = "cookie" -> "uid" [] OTHER -> "idle"

\* The order of relogin's assignments.
After(step) ==
  CASE step = "idle" -> "cookie" [] step = "cookie" -> "uid" [] step = "uid" -> "device" [] OTHER -> "idle"

\* relogin: *acc first, then the fields of the client, which readers take one by one.
Relogin ==
  /\ relog = "idle" => acc < MaxLogin
  /\ relog' = After(relog)
  /\ acc'    = IF relog = "idle" THEN acc + 1 ELSE acc
  /\ cookie' = IF relog = "cookie" THEN acc ELSE cookie
  /\ uid'    = IF relog = "uid" THEN acc ELSE uid
  /\ device' = IF relog = "device" THEN acc ELSE device
  /\ touched' = [r \in Request |-> touched[r] \/ Running(r)]
  /\ UNCHANGED <<shorts, events, pc, input, short, upload, outcome>>

----------------------------------------------------------------------------
(* handleAPI and dispatch.                                                 *)

Go(r, step) == pc' = [pc EXCEPT ![r] = step]

Answer(r, code) ==
  /\ pc' = [pc EXCEPT ![r] = "done"]
  /\ answer' = [answer EXCEPT ![r] = code]

\* An unknown action, another method than POST, a wrong token, a body that is not JSON, a
\* missing field or an action that does not exist yet: nothing is asked of any server.
Refuse(r) ==
  /\ pc[r] = "idle"
  /\ Answer(r, "refused")
  /\ UNCHANGED <<login, shorts, events, input, short, upload, message, touched>>

\* resolveConv with to_uid: the private chat of the gateway's account with the user.
ResolveConv(p) == Private(acc, p)

\* Where a request goes after its fields were found good.
FirstStep(k) ==
  CASE k \in {"upload", "video"} -> "config"
    [] k = "query"               -> "await"
    [] OTHER                     -> "send"

Addressed(k) == k \notin {"upload", "query"}

\* A bot answers in a conversation an event named, or addresses a user; it may give the short
\* id of a group, which get_conversations tells, and the result of an upload.
Accept(r) ==
  /\ pc[r] = "idle"
  /\ \E k \in Kind : kind' = [kind EXCEPT ![r] = k] /\ Go(r, FirstStep(k))
  /\ IF ~Addressed(kind'[r])
       THEN UNCHANGED <<target, byUid, short>>
       ELSE /\ \/ \E c \in events : target' = [target EXCEPT ![r] = c] /\ UNCHANGED byUid
               \/ \E p \in Peer : /\ target' = [target EXCEPT ![r] = ResolveConv(p)]
                                  /\ byUid' = [byUid EXCEPT ![r] = TRUE]
            /\ \/ UNCHANGED short
               \/ /\ target'[r].group
                  /\ short' = [short EXCEPT ![r] = Short("true", target'[r].id)]
  /\ IF kind'[r] = "image"
       THEN \E u \in Request : /\ kind[u] = "upload" /\ answer[u] = "ok"
                               /\ asset' = [asset EXCEPT ![r] = u]
       ELSE UNCHANGED asset
  /\ touched' = [touched EXCEPT ![r] = relog # "idle"]
  /\ UNCHANGED <<login, shorts, events, upload, outcome>>

----------------------------------------------------------------------------
(* Uploads.                                                                *)

Stored(r, bytes) == held' = [held EXCEPT ![r][object[r]] = @ \cup bytes]

NotUpload == <<login, shorts, events, input, short, touched>>

\* getUploadConfig; SendVideoResult calls it for itself, and UploadImage calls it again.
GetUploadConfig(r) ==
  /\ pc[r] = "config"
  /\ Go(r, "apply")
  /\ UNCHANGED <<upload, outcome, NotUpload>>

\* applyUpload hands out a new object; a video goes there in parts.
ApplyUpload(r) ==
  /\ pc[r] = "apply"
  /\ Go(r, IF object[r] = "video" THEN "init" ELSE "put")
  /\ UNCHANGED <<upload, outcome, NotUpload>>

\* tosPut; for the check picture that is all.
TosPut(r) ==
  /\ pc[r] = "put"
  /\ Stored(r, Bytes(object[r]))
  /\ Go(r, IF object[r] = "check" THEN "send" ELSE "commit")
  /\ pic' = [pic EXCEPT ![r] = object[r] = "check"]
  /\ UNCHANGED <<object, off, committed, outcome, NotUpload>>

ChunkInit(r) ==
  /\ pc[r] = "init"
  /\ off' = [off EXCEPT ![r] = 0]
  /\ Go(r, "part")
  /\ UNCHANGED <<object, pic, held, committed, outcome, NotUpload>>

\* Variant of MoreParts: only whole parts are sent.
WholeParts(next) == next + PartSize <= VideoSize

MoreParts(next) == next < VideoSize

\* The bytes of the part that starts at "from".
Part(from) == {b \in Bytes("video") : from <= b /\ b < from + PartSize}

ChunkTransfer(r) ==
  /\ pc[r] = "part"
  /\ Stored(r, Part(off[r]))
  /\ off' = [off EXCEPT ![r] = @ + PartSize]
  /\ Go(r, IF MoreParts(off[r] + PartSize) THEN "part" ELSE "finish")
  /\ UNCHANGED <<object, pic, committed, outcome, NotUpload>>

ChunkFinish(r) ==
  /\ pc[r] = "finish"
  /\ Go(r, "commit")
  /\ UNCHANGED <<upload, outcome, NotUpload>>

\* commitUpload: the result of upload_image, or the next object of a video message.
CommitUpload(r) ==
  /\ pc[r] = "commit"
  /\ committed' = [committed EXCEPT ![r] = @ \cup {object[r]}]
  /\ IF kind[r] = "upload"
       THEN Answer(r, "ok") /\ UNCHANGED object
       ELSE /\ object' = [object EXCEPT ![r] = IF @ = "image" THEN "video" ELSE "check"]
            /\ Go(r, "apply") /\ UNCHANGED answer
  /\ UNCHANGED <<off, pic, held, message, NotUpload>>

\* A request to a server fails: the call does, but for the check picture, which is left out.
Fail(r) ==
  /\ pc[r] \in {"config", "apply", "put", "init", "part", "finish", "commit", "await"}
  /\ IF object[r] = "check" /\ pc[r] # "await" THEN Go(r, "send") /\ UNCHANGED answer
                                               ELSE Answer(r, "500")
  /\ UNCHANGED <<upload, message, NotUpload>>

----------------------------------------------------------------------------
(* Sending.                                                                *)

\* Variant of ResolveShort: what was learned of one group is taken for every group.
ResolveShortAny(s, c) ==
  IF s.kind = "none" /\ shorts # {} THEN Short("true", CHOOSE g \in shorts : TRUE) ELSE s

\* A short id that was not given is the one learned from frames.
ResolveShort(s, c) ==
  IF s.kind = "none" /\ c.group /\ c.id \in shorts THEN Short("true", c.id) ELSE s

\* resolveConvSend: a group's number stands in for its short id.
ResolveConvSend(s, c) ==
  IF ~c.group THEN ResolveShort(s, c) ELSE IF s.kind = "none" THEN Short("number", c.id) ELSE s

\* Recall looks the short id of a group up as well.
RecallShort(s, c) == ResolveShort(s, c)

ShortToSend(r) == IF kind[r] = "recall" THEN RecallShort(short[r], target[r])
                                        ELSE ResolveConvSend(short[r], target[r])

\* The body holds the user id and the device; the cookie is read when the request is made.
BuildBody(r) ==
  /\ pc[r] = "send"
  /\ message' = [message EXCEPT ![r] =
       [conv |-> target[r], short |-> ShortToSend(r), uid |-> uid, device |-> device,
        cookie |-> NoLogin, posted |-> FALSE]]
  /\ Go(r, "post")
  /\ UNCHANGED <<upload, answer, NotUpload>>

Post(r) ==
  /\ pc[r] = "post"
  /\ message' = [message EXCEPT ![r].cookie = cookie, ![r].posted = TRUE]
  /\ Go(r, "await")
  /\ UNCHANGED <<upload, answer, NotUpload>>

Reply(r) ==
  /\ pc[r] = "await"
  /\ Answer(r, "ok")
  /\ UNCHANGED <<upload, message, NotUpload>>

----------------------------------------------------------------------------
Step(r) ==
  \/ GetUploadConfig(r) \/ ApplyUpload(r) \/ TosPut(r) \/ ChunkInit(r) \/ ChunkTransfer(r)
  \/ ChunkFinish(r) \/ CommitUpload(r) \/ Fail(r) \/ BuildBody(r) \/ Post(r) \/ Reply(r)

Next == \/ Incoming \/ Relogin
        \/ \E r \in Request : Refuse(r) \/ Accept(r) \/ Step(r)

Spec == Init /\ [][Next]_vars

----------------------------------------------------------------------------
(* Properties.                                                             *)

Steps == {"idle", "config", "apply", "put", "init", "part", "finish", "commit",
          "send", "post", "await", "done"}
Message == [conv : Conversation, short : ShortId, uid : Login, device : Login,
            cookie : Login \cup {NoLogin}, posted : BOOLEAN]

\* The types of the state.
TypeOK ==
  /\ acc \in Login /\ cookie \in Login /\ uid \in Login /\ device \in Login
  /\ relog \in {"idle", "cookie", "uid", "device"}
  /\ shorts \subseteq Group /\ events \subseteq Conversation
  /\ pc \in [Request -> Steps] /\ kind \in [Request -> Kind]
  /\ target \in [Request -> Conversation \cup {NoConv}] /\ byUid \in [Request -> BOOLEAN]
  /\ short \in [Request -> ShortId] /\ asset \in [Request -> Request]
  /\ object \in [Request -> Object] /\ off \in [Request -> Nat] /\ pic \in [Request -> BOOLEAN]
  /\ message \in [Request -> Message \cup {NoMessage}]
  /\ answer \in [Request -> {"none", "ok", "refused", "500"}]
  /\ touched \in [Request -> BOOLEAN]
  /\ held \in [Request -> [Object -> SUBSET Nat]]
  /\ committed \in [Request -> SUBSET Object]

Posted(r) == message[r] # NoMessage /\ message[r].posted

\* Everything about one message belongs to one login, the private chat it was addressed to by
\* to_uid included, unless relogin was at work while the call ran: relogin (main.go:366)
\* leaves no field of the account or of the engine behind.
OneLoginPerMessage ==
  \A r \in Request : Posted(r) /\ ~touched[r] =>
    /\ message[r].uid = message[r].cookie /\ message[r].device = message[r].cookie
    /\ byUid[r] => message[r].conv.own = message[r].cookie

\* An answer to the conversation of an event (API.md:55) goes to that conversation, with its
\* own short id or none, however many others have taught short ids since; a message to a group
\* always has one.
RepliesReachTheChat ==
  \A r \in Request : message[r] # NoMessage =>
    LET msg == message[r] IN
    /\ msg.conv = target[r]
    /\ ~byUid[r] => msg.conv \in events
    /\ msg.short.kind # "none" => msg.short.id = msg.conv.id
    /\ msg.conv.group /\ kind[r] # "recall" => msg.short.kind # "none"

Whole(r, o) == o \in committed[r] /\ held[r][o] = Bytes(o)

\* A message refers to no file that is not on the storage to its last byte and committed
\* (video.go:77, upload.go:43); a check picture it names has been stored.
SentOnlyCommitted ==
  \A r \in Request : message[r] # NoMessage =>
    /\ kind[r] = "video" => Whole(r, "image") /\ Whole(r, "video")
    /\ kind[r] = "video" /\ pic[r] => held[r]["check"] = Bytes("check")
    /\ kind[r] = "image" => Whole(asset[r], "image")
=============================================================================
