----------------------------- MODULE ApiProofs -----------------------------
(***************************************************************************)
(* The safety properties of the HTTP API, proved for any number of calls,  *)
(* groups, peers and logins and for every size of a video and its parts.   *)
(***************************************************************************)
EXTENDS Api, TLAPS

\* relogin assigns in this order; outside it there is one login.
ReloginInv ==
  /\ relog = "idle" => cookie = acc /\ uid = acc /\ device = acc
  /\ relog = "uid" => cookie = acc
  /\ relog = "device" => cookie = acc /\ uid = acc

\* A call that runs and saw nothing of a relogin works with the login of now.
LoginInv(r) ==
  /\ Running(r) /\ ~touched[r] => relog = "idle" /\ (byUid[r] => target[r].own = acc)
  /\ pc[r] = "post" /\ ~touched[r] => message[r].uid = acc /\ message[r].device = acc

\* Which kinds of call reach which step, and where their conversation comes from.
ChatInv(r) ==
  /\ pc[r] = "idle" => kind[r] = "query" /\ answer[r] = "none" /\ ~byUid[r] /\ short[r].kind = "none"
  /\ pc[r] \in {"send", "post"} \/ message[r] # NoMessage => Addressed(kind[r])
  /\ pc[r] = "post" => message[r] # NoMessage
  /\ pc[r] = "await" => kind[r] # "upload"
  /\ pc[r] \in {"config", "apply", "put", "init", "part", "finish", "commit"} => kind[r] \in {"upload", "video"}
  /\ object[r] # "image" => kind[r] = "video"
  /\ Addressed(kind[r]) => /\ target[r] \in Conversation
                           /\ ~byUid[r] => target[r] \in events
                           /\ short[r].kind # "none" => short[r] = Short("true", target[r].id)
  /\ message[r] # NoMessage =>
       /\ message[r].conv = target[r]
       /\ message[r].short.kind # "none" => message[r].short.id = target[r].id
       /\ target[r].group /\ kind[r] # "recall" => message[r].short.kind # "none"

\* How much of each object is on the storage when its upload is at which step.
OwnStore(r) ==
  /\ pc[r] = "put" => object[r] # "video"
  /\ pc[r] \in {"init", "part", "finish"} => object[r] = "video"
  /\ pc[r] = "part" => off[r] < VideoSize /\ \A b \in Bytes("video") : b < off[r] => b \in held[r]["video"]
  /\ pc[r] = "finish" => held[r]["video"] = Bytes("video")
  /\ pc[r] = "commit" => held[r][object[r]] = Bytes(object[r])
  /\ object[r] # "image" => Whole(r, "image")
  /\ object[r] = "check" => Whole(r, "video")
  /\ kind[r] = "video" /\ (pc[r] \in {"send", "post"} \/ message[r] # NoMessage) => object[r] = "check"
  /\ pic[r] => held[r]["check"] = Bytes("check")
  /\ kind[r] = "upload" /\ answer[r] = "ok" => Whole(r, "image")

\* No object has a byte too many; an image that is sent was another call's to upload.
StoreInv(r) ==
  /\ \A o \in Object : held[r][o] \subseteq Bytes(o)
  /\ OwnStore(r)
  /\ kind[r] = "image" => Whole(asset[r], "image")

IInv ==
  /\ TypeOK /\ ReloginInv /\ OneLoginPerMessage
  /\ \A r \in Request : LoginInv(r) /\ ChatInv(r) /\ StoreInv(r)

USE DEF login, input, upload, outcome, vars, NotUpload, Go, Answer

LEMMA Basics ==
  /\ VideoSize \in Nat \ {0} /\ PartSize \in Nat \ {0} /\ MaxLogin \in Nat \ {0}
  /\ NoLogin = 0 /\ NoLogin \notin Login /\ 1 \in Login
  /\ \A o \in Object : Bytes(o) \subseteq Nat
  /\ NoConv \notin Conversation
  /\ NoMessage \notin Message
<1>1. VideoSize \in Nat \ {0} /\ PartSize \in Nat \ {0} /\ MaxLogin \in Nat \ {0}
  BY ApiAssumption DEF ApiAssumption
<1>2. NoLogin = 0 /\ NoLogin \notin Login /\ 1 \in Login
  BY <1>1 DEF Login, NoLogin
<1>3. \A o \in Object : Bytes(o) \subseteq Nat
  BY <1>1 DEF Bytes, Size
<1>4. NoConv \notin Conversation
  BY <1>2, ApiAssumption DEF NoConv, Conversation, ApiAssumption
<1>5. NoMessage \notin Message
  BY DEF NoMessage, Message
<1>6. QED
  BY <1>1, <1>2, <1>3, <1>4, <1>5

LEMMA InitInv == Init => IInv
<1> SUFFICES ASSUME Init PROVE IInv
  OBVIOUS
<1>1. TypeOK
  <2>1. NoShort \in ShortId
    BY DEF NoShort, Short, ShortId
  <2>2. /\ held \in [Request -> [Object -> SUBSET Nat]] /\ committed \in [Request -> SUBSET Object]
        /\ object \in [Request -> Object] /\ kind \in [Request -> Kind] /\ pc \in [Request -> Steps]
    BY DEF Init, Object, Kind, Steps
  <2>3. QED
    BY <2>1, <2>2, Basics DEF Init, TypeOK
<1>2. ReloginInv
  BY DEF Init, ReloginInv
<1>3. OneLoginPerMessage
  BY DEF Init, OneLoginPerMessage, Posted
<1>4. ASSUME NEW r \in Request PROVE LoginInv(r) /\ ChatInv(r) /\ StoreInv(r)
  <2>1. LoginInv(r)
    BY <1>4 DEF Init, LoginInv, Running
  <2>2. ChatInv(r)
    BY <1>4 DEF Init, ChatInv, Addressed, NoShort, Short
  <2>3. StoreInv(r)
    BY <1>4 DEF Init, StoreInv, OwnStore, Object
  <2>4. QED
    BY <2>1, <2>2, <2>3
<1>5. QED
  BY <1>1, <1>2, <1>3, <1>4 DEF IInv

\* A step of one call leaves the others alone.
Untouched(q) ==
  /\ pc'[q] = pc[q] /\ kind'[q] = kind[q] /\ target'[q] = target[q] /\ byUid'[q] = byUid[q]
  /\ short'[q] = short[q] /\ asset'[q] = asset[q] /\ object'[q] = object[q] /\ off'[q] = off[q]
  /\ pic'[q] = pic[q] /\ message'[q] = message[q] /\ answer'[q] = answer[q]
  /\ touched'[q] = touched[q] /\ held'[q] = held[q] /\ committed'[q] = committed[q]

LEMMA Frame ==
  ASSUME TypeOK, NEW r \in Request, NEW q \in Request, q # r,
         Refuse(r) \/ Accept(r) \/ Step(r)
  PROVE  Untouched(q)
<1>1. CASE Refuse(r)
  BY <1>1 DEF Refuse, TypeOK, Untouched
<1>2. CASE Accept(r)
  BY <1>2 DEF Accept, TypeOK, Untouched
<1>3. CASE GetUploadConfig(r) \/ ApplyUpload(r) \/ TosPut(r) \/ ChunkInit(r)
  BY <1>3 DEF GetUploadConfig, ApplyUpload, TosPut, ChunkInit, Stored, TypeOK, Untouched
<1>4. CASE ChunkTransfer(r) \/ ChunkFinish(r) \/ CommitUpload(r) \/ Fail(r)
  BY <1>4 DEF ChunkTransfer, ChunkFinish, CommitUpload, Fail, Stored, TypeOK, Untouched
<1>5. CASE BuildBody(r) \/ Post(r) \/ Reply(r)
  BY <1>5 DEF BuildBody, Post, Reply, TypeOK, Untouched
<1>6. QED
  BY <1>1, <1>2, <1>3, <1>4, <1>5 DEF Step

\* Relogin and the receiving of frames leave every call alone but for its history.
LEMMA StepsOfOthers ==
  Incoming \/ Relogin \/ UNCHANGED vars =>
    UNCHANGED <<pc, kind, target, byUid, short, asset, object, off, pic, message, answer, held, committed>>
BY DEF Incoming, Relogin

LEMMA IncomingType == TypeOK /\ Incoming => TypeOK'
<1> SUFFICES ASSUME TypeOK, Incoming PROVE TypeOK'
  OBVIOUS
<1>1. shorts' \subseteq Group /\ events' \subseteq Conversation
  <2>1. \A g \in Group : GroupOf(g) \in Conversation
    BY DEF GroupOf, Conversation
  <2>2. \A p \in Peer : Private(uid, p) \in Conversation
    BY DEF Private, Conversation, TypeOK
  <2>3. QED
    BY <2>1, <2>2 DEF Incoming, Named, TypeOK
<1>2. QED
  BY <1>1 DEF Incoming, TypeOK

LEMMA AcceptType == ASSUME TypeOK, NEW r \in Request, Accept(r) PROVE TypeOK'
<1>1. PICK k \in Kind : kind' = [kind EXCEPT ![r] = k] /\ pc' = [pc EXCEPT ![r] = FirstStep(k)]
  BY DEF Accept
<1>2. kind' \in [Request -> Kind] /\ pc' \in [Request -> Steps] /\ kind'[r] = k
  BY <1>1 DEF TypeOK, FirstStep, Steps
<1>3. target' \in [Request -> Conversation \cup {NoConv}] /\ byUid' \in [Request -> BOOLEAN]
  <2>1. \A p \in Peer : ResolveConv(p) \in Conversation
    BY DEF ResolveConv, Private, Conversation, TypeOK
  <2>2. CASE UNCHANGED <<target, byUid>>
    BY <2>2 DEF TypeOK
  <2>3. ASSUME NEW c \in events, target' = [target EXCEPT ![r] = c], UNCHANGED byUid
        PROVE  target' \in [Request -> Conversation \cup {NoConv}] /\ byUid' \in [Request -> BOOLEAN]
    BY <2>3 DEF TypeOK
  <2>4. ASSUME NEW p \in Peer, target' = [target EXCEPT ![r] = ResolveConv(p)],
               byUid' = [byUid EXCEPT ![r] = TRUE]
        PROVE  target' \in [Request -> Conversation \cup {NoConv}] /\ byUid' \in [Request -> BOOLEAN]
    BY <2>1, <2>4 DEF TypeOK
  <2>5. QED
    BY <2>2, <2>3, <2>4 DEF Accept
<1>4. short' \in [Request -> ShortId]
  <2>1. CASE UNCHANGED short
    BY <2>1 DEF TypeOK
  <2>2. CASE target'[r].group /\ short' = [short EXCEPT ![r] = Short("true", target'[r].id)]
    <3>1. target'[r].id \in Group \cup Peer \cup {NoId}
      <4>1. target'[r] \in Conversation \cup {NoConv}
        BY <1>3
      <4>2. CASE target'[r] \in Conversation
        BY <4>2 DEF Conversation
      <4>3. CASE target'[r] = NoConv
        BY <4>3 DEF NoConv
      <4>4. QED
        BY <4>1, <4>2, <4>3
    <3>2. Short("true", target'[r].id) \in ShortId
      BY <3>1 DEF Short, ShortId
    <3>3. QED
      BY <2>2, <3>2 DEF TypeOK
  <2>3. QED
    BY <2>1, <2>2 DEF Accept
<1>5. asset' \in [Request -> Request]
  <2>1. CASE UNCHANGED asset
    BY <2>1 DEF TypeOK
  <2>2. ASSUME NEW u \in Request, asset' = [asset EXCEPT ![r] = u] PROVE asset' \in [Request -> Request]
    BY <2>2 DEF TypeOK
  <2>3. QED
    BY <2>1, <2>2 DEF Accept
<1>6. touched' \in [Request -> BOOLEAN]
  <2>1. (relog # "idle") \in BOOLEAN /\ touched' = [touched EXCEPT ![r] = relog # "idle"]
    BY DEF Accept
  <2>2. QED
    BY <2>1 DEF TypeOK
<1>7. QED
  BY <1>2, <1>3, <1>4, <1>5, <1>6 DEF Accept, TypeOK

\* What a call stores is added to what it had stored.
LEMMA StoredType ==
  ASSUME TypeOK, NEW r \in Request, NEW bytes \in SUBSET Nat, Stored(r, bytes)
  PROVE  /\ held' \in [Request -> [Object -> SUBSET Nat]]
         /\ held'[r][object[r]] = held[r][object[r]] \cup bytes
         /\ \A o \in Object : o # object[r] => held'[r][o] = held[r][o]
<1> DEFINE h == held[r]
<1> DEFINE g == [h EXCEPT ![object[r]] = @ \cup bytes]
<1>1. h \in [Object -> SUBSET Nat] /\ object[r] \in Object
  BY DEF TypeOK
<1>2. g \in [Object -> SUBSET Nat] /\ g[object[r]] = h[object[r]] \cup bytes
      /\ \A o \in Object : o # object[r] => g[o] = h[o]
  BY <1>1
<1>3. held' = [held EXCEPT ![r] = g]
  BY DEF Stored, TypeOK
<1>4. held \in [Request -> [Object -> SUBSET Nat]]
  BY DEF TypeOK
<1> HIDE DEF g
<1>5. held' \in [Request -> [Object -> SUBSET Nat]] /\ held'[r] = g
  BY <1>2, <1>3, <1>4
<1>6. QED
  BY <1>2, <1>5

\* What a call sends names a conversation, and a short id of the right kind.
LEMMA ShortSent ==
  ASSUME TypeOK, NEW r \in Request, ChatInv(r), Addressed(kind[r])
  PROVE  /\ ShortToSend(r) \in ShortId
         /\ ShortToSend(r).kind # "none" => ShortToSend(r).id = target[r].id
         /\ target[r].group /\ kind[r] # "recall" => ShortToSend(r).kind # "none"
<1>1. target[r] \in Conversation /\ short[r] \in ShortId
  BY DEF ChatInv, TypeOK
<1>2. target[r].group \in BOOLEAN /\ target[r].id \in Group \cup Peer
  BY <1>1 DEF Conversation
<1>3. short[r].kind # "none" => short[r] = Short("true", target[r].id)
  BY DEF ChatInv
<1>4. \A k \in {"true", "number"} : /\ Short(k, target[r].id) \in ShortId
                                    /\ Short(k, target[r].id).kind = k
                                    /\ Short(k, target[r].id).id = target[r].id
  BY <1>2 DEF Short, ShortId
<1>5. QED
  BY <1>1, <1>2, <1>3, <1>4 DEF ShortToSend, RecallShort, ResolveConvSend, ResolveShort

LEMMA StepType ==
  ASSUME TypeOK, NEW r \in Request, ChatInv(r), Step(r)
  PROVE  TypeOK'
<1>1. CASE GetUploadConfig(r) \/ ApplyUpload(r) \/ ChunkFinish(r)
  <2>1. pc' \in [Request -> Steps]
    BY <1>1 DEF GetUploadConfig, ApplyUpload, ChunkFinish, TypeOK, Steps
  <2>2. QED
    BY <1>1, <2>1 DEF GetUploadConfig, ApplyUpload, ChunkFinish, TypeOK
<1>10. CASE ChunkInit(r)
  <2>1. pc' \in [Request -> Steps]
    BY <1>10 DEF ChunkInit, TypeOK, Steps
  <2>2. off' \in [Request -> Nat]
    BY <1>10 DEF ChunkInit, TypeOK
  <2>3. QED
    BY <1>10, <2>1, <2>2 DEF ChunkInit, TypeOK
<1>2. CASE TosPut(r)
  <2>1. Bytes(object[r]) \subseteq Nat
    BY Basics DEF TypeOK
  <2>2. held' \in [Request -> [Object -> SUBSET Nat]]
    BY <1>2, <2>1, StoredType DEF TosPut
  <2>3. pc' \in [Request -> Steps] /\ pic' \in [Request -> BOOLEAN]
    BY <1>2 DEF TosPut, TypeOK, Steps
  <2>4. QED
    BY <1>2, <2>2, <2>3 DEF TosPut, TypeOK
<1>3. CASE ChunkTransfer(r)
  <2>1. Part(off[r]) \subseteq Nat
    BY Basics DEF Part, Object
  <2>2. held' \in [Request -> [Object -> SUBSET Nat]]
    BY <1>3, <2>1, StoredType DEF ChunkTransfer
  <2>3. off' \in [Request -> Nat]
    BY <1>3, Basics DEF ChunkTransfer, TypeOK
  <2>4. QED
    BY <1>3, <2>2, <2>3 DEF ChunkTransfer, TypeOK, Steps
<1>4. CASE CommitUpload(r)
  <2>1. object' \in [Request -> Object] /\ committed' \in [Request -> SUBSET Object]
    BY <1>4 DEF CommitUpload, TypeOK, Object
  <2>2. QED
    BY <1>4, <2>1 DEF CommitUpload, TypeOK, Steps
<1>5. CASE Fail(r)
  BY <1>5 DEF Fail, TypeOK, Steps
<1>6. CASE BuildBody(r)
  <2>1. Addressed(kind[r])
    BY <1>6 DEF BuildBody, ChatInv
  <2>2. target[r] \in Conversation /\ ShortToSend(r) \in ShortId
    BY <2>1, ShortSent DEF ChatInv
  <2>3. [conv |-> target[r], short |-> ShortToSend(r), uid |-> uid, device |-> device,
         cookie |-> NoLogin, posted |-> FALSE] \in Message
    BY <2>2 DEF Message, TypeOK
  <2>4. message' \in [Request -> Message \cup {NoMessage}]
    BY <1>6, <2>3 DEF BuildBody, TypeOK
  <2>5. QED
    BY <1>6, <2>4 DEF BuildBody, TypeOK, Steps
<1>7. CASE Post(r)
  <2>1. message[r] \in Message
    BY <1>7 DEF Post, ChatInv, TypeOK
  <2>2. [message[r] EXCEPT !.cookie = cookie, !.posted = TRUE] \in Message
    BY <2>1 DEF Message, TypeOK
  <2>3. message' = [message EXCEPT ![r] = [message[r] EXCEPT !.cookie = cookie, !.posted = TRUE]]
    BY <1>7 DEF Post, TypeOK
  <2>4. message' \in [Request -> Message \cup {NoMessage}]
    BY <2>2, <2>3 DEF TypeOK
  <2>5. QED
    BY <1>7, <2>4 DEF Post, TypeOK, Steps
<1>8. CASE Reply(r)
  BY <1>8 DEF Reply, TypeOK, Steps
<1>9. QED
  BY <1>1, <1>2, <1>3, <1>4, <1>5, <1>6, <1>7, <1>8, <1>10 DEF Step

LEMMA TypeStep == IInv /\ [Next]_vars => TypeOK'
<1> SUFFICES ASSUME IInv, [Next]_vars PROVE TypeOK'
  OBVIOUS
<1>1. CASE Incoming
  BY <1>1, IncomingType DEF IInv
<1>2. CASE Relogin
  BY <1>2, Basics DEF Relogin, After, IInv, TypeOK, Login
<1>3. ASSUME NEW r \in Request, Refuse(r) PROVE TypeOK'
  BY <1>3 DEF Refuse, IInv, TypeOK, Steps
<1>4. ASSUME NEW r \in Request, Accept(r) PROVE TypeOK'
  BY <1>4, AcceptType DEF IInv
<1>5. ASSUME NEW r \in Request, Step(r) PROVE TypeOK'
  BY <1>5, StepType DEF IInv
<1>6. CASE UNCHANGED vars
  BY <1>6 DEF IInv, TypeOK
<1>7. QED
  BY <1>1, <1>2, <1>3, <1>4, <1>5, <1>6 DEF Next

----------------------------------------------------------------------------
(* Logins.                                                                 *)

\* Only relogin replaces a login.
LEMMA LoginKept ==
  ASSUME NEW r \in Request, Refuse(r) \/ Accept(r) \/ Step(r)
  PROVE  UNCHANGED login
BY DEF Refuse, Accept, Step, GetUploadConfig, ApplyUpload, TosPut, ChunkInit,
       ChunkTransfer, ChunkFinish, CommitUpload, Fail, BuildBody, Post, Reply

LEMMA ReloginStep == TypeOK /\ ReloginInv /\ [Next]_vars => ReloginInv'
<1> SUFFICES ASSUME TypeOK, ReloginInv, [Next]_vars PROVE ReloginInv'
  OBVIOUS
<1>1. CASE Relogin
  BY <1>1 DEF Relogin, After, ReloginInv, TypeOK
<1>2. CASE UNCHANGED login
  BY <1>2 DEF ReloginInv
<1>3. [Next]_vars => Relogin \/ UNCHANGED login
  BY LoginKept DEF Next, Incoming
<1>4. QED
  BY <1>1, <1>2, <1>3

LEMMA LoginInvOwn ==
  ASSUME TypeOK, ReloginInv, NEW r \in Request, LoginInv(r), Accept(r) \/ Refuse(r) \/ Step(r),
         ChatInv(r)
  PROVE  LoginInv(r)'
<1>1. UNCHANGED login
  BY LoginKept
<1>2. CASE Refuse(r)
  BY <1>2 DEF Refuse, LoginInv, Running, TypeOK
<1>3. CASE Accept(r)
  <2>1. touched'[r] = (relog # "idle") /\ pc'[r] # "post"
    BY <1>3 DEF Accept, TypeOK, FirstStep
  <2>2. byUid'[r] => target'[r].own = acc
    <3>1. CASE UNCHANGED byUid
      BY <1>3, <3>1 DEF Accept, ChatInv
    <3>2. ASSUME NEW p \in Peer, target' = [target EXCEPT ![r] = ResolveConv(p)] PROVE target'[r].own = acc
      BY <3>2 DEF TypeOK, ResolveConv, Private
    <3>3. QED
      BY <1>3, <3>1, <3>2 DEF Accept
  <2>3. QED
    BY <1>1, <2>1, <2>2 DEF LoginInv
<1>4. CASE BuildBody(r)
  BY <1>1, <1>4 DEF BuildBody, LoginInv, Running, TypeOK, ReloginInv
<1>5. CASE GetUploadConfig(r) \/ ApplyUpload(r) \/ TosPut(r) \/ ChunkInit(r)
  BY <1>1, <1>5 DEF GetUploadConfig, ApplyUpload, TosPut, ChunkInit, LoginInv, Running, TypeOK
<1>6. CASE ChunkTransfer(r) \/ ChunkFinish(r) \/ CommitUpload(r) \/ Fail(r)
  BY <1>1, <1>6 DEF ChunkTransfer, ChunkFinish, CommitUpload, Fail, LoginInv, Running, TypeOK
<1>7. CASE Post(r) \/ Reply(r)
  BY <1>1, <1>7 DEF Post, Reply, LoginInv, Running, TypeOK
<1>8. QED
  BY <1>2, <1>3, <1>4, <1>5, <1>6, <1>7 DEF Step

LEMMA LoginStep == IInv /\ [Next]_vars => \A q \in Request : LoginInv(q)'
<1> SUFFICES ASSUME IInv, [Next]_vars, NEW q \in Request PROVE LoginInv(q)'
  OBVIOUS
<1>0. TypeOK /\ ReloginInv /\ LoginInv(q) /\ ChatInv(q)
  BY DEF IInv
<1>1. CASE Incoming \/ UNCHANGED vars
  BY <1>0, <1>1 DEF Incoming, LoginInv, Running
<1>2. CASE Relogin
  <2>1. touched'[q] = (touched[q] \/ Running(q)) /\ pc' = pc
    BY <1>2 DEF Relogin
  <2>2. ~(Running(q)' /\ ~touched'[q])
    BY <2>1 DEF Running
  <2>3. pc[q] = "post" => Running(q)
    BY DEF Running
  <2>4. QED
    BY <2>1, <2>2, <2>3 DEF LoginInv, Running
<1>3. ASSUME NEW r \in Request, Refuse(r) \/ Accept(r) \/ Step(r) PROVE LoginInv(q)'
  <2>1. CASE q = r
    BY <1>0, <1>3, <2>1, LoginInvOwn
  <2>2. CASE q # r
    <3>1. Untouched(q) /\ UNCHANGED login
      BY <1>0, <1>3, <2>2, Frame, LoginKept
    <3>2. QED
      BY <1>0, <3>1 DEF Untouched, LoginInv, Running
  <2>3. QED
    BY <2>1, <2>2
<1>4. QED
  BY <1>1, <1>2, <1>3 DEF Next

\* What a posted message says changes only when it is posted.
LEMMA OneLoginStep == IInv /\ [Next]_vars => OneLoginPerMessage'
<1> SUFFICES ASSUME IInv, [Next]_vars, NEW q \in Request, Posted(q)', ~touched'[q]
             PROVE  /\ message'[q].uid = message'[q].cookie /\ message'[q].device = message'[q].cookie
                    /\ byUid'[q] => message'[q].conv.own = message'[q].cookie
  BY DEF OneLoginPerMessage
<1>0. TypeOK /\ ReloginInv /\ LoginInv(q) /\ ChatInv(q) /\ OneLoginPerMessage
  BY DEF IInv
<1>1. CASE Posted(q) /\ ~touched[q] /\ message'[q] = message[q] /\ byUid'[q] = byUid[q]
  BY <1>0, <1>1 DEF OneLoginPerMessage
<1>2. CASE Incoming \/ Relogin \/ UNCHANGED vars
  <2>1. message' = message /\ byUid' = byUid /\ ~touched[q]
    BY <1>0, <1>2 DEF Incoming, Relogin, TypeOK
  <2>2. QED
    BY <1>1, <2>1 DEF Posted
<1>3. ASSUME NEW r \in Request, Refuse(r) \/ Accept(r) \/ Step(r), q # r
      PROVE  Posted(q) /\ ~touched[q] /\ message'[q] = message[q] /\ byUid'[q] = byUid[q]
  BY <1>0, <1>3, Frame DEF Untouched, Posted
<1>4. CASE Refuse(q)
  BY <1>0, <1>1, <1>4 DEF Refuse, TypeOK, Posted
<1>5. CASE Accept(q)
  <2>1. message[q] = NoMessage
    BY <1>0, <1>5 DEF Accept, ChatInv, Addressed
  <2>2. QED
    BY <1>5, <2>1 DEF Accept, Posted
<1>6. CASE Step(q) /\ ~BuildBody(q) /\ ~Post(q)
  BY <1>0, <1>1, <1>6 DEF Step, GetUploadConfig, ApplyUpload, TosPut, ChunkInit, ChunkTransfer,
                          ChunkFinish, CommitUpload, Fail, Reply, Posted
<1>7. CASE BuildBody(q)
  BY <1>0, <1>7 DEF BuildBody, TypeOK, Posted
<1>8. CASE Post(q)
  <2>1. message[q] \in Message /\ message[q].conv = target[q]
    BY <1>0, <1>8 DEF Post, TypeOK, ChatInv
  <2>2. message'[q] = [message[q] EXCEPT !.cookie = cookie, !.posted = TRUE]
    BY <1>0, <1>8 DEF Post, TypeOK
  <2>3. /\ message'[q].uid = message[q].uid /\ message'[q].device = message[q].device
        /\ message'[q].conv = message[q].conv /\ message'[q].cookie = cookie
    BY <2>1, <2>2 DEF Message
  <2>4. ~touched[q] /\ byUid' = byUid
    BY <1>8 DEF Post
  <2>5. message[q].uid = acc /\ message[q].device = acc /\ relog = "idle" /\ (byUid[q] => target[q].own = acc)
    BY <1>0, <1>8, <2>4 DEF Post, LoginInv, Running
  <2>6. QED
    BY <1>0, <2>1, <2>3, <2>4, <2>5 DEF ReloginInv
<1>9. QED
  BY <1>1, <1>2, <1>3, <1>4, <1>5, <1>6, <1>7, <1>8 DEF Next

----------------------------------------------------------------------------
(* Conversations.                                                          *)

LEMMA EventsKept ==
  ASSUME NEW r \in Request, Refuse(r) \/ Accept(r) \/ Step(r)
  PROVE  UNCHANGED <<shorts, events>>
BY DEF Refuse, Accept, Step, GetUploadConfig, ApplyUpload, TosPut, ChunkInit,
       ChunkTransfer, ChunkFinish, CommitUpload, Fail, BuildBody, Post, Reply

\* An accepted call has a conversation if its kind needs one, and a short id of that
\* conversation or none.
LEMMA AcceptChat ==
  ASSUME TypeOK, NEW r \in Request, ChatInv(r), Accept(r)
  PROVE  ChatInv(r)'
<1>1. PICK k \in Kind : kind' = [kind EXCEPT ![r] = k] /\ pc' = [pc EXCEPT ![r] = FirstStep(k)]
  BY DEF Accept
<1>2. kind'[r] = k /\ pc'[r] = FirstStep(k)
  BY <1>1 DEF TypeOK
<1>3. /\ kind[r] = "query" /\ answer[r] = "none" /\ ~byUid[r] /\ short[r].kind = "none"
      /\ message[r] = NoMessage /\ object[r] = "image"
  BY DEF Accept, ChatInv, Addressed
<1>4. message' = message /\ object' = object /\ answer' = answer /\ events' = events
  BY DEF Accept
<1>5. /\ pc'[r] \in {"config", "await", "send"}
      /\ pc'[r] = "send" => Addressed(k)
      /\ pc'[r] = "await" => k = "query"
      /\ pc'[r] = "config" => k \in {"upload", "video"}
  BY <1>2 DEF FirstStep, Addressed, Kind
<1>6. ASSUME Addressed(k)
      PROVE  /\ target'[r] \in Conversation
             /\ ~byUid'[r] => target'[r] \in events
             /\ short'[r].kind # "none" => short'[r] = Short("true", target'[r].id)
  <2>1. PICK c \in Conversation : /\ target' = [target EXCEPT ![r] = c]
                                  /\ c \in events \/ byUid' = [byUid EXCEPT ![r] = TRUE]
    <3>1. CASE \E c \in events : target' = [target EXCEPT ![r] = c]
      BY <3>1 DEF TypeOK
    <3>2. ASSUME NEW p \in Peer, target' = [target EXCEPT ![r] = ResolveConv(p)],
                 byUid' = [byUid EXCEPT ![r] = TRUE]
          PROVE  ResolveConv(p) \in Conversation
      BY DEF ResolveConv, Private, Conversation, TypeOK
    <3>3. QED
      BY <1>2, <1>6, <3>1, <3>2 DEF Accept
  <2>2. target'[r] = c /\ (c \in events \/ byUid'[r])
    BY <2>1 DEF TypeOK
  <2>3. UNCHANGED short \/ short'[r] = Short("true", target'[r].id)
    BY <1>2, <1>6 DEF Accept, TypeOK
  <2>4. QED
    BY <1>3, <2>2, <2>3
<1>7. QED
  BY <1>2, <1>3, <1>4, <1>5, <1>6 DEF ChatInv

LEMMA ChatInvOwn ==
  ASSUME TypeOK, NEW r \in Request, ChatInv(r), Refuse(r) \/ Accept(r) \/ Step(r)
  PROVE  ChatInv(r)'
<1>1. CASE Accept(r)
  BY <1>1, AcceptChat
<1>2. CASE Refuse(r)
  BY <1>2 DEF Refuse, TypeOK, ChatInv
<1>3. CASE GetUploadConfig(r) \/ ApplyUpload(r) \/ ChunkInit(r)
  BY <1>3 DEF GetUploadConfig, ApplyUpload, ChunkInit, TypeOK, ChatInv
<1>4. CASE ChunkTransfer(r) \/ ChunkFinish(r)
  BY <1>4 DEF ChunkTransfer, ChunkFinish, TypeOK, ChatInv
<1>5. CASE TosPut(r)
  BY <1>5 DEF TosPut, TypeOK, ChatInv, Addressed
<1>6. CASE CommitUpload(r)
  BY <1>6 DEF CommitUpload, TypeOK, ChatInv
<1>7. CASE Fail(r)
  BY <1>7 DEF Fail, TypeOK, ChatInv, Addressed
<1>8. CASE BuildBody(r)
  <2>1. Addressed(kind[r])
    BY <1>8 DEF BuildBody, ChatInv
  <2>2. message'[r] # NoMessage
    BY <1>8 DEF BuildBody, NoMessage, TypeOK
  <2>3. message'[r].conv = target[r] /\ message'[r].short = ShortToSend(r)
    BY <1>8 DEF BuildBody, TypeOK
  <2>4. pc'[r] = "post"
    BY <1>8 DEF BuildBody, TypeOK
  <2>5. QED
    BY <1>8, <2>1, <2>2, <2>3, <2>4, ShortSent DEF BuildBody, ChatInv
<1>9. CASE Post(r)
  <2>1. message[r] \in Message /\ message[r] # NoMessage
    BY <1>9 DEF Post, TypeOK, ChatInv
  <2>2. message'[r] = [message[r] EXCEPT !.cookie = cookie, !.posted = TRUE]
    BY <1>9 DEF Post, TypeOK
  <2>3. message'[r].conv = message[r].conv /\ message'[r].short = message[r].short
    BY <2>1, <2>2 DEF Message
  <2>4. Addressed(kind[r]) /\ kind[r] # "upload"
    BY <2>1 DEF ChatInv, Addressed
  <2>5. pc'[r] = "await"
    BY <1>9 DEF Post, TypeOK
  <2>6. QED
    BY <1>9, <2>1, <2>3, <2>4, <2>5 DEF Post, ChatInv
<1>10. CASE Reply(r)
  BY <1>10 DEF Reply, TypeOK, ChatInv
<1>11. QED
  BY <1>1, <1>2, <1>3, <1>4, <1>5, <1>6, <1>7, <1>8, <1>9, <1>10 DEF Step

LEMMA ChatStep == IInv /\ [Next]_vars => \A q \in Request : ChatInv(q)'
<1> SUFFICES ASSUME IInv, [Next]_vars, NEW q \in Request PROVE ChatInv(q)'
  OBVIOUS
<1>0. TypeOK /\ ChatInv(q)
  BY DEF IInv
<1>1. CASE Incoming \/ Relogin \/ UNCHANGED vars
  <2>1. events \subseteq events'
    BY <1>1 DEF Incoming, Relogin, Named
  <2>2. QED
    BY <1>0, <1>1, <2>1, StepsOfOthers DEF ChatInv
<1>2. ASSUME NEW r \in Request, Refuse(r) \/ Accept(r) \/ Step(r) PROVE ChatInv(q)'
  <2>1. CASE q = r
    BY <1>0, <1>2, <2>1, ChatInvOwn
  <2>2. CASE q # r
    <3>1. Untouched(q) /\ events' = events
      BY <1>0, <1>2, <2>2, Frame, EventsKept
    <3>2. QED
      BY <1>0, <3>1 DEF Untouched, ChatInv
  <2>3. QED
    BY <2>1, <2>2
<1>3. QED
  BY <1>1, <1>2 DEF Next

----------------------------------------------------------------------------
(* Storage.                                                                *)

\* Nothing is taken off the storage, and no byte is put there that its object has not.
LEMMA StorageGrows ==
  ASSUME TypeOK, NEW r \in Request, StoreInv(r), Refuse(r) \/ Accept(r) \/ Step(r)
  PROVE  /\ \A o \in Object : held[r][o] \subseteq held'[r][o] /\ held'[r][o] \subseteq Bytes(o)
         /\ committed[r] \subseteq committed'[r]
<1>1. CASE TosPut(r)
  <2>1. object[r] \in Object /\ Bytes(object[r]) \subseteq Nat
    BY Basics DEF TypeOK
  <2>2. QED
    BY <1>1, <2>1, StoredType DEF TosPut, StoreInv, OwnStore
<1>2. CASE ChunkTransfer(r)
  <2>1. object[r] = "video" /\ Part(off[r]) \subseteq Bytes("video") /\ Bytes("video") \subseteq Nat
    BY <1>2, Basics DEF ChunkTransfer, StoreInv, OwnStore, Part, Object
  <2>2. QED
    BY <1>2, <2>1, StoredType DEF ChunkTransfer, StoreInv, OwnStore
<1>3. CASE ~TosPut(r) /\ ~ChunkTransfer(r)
  <2>1. held' = held
    BY <1>3 DEF Refuse, Accept, Step, GetUploadConfig, ApplyUpload, ChunkInit, ChunkFinish,
                CommitUpload, Fail, BuildBody, Post, Reply
  <2>2. CASE CommitUpload(r)
    BY <2>1, <2>2 DEF CommitUpload, TypeOK, StoreInv, OwnStore
  <2>3. CASE ~CommitUpload(r)
    BY <1>3, <2>1, <2>3 DEF Refuse, Accept, Step, GetUploadConfig, ApplyUpload, ChunkInit, ChunkFinish,
                            Fail, BuildBody, Post, Reply, StoreInv, OwnStore
  <2>4. QED
    BY <2>2, <2>3
<1>4. QED
  BY <1>1, <1>2, <1>3, Zenon DEF TosPut, ChunkTransfer

\* An object that is whole stays whole.
LEMMA WholeStays ==
  ASSUME IInv, [Next]_vars, NEW u \in Request, NEW o \in Object, Whole(u, o)
  PROVE  Whole(u, o)'
<1>0. TypeOK /\ StoreInv(u)
  BY DEF IInv
<1>1. CASE Incoming \/ Relogin \/ UNCHANGED vars
  BY <1>1, StepsOfOthers DEF Whole
<1>2. ASSUME NEW r \in Request, Refuse(r) \/ Accept(r) \/ Step(r) PROVE Whole(u, o)'
  <2>1. CASE u = r
    BY <1>0, <1>2, <2>1, StorageGrows DEF Whole
  <2>2. CASE u # r
    BY <1>0, <1>2, <2>2, Frame DEF Untouched, Whole
  <2>3. QED
    BY <2>1, <2>2
<1>3. QED
  BY <1>1, <1>2 DEF Next

\* The last part ends with the last byte, and the parts before it left no gap.
LEMMA PartsLeaveNoGap ==
  ASSUME TypeOK, NEW r \in Request, StoreInv(r), ChunkTransfer(r)
  PROVE  /\ pc'[r] = "part" => /\ off'[r] < VideoSize
                               /\ \A b \in Bytes("video") : b < off'[r] => b \in held'[r]["video"]
         /\ pc'[r] # "part" => pc'[r] = "finish" /\ held'[r]["video"] = Bytes("video")
<1>1. object[r] = "video" /\ Part(off[r]) \in SUBSET Nat /\ Stored(r, Part(off[r]))
  BY Basics DEF ChunkTransfer, StoreInv, OwnStore, Part, Object
<1>2. held'[r]["video"] = held[r]["video"] \cup Part(off[r])
  BY <1>1, StoredType
<1>3. off[r] \in Nat /\ off'[r] = off[r] + PartSize /\ PartSize \in Nat /\ VideoSize \in Nat
  BY Basics DEF ChunkTransfer, TypeOK
<1>4. \A b \in Bytes("video") : b < off[r] => b \in held[r]["video"]
  BY DEF ChunkTransfer, StoreInv, OwnStore
<1>5. \A b \in Bytes("video") : b \in Nat /\ b < VideoSize
  BY <1>3 DEF Bytes, Size
<1>6. \A b \in Bytes("video") : b < off'[r] => b \in held'[r]["video"]
  BY <1>2, <1>3, <1>4, <1>5 DEF Part
<1>7. pc'[r] = IF off'[r] < VideoSize THEN "part" ELSE "finish"
  BY <1>3 DEF ChunkTransfer, TypeOK, MoreParts
<1>8. held'[r]["video"] \subseteq Bytes("video")
  BY StorageGrows DEF Step, Object
<1>9. CASE off'[r] < VideoSize
  BY <1>6, <1>7, <1>9
<1>10. CASE ~(off'[r] < VideoSize)
  <2>1. Bytes("video") \subseteq held'[r]["video"]
    BY <1>3, <1>5, <1>6, <1>10
  <2>2. QED
    BY <1>7, <1>8, <1>10, <2>1
<1>11. QED
  BY <1>9, <1>10

\* An image that is sent is one an upload answered with.
LEMMA AssetWhole ==
  ASSUME IInv, [Next]_vars, NEW q \in Request, kind'[q] = "image"
  PROVE  "image" \in committed'[asset'[q]] /\ held'[asset'[q]]["image"] = Bytes("image")
<1>0. TypeOK /\ StoreInv(q)
  BY DEF IInv
<1>1. CASE kind[q] = "image" /\ asset'[q] = asset[q]
  <2>1. asset[q] \in Request /\ Whole(asset[q], "image") /\ "image" \in Object
    BY <1>0, <1>1 DEF StoreInv, OwnStore, TypeOK, Object
  <2>2. PICK u \in Request : u = asset[q]
    BY <2>1
  <2>3. Whole(u, "image")'
    BY <2>1, <2>2, WholeStays
  <2>4. QED
    BY <1>1, <2>2, <2>3 DEF Whole
<1>2. CASE Accept(q)
  <2>1. PICK u \in Request : kind[u] = "upload" /\ answer[u] = "ok" /\ asset' = [asset EXCEPT ![q] = u]
    BY <1>2 DEF Accept
  <2>2. Whole(u, "image") /\ asset'[q] = u
    BY <1>0, <2>1 DEF IInv, StoreInv, OwnStore, TypeOK
  <2>3. held' = held /\ committed' = committed
    BY <1>2 DEF Accept
  <2>4. QED
    BY <2>2, <2>3 DEF Whole
<1>3. CASE ~Accept(q)
  <2>1. CASE Incoming \/ Relogin \/ UNCHANGED vars
    BY <1>1, <2>1, StepsOfOthers
  <2>2. ASSUME NEW r \in Request, Refuse(r) \/ Accept(r) \/ Step(r), r # q
        PROVE  kind[q] = "image" /\ asset'[q] = asset[q]
    BY <1>0, <2>2, Frame DEF Untouched
  <2>3. CASE Refuse(q) \/ Step(q)
    BY <1>1, <2>3 DEF Refuse, Step, GetUploadConfig, ApplyUpload, TosPut, ChunkInit, ChunkTransfer,
                      ChunkFinish, CommitUpload, Fail, BuildBody, Post, Reply
  <2>4. QED
    BY <1>1, <1>3, <2>1, <2>2, <2>3 DEF Next
<1>4. QED
  BY <1>2, <1>3

LEMMA OwnStoreStep ==
  ASSUME IInv, [Next]_vars, NEW r \in Request, Refuse(r) \/ Accept(r) \/ Step(r)
  PROVE  OwnStore(r)'
<1>0. TypeOK /\ StoreInv(r) /\ ChatInv(r)
  BY DEF IInv
<1>1. OwnStore(r)
  BY <1>0 DEF StoreInv, OwnStore
<1>2. (Whole(r, "image") => Whole(r, "image")') /\ (Whole(r, "video") => Whole(r, "video")')
  BY WholeStays DEF Object
<1>3. /\ \A o \in Object : held[r][o] \subseteq held'[r][o] /\ held'[r][o] \subseteq Bytes(o)
      /\ object[r] \in Object /\ "video" \in Object /\ "check" \in Object /\ "image" \in Object
  BY <1>0, StorageGrows DEF TypeOK, Object
<1>4. CASE Refuse(r)
  BY <1>0, <1>1, <1>2, <1>4 DEF Refuse, TypeOK, OwnStore
<1>5. CASE Accept(r)
  <2>1. PICK k \in Kind : kind' = [kind EXCEPT ![r] = k] /\ pc' = [pc EXCEPT ![r] = FirstStep(k)]
    BY <1>5 DEF Accept
  <2>2. /\ object[r] = "image" /\ answer[r] = "none" /\ message[r] = NoMessage
        /\ UNCHANGED <<object, held, committed, pic, answer, message, off>>
    BY <1>0, <1>5 DEF Accept, ChatInv, Addressed
  <2>3. /\ pc'[r] \notin {"put", "init", "part", "finish", "commit", "post"}
        /\ kind'[r] = "video" => pc'[r] # "send"
    BY <1>0, <2>1 DEF FirstStep, TypeOK
  <2>4. QED
    BY <1>1, <2>2, <2>3 DEF OwnStore
<1>6. CASE GetUploadConfig(r) \/ ApplyUpload(r) \/ ChunkFinish(r)
  BY <1>0, <1>1, <1>2, <1>6 DEF GetUploadConfig, ApplyUpload, ChunkFinish, TypeOK, OwnStore
<1>7. CASE TosPut(r)
  <2>1. Bytes(object[r]) \in SUBSET Nat /\ Stored(r, Bytes(object[r]))
    BY <1>3, <1>7, Basics DEF TosPut
  <2>2. held'[r][object[r]] = Bytes(object[r])
    <3>1. held'[r][object[r]] = held[r][object[r]] \cup Bytes(object[r])
      BY <1>0, <2>1, StoredType
    <3>2. held'[r][object[r]] \subseteq Bytes(object[r])
      BY <1>3
    <3>3. QED
      BY <3>1, <3>2
  <2>3. /\ object' = object /\ kind' = kind /\ message' = message /\ answer' = answer
        /\ pc'[r] = IF object[r] = "check" THEN "send" ELSE "commit"
        /\ pic'[r] = (object[r] = "check")
    BY <1>0, <1>7 DEF TosPut, TypeOK
  <2>4. QED
    BY <1>1, <1>2, <2>2, <2>3 DEF OwnStore
<1>8. CASE ChunkInit(r)
  <2>1. off'[r] = 0 /\ pc'[r] = "part"
    BY <1>0, <1>8 DEF ChunkInit, TypeOK
  <2>2. 0 < VideoSize /\ \A b \in Bytes("video") : ~(b < 0)
    BY Basics DEF Bytes
  <2>3. object[r] = "video" /\ UNCHANGED <<object, pic, held, committed, kind, message, answer>>
    BY <1>1, <1>8 DEF ChunkInit, OwnStore
  <2>4. QED
    BY <1>1, <1>2, <2>1, <2>2, <2>3 DEF OwnStore
<1>9. CASE ChunkTransfer(r)
  <2>1. /\ pc'[r] = "part" => /\ off'[r] < VideoSize
                              /\ \A b \in Bytes("video") : b < off'[r] => b \in held'[r]["video"]
        /\ pc'[r] # "part" => pc'[r] = "finish" /\ held'[r]["video"] = Bytes("video")
    BY <1>0, <1>9, PartsLeaveNoGap
  <2>2. object[r] = "video" /\ UNCHANGED <<object, pic, committed, kind, message, answer>>
    BY <1>1, <1>9 DEF ChunkTransfer, OwnStore
  <2>3. pic[r] => held'[r]["check"] = Bytes("check")
    BY <1>1, <1>3 DEF OwnStore
  <2>4. QED
    BY <1>1, <1>2, <2>1, <2>2, <2>3 DEF OwnStore
<1>10. CASE CommitUpload(r)
  <2>1. held' = held /\ committed'[r] = committed[r] \cup {object[r]}
    BY <1>0, <1>10 DEF CommitUpload, TypeOK
  <2>2. object[r] \in committed'[r] /\ held'[r][object[r]] = Bytes(object[r])
    BY <1>1, <1>10, <2>1 DEF CommitUpload, OwnStore
  <2>3. \A o \in Object : o = object[r] => Whole(r, o)'
    BY <2>2 DEF Whole
  <2>4. pic' = pic /\ message' = message /\ kind' = kind
    BY <1>10 DEF CommitUpload
  <2>5. CASE kind[r] = "upload"
    <3>1. object' = object /\ pc'[r] = "done" /\ object[r] = "image"
      BY <1>0, <1>10, <2>5 DEF CommitUpload, TypeOK, ChatInv
    <3>2. QED
      BY <1>1, <1>3, <2>1, <2>3, <2>4, <2>5, <3>1 DEF OwnStore
  <2>6. CASE kind[r] # "upload"
    <3>1. /\ object'[r] = IF object[r] = "image" THEN "video" ELSE "check"
          /\ pc'[r] = "apply" /\ answer' = answer
      BY <1>0, <1>10, <2>6 DEF CommitUpload, TypeOK
    <3>2. Whole(r, "image")' /\ (object[r] # "image" => Whole(r, "video")')
      BY <1>1, <1>2, <1>3, <2>3 DEF OwnStore, Object
    <3>3. QED
      BY <1>1, <2>1, <2>4, <2>6, <3>1, <3>2 DEF OwnStore
  <2>7. QED
    BY <2>5, <2>6
<1>11. CASE Fail(r)
  BY <1>0, <1>1, <1>2, <1>11 DEF Fail, TypeOK, OwnStore
<1>12. CASE BuildBody(r) \/ Reply(r)
  BY <1>0, <1>1, <1>2, <1>12 DEF BuildBody, Reply, TypeOK, OwnStore, ChatInv
<1>13. CASE Post(r)
  BY <1>0, <1>1, <1>2, <1>13 DEF Post, TypeOK, OwnStore, ChatInv
<1>14. QED
  BY <1>4, <1>5, <1>6, <1>7, <1>8, <1>9, <1>10, <1>11, <1>12, <1>13 DEF Step

LEMMA StoreStep == IInv /\ [Next]_vars => \A q \in Request : StoreInv(q)'
<1> SUFFICES ASSUME IInv, [Next]_vars, NEW q \in Request PROVE StoreInv(q)'
  OBVIOUS
<1>0. TypeOK /\ StoreInv(q)
  BY DEF IInv
<1>1. kind'[q] = "image" => "image" \in committed'[asset'[q]] /\ held'[asset'[q]]["image"] = Bytes("image")
  BY AssetWhole
<1>2. OwnStore(q)' /\ \A o \in Object : held'[q][o] \subseteq Bytes(o)
  <2>1. CASE Incoming \/ Relogin \/ UNCHANGED vars
    BY <1>0, <2>1, StepsOfOthers DEF StoreInv, OwnStore, Whole
  <2>2. ASSUME NEW r \in Request, Refuse(r) \/ Accept(r) \/ Step(r)
        PROVE  OwnStore(q)' /\ \A o \in Object : held'[q][o] \subseteq Bytes(o)
    <3>1. CASE q = r
      BY <1>0, <2>2, <3>1, OwnStoreStep, StorageGrows
    <3>2. CASE q # r
      <4>1. Untouched(q)
        BY <1>0, <2>2, <3>2, Frame
      <4>2. QED
        BY <1>0, <4>1 DEF Untouched, StoreInv, OwnStore, Whole
    <3>3. QED
      BY <3>1, <3>2
  <2>3. QED
    BY <2>1, <2>2 DEF Next
<1>3. QED
  BY <1>1, <1>2 DEF StoreInv, Whole

----------------------------------------------------------------------------
(* The theorems.                                                           *)

LEMMA StepInv == IInv /\ [Next]_vars => IInv'
BY TypeStep, ReloginStep, OneLoginStep, LoginStep, ChatStep, StoreStep DEF IInv

\* The inductive invariant of the HTTP API holds however many calls run at once.
THEOREM ApiInvariant == Spec => []IInv
BY InitInv, StepInv, PTL DEF Spec

\* Every variable of the API model keeps its type.
THEOREM ApiTypeCorrect == Spec => []TypeOK
<1>1. IInv => TypeOK
  BY DEF IInv
<1>2. QED
  BY <1>1, ApiInvariant, PTL

\* A message mixes two logins only if a relogin (main.go:366) was under way while its call ran.
THEOREM MessagesKeepToOneLogin == Spec => []OneLoginPerMessage
<1>1. IInv => OneLoginPerMessage
  BY DEF IInv
<1>2. QED
  BY <1>1, ApiInvariant, PTL

\* An answer to an event goes to its conversation and never out with another's short id.
THEOREM RepliesGoToTheirChat == Spec => []RepliesReachTheChat
<1>1. IInv => RepliesReachTheChat
  BY DEF IInv, ChatInv, RepliesReachTheChat
<1>2. QED
  BY <1>1, ApiInvariant, PTL

\* No message refers to a file of which a byte is missing on the storage, or its commit.
THEOREM MessagesReferToWholeFiles == Spec => []SentOnlyCommitted
<1>1. IInv => SentOnlyCommitted
  BY DEF IInv, StoreInv, OwnStore, SentOnlyCommitted
<1>2. QED
  BY <1>1, ApiInvariant, PTL
=============================================================================
