----------------------------- MODULE ChatFrames -----------------------------
(***************************************************************************)
(* What the engine makes of a frame and of the conversation list           *)
(* (internal/engine/client.go, convlist.go): the search for chat items in  *)
(* decoded fields, the texts shown for them, the events handed on and the  *)
(* short ids learned.                                                      *)
(*                                                                         *)
(* A frame on the wire is a sequence of fields whose type is "varint",     *)
(* "text", "message" or "stop", a wire type the decoder gives up at.       *)
(* A text is one of                                                        *)
(*   <<"digits", n>>        a number: a user id or the id of a group       *)
(*   <<"private", x, y>>    "0:1:x:y", the id of a private conversation    *)
(*   <<"sec_uid", n>>       "MS4..."                                       *)
(*   <<"json", obj>>        a JSON object                                  *)
(*   NoText                 the empty text                                 *)
(* and obj tells of a JSON object what the code asks of it: an id of the   *)
(* content, aweType (0 when absent), the fields in "shows" that hold a     *)
(* text for display, and whether a usable skey, tkey and display_name are  *)
(* there.  Addresses, sizes and the other attributes of media are left out.*)
(***************************************************************************)
EXTENDS Protobuf

(***************************************************************************)
(* Lookups on decoded fields, used by every parser of the engine.          *)
(***************************************************************************)
Found(v) == <<v>>
NotFound == <<>>

\* The first field of the path's last number decides, a varint or not; a
\* message on the way that leads nowhere is passed over.
RECURSIVE SearchPath(_, _)
SearchPath(fields, path) ==
    LET at  == SelectSeq(fields, LAMBDA x : x.f = Head(path))
        sub == [i \in DOMAIN at |-> IF at[i].t = "message" THEN SearchPath(at[i].v, Tail(path))
                                                           ELSE NotFound]
        hit == SelectSeq(sub, LAMBDA r : r # NotFound)
    IN  IF at = <<>> THEN NotFound
        ELSE IF Len(path) = 1 THEN IF at[1].t = "varint" THEN Found(at[1].v) ELSE NotFound
        ELSE IF hit = <<>> THEN NotFound ELSE hit[1]

OfType(fields, num, t) ==
    LET at == SelectSeq(fields, LAMBDA x : x.f = num /\ x.t = t)
    IN  [i \in DOMAIN at |-> at[i].v]

ChildMsgs(fields, num) == OfType(fields, num, "message")

First(s, default) == IF s = <<>> THEN default ELSE s[1]

FirstMsg(fields, num)    == First(ChildMsgs(fields, num), <<>>)
FirstStr(fields, num)    == First(OfType(fields, num, "string"), <<>>)
FirstVarint(fields, num) == First(OfType(fields, num, "varint"), 0)

(***************************************************************************)
(* Texts.                                                                  *)
(***************************************************************************)
NoText == <<"none">>
Digits(n) == <<"digits", n>>
Private(x, y) == <<"private", x, y>>

(***************************************************************************)
(* Decoding, as Protobuf.DecodeTop does it on bytes.  The bytes of a       *)
(* private conversation id are those of a message: "0" and ":" read as     *)
(* field 6 with the number 58, and the rest is skipped or adds to it.  A   *)
(* message with no field before the point where the decoder gives up is    *)
(* not a message to it.                                                    *)
(***************************************************************************)
RECURSIVE Decoded(_)
Decoded(fields) ==
    LET stops == {i \in DOMAIN fields : fields[i].t = "stop"}
        kept  == SelectInSeq(fields, LAMBDA x : x.t = "stop")
        See(x) == CASE x.t = "text" /\ x.v[1] = "private" -> Field(x.f, "message", <<Field(6, "varint", 58)>>)
                    [] x.t = "text" /\ x.v[1] # "private" -> Field(x.f, "string", x.v)
                    [] x.t = "message" /\ Decoded(x.v) # <<>> -> Field(x.f, "message", Decoded(x.v))
                    [] x.t = "message" /\ Decoded(x.v) = <<>> -> Field(x.f, "bytes", <<>>)
                    [] OTHER -> x
        prefix == IF stops = {} THEN fields ELSE SubSeq(fields, 1, kept - 1)
    IN  [i \in DOMAIN prefix |-> See(prefix[i])]

\* The texts of the raw frame, those behind a stop included.
RECURSIVE Texts(_)
Texts(fields) ==
    FlattenSeq([i \in DOMAIN fields |->
        CASE fields[i].t = "text"    -> <<fields[i].v>>
          [] fields[i].t = "message" -> Texts(fields[i].v)
          [] OTHER                   -> <<>>])

(***************************************************************************)
(* One JSON object.                                                        *)
(***************************************************************************)
\* "text" > rich text > card > hint > system tip
DisplayOrder == <<"text", "content", "card", "hint", "system">>

Display(obj) == SelectSeq(DisplayOrder, LAMBDA k : k \in obj.shows)

Placeholder(obj) ==
    CASE obj.tkey                       -> <<"video">>
      [] ~obj.tkey /\ obj.awe = 2702 /\ obj.skey -> <<"image">>
      [] ~obj.tkey /\ obj.awe = 507     -> IF obj.named THEN <<"emoji_name">> ELSE <<"emoji">>
      [] OTHER                          -> <<>>

\* The text shown: its source and the content it comes from.
ItemText(obj) ==
    LET sources == Display(obj) \o Placeholder(obj)
    IN  IF sources = <<>> THEN NoText ELSE <<sources[1], obj.id>>

Direction(sender, self) == IF self # NoText /\ sender = self THEN "sent" ELSE "recv"

\* The item of a JSON text: none or one.
ParseChatJsonItem(obj, ctx, self) ==
    IF ItemText(obj) = NoText THEN <<>>
    ELSE <<[text |-> ItemText(obj), awe |-> obj.awe, dir |-> Direction(ctx.sender, self),
            conv |-> ctx.conv, sender |-> ctx.sender, sec |-> ctx.sec,
            image |-> obj.awe = 2702 /\ obj.skey, video |-> obj.tkey, emoji |-> obj.awe = 507,
            short |-> 0, server |-> 0]>>

Mentions(obj) == "text" \in obj.shows \/ obj.awe # 0 \/ obj.tkey

(***************************************************************************)
(* The search for items in decoded fields.                                 *)
(***************************************************************************)
NoContext == [sender |-> NoText, conv |-> NoText, sec |-> NoText]

IsText(x) == x.t = "string" /\ x.v # NoText

\* Variant of Learn: the sender is not picked up.
LearnNoSender(ctx, x) ==
    [ctx EXCEPT !.conv = IF IsText(x) /\ x.f = 1 /\ @ = NoText THEN x.v ELSE @]

\* Pass 1: the context a field adds.
Learn(ctx, x) ==
    [ctx EXCEPT
      !.sender = CASE x.f = 7 /\ x.t = "varint"                      -> Digits(x.v)
                   [] x.f = 7 /\ IsText(x) /\ x.v[1] = "digits"      -> x.v
                   [] OTHER -> @,
      !.conv   = CASE IsText(x) /\ x.v[1] = "private"                -> x.v
                   [] IsText(x) /\ x.v[1] # "private" /\ x.f = 1 /\ @ = NoText -> x.v
                   [] OTHER -> @,
      !.sec    = IF x.f = 14 /\ IsText(x) /\ x.v[1] = "sec_uid" THEN x.v ELSE @]

ShortPaths == <<<<8, 6, 500, 5, 5>>, <<8, 6, 100, 10, 2>>, <<8, 6, 100, 50, 2>>>>

\* The ids found from here on the way down are given to every item collected so far that has
\* none, whichever message of the frame they belong to.
Stamp(fields, items) ==
    LET found  == SelectSeq([i \in DOMAIN ShortPaths |-> SearchPath(fields, ShortPaths[i])],
                            LAMBDA r : r # NotFound)
        short  == IF found = <<>> THEN 0 ELSE found[1][1]
        server == First(SearchPath(fields, <<8, 6, 500, 5, 3>>), 0)
    IN  [i \in DOMAIN items |-> [items[i] EXCEPT !.short  = IF @ = 0 THEN short ELSE @,
                                                 !.server = IF @ = 0 THEN server ELSE @]]

RECURSIVE CollectChat(_, _, _, _)
CollectChat(fields, items, outer, self) ==
    LET ctx == FoldLeft(Learn, outer, fields)
        Tried(x) == IsText(x) /\ x.v[1] = "json" /\ (x.f \in {6, 8} \/ Mentions(x.v[2]))
        Take(got, x) == CASE Tried(x)         -> got \o ParseChatJsonItem(x.v[2], ctx, self)
                          [] x.t = "message"  -> CollectChat(x.v, got, ctx, self)
                          [] OTHER            -> got
    IN  Stamp(fields, FoldLeft(Take, items, fields))

\* When the fields give nothing: the JSON objects in the raw frame, with the first private
\* conversation id of the frame and no sender; equal text and type are taken once.
CollectChatFromRawJson(frame, self) ==
    LET texts == Texts(frame)
        ids   == SelectSeq(texts, LAMBDA v : v[1] = "private")
        jsons == SelectSeq(texts, LAMBDA v : v[1] = "json" /\ Mentions(v[2]))
        ctx   == [NoContext EXCEPT !.conv = First(ids, NoText)]
        Add(got, v) ==
            LET item == ParseChatJsonItem(v[2], ctx, self)
            IN  IF \E g \in ToSet(got), it \in ToSet(item) : g.text = it.text /\ g.awe = it.awe
                THEN got ELSE got \o item
    IN  FoldLeft(Add, <<>>, jsons)

ExtractChatItems(frame, self) ==
    LET items == CollectChat(Decoded(frame), <<>>, NoContext, self)
    IN  IF items = <<>> THEN CollectChatFromRawJson(frame, self) ELSE items

(***************************************************************************)
(* handleIncoming: the events of a frame, and the short ids it teaches.    *)
(***************************************************************************)
IsGroupConv(conv) == conv[1] = "digits"

\* User ids are numbers, ordered as the code orders their decimal texts.
Between(self, peer) ==
    IF self[2] <= peer[2] THEN Private(self[2], peer[2]) ELSE Private(peer[2], self[2])

EventConv(item, self) ==
    IF item.conv = NoText /\ item.text[1] # "system" /\ self[1] = "digits" /\ item.sender[1] = "digits"
    THEN Between(self, item.sender) ELSE item.conv

Event(item, self) ==
    [conv |-> EventConv(item, self), group |-> IsGroupConv(EventConv(item, self)),
     sender |-> item.sender, sec |-> item.sec, text |-> item.text, dir |-> item.dir,
     image |-> item.image, video |-> item.video, emoji |-> item.emoji]

Events(frame, self) ==
    LET items == ExtractChatItems(frame, self)
    IN  [i \in DOMAIN items |-> Event(items[i], self)]

\* The cache is a function from the conversations seen to their short ids.
LearnShort(cache, item) ==
    IF item.short # 0 /\ item.conv # NoText
    THEN [c \in DOMAIN cache \cup {item.conv} |-> IF c = item.conv THEN item.short ELSE cache[c]]
    ELSE cache

ShortIds(frame, self, cache) == FoldLeft(LearnShort, cache, ExtractChatItems(frame, self))

\* BuildConvID, for a message addressed to a user
BuildConvID(self, peer) ==
    IF self[1] # "digits" \/ peer[1] # "digits" \/ self = peer THEN NoText ELSE Between(self, peer)

ResolveShort(cache, conv, short) ==
    IF short = 0 /\ conv \in DOMAIN cache THEN cache[conv] ELSE short

(***************************************************************************)
(* The conversation list.                                                  *)
(***************************************************************************)
TextOr(s) == IF s = <<>> THEN NoText ELSE s

\* Variant of ParseConversation: only the first member box is read.
ParseConversationFirstBox(cv) ==
    LET people == ChildMsgs(FirstMsg(cv, 6), 1)
    IN  [conv    |-> TextOr(FirstStr(cv, 1)),
         group   |-> FirstVarint(cv, 3) = 2,
         short   |-> FirstVarint(cv, 2),
         members |-> [i \in DOMAIN people |-> [uid  |-> FirstVarint(people[i], 1),
                                               role |-> FirstVarint(people[i], 3),
                                               sec  |-> TextOr(FirstStr(people[i], 5))]],
         owner   |-> FirstVarint(FirstMsg(cv, 50), 12),
         last    |-> FirstVarint(FirstMsg(cv, 51), 10)]

ParseConversation(cv) ==
    LET boxes   == ChildMsgs(cv, 6)
        people  == FlattenSeq([i \in DOMAIN boxes |-> ChildMsgs(boxes[i], 1)])
        named   == SelectSeq(people, LAMBDA mem : FirstVarint(mem, 1) # 0)
    IN  [conv    |-> TextOr(FirstStr(cv, 1)),
         group   |-> FirstVarint(cv, 3) = 2,
         short   |-> FirstVarint(cv, 2),
         members |-> [i \in DOMAIN named |-> [uid  |-> FirstVarint(named[i], 1),
                                              role |-> FirstVarint(named[i], 3),
                                              sec  |-> TextOr(FirstStr(named[i], 5))]],
         owner   |-> FirstVarint(FirstMsg(cv, 50), 12),
         last    |-> FirstVarint(FirstMsg(cv, 51), 10)]

ParseConvListResp(body) ==
    LET top   == ChildMsgs(Decoded(body), 6)
        boxes == FlattenSeq([i \in DOMAIN top |-> ChildMsgs(top[i], 2006)])
        convs == FlattenSeq([i \in DOMAIN boxes |-> ChildMsgs(boxes[i], 1)])
    IN  [i \in DOMAIN convs |-> ParseConversation(convs[i])]
=============================================================================
