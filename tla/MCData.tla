------------------------------- MODULE MCData -------------------------------
(***************************************************************************)
(* Bounded inputs for the pure parts of the engine: the wire codec, the    *)
(* reading of frames and conversation lists, and the decryption of videos. *)
(* A behaviour chooses one input; the properties compare what the code     *)
(* computes from it with a reference.                                      *)
(***************************************************************************)
EXTENDS ChatFrames

CONSTANTS Alphabet,   \* bytes of the arbitrary buffers
          MaxLen      \* bound: their length

VARIABLES kind, input

vars == <<kind, input>>

M == INSTANCE Mp4

(***************************************************************************)
(* Buffers and trees for the codec.                                        *)
(***************************************************************************)
Num(f, n)  == Field(f, "varint", n)
Str(f, s)  == Field(f, "string", s)
Msg(f, xs) == Field(f, "message", xs)

Numbers == {0, 1, 127, 128, 16384, Modulus - 1}
Strings == {<<52, 50>>, <<123, 125>>, <<77, 83, 52, 33>>, <<33>>, <<>>}

Leaves == {Num(f, n) : f \in {1, 16}, n \in Numbers} \cup {Str(f, s) : f \in {2, 31}, s \in Strings}
Flat   == {<<x>> : x \in Leaves} \cup {<<x, y>> : x \in Leaves, y \in Leaves}
Trees  == Flat \cup {<<Msg(5, t), y>> : t \in {<<x>> : x \in Leaves}, y \in Leaves}
               \cup {<<Msg(500, <<Msg(5, <<x>>)>>)>> : x \in Leaves}

\* What the builders concatenate: a tree of fields as one buffer.
RECURSIVE Encode(_)
Encode(fields) ==
    LET One(x) == CASE x.t = "varint"  -> EncodeFieldVarint(x.f, x.v)
                    [] x.t = "message" -> EncodeLenDelim(x.f, Encode(x.v))
                    [] OTHER           -> EncodeLenDelim(x.f, x.v)
    IN  FlattenSeq([i \in DOMAIN fields |-> One(fields[i])])

\* The decoder can tell what each field of such a tree is.
RECURSIVE Unambiguous(_)
Unambiguous(fields) ==
    \A i \in DOMAIN fields :
        LET x == fields[i] IN
        /\ x.t = "string"  => LooksText(x.v) \/ (TextOk(x.v) /\ DecodeTop(x.v) = <<>>)
        /\ x.t = "message" => Unambiguous(x.v) /\ x.v # <<>> /\ ~LooksText(Encode(x.v))

(***************************************************************************)
(* Frames as the message server builds them, the place where the decoder   *)
(* gives up included.                                                      *)
(***************************************************************************)
Txt(f, v) == Field(f, "text", v)

Self == Digits(1)
Obj(id, awe, shows, skey, tkey, named) ==
    [id |-> id, awe |-> awe, shows |-> shows, skey |-> skey, tkey |-> tkey, named |-> named]

Contents == {Obj(1, 700, {"text"}, FALSE, FALSE, FALSE),
             Obj(2, 2702, {}, TRUE, FALSE, FALSE),
             Obj(3, 0, {}, FALSE, TRUE, FALSE),
             Obj(4, 507, {}, FALSE, FALSE, TRUE),
             Obj(5, 0, {"content", "hint"}, FALSE, FALSE, FALSE),
             Obj(6, 0, {"system"}, FALSE, FALSE, FALSE),
             Obj(7, 700, {}, FALSE, FALSE, FALSE)}

\* Conversations and who may write there; the short id of conversation c is ShortOf(c).
Convs == {Digits(9), Private(1, 2)}
ShortOf(c) == IF IsGroupConv(c) THEN 77 ELSE 55
Messages == [conv : Convs, sender : {1, 2}, known : BOOLEAN, content : Contents]

Body(msg) == <<Txt(1, msg.conv), Num(2, 1), Num(3, 300 + msg.content.id),
               Num(5, IF msg.known THEN ShortOf(msg.conv) ELSE 0), Num(7, msg.sender),
               Txt(8, <<"json", msg.content>>), Txt(14, <<"sec_uid", msg.sender>>)>>

Cut(body, at) == IF at = 0 THEN body
                 ELSE SubSeq(body, 1, at - 1) \o <<Field(1, "stop", 0)>> \o SubSeq(body, at, Len(body))

\* Message number "in" has the stop before its field "at"; at = 0 stands for no stop.
Frame(msgs, in, at) ==
    <<Num(1, 4), Msg(8, <<Msg(6, <<Msg(500,
        [i \in DOMAIN msgs |-> Msg(5, Cut(Body(msgs[i]), IF i = in THEN at ELSE 0))])>>)>>)>>

OneConv(msgs) == \A i, j \in DOMAIN msgs : msgs[i].conv = msgs[j].conv /\ msgs[i].known = msgs[j].known

(***************************************************************************)
(* Conversation lists.                                                     *)
(***************************************************************************)
Member(uid) == [uid |-> uid, role |-> uid % 2, sec |-> <<"sec_uid", uid>>]

\* The members come in one box or in two; a box entry without a user id may be among them.
ListEntries == [conv : Convs, short : {0, 77}, boxes : {<<<<1, 2>>>>, <<<<1>>, <<0, 2>>>>, <<>>}, owner : {0, 2}]

Uids(e) == SelectSeq(FlattenSeq(e.boxes), LAMBDA uid : uid # 0)

EntryFields(e) ==
    <<Txt(1, e.conv), Num(2, e.short), Num(3, IF IsGroupConv(e.conv) THEN 2 ELSE 1)>>
    \o [i \in DOMAIN e.boxes |-> Msg(6, [j \in DOMAIN e.boxes[i] |->
           LET mem == Member(e.boxes[i][j])
           IN  Msg(1, <<Num(1, mem.uid), Num(3, mem.role), Txt(5, mem.sec)>>)])]
    \o <<Msg(50, <<Num(12, e.owner)>>), Msg(51, <<Num(10, 123)>>)>>

ListBody(entries) ==
    <<Num(3, 0), Msg(6, <<Msg(2006, [i \in DOMAIN entries |-> Msg(1, EntryFields(entries[i]))])>>)>>

(***************************************************************************)
(* Videos as a muxer lays them out: chunk after chunk with a gap between,  *)
(* one track after the other.                                              *)
(***************************************************************************)
Total(s) == FoldLeft(LAMBDA a, b : a + b, 0, s)

Sub(c, p) == [clear |-> c, protected |-> p]

\* Sizes of the samples, samples per chunk, and the subsamples of every sample.
Plans == [sizes : {<<3, 3>>, <<3, 4, 3>>}, per : {<<1, 1>>, <<2>>, <<2, 1>>, <<1, 1, 1>>, <<1, 2>>},
          subs : {<<>>, <<Sub(1, 2)>>, <<Sub(0, 1), Sub(1, 1)>>, <<Sub(1, 1), Sub(1, 1)>>},
          entry : {"encv", "enca"}]

Fitting(plan) == Total(plan.per) = Len(plan.sizes)
                 /\ \A i \in DOMAIN plan.sizes : M!LengthOf(plan.subs) <= plan.sizes[i]

ChunkOf(plan, i) == CHOOSE c \in DOMAIN plan.per :
                        Total(SubSeq(plan.per, 1, c - 1)) < i /\ i <= Total(SubSeq(plan.per, 1, c))
SampleAt(plan, base, i) == base + Total(SubSeq(plan.sizes, 1, i - 1)) + 2 * (ChunkOf(plan, i) - 1)

Size(plan) == Total(plan.sizes) + 2 * Len(plan.per)

\* stsc holds an entry only where the number of samples per chunk changes.
Stsc(plan) ==
    LET changes == SelectSeq([c \in DOMAIN plan.per |-> c], LAMBDA c : c = 1 \/ plan.per[c] # plan.per[c - 1])
    IN  [k \in DOMAIN changes |-> [first |-> changes[k], per |-> plan.per[changes[k]]]]

AllBoxes == {"mdia", "minf", "stbl", "stsd", "sinf", "frma", "schi", "tenc", "senc", "stsz", "stsc", "stco"}

Track(plan, name, base) ==
    [boxes |-> AllBoxes, entry |-> plan.entry, sizes |-> plan.sizes, stsc |-> Stsc(plan),
     chunks |-> [c \in DOMAIN plan.per |-> SampleAt(plan, base, Total(SubSeq(plan.per, 1, c - 1)) + 1)],
     senc |-> [i \in DOMAIN plan.sizes |-> [iv |-> <<name, i>>, subs |-> plan.subs]]]

\* Byte r of every sample, from 0, is hidden or not; the hidden ones are counted from 1.
IsHidden(plan, r) ==
    \/ plan.subs = <<>>
    \/ \E k \in DOMAIN plan.subs :
          LET from == M!LengthOf(SubSeq(plan.subs, 1, k - 1)) + plan.subs[k].clear
          IN  r \in from..(from + plan.subs[k].protected - 1)

Hidden(plan, name, base, p) ==
    {<<<<name, i>>, Cardinality({q \in 0..r : IsHidden(plan, q)})>> :
        <<i, r>> \in {<<i, r>> \in (DOMAIN plan.sizes) \X (0..3) :
            r < plan.sizes[i] /\ IsHidden(plan, r) /\ SampleAt(plan, base, i) + r = p}}

Box(typ, size) == [typ |-> typ, size |-> size, large |-> 0]

\* Where the media box is: its header is short, long, or leaves its length open.
MediaBoxes == {"short", "long", "open"}

Pos(media) == IF media = "long" THEN 28 ELSE 20

File(plans, media) ==
    LET first == Size(plans[1])
        size  == first + IF Len(plans) = 2 THEN Size(plans[2]) ELSE 0
        base  == (IF media = "open" THEN 16 ELSE 0) + Pos(media)
        Base(t) == IF t = 1 THEN base ELSE base + first
        Inside(t, p) == Hidden(plans[t], t, Base(t), p)
        mdat  == CASE media = "long" -> [typ |-> "mdat", size |-> 1, large |-> 16 + size]
                   [] media = "open" -> Box("mdat", 0)
                   [] OTHER          -> Box("mdat", 8 + size)
        at    == base - (IF media = "long" THEN 16 ELSE 8)
        moov  == IF media = "open" THEN 12 ELSE base + size
    IN  [len    |-> base + size + (IF media = "open" THEN 0 ELSE 16),
         head   |-> [p \in {0, at, moov} |-> CASE p = 0 -> Box("ftyp", 12)
                                                [] p = moov -> Box("moov", 16)
                                                [] OTHER -> mdat],
         tracks |-> [t \in DOMAIN plans |-> Track(plans[t], t, Base(t))],
         cells  |-> [p \in base..(base + size - 1) |-> UNION {Inside(t, p) : t \in DOMAIN plans}]]

\* A track as it is, without one of its boxes, not encrypted, or with a table that is too short.
Damages == {"none", "plain", "chunks", "senc_short"} \cup {"sinf", "tenc", "senc", "stsz", "stco"}

Damaged(trak, damage) ==
    CASE damage = "none"       -> trak
      [] damage = "plain"      -> [trak EXCEPT !.entry = "hvc1"]
      [] damage = "chunks"     -> [trak EXCEPT !.chunks = Front(@)]
      [] damage = "senc_short" -> [trak EXCEPT !.senc = Front(@)]
      [] OTHER                 -> [trak EXCEPT !.boxes = @ \ {damage}]

DamagedFile(plans, media, damage) ==
    [File(plans, media) EXCEPT !.tracks = [t \in DOMAIN @ |-> Damaged(@[t], damage[t])]]

----------------------------------------------------------------------------
Init == kind = "none" /\ input = <<>>

Choose(k, value) == kind' = k /\ input' = value

PickBuffer == \E n \in 0..MaxLen : \E b \in [1..n -> Alphabet] : Choose("buffer", b)

PickTree == \E t \in Trees : Choose("tree", t)

PickFrame ==
    \/ \E m \in Messages, at \in 0..7 : Choose("frame", [msgs |-> <<m>>, in |-> 1, at |-> at])
    \/ \E m1, m2 \in Messages : Choose("frame", [msgs |-> <<m1, m2>>, in |-> 1, at |-> 0])
    \/ \E m1, m2 \in {m \in Messages : m.known /\ m.content.id \in {1, 2, 3, 7}}, in \in 1..2, at \in 1..7 :
          Choose("frame", [msgs |-> <<m1, m2>>, in |-> in, at |-> at])

PickList ==
    \/ \E e \in ListEntries : Choose("list", <<e>>)
    \/ \E e1, e2 \in ListEntries : Choose("list", <<e1, e2>>)

PickVideo ==
    \E media \in MediaBoxes, d1, d2 \in Damages, p1 \in {p \in Plans : Fitting(p)},
       p2 \in {p \in Plans : Fitting(p) /\ p.sizes = <<3, 3>> /\ p.entry = "enca"} \cup {<<>>} :
        /\ (p2 = <<>>) => d2 = "none"
        /\ (p2 # <<>>) => p1.subs # <<>> /\ p1.entry = "encv" /\ media = "short"
        /\ (d1 # "none" /\ d2 # "none") => p1.per = <<2>>
        /\ \E plans \in {IF p2 = <<>> THEN <<p1>> ELSE <<p1, p2>>},
              damage \in {IF p2 = <<>> THEN <<d1>> ELSE <<d1, d2>>} :
             Choose("video", [file |-> DamagedFile(plans, media, damage), damage |-> damage])

Next == kind = "none" /\ (PickBuffer \/ PickTree \/ PickFrame \/ PickList \/ PickVideo)

Spec == Init /\ [][Next]_vars

----------------------------------------------------------------------------
(* Properties.                                                             *)

\* The first fields of the tree that the first n bytes of its encoding hold whole.
WholeFields(n) == Cardinality({k \in DOMAIN input : Len(Encode(SubSeq(input, 1, k))) <= n})

\* Whether n bytes end within a number: in a tag, a value or a length.
CutsNumber(n) ==
    LET k    == WholeFields(n)
        from == Len(Encode(SubSeq(input, 1, k)))
        next == input[k + 1]
        body == CASE next.t = "varint"  -> 0
                  [] next.t = "message" -> Len(Encode(next.v))
                  [] OTHER              -> Len(next.v)
    IN  n # from /\ n < from + Len(Encode(<<next>>)) - body

ReadToCut(n) == DecodeTop(SubSeq(Encode(input), 1, n)) = SubSeq(input, 1, WholeFields(n))

\* A buffer that is cut off disturbs nothing in front of the cut (proto.go:102): whatever is
\* read last, the fields before it are the first of the whole buffer.  If the cut is between
\* two fields, or within a text or a message, exactly the fields in front of it are read, and
\* nothing of the one that is incomplete.  Two things are not claimed: what a cut through a
\* number reads (OutOfBoundsIsRefused), and that no length overflows, whose panic stands for
\* the last field here (theorem PanicsOnOverflow).
CutKeepsPrefix ==
  /\ kind = "buffer" => \A n \in 0..Len(input) :
        LET part == DecodeTop(SubSeq(input, 1, n))
        IN  part # <<>> => IsPrefix(Front(part), DecodeTop(input))
  /\ (kind = "tree" /\ Unambiguous(input)) =>
        \A n \in 0..Len(Encode(input)) : ~CutsNumber(n) => ReadToCut(n)

\* What the comment on decodeVarintAt (proto.go:68) says of a varint that runs off the end:
\* it is turned down, so the field it is in is not read.
OutOfBoundsIsRefused ==
  (kind = "tree" /\ Unambiguous(input)) => \A n \in 0..Len(Encode(input)) : ReadToCut(n)

\* What the encoders write, the schema-less decoder reads back, whenever its guesses about
\* texts and messages (proto.go:139) can be right.
RoundTrip ==
  (kind = "tree" /\ Unambiguous(input)) => DecodeTop(Encode(input)) = input

\* The byte codec sees a private conversation id as ChatFrames.Decoded says: as a message.
PrivateIdBytes == <<48, 58, 49, 58, 49, 50, 58, 50, 57>>    \* "0:1:12:29"
ASSUME Full < 2 \/ DecodeTop(EncodeLenDelim(1, PrivateIdBytes))[1].t = "message"

Shown(msgs) == SelectSeq(msgs, LAMBDA msg : ItemText(msg.content) # NoText)

\* handleIncoming (client.go:279) hands on one event for each message of a readable frame
\* that has something to show, in order, with its text, its sender and its direction, and a
\* received one with its conversation.  Of a frame the decoder could not read to the end no
\* event has a wrong sender, none of somebody else counts as sent, and none names a
\* conversation that is not in the frame.  A short id learned is that of a message of the
\* frame.  That it is the conversation's own when there are two in a frame, and that the user's
\* messages always count as sent, is ChatsAreKeptApart and OwnMessagesAreSent: neither holds.
FrameEventsAreTrue ==
  kind = "frame" =>
    LET frame  == Frame(input.msgs, input.in, input.at)
        shown  == Shown(input.msgs)
        events == Events(frame, Self)
        cache  == ShortIds(frame, Self, <<>>)
        True(e, msg) == /\ e.text = ItemText(msg.content)
                        /\ e.sender = Digits(msg.sender)
                        /\ e.dir = (IF Digits(msg.sender) = Self THEN "sent" ELSE "recv")
                        /\ e.dir = "recv" => e.conv = msg.conv \/ e.text[1] = "system"
        Partly(e, msg) == /\ e.text = ItemText(msg.content)
                          /\ e.sender \in {NoText, Digits(msg.sender)}
                          /\ e.dir = "sent" => Digits(msg.sender) = Self
                          /\ e.dir = "recv" => e.conv \in {NoText} \cup {m.conv : m \in ToSet(input.msgs)}
    IN  /\ input.at = 0 =>
             /\ Len(events) = Len(shown)
             /\ \A i \in DOMAIN shown : True(events[i], shown[i])
        /\ \A e \in ToSet(events) : \E msg \in ToSet(shown) : Partly(e, msg)
        /\ \A c \in DOMAIN cache :
             cache[c] \in (IF OneConv(input.msgs) THEN {ShortOf(c)} ELSE {ShortOf(m.conv) : m \in ToSet(input.msgs)})

\* What a short id is learned for (client.go:287), and what an answer goes by (API.md:55): a
\* short id is stored under its own conversation, and an event that names a conversation names
\* that of its message, also if a frame has messages of two.
ChatsAreKeptApart ==
  kind = "frame" =>
    LET frame == Frame(input.msgs, input.in, input.at)
        cache == ShortIds(frame, Self, <<>>)
    IN  /\ \A c \in DOMAIN cache : cache[c] = ShortOf(c)
        /\ \A e \in ToSet(Events(frame, Self)) :
             (e.dir = "recv" /\ e.conv # NoText) =>
                \E msg \in ToSet(Shown(input.msgs)) : e.text = ItemText(msg.content) /\ e.conv = msg.conv

\* API.md:416: what the user sent himself is a message_self, pushed only on demand, and
\* never a message; so its direction is known, however little of a frame can be read.
OwnMessagesAreSent ==
  kind = "frame" =>
    \A e \in ToSet(Events(Frame(input.msgs, input.in, input.at), Self)) :
      (\A msg \in ToSet(Shown(input.msgs)) : e.text = ItemText(msg.content) => Digits(msg.sender) = Self)
        => e.dir = "sent"

\* API.md:55 and 60 give the conv_id of an event as the value to answer to, for private chats
\* and groups; API.md:243 and convlist.go:9 say that both are in the list of conversations.  So
\* of each message of a readable frame, one the user sent from another device included, the
\* event names the conversation, or at least the list of that conversation does.
ConversationIsNamed ==
  (kind = "frame" /\ input.at = 0) =>
    LET shown  == Shown(input.msgs)
        events == Events(Frame(input.msgs, 0, 0), Self)
        Listed(conv) == ParseConvListResp(ListBody(<<[conv |-> conv, short |-> 77, boxes |-> <<<<1, 2>>>>, owner |-> 0]>>))
    IN  \A i \in DOMAIN shown : shown[i].content.id # 6 =>
          shown[i].conv \in {events[i].conv, Listed(shown[i].conv)[1].conv}

\* The conversation list (convlist.go:58) keeps every conversation, in order, with its kind,
\* its short id, its owner and all members that have a user id, and a group with its id.  Of
\* the id of a private chat it says nothing: ConversationIsNamed does.
ConversationsListed ==
  kind = "list" =>
    LET got == ParseConvListResp(ListBody(input))
    IN  /\ Len(got) = Len(input)
        /\ \A i \in DOMAIN input :
             /\ got[i].group => got[i].conv = input[i].conv
             /\ got[i].group = IsGroupConv(input[i].conv)
             /\ got[i].short = input[i].short /\ got[i].owner = input[i].owner
             /\ got[i].members = [k \in DOMAIN Uids(input[i]) |-> Member(Uids(input[i])[k])]

Decryptable(trak) == trak.entry \in {"encv", "enca"} /\ {"sinf", "senc"} \subseteq trak.boxes

\* DecryptVideo (mp4cenc.go:62) either fails or leaves no hidden byte in any track that says
\* it is encrypted and carries its vectors, wherever its samples are and however they are
\* divided; it does not fail on a file whose tracks are whole.
VideoComesOutPlain ==
  kind = "video" => \A got \in {M!DecryptVideo(input.file)} :
    LET Left(t, p) == {b \in got.cells[p] : b[1][1] = t}
    IN  /\ got.kind = "ok" =>
             \A t \in DOMAIN input.file.tracks : Decryptable(input.file.tracks[t]) =>
                \A p \in DOMAIN input.file.cells : Left(t, p) = {}
        /\ (\A t \in DOMAIN input.damage : input.damage[t] \in {"none", "plain", "sinf", "senc"})
           /\ (\E t \in DOMAIN input.damage : input.damage[t] = "none")
           => got.kind = "ok"
=============================================================================
