--------------------------------- MODULE Mp4 ---------------------------------
(***************************************************************************)
(* Decryption of a CENC video (internal/media/mp4cenc.go, cenc.go).        *)
(*                                                                         *)
(* A file is [len, head, tracks, cells].  head gives the box header found  *)
(* at a position: [typ, size, large], size being 0 for a box that runs to  *)
(* the end and 1 for one whose length is in "large".  cells gives, for a   *)
(* position, the set of key stream bytes it was combined with: {} is a     *)
(* plain byte, and combining twice with one key stream byte is none.       *)
(*                                                                         *)
(* A track is what the boxes under its trak say:                           *)
(*   boxes    the types of the boxes found                                 *)
(*   entry    type of its first sample entry                               *)
(*   sizes    stsz: the size of every sample                               *)
(*   stsc     entries [first, per]: samples per chunk from a chunk on      *)
(*   chunks   stco or co64: the position of every chunk                    *)
(*   senc     one [iv, subs] per sample, subs a sequence of                *)
(*            [clear, protected]; empty: the whole sample is protected     *)
(* The tables are as long as their counts say.  A key stream byte is       *)
(* <<iv, n>>, the n-th byte of the stream that starts at iv.               *)
(***************************************************************************)
EXTENDS Integers, Sequences, SequencesExt

NoHeader == [typ |-> "none", size |-> 2, large |-> 0]    \* bytes that are no header: too short

(***************************************************************************)
(* The boxes of one level.                                                 *)
(***************************************************************************)
RECURSIVE BoxesIn(_, _, _)
BoxesIn(head, start, end) ==
    LET h    == IF start \in DOMAIN head THEN head[start] ELSE NoHeader
        hdr  == IF h.size = 1 THEN 16 ELSE 8
        size == CASE h.size = 1 -> h.large
                  [] h.size = 0 -> end - start
                  [] OTHER      -> h.size
    IN  IF start + hdr > end \/ size < hdr \/ start + size > end THEN <<>>
        ELSE <<[typ |-> h.typ, start |-> start, data |-> start + hdr, size |-> size]>>
             \o BoxesIn(head, start + size, end)

HasBox(boxes, typ) == \E i \in DOMAIN boxes : boxes[i].typ = typ

(***************************************************************************)
(* Where the samples are.                                                  *)
(***************************************************************************)
\* The entries up to the first one that starts later count; the last of them holds.
SamplesInChunk(stsc, chunk) ==
    LET late == SelectInSeq(stsc, LAMBDA e : e.first > chunk)
        held == IF late = 0 THEN Len(stsc) ELSE late - 1
    IN  IF held = 0 THEN 0 ELSE stsc[held].per

\* A sample that no chunk has room for keeps position 0.
RECURSIVE ComputeSampleOffsets(_, _, _, _)
ComputeSampleOffsets(sizes, stsc, chunks, ci) ==
    LET room  == IF ci > Len(chunks) THEN 0 ELSE SamplesInChunk(stsc, ci)
        count == IF room < Len(sizes) THEN room ELSE Len(sizes)
        At(s) == chunks[ci] + FoldLeft(LAMBDA a, b : a + b, 0, SubSeq(sizes, 1, s - 1))
    IN  IF ci > Len(chunks) THEN [i \in DOMAIN sizes |-> 0]
        ELSE [s \in 1..count |-> At(s)]
             \o ComputeSampleOffsets(SubSeq(sizes, count + 1, Len(sizes)), stsc, chunks, ci + 1)

(***************************************************************************)
(* One sample: its protected bytes are one stream, subsample after         *)
(* subsample, and the counter runs through.                                *)
(***************************************************************************)
Whole(size) == <<[clear |-> 0, protected |-> size]>>

\* Variant of Subs: the clear bytes between subsamples are taken for protected ones.
SubsJoined(sample, size) == Whole(size)

Subs(sample, size) == IF sample.subs = <<>> THEN Whole(size) ELSE sample.subs

LengthOf(subs) == FoldLeft(LAMBDA n, s : n + s.clear + s.protected, 0, subs)

\* The protected positions of a sample, in stream order, from 0.
RECURSIVE ProtectedFrom(_, _)
ProtectedFrom(subs, pos) ==
    IF subs = <<>> THEN <<>>
    ELSE LET s == Head(subs)
         IN  [k \in 1..s.protected |-> pos + s.clear + k - 1]
             \o ProtectedFrom(Tail(subs), pos + s.clear + s.protected)

Combine(cell, byte) == IF byte \in cell THEN cell \ {byte} ELSE cell \cup {byte}

CencDecryptSample(cells, off, size, sample) ==
    LET hidden == ProtectedFrom(Subs(sample, size), 0)
        Nth(p) == CHOOSE n \in DOMAIN hidden : off + hidden[n] = p
        Mine   == {off + hidden[n] : n \in DOMAIN hidden}
    IN  [p \in DOMAIN cells |-> IF p \in Mine THEN Combine(cells[p], <<sample.iv, Nth(p)>>) ELSE cells[p]]

(***************************************************************************)
(* One track: "skip" when it is not an encrypted track, "error", or "ok".  *)
(***************************************************************************)
Outcome(kind, cells) == [kind |-> kind, cells |-> cells]

DecryptTrak(cells, len, trak) ==
    LET offs == ComputeSampleOffsets(trak.sizes, trak.stsc, trak.chunks, 1)
        Bad(i) == \/ offs[i] <= 0 \/ offs[i] + trak.sizes[i] > len
                  \/ LengthOf(Subs(trak.senc[i], trak.sizes[i])) > trak.sizes[i]
        Step(now, i) == CencDecryptSample(now, offs[i], trak.sizes[i], trak.senc[i])
    IN  IF \/ ~{"mdia", "minf", "stbl", "stsd", "sinf"} \subseteq trak.boxes
           \/ trak.entry \notin {"encv", "enca"}
           THEN Outcome("skip", cells)
        ELSE IF ~{"frma", "schi", "tenc"} \subseteq trak.boxes THEN Outcome("error", cells)
        ELSE IF "senc" \notin trak.boxes THEN Outcome("skip", cells)
        ELSE IF \/ ~{"stsz", "stsc"} \subseteq trak.boxes
                \/ {"stco", "co64"} \cap trak.boxes = {}
                \/ Len(trak.senc) # Len(trak.sizes)
                \/ \E i \in DOMAIN trak.sizes : Bad(i)
           THEN Outcome("error", cells)
        ELSE Outcome("ok", FoldLeft(Step, cells, [i \in DOMAIN trak.sizes |-> i]))

\* Track after track; the first error drops everything, no encrypted track at all is one.
DecryptVideo(file) ==
    LET Next(now, trak) == IF now.kind = "error" THEN now
                           ELSE LET one == DecryptTrak(now.cells, file.len, trak)
                                IN  IF one.kind = "skip" THEN now ELSE one
        all == FoldLeft(Next, Outcome("skip", file.cells), file.tracks)
    IN  IF ~HasBox(BoxesIn(file.head, 0, file.len), "moov") \/ all.kind # "ok"
        THEN Outcome("error", file.cells) ELSE all
=============================================================================
