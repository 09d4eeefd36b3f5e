----------------------------- MODULE MCDlisFiles ----------------------------
(***************************************************************************)
(* Small DLIS files for TLC: logical records made of items, cut into       *)
(* segments at chosen places, with chosen trailing bytes, laid out in      *)
(* visible records.                                                        *)
(***************************************************************************)
EXTENDS Integers, Sequences

\* The sequences seqs[1], ..., seqs[n] end to end.
RECURSIVE FlatTo(_, _)
FlatTo(seqs, n) == IF n = 0 THEN <<>> ELSE FlatTo(seqs, n - 1) \o seqs[n]
Flat(seqs) == FlatTo(seqs, Len(seqs))

HeaderLen == 4   \* of a VR and of an LRS
SulLen == 4
TapeLen == 3

It(kind, size) == [id |-> 0, kind |-> kind, size |-> size, count |-> 0,
                   value |-> FALSE, label |-> FALSE, binds |-> -1]

Labelled(kind, size) == [It(kind, size) EXCEPT !.label = TRUE]

\* The FRAME set: a template of one attribute, an object that names its two channels.
FrameItems ==
  << Labelled("set", 2),
     Labelled("attrib", 3),
     [Labelled("object", 3) EXCEPT !.binds = 0],
     [It("attrib", 1) EXCEPT !.value = TRUE, !.count = 2],
     [It("value", 2) EXCEPT !.binds = 1],
     [It("value", 2) EXCEPT !.binds = 2] >>

Sample(k, size) == [It("sample", size) EXCEPT !.binds = k]

\* A row of frame data: one sample longer than a segment header, two of one byte.
RowItems == << [It("header", 3) EXCEPT !.binds = 1], Sample(1, 6), Sample(2, 1), Sample(2, 1) >>
EodItems == << It("header", 3) >>
TwoChannels == << [dim |-> 1, size |-> 6], [dim |-> 2, size |-> 1] >>

Numbered(items, first) == [i \in DOMAIN items |-> [items[i] EXCEPT !.id = first + i - 1]]

Of(kind, len, attr, item, ix) ==
  [kind |-> kind, len |-> len, attr |-> attr, item |-> item, ix |-> ix]
Plain(kind, len, n) == [j \in 1 .. n |-> Of(kind, len, {}, It("none", 1), j - 1)]

ItemCells(item) == [j \in 1 .. item.size |-> Of("body", 0, {}, item, j - 1)]
BodyCells(items) == Flat([i \in DOMAIN items |-> ItemCells(items[i])])

\* Trailing bytes: padding that counts itself, a checksum, the length once more.
TrailOf(attr, pads) == [attr |-> attr, pads |-> pads]
NoTrail == TrailOf({}, 0)
TailCells(t) == Plain("trail", t.pads, t.pads)
             \o (IF "checksum" \in t.attr THEN Plain("trail", 1, 2) ELSE <<>>)
             \o (IF "trailing" \in t.attr THEN Plain("trail", 1, 2) ELSE <<>>)

Segment(attr, cells, t) ==
  LET rest == cells \o TailCells(t)
      header == Plain("lrs", HeaderLen + Len(rest), HeaderLen)
  IN [header EXCEPT ![1].attr = attr \cup t.attr] \o rest

\* The segments of a logical record whose body is cut after the bytes in cuts.
SegmentsOf(attr, body, cuts, t) ==
  LET ends == cuts \o << Len(body) >>
  IN [i \in DOMAIN ends |->
        Segment(attr \cup (IF i > 1 THEN {"succ"} ELSE {}),
                SubSeq(body, (IF i = 1 THEN 0 ELSE ends[i - 1]) + 1, ends[i]), t)]

Vr(segments) ==
  LET body == Flat(segments) IN Plain("vr", HeaderLen + Len(body), HeaderLen) \o body

\* One visible record for all the segments, or one for each.
VrsOf(segments, split) == IF split THEN [i \in DOMAIN segments |-> Vr(<<segments[i]>>)]
                                   ELSE << Vr(segments) >>

\* On a tape image a mark comes before the label and before each visible record.
Laid(vrs, tape) ==
  LET mark == IF tape THEN Plain("tape", 0, TapeLen) ELSE <<>>
  IN mark \o Plain("sul", 0, SulLen) \o Flat([i \in DOMAIN vrs |-> mark \o vrs[i]])

(***************************************************************************)
(* A file of records [attr, items, cuts, tail]; the items are numbered     *)
(* through the file.                                                       *)
(***************************************************************************)
Rec(attr, items, cuts, t) == [attr |-> attr, items |-> items, cuts |-> cuts, tail |-> t]
ItemsBefore(recs, r) == Len(Flat([i \in 1 .. r - 1 |-> recs[i].items]))

MakeFile(recs, split, tape, chan) ==
  LET body(r) == BodyCells(Numbered(recs[r].items, ItemsBefore(recs, r) + 1))
      segs == Flat([r \in DOMAIN recs |->
                SegmentsOf(recs[r].attr, body(r), recs[r].cuts, recs[r].tail)])
  IN [cells |-> Laid(VrsOf(segs, split), tape),
      chan |-> chan,
      n |-> ItemsBefore(recs, Len(recs) + 1)]

FrameRec(cuts, t) == Rec({"eflr"}, FrameItems, cuts, t)
RowRec(cuts, t) == Rec({}, RowItems, cuts, t)
EodRec(t) == Rec({"eod"}, EodItems, <<>>, t)

\* An encrypted segment: its body is not items, and is skipped.
CryptRec == [attr |-> {"eflr", "encrypted"}, items |-> <<>>, cuts |-> <<>>,
             tail |-> TrailOf({"padding"}, 2)]
=============================================================================
