------------------------------ MODULE WellFormed -----------------------------
(***************************************************************************)
(* The files that the parser is made for: what it relies on of the layout  *)
(* of a file and of the order of its items.  Files of which nothing here   *)
(* is true are parsed too, without promise (see Damaged); this is the      *)
(* hypothesis under which the parser is proved to hand over every item.    *)
(*                                                                         *)
(* A reading r of a file says what its bytes are for:                      *)
(*   items, start   the items, and where each starts in the stream of all  *)
(*                  body bytes, which the segments cut anywhere            *)
(*   base           how many body bytes there are before each offset       *)
(*   place          what an item and those before it leave due: see Places *)
(***************************************************************************)
EXTENDS DlisParse

Segments(f) == { o \in DOMAIN f.cells : f.cells[o].kind = "lrs" /\ f.cells[o].ix = 0 }
Records(f)  == { o \in DOMAIN f.cells : f.cells[o].kind = "vr" /\ f.cells[o].ix = 0 }
IsTape(f)   == f.cells[1].kind = "tape"

\* The offset behind the segment or the visible record that starts at o.
Behind(f, o) == o + f.cells[o].len
BehindFile(f) == Len(f.cells) + 1

pad_count_at(f, s) == Behind(f, s) - 1 - fixed_trailing(f.cells[s].attr)
tail_len(f, s) ==
  fixed_trailing(f.cells[s].attr)
  + (IF "padding" \in f.cells[s].attr THEN f.cells[pad_count_at(f, s)].len ELSE 0)
body_at(s) == s + LRS_HEADER_LEN
body_len(f, s) == f.cells[s].len - LRS_HEADER_LEN - tail_len(f, s)

(***************************************************************************)
(* left    values due of the last attribute                                *)
(* tlen    attributes of the template, and                                 *)
(* read    how many of them the object was given, -1 in the template       *)
(* cursor  the channel due, or where on_* callbacks left the cursor        *)
(* nth     samples of that channel read                                    *)
(***************************************************************************)
Place == [left: Nat, tlen: 0 .. MAX_TEMPLT_OBJS, read: -1 .. MAX_TEMPLT_OBJS, cursor: Int, nth: Nat]

Reading_of(f) == [items: [1 .. f.n -> Item], start: [1 .. f.n + 1 -> Nat],
                  base: [1 .. BehindFile(f) -> Nat], place: [1 .. f.n + 1 -> Place]]

\* The cell holds byte x of the stream.
IsByte(r, f, x, cell) ==
  /\ cell.kind = "body"
  /\ \A j \in 1 .. f.n : r.start[j] <= x /\ x < r.start[j] + r.items[j].size =>
       cell.item = r.items[j] /\ cell.ix = x - r.start[j]

(***************************************************************************)
(* Layout: the storage unit label, then visible records end to end, each   *)
(* filled by segments.  On a tape image a mark stands before the label and *)
(* before each record; what is left of a record behind a segment must not  *)
(* be shorter than a mark, which is counted in the record.                 *)
(***************************************************************************)
first_record(f) == SUL_LEN + (IF IsTape(f) THEN 2 * TAPE_LEN ELSE 0) + 1
StartsWell(r, f) ==
  LET sul == IF IsTape(f) THEN TAPE_LEN + 1 ELSE 1
  IN /\ 1 \in DOMAIN f.cells /\ sul \in DOMAIN f.cells /\ first_record(f) \in Records(f)
     /\ f.cells[sul].kind = "sul" /\ f.cells[sul].ix = 0
     /\ r.base[first_record(f)] = 0

\* What may stand at o, behind a record: the next one, or its mark, or the end of the file.
RecordDue(r, f, o) ==
  \/ o = BehindFile(f)
  \/ o \in Records(f)
  \/ /\ IsTape(f) /\ o \in DOMAIN f.cells \ Records(f) /\ o + TAPE_LEN \in Records(f)
     /\ r.base[o + TAPE_LEN] = r.base[o]

RecordWell(r, f, v) ==
  /\ v + VR_HEADER_LEN \in Segments(f) /\ r.base[v + VR_HEADER_LEN] = r.base[v]
  /\ v + VR_HEADER_LEN < Behind(f, v) /\ Behind(f, v) <= BehindFile(f)
  /\ RecordDue(r, f, Behind(f, v))
  /\ \A s \in Segments(f) : v < s /\ s < Behind(f, v) =>
       /\ Behind(f, s) <= Behind(f, v)
       /\ Behind(f, s) < Behind(f, v) =>
            /\ Behind(f, s) \in Segments(f)
            /\ IsTape(f) => Behind(f, v) - Behind(f, s) > TAPE_LEN

(***************************************************************************)
(* A segment has body bytes, the next ones of the stream, unless it is     *)
(* encrypted: such a segment stands between items.  Its attributes are     *)
(* those of the items that it holds the start or the rest of, none the end *)
(* of data; a component is not cut, and an IFLR header only when no        *)
(* channel is due.                                                         *)
(***************************************************************************)
EflrKinds == ComponentKinds \cup {"value"}
SegmentWell(r, f, s) ==
  LET attr == f.cells[s].attr
      from == r.base[s]
      to   == r.base[s] + body_len(f, s)
  IN /\ Behind(f, s) <= BehindFile(f)
     /\ "encrypted" \in attr =>
          /\ r.base[Behind(f, s)] = from
          /\ \A j \in 1 .. f.n : from <= r.start[j] \/ from >= r.start[j] + r.items[j].size
     /\ "encrypted" \notin attr =>
          /\ "eod" \notin attr
          /\ "padding" \in attr => /\ body_at(s) <= pad_count_at(f, s)
                                  /\ f.cells[pad_count_at(f, s)].len >= 1
          /\ body_len(f, s) >= 1 /\ r.base[Behind(f, s)] = to /\ to <= r.start[f.n + 1]
          /\ \A i \in 0 .. body_len(f, s) - 1 : IsByte(r, f, from + i, f.cells[body_at(s) + i])
          /\ \A j \in 1 .. f.n : r.start[j] < to /\ r.start[j] + r.items[j].size > from =>
               LET kind == r.items[j].kind
               IN /\ kind \in EflrKinds <=> "eflr" \in attr
                  /\ kind \in ComponentKinds =>
                       from <= r.start[j] /\ r.start[j] + r.items[j].size <= to
                  /\ kind = "sample" /\ r.start[j] <= from => "succ" \in attr
                  /\ kind = "header" => /\ r.start[j] <= from
                                        /\ "succ" \in attr => r.place[j].cursor <= 0

(***************************************************************************)
(* Places: what is due at each item.  An attribute has a value when it     *)
(* says so, an object no more attributes than its template, the template   *)
(* no more than MAX_TEMPLT_OBJS; a set has its type, an object its name.   *)
(* After the header of a row of a frame that is there come the samples of  *)
(* every channel of the frame, those of one channel in a run.              *)
(***************************************************************************)
ItemWell(r, f, j) ==
  LET item == r.items[j]
      p    == r.place[j]
      then == r.place[j + 1]
  IN \/ /\ item.kind = "set" /\ item.label /\ p.left = 0
        /\ then = [p EXCEPT !.tlen = 0, !.read = -1]
     \/ /\ item.kind = "object" /\ item.label /\ p.left = 0
        /\ then = [p EXCEPT !.read = 0, !.cursor = IF item.binds = 0 THEN 0 ELSE @]
     \/ /\ item.kind = "attrib" /\ p.left = 0 /\ (item.value => item.count >= 1)
        /\ then = [p EXCEPT !.left = IF item.value THEN item.count ELSE 0,
                            !.tlen = IF p.read < 0 THEN @ + 1 ELSE @,
                            !.read = IF p.read < 0 THEN @ ELSE @ + 1]
        /\ IF p.read < 0 THEN p.tlen < MAX_TEMPLT_OBJS ELSE p.read < p.tlen
     \/ /\ item.kind = "value" /\ p.left > 0
        /\ then = [p EXCEPT !.left = @ - 1,
                            !.cursor = IF item.binds \in DOMAIN f.chan THEN item.binds ELSE @]
     \/ /\ item.kind = "header" /\ item.binds = 1 /\ f.chan # <<>>
        /\ then = [p EXCEPT !.cursor = 1, !.nth = 0]
        /\ j < f.n /\ r.items[j + 1].kind = "sample"
     \/ /\ item.kind = "sample"
        /\ p.cursor \in DOMAIN f.chan /\ p.nth < f.chan[p.cursor].dim

\* A run of samples: those of the channel due that are still to come.
RunWell(r, f, j) ==
  LET p     == r.place[j]
      size  == f.chan[p.cursor].size
      due   == f.chan[p.cursor].dim - p.nth
      last  == p.cursor = Len(f.chan)
  IN /\ j + due <= f.n + 1 /\ r.start[j + due] = r.start[j] + due * size
     /\ r.place[j + due] = [p EXCEPT !.cursor = IF last THEN 0 ELSE @ + 1, !.nth = 0]
     /\ j + due <= f.n => (r.items[j + due].kind = "sample" <=> ~last)
     /\ ~last => j + due <= f.n
     /\ \A i \in 0 .. due - 1 :
          /\ r.items[j + i].kind = "sample" /\ r.items[j + i].binds = p.cursor
          /\ r.items[j + i].size = size
          /\ r.start[j + i] = r.start[j] + i * size
          /\ r.place[j + i] = [p EXCEPT !.nth = @ + i]

ItemsWell(r, f) ==
  /\ r.start[1] = 0 /\ r.base[BehindFile(f)] = r.start[f.n + 1]
  /\ r.place[1] = [left |-> 0, tlen |-> 0, read |-> -1, cursor |-> -1, nth |-> 0]
  /\ \A j \in 1 .. f.n :
       /\ r.items[j].id = j
       /\ r.start[j + 1] = r.start[j] + r.items[j].size /\ r.start[j + 1] <= r.start[f.n + 1]
       /\ ItemWell(r, f, j)
       /\ r.items[j].kind = "sample" =>
            /\ RunWell(r, f, j)
            /\ j > 1 /\ r.items[j - 1].kind \in {"header", "sample"}

WellFormed(r, f) ==
  /\ r \in Reading_of(f)
  /\ StartsWell(r, f)
  /\ \A v \in Records(f) : RecordWell(r, f, v)
  /\ \A s \in Segments(f) : SegmentWell(r, f, s)
  /\ ItemsWell(r, f)

(***************************************************************************)
(* How the parser's state stands to the reading.  Here is the offset of   *)
(* the byte at byte_idx, or would be if none had been pasted before it;    *)
(* v and s are the record and the segment that the parser is in.           *)
(***************************************************************************)
Here == fed + 1 - avail
Seen(q) == OffsetAt(byte_idx + q)
Due == Len(out) + 1
StreamAt(r, s) == r.base[s] + Here - body_at(s)
BodyEnd(r, s) == r.base[s] + body_len(file, s)

DueIs(r, kinds) == Due <= file.n /\ r.items[Due].kind \in kinds
Sampling(r) == DueIs(r, {"sample"})

\* Every item before Due was handed over, and the callbacks left what the reading says.
UpToDue(r) ==
  /\ Len(out) <= file.n /\ \A i \in DOMAIN out : out[i] = i
  /\ r.place[Due].left = attrib_value_cnt /\ r.place[Due].tlen = Len(templt)
  /\ r.place[Due].read = templt_read_idx /\ r.place[Due].cursor = cursor
  /\ loaded => Sampling(r) /\ parsing = cursor /\ parsing_value_cnt = r.place[Due].nth
  /\ ~loaded /\ Sampling(r) => r.place[Due].nth = 0

\* In a row the channels before the one due have a line more than it and those after it.
InRow(r) ==
  IF Sampling(r)
  THEN \A k \in DOMAIN lines : lines[k] = IF k < cursor THEN lines[cursor] + 1 ELSE lines[cursor]
  ELSE \A k, l \in DOMAIN lines : lines[k] = lines[l]

PutAside(r) ==
  /\ aside > 0 => Due <= file.n /\ aside < r.items[Due].size
  /\ \A q \in 1 .. aside : IsByte(r, file, r.start[Due] + q - 1, CellOf(unparsed_buff[q]))

Outside == \A q \in 0 .. avail - 1 : Seen(q) = Here + q
Inside(r, s) ==
  /\ fed + 1 >= body_at(s)
  /\ \A q \in 0 .. avail - 1 :
       IF Here + q >= body_at(s) THEN Seen(q) = Here + q
                                  ELSE IsByte(r, file, StreamAt(r, s) + q, CellOf(Seen(q)))

\* Mark: the length of the mark counted in the record, on a tape image.
InRecord(v, o) ==
  /\ v \in Records(file) /\ v < o /\ o < Behind(file, v)
  /\ \E mark \in {0, TAPE_LEN} : /\ mark = 0 \/ nType
                                 /\ Here + vr_len - vr_byte_cnt = Behind(file, v) - mark
OfSegment(s) ==
  /\ s \in Segments(file) /\ lrs_attr = file.cells[s].attr
  /\ Here + remain = Behind(file, s)

AtSul(r) == /\ Here = 1 /\ vr_len = 0 /\ out = <<>> /\ aside = 0
            /\ IsTape(file) => fed = 0 \/ fed >= first_record(file) - 1
AtVr(r) == /\ RecordDue(r, file, Here)
           /\ vr_len > 0 => vr_byte_cnt = vr_len \/ (nType /\ vr_byte_cnt = vr_len + TAPE_LEN)
AtLrs(r, v) == Here \in Segments(file) /\ InRecord(v, Here)
AtCrypt(r, v, s) == /\ InRecord(v, s) /\ OfSegment(s) /\ "encrypted" \in lrs_attr
AtTrailing(r, v, s) ==
  /\ InRecord(v, s) /\ OfSegment(s) /\ "encrypted" \notin lrs_attr
  /\ lrs_trail_len = tail_len(file, s) /\ remain = tail_len(file, s)

InBody(r, v, s) ==
  /\ InRecord(v, s) /\ OfSegment(s) /\ "encrypted" \notin lrs_attr
  /\ lrs_trail_len \in {-1, tail_len(file, s)}
  /\ aside = 0 /\ Inside(r, s)
  /\ Due <= file.n /\ r.start[Due + 1] > r.base[s]
  /\ StreamAt(r, s) = r.start[Due] + IF Fields(code) THEN 1 ELSE 0
  /\ IF code = "IFLR_DATA" THEN r.start[Due] <= BodyEnd(r, s) ELSE r.start[Due] < BodyEnd(r, s)
  /\ Fields(code) => comp = r.items[Due]
  /\ CASE code = "EFLR_COMP"   -> DueIs(r, ComponentKinds)
       [] code = "SET"         -> DueIs(r, {"set"})
       [] code = "OBJECT"      -> DueIs(r, {"object"})
       [] code = "ATTRIB"      -> DueIs(r, {"attrib"})
       [] code = "VALUE"       -> DueIs(r, {"value"})
       [] code = "IFLR_HEADER" -> DueIs(r, {"header"})
       [] OTHER                -> Sampling(r)

\* Outside a body, the stream goes on at o where the items and what is put aside end.
GoesOn(r, o) == Outside /\ lrs_trail_len >= 0 /\ r.base[o] = r.start[Due] + aside

Reached(r, v, s) ==
  CASE code = "SUL" -> AtSul(r) /\ Outside /\ lrs_trail_len >= 0
    [] code = "VR"  -> AtVr(r) /\ GoesOn(r, Here)
    [] code = "LRS" -> AtLrs(r, v) /\ GoesOn(r, Here)
    [] code = "ENCRYPTION_PACKET" -> AtCrypt(r, v, s) /\ Outside /\ aside = 0 /\ r.base[Behind(file, s)] = r.start[Due]
    [] code = "TRAILING" -> AtTrailing(r, v, s) /\ GoesOn(r, Behind(file, s))
    [] OTHER -> InBody(r, v, s)

\* The parser asks for a block only when there is one, or nothing is left to parse.
Starved == /\ eof => fed = Len(file.cells)
           /\ pc = "read" => fed < Len(file.cells) \/ (code = "VR" /\ Here = BehindFile(file))

Parsed(r, v, s) ==
  /\ anomalies = {} /\ pc \in {"read", "parse", "done"}
  /\ UpToDue(r) /\ InRow(r)
  /\ pc = "done" => Len(out) = file.n
  /\ running => /\ PutAside(r) /\ Reached(r, v, s) /\ Starved
                /\ code # "SUL" => nType = IsTape(file)

\* On a tape image the first block must reach the first record: parse_sul does not look.
BlocksReach(f) == IsTape(f) => \A c \in Chunks : c >= first_record(f) - 1

(***************************************************************************)
(* The hypothesis, and the inductive invariant that rests on it: some      *)
(* reading of the file explains the state.                                 *)
(***************************************************************************)
FilesWellFormed == \A f \in Files : BlocksReach(f) /\ \E r : WellFormed(r, f)

Explained == \E r : /\ WellFormed(r, file) /\ BlocksReach(file)
                    /\ \E v, s : Parsed(r, v, s)
=============================================================================
