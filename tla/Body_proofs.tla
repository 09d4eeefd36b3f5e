----------------------------- MODULE Body_proofs -----------------------------
(***************************************************************************)
(* What the parser sees of a well-formed file, and what it does with the   *)
(* body of a segment.  The hypothesis says where segments, records and     *)
(* items are; the window on the bytes moves when bytes are parsed and      *)
(* blocks read, and the byte in front of the parser stays the one that the *)
(* reading of the file has there.  Each handler hands over the items that  *)
(* are due, puts the cut one aside or waits, and keeps Parsed (WellFormed).*)
(***************************************************************************)
EXTENDS DlisParse_proofs, WellFormed

-----------------------------------------------------------------------------
(* The file and its reading. *)

\* The cells of the file, and where segments, records and the end of the file are.
LEMMA CellFacts ==
  ASSUME TypeOK
  PROVE  /\ Len(file.cells) \in Nat /\ DOMAIN file.cells = 1 .. Len(file.cells)
         /\ \A o \in DOMAIN file.cells : file.cells[o] \in Cell
         /\ \A o \in Segments(file) : /\ o \in 1 .. Len(file.cells)
                                      /\ file.cells[o].len \in Nat
                                      /\ file.cells[o].len >= LRS_HEADER_LEN
                                      /\ file.cells[o].attr \subseteq Attributes
         /\ \A o \in Records(file) : o \in 1 .. Len(file.cells) /\ file.cells[o].len \in Nat
         /\ BehindFile(file) = Len(file.cells) + 1
         /\ fed \in 0 .. Len(file.cells) /\ file.n \in Nat
  <1>1. file \in File /\ fed \in 0 .. Len(file.cells)
    BY DEF TypeOK, InputTypes, FileOK, Offsets
  <1>2. file.cells \in Seq(Cell) /\ file.n \in Nat
    BY <1>1 DEF File
  <1>3. \A o \in DOMAIN file.cells : file.cells[o] \in Cell
    BY <1>2
  <1>4. \A o \in DOMAIN file.cells : file.cells[o].kind = "lrs" =>
          file.cells[o].len \in LRS_HEADER_LEN .. MAX_LRS
    BY DEF TypeOK, InputTypes, FileOK
  <1>5. \A o \in DOMAIN file.cells : file.cells[o].len \in Nat /\ file.cells[o].attr \subseteq Attributes
    BY <1>3 DEF Cell
  <1> QED
    BY <1>1, <1>2, <1>3, <1>4, <1>5, Sizes DEF Segments, Records, BehindFile

\* Inside the file CellOf is the cell.
LEMMA CellOfFacts ==
  ASSUME TypeOK, NEW o \in 1 .. Len(file.cells)
  PROVE  CellOf(o) = file.cells[o]
  BY CellFacts DEF CellOf

\* Every item of the reading with its size, where it starts and what is due behind it.
LEMMA ReadingTypes ==
  ASSUME TypeOK, NEW r, WellFormed(r, file)
  PROVE  /\ \A j \in 1 .. file.n : /\ r.items[j] \in Item
                                   /\ r.items[j].size \in Nat /\ r.items[j].size >= 1
                                   /\ r.items[j].size <= MAX_ITEM /\ r.items[j].id = j
                                   /\ r.start[j + 1] = r.start[j] + r.items[j].size
                                   /\ r.start[j + 1] <= r.start[file.n + 1]
                                   /\ ItemWell(r, file, j)
         /\ \A j \in 1 .. file.n + 1 : r.start[j] \in Nat /\ r.place[j] \in Place
         /\ \A o \in 1 .. BehindFile(file) : r.base[o] \in Nat
         /\ r.base[BehindFile(file)] = r.start[file.n + 1] /\ r.start[1] = 0
  <1>1. r \in Reading_of(file) /\ file.n \in Nat
    BY CellFacts DEF WellFormed
  <1>2. /\ r.items \in [1 .. file.n -> Item] /\ r.start \in [1 .. file.n + 1 -> Nat]
        /\ r.base \in [1 .. BehindFile(file) -> Nat] /\ r.place \in [1 .. file.n + 1 -> Place]
    BY <1>1 DEF Reading_of
  <1>3. \A i \in Item : i.size \in Nat /\ i.size >= 1 /\ i.size <= MAX_ITEM
    BY Sizes DEF Item
  <1> QED
    BY <1>1, <1>2, <1>3 DEF WellFormed, ItemsWell

\* The fields of a place.
LEMMA PlaceTypes ==
  ASSUME NEW p \in Place
  PROVE  p.left \in Nat /\ p.tlen \in Nat /\ p.read \in Int /\ p.cursor \in Int /\ p.nth \in Nat
  BY Sizes DEF Place

\* Checksum and trailing length are a number of bytes.
LEMMA FixedTrailing ==
  ASSUME NEW attr PROVE fixed_trailing(attr) \in Nat
  BY DEF fixed_trailing

\* A segment that is not encrypted: header, body and trailing bytes.
LEMMA SegmentFacts ==
  ASSUME TypeOK, NEW r, WellFormed(r, file), NEW s \in Segments(file)
  PROVE  /\ s \in Nat /\ s >= 1 /\ Behind(file, s) \in Nat /\ Behind(file, s) <= Len(file.cells) + 1
         /\ body_at(s) \in Nat /\ body_at(s) = s + LRS_HEADER_LEN /\ body_at(s) <= Behind(file, s)
         /\ r.base[s] \in Nat /\ r.base[Behind(file, s)] \in Nat
         /\ Behind(file, s) = s + file.cells[s].len /\ s < Behind(file, s)
         /\ "encrypted" \notin file.cells[s].attr =>
              /\ tail_len(file, s) \in Nat /\ body_len(file, s) \in Nat /\ body_len(file, s) >= 1
              /\ Behind(file, s) = body_at(s) + body_len(file, s) + tail_len(file, s)
              /\ r.base[Behind(file, s)] = r.base[s] + body_len(file, s)
              /\ "eod" \notin file.cells[s].attr
  <1>1. SegmentWell(r, file, s)
    BY DEF WellFormed
  <1>2. /\ s \in 1 .. Len(file.cells) /\ Len(file.cells) \in Nat /\ BehindFile(file) = Len(file.cells) + 1
        /\ file.cells[s].len \in Nat /\ file.cells[s].len >= LRS_HEADER_LEN
    BY CellFacts
  <1>3. s \in Nat /\ s >= 1 /\ LRS_HEADER_LEN \in Nat /\ LRS_HEADER_LEN >= 1
    BY <1>2, Sizes
  <1>4. Behind(file, s) \in Nat /\ Behind(file, s) <= Len(file.cells) + 1
    BY <1>1, <1>2, <1>3 DEF SegmentWell, Behind
  <1>5. s \in 1 .. BehindFile(file) /\ Behind(file, s) \in 1 .. BehindFile(file)
    BY <1>2, <1>3, <1>4 DEF Behind
  <1>6. r.base[s] \in Nat /\ r.base[Behind(file, s)] \in Nat
    BY <1>5, ReadingTypes
  <1>7. ASSUME "encrypted" \notin file.cells[s].attr
        PROVE  /\ tail_len(file, s) \in Nat /\ body_len(file, s) \in Nat /\ body_len(file, s) >= 1
               /\ Behind(file, s) = body_at(s) + body_len(file, s) + tail_len(file, s)
               /\ r.base[Behind(file, s)] = r.base[s] + body_len(file, s)
               /\ "eod" \notin file.cells[s].attr
    <2>1. "padding" \in file.cells[s].attr =>
             pad_count_at(file, s) >= body_at(s) /\ body_len(file, s) >= 1
      BY <1>1, <1>7 DEF SegmentWell
    <2>2. "padding" \in file.cells[s].attr => pad_count_at(file, s) \in 1 .. Len(file.cells)
      BY <2>1, <1>2, <1>3, <1>4, FixedTrailing DEF pad_count_at, body_at
    <2>3. tail_len(file, s) \in Nat
      BY <2>2, CellFacts, FixedTrailing DEF tail_len, Cell
    <2>4. body_len(file, s) >= 1 /\ r.base[Behind(file, s)] = r.base[s] + body_len(file, s)
          /\ "eod" \notin file.cells[s].attr
      BY <1>1, <1>7 DEF SegmentWell
    <2>5. /\ body_len(file, s) = file.cells[s].len - LRS_HEADER_LEN - tail_len(file, s)
          /\ Behind(file, s) = s + file.cells[s].len /\ body_at(s) = s + LRS_HEADER_LEN
      BY DEF body_len, body_at, Behind
    <2>6. body_len(file, s) \in Nat
      BY <1>2, <1>3, <2>3, <2>4, <2>5
    <2>7. Behind(file, s) = body_at(s) + body_len(file, s) + tail_len(file, s)
      BY <1>2, <1>3, <2>3, <2>5
    <2> QED
      BY <2>3, <2>4, <2>6, <2>7
  <1> QED
    BY <1>2, <1>3, <1>4, <1>6, <1>7 DEF Behind, body_at

\* The count of the padding bytes is in the segment, and counts itself.
LEMMA PaddingFacts ==
  ASSUME TypeOK, NEW r, WellFormed(r, file), NEW s \in Segments(file),
         "encrypted" \notin file.cells[s].attr, "padding" \in file.cells[s].attr
  PROVE  /\ pad_count_at(file, s) = Behind(file, s) - 1 - fixed_trailing(file.cells[s].attr)
         /\ pad_count_at(file, s) \in 1 .. Len(file.cells) /\ pad_count_at(file, s) >= body_at(s)
         /\ tail_len(file, s) = fixed_trailing(file.cells[s].attr) + file.cells[pad_count_at(file, s)].len
         /\ tail_len(file, s) > fixed_trailing(file.cells[s].attr)
  <1>1. /\ body_at(s) <= pad_count_at(file, s) /\ file.cells[pad_count_at(file, s)].len >= 1
    BY DEF WellFormed, SegmentWell
  <1>2. pad_count_at(file, s) \in 1 .. Len(file.cells)
    <2>1. /\ Behind(file, s) \in Nat /\ Behind(file, s) <= Len(file.cells) + 1
          /\ body_at(s) \in Nat /\ s >= 1 /\ s \in Nat /\ body_at(s) = s + LRS_HEADER_LEN
          /\ Len(file.cells) \in Nat /\ LRS_HEADER_LEN \in Nat
      BY SegmentFacts, CellFacts, Sizes
    <2>2. pad_count_at(file, s) = Behind(file, s) - 1 - fixed_trailing(file.cells[s].attr)
          /\ fixed_trailing(file.cells[s].attr) \in Nat
      BY FixedTrailing DEF pad_count_at
    <2> QED
      BY <1>1, <2>1, <2>2
  <1>3. file.cells[pad_count_at(file, s)].len \in Nat
    BY <1>2, CellFacts DEF Cell
  <1> QED
    BY <1>1, <1>2, <1>3, FixedTrailing DEF pad_count_at, tail_len

\* An item that has bytes in a segment fits its kind.
LEMMA Meets ==
  ASSUME TypeOK, NEW r, WellFormed(r, file), NEW s \in Segments(file),
         "encrypted" \notin file.cells[s].attr, NEW j \in 1 .. file.n,
         r.start[j] < r.base[s] + body_len(file, s), r.start[j + 1] > r.base[s]
  PROVE  /\ r.items[j].kind \in EflrKinds <=> "eflr" \in file.cells[s].attr
         /\ r.items[j].kind \in ComponentKinds =>
              r.base[s] <= r.start[j] /\ r.start[j + 1] <= r.base[s] + body_len(file, s)
         /\ r.items[j].kind = "sample" /\ r.start[j] <= r.base[s] => "succ" \in file.cells[s].attr
         /\ r.items[j].kind = "header" => r.start[j] <= r.base[s]
         /\ r.items[j].kind = "header" /\ "succ" \in file.cells[s].attr => r.place[j].cursor <= 0
  <1>1. r.start[j + 1] = r.start[j] + r.items[j].size
    BY ReadingTypes
  <1> QED
    BY <1>1 DEF WellFormed, SegmentWell

\* The stream does not end before the item that starts in a segment does.
LEMMA StartsBefore ==
  ASSUME TypeOK, NEW r, WellFormed(r, file), NEW s \in Segments(file),
         "encrypted" \notin file.cells[s].attr, NEW j \in 1 .. file.n + 1,
         r.start[j] < r.base[s] + body_len(file, s)
  PROVE  j \in 1 .. file.n
  <1>1. r.base[s] + body_len(file, s) <= r.start[file.n + 1]
    BY DEF WellFormed, SegmentWell
  <1>2. file.n \in Nat /\ \A i \in 1 .. file.n + 1 : r.start[i] \in Nat
    BY CellFacts, ReadingTypes
  <1>3. r.base[s] + body_len(file, s) \in Nat
    BY SegmentFacts
  <1>4. j # file.n + 1
    BY <1>1, <1>2, <1>3
  <1> QED
    BY <1>2, <1>4

\* The segment at which an item of the stream is still to come is not the last thing in the file.
LEMMA MoreBehind ==
  ASSUME TypeOK, NEW r, WellFormed(r, file), NEW s \in Segments(file),
         "encrypted" \notin file.cells[s].attr, NEW j \in 1 .. file.n,
         r.start[j + 1] > r.base[s] + body_len(file, s)
  PROVE  Behind(file, s) <= Len(file.cells)
  <1>1. r.start[j + 1] <= r.start[file.n + 1] /\ r.base[BehindFile(file)] = r.start[file.n + 1]
        /\ r.start[j + 1] \in Nat /\ r.start[file.n + 1] \in Nat
    BY ReadingTypes, CellFacts
  <1>2. r.base[Behind(file, s)] = r.base[s] + body_len(file, s) /\ r.base[s] \in Nat /\ body_len(file, s) \in Nat
        /\ Behind(file, s) \in Nat /\ Behind(file, s) <= Len(file.cells) + 1
    BY SegmentFacts
  <1>3. Behind(file, s) # BehindFile(file)
    BY <1>1, <1>2
  <1>4. Len(file.cells) \in Nat /\ BehindFile(file) = Len(file.cells) + 1
    BY CellFacts
  <1> QED
    BY <1>2, <1>3, <1>4

\* The kinds of items of an EFLR, and of its components.
LEMMA EflrKindsAre ==
  /\ EflrKinds = {"set", "object", "attrib", "value"}
  /\ ComponentKinds = {"set", "object", "attrib"}
  BY DEF EflrKinds, ComponentKinds
-----------------------------------------------------------------------------
(* What the parser sees when it moves on, and when a block comes. *)

\* Where the parser stands, as numbers.
LEMMA ViewTypes ==
  ASSUME TypeOK
  PROVE  /\ avail \in Int /\ remain \in Int /\ Here \in Int /\ fed \in Nat /\ aside \in Nat
         /\ byte_idx \in Int /\ max_byte_idx \in Nat /\ Due \in Nat /\ Due >= 1 /\ Len(out) \in Nat
         /\ Here = fed + 1 - avail /\ Due = Len(out) + 1
         /\ avail = max_byte_idx - byte_idx /\ remain = lrs_len - lrs_byte_cnt
  <1>1. fed \in Nat
    BY CellFacts
  <1>2. avail \in Int /\ byte_idx \in Int /\ max_byte_idx \in Nat /\ remain \in Int
    BY DEF TypeOK, RingTypes, RecordTypes, avail, remain
  <1>3. Len(out) \in Nat /\ aside \in Nat
    BY DEF TypeOK, IflrTypes, RingTypes, aside
  <1> QED
    BY <1>1, <1>2, <1>3 DEF Here, Due, avail, remain

\* Parsing n bytes moves the window on the buffer by n.
LEMMA Moves ==
  ASSUME TypeOK, UNCHANGED <<input, ring>>, NEW n \in Int, byte_idx' = byte_idx + n
  PROVE  /\ avail' = avail - n /\ Here' = Here + n
         /\ \A q \in Int : Seen(q)' = Seen(q + n)
  <1>1. UNCHANGED <<file, fed, buffer, buffer_idx, max_byte_idx>>
    BY DEF input, ring
  <1>2. fed \in Nat /\ byte_idx \in Int /\ max_byte_idx \in Nat
    BY ViewTypes
  <1>3. avail' = avail - n /\ Here' = Here + n
    BY <1>1, <1>2 DEF avail, Here
  <1>4. ASSUME NEW q \in Int PROVE Seen(q)' = Seen(q + n)
    <2>1. byte_idx' + q = byte_idx + (q + n)
      BY <1>2
    <2> QED
      BY <1>1, <2>1 DEF Seen, OffsetAt
  <1> QED
    BY <1>3, <1>4

\* dlis_read lengthens the window by the block and moves nothing in it, also when it changes buffers.
LEMMA ReadMoves ==
  ASSUME TypeOK, Window, dlis_read, pc' # "overrun"
  PROVE  /\ avail' = avail + block_len /\ Here' = Here /\ block_len \in Nat
         /\ fed' = fed + block_len /\ block_len <= chunk /\ fed' <= Len(file.cells)
         /\ block_len < chunk => fed' = Len(file.cells)
         /\ fed < Len(file.cells) => block_len >= 1
         /\ \A q \in 0 .. avail - 1 : Seen(q)' = Seen(q)
         /\ \A q \in avail .. avail' - 1 : Seen(q)' = Here + q
  <1>1. /\ copies_fit /\ buffer' = after_copies /\ buffer_idx' = next_buffer
        /\ byte_idx' = first_kept /\ max_byte_idx' = first_free + block_len
        /\ fed' = fed + block_len
    BY DEF dlis_read
  <1>2. /\ fed \in Nat /\ byte_idx \in Int /\ max_byte_idx \in Nat /\ byte_idx >= 0
        /\ max_byte_idx <= DLIS_BUFF_SIZE /\ avail = max_byte_idx - byte_idx /\ avail >= 0 /\ aside \in Nat
        /\ DLIS_BUFF_SIZE \in Nat
    <2>1. byte_idx \in 0 .. max_byte_idx /\ max_byte_idx \in 0 .. DLIS_BUFF_SIZE
      BY DEF Window, TypeOK, RingTypes
    <2> QED
      BY <2>1, ViewTypes, Sizes
  <1>3. chunk \in Nat /\ chunk >= 1 /\ Len(file.cells) \in Nat /\ fed <= Len(file.cells)
    BY CellFacts, GeometryAssumption DEF TypeOK, InputTypes
  <1>4. /\ block_len \in Nat /\ block_len <= chunk /\ fed + block_len <= Len(file.cells)
        /\ block_len < chunk => fed + block_len = Len(file.cells)
        /\ fed < Len(file.cells) => block_len >= 1
    BY <1>2, <1>3 DEF block_len, Least
  <1>5. /\ first_kept \in Nat /\ first_free = first_kept + avail
        /\ ~must_switch => first_kept = byte_idx
        /\ first_free + block_len <= DLIS_BUFF_SIZE
    BY <1>1, <1>2 DEF first_kept, first_free, room, copies_fit, aside
  <1>6. /\ next_buffer \in 0 .. DLIS_BUFF_NUM - 1 /\ (~must_switch => next_buffer = buffer_idx)
    <2>1. buffer_idx \in 0 .. DLIS_BUFF_NUM - 1
      BY DEF TypeOK, RingTypes
    <2>2. (buffer_idx + 1) % DLIS_BUFF_NUM \in 0 .. DLIS_BUFF_NUM - 1
      BY <2>1, Sizes
    <2> QED
      BY <2>1, <2>2 DEF next_buffer
  <1>7. avail' = avail + block_len
    <2>1. avail' = max_byte_idx' - byte_idx'
      BY DEF avail
    <2> QED
      BY <1>1, <1>2, <1>4, <1>5, <2>1
  <1>8. Here' = Here
    <2>1. Here' = fed' + 1 - avail' /\ Here = fed + 1 - avail
      BY DEF Here
    <2> QED
      BY <1>1, <1>2, <1>4, <1>7, <2>1
  <1> DEFINE copied == [i \in 0 .. DLIS_BUFF_SIZE - 1 |->
     CASE must_switch /\ i \in first_kept .. first_free - 1 ->
            OffsetAt(byte_idx + i - first_kept)
       [] i \in first_free .. first_free + block_len - 1 -> fed + 1 + i - first_free
       [] OTHER -> buffer[next_buffer][i]]
  <1>9. buffer'[next_buffer] = copied
    <2>1. next_buffer \in DOMAIN buffer
      BY <1>6 DEF TypeOK, RingTypes
    <2> QED
      BY <1>1, <2>1 DEF after_copies
  <1>10. ASSUME NEW q \in Nat, q < avail + block_len PROVE Seen(q)' = copied[first_kept + q]
    <2>1. first_kept + q \in 0 .. DLIS_BUFF_SIZE - 1
      BY <1>2, <1>4, <1>5, <1>10
    <2>2. byte_idx' + q = first_kept + q
      BY <1>1
    <2>3. OffsetAt(byte_idx + q)' = buffer'[buffer_idx'][first_kept + q]
      BY <2>1, <2>2 DEF OffsetAt
    <2> QED
      BY <1>1, <1>9, <2>3 DEF Seen
  <1>11. ASSUME NEW q \in 0 .. avail - 1 PROVE Seen(q)' = Seen(q)
    <2>1. q \in Nat /\ q < avail /\ first_kept + q \in 0 .. DLIS_BUFF_SIZE - 1
          /\ first_kept + q \in first_kept .. first_free - 1
          /\ first_kept + q \notin first_free .. first_free + block_len - 1
          /\ byte_idx + (first_kept + q) - first_kept = byte_idx + q
          /\ byte_idx + q \in 0 .. DLIS_BUFF_SIZE - 1
      BY <1>2, <1>4, <1>5
    <2>2. Seen(q)' = copied[first_kept + q]
      <3> HIDE DEF copied
      <3>1. q < avail + block_len
        BY <1>2, <1>4, <2>1
      <3> QED
        BY <1>10, <2>1, <3>1
    <2>3. CASE must_switch
      BY <2>1, <2>2, <2>3 DEF Seen
    <2>4. CASE ~must_switch
      <3>1. copied[first_kept + q] = buffer[next_buffer][first_kept + q]
        BY <2>1, <2>4
      <3>2. OffsetAt(byte_idx + q) = buffer[buffer_idx][byte_idx + q]
        BY <2>1 DEF OffsetAt
      <3> QED
        BY <1>5, <1>6, <2>2, <2>4, <3>1, <3>2 DEF Seen
    <2> QED
      BY <2>3, <2>4
  <1>12. ASSUME NEW q \in avail .. avail' - 1 PROVE Seen(q)' = Here + q
    <2>1. q \in Nat /\ q < avail + block_len /\ first_kept + q \in 0 .. DLIS_BUFF_SIZE - 1
          /\ first_kept + q \notin first_kept .. first_free - 1
          /\ first_kept + q \in first_free .. first_free + block_len - 1
          /\ fed + 1 + (first_kept + q) - first_free = fed + 1 - avail + q
      BY <1>2, <1>4, <1>5, <1>7
    <2>2. Seen(q)' = copied[first_kept + q]
      BY <1>10, <2>1
    <2> QED
      BY <2>1, <2>2 DEF Here
  <1> QED
    BY <1>1, <1>4, <1>7, <1>8, <1>11, <1>12

\* The bytes seen, as long as the parser is not moved past them.
LEMMA OutsideMoves ==
  ASSUME TypeOK, UNCHANGED <<input, ring>>, NEW n \in Nat, byte_idx' = byte_idx + n, Outside
  PROVE  Outside'
  <1>1. /\ avail' = avail - n /\ Here' = Here + n /\ avail \in Int /\ Here \in Int
        /\ \A q \in Int : Seen(q)' = Seen(q + n)
    BY Moves, ViewTypes
  <1>2. ASSUME NEW q \in 0 .. avail' - 1 PROVE Seen(q)' = Here' + q
    <2>1. q + n \in 0 .. avail - 1 /\ q \in Int
      BY <1>1, <1>2
    <2>2. Seen(q + n) = Here + (q + n)
      BY <2>1 DEF Outside
    <2> QED
      BY <1>1, <2>1, <2>2
  <1> QED
    BY <1>2 DEF Outside

\* In a body the bytes in front of the parser stay those of the stream when n are parsed.
LEMMA InsideMoves ==
  ASSUME TypeOK, UNCHANGED <<input, ring>>, NEW n \in Nat, byte_idx' = byte_idx + n,
         NEW r, NEW s \in Nat, r.base[s] \in Nat, Inside(r, s)
  PROVE  Inside(r, s)' /\ StreamAt(r, s)' = StreamAt(r, s) + n
  <1>1. /\ avail' = avail - n /\ Here' = Here + n /\ avail \in Int /\ Here \in Int
        /\ \A q \in Int : Seen(q)' = Seen(q + n)
    BY Moves, ViewTypes
  <1>2. body_at(s) \in Nat /\ UNCHANGED <<file, fed>>
    BY Sizes DEF body_at, input
  <1>3. StreamAt(r, s)' = StreamAt(r, s) + n /\ StreamAt(r, s) \in Int
    BY <1>1, <1>2 DEF StreamAt
  <1>4. ASSUME NEW q \in 0 .. avail' - 1
        PROVE  IF Here' + q >= body_at(s) THEN Seen(q)' = Here' + q
               ELSE IsByte(r, file', StreamAt(r, s)' + q, CellOf(Seen(q))')
    <2>1. q + n \in 0 .. avail - 1 /\ q \in Int /\ Here' + q = Here + (q + n)
          /\ StreamAt(r, s)' + q = StreamAt(r, s) + (q + n)
      BY <1>1, <1>3, <1>4
    <2>2. IF Here + (q + n) >= body_at(s) THEN Seen(q + n) = Here + (q + n)
          ELSE IsByte(r, file, StreamAt(r, s) + (q + n), CellOf(Seen(q + n)))
      BY <2>1 DEF Inside
    <2>3. Seen(q)' = Seen(q + n)
      BY <1>1, <2>1
    <2>4. CellOf(Seen(q))' = CellOf(Seen(q + n))
      BY <1>2, <2>3 DEF CellOf
    <2> QED
      BY <1>2, <2>1, <2>2, <2>3, <2>4
  <1>5. fed' + 1 >= body_at(s)
    BY <1>2 DEF Inside
  <1> QED
    BY <1>3, <1>4, <1>5 DEF Inside

\* Behind the body nothing pasted is left: the bytes are those of the file again.
LEMMA InsideLeaves ==
  ASSUME TypeOK, UNCHANGED <<input, ring>>, NEW n \in Nat, byte_idx' = byte_idx + n,
         NEW r, NEW s \in Nat, Inside(r, s), Here + n >= body_at(s)
  PROVE  Outside'
  <1>1. /\ avail' = avail - n /\ Here' = Here + n /\ avail \in Int /\ Here \in Int
        /\ \A q \in Int : Seen(q)' = Seen(q + n)
    BY Moves, ViewTypes
  <1>2. body_at(s) \in Nat
    BY Sizes DEF body_at
  <1>3. ASSUME NEW q \in 0 .. avail' - 1 PROVE Seen(q)' = Here' + q
    <2>1. q + n \in 0 .. avail - 1 /\ q \in Int /\ Here + (q + n) >= body_at(s)
      BY <1>1, <1>2, <1>3
    <2>2. Seen(q + n) = Here + (q + n)
      BY <2>1 DEF Inside
    <2> QED
      BY <1>1, <2>1, <2>2
  <1> QED
    BY <1>3 DEF Outside

\* dlis_read keeps the bytes those of the file.
LEMMA OutsideReads ==
  ASSUME TypeOK, Window, dlis_read, pc' # "overrun", Outside
  PROVE  Outside'
  <1>1. /\ avail' = avail + block_len /\ Here' = Here /\ block_len \in Nat
        /\ \A q \in 0 .. avail - 1 : Seen(q)' = Seen(q)
        /\ \A q \in avail .. avail' - 1 : Seen(q)' = Here + q
    BY ReadMoves
  <1>2. avail \in Int /\ Here \in Int
    BY ViewTypes
  <1>3. ASSUME NEW q \in 0 .. avail' - 1 PROVE Seen(q)' = Here' + q
    <2>1. CASE q \in 0 .. avail - 1
      BY <1>1, <2>1 DEF Outside
    <2>2. CASE q \in avail .. avail' - 1
      BY <1>1, <2>2
    <2> QED
      BY <1>1, <1>2, <1>3, <2>1, <2>2
  <1> QED
    BY <1>3 DEF Outside

\* dlis_read keeps the bytes of a body those of the stream.
LEMMA InsideReads ==
  ASSUME TypeOK, Window, dlis_read, pc' # "overrun",
         NEW r, NEW s \in Nat, r.base[s] \in Nat, Inside(r, s)
  PROVE  Inside(r, s)' /\ StreamAt(r, s)' = StreamAt(r, s)
  <1>1. /\ avail' = avail + block_len /\ Here' = Here /\ block_len \in Nat /\ fed' = fed + block_len
        /\ \A q \in 0 .. avail - 1 : Seen(q)' = Seen(q)
        /\ \A q \in avail .. avail' - 1 : Seen(q)' = Here + q
    BY ReadMoves
  <1>2. avail \in Int /\ Here \in Int /\ fed \in Nat /\ Here = fed + 1 - avail
    BY ViewTypes
  <1>3. body_at(s) \in Nat /\ UNCHANGED file /\ fed + 1 >= body_at(s)
    BY Sizes DEF body_at, dlis_read, Inside
  <1>4. StreamAt(r, s)' = StreamAt(r, s)
    BY <1>1, <1>3 DEF StreamAt
  <1>5. ASSUME NEW q \in 0 .. avail' - 1
        PROVE  IF Here' + q >= body_at(s) THEN Seen(q)' = Here' + q
               ELSE IsByte(r, file', StreamAt(r, s)' + q, CellOf(Seen(q))')
    <2>1. CASE q \in 0 .. avail - 1
      <3>1. Seen(q)' = Seen(q) /\ CellOf(Seen(q))' = CellOf(Seen(q))
        BY <1>1, <1>3, <2>1 DEF CellOf
      <3>2. IF Here + q >= body_at(s) THEN Seen(q) = Here + q
            ELSE IsByte(r, file, StreamAt(r, s) + q, CellOf(Seen(q)))
        BY <2>1 DEF Inside
      <3> QED
        BY <1>1, <1>3, <1>4, <3>1, <3>2
    <2>2. CASE q \in avail .. avail' - 1
      <3>1. Here + q >= body_at(s)
        BY <1>1, <1>2, <1>3, <2>2
      <3> QED
        BY <1>1, <2>2, <3>1
    <2> QED
      BY <1>1, <1>2, <1>5, <2>1, <2>2
  <1>6. fed' + 1 >= body_at(s)
    BY <1>1, <1>2, <1>3
  <1> QED
    BY <1>4, <1>5, <1>6 DEF Inside

-----------------------------------------------------------------------------
(* The bytes of a body. *)

\* The byte q places on is the one of the stream that is due there.
LEMMA ByteHere ==
  ASSUME TypeOK, NEW r, WellFormed(r, file), NEW s \in Segments(file),
         "encrypted" \notin file.cells[s].attr, Inside(r, s),
         NEW q \in 0 .. avail - 1, StreamAt(r, s) + q < BodyEnd(r, s)
  PROVE  IsByte(r, file, StreamAt(r, s) + q, CellAt(byte_idx + q))
  <1>1. /\ Here \in Int /\ avail \in Int /\ fed \in Nat /\ Here = fed + 1 - avail
    BY ViewTypes
  <1>2. /\ body_at(s) \in Nat /\ body_at(s) = s + LRS_HEADER_LEN /\ s >= 1 /\ s \in Nat
        /\ r.base[s] \in Nat /\ body_len(file, s) \in Nat
    BY SegmentFacts
  <1>3. fed <= Len(file.cells) /\ Len(file.cells) \in Nat
    BY CellFacts
  <1>4. q \in Int /\ q >= 0 /\ q < avail
    BY <1>1
  <1>5. CASE ~(Here + q >= body_at(s))
    BY <1>5 DEF Inside, CellAt, Seen
  <1>6. CASE Here + q >= body_at(s)
    <2> DEFINE i == Here + q - body_at(s)
    <2>1. i \in 0 .. body_len(file, s) - 1 /\ StreamAt(r, s) + q = r.base[s] + i
          /\ Here + q = body_at(s) + i
      BY <1>1, <1>2, <1>4, <1>6 DEF StreamAt, BodyEnd
    <2>2. Here + q \in 1 .. Len(file.cells)
      BY <1>1, <1>2, <1>3, <1>4, <1>6, Sizes
    <2>3. IsByte(r, file, r.base[s] + i, file.cells[body_at(s) + i])
      <3> HIDE DEF i
      <3> QED
        BY <2>1 DEF WellFormed, SegmentWell
    <2>4. Seen(q) = Here + q
      BY <1>6 DEF Inside
    <2>5. CellAt(byte_idx + q) = file.cells[Here + q]
      BY <2>2, <2>4, CellOfFacts DEF CellAt, Seen
    <2> HIDE DEF i
    <2> QED
      BY <2>1, <2>3, <2>5
  <1> QED
    BY <1>5, <1>6

\* It is a byte of the item that is there in the stream.
LEMMA ItemHere ==
  ASSUME TypeOK, NEW r, WellFormed(r, file), NEW s \in Segments(file),
         "encrypted" \notin file.cells[s].attr, Inside(r, s),
         NEW q \in 0 .. avail - 1, StreamAt(r, s) + q < BodyEnd(r, s),
         NEW j \in 1 .. file.n, NEW ix \in Nat, ix < r.items[j].size,
         StreamAt(r, s) + q = r.start[j] + ix
  PROVE  /\ CellAt(byte_idx + q).kind = "body"
         /\ CellAt(byte_idx + q).item = r.items[j] /\ CellAt(byte_idx + q).ix = ix
  <1>1. IsByte(r, file, StreamAt(r, s) + q, CellAt(byte_idx + q))
    BY ByteHere
  <1>2. r.start[j] \in Nat /\ r.items[j].size \in Nat /\ file.n \in Nat
    BY ReadingTypes, CellFacts
  <1> DEFINE x == StreamAt(r, s) + q
  <1>3. r.start[j] <= x /\ x < r.start[j] + r.items[j].size /\ x - r.start[j] = ix
    BY <1>2
  <1> QED
    <2> HIDE DEF x
    <2>1. IsByte(r, file, x, CellAt(byte_idx + q))
      BY <1>1 DEF x
    <2> QED
      BY <1>3, <2>1 DEF IsByte

\* What trailing_len finds out is the length of the trailing bytes.
LEMMA TrailComputed ==
  ASSUME TypeOK, NEW r, WellFormed(r, file), NEW s \in Segments(file),
         "encrypted" \notin file.cells[s].attr, NEW i \in Int, NEW left \in Int,
         max_byte_idx - i >= left =>
           OffsetAt(i + left - 1 - fixed_trailing(file.cells[s].attr)) = pad_count_at(file, s)
           \/ "padding" \notin file.cells[s].attr
  PROVE  compute_trailing(i, left, file.cells[s].attr) \in {-1, tail_len(file, s)}
  <1> DEFINE attr == file.cells[s].attr
  <1>1. CASE "padding" \notin attr
    <2>1. compute_trailing(i, left, attr) = fixed_trailing(attr)
      BY <1>1 DEF compute_trailing
    <2>2. tail_len(file, s) = fixed_trailing(attr)
      BY <1>1, FixedTrailing DEF tail_len
    <2> QED
      BY <2>1, <2>2
  <1>2. CASE "padding" \in attr /\ max_byte_idx - i >= left
    <2>1. compute_trailing(i, left, attr) = fixed_trailing(attr) + padding_len(i, left, attr)
      BY <1>2 DEF compute_trailing
    <2>2. /\ pad_count_at(file, s) \in 1 .. Len(file.cells)
          /\ tail_len(file, s) = fixed_trailing(attr) + file.cells[pad_count_at(file, s)].len
      BY <1>2, PaddingFacts
    <2>3. padding_len(i, left, attr) = file.cells[pad_count_at(file, s)].len
      BY <1>2, <2>2, CellOfFacts DEF padding_len, CellAt
    <2> QED
      BY <2>1, <2>2, <2>3
  <1>3. CASE "padding" \in attr /\ ~(max_byte_idx - i >= left)
    BY <1>3 DEF compute_trailing
  <1> QED
    BY <1>1, <1>2, <1>3

\* trailing_len, when it is known, is what the segment has behind its body.
LEMMA TrailingIs ==
  ASSUME TypeOK, NEW r, WellFormed(r, file), NEW s, OfSegment(s), "encrypted" \notin lrs_attr,
         lrs_trail_len \in {-1, tail_len(file, s)}, Inside(r, s),
         StreamAt(r, s) <= BodyEnd(r, s), trailing_len >= 0
  PROVE  /\ trailing_len = tail_len(file, s)
         /\ body_left = BodyEnd(r, s) - StreamAt(r, s)
  <1>1. s \in Segments(file) /\ lrs_attr = file.cells[s].attr /\ Here + remain = Behind(file, s)
    BY DEF OfSegment
  <1>2. /\ body_at(s) \in Nat /\ r.base[s] \in Nat /\ Behind(file, s) \in Nat
        /\ tail_len(file, s) \in Nat /\ body_len(file, s) \in Nat
        /\ Behind(file, s) = body_at(s) + body_len(file, s) + tail_len(file, s)
    BY <1>1, SegmentFacts
  <1>3. /\ Here \in Int /\ avail \in Int /\ remain \in Int /\ byte_idx \in Int /\ max_byte_idx \in Nat
        /\ avail = max_byte_idx - byte_idx
    BY ViewTypes
  <1>4. StreamAt(r, s) \in Int /\ Here <= body_at(s) + body_len(file, s)
        /\ remain - tail_len(file, s) = BodyEnd(r, s) - StreamAt(r, s)
    BY <1>1, <1>2, <1>3 DEF StreamAt, BodyEnd
  <1>5. compute_trailing(byte_idx, remain, lrs_attr) \in {-1, tail_len(file, s)}
    <2> DEFINE q == remain - 1 - fixed_trailing(file.cells[s].attr)
    <2>1. ASSUME max_byte_idx - byte_idx >= remain, "padding" \in file.cells[s].attr
          PROVE  OffsetAt(byte_idx + remain - 1 - fixed_trailing(file.cells[s].attr)) = pad_count_at(file, s)
      <3>1. /\ pad_count_at(file, s) = Behind(file, s) - 1 - fixed_trailing(file.cells[s].attr)
            /\ pad_count_at(file, s) >= body_at(s)
            /\ tail_len(file, s) > fixed_trailing(file.cells[s].attr)
            /\ fixed_trailing(file.cells[s].attr) \in Nat
        BY <1>1, <2>1, PaddingFacts, FixedTrailing
      <3>2. q \in 0 .. avail - 1 /\ Here + q = pad_count_at(file, s) /\ Here + q >= body_at(s)
        BY <1>1, <1>2, <1>3, <1>4, <2>1, <3>1
      <3>3. Seen(q) = Here + q
        <4> HIDE DEF q
        <4> QED
          BY <3>2 DEF Inside
      <3>4. byte_idx + remain - 1 - fixed_trailing(file.cells[s].attr) = byte_idx + q
        BY <1>3, <3>1
      <3> QED
        BY <3>2, <3>3, <3>4 DEF Seen
    <2> QED
      BY <1>1, <1>3, <2>1, TrailComputed
  <1>6. trailing_len = tail_len(file, s)
    BY <1>2, <1>5 DEF trailing_len
  <1> QED
    BY <1>4, <1>6 DEF body_left

-----------------------------------------------------------------------------
(* What a step leaves as it was. *)

\* What is due stays due when nothing is handed over and no callback is called.
LEMMA StaysDue ==
  ASSUME NEW r, UpToDue(r), InRow(r),
         UNCHANGED <<file, out, lines, templt, templt_read_idx, attrib_value_cnt, iflr>>
  PROVE  UpToDue(r)' /\ InRow(r)' /\ Due' = Due
  BY DEF UpToDue, InRow, Due, Sampling, DueIs, loaded, iflr

\* What is put aside stays put aside.
LEMMA StaysAside ==
  ASSUME NEW r, PutAside(r), UNCHANGED <<file, out, unparsed_buff>>
  PROVE  PutAside(r)'
  BY DEF PutAside, Due, aside, CellOf

\* Nothing is asked of an empty unparsed_buff.
LEMMA NothingAside ==
  ASSUME NEW r, unparsed_buff' = <<>>
  PROVE  PutAside(r)' /\ aside' = 0
  BY DEF PutAside, aside

\* Bytes counted in a segment leave it and its record where they are.
LEMMA SegmentMoves ==
  ASSUME TypeOK, anomalies = {}, found = {}, UNCHANGED <<input, ring, nType, lrs_attr>>,
         NEW n \in Nat, n <= avail, InSegment(n),
         NEW v, NEW s, InRecord(v, s), OfSegment(s)
  PROVE  /\ InRecord(v, s)' /\ OfSegment(s)' /\ anomalies' = {}
         /\ byte_idx' = byte_idx + n /\ Here' = Here + n /\ remain' = remain - n /\ avail' = avail - n
  <1>1. /\ byte_idx' = byte_idx + n /\ lrs_byte_cnt' = lrs_byte_cnt + n
        /\ vr_byte_cnt' = vr_byte_cnt + n /\ UNCHANGED <<vr_len, lrs_len>>
    BY DEF InSegment, counted
  <1>2. anomalies' = {}
    <2>1. ~(n > avail)
      BY ViewTypes
    <2> QED
      BY <2>1 DEF InSegment, ahead
  <1>3. Here' = Here + n /\ Here \in Int /\ remain \in Int /\ avail' = avail - n
    BY <1>1, Moves, ViewTypes
  <1>4. vr_len \in Int /\ vr_byte_cnt \in Int /\ lrs_len \in Int /\ lrs_byte_cnt \in Int
    BY DEF TypeOK, RecordTypes
  <1>5. remain' = remain - n
    BY <1>1, <1>4 DEF remain
  <1>6. file' = file
    BY DEF input
  <1>7. InRecord(v, s)'
    <2>1. Here' + vr_len' - vr_byte_cnt' = Here + vr_len - vr_byte_cnt
      BY <1>1, <1>3, <1>4
    <2> QED
      BY <1>6, <2>1 DEF InRecord
  <1>8. OfSegment(s)'
    <2>1. Here' + remain' = Here + remain
      BY <1>3, <1>5
    <2> QED
      BY <1>6, <2>1 DEF OfSegment
  <1> QED
    BY <1>1, <1>2, <1>3, <1>5, <1>7, <1>8

-----------------------------------------------------------------------------
(* In a body the parser takes bytes for what they are. *)

\* In a body: the segment, the item due, and how much of it lies behind the parser.
LEMMA BodyFacts ==
  ASSUME TypeOK, NEW r, WellFormed(r, file), NEW v, NEW s, code \in BodyCodes, InBody(r, v, s)
  PROVE  /\ s \in Segments(file) /\ s \in Nat /\ lrs_attr = file.cells[s].attr
         /\ "encrypted" \notin file.cells[s].attr
         /\ Inside(r, s) /\ Due \in 1 .. file.n /\ Due + 1 \in 1 .. file.n + 1 /\ Due \in 1 .. file.n + 1
         /\ r.items[Due] \in Item /\ r.items[Due].size \in Nat /\ r.items[Due].size >= 1
         /\ r.items[Due].id = Due
         /\ r.start[Due] \in Nat /\ r.start[Due + 1] = r.start[Due] + r.items[Due].size
         /\ r.base[s] \in Nat /\ r.start[Due + 1] > r.base[s]
         /\ BodyEnd(r, s) \in Nat /\ BodyEnd(r, s) = r.base[s] + body_len(file, s)
         /\ StreamAt(r, s) \in Nat /\ StreamAt(r, s) <= BodyEnd(r, s)
         /\ Fields(code) => StreamAt(r, s) = r.start[Due] + 1 /\ comp = r.items[Due]
         /\ ~Fields(code) => StreamAt(r, s) = r.start[Due]
         /\ code # "IFLR_DATA" => r.start[Due] < BodyEnd(r, s)
         /\ Fields(code) \/ code = "EFLR_COMP" => /\ r.items[Due].kind \in ComponentKinds
                                                  /\ r.start[Due + 1] <= BodyEnd(r, s)
         /\ ~is_eod
  <1>1. /\ OfSegment(s) /\ "encrypted" \notin lrs_attr /\ Inside(r, s)
        /\ Due <= file.n /\ r.start[Due + 1] > r.base[s]
        /\ StreamAt(r, s) = r.start[Due] + IF Fields(code) THEN 1 ELSE 0
        /\ IF code = "IFLR_DATA" THEN r.start[Due] <= BodyEnd(r, s) ELSE r.start[Due] < BodyEnd(r, s)
        /\ Fields(code) => comp = r.items[Due]
    BY DEF InBody
  <1>2. s \in Segments(file) /\ lrs_attr = file.cells[s].attr /\ "encrypted" \notin file.cells[s].attr
    BY <1>1 DEF OfSegment
  <1>3. s \in Nat /\ r.base[s] \in Nat /\ body_len(file, s) \in Nat /\ "eod" \notin file.cells[s].attr
    BY <1>2, SegmentFacts
  <1>4. BodyEnd(r, s) = r.base[s] + body_len(file, s) /\ BodyEnd(r, s) \in Nat
    BY <1>3 DEF BodyEnd
  <1>5. Due \in 1 .. file.n /\ Due + 1 \in 1 .. file.n + 1 /\ Due \in 1 .. file.n + 1
    <2>1. Due \in Nat /\ Due >= 1 /\ file.n \in Nat
      BY ViewTypes, CellFacts
    <2> QED
      BY <1>1, <2>1
  <1>6. /\ r.items[Due] \in Item /\ r.items[Due].size \in Nat /\ r.items[Due].size >= 1
        /\ r.items[Due].id = Due /\ r.start[Due] \in Nat
        /\ r.start[Due + 1] = r.start[Due] + r.items[Due].size
    BY <1>5, ReadingTypes, CellFacts
  <1>7. ASSUME Fields(code) \/ code = "EFLR_COMP"
        PROVE  r.items[Due].kind \in ComponentKinds /\ r.start[Due + 1] <= BodyEnd(r, s)
    <2>1. r.items[Due].kind \in ComponentKinds
      BY <1>7 DEF InBody, DueIs, Fields, ComponentKinds
    <2>2. r.start[Due] < r.base[s] + body_len(file, s)
      BY <1>1, <1>4, <1>7 DEF Fields
    <2> QED
      BY <1>1, <1>2, <1>4, <1>5, <2>1, <2>2, Meets
  <1>8. StreamAt(r, s) \in Nat /\ StreamAt(r, s) <= BodyEnd(r, s)
    <2>1. CASE Fields(code)
      BY <1>1, <1>4, <1>6, <1>7, <2>1
    <2>2. CASE ~Fields(code)
      BY <1>1, <1>4, <1>6, <2>2
    <2> QED
      BY <2>1, <2>2
  <1>9. ~is_eod
    BY <1>2, <1>3 DEF is_eod
  <1>10. /\ Fields(code) => StreamAt(r, s) = r.start[Due] + 1
         /\ ~Fields(code) => StreamAt(r, s) = r.start[Due]
    BY <1>1, <1>6
  <1> QED
    BY <1>1, <1>2, <1>3, <1>4, <1>5, <1>6, <1>7, <1>8, <1>9, <1>10

\* What is left of a segment is the rest of its body and its trailing bytes.
LEMMA BodyLeft ==
  ASSUME TypeOK, NEW r, WellFormed(r, file), NEW v, NEW s, code \in BodyCodes, InBody(r, v, s),
         trailing_len >= 0
  PROVE  /\ trailing_len = tail_len(file, s) /\ tail_len(file, s) \in Nat
         /\ body_left = BodyEnd(r, s) - StreamAt(r, s) /\ body_left \in Nat
         /\ remain = body_left + tail_len(file, s) /\ remain \in Nat
         /\ Here + body_left + tail_len(file, s) = Behind(file, s)
  <1>1. OfSegment(s) /\ "encrypted" \notin lrs_attr /\ lrs_trail_len \in {-1, tail_len(file, s)}
    BY DEF InBody
  <1>2. /\ Inside(r, s) /\ StreamAt(r, s) <= BodyEnd(r, s) /\ s \in Segments(file)
        /\ "encrypted" \notin file.cells[s].attr /\ StreamAt(r, s) \in Nat /\ BodyEnd(r, s) \in Nat
    BY BodyFacts
  <1>3. trailing_len = tail_len(file, s) /\ body_left = BodyEnd(r, s) - StreamAt(r, s)
    BY <1>1, <1>2, TrailingIs
  <1>4. tail_len(file, s) \in Nat /\ remain \in Int /\ Here \in Int /\ Here + remain = Behind(file, s)
    BY <1>1, <1>2, SegmentFacts, ViewTypes DEF OfSegment
  <1>5. body_left \in Nat
    BY <1>2, <1>3
  <1>6. body_left = remain - trailing_len
    BY DEF body_left
  <1> QED
    BY <1>3, <1>4, <1>5, <1>6

\* The first byte is there: it is that of the item due.
LEMMA FirstByte ==
  ASSUME TypeOK, NEW r, WellFormed(r, file), NEW v, NEW s, code \in BodyCodes, InBody(r, v, s),
         avail >= 1, StreamAt(r, s) < BodyEnd(r, s),
         Fields(code) => r.items[Due].size > 1
  PROVE  /\ CellAt(byte_idx).kind = "body" /\ ItemAt(byte_idx) = r.items[Due]
         /\ CellAt(byte_idx).ix = IF Fields(code) THEN 1 ELSE 0
  <1> DEFINE ix == IF Fields(code) THEN 1 ELSE 0
  <1>1. byte_idx + 0 = byte_idx /\ 0 \in 0 .. avail - 1
    BY ViewTypes
  <1>2. ix \in Nat /\ ix < r.items[Due].size /\ StreamAt(r, s) + 0 = r.start[Due] + ix
        /\ StreamAt(r, s) + 0 < BodyEnd(r, s)
    BY BodyFacts
  <1>3. /\ s \in Segments(file) /\ "encrypted" \notin file.cells[s].attr /\ Inside(r, s)
        /\ Due \in 1 .. file.n
    BY BodyFacts
  <1> HIDE DEF ix
  <1>4. /\ CellAt(byte_idx + 0).kind = "body"
        /\ CellAt(byte_idx + 0).item = r.items[Due] /\ CellAt(byte_idx + 0).ix = ix
    BY <1>1, <1>2, <1>3, ItemHere
  <1> QED
    BY <1>1, <1>4 DEF ItemAt, ix

\* In a body no handler meets an item that is not the one it takes the bytes for.
LEMMA NotOtherItem ==
  ASSUME TypeOK, NEW r, WellFormed(r, file), NEW v, NEW s, code \in BodyCodes, InBody(r, v, s),
         trailing_len >= 0
  PROVE  ~is_other_item
  <1>1. body_left \in Nat /\ avail \in Int /\ remain \in Int
    BY BodyLeft, ViewTypes
  <1>3. ASSUME code = "EFLR_COMP", avail >= 1 PROVE as_expected
    <2>1. StreamAt(r, s) < BodyEnd(r, s) /\ ~Fields(code) /\ r.items[Due].kind \in ComponentKinds
      BY <1>3, BodyFacts DEF Fields
    <2> QED
      BY <1>3, <2>1, FirstByte DEF as_expected, starts
  <1>4. ASSUME Fields(code), item_len > 0, readable > 0 PROVE as_expected
    <2>1. /\ comp = r.items[Due] /\ r.items[Due].size \in Nat /\ StreamAt(r, s) = r.start[Due] + 1
          /\ r.start[Due + 1] = r.start[Due] + r.items[Due].size /\ r.start[Due] \in Nat
          /\ r.items[Due].kind \in ComponentKinds /\ r.start[Due + 1] <= BodyEnd(r, s) /\ BodyEnd(r, s) \in Nat
      BY <1>4, BodyFacts
    <2>2. item_len = r.items[Due].size - 1
      BY <1>4, <2>1 DEF item_len
    <2>3. avail >= 1
      BY <1>1, <1>4 DEF readable, Least, Fields
    <2>4. r.items[Due].size > 1 /\ StreamAt(r, s) < BodyEnd(r, s)
      BY <1>4, <2>1, <2>2
    <2>5. /\ CellAt(byte_idx).kind = "body" /\ ItemAt(byte_idx) = r.items[Due]
          /\ CellAt(byte_idx).ix = 1
      BY <1>4, <2>3, <2>4, FirstByte
    <2>6. starts(ComponentKinds, 1) /\ ItemAt(byte_idx) = comp
      BY <2>1, <2>5 DEF starts
    <2>7. code # "EFLR_COMP" /\ code # "VALUE" /\ code # "IFLR_HEADER"
      BY <1>4 DEF Fields
    <2> QED
      BY <1>4, <2>6, <2>7 DEF as_expected
  <1>5. ASSUME code \in {"VALUE", "IFLR_HEADER"}, readable > 0 PROVE as_expected
    <2>1. avail >= 1
      BY <1>1, <1>5 DEF readable, Least
    <2>2. StreamAt(r, s) < BodyEnd(r, s) /\ ~Fields(code)
      BY <1>5, BodyFacts DEF Fields
    <2>3. r.items[Due].kind = IF code = "VALUE" THEN "value" ELSE "header"
      BY <1>5 DEF InBody, DueIs
    <2> QED
      BY <1>5, <2>1, <2>2, <2>3, FirstByte DEF as_expected, starts, Fields
  <1> QED
    BY <1>3, <1>4, <1>5 DEF is_other_item

\* In a body no handler meets a byte that is not what it takes it for.
LEMMA NothingFound ==
  ASSUME TypeOK, NEW r, WellFormed(r, file), NEW v, NEW s, code \in BodyCodes, InBody(r, v, s),
         UpToDue(r), trailing_len >= 0
  PROVE  found = {}
  <1>1. ~(body_left < 0) /\ body_left \in Nat /\ avail \in Int /\ remain \in Int
        /\ body_left = BodyEnd(r, s) - StreamAt(r, s)
    BY BodyLeft, ViewTypes
  <1>2. ~is_short
    BY <1>1 DEF is_short
  <1>3. ~is_other_item
    BY NotOtherItem
  <1>6. ASSUME code = "IFLR_DATA", ~is_eod, cursor > 0, readable > 0 PROVE is_sample(byte_idx)
    <2>1. avail >= 1 /\ StreamAt(r, s) < BodyEnd(r, s)
      <3>1. readable = Least(avail, body_left)
        BY <1>6 DEF readable
      <3>2. StreamAt(r, s) \in Nat /\ BodyEnd(r, s) \in Nat
        BY BodyFacts
      <3> QED
        BY <1>1, <1>6, <3>1, <3>2 DEF Least
    <2>2. ~Fields(code) /\ r.items[Due].kind = "sample" /\ Sampling(r) /\ Due \in 1 .. file.n
      BY <1>6, BodyFacts DEF Fields, InBody, DueIs, Sampling
    <2>3. channel = cursor
      BY <2>2 DEF channel, UpToDue
    <2>4. r.items[Due].binds = r.place[Due].cursor
      <3>1. RunWell(r, file, Due) /\ ItemWell(r, file, Due) /\ r.start[Due] \in Nat
        BY <2>2, BodyFacts DEF WellFormed, ItemsWell
      <3>2. r.place[Due].cursor \in DOMAIN file.chan /\ r.place[Due].nth < file.chan[r.place[Due].cursor].dim
        BY <2>2, <3>1 DEF ItemWell
      <3>3. file.chan[r.place[Due].cursor].dim \in Nat /\ r.place[Due].nth \in Nat
        <4>1. file.chan \in Seq(Channel)
          BY DEF TypeOK, InputTypes, FileOK, File
        <4>2. r.place[Due] \in Place
          <5>1. Due \in 1 .. file.n + 1
            BY BodyFacts
          <5> QED
            BY <5>1, ReadingTypes
        <4>3. r.place[Due].nth \in Nat
          BY <4>2, PlaceTypes
        <4>4. file.chan[r.place[Due].cursor] \in Channel
          BY <3>2, <4>1
        <4> QED
          BY <4>3, <4>4 DEF Channel
      <3>4. 0 \in 0 .. file.chan[r.place[Due].cursor].dim - r.place[Due].nth - 1 /\ Due + 0 = Due
        <4>1. Due \in Nat
          BY ViewTypes
        <4>2. \A d, m \in Nat : m < d => 0 \in 0 .. d - m - 1
          OBVIOUS
        <4> QED
          BY <3>2, <3>3, <4>1, <4>2
      <3>5. r.items[Due + 0].binds = r.place[Due].cursor
        BY <3>1, <3>4 DEF RunWell
      <3> QED
        BY <3>4, <3>5
    <2>5. r.place[Due].cursor = cursor
      BY DEF UpToDue
    <2>6. /\ CellAt(byte_idx).kind = "body" /\ ItemAt(byte_idx) = r.items[Due] /\ CellAt(byte_idx).ix = 0
      BY <2>1, <2>2, FirstByte
    <2> QED
      BY <2>2, <2>3, <2>4, <2>5, <2>6 DEF is_sample
  <1> QED
    BY <1>2, <1>3, <1>6 DEF found, is_other_sample

-----------------------------------------------------------------------------
(* Parsed, part by part. *)

\* The parts of Parsed, after a step of a parser that goes on.
LEMMA GoingOn ==
  ASSUME NEW r, NEW v, NEW s, NEW w, NEW t, Parsed(r, v, s), running, pc' \in {"read", "parse"},
         anomalies' = {}, UpToDue(r)', InRow(r)', PutAside(r)', Reached(r, w, t)', Starved',
         code # "SUL", UNCHANGED <<file, nType>>
  PROVE  Parsed(r, w, t)'
  BY DEF Parsed, running, IsTape

\* Reached, in a body.
LEMMA InBodyNext ==
  ASSUME NEW r, NEW v, NEW s, code' \in BodyCodes, InBody(r, v, s)'
  PROVE  Reached(r, v, s)'
  BY DEF Reached, BodyCodes, EflrCodes

\* Reached, at trailing bytes.
LEMMA AtTrailingNext ==
  ASSUME NEW r, NEW v, NEW s, code' = "TRAILING",
         AtTrailing(r, v, s)', GoesOn(r, Behind(file, s))'
  PROVE  Reached(r, v, s)'
  BY DEF Reached

\* A parser with the code of a body is in a body.
LEMMA BodyReached ==
  ASSUME NEW r, NEW v, NEW s, code \in BodyCodes, Reached(r, v, s)
  PROVE  InBody(r, v, s)
  BY DEF Reached, BodyCodes, EflrCodes

\* While the parser parses, it is not starved.
LEMMA NotStarved ==
  ASSUME Starved, UNCHANGED input, pc' = "parse"
  PROVE  Starved'
  BY DEF Starved, input

\* A parser that asks for a block does so when there is one.
LEMMA StarvedNext ==
  ASSUME Starved, UNCHANGED input,
         fed < Len(file.cells) \/ (code' = "VR" /\ Here' = BehindFile(file))
  PROVE  Starved'
  BY DEF Starved, input, BehindFile

\* A segment that has more for the parser than it sees is not the last of the file.
LEMMA Hungry ==
  ASSUME TypeOK, NEW r, WellFormed(r, file), NEW s, OfSegment(s), "encrypted" \notin file.cells[s].attr,
         NEW j \in 1 .. file.n, avail <= remain,
         StreamAt(r, s) + avail < r.start[j + 1] \/ BodyEnd(r, s) < r.start[j + 1]
  PROVE  fed < Len(file.cells)
  <1>1. s \in Segments(file) /\ Here + remain = Behind(file, s)
    BY DEF OfSegment
  <1>2. /\ body_at(s) \in Nat /\ r.base[s] \in Nat /\ Behind(file, s) \in Nat
        /\ tail_len(file, s) \in Nat /\ body_len(file, s) \in Nat /\ Behind(file, s) <= Len(file.cells) + 1
        /\ Behind(file, s) = body_at(s) + body_len(file, s) + tail_len(file, s)
    BY <1>1, SegmentFacts
  <1>3. Here \in Int /\ avail \in Int /\ remain \in Int /\ fed \in Nat /\ Here = fed + 1 - avail
    BY ViewTypes
  <1>4. Len(file.cells) \in Nat
    BY CellFacts
  <1>5. r.start[j + 1] \in Nat
    BY ReadingTypes, CellFacts
  <1>6. StreamAt(r, s) = r.base[s] + Here - body_at(s) /\ BodyEnd(r, s) = r.base[s] + body_len(file, s)
    BY DEF StreamAt, BodyEnd
  <1>9. StreamAt(r, s) \in Int /\ BodyEnd(r, s) \in Nat
    BY <1>2, <1>3, <1>6
  <1>7. CASE BodyEnd(r, s) < r.start[j + 1]
    <2>1. Behind(file, s) <= Len(file.cells)
      BY <1>1, <1>2, <1>5, <1>6, <1>7, MoreBehind
    <2> QED
      BY <1>1, <1>2, <1>3, <1>4, <2>1
  <1>8. CASE ~(BodyEnd(r, s) < r.start[j + 1])
    <2>1. StreamAt(r, s) + avail < BodyEnd(r, s)
      BY <1>3, <1>5, <1>8, <1>9
    <2>2. Here + avail < body_at(s) + body_len(file, s)
      BY <1>2, <1>3, <1>6, <2>1
    <2> QED
      BY <1>2, <1>3, <1>4, <2>2
  <1> QED
    BY <1>7, <1>8

\* What the parser stands on stays when nothing moves but trailing_len is noted.
LEMMA StaysReached ==
  ASSUME TypeOK, NEW r, WellFormed(r, file), NEW v, NEW s, Parsed(r, v, s), running,
         UNCHANGED <<input, ring, byte_idx, nType, code, record, lrs_attr, unparsed_buff, out, lines>>,
         UNCHANGED <<comp, templt, templt_read_idx, attrib_value_cnt, iflr>>,
         lrs_trail_len' = lrs_trail_len \/ (trailing_len >= 0 /\ lrs_trail_len' = trailing_len)
  PROVE  UpToDue(r)' /\ InRow(r)' /\ PutAside(r)' /\ Reached(r, v, s)' /\ Here' = Here
  <1>1. /\ anomalies = {} /\ UpToDue(r) /\ InRow(r) /\ PutAside(r) /\ Reached(r, v, s) /\ Starved
        /\ code # "SUL" => nType = IsTape(file)
    BY DEF Parsed, running
  <1>2. UNCHANGED <<file, fed, eof, buffer, buffer_idx, max_byte_idx, switches>>
    BY DEF input, ring
  <1>3. UpToDue(r)' /\ InRow(r)' /\ Due' = Due
    BY <1>1, <1>2, StaysDue
  <1>4. PutAside(r)' /\ aside' = aside
    BY <1>1, <1>2, StaysAside DEF aside
  <1>5. avail' = avail /\ remain' = remain /\ Here' = Here
    BY <1>2 DEF avail, remain, Here, record
  <1>6. Outside => Outside'
    BY <1>2, <1>5 DEF Outside, Seen, OffsetAt
  <1>7. Inside(r, s) => Inside(r, s)'
    BY <1>2, <1>5 DEF Inside, Seen, OffsetAt, CellOf, StreamAt
  <1>8. \A o : InRecord(v, o) => InRecord(v, o)'
    BY <1>2, <1>5 DEF InRecord, record
  <1>9. OfSegment(s) => OfSegment(s)'
    BY <1>2, <1>5 DEF OfSegment
  <1>10. lrs_trail_len >= 0 => lrs_trail_len' = lrs_trail_len
    BY DEF trailing_len
  <1>11. ASSUME NEW o, GoesOn(r, o) PROVE GoesOn(r, o)'
    BY <1>3, <1>4, <1>6, <1>10, <1>11 DEF GoesOn
  <1>12. ASSUME code \in BodyCodes PROVE InBody(r, v, s)'
    <2>1. InBody(r, v, s)
      BY <1>1, <1>12, BodyReached
    <2>2. lrs_trail_len' \in {-1, tail_len(file, s)}
      <3>1. trailing_len >= 0 => trailing_len = tail_len(file, s)
        BY <1>12, <2>1, BodyLeft
      <3> QED
        BY <2>1, <3>1 DEF InBody
    <2>3. Inside(r, s)' /\ StreamAt(r, s)' = StreamAt(r, s) /\ BodyEnd(r, s)' = BodyEnd(r, s)
      BY <1>2, <1>5, <1>7, <2>1 DEF InBody, StreamAt, BodyEnd
    <2>4. InRecord(v, s)' /\ OfSegment(s)'
      BY <1>8, <1>9, <2>1 DEF InBody
    <2>5. \A kinds : DueIs(r, kinds)' = DueIs(r, kinds)
      BY <1>2, <1>3 DEF DueIs
    <2>6. Sampling(r)' = Sampling(r)
      BY <2>5 DEF Sampling
    <2> QED
      BY <1>2, <1>3, <1>4, <2>1, <2>2, <2>3, <2>4, <2>5, <2>6 DEF InBody
  <1>13. Reached(r, v, s)'
    <2>1. CASE code \in BodyCodes
      BY <1>12, <2>1, InBodyNext
    <2>2. CASE code = "SUL"
      BY <1>1, <1>2, <1>4, <1>5, <1>6, <1>10, <2>2 DEF Reached, AtSul, IsTape, record
    <2>3. CASE code = "VR"
      BY <1>1, <1>2, <1>5, <1>11, <2>3 DEF Reached, AtVr, RecordDue, IsTape, record
    <2>4. CASE code = "LRS"
      BY <1>1, <1>2, <1>5, <1>8, <1>11, <2>4 DEF Reached, AtLrs
    <2>5. CASE code = "ENCRYPTION_PACKET"
      BY <1>1, <1>2, <1>3, <1>4, <1>6, <1>8, <1>9, <2>5 DEF Reached, AtCrypt
    <2>6. CASE code = "TRAILING"
      <3>1. tail_len(file, s) \in Nat /\ OfSegment(s) /\ AtTrailing(r, v, s) /\ GoesOn(r, Behind(file, s))
        <4>1. AtTrailing(r, v, s) /\ GoesOn(r, Behind(file, s))
          BY <1>1, <2>6 DEF Reached
        <4> QED
          BY <4>1, SegmentFacts DEF AtTrailing, OfSegment
      <3>2. AtTrailing(r, v, s)'
        BY <1>2, <1>5, <1>8, <1>9, <1>10, <3>1 DEF AtTrailing, GoesOn
      <3>3. GoesOn(r, Behind(file, s))'
        BY <1>2, <1>11, <3>1
      <3> QED
        BY <2>6, <3>2, <3>3, AtTrailingNext
    <2>7. code \in Codes
      BY DEF TypeOK, RecordTypes
    <2> QED
      BY <2>1, <2>2, <2>3, <2>4, <2>5, <2>6, <2>7 DEF Codes, BodyCodes, EflrCodes
  <1> QED
    BY <1>3, <1>4, <1>5, <1>13

\* The parser waits for a block: nothing else changes.
LEMMA Waits ==
  ASSUME TypeOK, NEW r, WellFormed(r, file), NEW v, NEW s, Parsed(r, v, s), pc = "parse",
         UNCHANGED <<input, ring, byte_idx, nType, code, record, lrs_attr, unparsed_buff, out, lines>>,
         UNCHANGED <<comp, templt, templt_read_idx, attrib_value_cnt, iflr, anomalies>>,
         lrs_trail_len' = lrs_trail_len \/ (trailing_len >= 0 /\ lrs_trail_len' = trailing_len),
         pc' = "read", fed < Len(file.cells) \/ (code = "VR" /\ Here = BehindFile(file))
  PROVE  Parsed(r, v, s)'
  <1>1. /\ UpToDue(r)' /\ InRow(r)' /\ PutAside(r)' /\ Reached(r, v, s)' /\ Here' = Here
        /\ anomalies = {} /\ Starved /\ running /\ (code # "SUL" => nType = IsTape(file))
    <2>1. running
      BY DEF running
    <2> QED
      BY <2>1, StaysReached DEF Parsed
  <1>2. UNCHANGED <<file, fed, eof>>
    BY DEF input
  <1>3. Starved'
    BY <1>1, <1>2 DEF Starved
  <1> QED
    BY <1>1, <1>2, <1>3 DEF Parsed, IsTape

-----------------------------------------------------------------------------
(* An item that can be read is the one due, and what is handed over is it. *)

WholeItems == {"SET", "OBJECT", "ATTRIB", "VALUE", "IFLR_HEADER"}

\* The bytes not parsed are a number of bytes.
LEMMA NatAvail ==
  ASSUME TypeOK, Window PROVE avail \in Nat
  <1>1. byte_idx \in 0 .. max_byte_idx
    BY DEF Window
  <1> QED
    BY <1>1, ViewTypes

\* What each item makes of the place it is at.
LEMMA ItemSteps ==
  ASSUME TypeOK, NEW r, WellFormed(r, file), NEW j \in 1 .. file.n
  PROVE  LET item == r.items[j]
             p    == r.place[j]
             then == r.place[j + 1]
         IN /\ item.kind \in {"set", "object", "attrib", "value", "header", "sample"}
            /\ item.kind \in {"set", "object", "attrib"} => p.left = 0
            /\ item.kind \in {"set", "object"} => item.label
            /\ item.kind = "header" => item.binds = 1
            /\ item.kind = "set" => /\ then.left = 0 /\ then.tlen = 0 /\ then.read = -1
                                    /\ then.cursor = p.cursor
            /\ item.kind = "object" => /\ then.left = 0 /\ then.tlen = p.tlen /\ then.read = 0
                                       /\ then.cursor = IF item.binds = 0 THEN 0 ELSE p.cursor
            /\ item.kind = "attrib" =>
                 /\ item.value => item.count >= 1
                 /\ then.left = IF item.value THEN item.count ELSE 0
                 /\ then.tlen = IF p.read < 0 THEN p.tlen + 1 ELSE p.tlen
                 /\ then.read = IF p.read < 0 THEN p.read ELSE p.read + 1
                 /\ then.cursor = p.cursor
                 /\ IF p.read < 0 THEN p.tlen < MAX_TEMPLT_OBJS ELSE p.read < p.tlen
            /\ item.kind = "value" =>
                 /\ p.left > 0 /\ then.left = p.left - 1 /\ then.tlen = p.tlen /\ then.read = p.read
                 /\ then.cursor = IF item.binds \in DOMAIN file.chan THEN item.binds ELSE p.cursor
            /\ item.kind = "header" =>
                 /\ file.chan # <<>> /\ then.left = p.left /\ then.tlen = p.tlen
                 /\ then.read = p.read /\ then.cursor = 1 /\ then.nth = 0
                 /\ j < file.n /\ r.items[j + 1].kind = "sample"
            /\ item.kind = "sample" =>
                 p.cursor \in DOMAIN file.chan /\ p.nth < file.chan[p.cursor].dim
  <1>1. ItemWell(r, file, j)
    BY ReadingTypes
  <1>2. j \in 1 .. file.n + 1
    BY CellFacts
  <1>3. r.place[j] \in Place
    BY <1>2, ReadingTypes
  <1> DEFINE item == r.items[j]
             p    == r.place[j]
             then == r.place[j + 1]
  <1>4. p = [left |-> p.left, tlen |-> p.tlen, read |-> p.read, cursor |-> p.cursor, nth |-> p.nth]
    BY <1>3 DEF Place
  <1>5. CASE item.kind = "set"
    <2>1. p.left = 0 /\ item.label /\ then = [p EXCEPT !.tlen = 0, !.read = -1]
      BY <1>1, <1>5 DEF ItemWell
    <2> HIDE DEF then, p
    <2>2. then.left = p.left /\ then.tlen = 0 /\ then.read = -1 /\ then.cursor = p.cursor
      BY <1>4, <2>1
    <2> QED
      BY <1>5, <2>1, <2>2 DEF p, then
  <1>6. CASE item.kind = "object"
    <2>1. p.left = 0 /\ item.label /\ then = [p EXCEPT !.read = 0, !.cursor = IF item.binds = 0 THEN 0 ELSE @]
      BY <1>1, <1>6 DEF ItemWell
    <2> HIDE DEF then, p
    <2>2. /\ then.left = p.left /\ then.tlen = p.tlen /\ then.read = 0
          /\ then.cursor = IF item.binds = 0 THEN 0 ELSE p.cursor
      BY <1>4, <2>1
    <2> QED
      BY <1>6, <2>1, <2>2 DEF p, then
  <1>7. CASE item.kind = "attrib"
    <2>1. /\ p.left = 0 /\ (item.value => item.count >= 1)
          /\ then = [p EXCEPT !.left = IF item.value THEN item.count ELSE 0,
                              !.tlen = IF p.read < 0 THEN @ + 1 ELSE @,
                              !.read = IF p.read < 0 THEN @ ELSE @ + 1]
          /\ IF p.read < 0 THEN p.tlen < MAX_TEMPLT_OBJS ELSE p.read < p.tlen
      BY <1>1, <1>7 DEF ItemWell
    <2> HIDE DEF then, p
    <2>2. /\ then.left = IF item.value THEN item.count ELSE 0
          /\ then.tlen = IF p.read < 0 THEN p.tlen + 1 ELSE p.tlen
          /\ then.read = IF p.read < 0 THEN p.read ELSE p.read + 1
          /\ then.cursor = p.cursor
      BY <1>4, <2>1
    <2> QED
      BY <1>7, <2>1, <2>2 DEF p, then
  <1>8. CASE item.kind = "value"
    <2>1. /\ p.left > 0
          /\ then = [p EXCEPT !.left = @ - 1,
                              !.cursor = IF item.binds \in DOMAIN file.chan THEN item.binds ELSE @]
      BY <1>1, <1>8 DEF ItemWell
    <2> HIDE DEF then, p
    <2>2. /\ then.left = p.left - 1 /\ then.tlen = p.tlen /\ then.read = p.read
          /\ then.cursor = IF item.binds \in DOMAIN file.chan THEN item.binds ELSE p.cursor
      BY <1>4, <2>1
    <2> QED
      BY <1>8, <2>1, <2>2 DEF p, then
  <1>9. CASE item.kind = "header"
    <2>1. /\ item.binds = 1 /\ file.chan # <<>> /\ then = [p EXCEPT !.cursor = 1, !.nth = 0]
          /\ j < file.n /\ r.items[j + 1].kind = "sample"
      BY <1>1, <1>9 DEF ItemWell
    <2> HIDE DEF then, p
    <2>2. /\ then.left = p.left /\ then.tlen = p.tlen /\ then.read = p.read
          /\ then.cursor = 1 /\ then.nth = 0
      BY <1>4, <2>1
    <2> QED
      BY <1>9, <2>1, <2>2 DEF p, then
  <1>10. CASE item.kind = "sample"
    BY <1>1, <1>10 DEF ItemWell
  <1>11. item.kind \in {"set", "object", "attrib", "value", "header", "sample"}
    BY <1>1 DEF ItemWell
  <1> QED
    BY <1>5, <1>6, <1>7, <1>8, <1>9, <1>10, <1>11

\* A readable item is the one due, and lies whole in the body and in the buffer.
LEMMA WholeItem ==
  ASSUME TypeOK, Window, NEW r, WellFormed(r, file), NEW v, NEW s, code \in WholeItems, InBody(r, v, s),
         trailing_len >= 0, readable_item
  PROVE  /\ current_item = r.items[Due] /\ checked_len = item_len
         /\ item_len \in Nat /\ item_len <= avail
         /\ StreamAt(r, s) + item_len = r.start[Due + 1] /\ r.start[Due + 1] <= BodyEnd(r, s)
  <1>1. code \in BodyCodes /\ code # "IFLR_DATA" /\ code # "EFLR_COMP"
    BY DEF WholeItems, BodyCodes, EflrCodes
  <1>2. /\ r.items[Due].size \in Nat /\ r.items[Due].size >= 1 /\ ~is_eod
        /\ r.start[Due + 1] = r.start[Due] + r.items[Due].size /\ r.start[Due] \in Nat
        /\ StreamAt(r, s) \in Nat /\ BodyEnd(r, s) \in Nat
    BY <1>1, BodyFacts
  <1>3. /\ Fields(code) => StreamAt(r, s) = r.start[Due] + 1 /\ comp = r.items[Due]
        /\ ~Fields(code) => StreamAt(r, s) = r.start[Due] /\ StreamAt(r, s) < BodyEnd(r, s)
        /\ Fields(code) => r.start[Due + 1] <= BodyEnd(r, s)
    BY <1>1, BodyFacts
  <1>4. checked_len = item_len
    BY <1>2 DEF checked_len, is_eod
  <1>5. /\ avail \in Int /\ remain \in Int /\ body_left \in Nat
        /\ body_left = BodyEnd(r, s) - StreamAt(r, s)
    BY <1>1, BodyLeft, ViewTypes
  <1>6. CASE Fields(code)
    <2>1. current_item = r.items[Due] /\ item_len = r.items[Due].size - 1
      BY <1>3, <1>6 DEF current_item, item_len
    <2>2. item_len <= avail
      <3>1. CASE item_len = 0
        <4>1. avail >= 0
          BY NatAvail
        <4> QED
          BY <3>1, <4>1
      <3>2. CASE item_len # 0
        <4>1. item_len <= readable
          BY <1>4, <3>2 DEF readable_item
        <4>2. readable <= avail
          BY <1>5, <1>6 DEF readable, Least, Fields
        <4>3. readable \in Int
          BY <1>5, <1>6 DEF readable, Least, Fields
        <4> QED
          BY <1>2, <1>5, <2>1, <4>1, <4>2, <4>3
      <3> QED
        BY <3>1, <3>2
    <2> QED
      BY <1>2, <1>3, <1>4, <1>6, <2>1, <2>2
  <1>7. CASE ~Fields(code)
    <2>1. readable = Least(avail, body_left)
      BY <1>7 DEF readable, Fields
    <2>2. item_len = current_item.size /\ current_item = ItemAt(byte_idx) /\ item_len # 0
      <3>1. current_item \in Item
        BY ValueTypes
      <3> QED
        BY <1>7, <3>1 DEF item_len, current_item, Item
    <2>3. readable >= 1 /\ item_len <= readable
      BY <1>4, <2>2 DEF readable_item
    <2>4. avail >= 1
      BY <1>5, <2>1, <2>3 DEF Least
    <2>5. ItemAt(byte_idx) = r.items[Due]
      BY <1>1, <1>3, <1>7, <2>4, FirstByte
    <2>6. item_len = r.items[Due].size
      BY <2>2, <2>5
    <2>7. item_len <= avail /\ item_len <= body_left
      BY <1>2, <1>5, <2>1, <2>3, <2>6 DEF Least
    <2> QED
      BY <1>2, <1>3, <1>4, <1>5, <1>7, <2>2, <2>5, <2>6, <2>7
  <1> QED
    BY <1>6, <1>7

\* A readable item is handed over as the one due.
LEMMA Delivered ==
  ASSUME TypeOK, Window, NEW r, WellFormed(r, file), NEW v, NEW s, code \in WholeItems, InBody(r, v, s),
         trailing_len >= 0, readable_item,
         Deliver(current_item, checked_len, IF Fields(code) THEN 1 ELSE 0)
  PROVE  out' = Append(out, Due)
  <1> DEFINE ix == IF Fields(code) THEN 1 ELSE 0
  <1>1. /\ current_item = r.items[Due] /\ checked_len = item_len
        /\ item_len \in Nat /\ item_len <= avail
        /\ StreamAt(r, s) + item_len = r.start[Due + 1] /\ r.start[Due + 1] <= BodyEnd(r, s)
    BY WholeItem
  <1>2. code \in BodyCodes /\ avail \in Int
    BY ViewTypes DEF WholeItems, BodyCodes, EflrCodes
  <1>3. /\ r.items[Due].size \in Nat /\ r.items[Due].id = Due /\ Due \in 1 .. file.n
        /\ r.start[Due + 1] = r.start[Due] + r.items[Due].size /\ r.start[Due] \in Nat
        /\ StreamAt(r, s) \in Nat /\ BodyEnd(r, s) \in Nat
        /\ s \in Segments(file) /\ "encrypted" \notin file.cells[s].attr /\ Inside(r, s)
    BY <1>2, BodyFacts
  <1>4. StreamAt(r, s) = r.start[Due] + ix /\ ix \in Nat
    BY <1>2, <1>3, BodyFacts
  <1> HIDE DEF ix
  <1>5. ASSUME NEW q \in 0 .. item_len - 1
        PROVE  /\ CellAt(byte_idx + q).kind = "body"
               /\ CellAt(byte_idx + q).item = r.items[Due] /\ CellAt(byte_idx + q).ix = ix + q
    <2>1. /\ q \in 0 .. avail - 1 /\ StreamAt(r, s) + q < BodyEnd(r, s)
          /\ ix + q \in Nat /\ ix + q < r.items[Due].size
          /\ StreamAt(r, s) + q = r.start[Due] + (ix + q)
      BY <1>1, <1>2, <1>3, <1>4
    <2> QED
      BY <1>3, <2>1, ItemHere
  <1>6. Holds(byte_idx, item_len, r.items[Due], ix)
    BY <1>5 DEF Holds
  <1> QED
    BY <1>1, <1>2, <1>3, <1>6, NotOtherItem DEF Deliver, ix

\* The next item is due.
LEMMA NextItem ==
  ASSUME TypeOK, NEW r, WellFormed(r, file), UpToDue(r), InRow(r), Due \in 1 .. file.n,
         r.items[Due].kind # "sample", out' = Append(out, Due),
         UNCHANGED <<file, lines, parsing, parsing_value_cnt>>,
         r.place[Due + 1].left = attrib_value_cnt', r.place[Due + 1].tlen = Len(templt'),
         r.place[Due + 1].read = templt_read_idx', r.place[Due + 1].cursor = cursor',
         r.items[Due].kind = "header" => r.place[Due + 1].nth = 0 /\ cursor' \in DOMAIN lines
  PROVE  UpToDue(r)' /\ InRow(r)' /\ Due' = Due + 1
  <1>1. out \in Seq(Nat) /\ Due \in Nat /\ Len(out) \in Nat /\ Due = Len(out) + 1 /\ file.n \in Nat
    BY ViewTypes, CellFacts DEF TypeOK, IflrTypes
  <1>2. Len(out') = Due /\ Due' = Due + 1 /\ Due <= file.n
    BY <1>1 DEF Due
  <1>3. \A i \in DOMAIN out' : out'[i] = i
    BY <1>1 DEF UpToDue
  <1>4. ~Sampling(r) /\ ~loaded /\ ~loaded'
    BY DEF Sampling, DueIs, UpToDue, loaded
  <1>5. Sampling(r)' => r.items[Due].kind = "header"
    <2>1. Sampling(r)' => Due + 1 \in 1 .. file.n /\ r.items[Due + 1].kind = "sample"
      BY <1>1, <1>2 DEF Sampling, DueIs
    <2>2. ASSUME Due + 1 \in 1 .. file.n, r.items[Due + 1].kind = "sample"
          PROVE  r.items[Due].kind = "header"
      <3>1. r.items[(Due + 1) - 1].kind \in {"header", "sample"}
        BY <2>2 DEF WellFormed, ItemsWell
      <3> QED
        BY <1>1, <3>1
    <2> QED
      BY <2>1, <2>2
  <1>6. UpToDue(r)'
    BY <1>2, <1>3, <1>4, <1>5 DEF UpToDue
  <1>7. InRow(r)'
    <2>1. \A k, l \in DOMAIN lines : lines[k] = lines[l]
      BY <1>4 DEF InRow
    <2>2. CASE ~Sampling(r)'
      BY <2>1, <2>2 DEF InRow
    <2>3. CASE Sampling(r)'
      <3>1. r.items[Due].kind = "header" /\ cursor' \in DOMAIN lines
        BY <1>5, <2>3
      <3>2. r.place[Due + 1].cursor = 1
        BY <3>1, ItemSteps
      <3>5. \A k \in DOMAIN lines : ~(k < cursor')
        <4>1. DOMAIN lines = DOMAIN file.chan /\ file.chan \in Seq(Channel)
          BY DEF TypeOK, IflrTypes, InputTypes, FileOK, File
        <4> QED
          BY <3>2, <4>1
      <3> QED
        BY <2>1, <2>3, <3>1, <3>5 DEF InRow
    <2> QED
      BY <2>2, <2>3
  <1> QED
    BY <1>2, <1>6, <1>7

-----------------------------------------------------------------------------
(* The parser moves n bytes on in the body of a segment. *)

InBodyStep(n) ==
  /\ UNCHANGED <<input, ring, nType, lrs_attr>>
  /\ lrs_trail_len' = trailing_len
  /\ InSegment(n)

\* A step of n bytes inside a body, part by part.
LEMMA MovesInBody ==
  ASSUME TypeOK, anomalies = {}, found = {}, NEW r, WellFormed(r, file), NEW v, NEW s,
         code \in BodyCodes, InBody(r, v, s), trailing_len >= 0,
         NEW n \in Nat, n <= avail, InBodyStep(n)
  PROVE  /\ file' = file /\ anomalies' = {} /\ InRecord(v, s)' /\ OfSegment(s)'
         /\ "encrypted" \notin lrs_attr'
         /\ lrs_trail_len' = tail_len(file, s) /\ remain' = remain - n
         /\ Inside(r, s)' /\ StreamAt(r, s)' = StreamAt(r, s) + n /\ BodyEnd(r, s)' = BodyEnd(r, s)
  <1>1. UNCHANGED <<input, ring, nType, lrs_attr>> /\ lrs_trail_len' = trailing_len /\ InSegment(n)
    BY DEF InBodyStep
  <1>2. InRecord(v, s) /\ OfSegment(s) /\ "encrypted" \notin lrs_attr
    BY DEF InBody
  <1>3. /\ InRecord(v, s)' /\ OfSegment(s)' /\ anomalies' = {}
        /\ byte_idx' = byte_idx + n /\ remain' = remain - n
    BY <1>1, <1>2, SegmentMoves
  <1>4. Inside(r, s) /\ s \in Nat /\ r.base[s] \in Nat
    BY BodyFacts
  <1>5. Inside(r, s)' /\ StreamAt(r, s)' = StreamAt(r, s) + n
    BY <1>1, <1>3, <1>4, InsideMoves
  <1>6. trailing_len = tail_len(file, s)
    BY BodyLeft
  <1> QED
    BY <1>1, <1>2, <1>3, <1>5, <1>6 DEF BodyEnd, input

\* To its end, with no item cut.
LEMMA BodyEnds ==
  ASSUME TypeOK, anomalies = {}, found = {}, NEW r, WellFormed(r, file), NEW v, NEW s,
         code \in BodyCodes, InBody(r, v, s), trailing_len >= 0,
         NEW n \in Nat, n <= avail, InBodyStep(n), StreamAt(r, s) + n = BodyEnd(r, s),
         code' = "TRAILING", r.start[Due'] + aside' = BodyEnd(r, s)
  PROVE  Reached(r, v, s)'
  <1>1. /\ file' = file /\ InRecord(v, s)' /\ OfSegment(s)' /\ "encrypted" \notin lrs_attr'
        /\ lrs_trail_len' = tail_len(file, s) /\ remain' = remain - n
    BY MovesInBody
  <1>2. /\ s \in Segments(file) /\ s \in Nat /\ Inside(r, s) /\ "encrypted" \notin file.cells[s].attr
        /\ StreamAt(r, s) \in Nat /\ BodyEnd(r, s) \in Nat /\ r.base[s] \in Nat
        /\ BodyEnd(r, s) = r.base[s] + body_len(file, s)
    BY BodyFacts
  <1>3. /\ body_left = BodyEnd(r, s) - StreamAt(r, s) /\ remain = body_left + tail_len(file, s)
        /\ tail_len(file, s) \in Nat /\ remain \in Nat /\ Here + body_left + tail_len(file, s) = Behind(file, s)
    BY BodyLeft
  <1>4. n = body_left /\ remain' = tail_len(file, s)
    BY <1>1, <1>2, <1>3
  <1>5. AtTrailing(r, v, s)'
    BY <1>1, <1>4 DEF AtTrailing
  <1>6. Outside'
    <2>1. /\ body_at(s) \in Nat /\ body_len(file, s) \in Nat
          /\ Behind(file, s) = body_at(s) + body_len(file, s) + tail_len(file, s)
      BY <1>2, SegmentFacts
    <2>2. Here \in Int
      BY ViewTypes
    <2>3. Here + n >= body_at(s)
      BY <1>3, <1>4, <2>1, <2>2
    <2>4. UNCHANGED <<input, ring>> /\ byte_idx' = byte_idx + n
      BY DEF InBodyStep, InSegment, counted
    <2> QED
      BY <1>2, <2>3, <2>4, InsideLeaves
  <1>7. r.base[Behind(file, s)] = BodyEnd(r, s)
    BY <1>2, SegmentFacts
  <1>8. GoesOn(r, Behind(file, s))'
    BY <1>1, <1>3, <1>6, <1>7 DEF GoesOn, Behind
  <1> QED
    BY <1>5, <1>8, AtTrailingNext

\* Short of its end, to the next item.
EflrNext == IF attrib_value_cnt > 0 THEN "VALUE" ELSE "EFLR_COMP"

\* An item starts behind the one before it.
LEMMA StartsRise ==
  ASSUME TypeOK, NEW r, WellFormed(r, file), NEW j \in 1 .. file.n
  PROVE  r.start[j] \in Nat /\ r.start[j + 1] \in Nat /\ r.start[j] < r.start[j + 1]
  <1>1. j \in 1 .. file.n + 1 /\ j + 1 \in 1 .. file.n + 1
    BY CellFacts
  <1>2. r.start[j] \in Nat /\ r.start[j + 1] \in Nat
    BY <1>1, ReadingTypes
  <1>3. r.start[j + 1] = r.start[j] + r.items[j].size /\ r.items[j].size \in Nat /\ r.items[j].size >= 1
    BY ReadingTypes
  <1> QED
    BY <1>2, <1>3

\* Behind an item of an EFLR the next one is due in the same body.
LEMMA EflrGoesOn ==
  ASSUME TypeOK, anomalies = {}, found = {}, NEW r, WellFormed(r, file), NEW v, NEW s,
         code \in BodyCodes, InBody(r, v, s), trailing_len >= 0,
         NEW n \in Nat, n <= avail, InBodyStep(n), StreamAt(r, s) + n = r.start[Due + 1],
         r.start[Due + 1] < BodyEnd(r, s), r.items[Due].kind \in EflrKinds,
         UpToDue(r)', Due' = Due + 1, aside' = 0, code' = EflrNext'
  PROVE  Reached(r, v, s)'
  <1>1. /\ file' = file /\ InRecord(v, s)' /\ OfSegment(s)' /\ "encrypted" \notin lrs_attr'
        /\ lrs_trail_len' = tail_len(file, s) /\ Inside(r, s)'
        /\ StreamAt(r, s)' = StreamAt(r, s) + n /\ BodyEnd(r, s)' = BodyEnd(r, s)
    BY MovesInBody
  <1>2. /\ s \in Segments(file) /\ "encrypted" \notin file.cells[s].attr
        /\ BodyEnd(r, s) \in Nat /\ r.base[s] \in Nat /\ Due \in 1 .. file.n /\ Due + 1 \in 1 .. file.n + 1
        /\ BodyEnd(r, s) = r.base[s] + body_len(file, s) /\ r.start[Due + 1] > r.base[s]
    BY BodyFacts
  <1>3. Due + 1 \in 1 .. file.n
    BY <1>2, StartsBefore
  <1>4. /\ r.start[Due] < r.start[Due + 1] /\ r.start[Due + 1] < r.start[Due + 2]
        /\ r.start[Due] \in Nat /\ r.start[Due + 1] \in Nat /\ r.start[Due + 2] \in Nat
    <2>1. (Due + 1) + 1 = Due + 2
      BY ViewTypes
    <2> QED
      BY <1>2, <1>3, <2>1, StartsRise
  <1>5. r.start[Due] < r.base[s] + body_len(file, s) /\ r.start[Due + 2] > r.base[s]
    BY <1>2, <1>4
  <1>6. "eflr" \in file.cells[s].attr
    BY <1>2, <1>5, Meets
  <1>7. r.items[Due + 1].kind \in EflrKinds
    <2>1. r.start[(Due + 1) + 1] > r.base[s] /\ r.start[Due + 1] < r.base[s] + body_len(file, s)
      BY <1>2, <1>5, ViewTypes
    <2> QED
      BY <1>2, <1>3, <1>6, <2>1, Meets
  <1>8. r.place[Due + 1].left = attrib_value_cnt'
    BY DEF UpToDue
  <1>9. r.items[Due + 1].kind = "value" <=> attrib_value_cnt' > 0
    <2>1. /\ r.items[Due + 1].kind = "value" => r.place[Due + 1].left > 0
          /\ r.items[Due + 1].kind \in {"set", "object", "attrib"} => r.place[Due + 1].left = 0
      BY <1>3, ItemSteps
    <2> QED
      BY <1>7, <1>8, <2>1, EflrKindsAre
  <1>10. /\ code' = "VALUE" => DueIs(r, {"value"})'
         /\ code' = "EFLR_COMP" => DueIs(r, ComponentKinds)'
    BY <1>1, <1>3, <1>7, <1>9, EflrKindsAre DEF DueIs, EflrNext
  <1>11. code' \in {"VALUE", "EFLR_COMP"} /\ ~Fields(code')
    BY DEF EflrNext, Fields
  <1>12. InBody(r, v, s)'
    <2>1. Due' <= file.n /\ r.start[Due' + 1] > r.base[s] /\ StreamAt(r, s)' = r.start[Due'] + 0
          /\ r.start[Due'] < BodyEnd(r, s)'
      <3>1. Due' + 1 = Due + 2
        BY ViewTypes
      <3> QED
        BY <1>1, <1>3, <1>4, <1>5, <3>1
    <2>2. lrs_trail_len' \in {-1, tail_len(file, s)'}
      BY <1>1 DEF tail_len, Behind, pad_count_at
    <2>3. /\ Due' <= file'.n /\ r.start[Due' + 1] > r.base[s]
          /\ StreamAt(r, s)' = r.start[Due'] + IF Fields(code') THEN 1 ELSE 0
          /\ IF code' = "IFLR_DATA" THEN r.start[Due'] <= BodyEnd(r, s)'
                                     ELSE r.start[Due'] < BodyEnd(r, s)'
      BY <1>1, <1>11, <2>1
    <2>4. CASE code' = "VALUE"
      BY <1>1, <1>10, <1>11, <2>2, <2>3, <2>4 DEF InBody
    <2>5. CASE code' = "EFLR_COMP"
      BY <1>1, <1>10, <1>11, <2>2, <2>3, <2>5 DEF InBody
    <2> QED
      BY <1>11, <2>4, <2>5
  <1> QED
    BY <1>11, <1>12, InBodyNext DEF BodyCodes, EflrCodes

\* An item of an EFLR is complete.
LEMMA EflrCompletes ==
  ASSUME TypeOK, Window, NEW r, WellFormed(r, file), NEW v, NEW s, Parsed(r, v, s), pc = "parse",
         code \in WholeItems \ {"IFLR_HEADER"}, trailing_len >= 0, readable_item,
         UNCHANGED <<input, ring, nType, lrs_attr>>, lrs_trail_len' = trailing_len,
         Complete(EflrNext'), UNCHANGED <<lines, parsing, parsing_value_cnt>>,
         r.place[Due + 1].left = attrib_value_cnt', r.place[Due + 1].tlen = Len(templt'),
         r.place[Due + 1].read = templt_read_idx', r.place[Due + 1].cursor = cursor'
  PROVE  Parsed(r, v, s)'
  <1>1. /\ anomalies = {} /\ UpToDue(r) /\ InRow(r) /\ PutAside(r) /\ Reached(r, v, s) /\ Starved
        /\ code # "SUL" /\ running /\ code \in BodyCodes
    BY DEF Parsed, running, WholeItems, BodyCodes, EflrCodes
  <1>2. InBody(r, v, s) /\ found = {}
    BY <1>1, BodyReached, NothingFound
  <1>3. /\ item_len \in Nat /\ item_len <= avail
        /\ StreamAt(r, s) + item_len = r.start[Due + 1] /\ r.start[Due + 1] <= BodyEnd(r, s)
    BY <1>2, WholeItem
  <1>4. out' = Append(out, Due)
    BY <1>2, Delivered DEF Complete
  <1>5. /\ Due \in 1 .. file.n /\ r.start[Due + 1] > r.base[s] /\ BodyEnd(r, s) \in Nat
        /\ StreamAt(r, s) \in Nat
    BY <1>1, <1>2, BodyFacts
  <1>6. r.items[Due].kind \in EflrKinds
    <2>1. \/ DueIs(r, {"set"}) \/ DueIs(r, {"object"}) \/ DueIs(r, {"attrib"}) \/ DueIs(r, {"value"})
      BY <1>2 DEF InBody, WholeItems
    <2> QED
      BY <2>1, EflrKindsAre DEF DueIs
  <1>7. UpToDue(r)' /\ InRow(r)' /\ Due' = Due + 1
    <2>1. r.items[Due].kind # "sample" /\ r.items[Due].kind # "header"
      BY <1>6, EflrKindsAre
    <2> QED
      BY <1>1, <1>4, <1>5, <2>1, NextItem DEF input
  <1>8. InBodyStep(item_len)
    BY DEF InBodyStep, Complete
  <1>9. unparsed_buff' = <<>> /\ unparsed_buff = <<>>
    <2>1. aside = 0
      BY <1>2 DEF InBody
    <2>2. unparsed_buff = <<>>
      BY <2>1 DEF aside, TypeOK, RingTypes
    <2> QED
      BY <2>2 DEF Complete
  <1>10. PutAside(r)' /\ aside' = 0
    BY <1>9, NothingAside
  <1>11. anomalies' = {}
    BY <1>1, <1>2, <1>3, <1>8, MovesInBody
  <1>12. /\ body_left = BodyEnd(r, s) - StreamAt(r, s)
         /\ remain = body_left + trailing_len /\ trailing_len \in Nat
    BY <1>1, <1>2, BodyLeft
  <1>13. CASE code' = "TRAILING" /\ remain - item_len <= trailing_len
    <2>1. r.start[Due + 1] = BodyEnd(r, s)
      BY <1>3, <1>5, <1>12, <1>13
    <2>2. r.start[Due'] + aside' = BodyEnd(r, s)
      BY <1>5, <1>7, <1>10, <2>1
    <2>3. Reached(r, v, s)'
      BY <1>1, <1>2, <1>3, <1>8, <1>13, <2>1, <2>2, BodyEnds
    <2> QED
      BY <1>1, <1>7, <1>10, <1>11, <2>3, NotStarved, GoingOn DEF Complete, input
  <1>14. CASE code' = EflrNext' /\ ~(remain - item_len <= trailing_len)
    <2>1. r.start[Due + 1] < BodyEnd(r, s)
      BY <1>3, <1>5, <1>12, <1>14
    <2>2. Reached(r, v, s)'
      BY <1>1, <1>2, <1>3, <1>6, <1>7, <1>8, <1>10, <1>14, <2>1, EflrGoesOn
    <2> QED
      BY <1>1, <1>7, <1>10, <1>11, <2>2, NotStarved, GoingOn DEF Complete, input
  <1> QED
    BY <1>13, <1>14 DEF Complete

-----------------------------------------------------------------------------
(* An item that cannot be read yet: the parser waits, or puts its start aside. *)

\* The rest of the body, n bytes on, is put aside: it is the start of the item due.
LEMMA SkipsBody ==
  ASSUME TypeOK, Window, NEW r, WellFormed(r, file), NEW v, NEW s, Parsed(r, v, s), pc = "parse",
         code \in BodyCodes, comp_byte = 0, trailing_len >= 0, lrs_trail_len' = trailing_len,
         UNCHANGED <<input, ring, nType, lrs_attr>>,
         NEW n \in Nat, lrs_skip_unparsed_buff(n), code' = "TRAILING", CopiesInBounds',
         avail >= body_left, UpToDue(r)', InRow(r)',
         Due' \in 1 .. file.n, r.start[Due'] = StreamAt(r, s) + n, r.start[Due'] <= BodyEnd(r, s),
         r.start[Due' + 1] > BodyEnd(r, s)
  PROVE  Parsed(r, v, s)'
  <1>1. /\ anomalies = {} /\ Reached(r, v, s) /\ Starved /\ running /\ code # "SUL" /\ UpToDue(r)
    BY DEF Parsed, running, BodyCodes, EflrCodes
  <1>2. InBody(r, v, s) /\ found = {}
    BY <1>1, BodyReached, NothingFound
  <1>3. /\ body_left = BodyEnd(r, s) - StreamAt(r, s) /\ body_left \in Nat
        /\ StreamAt(r, s) \in Nat /\ BodyEnd(r, s) \in Nat
        /\ s \in Segments(file) /\ "encrypted" \notin file.cells[s].attr /\ Inside(r, s)
    BY <1>2, BodyLeft, BodyFacts
  <1>4. avail \in Nat /\ byte_idx \in Int
    BY NatAvail, ViewTypes
  <1>5. InBodyStep(body_left)
    BY DEF InBodyStep, lrs_skip_unparsed_buff
  <1>6. anomalies' = {} /\ file' = file
    BY <1>1, <1>2, <1>3, <1>4, <1>5, MovesInBody
  <1>7. pc' = "parse"
    <2>1. pc' # "overrun"
      BY <1>6 DEF CopiesInBounds, Harmless
    <2> QED
      BY <2>1 DEF lrs_skip_unparsed_buff
  <1> DEFINE count == body_left - n
             f == [j \in 1 .. count |-> OffsetAt(byte_idx + n + j - 1)]
  <1>8. unparsed_buff' = f /\ count \in Nat /\ count = BodyEnd(r, s) - r.start[Due']
    <2>1. body_left - n + comp_byte = count
      BY <1>3
    <2>2. byte_idx + n - comp_byte = byte_idx + n
      BY <1>4
    <2>3. unparsed_buff' = f
      BY <2>1, <2>2 DEF lrs_skip_unparsed_buff
    <2>4. count = BodyEnd(r, s) - (StreamAt(r, s) + n) /\ count >= 0
      BY <1>3
    <2> QED
      BY <1>3, <2>3, <2>4
  <1>9. aside' = count
    <2>1. \A j \in 1 .. count : f[j] \in Offsets
      <3>1. ASSUME NEW j \in 1 .. count PROVE f[j] \in Offsets
        <4>1. byte_idx + n + j - 1 \in Int
          BY <1>4, <1>8
        <4> QED
          BY <4>1, OffsetType DEF TypeOK
      <3> QED
        BY <3>1
    <2>2. f \in [1 .. count -> Offsets]
      <3>1. f = [j \in 1 .. count |-> f[j]]
        OBVIOUS
      <3> HIDE DEF f
      <3> QED
        BY <2>1, <3>1
    <2>3. Len(f) = count
      <3> HIDE DEF f
      <3>1. Len(f) = IF count > 0 THEN count ELSE 0
        BY <1>8, <2>2, IntervalSeq
      <3> QED
        BY <1>8, <3>1
    <2> QED
      BY <1>8, <2>3 DEF aside
  <1>10. r.start[Due'] + aside' = BodyEnd(r, s) /\ r.start[Due'] \in Nat
    BY <1>3, <1>8, <1>9
  <1>11. PutAside(r)'
    <2>1. aside' < r.items[Due'].size
      <3>1. r.start[Due' + 1] = r.start[Due'] + r.items[Due'].size /\ r.items[Due'].size \in Nat
        BY ReadingTypes
      <3>2. aside' \in Nat
        BY <1>8, <1>9
      <3>3. r.start[Due'] + aside' < r.start[Due'] + r.items[Due'].size
        BY <1>10, <3>1
      <3> QED
        BY <1>10, <3>1, <3>2, <3>3
    <2>2. ASSUME NEW q \in 1 .. count
          PROVE  IsByte(r, file, r.start[Due'] + q - 1, CellOf(unparsed_buff'[q]))
      <3>1. /\ n + q - 1 \in 0 .. avail - 1
            /\ StreamAt(r, s) + (n + q - 1) < BodyEnd(r, s)
            /\ r.start[Due'] + q - 1 = StreamAt(r, s) + (n + q - 1)
            /\ byte_idx + n + q - 1 = byte_idx + (n + q - 1)
        BY <1>3, <1>4, <1>8
      <3>2. IsByte(r, file, StreamAt(r, s) + (n + q - 1), CellAt(byte_idx + (n + q - 1)))
        BY <1>3, <3>1, ByteHere
      <3>3. unparsed_buff'[q] = OffsetAt(byte_idx + n + q - 1)
        BY <1>8
      <3> QED
        BY <3>1, <3>2, <3>3 DEF CellAt
    <2>3. \A q \in 1 .. aside' : IsByte(r, file, r.start[Due'] + q - 1, CellOf(unparsed_buff'[q]))
      BY <1>9, <2>2
    <2>4. \A q \in 1 .. aside' : CellOf(unparsed_buff'[q]) = CellOf(unparsed_buff[q])'
      BY <1>6 DEF CellOf
    <2> QED
      BY <1>6, <2>1, <2>3, <2>4 DEF PutAside
  <1>12. Reached(r, v, s)'
    BY <1>1, <1>2, <1>3, <1>4, <1>5, <1>10, BodyEnds
  <1> QED
    BY <1>1, <1>6, <1>7, <1>11, <1>12, NotStarved, GoingOn

\* An item that is not readable is cut by the buffer or by the end of the body.
LEMMA NotWhole ==
  ASSUME TypeOK, Window, NEW r, WellFormed(r, file), NEW v, NEW s, code \in WholeItems, InBody(r, v, s),
         trailing_len >= 0, ~readable_item
  PROVE  /\ avail <= body_left => StreamAt(r, s) + avail < r.start[Due + 1]
         /\ avail > body_left => /\ ~Fields(code)
                                 /\ BodyEnd(r, s) < r.start[Due + 1]
  <1>1. code \in BodyCodes /\ code # "IFLR_DATA" /\ code # "EFLR_COMP"
    BY DEF WholeItems, BodyCodes, EflrCodes
  <1>2. /\ r.items[Due].size \in Nat /\ r.items[Due].size >= 1 /\ ~is_eod
        /\ r.start[Due + 1] = r.start[Due] + r.items[Due].size /\ r.start[Due] \in Nat
        /\ StreamAt(r, s) \in Nat /\ BodyEnd(r, s) \in Nat
    BY <1>1, BodyFacts
  <1>3. /\ Fields(code) => StreamAt(r, s) = r.start[Due] + 1 /\ comp = r.items[Due]
        /\ ~Fields(code) => StreamAt(r, s) = r.start[Due] /\ StreamAt(r, s) < BodyEnd(r, s)
        /\ Fields(code) => r.start[Due + 1] <= BodyEnd(r, s)
    BY <1>1, BodyFacts
  <1>4. checked_len = item_len
    BY <1>2 DEF checked_len, is_eod
  <1>5. /\ avail \in Nat /\ remain \in Int /\ body_left \in Nat /\ body_left <= remain
        /\ body_left = BodyEnd(r, s) - StreamAt(r, s)
    BY <1>1, BodyLeft, NatAvail, ViewTypes
  <1>6. item_len # 0 /\ (readable < 1 \/ item_len > readable) /\ item_len \in Nat
    BY <1>4, ValueTypes DEF readable_item
  <1>7. CASE Fields(code)
    <2>1. item_len = r.items[Due].size - 1
      BY <1>3, <1>7 DEF item_len
    <2>2. readable \in Int /\ (readable = avail \/ readable = Least(avail, remain))
      BY <1>5, <1>7 DEF readable, Fields, Least
    <2>3. item_len > readable
      BY <1>6, <2>2
    <2>4. StreamAt(r, s) + item_len = r.start[Due + 1] /\ item_len <= body_left
      BY <1>2, <1>3, <1>5, <1>7, <2>1
    <2>5. avail < item_len
      BY <1>5, <1>6, <2>2, <2>3, <2>4 DEF Least
    <2> QED
      BY <1>2, <1>5, <1>6, <2>4, <2>5
  <1>8. CASE ~Fields(code)
    <2>1. readable = Least(avail, body_left)
      BY <1>8 DEF readable, Fields
    <2>2. item_len = ItemAt(byte_idx).size
      BY <1>8 DEF item_len, current_item
    <2>3. CASE avail = 0
      BY <1>2, <1>3, <1>5, <1>8, <2>3
    <2>4. CASE avail >= 1
      <3>1. ItemAt(byte_idx) = r.items[Due]
        BY <1>1, <1>3, <1>8, <2>4, FirstByte
      <3>2. r.items[Due].size > readable
        BY <1>2, <1>5, <1>6, <2>1, <2>2, <3>1 DEF Least
      <3> QED
        BY <1>2, <1>3, <1>5, <1>8, <2>1, <3>2 DEF Least
    <2> QED
      BY <1>5, <2>3, <2>4
  <1> QED
    BY <1>7, <1>8

\* An item that is not whole, and the parser waits for more.
LEMMA WaitsForItem ==
  ASSUME TypeOK, Window, NEW r, WellFormed(r, file), NEW v, NEW s, Parsed(r, v, s), pc = "parse",
         code \in WholeItems, trailing_len >= 0, ~readable_item, ~(avail > body_left),
         UNCHANGED <<input, ring, nType, code, lrs_attr, unparsed_buff, out, lines>>,
         UNCHANGED <<comp, templt, templt_read_idx, attrib_value_cnt, iflr>>,
         NotInSegment, await_block, lrs_trail_len' = trailing_len
  PROVE  Parsed(r, v, s)'
  <1>1. InBody(r, v, s) /\ code \in BodyCodes /\ anomalies' = anomalies
    <2>1. InBody(r, v, s) /\ code \in BodyCodes /\ UpToDue(r)
      BY BodyReached DEF Parsed, running, WholeItems, BodyCodes, EflrCodes
    <2>2. found = {}
      BY <2>1, NothingFound
    <2> QED
      BY <2>1, <2>2 DEF NotInSegment
  <1>2. /\ Due \in 1 .. file.n /\ OfSegment(s) /\ "encrypted" \notin file.cells[s].attr
        /\ avail \in Nat /\ remain \in Int /\ body_left \in Nat /\ body_left <= remain
    <2>1. body_left \in Nat /\ remain = body_left + tail_len(file, s) /\ tail_len(file, s) \in Nat
      BY <1>1, BodyLeft
    <2>2. Due \in 1 .. file.n /\ "encrypted" \notin file.cells[s].attr
      BY <1>1, BodyFacts
    <2> QED
      BY <1>1, <2>1, <2>2, NatAvail DEF InBody
  <1>3. StreamAt(r, s) + avail < r.start[Due + 1]
    BY <1>1, <1>2, NotWhole
  <1>4. avail <= remain
    BY <1>2
  <1>5. fed < Len(file.cells)
    BY <1>2, <1>3, <1>4, Hungry
  <1> QED
    BY <1>1, <1>5, Waits DEF NotInSegment, await_block

\* An item that is not readable waits for a block or is put aside.
LEMMA IncompleteParsed ==
  ASSUME TypeOK, Window, NEW r, WellFormed(r, file), NEW v, NEW s, Parsed(r, v, s), pc = "parse",
         code \in WholeItems, trailing_len >= 0, ~readable_item, Incomplete, CopiesInBounds',
         UNCHANGED <<input, ring, nType, lrs_attr, out, lines>>,
         UNCHANGED <<comp, templt, templt_read_idx, attrib_value_cnt, iflr>>,
         lrs_trail_len' = trailing_len
  PROVE  Parsed(r, v, s)'
  <1>1. CASE ~segment_exhausted
    BY <1>1, WaitsForItem DEF Incomplete, segment_exhausted
  <1>2. CASE segment_exhausted
    <2>1. avail > body_left /\ lrs_skip_unparsed_buff(0) /\ code' = after_skip
      BY <1>2 DEF Incomplete, segment_exhausted
    <2>2. InBody(r, v, s) /\ code \in BodyCodes /\ UpToDue(r) /\ InRow(r)
      BY BodyReached DEF Parsed, running, WholeItems, BodyCodes, EflrCodes
    <2>3. ~Fields(code) /\ BodyEnd(r, s) < r.start[Due + 1]
      BY <2>1, <2>2, NotWhole
    <2>4. comp_byte = 0 /\ code # "IFLR_DATA" /\ code # "EFLR_COMP"
      BY <2>3 DEF comp_byte, Fields, WholeItems
    <2>5. /\ StreamAt(r, s) = r.start[Due] /\ r.start[Due] < BodyEnd(r, s) /\ Due \in 1 .. file.n
          /\ StreamAt(r, s) \in Nat /\ BodyEnd(r, s) \in Nat
      BY <2>2, <2>3, <2>4, BodyFacts
    <2>6. body_left \in Nat /\ body_left = BodyEnd(r, s) - StreamAt(r, s) /\ avail \in Nat
      BY <2>2, BodyLeft, NatAvail
    <2>7. code' = "TRAILING"
      BY <2>1, <2>5, <2>6 DEF after_skip
    <2>8. UpToDue(r)' /\ InRow(r)' /\ Due' = Due
      BY <2>2, StaysDue DEF input
    <2>9. avail >= body_left /\ r.start[Due'] = StreamAt(r, s) + 0 /\ Due' + 1 = Due + 1 /\ Due' \in 1 .. file.n
          /\ r.start[Due'] <= BodyEnd(r, s) /\ r.start[Due' + 1] > BodyEnd(r, s)
      BY <2>1, <2>3, <2>5, <2>6, <2>8
    <2> QED
      BY <2>1, <2>2, <2>4, <2>7, <2>8, <2>9, SkipsBody
  <1> QED
    BY <1>1, <1>2

-----------------------------------------------------------------------------
(* The handlers of EFLRs. *)

\* What a handler of a body may rely on.
LEMMA InReading ==
  ASSUME NEW r, NEW v, NEW s, Parsed(r, v, s), NEW c \in BodyCodes, Parsing(c),
         TypeOK, WellFormed(r, file)
  PROVE  /\ pc = "parse" /\ code = c /\ trailing_len >= 0 /\ lrs_trail_len' = trailing_len
         /\ running /\ anomalies = {} /\ UpToDue(r) /\ InRow(r) /\ PutAside(r) /\ Starved
         /\ InBody(r, v, s) /\ code # "SUL" /\ found = {} /\ ~is_other_item
  <1>1. pc = "parse" /\ code = c /\ trailing_len >= 0 /\ lrs_trail_len' = trailing_len
    BY DEF Parsing, At
  <1>2. /\ running /\ anomalies = {} /\ UpToDue(r) /\ InRow(r) /\ PutAside(r) /\ Starved
        /\ InBody(r, v, s) /\ code # "SUL"
    BY <1>1, BodyReached DEF Parsed, running, BodyCodes, EflrCodes
  <1> QED
    BY <1>1, <1>2, NothingFound, NotOtherItem

\* The first byte of a component tells its handler.
LEMMA parse_eflr_component_parsed ==
  ASSUME TypeOK, Window, NEW r, WellFormed(r, file), NEW v, NEW s, Parsed(r, v, s), parse_eflr_component
  PROVE  Parsed(r, v, s)'
  <1>1. Parsing("EFLR_COMP") /\ "EFLR_COMP" \in BodyCodes
    BY DEF parse_eflr_component, BodyCodes, EflrCodes
  <1>2. /\ pc = "parse" /\ code = "EFLR_COMP" /\ trailing_len >= 0 /\ lrs_trail_len' = trailing_len
        /\ running /\ anomalies = {} /\ UpToDue(r) /\ InRow(r) /\ PutAside(r) /\ Starved
        /\ InBody(r, v, s) /\ code # "SUL" /\ code \in BodyCodes /\ found = {} /\ ~Fields(code)
    BY <1>1, InReading DEF Fields
  <1>3. UNCHANGED <<input, ring, nType, lrs_attr, templt, templt_read_idx, attrib_value_cnt,
                    iflr, unparsed_buff, out, lines>>
    BY DEF parse_eflr_component
  <1>4. /\ Due \in 1 .. file.n /\ "encrypted" \notin file.cells[s].attr /\ OfSegment(s)
        /\ StreamAt(r, s) = r.start[Due] /\ r.start[Due] \in Nat /\ BodyEnd(r, s) \in Nat
        /\ r.start[Due + 1] = r.start[Due] + r.items[Due].size
        /\ r.items[Due].size \in Nat /\ r.items[Due].size >= 1 /\ r.start[Due + 1] > r.base[s]
        /\ r.items[Due].kind \in ComponentKinds /\ r.start[Due] < BodyEnd(r, s)
    BY <1>2, BodyFacts DEF InBody
  <1>5. /\ body_left = BodyEnd(r, s) - StreamAt(r, s) /\ body_left \in Nat
        /\ remain = body_left + tail_len(file, s) /\ tail_len(file, s) \in Nat
    BY <1>2, BodyLeft
  <1>6. avail \in Nat
    BY NatAvail
  <1>7. UpToDue(r)' /\ InRow(r)' /\ Due' = Due /\ PutAside(r)' /\ aside' = aside
    BY <1>2, <1>3, StaysDue, StaysAside DEF input, aside
  <1>8. CASE avail < 1
    <2>1. avail = 0 /\ avail <= remain /\ StreamAt(r, s) + avail < r.start[Due + 1]
      BY <1>4, <1>5, <1>6, <1>8
    <2>2. fed < Len(file.cells)
      BY <1>4, <2>1, Hungry
    <2>3. pc' = "read" /\ NotInSegment /\ UNCHANGED <<code, comp>>
      BY <1>6, <1>8 DEF parse_eflr_component, await_block
    <2> QED
      BY <1>2, <1>3, <2>2, <2>3, Waits DEF NotInSegment
  <1>9. CASE avail >= 1
    <2>1. /\ comp' = ItemAt(byte_idx) /\ InSegment(1) /\ pc' = pc
          /\ code' \in roles
      BY <1>6, <1>9 DEF parse_eflr_component
    <2>2. comp' = r.items[Due] /\ starts(ComponentKinds, 0)
      BY <1>2, <1>4, <1>9, <2>1, FirstByte DEF starts
    <2>9. code' = CASE comp'.kind = "set"    -> "SET"
                    [] comp'.kind = "object" -> "OBJECT"
                    [] OTHER                 -> "ATTRIB"
      BY <2>1, <2>2 DEF roles
    <2>3. InBodyStep(1)
      BY <1>2, <1>3, <2>1 DEF InBodyStep
    <2>4. /\ file' = file /\ anomalies' = {} /\ InRecord(v, s)' /\ OfSegment(s)'
          /\ "encrypted" \notin lrs_attr' /\ lrs_trail_len' = tail_len(file, s)
          /\ Inside(r, s)' /\ StreamAt(r, s)' = StreamAt(r, s) + 1 /\ BodyEnd(r, s)' = BodyEnd(r, s)
      BY <1>2, <1>9, <2>3, MovesInBody
    <2>5. /\ code' \in {"SET", "OBJECT", "ATTRIB"} /\ Fields(code')
          /\ code' = "SET" => DueIs(r, {"set"})'
          /\ code' = "OBJECT" => DueIs(r, {"object"})'
          /\ code' = "ATTRIB" => DueIs(r, {"attrib"})'
      BY <1>4, <1>7, <2>2, <2>4, <2>9, EflrKindsAre DEF Fields, DueIs
    <2>6. /\ Due' <= file'.n /\ r.start[Due' + 1] > r.base[s] /\ aside' = 0
          /\ StreamAt(r, s)' = r.start[Due'] + IF Fields(code') THEN 1 ELSE 0
          /\ r.start[Due'] < BodyEnd(r, s)' /\ comp' = r.items[Due']
          /\ lrs_trail_len' \in {-1, tail_len(file, s)'}
      <3>1. aside = 0 /\ tail_len(file, s)' = tail_len(file, s)
        BY <1>2, <2>4 DEF InBody, tail_len, Behind, pad_count_at
      <3> QED
        BY <1>4, <1>7, <2>2, <2>4, <2>5, <3>1
    <2>7. InBody(r, v, s)'
      <3>1. CASE code' = "SET"
        BY <2>4, <2>5, <2>6, <3>1 DEF InBody
      <3>2. CASE code' = "OBJECT"
        BY <2>4, <2>5, <2>6, <3>2 DEF InBody
      <3>3. CASE code' = "ATTRIB"
        BY <2>4, <2>5, <2>6, <3>3 DEF InBody
      <3> QED
        BY <2>5, <3>1, <3>2, <3>3
    <2>8. Reached(r, v, s)'
      BY <2>5, <2>7, InBodyNext DEF BodyCodes, EflrCodes
    <2> QED
      BY <1>2, <1>3, <1>7, <2>1, <2>4, <2>8, NotStarved, GoingOn
  <1> QED
    BY <1>6, <1>8, <1>9

\* A SET is handed over and opens a template.
LEMMA parse_eflr_component_set_parsed ==
  ASSUME TypeOK, Window, NEW r, WellFormed(r, file), NEW v, NEW s, Parsed(r, v, s), parse_eflr_component_set
  PROVE  Parsed(r, v, s)'
  <1>1. Parsing("SET") /\ "SET" \in BodyCodes /\ "SET" \in WholeItems
    BY DEF parse_eflr_component_set, BodyCodes, EflrCodes, WholeItems
  <1>2. /\ pc = "parse" /\ code = "SET" /\ trailing_len >= 0 /\ lrs_trail_len' = trailing_len
        /\ UpToDue(r) /\ InBody(r, v, s) /\ code \in BodyCodes /\ found = {}
    BY <1>1, InReading
  <1>3. UNCHANGED <<input, ring, nType, lrs_attr, comp, attrib_value_cnt, attrib_label, iflr, lines>>
    BY DEF parse_eflr_component_set
  <1>4. Due \in 1 .. file.n /\ r.items[Due].kind = "set" /\ comp.label
    <2>1. Due \in 1 .. file.n /\ r.items[Due].kind = "set" /\ comp = r.items[Due]
      BY <1>2, BodyFacts DEF InBody, DueIs, Fields
    <2> QED
      BY <2>1, ItemSteps
  <1>5. CASE ~readable_item
    <2>1. await_block /\ NotInSegment /\ UNCHANGED <<code, templt, templt_read_idx, unparsed_buff, out>>
      BY <1>4, <1>5 DEF parse_eflr_component_set
    <2>2. ~(avail > body_left)
      BY <1>1, <1>2, <1>5, NotWhole DEF Fields
    <2> QED
      BY <1>1, <1>2, <1>3, <1>5, <2>1, <2>2, WaitsForItem
  <1>6. CASE readable_item
    <2>1. templt' = <<>> /\ templt_read_idx' = -1 /\ Complete("EFLR_COMP")
      BY <1>4, <1>6 DEF parse_eflr_component_set
    <2>2. /\ r.place[Due + 1].left = 0 /\ r.place[Due + 1].tlen = 0 /\ r.place[Due + 1].read = -1
          /\ r.place[Due + 1].cursor = r.place[Due].cursor /\ r.place[Due].left = 0
      BY <1>4, ItemSteps
    <2>3. /\ attrib_value_cnt' = 0 /\ Len(templt') = 0 /\ cursor' = r.place[Due].cursor
      BY <1>2, <1>3, <2>1, <2>2 DEF UpToDue, iflr
    <2>4. EflrNext' = "EFLR_COMP"
      BY <2>3 DEF EflrNext
    <2>5. Complete(EflrNext')
      BY <2>1, <2>4
    <2> QED
      BY <1>1, <1>2, <1>3, <1>6, <2>1, <2>2, <2>3, <2>5, EflrCompletes DEF iflr
  <1> QED
    BY <1>5, <1>6

\* An OBJECT is handed over, or put aside, and starts at the first attribute.
LEMMA parse_eflr_component_object_parsed ==
  ASSUME TypeOK, Window, CopiesInBounds', NEW r, WellFormed(r, file), NEW v, NEW s, Parsed(r, v, s),
         parse_eflr_component_object
  PROVE  Parsed(r, v, s)'
  <1>1. Parsing("OBJECT") /\ "OBJECT" \in BodyCodes /\ "OBJECT" \in WholeItems
    BY DEF parse_eflr_component_object, BodyCodes, EflrCodes, WholeItems
  <1>2. /\ pc = "parse" /\ code = "OBJECT" /\ trailing_len >= 0 /\ lrs_trail_len' = trailing_len
        /\ UpToDue(r) /\ InBody(r, v, s) /\ code \in BodyCodes /\ found = {}
    BY <1>1, InReading
  <1>3. UNCHANGED <<input, ring, nType, lrs_attr, comp, templt, attrib_value_cnt, attrib_label,
                    parsing, parsing_value_cnt, lines>>
    BY DEF parse_eflr_component_object
  <1>4. Due \in 1 .. file.n /\ r.items[Due].kind = "object" /\ comp = r.items[Due] /\ comp.label
    <2>1. Due \in 1 .. file.n /\ r.items[Due].kind = "object" /\ comp = r.items[Due]
      BY <1>2, BodyFacts DEF InBody, DueIs, Fields
    <2> QED
      BY <2>1, ItemSteps
  <1>5. CASE ~readable_item
    <2>1. Incomplete /\ UNCHANGED <<templt_read_idx, cursor, out>>
      BY <1>4, <1>5 DEF parse_eflr_component_object
    <2> QED
      BY <1>1, <1>2, <1>3, <1>5, <2>1, IncompleteParsed DEF iflr
  <1>6. CASE readable_item
    <2>1. /\ templt_read_idx' = 0 /\ Complete("EFLR_COMP")
          /\ cursor' = IF comp.binds = 0 THEN 0 ELSE cursor
      BY <1>4, <1>6 DEF parse_eflr_component_object
    <2>2. /\ r.place[Due + 1].left = 0 /\ r.place[Due + 1].tlen = r.place[Due].tlen
          /\ r.place[Due + 1].read = 0 /\ r.place[Due].left = 0
          /\ r.place[Due + 1].cursor = IF r.items[Due].binds = 0 THEN 0 ELSE r.place[Due].cursor
      BY <1>4, ItemSteps
    <2>3. /\ attrib_value_cnt' = 0 /\ r.place[Due + 1].tlen = Len(templt')
          /\ r.place[Due + 1].cursor = cursor'
      BY <1>2, <1>3, <1>4, <2>1, <2>2 DEF UpToDue
    <2>4. EflrNext' = "EFLR_COMP"
      BY <2>3 DEF EflrNext
    <2>5. Complete(EflrNext')
      BY <2>1, <2>4
    <2> QED
      BY <1>1, <1>2, <1>3, <1>6, <2>1, <2>2, <2>3, <2>5, EflrCompletes
  <1> QED
    BY <1>5, <1>6

\* An ATTRIB is handed over, or put aside, and its values are due.
LEMMA parse_eflr_component_attrib_parsed ==
  ASSUME TypeOK, Window, CopiesInBounds', NEW r, WellFormed(r, file), NEW v, NEW s, Parsed(r, v, s),
         parse_eflr_component_attrib
  PROVE  Parsed(r, v, s)'
  <1>1. Parsing("ATTRIB") /\ "ATTRIB" \in BodyCodes /\ "ATTRIB" \in WholeItems
    BY DEF parse_eflr_component_attrib, BodyCodes, EflrCodes, WholeItems
  <1>2. /\ pc = "parse" /\ code = "ATTRIB" /\ trailing_len >= 0 /\ lrs_trail_len' = trailing_len
        /\ UpToDue(r) /\ InBody(r, v, s) /\ code \in BodyCodes /\ found = {}
    BY <1>1, InReading
  <1>3. UNCHANGED <<input, ring, nType, lrs_attr, comp, iflr, lines>>
    BY DEF parse_eflr_component_attrib
  <1>4. Due \in 1 .. file.n /\ r.items[Due].kind = "attrib" /\ comp = r.items[Due] /\ r.items[Due] \in Item
    BY <1>2, BodyFacts DEF InBody, DueIs, Fields
  <1> DEFINE item == r.items[Due]
             p    == r.place[Due]
             then == r.place[Due + 1]
  <1>5. /\ p.left = 0 /\ (item.value => item.count >= 1)
        /\ then.left = IF item.value THEN item.count ELSE 0
        /\ then.tlen = IF p.read < 0 THEN p.tlen + 1 ELSE p.tlen
        /\ then.read = IF p.read < 0 THEN p.read ELSE p.read + 1
        /\ then.cursor = p.cursor
        /\ IF p.read < 0 THEN p.tlen < MAX_TEMPLT_OBJS ELSE p.read < p.tlen
    BY <1>4, ItemSteps
  <1>6. /\ p.left = attrib_value_cnt /\ p.tlen = Len(templt) /\ p.read = templt_read_idx /\ p.cursor = cursor
    BY <1>2 DEF UpToDue
  <1>7. Len(templt) \in Nat /\ templt_read_idx \in Int /\ MAX_TEMPLT_OBJS \in Nat /\ templt \in Seq(Label)
    BY Sizes DEF TypeOK, EflrTypes
  <1>8. ~template_missing /\ ~template_full
    BY <1>5, <1>6, <1>7 DEF template_missing, template_full, in_template
  <1>9. CASE ~readable_item
    <2>1. /\ attrib_value_cnt' = 0 /\ Incomplete /\ UNCHANGED <<templt, templt_read_idx, out>>
      BY <1>8, <1>9 DEF parse_eflr_component_attrib
    <2>2. attrib_value_cnt' = attrib_value_cnt
      BY <1>5, <1>6, <2>1
    <2> QED
      BY <1>1, <1>2, <1>3, <1>9, <2>1, <2>2, IncompleteParsed
  <1>10. CASE readable_item
    <2>1. /\ IF in_template THEN eflr_set_template_object_queue
                            ELSE eflr_set_template_object_dequeue
          /\ attrib_value_cnt' = IF comp.value THEN comp.count ELSE 0
          /\ Complete(IF comp.value THEN "VALUE" ELSE "EFLR_COMP")
      BY <1>8, <1>10 DEF parse_eflr_component_attrib
    <2>2. then.left = attrib_value_cnt'
      BY <1>4, <1>5, <2>1
    <2>3. then.tlen = Len(templt') /\ then.read = templt_read_idx'
      <3>1. CASE in_template
        <4>1. templt' = Append(templt, label_read) /\ templt_read_idx' = templt_read_idx
          BY <2>1, <3>1 DEF eflr_set_template_object_queue
        <4>2. Len(templt') = Len(templt) + 1
          BY <1>7, <4>1
        <4> QED
          BY <1>5, <1>6, <3>1, <4>1, <4>2 DEF in_template
      <3>2. CASE ~in_template
        BY <1>5, <1>6, <2>1, <3>2 DEF in_template, eflr_set_template_object_dequeue
      <3> QED
        BY <3>1, <3>2
    <2>4. then.cursor = cursor'
      BY <1>3, <1>5, <1>6 DEF iflr
    <2>5. EflrNext' = IF comp.value THEN "VALUE" ELSE "EFLR_COMP"
      <3>1. attrib_value_cnt' > 0 <=> comp.value
        <4>1. item.count \in Nat
          BY <1>4 DEF Item
        <4> QED
          BY <1>4, <1>5, <2>1, <4>1
      <3> QED
        BY <3>1 DEF EflrNext
    <2>6. Complete(EflrNext')
      BY <2>1, <2>5
    <2> HIDE DEF then
    <2> QED
      BY <1>1, <1>2, <1>3, <1>10, <2>2, <2>3, <2>4, <2>6, EflrCompletes DEF iflr, then
  <1> QED
    BY <1>9, <1>10

\* A value is handed over, or put aside, and one less is due.
LEMMA parse_eflr_component_attrib_value_parsed ==
  ASSUME TypeOK, Window, CopiesInBounds', NEW r, WellFormed(r, file), NEW v, NEW s, Parsed(r, v, s),
         parse_eflr_component_attrib_value
  PROVE  Parsed(r, v, s)'
  <1>1. Parsing("VALUE") /\ "VALUE" \in BodyCodes /\ "VALUE" \in WholeItems
    BY DEF parse_eflr_component_attrib_value, BodyCodes, EflrCodes, WholeItems
  <1>2. /\ pc = "parse" /\ code = "VALUE" /\ trailing_len >= 0 /\ lrs_trail_len' = trailing_len
        /\ UpToDue(r) /\ InBody(r, v, s) /\ code \in BodyCodes /\ found = {}
    BY <1>1, InReading
  <1>3. UNCHANGED <<input, ring, nType, lrs_attr, comp, templt, templt_read_idx, attrib_label,
                    parsing, parsing_value_cnt, lines>>
    BY DEF parse_eflr_component_attrib_value
  <1>4. Due \in 1 .. file.n /\ r.items[Due].kind = "value"
    BY <1>2, BodyFacts DEF InBody, DueIs
  <1>5. CASE ~readable_item
    <2>1. Incomplete /\ UNCHANGED <<attrib_value_cnt, cursor, out>>
      BY <1>5 DEF parse_eflr_component_attrib_value
    <2> QED
      BY <1>1, <1>2, <1>3, <1>5, <2>1, IncompleteParsed DEF iflr
  <1>6. CASE readable_item
    <2>1. /\ attrib_value_cnt' = attrib_value_cnt - 1
          /\ cursor' = IF current_item.binds \in DOMAIN file.chan THEN current_item.binds ELSE cursor
          /\ Complete(IF attrib_value_cnt' <= 0 THEN "EFLR_COMP" ELSE "VALUE")
      BY <1>6 DEF parse_eflr_component_attrib_value
    <2>2. /\ r.place[Due + 1].left = r.place[Due].left - 1 /\ r.place[Due + 1].tlen = r.place[Due].tlen
          /\ r.place[Due + 1].read = r.place[Due].read
          /\ r.place[Due + 1].cursor = IF r.items[Due].binds \in DOMAIN file.chan THEN r.items[Due].binds
                                                                                 ELSE r.place[Due].cursor
      BY <1>4, ItemSteps
    <2>3. current_item = r.items[Due]
      BY <1>1, <1>2, <1>6, WholeItem
    <2>4. /\ r.place[Due + 1].left = attrib_value_cnt' /\ r.place[Due + 1].tlen = Len(templt')
          /\ r.place[Due + 1].read = templt_read_idx' /\ r.place[Due + 1].cursor = cursor'
      BY <1>2, <1>3, <2>1, <2>2, <2>3 DEF UpToDue
    <2>5. EflrNext' = IF attrib_value_cnt' <= 0 THEN "EFLR_COMP" ELSE "VALUE"
      <3>1. attrib_value_cnt' \in Int
        BY <2>1 DEF TypeOK, EflrTypes
      <3> QED
        BY <3>1 DEF EflrNext
    <2>6. Complete(EflrNext')
      BY <2>1, <2>5
    <2> QED
      BY <1>1, <1>2, <1>3, <1>6, <2>4, <2>6, EflrCompletes
  <1> QED
    BY <1>5, <1>6

-----------------------------------------------------------------------------
(* The handlers of IFLRs. *)

\* After the header or a sample, samples are due in the same body, or at its end.
LEMMA SampleNext ==
  ASSUME TypeOK, anomalies = {}, found = {}, NEW r, WellFormed(r, file), NEW v, NEW s,
         code \in BodyCodes, InBody(r, v, s), trailing_len >= 0,
         NEW n \in Nat, n <= avail, InBodyStep(n), code' = "IFLR_DATA", aside' = 0,
         Sampling(r)', StreamAt(r, s) + n = r.start[Due'], r.start[Due'] <= BodyEnd(r, s),
         r.start[Due' + 1] > r.base[s]
  PROVE  Reached(r, v, s)'
  <1>1. /\ file' = file /\ InRecord(v, s)' /\ OfSegment(s)' /\ "encrypted" \notin lrs_attr'
        /\ lrs_trail_len' = tail_len(file, s) /\ Inside(r, s)'
        /\ StreamAt(r, s)' = StreamAt(r, s) + n /\ BodyEnd(r, s)' = BodyEnd(r, s)
    BY MovesInBody
  <1>2. r.start[Due'] \in Nat
    <2>1. StreamAt(r, s) \in Nat
      BY BodyFacts
    <2> QED
      BY <2>1
  <1>3. /\ Due' <= file'.n /\ ~Fields(code')
        /\ StreamAt(r, s)' = r.start[Due'] + IF Fields(code') THEN 1 ELSE 0
        /\ r.start[Due'] <= BodyEnd(r, s)'
        /\ lrs_trail_len' \in {-1, tail_len(file, s)'}
    BY <1>1, <1>2 DEF Fields, Sampling, DueIs, tail_len, Behind, pad_count_at
  <1>4. InBody(r, v, s)'
    BY <1>1, <1>3 DEF InBody
  <1> QED
    BY <1>4, InBodyNext DEF BodyCodes, EflrCodes

\* The header of a row is handed over, or put aside, and the first channel is due.
LEMMA parse_iflr_header_parsed ==
  ASSUME TypeOK, Window, CopiesInBounds', NEW r, WellFormed(r, file), NEW v, NEW s, Parsed(r, v, s),
         parse_iflr_header
  PROVE  Parsed(r, v, s)'
  <1>1. Parsing("IFLR_HEADER") /\ "IFLR_HEADER" \in BodyCodes /\ "IFLR_HEADER" \in WholeItems
    BY DEF parse_iflr_header, BodyCodes, EflrCodes, WholeItems
  <1>2. /\ pc = "parse" /\ code = "IFLR_HEADER" /\ trailing_len >= 0 /\ lrs_trail_len' = trailing_len
        /\ running /\ anomalies = {} /\ UpToDue(r) /\ InRow(r) /\ PutAside(r) /\ Starved
        /\ InBody(r, v, s) /\ code # "SUL" /\ code \in BodyCodes /\ found = {} /\ ~Fields(code)
    BY <1>1, InReading DEF Fields
  <1>3. UNCHANGED <<input, ring, nType, lrs_attr, eflr, parsing, parsing_value_cnt, lines>>
    BY DEF parse_iflr_header
  <1>4. /\ Due \in 1 .. file.n /\ r.items[Due].kind = "header" /\ ~is_eod /\ r.start[Due + 1] > r.base[s]
        /\ BodyEnd(r, s) \in Nat /\ r.base[s] \in Nat
    BY <1>2, BodyFacts DEF InBody, DueIs
  <1>7. readable_item => frame_there = {TRUE}
    <2>1. SUFFICES ASSUME readable_item PROVE frame_there = {TRUE}
      OBVIOUS
    <2>2. current_item = r.items[Due] /\ current_item.binds = 1
      BY <1>1, <1>2, <1>4, <2>1, WholeItem, ItemSteps
    <2>3. readable > 0
      <3>1. item_len # 0
        <4>1. r.items[Due].size >= 1
          BY <1>2, BodyFacts
        <4> QED
          BY <1>2, <2>2, <4>1 DEF item_len
      <3>2. readable \in Int
        BY <1>2, BodyLeft, ViewTypes DEF readable, Least, Fields
      <3> QED
        BY <2>1, <3>1, <3>2 DEF readable_item
    <2>4. as_expected
      BY <1>1, <1>2, <2>3, InReading DEF is_other_item
    <2> QED
      BY <1>4, <2>2, <2>4 DEF frame_there
  <1>5. CASE ~readable_item
    <2>1. Incomplete /\ UNCHANGED <<cursor, out>>
      BY <1>5 DEF parse_iflr_header
    <2> QED
      BY <1>1, <1>2, <1>3, <1>5, <2>1, IncompleteParsed DEF iflr, eflr
  <1>6. CASE readable_item
    <2>1. /\ cursor' = first_channel /\ InSegment(item_len) /\ Deliver(current_item, checked_len, 0)
          /\ code' = "IFLR_DATA" /\ UNCHANGED <<pc, unparsed_buff>>
      BY <1>4, <1>6, <1>7 DEF parse_iflr_header
    <2>2. /\ item_len \in Nat /\ item_len <= avail
          /\ StreamAt(r, s) + item_len = r.start[Due + 1] /\ r.start[Due + 1] <= BodyEnd(r, s)
      BY <1>1, <1>2, <1>6, WholeItem
    <2>3. out' = Append(out, Due)
      BY <1>1, <1>2, <1>6, <2>1, Delivered
    <2>4. /\ file.chan # <<>> /\ r.place[Due + 1].left = r.place[Due].left
          /\ r.place[Due + 1].tlen = r.place[Due].tlen /\ r.place[Due + 1].read = r.place[Due].read
          /\ r.place[Due + 1].cursor = 1 /\ r.place[Due + 1].nth = 0
          /\ Due < file.n /\ r.items[Due + 1].kind = "sample"
      BY <1>4, ItemSteps
    <2>5. cursor' = 1 /\ cursor' \in DOMAIN lines
      <3>1. cursor' = 1
        BY <2>1, <2>4 DEF first_channel
      <3>2. DOMAIN lines = DOMAIN file.chan /\ file.chan \in Seq(Channel)
        BY DEF TypeOK, IflrTypes, InputTypes, FileOK, File
      <3>3. 1 \in DOMAIN file.chan
        BY <2>4, <3>2
      <3> QED
        BY <3>1, <3>2, <3>3
    <2>6. UpToDue(r)' /\ InRow(r)' /\ Due' = Due + 1
      <3>1. /\ r.place[Due + 1].left = attrib_value_cnt' /\ r.place[Due + 1].tlen = Len(templt')
            /\ r.place[Due + 1].read = templt_read_idx' /\ r.place[Due + 1].cursor = cursor'
        BY <1>2, <1>3, <2>4, <2>5 DEF UpToDue, eflr
      <3> QED
        BY <1>2, <1>3, <1>4, <2>3, <2>4, <2>5, <3>1, NextItem DEF input
    <2>7. unparsed_buff' = <<>>
      <3>1. aside = 0
        BY <1>2 DEF InBody
      <3> QED
        BY <2>1, <3>1 DEF aside, TypeOK, RingTypes
    <2>8. PutAside(r)' /\ aside' = 0
      BY <2>7, NothingAside
    <2>9. InBodyStep(item_len)
      BY <1>2, <1>3, <2>1 DEF InBodyStep
    <2>10. anomalies' = {} /\ file' = file
      BY <1>2, <2>2, <2>9, MovesInBody
    <2>11. Sampling(r)'
      BY <1>4, <2>4, <2>6, <2>10, ViewTypes, CellFacts DEF Sampling, DueIs
    <2>12. r.start[Due' + 1] > r.base[s]
      <3>1. Due + 1 \in 1 .. file.n
        BY <1>4, <2>4, CellFacts
      <3>2. r.start[Due + 1] < r.start[(Due + 1) + 1] /\ r.start[Due + 1] \in Nat /\ r.start[(Due + 1) + 1] \in Nat
        BY <3>1, StartsRise
      <3> QED
        BY <1>4, <2>6, <3>2
    <2>13. Reached(r, v, s)'
      BY <1>2, <2>1, <2>2, <2>6, <2>8, <2>9, <2>11, <2>12, SampleNext
    <2> QED
      BY <1>2, <1>3, <2>1, <2>6, <2>8, <2>10, <2>13, NotStarved, GoingOn DEF input
  <1> QED
    BY <1>5, <1>6

\* The run of samples that is due: those of the channel at the cursor still to come.
due == dimension - already_read

\* The samples due of a channel: where they are, and what is due behind them.
LEMMA Run ==
  ASSUME TypeOK, NEW r, WellFormed(r, file), UpToDue(r), Sampling(r)
  PROVE  /\ cursor \in 1 .. Len(file.chan) /\ cursor \in DOMAIN file.chan /\ channel = cursor /\ cursor > 0
         /\ already_read = r.place[Due].nth /\ already_read \in Nat
         /\ dimension = file.chan[cursor].dim /\ dimension \in Nat
         /\ sample_size = file.chan[cursor].size /\ sample_size \in Nat /\ sample_size >= 1
         /\ due \in Nat /\ due >= 1 /\ Due + due <= file.n + 1 /\ Due \in 1 .. file.n
         /\ \A i \in 0 .. due - 1 : r.items[Due + i].kind = "sample"
         /\ \A i \in 0 .. due - 1 : r.items[Due + i].binds = cursor /\ r.items[Due + i].size = sample_size
         /\ \A i \in 0 .. due : r.start[Due + i] = r.start[Due] + i * sample_size
         /\ \A i \in 0 .. due - 1 : r.place[Due + i] = [r.place[Due] EXCEPT !.nth = @ + i]
         /\ r.place[Due + due] = [r.place[Due] EXCEPT !.cursor = next_channel, !.nth = 0]
         /\ Due + due <= file.n => (r.items[Due + due].kind = "sample" <=> next_channel # 0)
         /\ next_channel # 0 => Due + due <= file.n
  <1>1. Due \in 1 .. file.n /\ r.items[Due].kind = "sample" /\ Due \in 1 .. file.n + 1 /\ Due \in Nat
    BY ViewTypes, CellFacts DEF Sampling, DueIs
  <1>2. RunWell(r, file, Due)
    BY <1>1 DEF WellFormed, ItemsWell
  <1>3. r.place[Due].cursor \in DOMAIN file.chan /\ r.place[Due].nth < file.chan[r.place[Due].cursor].dim
    BY <1>1, ItemSteps
  <1>4. r.place[Due].cursor = cursor
    BY DEF UpToDue
  <1>5. r.place[Due] \in Place /\ r.place[Due].nth \in Nat
    <2>1. r.place[Due] \in Place
      BY <1>1, ReadingTypes
    <2> QED
      BY <2>1, PlaceTypes
  <1>6. file.chan \in Seq(Channel)
    BY DEF TypeOK, InputTypes, FileOK, File
  <1>7. cursor \in 1 .. Len(file.chan) /\ Len(file.chan) \in Nat /\ file.chan[cursor] \in Channel
    BY <1>3, <1>4, <1>6
  <1>8. file.chan[cursor].dim \in Nat /\ file.chan[cursor].size \in Nat /\ file.chan[cursor].size >= 1
    BY <1>7, Sizes DEF Channel
  <1>9. channel = cursor /\ already_read = r.place[Due].nth
    BY DEF channel, already_read, UpToDue
  <1>10. /\ dimension = file.chan[cursor].dim /\ sample_size = file.chan[cursor].size
    BY <1>9 DEF dimension, sample_size
  <1>11. due \in Nat /\ due >= 1 /\ due = file.chan[cursor].dim - r.place[Due].nth
    BY <1>3, <1>4, <1>5, <1>8, <1>9, <1>10 DEF due
  <1>12. next_channel = IF cursor = Len(file.chan) THEN 0 ELSE cursor + 1
    BY <1>7 DEF next_channel
  <1>13. next_channel # 0 <=> cursor # Len(file.chan)
    BY <1>7, <1>12
  <1>14. /\ Due + due <= file.n + 1
         /\ r.start[Due + due] = r.start[Due] + due * sample_size
         /\ r.place[Due + due] = [r.place[Due] EXCEPT !.cursor = next_channel, !.nth = 0]
         /\ Due + due <= file.n => (r.items[Due + due].kind = "sample" <=> next_channel # 0)
         /\ next_channel # 0 => Due + due <= file.n
         /\ \A i \in 0 .. due - 1 :
              /\ r.items[Due + i].kind = "sample" /\ r.items[Due + i].binds = cursor
              /\ r.items[Due + i].size = sample_size
              /\ r.start[Due + i] = r.start[Due] + i * sample_size
              /\ r.place[Due + i] = [r.place[Due] EXCEPT !.nth = @ + i]
    BY <1>2, <1>4, <1>10, <1>11, <1>12, <1>13 DEF RunWell
  <1>15. \A i \in 0 .. due : r.start[Due + i] = r.start[Due] + i * sample_size
    <2>1. \A i \in 0 .. due : i = due \/ i \in 0 .. due - 1
      BY <1>11
    <2> QED
      BY <1>14, <2>1
  <1> HIDE DEF due
  <1>16. /\ cursor \in 1 .. Len(file.chan) /\ cursor \in DOMAIN file.chan /\ cursor > 0
         /\ already_read \in Nat /\ dimension \in Nat /\ sample_size \in Nat /\ sample_size >= 1
    BY <1>3, <1>4, <1>5, <1>7, <1>8, <1>9, <1>10
  <1> QED
    BY <1>1, <1>9, <1>10, <1>11, <1>14, <1>15, <1>16

\* Products of numbers are numbers, and rise.
LEMMA Products ==
  ASSUME NEW a \in Nat, NEW b \in Nat, NEW c \in Nat, a <= b
  PROVE  a * c \in Nat /\ b * c \in Nat /\ a * c <= b * c /\ (a + 1) * c = a * c + c
  <1>1. a * c \in Nat /\ b * c \in Nat /\ (b - a) * c \in Nat
    <2>1. b - a \in Nat
      OBVIOUS
    <2>2. \A x, y \in Nat : x * y \in Nat
      OBVIOUS
    <2> QED
      BY <2>1, <2>2
  <1>2. b * c = a * c + (b - a) * c
    OBVIOUS
  <1>3. (a + 1) * c = a * c + c
    OBVIOUS
  <1> QED
    BY <1>1, <1>2, <1>3

\* Two sequences of numbers end to end.
LEMMA Concat ==
  ASSUME NEW a \in Seq(Nat), NEW b \in Seq(Nat)
  PROVE  /\ a \o b \in Seq(Nat) /\ Len(a) \in Nat /\ Len(b) \in Nat /\ Len(a \o b) = Len(a) + Len(b)
         /\ DOMAIN (a \o b) = 1 .. Len(a) + Len(b)
         /\ \A i \in 1 .. Len(a) + Len(b) : (a \o b)[i] = IF i <= Len(a) THEN a[i] ELSE b[i - Len(a)]
  OBVIOUS

\* The samples there are room for are those due.
LEMMA SamplesRead ==
  ASSUME TypeOK, Window, NEW r, WellFormed(r, file), NEW v, NEW s, code = "IFLR_DATA", InBody(r, v, s),
         UpToDue(r), trailing_len >= 0, NEW m \in 0 .. due, reads_samples(m),
         out' = out \o [j \in 1 .. m |-> sample_at(byte_idx + (j - 1) * sample_size)],
         file' = file
  PROVE  /\ Len(out') = Len(out) + m /\ Due' = Due + m /\ Due' \in Nat
         /\ \A i \in DOMAIN out' : out'[i] = i
         /\ m * sample_size \in Nat /\ m * sample_size <= avail
         /\ StreamAt(r, s) + m * sample_size = r.start[Due'] /\ r.start[Due'] <= BodyEnd(r, s)
  <1>1. Sampling(r) /\ code \in BodyCodes /\ ~Fields(code)
    BY DEF InBody, BodyCodes, EflrCodes, Fields
  <1>2. /\ cursor \in DOMAIN file.chan /\ channel = cursor
        /\ sample_size \in Nat /\ sample_size >= 1
        /\ due \in Nat /\ Due + due <= file.n + 1 /\ Due \in 1 .. file.n
        /\ \A i \in 0 .. due - 1 : r.items[Due + i].kind = "sample"
        /\ \A i \in 0 .. due - 1 : r.items[Due + i].binds = cursor /\ r.items[Due + i].size = sample_size
        /\ \A i \in 0 .. due : r.start[Due + i] = r.start[Due] + i * sample_size
    BY <1>1, Run, Zenon
  <1>3. /\ StreamAt(r, s) = r.start[Due] /\ StreamAt(r, s) \in Nat /\ BodyEnd(r, s) \in Nat
        /\ s \in Segments(file) /\ "encrypted" \notin file.cells[s].attr /\ Inside(r, s)
        /\ StreamAt(r, s) <= BodyEnd(r, s)
    BY <1>1, BodyFacts
  <1>4. /\ avail \in Nat /\ body_left \in Nat /\ body_left = BodyEnd(r, s) - StreamAt(r, s)
    BY <1>1, BodyLeft, NatAvail
  <1>5. readable = Least(avail, body_left) /\ readable <= avail /\ readable <= body_left /\ readable \in Nat
    BY <1>1, <1>4 DEF readable, Least
  <1>6. m \in Nat /\ m <= due /\ due \in Nat /\ Due + due <= file.n + 1
    BY <1>2
  <1>7. m * sample_size \in Nat /\ m * sample_size <= readable
    <2>1. m * sample_size \in Nat
      BY <1>2, <1>6, Products
    <2>2. CASE m = 0
      BY <1>2, <1>5, <2>2
    <2>3. CASE m * sample_size <= readable
      BY <2>1, <2>3
    <2> QED
      BY <2>1, <2>2, <2>3 DEF reads_samples
  <1>8. /\ file.n \in Nat /\ Due \in Nat /\ Due = Len(out) + 1 /\ Len(out) \in Nat /\ out \in Seq(Nat)
        /\ byte_idx \in Int
    BY ViewTypes, CellFacts DEF TypeOK, IflrTypes
  <1>9. ASSUME NEW j \in 1 .. m PROVE sample_at(byte_idx + (j - 1) * sample_size) = Due + (j - 1)
    <2> DEFINE i == j - 1
               at == i * sample_size
    <2>1. i \in Nat /\ i + 1 <= m /\ i < due /\ i \in 0 .. due - 1 /\ i \in 0 .. due
      <3>1. j \in Nat /\ j >= 1 /\ j <= m
        BY <1>6
      <3> QED
        BY <1>6, <3>1
    <2>2. at \in Nat /\ at + sample_size <= m * sample_size
      <3>1. (i + 1) * sample_size <= m * sample_size /\ i + 1 \in Nat
        BY <1>2, <1>6, <2>1, Products
      <3>2. at \in Nat /\ (i + 1) * sample_size = at + sample_size
        <4>1. i <= i + 1 /\ i \in Nat /\ i + 1 \in Nat
          BY <2>1
        <4> QED
          BY <1>2, <4>1, Products
      <3> QED
        BY <3>1, <3>2
    <2>3. /\ r.items[Due + i].kind = "sample" /\ r.items[Due + i].binds = cursor
          /\ r.items[Due + i].size = sample_size /\ r.start[Due + i] = r.start[Due] + at
      <3> HIDE DEF i
      <3> QED
        BY <1>2, <2>1
    <2>4. Due + i \in 1 .. file.n
      <3> HIDE DEF i
      <3> QED
        BY <1>6, <1>8, <2>1
    <2>5. r.items[Due + i].id = Due + i
      BY <2>4, ReadingTypes
    <2> HIDE DEF at, i
    <2>6. ASSUME NEW x \in 0 .. sample_size - 1
          PROVE  /\ CellAt((byte_idx + at) + x).kind = "body"
                 /\ CellAt((byte_idx + at) + x).item = r.items[Due + i] /\ CellAt((byte_idx + at) + x).ix = x
      <3>4. x \in Nat /\ x < sample_size /\ sample_size \in Nat
        BY <1>2
      <3>5. at + x < m * sample_size /\ m * sample_size <= avail /\ m * sample_size <= body_left
        BY <1>4, <1>5, <1>7, <2>2, <3>4
      <3>6. at + x \in 0 .. avail - 1 /\ at + x < body_left /\ at + x \in Nat
        BY <1>4, <1>7, <2>2, <3>4, <3>5
      <3>1. /\ x \in Nat /\ x < sample_size /\ at + x \in 0 .. avail - 1
            /\ StreamAt(r, s) + (at + x) < BodyEnd(r, s)
            /\ (byte_idx + at) + x = byte_idx + (at + x)
            /\ StreamAt(r, s) + (at + x) = (r.start[Due] + at) + x
        BY <1>3, <1>4, <1>8, <2>2, <3>4, <3>6
      <3>2. StreamAt(r, s) + (at + x) = r.start[Due + i] + x /\ x < r.items[Due + i].size
        BY <2>3, <3>1
      <3>3. /\ CellAt(byte_idx + (at + x)).kind = "body"
            /\ CellAt(byte_idx + (at + x)).item = r.items[Due + i] /\ CellAt(byte_idx + (at + x)).ix = x
        BY <1>3, <2>4, <3>1, <3>2, ItemHere
      <3> QED
        BY <3>1, <3>3
    <2>7. /\ CellAt(byte_idx + at).kind = "body"
          /\ CellAt(byte_idx + at).item = r.items[Due + i] /\ CellAt(byte_idx + at).ix = 0
      <3>1. 0 \in 0 .. sample_size - 1 /\ (byte_idx + at) + 0 = byte_idx + at
        BY <1>2, <1>8, <2>2
      <3> QED
        BY <2>6, <3>1
    <2>8. is_sample(byte_idx + at) /\ ItemAt(byte_idx + at) = r.items[Due + i]
      BY <1>2, <2>3, <2>7 DEF is_sample, ItemAt
    <2>9. Holds(byte_idx + at, sample_size, ItemAt(byte_idx + at), 0)
      <3>1. \A x \in 0 .. sample_size - 1 : 0 + x = x
        BY <1>2
      <3> QED
        BY <2>6, <2>8, <3>1 DEF Holds
    <2>10. sample_at(byte_idx + at) = Due + i
      BY <2>5, <2>8, <2>9 DEF sample_at
    <2> QED
      BY <2>10 DEF at, i
  <1> DEFINE f == [j \in 1 .. m |-> sample_at(byte_idx + (j - 1) * sample_size)]
  <1>10. f = [j \in 1 .. m |-> Due + (j - 1)]
    BY <1>9
  <1>11. f \in Seq(Nat) /\ Len(f) = m /\ \A j \in 1 .. m : f[j] = Due + (j - 1)
    <2> HIDE DEF f
    <2>1. f \in [1 .. m -> Nat]
      BY <1>6, <1>8, <1>10
    <2>2. f \in Seq(Nat) /\ Len(f) = m
      BY <1>6, <2>1, IntervalSeq
    <2> QED
      BY <1>10, <2>2
  <1>12. out' = out \o f
    OBVIOUS
  <1> HIDE DEF f
  <1>13. Len(out') = Len(out) + m
    BY <1>8, <1>11, <1>12
  <1>14. \A i \in DOMAIN out' : out'[i] = i
    <2>1. /\ DOMAIN out' = 1 .. Len(out) + m
          /\ \A i \in 1 .. Len(out) + m : out'[i] = IF i <= Len(out) THEN out[i] ELSE f[i - Len(out)]
      <3>1. out \in Seq(Nat) /\ f \in Seq(Nat)
        BY <1>8, <1>11
      <3>2. /\ DOMAIN (out \o f) = 1 .. Len(out) + Len(f)
            /\ \A i \in 1 .. Len(out) + Len(f) :
                 (out \o f)[i] = IF i <= Len(out) THEN out[i] ELSE f[i - Len(out)]
        BY <3>1, Concat, Zenon
      <3> QED
        BY <1>11, <1>12, <3>2, Zenon
    <2>2. ASSUME NEW i \in 1 .. Len(out) + m PROVE out'[i] = i
      <3>1. CASE i \in 1 .. Len(out)
        <4>1. out'[i] = out[i]
          BY <1>6, <1>8, <2>1, <3>1
        <4> QED
          BY <1>8, <3>1, <4>1 DEF UpToDue
      <3>2. CASE i \notin 1 .. Len(out)
        <4>1. i - Len(out) \in 1 .. m /\ i \in Nat /\ ~(i <= Len(out))
          BY <1>6, <1>8, <3>2
        <4>2. out'[i] = f[i - Len(out)]
          BY <2>1, <4>1
        <4>3. f[i - Len(out)] = Due + ((i - Len(out)) - 1)
          BY <1>11, <4>1
        <4> QED
          BY <1>8, <4>1, <4>2, <4>3
      <3> QED
        BY <3>1, <3>2
    <2> QED
      BY <2>1, <2>2
  <1>15. Due' = Due + m /\ Due' \in Nat
    BY <1>6, <1>8, <1>13 DEF Due
  <1>16. r.start[Due'] = r.start[Due] + m * sample_size
    BY <1>2, <1>6, <1>15
  <1>17. m * sample_size <= avail /\ r.start[Due'] <= BodyEnd(r, s)
    BY <1>3, <1>4, <1>5, <1>7, <1>16
  <1> QED
    BY <1>3, <1>7, <1>13, <1>14, <1>15, <1>16, <1>17

\* Part of the run was read: the channel stays due.
LEMMA StaysInRun ==
  ASSUME TypeOK, NEW r, WellFormed(r, file), UpToDue(r), InRow(r), Sampling(r),
         NEW m \in 0 .. due, m # due, Len(out') <= file.n, \A i \in DOMAIN out' : out'[i] = i,
         Due' = Due + m, parsing' = cursor, parsing_value_cnt' = already_read + m,
         UNCHANGED <<file, lines, cursor, templt, templt_read_idx, attrib_value_cnt>>
  PROVE  UpToDue(r)' /\ InRow(r)' /\ Sampling(r)'
  <1>1. /\ cursor \in DOMAIN file.chan /\ already_read = r.place[Due].nth /\ already_read \in Nat
        /\ due \in Nat /\ Due + due <= file.n + 1 /\ dimension = file.chan[cursor].dim /\ dimension \in Nat
        /\ \A i \in 0 .. due - 1 : r.items[Due + i].kind = "sample"
        /\ \A i \in 0 .. due - 1 : r.place[Due + i] = [r.place[Due] EXCEPT !.nth = @ + i]
        /\ Due \in 1 .. file.n /\ cursor \in 1 .. Len(file.chan) /\ cursor > 0
    <2>1. /\ cursor \in DOMAIN file.chan /\ already_read = r.place[Due].nth /\ already_read \in Nat
          /\ due \in Nat /\ Due + due <= file.n + 1 /\ dimension = file.chan[cursor].dim /\ dimension \in Nat
          /\ Due \in 1 .. file.n /\ cursor \in 1 .. Len(file.chan) /\ cursor > 0
      BY Run, Zenon
    <2>2. \A i \in 0 .. due - 1 : r.items[Due + i].kind = "sample"
      BY Run, Zenon
    <2>3. \A i \in 0 .. due - 1 : r.place[Due + i] = [r.place[Due] EXCEPT !.nth = @ + i]
      BY Run, Zenon
    <2> QED
      BY <2>1, <2>2, <2>3, Zenon
  <1>2. m \in Nat /\ m < due /\ m \in 0 .. due - 1 /\ due = dimension - already_read
    BY <1>1 DEF due
  <1>3. Due \in Nat /\ file.n \in Nat
    BY ViewTypes, CellFacts
  <1>4. Due' <= file.n /\ r.items[Due'].kind = "sample" /\ r.place[Due'] = [r.place[Due] EXCEPT !.nth = @ + m]
    <2>1. Due + m <= file.n
      BY <1>1, <1>2, <1>3
    <2>2. r.items[Due + m].kind = "sample" /\ r.place[Due + m] = [r.place[Due] EXCEPT !.nth = @ + m]
      BY <1>1, <1>2, Zenon
    <2> QED
      BY <2>1, <2>2
  <1>5. r.place[Due] \in Place
    <2>1. Due \in 1 .. file.n + 1
      BY <1>1, <1>3
    <2> QED
      BY <2>1, ReadingTypes
  <1>6. /\ r.place[Due'].left = r.place[Due].left /\ r.place[Due'].tlen = r.place[Due].tlen
        /\ r.place[Due'].read = r.place[Due].read /\ r.place[Due'].cursor = r.place[Due].cursor
        /\ r.place[Due'].nth = r.place[Due].nth + m
    BY <1>4, <1>5 DEF Place
  <1>7. Sampling(r)'
    BY <1>4 DEF Sampling, DueIs
  <1>8. loaded'
    <2>1. cursor # 0
      BY <1>1
    <2>2. already_read + m < dimension
      BY <1>1, <1>2
    <2> QED
      BY <1>1, <2>1, <2>2 DEF loaded
  <1>9. UpToDue(r)'
    BY <1>1, <1>6, <1>7, <1>8 DEF UpToDue
  <1>10. InRow(r)'
    BY <1>7 DEF InRow
  <1> QED
    BY <1>7, <1>9, <1>10

\* The whole run was read: the next channel is due, or the row is complete.
LEMMA LeavesRun ==
  ASSUME TypeOK, NEW r, WellFormed(r, file), UpToDue(r), InRow(r), Sampling(r),
         Len(out') <= file.n, \A i \in DOMAIN out' : out'[i] = i,
         Due' = Due + due, parsing' = cursor, parsing_value_cnt' = dimension,
         lines' = [lines EXCEPT ![cursor] = @ + 1], cursor' = next_channel,
         UNCHANGED <<file, templt, templt_read_idx, attrib_value_cnt>>
  PROVE  UpToDue(r)' /\ InRow(r)' /\ (Sampling(r)' <=> next_channel # 0)
  <1>1. /\ cursor \in DOMAIN file.chan /\ cursor \in 1 .. Len(file.chan) /\ cursor > 0
        /\ dimension = file.chan[cursor].dim /\ dimension \in Nat
        /\ r.place[Due + due] = [r.place[Due] EXCEPT !.cursor = next_channel, !.nth = 0]
        /\ Due + due <= file.n => (r.items[Due + due].kind = "sample" <=> next_channel # 0)
        /\ next_channel # 0 => Due + due <= file.n
        /\ Due \in 1 .. file.n
    BY Run
  <1>2. r.place[Due] \in Place
    <2>1. Due \in 1 .. file.n + 1
      BY <1>1, ViewTypes, CellFacts
    <2> QED
      BY <2>1, ReadingTypes
  <1>3. /\ r.place[Due'].left = r.place[Due].left /\ r.place[Due'].tlen = r.place[Due].tlen
        /\ r.place[Due'].read = r.place[Due].read /\ r.place[Due'].cursor = next_channel
        /\ r.place[Due'].nth = 0
    BY <1>1, <1>2 DEF Place
  <1>4. Sampling(r)' <=> next_channel # 0
    BY <1>1 DEF Sampling, DueIs
  <1>5. ~loaded'
    BY <1>1 DEF loaded
  <1>6. UpToDue(r)'
    BY <1>3, <1>5 DEF UpToDue
  <1>7. InRow(r)'
    <2>1. /\ DOMAIN lines = 1 .. Len(file.chan) /\ Len(file.chan) \in Nat
          /\ \A k \in DOMAIN lines : lines[k] \in Nat /\ lines[k] = IF k < cursor THEN lines[cursor] + 1 ELSE lines[cursor]
      <3>1. lines \in [DOMAIN file.chan -> Nat] /\ file.chan \in Seq(Channel)
        BY DEF TypeOK, IflrTypes, InputTypes, FileOK, File
      <3> QED
        BY <3>1 DEF InRow
    <2>2. DOMAIN lines' = DOMAIN lines /\ \A k \in DOMAIN lines : lines'[k] = IF k = cursor THEN lines[k] + 1 ELSE lines[k]
      BY <1>1, <2>1
    <2>3. CASE next_channel = 0
      <3>1. cursor = Len(file.chan)
        BY <1>1, <2>1, <2>3 DEF next_channel
      <3>2. \A k \in DOMAIN lines : lines'[k] = lines[cursor] + 1
        BY <1>1, <2>1, <2>2, <3>1
      <3> QED
        BY <1>4, <2>2, <2>3, <3>2 DEF InRow
    <2>4. CASE next_channel # 0
      <3>1. cursor' = cursor + 1 /\ cursor + 1 \in DOMAIN lines
        BY <1>1, <2>1, <2>4 DEF next_channel
      <3>2. lines'[cursor'] = lines[cursor]
        BY <1>1, <2>1, <2>2, <3>1
      <3>3. \A k \in DOMAIN lines : lines'[k] = IF k < cursor' THEN lines[cursor] + 1 ELSE lines[cursor]
        BY <1>1, <2>1, <2>2, <3>1
      <3> QED
        BY <1>4, <2>2, <2>4, <3>2, <3>3 DEF InRow
    <2> QED
      BY <2>3, <2>4
  <1> QED
    BY <1>4, <1>6, <1>7

\* Behind the last sample of a row the body ends: a header is the first item of its segment.
LEMMA RowEndsBody ==
  ASSUME TypeOK, NEW r, WellFormed(r, file), NEW v, NEW s, code = "IFLR_DATA", InBody(r, v, s),
         UpToDue(r), next_channel = 0, r.start[Due + due] <= BodyEnd(r, s)
  PROVE  r.start[Due + due] = BodyEnd(r, s)
  <1>1. Sampling(r) /\ code \in BodyCodes
    BY DEF InBody, BodyCodes, EflrCodes
  <1>2. /\ due \in Nat /\ due >= 1 /\ Due + due <= file.n + 1 /\ Due \in 1 .. file.n
        /\ Due + due <= file.n => r.items[Due + due].kind # "sample"
        /\ sample_size \in Nat /\ sample_size >= 1
        /\ r.start[Due + due] = r.start[Due] + due * sample_size
        /\ r.start[Due + 1] = r.start[Due] + 1 * sample_size
    <2>1. /\ due \in Nat /\ due >= 1 /\ Due + due <= file.n + 1 /\ Due \in 1 .. file.n
          /\ Due + due <= file.n => (r.items[Due + due].kind = "sample" <=> next_channel # 0)
          /\ sample_size \in Nat /\ sample_size >= 1
          /\ \A i \in 0 .. due : r.start[Due + i] = r.start[Due] + i * sample_size
      BY <1>1, Run
    <2>2. due \in 0 .. due /\ 1 \in 0 .. due
      BY <2>1
    <2> QED
      BY <2>1, <2>2
  <1>3. /\ s \in Segments(file) /\ "encrypted" \notin file.cells[s].attr /\ BodyEnd(r, s) \in Nat
        /\ BodyEnd(r, s) = r.base[s] + body_len(file, s) /\ r.base[s] \in Nat
        /\ r.start[Due] \in Nat /\ r.start[Due + 1] > r.base[s] /\ r.start[Due] <= BodyEnd(r, s)
    BY <1>1, BodyFacts DEF InBody
  <1>4. 1 * sample_size <= due * sample_size /\ due * sample_size \in Nat /\ 1 * sample_size = sample_size
    <2>1. 1 \in Nat /\ 1 <= due
      BY <1>2
    <2> QED
      BY <1>2, <2>1, Products
  <1>5. r.start[Due + due] > r.base[s] /\ r.start[Due + due] \in Nat /\ r.start[Due] < r.start[Due + due]
    <2>1. r.start[Due + 1] <= r.start[Due + due] /\ r.start[Due + 1] \in Nat /\ r.start[Due] < r.start[Due + 1]
      BY <1>2, <1>3, <1>4
    <2> QED
      BY <1>2, <1>3, <1>4, <2>1
  <1>6. ASSUME r.start[Due + due] < BodyEnd(r, s) PROVE FALSE
    <2>1. Due + due \in 1 .. file.n + 1
      BY <1>2, CellFacts
    <2>2. Due + due \in 1 .. file.n /\ Due + due <= file.n
      <3>1. Due + due \in 1 .. file.n
        BY <1>3, <1>6, <2>1, StartsBefore
      <3> QED
        BY <3>1, CellFacts
    <2>3. r.start[(Due + due) + 1] > r.base[s]
      <3>1. r.start[Due + due] < r.start[(Due + due) + 1] /\ r.start[(Due + due) + 1] \in Nat
        BY <2>2, StartsRise
      <3> QED
        BY <1>3, <1>5, <3>1
    <2>4. /\ r.items[Due + due].kind \in EflrKinds <=> "eflr" \in file.cells[s].attr
          /\ r.items[Due + due].kind = "header" => r.start[Due + due] <= r.base[s]
      BY <1>3, <1>6, <2>2, <2>3, Meets
    <2>5. r.items[Due].kind = "sample" /\ r.start[Due] < r.base[s] + body_len(file, s)
      BY <1>1, <1>3, <1>5, <1>6 DEF Sampling, DueIs
    <2>6. "eflr" \notin file.cells[s].attr
      <3>1. r.items[Due].kind \notin EflrKinds
        BY <2>5, EflrKindsAre
      <3> QED
        BY <1>2, <1>3, <2>5, <3>1, Meets
    <2>7. r.items[Due + due].kind \in {"set", "object", "attrib", "value", "header", "sample"}
      BY <2>2, ItemSteps
    <2>8. r.items[Due + due].kind = "header"
      BY <1>2, <2>2, <2>4, <2>6, <2>7, EflrKindsAre
    <2> QED
      BY <1>3, <1>5, <2>4, <2>8
  <1> QED
    BY <1>3, <1>5, <1>6

\* Samples are handed over, as many as there are; the rest of a cut one is put aside.
LEMMA parse_iflr_data_parsed ==
  ASSUME TypeOK, Window, CopiesInBounds', NEW r, WellFormed(r, file), NEW v, NEW s, Parsed(r, v, s),
         parse_iflr_data
  PROVE  Parsed(r, v, s)'
  <1>1. Parsing("IFLR_DATA") /\ "IFLR_DATA" \in BodyCodes
    BY DEF parse_iflr_data, BodyCodes, EflrCodes
  <1>2. /\ pc = "parse" /\ code = "IFLR_DATA" /\ trailing_len >= 0 /\ lrs_trail_len' = trailing_len
        /\ running /\ anomalies = {} /\ UpToDue(r) /\ InRow(r) /\ PutAside(r) /\ Starved
        /\ InBody(r, v, s) /\ code # "SUL" /\ code \in BodyCodes /\ found = {}
    BY <1>1, InReading
  <1>3. UNCHANGED <<input, ring, nType, lrs_attr, eflr>> /\ file' = file
    BY DEF parse_iflr_data, input
  <1>4. Sampling(r) /\ ~is_eod /\ aside = 0
    BY <1>2, BodyFacts DEF InBody
  <1>5. /\ cursor > 0 /\ cursor \in 1 .. Len(file.chan) /\ channel = cursor /\ due \in Nat /\ due >= 1 /\ due = dimension - already_read
        /\ already_read \in Nat /\ dimension \in Nat /\ sample_size \in Nat /\ sample_size >= 1
        /\ Due + due <= file.n + 1 /\ Due \in 1 .. file.n
        /\ \A i \in 0 .. due : r.start[Due + i] = r.start[Due] + i * sample_size
        /\ next_channel # 0 => Due + due <= file.n
    <2>1. due = dimension - already_read
      BY DEF due
    <2> QED
      BY <1>2, <1>4, <2>1, Run, Zenon
  <1>6. PICK m \in 0 .. due :
          /\ reads_samples(m)
          /\ parsing' = channel /\ parsing_value_cnt' = already_read + m
          /\ out' = out \o [j \in 1 .. m |-> sample_at(byte_idx + (j - 1) * sample_size)]
          /\ IF already_read + m = dimension THEN channel_read(m * sample_size)
                                             ELSE channel_not_read(m * sample_size)
    <2>1. ~is_eod /\ ~no_channel
      BY <1>4, <1>5 DEF no_channel
    <2>2. \E m \in 0 .. dimension - already_read :
            /\ reads_samples(m)
            /\ parsing' = channel /\ parsing_value_cnt' = already_read + m
            /\ out' = out \o [j \in 1 .. m |-> sample_at(byte_idx + (j - 1) * sample_size)]
            /\ IF already_read + m = dimension THEN channel_read(m * sample_size)
                                               ELSE channel_not_read(m * sample_size)
      BY <2>1, Zenon DEF parse_iflr_data
    <2> QED
      BY <1>5, <2>2
  <1> DEFINE n == m * sample_size
  <1>7. /\ Len(out') = Len(out) + m /\ Due' = Due + m /\ Due' \in Nat
        /\ \A i \in DOMAIN out' : out'[i] = i
        /\ n \in Nat /\ n <= avail
        /\ StreamAt(r, s) + n = r.start[Due'] /\ r.start[Due'] <= BodyEnd(r, s)
    BY <1>2, <1>3, <1>6, SamplesRead
  <1>8. /\ StreamAt(r, s) \in Nat /\ BodyEnd(r, s) \in Nat /\ r.base[s] \in Nat
        /\ StreamAt(r, s) = r.start[Due] /\ r.start[Due + 1] > r.base[s]
        /\ s \in Segments(file) /\ OfSegment(s) /\ "encrypted" \notin file.cells[s].attr
    BY <1>2, BodyFacts DEF InBody, Fields
  <1>9. /\ body_left \in Nat /\ body_left = BodyEnd(r, s) - StreamAt(r, s) /\ avail \in Nat
        /\ remain \in Nat /\ body_left <= remain
    BY <1>2, BodyLeft, NatAvail
  <1>10. m \in Nat /\ m <= due /\ Len(out') <= file.n /\ file.n \in Nat /\ Due \in Nat
    <2>1. file.n \in Nat /\ Due = Len(out) + 1 /\ Len(out) \in Nat
      BY ViewTypes, CellFacts
    <2>2. m \in Nat /\ m <= due
      BY <1>5
    <2> QED
      BY <1>5, <1>7, <2>1, <2>2
  <1>16. r.start[Due'] \in Nat
    BY <1>7, <1>8
  <1>11. already_read + m = dimension <=> m = due
    BY <1>5, <1>10
  <1> HIDE DEF n
  <1>12. ASSUME m # due PROVE Due' \in 1 .. file.n /\ r.start[Due' + 1] = r.start[Due'] + sample_size
    <2>1. m \in 0 .. due /\ m + 1 \in 0 .. due /\ Due' \in 1 .. file.n
      BY <1>5, <1>7, <1>10, <1>12
    <2>2. r.start[Due + m] = r.start[Due] + m * sample_size
      BY <1>5, <2>1
    <2>3. r.start[Due + (m + 1)] = r.start[Due] + (m + 1) * sample_size
      BY <1>5, <2>1, Zenon
    <2>4. (m + 1) * sample_size = m * sample_size + sample_size /\ m * sample_size \in Nat
      BY <1>5, <1>10, Products
    <2>5. Due' + 1 = Due + (m + 1)
      BY <1>7, <1>10
    <2>6. Due' = Due + m
      BY <1>7
    <2>7. r.start[Due] \in Nat
      BY <1>8
    <2>8. r.start[Due + (m + 1)] = r.start[Due + m] + sample_size
      BY <1>5, <2>2, <2>3, <2>4, <2>7
    <2>9. r.start[Due' + 1] = r.start[Due + (m + 1)]
      BY <2>5
    <2> QED
      BY <2>1, <2>6, <2>8, <2>9
  <1>13. ASSUME Due' \in 1 .. file.n PROVE r.start[Due' + 1] > r.base[s]
    <2>1. r.start[Due'] \in Nat /\ r.start[Due' + 1] \in Nat /\ r.start[Due'] < r.start[Due' + 1]
      BY <1>13, StartsRise
    <2>2. CASE m = 0
      <3>1. Due' = Due
        BY <1>7, <1>10, <2>2
      <3> QED
        BY <1>8, <3>1
    <2>3. CASE m # 0
      <3>1. r.start[Due'] >= r.start[Due + 1] /\ r.start[Due + 1] \in Nat
        <4>1. 1 \in 0 .. due /\ m \in 0 .. due /\ 1 <= m
          BY <1>5, <1>10, <2>3
        <4>2. r.start[Due + 1] = r.start[Due] + 1 * sample_size /\ r.start[Due + m] = r.start[Due] + m * sample_size
          BY <1>5, <4>1
        <4>3. 1 * sample_size <= m * sample_size /\ 1 * sample_size \in Nat /\ m * sample_size \in Nat
          BY <1>5, <1>10, <4>1, Products
        <4> QED
          BY <1>7, <1>8, <4>2, <4>3
      <3> QED
        BY <1>8, <2>1, <3>1
    <2> QED
      BY <2>2, <2>3
  <1>14. CASE m = due
    <2>1. channel_read(n) /\ UNCHANGED <<pc, unparsed_buff>> /\ cursor' = next_channel
          /\ lines' = [lines EXCEPT ![cursor] = @ + 1]
      BY <1>6, <1>11, <1>14 DEF channel_read, n
    <2>2. UpToDue(r)' /\ InRow(r)' /\ (Sampling(r)' <=> next_channel # 0)
      <3>1. parsing' = cursor /\ parsing_value_cnt' = dimension /\ Due' = Due + due
        BY <1>5, <1>6, <1>7, <1>11, <1>14
      <3> QED
        BY <1>2, <1>3, <1>4, <1>7, <1>10, <2>1, <3>1, LeavesRun DEF eflr
    <2>3. PutAside(r)' /\ aside' = 0 /\ unparsed_buff' = <<>>
      <3>1. unparsed_buff' = <<>>
        BY <1>4, <2>1 DEF aside, TypeOK, RingTypes
      <3> QED
        BY <3>1, NothingAside
    <2>4. ASSUME NEW k \in Nat, k <= avail, InSegment(k), Reached(r, v, s)'
          PROVE  Parsed(r, v, s)'
      <3>1. InBodyStep(k)
        BY <1>2, <1>3, <2>4 DEF InBodyStep
      <3>2. anomalies' = {}
        BY <1>2, <2>4, <3>1, MovesInBody
      <3> QED
        BY <1>2, <1>3, <2>1, <2>2, <2>3, <2>4, <3>2, NotStarved, GoingOn DEF input
    <2>5. CASE next_channel = 0
      <3>1. InSegment(body_left) /\ code' = "TRAILING"
        BY <2>1, <2>5 DEF channel_read
      <3>2. InBodyStep(body_left)
        BY <1>2, <1>3, <3>1 DEF InBodyStep
      <3>3. r.start[Due'] = BodyEnd(r, s)
        <4>1. Due' = Due + due
          BY <1>7, <1>14
        <4> QED
          BY <1>2, <1>7, <2>5, <4>1, RowEndsBody
      <3>4. body_left <= avail /\ StreamAt(r, s) + body_left = BodyEnd(r, s)
        BY <1>7, <1>8, <1>9, <3>3
      <3>5. r.start[Due'] + aside' = BodyEnd(r, s)
        BY <1>8, <2>3, <3>3
      <3>6. Reached(r, v, s)'
        BY <1>2, <1>9, <3>1, <3>2, <3>4, <3>5, BodyEnds
      <3> QED
        BY <1>9, <2>4, <3>1, <3>4, <3>6
    <2>6. CASE next_channel # 0 /\ n >= body_left
      <3>1. InSegment(n) /\ code' = "TRAILING"
        BY <2>1, <2>6 DEF channel_read
      <3>2. InBodyStep(n)
        BY <1>2, <1>3, <3>1 DEF InBodyStep
      <3>3. StreamAt(r, s) + n = BodyEnd(r, s)
        BY <1>7, <1>8, <1>9, <1>16, <2>6
      <3>4. r.start[Due'] + aside' = BodyEnd(r, s)
        BY <1>7, <1>8, <2>3, <3>3
      <3>5. Reached(r, v, s)'
        BY <1>2, <1>7, <3>1, <3>2, <3>3, <3>4, BodyEnds
      <3> QED
        BY <1>7, <2>4, <3>1, <3>5
    <2>7. CASE next_channel # 0 /\ ~(n >= body_left)
      <3>1. InSegment(n) /\ code' = "IFLR_DATA"
        BY <1>2, <2>1, <2>7 DEF channel_read
      <3>2. InBodyStep(n)
        BY <1>2, <1>3, <3>1 DEF InBodyStep
      <3>3. Due' \in 1 .. file.n
        BY <1>5, <1>7, <1>10, <1>14, <2>7
      <3>4. r.start[Due' + 1] > r.base[s]
        BY <1>13, <3>3
      <3>5. Reached(r, v, s)'
        BY <1>2, <1>7, <2>2, <2>3, <2>7, <3>1, <3>2, <3>4, SampleNext
      <3> QED
        BY <1>7, <2>4, <3>1, <3>5
    <2> QED
      BY <2>5, <2>6, <2>7
  <1>15. CASE m # due
    <2>1. channel_not_read(n) /\ UNCHANGED <<lines, cursor>>
      BY <1>6, <1>11, <1>15 DEF channel_not_read, n
    <2>2. UpToDue(r)' /\ InRow(r)' /\ Sampling(r)'
      BY <1>2, <1>3, <1>4, <1>5, <1>6, <1>7, <1>10, <1>15, <2>1, StaysInRun DEF eflr
    <2>3. /\ Due' \in 1 .. file.n /\ r.start[Due' + 1] = r.start[Due'] + sample_size
          /\ r.start[Due' + 1] > r.base[s]
      BY <1>12, <1>13, <1>15
    <2>4. n + sample_size > readable /\ readable = Least(avail, body_left)
      <3>1. (m + 1) * sample_size > readable
        BY <1>5, <1>6, <1>10, <1>15 DEF reads_samples
      <3>2. (m + 1) * sample_size = m * sample_size + sample_size
        BY <1>5, <1>10, Products
      <3> QED
        BY <1>2, <3>1, <3>2 DEF readable, n
    <2>5. StreamAt(r, s) + avail < r.start[Due' + 1] \/ BodyEnd(r, s) < r.start[Due' + 1]
      <3>1. r.start[Due' + 1] \in Nat
        BY <1>5, <1>16, <2>3
      <3>4. /\ r.start[Due' + 1] = StreamAt(r, s) + (n + sample_size) /\ n \in Nat /\ sample_size \in Nat
            /\ StreamAt(r, s) \in Nat
        <4>1. sample_size \in Nat /\ n \in Nat /\ StreamAt(r, s) \in Nat
          BY <1>5, <1>7, <1>8
        <4>2. r.start[Due' + 1] = r.start[Due'] + sample_size /\ r.start[Due'] = StreamAt(r, s) + n
          BY <1>7, <2>3
        <4> QED
          BY <4>1, <4>2
      <3>5. /\ avail \in Nat /\ body_left \in Nat /\ body_left = BodyEnd(r, s) - StreamAt(r, s)
            /\ BodyEnd(r, s) \in Nat
        BY <1>8, <1>9
      <3>2. CASE avail < body_left
        <4>1. n + sample_size > avail
          BY <2>4, <3>2 DEF Least
        <4> QED
          BY <3>4, <3>5, <4>1
      <3>3. CASE ~(avail < body_left)
        <4>1. n + sample_size > body_left
          BY <2>4, <3>3 DEF Least
        <4> QED
          BY <3>4, <3>5, <4>1
      <3> QED
        BY <3>2, <3>3
    <2>6. CASE avail <= remain
      <3>1. await_block /\ InSegment(n) /\ UNCHANGED <<code, unparsed_buff>>
        BY <1>9, <2>1, <2>6, ViewTypes DEF channel_not_read
      <3>2. PutAside(r)' /\ aside' = 0
        <4>1. unparsed_buff' = <<>>
          BY <1>4, <3>1 DEF aside, TypeOK, RingTypes
        <4> QED
          BY <4>1, NothingAside
      <3>3. InBodyStep(n)
        BY <1>2, <1>3, <3>1 DEF InBodyStep
      <3>4. anomalies' = {}
        BY <1>2, <1>7, <3>3, MovesInBody
      <3>5. Reached(r, v, s)'
        BY <1>2, <1>7, <2>2, <2>3, <3>1, <3>2, <3>3, SampleNext
      <3>6. fed < Len(file.cells)
        BY <1>8, <2>3, <2>5, <2>6, Hungry
      <3>7. Starved'
        BY <1>2, <1>3, <3>6, StarvedNext
      <3>8. pc' \in {"read", "parse"}
        BY <3>1 DEF await_block
      <3> QED
        BY <1>2, <1>3, <2>2, <3>2, <3>4, <3>5, <3>7, <3>8, GoingOn
    <2>7. CASE ~(avail <= remain)
      <3>1. lrs_skip_unparsed_buff(n) /\ code' = "TRAILING"
        BY <2>1, <2>7 DEF channel_not_read
      <3>2. comp_byte = 0
        BY <1>2 DEF comp_byte
      <3>3. avail >= body_left
        BY <1>9, <2>7
      <3>4. r.start[Due' + 1] > BodyEnd(r, s)
        <4>1. r.start[Due' + 1] \in Nat
          BY <1>5, <1>16, <2>3
        <4> QED
          BY <1>8, <1>9, <2>5, <3>3, <4>1
      <3>5. r.start[Due'] = StreamAt(r, s) + n /\ r.start[Due'] <= BodyEnd(r, s)
        BY <1>7
      <3> QED
        BY <1>2, <1>3, <1>7, <2>2, <2>3, <3>1, <3>2, <3>3, <3>4, <3>5, SkipsBody
    <2> QED
      BY <2>6, <2>7
  <1> QED
    BY <1>14, <1>15
=============================================================================
