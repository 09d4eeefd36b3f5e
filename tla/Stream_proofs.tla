---------------------------- MODULE Stream_proofs ----------------------------
(***************************************************************************)
(* The parser hands over every item of a well-formed file, once, whole and *)
(* in order, for all block sizes, buffers and ways to cut the items into   *)
(* segments and records that WellFormed admits: the handlers of headers    *)
(* and trailing bytes, dlis_read, the invariant, and what follows from it. *)
(***************************************************************************)
EXTENDS Body_proofs

-----------------------------------------------------------------------------
(* The header of a segment. *)

\* What was put aside is read in front of the body of the next segment.
LEMMA Splices ==
  ASSUME TypeOK, Window, NEW r, WellFormed(r, file), PutAside(r), Outside, avail >= LRS_HEADER_LEN,
         NEW t \in Segments(file), Here = t, r.base[t] = r.start[Due] + aside, UpToDue(r),
         buffer' = spliced_buffer, byte_idx' = byte_idx + (LRS_HEADER_LEN - aside),
         UNCHANGED <<file, fed, buffer_idx, max_byte_idx, out>>
  PROVE  /\ Here' = body_at(t) - aside /\ Inside(r, t)' /\ StreamAt(r, t)' = r.start[Due]
         /\ aside = 0 => Outside'
  <1>1. /\ avail \in Int /\ Here \in Int /\ fed \in Nat /\ aside \in Nat /\ byte_idx \in Int
        /\ max_byte_idx \in Nat /\ Here = fed + 1 - avail /\ avail = max_byte_idx - byte_idx
        /\ Due' = Due
    BY ViewTypes DEF Due
  <1>2. /\ LRS_HEADER_LEN \in Nat /\ body_at(t) = t + LRS_HEADER_LEN /\ r.base[t] \in Nat /\ t \in Nat
        /\ DLIS_BUFF_SIZE \in Nat /\ max_byte_idx <= DLIS_BUFF_SIZE /\ body_at(t) \in Nat
    BY SegmentFacts, Sizes DEF TypeOK, RingTypes
  <1>3. aside <= byte_idx + LRS_HEADER_LEN /\ body_start = byte_idx + LRS_HEADER_LEN /\ byte_idx >= 0
    BY <1>1 DEF Window, body_start
  <1>4. avail' = avail - LRS_HEADER_LEN + aside /\ Here' = body_at(t) - aside /\ avail' \in Int
    BY <1>1, <1>2 DEF avail, Here
  <1>5. r.start[Due] \in Nat
    <2>1. Due \in 1 .. file.n + 1
      BY <1>1, ViewTypes, CellFacts DEF UpToDue
    <2> QED
      BY <2>1, ReadingTypes
  <1>6. StreamAt(r, t)' = r.start[Due]
    <2>1. StreamAt(r, t)' = r.base[t] + Here' - body_at(t)
      BY DEF StreamAt, body_at
    <2>2. r.base[t] \in Nat /\ r.base[t] = r.start[Due] + aside /\ body_at(t) \in Nat /\ aside \in Nat
      BY <1>1, <1>2
    <2>3. r.base[t] + Here' - body_at(t) = r.start[Due]
      BY <1>4, <1>5, <2>2
    <2> QED
      BY <2>1, <2>3
  <1>7. ASSUME NEW q \in 0 .. avail' - 1
        PROVE  /\ q \in Nat /\ byte_idx' + q = body_start - aside + q
               /\ byte_idx' + q \in 0 .. DLIS_BUFF_SIZE - 1
               /\ Seen(q)' = IF q < aside THEN unparsed_buff[q + 1]
                                          ELSE OffsetAt(byte_idx + (LRS_HEADER_LEN - aside + q))
    <2>1. /\ q \in Nat /\ byte_idx' + q = body_start - aside + q
          /\ byte_idx' + q \in 0 .. DLIS_BUFF_SIZE - 1
      BY <1>1, <1>2, <1>3, <1>4, <1>7
    <2>2. buffer_idx \in 0 .. DLIS_BUFF_NUM - 1 /\ buffer_idx' = buffer_idx
          /\ buffer \in [0 .. DLIS_BUFF_NUM - 1 -> [0 .. DLIS_BUFF_SIZE - 1 -> Offsets]]
      BY DEF TypeOK, RingTypes
    <2> DEFINE i == byte_idx' + q
    <2>3. Seen(q)' = buffer'[buffer_idx][i]
      BY <2>1, <2>2 DEF Seen, OffsetAt
    <2>4. buffer'[buffer_idx][i] = IF i \in body_start - aside .. body_start - 1
                                   THEN unparsed_buff[i - (body_start - aside) + 1]
                                   ELSE buffer[buffer_idx][i]
      <3> HIDE DEF i
      <3> QED
        BY <2>1, <2>2 DEF spliced_buffer, i
    <2>5. OffsetAt(i) = buffer[buffer_idx][i]
      BY <2>1 DEF OffsetAt
    <2>6. i \in body_start - aside .. body_start - 1 <=> q < aside
      BY <1>1, <1>2, <1>3, <2>1
    <2>7. i - (body_start - aside) + 1 = q + 1 /\ i = byte_idx + (LRS_HEADER_LEN - aside + q)
      BY <1>1, <1>2, <1>3, <2>1
    <2> QED
      BY <2>1, <2>3, <2>4, <2>5, <2>6, <2>7
  <1>8. ASSUME NEW q \in 0 .. avail' - 1, q >= aside PROVE Seen(q)' = Here' + q
    <2>1. LRS_HEADER_LEN - aside + q \in 0 .. avail - 1 /\ q \in Nat
      BY <1>1, <1>2, <1>4, <1>8
    <2>2. OffsetAt(byte_idx + (LRS_HEADER_LEN - aside + q)) = Here + (LRS_HEADER_LEN - aside + q)
      BY <2>1 DEF Outside, Seen
    <2>3. Seen(q)' = OffsetAt(byte_idx + (LRS_HEADER_LEN - aside + q))
      BY <1>1, <1>7, <1>8, <2>1
    <2>4. Here + (LRS_HEADER_LEN - aside + q) = (body_at(t) - aside) + q
      BY <1>1, <1>2, <2>1
    <2> QED
      BY <1>4, <2>2, <2>3, <2>4
  <1>9. ASSUME NEW q \in 0 .. avail' - 1, ~(q >= aside)
        PROVE  IsByte(r, file, r.start[Due] + q, CellOf(Seen(q))')
    <2>1. q + 1 \in 1 .. aside /\ q < aside /\ r.start[Due] + (q + 1) - 1 = r.start[Due] + q
      BY <1>1, <1>5, <1>7, <1>9
    <2>2. IsByte(r, file, r.start[Due] + (q + 1) - 1, CellOf(unparsed_buff[q + 1]))
      BY <2>1 DEF PutAside
    <2>3. CellOf(Seen(q))' = CellOf(unparsed_buff[q + 1])
      BY <1>7, <2>1 DEF CellOf
    <2> QED
      BY <2>1, <2>2, <2>3
  <1>10. Inside(r, t)'
    <2>1. fed' + 1 >= body_at(t)
      BY <1>1, <1>2
    <2>2. ASSUME NEW q \in 0 .. avail' - 1
          PROVE  IF Here' + q >= body_at(t) THEN Seen(q)' = Here' + q
                 ELSE IsByte(r, file', StreamAt(r, t)' + q, CellOf(Seen(q))')
      <3>1. Here' + q >= body_at(t) <=> q >= aside
        <4>1. q \in Int /\ aside \in Nat /\ body_at(t) \in Nat
          BY <1>1, <1>2, <1>4
        <4>2. (body_at(t) - aside) + q >= body_at(t) <=> q >= aside
          BY <4>1
        <4> QED
          BY <1>4, <4>2
      <3> QED
        BY <1>6, <1>8, <1>9, <2>2, <3>1
    <2> QED
      BY <2>1, <2>2 DEF Inside, body_at
  <1>11. aside = 0 => Outside'
    BY <1>7, <1>8 DEF Outside
  <1> QED
    BY <1>4, <1>6, <1>10, <1>11

\* The handler of a body is that of the item due, and the body starts with a byte of it.
LEMMA BodyStarts ==
  ASSUME TypeOK, NEW r, WellFormed(r, file), UpToDue(r), PutAside(r),
         NEW t \in Segments(file), "encrypted" \notin file.cells[t].attr,
         r.base[t] = r.start[Due] + aside
  PROVE  /\ Due \in 1 .. file.n /\ r.start[Due] < BodyEnd(r, t) /\ r.start[Due + 1] > r.base[t]
         /\ LET next == after_lrs_header(file.cells[t].attr)
            IN \/ next = "EFLR_COMP" /\ DueIs(r, ComponentKinds)
               \/ next = "VALUE" /\ DueIs(r, {"value"})
               \/ next = "IFLR_HEADER" /\ DueIs(r, {"header"})
               \/ next = "IFLR_DATA" /\ Sampling(r)
  <1> DEFINE attr == file.cells[t].attr
  <1>1. /\ r.base[t] \in Nat /\ body_len(file, t) \in Nat /\ body_len(file, t) >= 1 /\ aside \in Nat
        /\ BodyEnd(r, t) = r.base[t] + body_len(file, t)
    BY SegmentFacts, ViewTypes DEF BodyEnd
  <1>2. Due \in 1 .. file.n + 1
    BY ViewTypes, CellFacts DEF UpToDue
  <1>3. r.start[Due] \in Nat
    BY <1>2, ReadingTypes
  <1>4. r.start[Due] <= r.base[t] /\ r.start[Due] < r.base[t] + body_len(file, t)
    BY <1>1, <1>3
  <1>5. Due \in 1 .. file.n
    BY <1>2, <1>4, StartsBefore
  <1>6. r.start[Due + 1] > r.base[t]
    <2>1. /\ r.start[Due + 1] = r.start[Due] + r.items[Due].size
          /\ r.items[Due].size \in Nat /\ r.items[Due].size >= 1
      BY <1>5, ReadingTypes
    <2>2. aside > 0 => aside < r.items[Due].size
      BY DEF PutAside
    <2> QED
      BY <1>1, <1>3, <2>1, <2>2
  <1>7. /\ r.items[Due].kind \in EflrKinds <=> "eflr" \in attr
        /\ r.items[Due].kind = "sample" /\ r.start[Due] <= r.base[t] => "succ" \in attr
        /\ r.items[Due].kind = "header" /\ "succ" \in attr => r.place[Due].cursor <= 0
    BY <1>4, <1>5, <1>6, Meets
  <1>8. /\ r.items[Due].kind \in {"set", "object", "attrib", "value", "header", "sample"}
        /\ r.items[Due].kind \in {"set", "object", "attrib"} => r.place[Due].left = 0
        /\ r.items[Due].kind = "value" => r.place[Due].left > 0
        /\ r.items[Due].kind = "sample" => r.place[Due].cursor \in DOMAIN file.chan
    BY <1>5, ItemSteps
  <1>9. r.place[Due].left = attrib_value_cnt /\ r.place[Due].cursor = cursor /\ cursor \in Int
        /\ attrib_value_cnt \in Int
    BY DEF UpToDue, TypeOK, IflrTypes, EflrTypes, Cursors
  <1>10. Due <= file.n
    BY <1>5, CellFacts
  <1>11. cursor \in DOMAIN file.chan => cursor > 0
    <2>1. file.chan \in Seq(Channel)
      BY DEF TypeOK, InputTypes, FileOK, File
    <2> QED
      BY <2>1
  <1> HIDE DEF attr
  <1>12. CASE "eflr" \in attr
    <2>1. r.items[Due].kind \in {"set", "object", "attrib", "value"}
      BY <1>7, <1>12, EflrKindsAre
    <2>2. CASE attrib_value_cnt <= 0
      <3>1. r.items[Due].kind \in ComponentKinds
        BY <1>8, <1>9, <2>1, <2>2, EflrKindsAre
      <3>2. after_lrs_header(attr) = "EFLR_COMP"
        BY <1>12, <2>2 DEF after_lrs_header, attr
      <3> QED
        BY <1>1, <1>4, <1>5, <1>6, <1>10, <3>1, <3>2 DEF DueIs, attr
    <2>3. CASE ~(attrib_value_cnt <= 0)
      <3>1. r.items[Due].kind = "value"
        BY <1>8, <1>9, <2>1, <2>3
      <3>2. after_lrs_header(attr) = "VALUE"
        BY <1>12, <2>3 DEF after_lrs_header, attr
      <3> QED
        BY <1>1, <1>4, <1>5, <1>6, <1>10, <3>1, <3>2 DEF DueIs, attr
    <2> QED
      BY <2>2, <2>3
  <1>13. CASE "eflr" \notin attr
    <2>1. r.items[Due].kind \in {"header", "sample"}
      BY <1>7, <1>8, <1>13, EflrKindsAre
    <2>2. CASE cursor <= 0 \/ "succ" \notin attr
      <3>1. r.items[Due].kind = "header"
        BY <1>4, <1>7, <1>8, <1>9, <1>11, <2>1, <2>2
      <3>2. after_lrs_header(attr) = "IFLR_HEADER"
        BY <1>13, <2>2 DEF after_lrs_header, attr
      <3> QED
        BY <1>1, <1>4, <1>5, <1>6, <1>10, <3>1, <3>2 DEF DueIs, attr
    <2>3. CASE ~(cursor <= 0 \/ "succ" \notin attr)
      <3>1. r.items[Due].kind = "sample"
        BY <1>7, <1>9, <2>1, <2>3
      <3>2. after_lrs_header(attr) = "IFLR_DATA"
        BY <1>13, <2>3 DEF after_lrs_header, attr
      <3> QED
        BY <1>1, <1>4, <1>5, <1>6, <1>10, <3>1, <3>2 DEF DueIs, Sampling, attr
    <2> QED
      BY <2>2, <2>3
  <1> QED
    BY <1>12, <1>13

\* What stands in front of an encrypted segment is whole.
LEMMA EncryptedBetween ==
  ASSUME TypeOK, NEW r, WellFormed(r, file), UpToDue(r), PutAside(r),
         NEW t \in Segments(file), "encrypted" \in file.cells[t].attr,
         r.base[t] = r.start[Due] + aside
  PROVE  aside = 0 /\ r.base[Behind(file, t)] = r.start[Due]
  <1>1. r.base[Behind(file, t)] = r.base[t]
        /\ \A j \in 1 .. file.n : r.base[t] <= r.start[j] \/ r.base[t] >= r.start[j] + r.items[j].size
    BY DEF WellFormed, SegmentWell
  <1>2. aside \in Nat /\ Due \in 1 .. file.n + 1
    BY ViewTypes, CellFacts DEF UpToDue
  <1>3. r.start[Due] \in Nat
    BY <1>2, ReadingTypes
  <1>4. ASSUME aside > 0 PROVE FALSE
    <2>1. Due \in 1 .. file.n /\ aside < r.items[Due].size
      BY <1>2, <1>4, CellFacts DEF PutAside
    <2>2. r.items[Due].size \in Nat
      BY <2>1, ReadingTypes
    <2>3. r.base[t] <= r.start[Due] \/ r.base[t] >= r.start[Due] + r.items[Due].size
      BY <1>1, <2>1
    <2> QED
      BY <1>2, <1>3, <1>4, <2>1, <2>2, <2>3
  <1> QED
    BY <1>1, <1>2, <1>3, <1>4

\* The header of a segment is read, and what was put aside pasted in front of its body.
LEMMA parse_lrs_header_parsed ==
  ASSUME TypeOK, Window, NEW r, WellFormed(r, file), NEW v, NEW s, Parsed(r, v, s), parse_lrs_header
  PROVE  \E t : Parsed(r, v, t)'
  <1>1. /\ pc = "parse" /\ code = "LRS" /\ trailing_len >= 0
        /\ UNCHANGED <<input, buffer_idx, max_byte_idx, switches, nType, eflr, iflr, out, lines>>
    BY DEF parse_lrs_header, Parsing, At
  <1>2. /\ running /\ anomalies = {} /\ UpToDue(r) /\ InRow(r) /\ PutAside(r) /\ Starved
        /\ AtLrs(r, v) /\ GoesOn(r, Here)
    BY <1>1 DEF Parsed, running, Reached
  <1>0. PICK t : t = Here
    OBVIOUS
  <1> DEFINE attr == file.cells[t].attr
  <1>3. /\ t \in Segments(file) /\ InRecord(v, t) /\ Outside /\ r.base[t] = r.start[Due] + aside
    BY <1>0, <1>2 DEF AtLrs, GoesOn
  <1>4. /\ avail \in Nat /\ Here \in Int /\ fed \in Nat /\ aside \in Nat /\ byte_idx \in Int
        /\ max_byte_idx \in Nat /\ Here = fed + 1 - avail /\ avail = max_byte_idx - byte_idx
    BY ViewTypes, NatAvail
  <1>5. /\ t \in Nat /\ t >= 1 /\ Behind(file, t) \in Nat /\ Behind(file, t) <= Len(file.cells) + 1
        /\ LRS_HEADER_LEN \in Nat /\ LRS_HEADER_LEN >= 1 /\ Len(file.cells) \in Nat
        /\ body_at(t) = t + LRS_HEADER_LEN /\ body_at(t) <= Behind(file, t)
        /\ Behind(file, t) = t + file.cells[t].len /\ file.cells[t].len \in Nat
        /\ t \in 1 .. Len(file.cells)
    BY <1>3, SegmentFacts, Sizes, CellFacts
  <1>6. CASE avail < LRS_HEADER_LEN
    <2>1. fed < Len(file.cells)
      BY <1>0, <1>4, <1>5, <1>6
    <2>4. ~(avail >= LRS_HEADER_LEN)
      BY <1>4, <1>5, <1>6
    <2>2. /\ await_block /\ lrs_trail_len' = trailing_len
          /\ UNCHANGED <<code, buffer, byte_idx, record, lrs_attr, unparsed_buff, anomalies>>
      BY <2>4, Zenon DEF parse_lrs_header, Parsing
    <2>3. Parsed(r, v, s)'
      BY <1>1, <2>1, <2>2, Waits DEF await_block, ring, eflr
    <2> QED
      BY <2>3
  <1>7. CASE ~(avail < LRS_HEADER_LEN)
    <2> DEFINE header == CellAt(byte_idx)
    <2>1. header = file.cells[t]
      <3>1. 0 \in 0 .. avail - 1
        BY <1>4, <1>5, <1>7
      <3>2. Seen(0) = Here /\ byte_idx + 0 = byte_idx /\ Here + 0 = Here
        BY <1>3, <1>4, <3>1 DEF Outside
      <3>3. OffsetAt(byte_idx) = t
        BY <1>0, <3>2 DEF Seen
      <3> QED
        BY <1>5, <3>3, CellOfFacts DEF CellAt
    <2>2. /\ buffer' = spliced_buffer /\ unparsed_buff' = <<>>
          /\ byte_idx' = byte_idx + LRS_HEADER_LEN - aside
          /\ noting(header.kind # "lrs" \/ header.ix # 0, "header")
          /\ vr_len' = vr_len + aside /\ vr_byte_cnt' = vr_byte_cnt + LRS_HEADER_LEN
          /\ lrs_len' = file.cells[t].len + aside /\ lrs_byte_cnt' = LRS_HEADER_LEN
          /\ lrs_attr' = attr
          /\ lrs_trail_len' = compute_trailing(body_start, file.cells[t].len - LRS_HEADER_LEN, attr)
          /\ code' = after_lrs_header(attr)
          /\ pc' = IF aside > body_start THEN "overrun" ELSE pc
      <3> HIDE DEF attr
      <3>1. header.attr = attr /\ header.len = file.cells[t].len
        BY <2>1 DEF attr
      <3> QED
        BY <1>7, <3>1 DEF parse_lrs_header
    <2> HIDE DEF attr, header
    <2>3. /\ byte_idx' = byte_idx + (LRS_HEADER_LEN - aside) /\ anomalies' = {}
      <3>1. ~(header.kind # "lrs" \/ header.ix # 0)
        BY <1>3, <2>1 DEF Segments
      <3>2. anomalies' = {}
        BY <1>2, <2>2, <3>1 DEF noting
      <3> QED
        BY <1>4, <1>5, <2>2, <3>2
    <2>4. pc' = "parse" /\ aside <= body_start /\ body_start \in Int
      <3>1. body_start \in Int /\ aside <= body_start
        BY <1>4, <1>5 DEF Window, body_start
      <3> QED
        BY <1>1, <1>4, <2>2, <3>1
    <2>5. UNCHANGED <<file, fed, eof, chunk, nType, out, lines, templt, templt_read_idx,
                      attrib_value_cnt, iflr, buffer_idx, max_byte_idx>>
      BY <1>1 DEF input, eflr
    <2>6. UpToDue(r)' /\ InRow(r)' /\ Due' = Due
      BY <1>2, <2>5, StaysDue
    <2>7. PutAside(r)' /\ aside' = 0
      BY <2>2, NothingAside
    <2>8. Starved'
      BY <1>1, <1>2, <2>4, NotStarved
    <2>9. /\ Here' = body_at(t) - aside /\ Inside(r, t)' /\ StreamAt(r, t)' = r.start[Due]
          /\ aside = 0 => Outside'
      <3>1. Here = t /\ avail >= LRS_HEADER_LEN
        BY <1>0, <1>4, <1>5, <1>7
      <3> QED
        BY <1>2, <1>3, <2>2, <2>3, <2>5, <3>1, Splices
    <2>10. InRecord(v, t)'
      <3>1. vr_len \in Int /\ vr_byte_cnt \in Int
        BY DEF TypeOK, RecordTypes
      <3>2. Here' + vr_len' - vr_byte_cnt' = Here + vr_len - vr_byte_cnt
        <4>1. Here' = t + LRS_HEADER_LEN - aside
          BY <1>4, <1>5, <2>9
        <4>2. vr_len' = vr_len + aside /\ vr_byte_cnt' = vr_byte_cnt + LRS_HEADER_LEN
          BY <2>2
        <4> QED
          BY <1>0, <1>4, <1>5, <3>1, <4>1, <4>2
      <3> QED
        BY <1>3, <2>5, <3>2 DEF InRecord
    <2>11. OfSegment(t)'
      <3>1. Here' + remain' = Behind(file, t)
        <4>1. remain' = file.cells[t].len + aside - LRS_HEADER_LEN
          <5>1. remain' = lrs_len' - lrs_byte_cnt' /\ lrs_len' = file.cells[t].len + aside
                /\ lrs_byte_cnt' = LRS_HEADER_LEN
            BY <2>2, Zenon DEF remain
          <5>2. aside \in Nat /\ LRS_HEADER_LEN \in Nat /\ file.cells[t].len \in Nat
            BY <1>4, <1>5
          <5> QED
            BY <5>1, <5>2
        <4>2. Here' = t + LRS_HEADER_LEN - aside
          BY <1>4, <1>5, <2>9
        <4>3. aside \in Nat /\ t \in Nat /\ LRS_HEADER_LEN \in Nat /\ file.cells[t].len \in Nat
              /\ Behind(file, t) = t + file.cells[t].len
          BY <1>4, <1>5
        <4> HIDE DEF remain
        <4> QED
          BY <4>1, <4>2, <4>3
      <3> QED
        BY <1>3, <2>2, <2>5, <3>1 DEF OfSegment, Behind, Segments, attr
    <2>12. CASE "encrypted" \in attr
      <3>1. code' = "ENCRYPTION_PACKET"
        BY <2>2, <2>12 DEF after_lrs_header
      <3>2. aside = 0 /\ r.base[Behind(file, t)] = r.start[Due]
        BY <1>2, <1>3, <2>12, EncryptedBetween DEF attr
      <3>3. Reached(r, v, t)'
        BY <2>2, <2>5, <2>6, <2>7, <2>9, <2>10, <2>11, <2>12, <3>1, <3>2 DEF Reached, AtCrypt, Behind
      <3> QED
        BY <1>1, <1>2, <2>3, <2>4, <2>5, <2>6, <2>7, <2>8, <3>3, GoingOn
    <2>13. CASE "encrypted" \notin attr
      <3>1. /\ Due \in 1 .. file.n /\ r.start[Due] < BodyEnd(r, t) /\ r.start[Due + 1] > r.base[t]
            /\ \/ code' = "EFLR_COMP" /\ DueIs(r, ComponentKinds)
               \/ code' = "VALUE" /\ DueIs(r, {"value"})
               \/ code' = "IFLR_HEADER" /\ DueIs(r, {"header"})
               \/ code' = "IFLR_DATA" /\ Sampling(r)
        BY <1>2, <1>3, <2>2, <2>13, BodyStarts DEF attr
      <3>2. lrs_trail_len' \in {-1, tail_len(file, t)}
        <4> DEFINE left == file.cells[t].len - LRS_HEADER_LEN
        <4>1. ASSUME max_byte_idx - body_start >= left, "padding" \in file.cells[t].attr
              PROVE  OffsetAt(body_start + left - 1 - fixed_trailing(file.cells[t].attr)) = pad_count_at(file, t)
          <5>1. /\ pad_count_at(file, t) = Behind(file, t) - 1 - fixed_trailing(file.cells[t].attr)
                /\ pad_count_at(file, t) >= body_at(t) /\ fixed_trailing(file.cells[t].attr) \in Nat
            BY <1>3, <2>13, <4>1, PaddingFacts, FixedTrailing DEF attr
          <5> DEFINE q == file.cells[t].len - 1 - fixed_trailing(file.cells[t].attr)
          <5>2. q \in 0 .. avail - 1 /\ Here + q = pad_count_at(file, t)
            <6>1. avail >= file.cells[t].len /\ file.cells[t].len \in Nat /\ avail \in Nat
              <7>1. max_byte_idx - (byte_idx + LRS_HEADER_LEN) >= file.cells[t].len - LRS_HEADER_LEN
                BY <4>1 DEF body_start
              <7> QED
                BY <1>4, <1>5, <7>1
            <6>2. t + file.cells[t].len - 1 - fixed_trailing(file.cells[t].attr) >= t + LRS_HEADER_LEN
                  /\ pad_count_at(file, t) = t + file.cells[t].len - 1 - fixed_trailing(file.cells[t].attr)
              BY <1>5, <5>1
            <6>3. t \in Nat /\ LRS_HEADER_LEN \in Nat /\ fixed_trailing(file.cells[t].attr) \in Nat /\ Here = t
              BY <1>0, <1>5, <5>1
            <6> QED
              BY <6>1, <6>2, <6>3
          <5>3. body_start + left - 1 - fixed_trailing(file.cells[t].attr) = byte_idx + q
            <6>1. byte_idx \in Int /\ LRS_HEADER_LEN \in Nat /\ file.cells[t].len \in Nat
                  /\ fixed_trailing(file.cells[t].attr) \in Nat
              BY <1>4, <1>5, <5>1
            <6> QED
              BY <6>1 DEF body_start
          <5> HIDE DEF q, left
          <5>4. Seen(q) = Here + q
            BY <1>3, <5>2 DEF Outside
          <5> QED
            BY <5>2, <5>3, <5>4 DEF Seen
        <4>2. left \in Int
          BY <1>5
        <4> HIDE DEF left
        <4>3. compute_trailing(body_start, left, file.cells[t].attr) \in {-1, tail_len(file, t)}
          BY <1>3, <2>4, <2>13, <4>1, <4>2, TrailComputed DEF attr
        <4> QED
          BY <2>2, <4>3 DEF left, attr
      <3>3. /\ Due' <= file'.n /\ r.start[Due' + 1] > r.base[t] /\ aside' = 0
            /\ r.start[Due'] < BodyEnd(r, t)' /\ "encrypted" \notin lrs_attr'
            /\ lrs_trail_len' \in {-1, tail_len(file, t)'} /\ r.start[Due] \in Nat
            /\ r.start[Due'] \in Nat /\ BodyEnd(r, t)' \in Nat
        <4>1. BodyEnd(r, t)' = BodyEnd(r, t) /\ tail_len(file, t)' = tail_len(file, t) /\ file' = file
          BY <2>5 DEF BodyEnd, body_len, tail_len, Behind, pad_count_at
        <4>2. Due <= file.n /\ Due \in 1 .. file.n + 1
          BY <3>1, CellFacts
        <4>3. r.start[Due] \in Nat
          BY <4>2, ReadingTypes
        <4>4. BodyEnd(r, t) \in Nat
          BY <1>3, <2>13, SegmentFacts DEF BodyEnd, attr
        <4> QED
          BY <2>2, <2>6, <2>7, <2>13, <3>1, <3>2, <4>1, <4>2, <4>3, <4>4
      <3>4. StreamAt(r, t)' = r.start[Due'] + 0 /\ r.start[Due'] + 0 = r.start[Due']
        BY <2>6, <2>9, <3>3
      <3>5. /\ code' \in {"EFLR_COMP", "VALUE", "IFLR_HEADER", "IFLR_DATA"} /\ ~Fields(code')
            /\ code' = "EFLR_COMP" => DueIs(r, ComponentKinds)'
            /\ code' = "VALUE" => DueIs(r, {"value"})'
            /\ code' = "IFLR_HEADER" => DueIs(r, {"header"})'
            /\ code' = "IFLR_DATA" => Sampling(r)'
        BY <2>5, <2>6, <3>1 DEF Fields, DueIs, Sampling, ComponentKinds
      <3>6. r.start[Due'] <= BodyEnd(r, t)'
        BY <3>3
      <3>7. InBody(r, v, t)'
        <4>1. CASE code' = "EFLR_COMP"
          BY <2>9, <2>10, <2>11, <3>3, <3>4, <3>5, <4>1 DEF InBody
        <4>2. CASE code' = "VALUE"
          BY <2>9, <2>10, <2>11, <3>3, <3>4, <3>5, <4>2 DEF InBody
        <4>3. CASE code' = "IFLR_HEADER"
          BY <2>9, <2>10, <2>11, <3>3, <3>4, <3>5, <4>3 DEF InBody
        <4>4. CASE code' = "IFLR_DATA"
          BY <2>9, <2>10, <2>11, <3>3, <3>4, <3>5, <3>6, <4>4 DEF InBody
        <4> QED
          BY <3>5, <4>1, <4>2, <4>3, <4>4
      <3>8. Reached(r, v, t)'
        BY <3>5, <3>7, InBodyNext DEF BodyCodes, EflrCodes
      <3> QED
        BY <1>1, <1>2, <2>3, <2>4, <2>5, <2>6, <2>7, <2>8, <3>8, GoingOn
    <2> QED
      BY <2>12, <2>13
  <1> QED
    BY <1>6, <1>7

-----------------------------------------------------------------------------
(* The end of a segment, and of a visible record. *)
LEMMA RecordFacts ==
  ASSUME TypeOK, NEW r, WellFormed(r, file), NEW v \in Records(file)
  PROVE  /\ v \in Nat /\ v >= 1 /\ v <= Len(file.cells) /\ file.cells[v].len \in Nat
         /\ Behind(file, v) \in Nat /\ Behind(file, v) = v + file.cells[v].len
         /\ RecordDue(r, file, Behind(file, v))
         /\ \A o \in Segments(file) : v < o /\ o < Behind(file, v) =>
              Behind(file, o) <= Behind(file, v)
         /\ \A o \in Segments(file) : v < o /\ o < Behind(file, v) /\ Behind(file, o) < Behind(file, v) =>
              /\ Behind(file, o) \in Segments(file)
              /\ IsTape(file) => Behind(file, v) - Behind(file, o) > TAPE_LEN
  <1>1. RecordWell(r, file, v)
    BY DEF WellFormed
  <1>2. v \in 1 .. Len(file.cells) /\ file.cells[v].len \in Nat /\ Len(file.cells) \in Nat
    BY CellFacts
  <1>3. v \in Nat /\ Behind(file, v) \in Nat /\ Behind(file, v) = v + file.cells[v].len
    BY <1>2 DEF Behind
  <1> QED
    BY <1>1, <1>2, <1>3 DEF RecordWell

\* Behind a segment comes the next one of the record, or the record is consumed.
LEMMA SegmentEnds ==
  ASSUME TypeOK, NEW r, WellFormed(r, file), NEW v, NEW s, Parsed(r, v, s), pc = "parse", code # "SUL",
         InRecord(v, s), OfSegment(s), Outside, r.base[Behind(file, s)] = r.start[Due] + aside,
         remain >= 0, avail >= remain, counted(remain), anomalies' = {}, code' = next_segment(remain),
         lrs_trail_len' = trailing_len, trailing_len >= 0,
         UNCHANGED <<input, ring, pc, nType, lrs_attr, eflr, iflr, unparsed_buff, out, lines>>
  PROVE  Parsed(r, v, s)'
  <1>1. /\ anomalies = {} /\ UpToDue(r) /\ InRow(r) /\ PutAside(r) /\ Starved /\ running
        /\ nType = IsTape(file)
    BY DEF Parsed, running
  <1>2. PICK b : b = Behind(file, s)
    OBVIOUS
  <1>3. /\ remain \in Nat /\ avail \in Nat /\ Here \in Int /\ byte_idx \in Int
        /\ vr_len \in Int /\ vr_byte_cnt \in Int
    BY ViewTypes DEF TypeOK, RecordTypes
  <1>4. /\ byte_idx' = byte_idx + remain /\ vr_byte_cnt' = vr_byte_cnt + remain /\ vr_len' = vr_len
        /\ file' = file
    BY DEF counted, input
  <1>5. Here' = Here + remain /\ Outside'
    BY <1>3, <1>4, Moves, OutsideMoves
  <1>6. Here' = b
    BY <1>2, <1>5 DEF OfSegment
  <1>7. UpToDue(r)' /\ InRow(r)' /\ Due' = Due /\ PutAside(r)' /\ aside' = aside
    BY <1>1, <1>4, StaysDue, StaysAside DEF eflr, aside
  <1>8. Starved'
    BY <1>1, NotStarved
  <1>9. GoesOn(r, Here)'
    BY <1>2, <1>5, <1>6, <1>7 DEF GoesOn
  <1>10. /\ s \in Segments(file) /\ s \in Nat /\ b \in Nat /\ s < b
    <2>1. s \in Segments(file)
      BY DEF OfSegment
    <2> QED
      BY <1>2, <2>1, SegmentFacts
  <1>11. v \in Records(file) /\ v < s /\ s < Behind(file, v)
    BY DEF InRecord
  <1>12. /\ v \in Nat /\ Behind(file, v) \in Nat /\ RecordDue(r, file, Behind(file, v))
         /\ b <= Behind(file, v)
         /\ b < Behind(file, v) => /\ b \in Segments(file)
                                   /\ IsTape(file) => Behind(file, v) - b > TAPE_LEN
    BY <1>2, <1>10, <1>11, RecordFacts
  <1>13. PICK mark \in {0, TAPE_LEN} : /\ mark = 0 \/ nType
                                       /\ Here + vr_len - vr_byte_cnt = Behind(file, v) - mark
    BY DEF InRecord
  <1>14. mark \in Nat /\ TAPE_LEN \in Nat
    BY Sizes
  <1>15. b + vr_len' - vr_byte_cnt' = Behind(file, v) - mark
    <2>1. b = Here + remain
      BY <1>5, <1>6
    <2> QED
      BY <1>3, <1>4, <1>12, <1>13, <1>14, <2>1
  <1>16. vr_len > vr_byte_cnt + remain <=> b < Behind(file, v) - mark
    BY <1>3, <1>4, <1>10, <1>12, <1>14, <1>15
  <1>17. CASE b < Behind(file, v) - mark
    <2>1. code' = "LRS"
      BY <1>16, <1>17 DEF next_segment
    <2>2. b < Behind(file, v) /\ v < b
      BY <1>10, <1>11, <1>12, <1>14, <1>17
    <2>3. InRecord(v, b)'
      <3>1. b + vr_len' - vr_byte_cnt' = Behind(file, v) - mark /\ (mark = 0 \/ nType') /\ mark \in {0, TAPE_LEN}
        BY <1>13, <1>15
      <3> QED
        BY <1>4, <1>6, <1>11, <2>2, <3>1 DEF InRecord, Behind
    <2>4. AtLrs(r, v)'
      <3>1. b \in Segments(file)
        BY <1>12, <2>2
      <3> QED
        BY <1>4, <1>6, <2>3, <3>1 DEF AtLrs, InRecord, Segments
    <2>5. Reached(r, v, s)'
      BY <1>9, <2>1, <2>4 DEF Reached
    <2> QED
      BY <1>1, <1>4, <1>7, <1>8, <2>5, GoingOn
  <1>18. CASE ~(b < Behind(file, v) - mark)
    <2>1. code' = "VR"
      BY <1>16, <1>18 DEF next_segment
    <2>2. b = Behind(file, v)
      <3>1. CASE mark = 0
        BY <1>10, <1>12, <1>18, <3>1
      <3>2. CASE mark = TAPE_LEN /\ IsTape(file)
        BY <1>10, <1>12, <1>14, <1>18, <3>2
      <3> QED
        BY <1>1, <1>13, <3>1, <3>2
    <2>3. vr_byte_cnt' = vr_len' \/ (nType' /\ vr_byte_cnt' = vr_len' + TAPE_LEN)
      <3>1. vr_byte_cnt' = vr_len' + mark
        <4>1. vr_len' \in Int /\ vr_byte_cnt' \in Int /\ mark \in Nat /\ b \in Nat
          BY <1>3, <1>4, <1>10, <1>14
        <4>2. b + vr_len' - vr_byte_cnt' = b - mark
          BY <1>15, <2>2
        <4>3. PICK x : x = vr_len'
          OBVIOUS
        <4>4. PICK y : y = vr_byte_cnt'
          OBVIOUS
        <4>5. x \in Int /\ y \in Int /\ mark \in Int /\ b \in Int /\ b + x - y = b - mark
          <5>1. x \in Int /\ y \in Int
            BY <4>1, <4>3, <4>4, Zenon
          <5>2. mark \in Int /\ b \in Int
            BY <4>1
          <5>3. b + x - y = b - mark
            BY <4>2, <4>3, <4>4, Zenon
          <5> QED
            BY <5>1, <5>2, <5>3, Zenon
        <4>6. y = x + mark
          BY <4>5
        <4> QED
          BY <4>3, <4>4, <4>6
      <3>2. vr_len' \in Int
        BY <1>3, <1>4
      <3> QED
        BY <1>13, <3>1, <3>2
    <2>4. AtVr(r)'
      BY <1>4, <1>6, <1>12, <2>2, <2>3 DEF AtVr, RecordDue, BehindFile, Records, IsTape
    <2>5. Reached(r, v, s)'
      BY <1>9, <2>1, <2>4 DEF Reached
    <2> QED
      BY <1>1, <1>4, <1>7, <1>8, <2>5, GoingOn
  <1> QED
    BY <1>17, <1>18

\* As long as the segment is not there to its end, there is a block to come.
LEMMA MoreOfSegment ==
  ASSUME TypeOK, NEW r, WellFormed(r, file), NEW s, OfSegment(s), avail < remain
  PROVE  fed < Len(file.cells)
  <1>1. s \in Segments(file) /\ Here + remain = Behind(file, s)
    BY DEF OfSegment
  <1>2. Behind(file, s) \in Nat /\ Behind(file, s) <= Len(file.cells) + 1 /\ Len(file.cells) \in Nat
    BY <1>1, SegmentFacts, CellFacts
  <1>3. avail \in Int /\ remain \in Int /\ Here \in Int /\ fed \in Nat /\ Here = fed + 1 - avail
    BY ViewTypes
  <1> QED
    BY <1>1, <1>2, <1>3

\* The trailing bytes are skipped, to the next segment or record.
LEMMA parse_lrs_trailing_parsed ==
  ASSUME TypeOK, Window, NEW r, WellFormed(r, file), NEW v, NEW s, Parsed(r, v, s), parse_lrs_trailing
  PROVE  Parsed(r, v, s)'
  <1>1. /\ pc = "parse" /\ code = "TRAILING" /\ trailing_len >= 0 /\ lrs_trail_len' = trailing_len
        /\ UNCHANGED <<input, ring, nType, lrs_attr, eflr, iflr, unparsed_buff, out, lines>>
        /\ noting(remain # trailing_len, "trailing")
    BY DEF parse_lrs_trailing, Parsing, At
  <1>2. /\ anomalies = {} /\ AtTrailing(r, v, s) /\ GoesOn(r, Behind(file, s))
    BY <1>1 DEF Parsed, running, Reached
  <1>3. /\ InRecord(v, s) /\ OfSegment(s) /\ Outside /\ r.base[Behind(file, s)] = r.start[Due] + aside
        /\ remain = lrs_trail_len /\ lrs_trail_len >= 0
    BY <1>2 DEF AtTrailing, GoesOn
  <1>4. trailing_len = remain /\ remain >= 0
    BY <1>3 DEF trailing_len
  <1>5. anomalies' = {}
    BY <1>1, <1>2, <1>4 DEF noting
  <1>6. avail \in Int /\ remain \in Int
    BY ViewTypes
  <1>7. CASE avail >= remain
    <2>1. counted(remain) /\ code' = next_segment(remain) /\ UNCHANGED pc
      BY <1>4, <1>6, <1>7 DEF parse_lrs_trailing
    <2> QED
      BY <1>1, <1>3, <1>4, <1>5, <1>7, <2>1, SegmentEnds
  <1>8. CASE ~(avail >= remain)
    <2>1. await_block /\ UNCHANGED <<code, byte_idx, record>>
      BY <1>7, <1>8 DEF parse_lrs_trailing
    <2>2. fed < Len(file.cells)
      BY <1>3, <1>6, <1>8, MoreOfSegment
    <2> QED
      BY <1>1, <1>2, <1>5, <2>1, <2>2, Waits DEF await_block, eflr
  <1> QED
    BY <1>7, <1>8

\* An encrypted segment is skipped.
LEMMA parse_lrs_encryption_packet_parsed ==
  ASSUME TypeOK, Window, NEW r, WellFormed(r, file), NEW v, NEW s, Parsed(r, v, s),
         parse_lrs_encryption_packet
  PROVE  Parsed(r, v, s)'
  <1>1. /\ pc = "parse" /\ code = "ENCRYPTION_PACKET" /\ trailing_len >= 0 /\ lrs_trail_len' = trailing_len
        /\ UNCHANGED <<input, ring, nType, lrs_attr, eflr, iflr, unparsed_buff, out, lines>>
    BY DEF parse_lrs_encryption_packet, Parsing, At
  <1>2. /\ anomalies = {} /\ AtCrypt(r, v, s) /\ Outside /\ aside = 0
        /\ r.base[Behind(file, s)] = r.start[Due]
    BY <1>1 DEF Parsed, running, Reached
  <1>3. InRecord(v, s) /\ OfSegment(s) /\ remain >= 0
    BY <1>1, <1>2 DEF AtCrypt, Window
  <1>4. r.base[Behind(file, s)] = r.start[Due] + aside
    <2>1. r.base[Behind(file, s)] \in Nat
      BY <1>3, SegmentFacts DEF OfSegment
    <2> QED
      BY <1>2, <2>1
  <1>6. avail \in Int /\ remain \in Int
    BY ViewTypes
  <1>7. CASE avail >= remain
    <2>1. counted(remain) /\ code' = next_segment(remain) /\ UNCHANGED pc
      BY <1>3, <1>6, <1>7 DEF parse_lrs_encryption_packet
    <2>2. anomalies' = {}
      BY <1>2 DEF parse_lrs_encryption_packet
    <2> QED
      BY <1>1, <1>2, <1>3, <1>4, <1>7, <2>1, <2>2, SegmentEnds
  <1>8. CASE ~(avail >= remain)
    <2>1. await_block /\ UNCHANGED <<code, byte_idx, record, anomalies>>
      BY <1>3, <1>6, <1>7, <1>8 DEF parse_lrs_encryption_packet
    <2>2. fed < Len(file.cells)
      BY <1>3, <1>6, <1>8, MoreOfSegment
    <2> QED
      BY <1>1, <2>1, <2>2, Waits DEF await_block, eflr
  <1> QED
    BY <1>7, <1>8

-----------------------------------------------------------------------------
(* The header of a visible record. *)
LEMMA Modulo ==
  ASSUME NEW T \in Nat, T >= 1
  PROVE  /\ 0 % T = 0 /\ T % T = 0
         /\ \A j \in 1 .. T - 1 : j % T # 0
  <1>1. 0 % T = 0
    OBVIOUS
  <1>2. T % T = 0
    OBVIOUS
  <1>3. ASSUME NEW j \in 1 .. T - 1 PROVE j % T # 0
    OBVIOUS
  <1> QED
    BY <1>1, <1>2, <1>3

\* A VR header is seen where the cell is one, and only there.
LEMMA SeesHeaders ==
  ASSUME TypeOK, Outside, NEW q \in 0 .. avail - 1, Here + q \in 1 .. Len(file.cells)
  PROVE  /\ CellAt(byte_idx + q) = file.cells[Here + q]
         /\ is_vr_header(byte_idx + q) <=> Here + q \in Records(file)
  <1>1. Seen(q) = Here + q
    BY DEF Outside
  <1>2. CellAt(byte_idx + q) = file.cells[Here + q]
    BY <1>1, CellOfFacts DEF CellAt, Seen
  <1>3. Here + q \in DOMAIN file.cells
    BY CellFacts
  <1> QED
    BY <1>2, <1>3 DEF is_vr_header, Records

\* The next VR header is d bytes on, behind the mark of a tape image, and found only there.
LEMMA HeaderAhead ==
  ASSUME TypeOK, Window, NEW r, WellFormed(r, file), Outside, RecordDue(r, file, Here),
         nType = IsTape(file), Here # BehindFile(file)
  PROVE  \E d \in {0, TAPE_LEN} :
           /\ d = 0 \/ nType
           /\ Here + d \in Records(file) /\ r.base[Here + d] = r.base[Here]
           /\ Here + d + VR_HEADER_LEN \in Segments(file)
           /\ Here + d + VR_HEADER_LEN < Behind(file, Here + d)
           /\ r.base[Here + d + VR_HEADER_LEN] = r.base[Here + d]
           /\ d + VR_HEADER_LEN <= marker_due
           /\ \A n \in 0 .. avail : vr_header_at(n) <=> n = d /\ avail >= d + VR_HEADER_LEN
  <1>1. /\ avail \in Nat /\ Here \in Int /\ byte_idx \in Int
        /\ VR_HEADER_LEN \in Nat /\ TAPE_LEN \in Nat /\ TAPE_LEN >= 1 /\ VR_HEADER_LEN >= 1
    BY NatAvail, ViewTypes, Sizes, GeometryAssumption
  <1>2. PICK d \in {0, TAPE_LEN} :
          /\ d = 0 \/ nType
          /\ Here + d \in Records(file) /\ r.base[Here + d] = r.base[Here]
          /\ d # 0 => Here \in DOMAIN file.cells \ Records(file)
    <2>1. CASE Here \in Records(file)
      <3>1. Here + 0 = Here
        BY <1>1
      <3> QED
        BY <2>1, <3>1
    <2>2. CASE Here \notin Records(file)
      BY <2>2 DEF RecordDue
    <2> QED
      BY <2>1, <2>2
  <1>3. d \in Nat
    BY <1>1
  <1>4. PICK w : w = Here + d
    OBVIOUS
  <1>5. /\ w + VR_HEADER_LEN \in Segments(file) /\ r.base[w + VR_HEADER_LEN] = r.base[w]
        /\ w + VR_HEADER_LEN < Behind(file, w)
    BY <1>2, <1>4 DEF WellFormed, RecordWell
  <1>6. d + VR_HEADER_LEN <= marker_due
    BY <1>1, <1>2 DEF marker_due
  <1>7. w \in 1 .. Len(file.cells) /\ Len(file.cells) \in Nat
    BY <1>2, <1>4, CellFacts
  <1>8. ASSUME avail >= d + VR_HEADER_LEN PROVE vr_header_at(d)
    <2>1. d \in 0 .. avail - 1
      BY <1>1, <1>3, <1>8
    <2>2. is_vr_header(byte_idx + d)
      BY <1>2, <1>4, <1>7, <2>1, SeesHeaders
    <2>3. tape_blocks(d)
      <3>1. CASE d = 0
        <4>1. 0 % TAPE_LEN = 0
          BY <1>1, Modulo
        <4>2. \A j \in 0 .. 0 - 1 : FALSE
          OBVIOUS
        <4> QED
          BY <3>1, <4>1, <4>2 DEF tape_blocks
      <3>2. CASE d # 0
        <4>1. d = TAPE_LEN /\ nType /\ Here \in 1 .. Len(file.cells) /\ Here \notin Records(file)
          BY <1>2, <3>2, CellFacts
        <4>2. TAPE_LEN % TAPE_LEN = 0 /\ \A j \in 1 .. TAPE_LEN - 1 : j % TAPE_LEN # 0
          BY <1>1, Modulo
        <4>3. ~is_vr_header(byte_idx + 0)
          <5>1. 0 \in 0 .. avail - 1 /\ Here + 0 = Here
            BY <1>1, <2>1
          <5> QED
            BY <4>1, <5>1, SeesHeaders
        <4>4. ASSUME NEW j \in 0 .. TAPE_LEN - 1, j % TAPE_LEN = 0 PROVE ~is_vr_header(byte_idx + j)
          <5>1. j = 0
            BY <1>1, <4>2, <4>4
          <5> QED
            BY <4>3, <5>1
        <4> QED
          BY <4>1, <4>2, <4>4 DEF tape_blocks
      <3> QED
        BY <3>1, <3>2
    <2> QED
      BY <1>8, <2>2, <2>3 DEF vr_header_at
  <1>9. ASSUME NEW n \in 0 .. avail, vr_header_at(n), n < d PROVE FALSE
    <2>1. d = TAPE_LEN /\ nType /\ Here \in 1 .. Len(file.cells) /\ Here \notin Records(file)
      BY <1>2, <1>3, <1>9, CellFacts
    <2>2. n % TAPE_LEN = 0
      BY <1>9, <2>1 DEF vr_header_at, tape_blocks
    <2>3. n = 0
      <3>1. n \in 1 .. TAPE_LEN - 1 \/ n = 0
        BY <1>1, <1>9, <2>1
      <3>2. \A j \in 1 .. TAPE_LEN - 1 : j % TAPE_LEN # 0
        BY <1>1, Modulo
      <3> QED
        BY <2>2, <3>1, <3>2
    <2>4. 0 \in 0 .. avail - 1 /\ Here + 0 = Here
      BY <1>1, <1>9, <2>3 DEF vr_header_at
    <2>5. ~is_vr_header(byte_idx + 0)
      BY <2>1, <2>4, SeesHeaders
    <2> QED
      BY <1>9, <2>3, <2>5 DEF vr_header_at
  <1>10. ASSUME NEW n \in 0 .. avail, vr_header_at(n), n > d PROVE FALSE
    <2>1. nType /\ tape_blocks(n)
      BY <1>1, <1>3, <1>10 DEF vr_header_at, tape_blocks
    <2>2. d \in 0 .. n - 1 /\ d \in 0 .. avail - 1
      BY <1>1, <1>3, <1>10
    <2>3. d % TAPE_LEN = 0
      BY <1>1, Modulo
    <2>4. ~is_vr_header(byte_idx + d)
      BY <2>1, <2>2, <2>3 DEF tape_blocks
    <2>5. is_vr_header(byte_idx + d)
      BY <1>2, <1>4, <1>7, <2>2, SeesHeaders
    <2> QED
      BY <2>4, <2>5
  <1>11. ASSUME NEW n \in 0 .. avail PROVE vr_header_at(n) <=> n = d /\ avail >= d + VR_HEADER_LEN
    <2>1. ASSUME vr_header_at(n) PROVE n = d /\ avail >= d + VR_HEADER_LEN
      <3>1. n = d
        BY <1>1, <1>3, <1>9, <1>10, <1>11, <2>1
      <3>2. avail >= n + VR_HEADER_LEN
        BY <2>1 DEF vr_header_at
      <3> QED
        BY <3>1, <3>2
    <2>2. ASSUME n = d, avail >= d + VR_HEADER_LEN PROVE vr_header_at(n)
      BY <1>8, <2>2
    <2> QED
      BY <2>1, <2>2
  <1> QED
    BY <1>2, <1>4, <1>5, <1>6, <1>11

\* The header of a visible record is found where it is due, on a tape image behind a mark.
LEMMA parse_vr_header_parsed ==
  ASSUME TypeOK, Window, NEW r, WellFormed(r, file), NEW v, NEW s, Parsed(r, v, s), parse_vr_header
  PROVE  \E w : Parsed(r, w, s)'
  <1>1. /\ pc = "parse" /\ code = "VR" /\ trailing_len >= 0 /\ lrs_trail_len' = trailing_len
        /\ UNCHANGED <<input, ring, nType, lrs_attr, eflr, iflr, unparsed_buff, out, lines>>
    BY DEF parse_vr_header, Parsing, At
  <1>2. /\ anomalies = {} /\ UpToDue(r) /\ InRow(r) /\ PutAside(r) /\ Starved /\ running
        /\ nType = IsTape(file) /\ AtVr(r) /\ GoesOn(r, Here)
    BY <1>1 DEF Parsed, running, Reached
  <1>3. RecordDue(r, file, Here) /\ Outside /\ r.base[Here] = r.start[Due] + aside
    BY <1>2 DEF AtVr, GoesOn
  <1>4. /\ avail \in Nat /\ Here \in Int /\ fed \in 0 .. Len(file.cells) /\ byte_idx \in Int
        /\ Len(file.cells) \in Nat /\ BehindFile(file) = Len(file.cells) + 1 /\ Here = fed + 1 - avail
        /\ VR_HEADER_LEN \in Nat /\ TAPE_LEN \in Nat /\ TAPE_LEN >= 1 /\ VR_HEADER_LEN >= 1
    BY NatAvail, ViewTypes, CellFacts, Sizes, GeometryAssumption
  <1>5. ASSUME \A n \in 0 .. avail : ~vr_header_at(n), avail < marker_due,
               fed < Len(file.cells) \/ Here = BehindFile(file)
        PROVE  \E w : Parsed(r, w, s)'
    <2>1. /\ await_block /\ noting(avail >= marker_due, "marker")
          /\ UNCHANGED <<code, byte_idx, record>>
      BY <1>5 DEF parse_vr_header
    <2>2. marker_due \in Nat
      BY <1>4 DEF marker_due
    <2>3. anomalies' = {}
      BY <1>2, <1>4, <1>5, <2>1, <2>2 DEF noting
    <2>4. Parsed(r, v, s)'
      BY <1>1, <1>2, <1>5, <2>1, <2>3, Waits DEF await_block, eflr
    <2> QED
      BY <2>4
  <1>6. CASE Here = BehindFile(file)
    <2>1. avail = 0
      BY <1>4, <1>6
    <2>2. \A n \in 0 .. avail : ~vr_header_at(n)
      BY <1>4, <2>1 DEF vr_header_at
    <2>3. avail < marker_due
      BY <1>4, <2>1 DEF marker_due
    <2> QED
      BY <1>5, <1>6, <2>2, <2>3
  <1>7. CASE Here # BehindFile(file)
    <2>1. PICK d \in {0, TAPE_LEN} :
           /\ d = 0 \/ nType
           /\ Here + d \in Records(file) /\ r.base[Here + d] = r.base[Here]
           /\ Here + d + VR_HEADER_LEN \in Segments(file)
           /\ Here + d + VR_HEADER_LEN < Behind(file, Here + d)
           /\ r.base[Here + d + VR_HEADER_LEN] = r.base[Here + d]
           /\ d + VR_HEADER_LEN <= marker_due
           /\ \A n \in 0 .. avail : vr_header_at(n) <=> n = d /\ avail >= d + VR_HEADER_LEN
      BY <1>2, <1>3, <1>7, HeaderAhead
    <2>2. d \in Nat
      BY <1>4
    <2>3. PICK w : w = Here + d
      OBVIOUS
    <2>4. PICK a : a = w + VR_HEADER_LEN
      OBVIOUS
    <2>5. /\ w \in Records(file) /\ a \in Segments(file) /\ a < Behind(file, w)
          /\ r.base[a] = r.base[Here]
      BY <2>1, <2>3, <2>4
    <2>6. w \in 1 .. Len(file.cells) /\ a \in 1 .. Len(file.cells) /\ w < a
          /\ file.cells[w].len \in Nat /\ Behind(file, w) = w + file.cells[w].len
      <3>1. w \in 1 .. Len(file.cells) /\ a \in 1 .. Len(file.cells) /\ file.cells[w].len \in Nat
        BY <2>5, CellFacts
      <3> QED
        BY <1>4, <2>4, <3>1 DEF Behind
    <2>7. CASE avail < d + VR_HEADER_LEN
      <3>1. \A n \in 0 .. avail : ~vr_header_at(n)
        BY <1>4, <2>1, <2>2, <2>7
      <3>2. avail < marker_due
        <4>1. marker_due \in Nat
          BY <1>4 DEF marker_due
        <4> QED
          BY <1>4, <2>1, <2>2, <2>7, <4>1
      <3>3. fed < Len(file.cells)
        BY <1>4, <2>2, <2>3, <2>4, <2>6, <2>7
      <3> QED
        BY <1>5, <3>1, <3>2, <3>3
    <2>8. CASE ~(avail < d + VR_HEADER_LEN)
      <3>1. d \in 0 .. avail /\ d \in 0 .. avail - 1 /\ vr_header_at(d)
        <4>1. d \in 0 .. avail /\ d \in 0 .. avail - 1 /\ avail >= d + VR_HEADER_LEN
          BY <1>4, <2>2, <2>8
        <4> QED
          BY <2>1, <4>1
      <3>2. /\ Advance(d + VR_HEADER_LEN) /\ vr_len' = CellAt(byte_idx + d).len
            /\ vr_byte_cnt' = d + VR_HEADER_LEN /\ lrs_len' = 0 /\ lrs_byte_cnt' = 0
            /\ code' = "LRS" /\ UNCHANGED pc
        <4>1. PICK n \in 0 .. avail :
                /\ vr_header_at(n) /\ Advance(n + VR_HEADER_LEN) /\ vr_len' = CellAt(byte_idx + n).len
                /\ vr_byte_cnt' = n + VR_HEADER_LEN /\ lrs_len' = 0 /\ lrs_byte_cnt' = 0
                /\ code' = "LRS" /\ UNCHANGED pc
          BY <3>1 DEF parse_vr_header
        <4>2. n = d
          BY <2>1, <4>1
        <4> QED
          BY <4>1, <4>2
      <3>3. vr_len' = file.cells[w].len
        <4>1. Here + d \in 1 .. Len(file.cells)
          BY <2>3, <2>6
        <4>2. CellAt(byte_idx + d) = file.cells[Here + d]
          BY <1>3, <3>1, <4>1, SeesHeaders
        <4> QED
          BY <2>3, <3>2, <4>2
      <3>4. byte_idx' = byte_idx + (d + VR_HEADER_LEN) /\ anomalies' = {} /\ d + VR_HEADER_LEN \in Nat
        <4>1. ~(d + VR_HEADER_LEN > avail) /\ d + VR_HEADER_LEN \in Nat
          BY <1>4, <2>2, <2>8
        <4> QED
          BY <1>2, <3>2, <4>1 DEF Advance, noting
      <3>5. Here' = a /\ Outside'
        <4>1. Here' = Here + (d + VR_HEADER_LEN) /\ Outside'
          BY <1>1, <1>3, <3>4, Moves, OutsideMoves
        <4> QED
          BY <1>4, <2>2, <2>3, <2>4, <4>1
      <3>6. file' = file /\ nType' = nType
        BY <1>1 DEF input
      <3>7. UpToDue(r)' /\ InRow(r)' /\ Due' = Due /\ PutAside(r)' /\ aside' = aside
        BY <1>1, <1>2, <3>6, StaysDue, StaysAside DEF eflr, aside
      <3>8. Starved'
        BY <1>1, <1>2, <3>2, NotStarved
      <3>9. GoesOn(r, Here)'
        BY <1>1, <1>3, <2>5, <3>5, <3>7 DEF GoesOn
      <3>10. a + vr_len' - vr_byte_cnt' = Behind(file, w) - d
        <4>1. w \in Nat /\ file.cells[w].len \in Nat
          BY <2>6
        <4> QED
          <5>1. vr_byte_cnt' = d + VR_HEADER_LEN
            BY <3>2
          <5>2. VR_HEADER_LEN \in Nat /\ a = w + VR_HEADER_LEN /\ Behind(file, w) = w + file.cells[w].len
            BY <1>4, <2>4, <2>6
          <5> QED
            BY <2>2, <3>3, <4>1, <5>1, <5>2
      <3>11. AtLrs(r, w)'
        <4>1. a \in Segments(file)' /\ w \in Records(file)' /\ Behind(file, w)' = Behind(file, w)
          BY <2>5, <3>6 DEF Segments, Records, Behind
        <4>2. InRecord(w, Here)'
          BY <2>1, <2>5, <2>6, <3>5, <3>6, <3>10, <4>1 DEF InRecord
        <4> QED
          BY <3>5, <4>1, <4>2 DEF AtLrs
      <3>12. Reached(r, w, s)'
        BY <3>2, <3>9, <3>11 DEF Reached
      <3>13. Parsed(r, w, s)'
        BY <1>1, <1>2, <3>2, <3>4, <3>6, <3>7, <3>8, <3>12, GoingOn
      <3> QED
        BY <3>13
    <2> QED
      BY <1>4, <2>2, <2>7, <2>8
  <1> QED
    BY <1>6, <1>7

-----------------------------------------------------------------------------
(* The storage unit label, and what does not depend on where the parser is. *)
LEMMA parse_sul_parsed ==
  ASSUME TypeOK, Window, NEW r, WellFormed(r, file), NEW v, NEW s, Parsed(r, v, s), parse_sul
  PROVE  Parsed(r, v, s)'
  <1>1. /\ pc = "parse" /\ code = "SUL" /\ trailing_len >= 0 /\ lrs_trail_len' = trailing_len
        /\ UNCHANGED <<input, ring, record, lrs_attr, eflr, iflr, unparsed_buff, out, lines>>
    BY DEF parse_sul, Parsing, At
  <1>2. /\ anomalies = {} /\ UpToDue(r) /\ InRow(r) /\ PutAside(r) /\ Starved /\ running
        /\ AtSul(r) /\ Outside
    BY <1>1 DEF Parsed, running, Reached
  <1>3. /\ Here = 1 /\ vr_len = 0 /\ out = <<>> /\ aside = 0
        /\ IsTape(file) => fed = 0 \/ fed >= first_record(file) - 1
    BY <1>2 DEF AtSul
  <1>4. /\ avail \in Nat /\ fed \in Nat /\ byte_idx \in Int /\ Here = fed + 1 - avail
        /\ SUL_LEN \in Nat /\ SUL_LEN >= 1 /\ TAPE_LEN \in Nat /\ TAPE_LEN >= 1
    BY NatAvail, ViewTypes, CellFacts, Sizes, GeometryAssumption
  <1>5. avail = fed
    BY <1>3, <1>4
  <1> DEFINE size == SUL_LEN + (IF IsTape(file) THEN 2 * TAPE_LEN ELSE 0)
             at   == IF IsTape(file) THEN TAPE_LEN ELSE 0
  <1>6. size \in Nat /\ at \in Nat /\ size >= SUL_LEN /\ first_record(file) = size + 1 /\ at < size
    BY <1>4 DEF first_record
  <1>7. /\ 1 \in DOMAIN file.cells /\ at + 1 \in DOMAIN file.cells
        /\ first_record(file) \in Records(file) /\ r.base[first_record(file)] = 0
        /\ file.cells[at + 1].kind = "sul" /\ file.cells[at + 1].ix = 0
    <2>1. at + 1 = IF IsTape(file) THEN TAPE_LEN + 1 ELSE 1
      BY <1>4
    <2> HIDE DEF at
    <2> QED
      BY <2>1 DEF WellFormed, StartsWell
  <1>8. /\ first_record(file) \in 1 .. Len(file.cells) /\ Len(file.cells) \in Nat
        /\ 1 \in 1 .. Len(file.cells) /\ at + 1 \in 1 .. Len(file.cells)
    BY <1>7, CellFacts
  <1> HIDE DEF size, at
  <1>9. CASE avail < SUL_LEN
    <2>1. await_block /\ UNCHANGED <<code, byte_idx, nType, anomalies>>
      BY <1>4, <1>9 DEF parse_sul
    <2>2. fed < Len(file.cells)
      BY <1>4, <1>5, <1>6, <1>8, <1>9
    <2> QED
      BY <1>1, <1>2, <2>1, <2>2, Waits DEF await_block, eflr
  <1>10. CASE ~(avail < SUL_LEN)
    <2>1. size <= avail
      BY <1>3, <1>4, <1>5, <1>6, <1>10 DEF size
    <2>2. at \in 0 .. avail - 1 /\ 0 \in 0 .. avail - 1 /\ Here + at = at + 1 /\ Here + 0 = 1
      BY <1>3, <1>4, <1>6, <2>1
    <2>3. CellAt(byte_idx + at) = file.cells[at + 1] /\ CellAt(byte_idx + 0) = file.cells[1]
      BY <1>2, <1>8, <2>2, SeesHeaders
    <2>4. byte_idx + 0 = byte_idx
      BY <1>4
    <2>5. (CellAt(byte_idx).kind = "tape") = IsTape(file)
      BY <2>3, <2>4 DEF IsTape
    <2>6. /\ nType' = IsTape(file) /\ Advance(size) /\ code' = "VR" /\ UNCHANGED pc
      <3>1. byte_idx + at = IF IsTape(file) THEN byte_idx + TAPE_LEN ELSE byte_idx
        BY <2>4 DEF at
      <3>2. CellAt(byte_idx + at).kind = "sul" /\ CellAt(byte_idx + at).ix = 0
        BY <1>7, <2>3
      <3> QED
        BY <1>10, <2>5, <3>1, <3>2 DEF parse_sul, size
    <2>7. byte_idx' = byte_idx + size /\ anomalies' = {}
      <3>1. ~(size > avail)
        BY <1>4, <1>6, <2>1
      <3> QED
        BY <1>2, <2>6, <3>1 DEF Advance, noting
    <2>8. Here' = first_record(file) /\ Outside'
      <3>1. Here' = Here + size /\ Outside'
        BY <1>1, <1>2, <1>6, <2>7, Moves, OutsideMoves
      <3> QED
        BY <1>3, <1>6, <3>1
    <2>9. file' = file
      BY <1>1 DEF input
    <2>10. UpToDue(r)' /\ InRow(r)' /\ Due' = Due /\ PutAside(r)' /\ aside' = aside
      BY <1>1, <1>2, <2>9, StaysDue, StaysAside DEF eflr, aside
    <2>11. r.start[Due] + aside = 0
      <3>1. Due = 1
        BY <1>3 DEF Due
      <3>2. r.start[1] = 0
        BY ReadingTypes
      <3> QED
        BY <1>3, <3>1, <3>2
    <2>12. GoesOn(r, Here)'
      BY <1>1, <1>7, <2>8, <2>10, <2>11 DEF GoesOn
    <2>13. AtVr(r)'
      <3>1. vr_len' = 0
        BY <1>1, <1>3 DEF record
      <3> QED
        BY <1>7, <2>8, <2>9, <3>1 DEF AtVr, RecordDue, Records
    <2>14. Reached(r, v, s)' /\ Starved'
      BY <1>1, <1>2, <2>6, <2>12, <2>13, NotStarved DEF Reached
    <2> QED
      BY <1>1, <2>6, <2>7, <2>9, <2>10, <2>14 DEF Parsed, IsTape
  <1> QED
    BY <1>9, <1>10

\* The padding count of a body can be missing only while the segment is not there to its end.
LEMMA await_padding_parsed ==
  ASSUME TypeOK, Window, NEW r, WellFormed(r, file), NEW v, NEW s, Parsed(r, v, s), await_padding
  PROVE  Parsed(r, v, s)'
  <1>1. /\ pc = "parse" /\ trailing_len < 0 /\ pc' = "read"
        /\ UNCHANGED <<input, ring, byte_idx, nType, code, record, lrs_attr, lrs_trail_len, eflr,
                       iflr, unparsed_buff, out, lines, anomalies>>
    BY DEF await_padding, await_block
  <1>2. avail < remain /\ ~(lrs_trail_len >= 0)
    <2>1. trailing_len < 0 => avail < remain
      BY ValueTypes
    <2>2. ASSUME lrs_trail_len >= 0 PROVE FALSE
      <3>1. trailing_len = lrs_trail_len /\ lrs_trail_len \in Int
        BY <2>2 DEF trailing_len, TypeOK, RecordTypes
      <3> QED
        BY <1>1, <2>2, <3>1
    <2> QED
      BY <1>1, <2>1, <2>2
  <1>3. Reached(r, v, s)
    BY <1>1 DEF Parsed, running
  <1>4. OfSegment(s)
    <2>1. CASE code \in BodyCodes
      BY <1>3, <2>1, BodyReached DEF InBody
    <2>2. CASE code = "ENCRYPTION_PACKET"
      BY <1>3, <2>2 DEF Reached, AtCrypt
    <2>3. CASE code \in {"SUL", "VR", "LRS", "TRAILING"}
      BY <1>2, <1>3, <2>3 DEF Reached, GoesOn
    <2>4. code \in Codes
      BY DEF TypeOK, RecordTypes
    <2> QED
      BY <2>1, <2>2, <2>3, <2>4 DEF Codes, BodyCodes, EflrCodes
  <1>5. fed < Len(file.cells)
    BY <1>2, <1>4, MoreOfSegment
  <1> QED
    BY <1>1, <1>5, Waits DEF eflr

\* The parser ends when every item has been handed over.
LEMMA Finish_parsed ==
  ASSUME TypeOK, Window, NEW r, WellFormed(r, file), NEW v, NEW s, Parsed(r, v, s), Finish
  PROVE  Parsed(r, v, s)' /\ Len(out) = file.n
  <1>1. /\ pc = "read" /\ eof /\ pc' = "done"
        /\ UNCHANGED <<input, ring, byte_idx, nType, code, record, lrs_attr, lrs_trail_len, eflr,
                       iflr, unparsed_buff, out, lines, anomalies>>
    BY DEF Finish
  <1>2. /\ anomalies = {} /\ UpToDue(r) /\ InRow(r) /\ PutAside(r) /\ Reached(r, v, s) /\ Starved
    BY <1>1 DEF Parsed, running
  <1>3. code = "VR" /\ Here = BehindFile(file)
    <2>1. fed = Len(file.cells) /\ Len(file.cells) \in Nat
      BY <1>1, <1>2, CellFacts DEF Starved
    <2> QED
      BY <1>1, <1>2, <2>1 DEF Starved
  <1>4. r.base[Here] = r.start[Due] + aside
    BY <1>2, <1>3 DEF Reached, GoesOn
  <1>5. r.start[file.n + 1] = r.start[Due] + aside
    BY <1>3, <1>4, ReadingTypes
  <1>6. Len(out) \in Nat /\ file.n \in Nat /\ Due = Len(out) + 1 /\ Len(out) <= file.n /\ aside \in Nat
    BY <1>2, ViewTypes, CellFacts DEF UpToDue
  <1>7. Len(out) = file.n
    <2>1. ASSUME Len(out) # file.n PROVE FALSE
      <3>1. Due \in 1 .. file.n /\ Due \in 1 .. file.n + 1 /\ Due + 1 \in 1 .. file.n + 1
        BY <1>6, <2>1
      <3>2. /\ r.start[Due + 1] = r.start[Due] + r.items[Due].size /\ r.items[Due].size \in Nat
            /\ r.items[Due].size >= 1 /\ r.start[Due + 1] <= r.start[file.n + 1]
        BY <3>1, ReadingTypes
      <3>3. r.start[Due] \in Nat
        BY <3>1, ReadingTypes
      <3>4. aside > 0 => aside < r.items[Due].size
        BY <1>2 DEF PutAside
      <3> QED
        BY <1>5, <1>6, <3>2, <3>3, <3>4
    <2> QED
      BY <2>1
  <1>8. UpToDue(r)' /\ InRow(r)'
    BY <1>1, <1>2, StaysDue DEF input, eflr
  <1> QED
    BY <1>1, <1>2, <1>7, <1>8 DEF Parsed, running, input

\* A block read moves nothing that the parser stands on.
LEMMA dlis_read_parsed ==
  ASSUME TypeOK, Window, CopiesInBounds', NEW r, WellFormed(r, file), BlocksReach(file),
         NEW v, NEW s, Parsed(r, v, s), dlis_read
  PROVE  Parsed(r, v, s)'
  <1>1. /\ pc = "read" /\ ~eof /\ eof' = (block_len < chunk) /\ pc' \in {"read", "parse", "overrun"}
        /\ UNCHANGED <<file, chunk, nType, code, record, lrs_attr, lrs_trail_len, eflr, iflr,
                       unparsed_buff, out, lines, anomalies>>
    BY DEF dlis_read
  <1>2. /\ anomalies = {} /\ UpToDue(r) /\ InRow(r) /\ PutAside(r) /\ Reached(r, v, s) /\ Starved
        /\ running /\ (code # "SUL" => nType = IsTape(file))
    BY <1>1 DEF Parsed, running
  <1>3. pc' # "overrun"
    BY <1>1, <1>2 DEF CopiesInBounds, Harmless
  <1>4. /\ avail' = avail + block_len /\ Here' = Here /\ block_len \in Nat
        /\ fed' = fed + block_len /\ block_len <= chunk /\ fed' <= Len(file.cells)
        /\ block_len < chunk => fed' = Len(file.cells)
        /\ fed < Len(file.cells) => block_len >= 1
    BY <1>3, ReadMoves
  <1>5. /\ fed \in Nat /\ Len(file.cells) \in Nat /\ avail \in Nat /\ chunk \in Nat /\ chunk \in Chunks
        /\ fed <= Len(file.cells)
    <2>1. fed \in 0 .. Len(file.cells) /\ Len(file.cells) \in Nat
      BY CellFacts
    <2>2. avail \in Nat
      BY NatAvail
    <2>3. chunk \in Chunks
      BY DEF TypeOK, InputTypes
    <2>4. chunk \in Nat
      BY <2>3, GeometryAssumption
    <2> QED
      BY <2>1, <2>2, <2>3, <2>4
  <1>6. UpToDue(r)' /\ InRow(r)' /\ Due' = Due
    BY <1>1, <1>2, StaysDue DEF eflr
  <1>7. PutAside(r)' /\ aside' = aside
    BY <1>1, <1>2, StaysAside DEF aside
  <1>8. Starved'
    <2>1. eof' => fed' = Len(file'.cells)
      BY <1>1, <1>4
    <2>2. ASSUME pc' = "read" PROVE fed' < Len(file'.cells) \/ (code' = "VR" /\ Here' = BehindFile(file'))
      <3>1. first_kept = first_free + block_len
        BY <1>3, <2>2 DEF dlis_read
      <3>2. byte_idx' = first_kept /\ max_byte_idx' = first_free + block_len
        BY <1>3 DEF dlis_read
      <3>3. byte_idx' = max_byte_idx'
        BY <3>1, <3>2
      <3>4. avail' = 0
        <4>1. byte_idx \in Int /\ max_byte_idx \in Int
          BY ViewTypes
        <4>2. first_kept \in Int
          BY <4>1, ViewTypes DEF first_kept, room, aside
        <4> QED
          BY <3>2, <3>3, <4>2 DEF avail
      <3>5. block_len = 0 /\ avail = 0
        BY <1>4, <1>5, <3>4
      <3>6. code = "VR" /\ Here = BehindFile(file)
        BY <1>1, <1>2, <1>4, <1>5, <3>5 DEF Starved
      <3> QED
        BY <1>1, <1>4, <3>6
    <2> QED
      BY <2>1, <2>2 DEF Starved
  <1>9. Reached(r, v, s)'
    <2>1. remain' = remain /\ code' = code /\ lrs_trail_len' = lrs_trail_len /\ file' = file
      BY <1>1 DEF remain, record
    <2>2. Outside => Outside'
      BY <1>3, OutsideReads
    <2>3. InRecord(v, s) => InRecord(v, s)'
      BY <1>1, <1>4 DEF InRecord, record
    <2>4. InRecord(v, Here) => InRecord(v, Here)'
      BY <1>1, <1>4 DEF InRecord, record
    <2>5. OfSegment(s) => OfSegment(s)'
      BY <1>1, <1>4, <2>1 DEF OfSegment
    <2>6. ASSUME NEW o, GoesOn(r, o) PROVE Outside' /\ lrs_trail_len' >= 0 /\ r.base[o] = r.start[Due'] + aside'
      BY <1>6, <1>7, <2>1, <2>2, <2>6 DEF GoesOn
    <2>7. CASE code = "SUL"
      <3>1. AtSul(r) /\ Outside /\ lrs_trail_len >= 0
        BY <1>2, <2>7 DEF Reached
      <3>2. Here' = 1 /\ vr_len' = 0 /\ out' = <<>> /\ aside' = 0
        BY <1>1, <1>4, <1>7, <3>1 DEF AtSul, record
      <3>3. ASSUME IsTape(file') PROVE fed' >= first_record(file') - 1
        <4>1. IsTape(file) /\ first_record(file') = first_record(file)
          BY <1>1, <3>3 DEF IsTape, first_record
        <4>2. first_record(file) \in Records(file) /\ first_record(file) \in Nat
          <5>1. first_record(file) \in Records(file)
            BY DEF WellFormed, StartsWell
          <5> QED
            BY <5>1, CellFacts
        <4>3. first_record(file) <= Len(file.cells)
          BY <4>2, CellFacts
        <4>4. chunk >= first_record(file) - 1
          BY <1>5, <4>1 DEF BlocksReach
        <4>5. fed = 0 \/ fed >= first_record(file) - 1
          BY <3>1, <4>1 DEF AtSul
        <4> DEFINE f1 == first_record(file)  total == Len(file.cells)
        <4>6. f1 \in Nat /\ total \in Nat /\ f1 <= total /\ chunk >= f1 - 1 /\ (fed = 0 \/ fed >= f1 - 1)
          BY <1>5, <4>2, <4>3, <4>4, <4>5
        <4>7. block_len \in Nat /\ fed' = fed + block_len /\ (block_len < chunk => fed' = total) /\ block_len <= chunk
          BY <1>4
        <4> HIDE DEF f1, total
        <4>8. fed' >= f1 - 1
          BY <1>5, <4>6, <4>7
        <4> QED
          BY <4>1, <4>8 DEF f1
      <3> QED
        BY <2>1, <2>2, <2>7, <3>1, <3>2, <3>3 DEF Reached, AtSul
    <2>8. CASE code = "VR"
      <3>1. AtVr(r) /\ GoesOn(r, Here)
        BY <1>2, <2>8 DEF Reached
      <3>2. AtVr(r)'
        BY <1>1, <1>4, <3>1 DEF AtVr, record, RecordDue, Records, IsTape
      <3>3. GoesOn(r, Here)'
        BY <1>4, <2>6, <3>1 DEF GoesOn
      <3> QED
        BY <2>1, <2>8, <3>2, <3>3 DEF Reached
    <2>9. CASE code = "LRS"
      <3>1. AtLrs(r, v) /\ GoesOn(r, Here)
        BY <1>2, <2>9 DEF Reached
      <3>2. AtLrs(r, v)'
        BY <1>4, <2>1, <2>4, <3>1 DEF AtLrs
      <3>3. GoesOn(r, Here)'
        BY <1>4, <2>6, <3>1 DEF GoesOn
      <3> QED
        BY <2>1, <2>9, <3>2, <3>3 DEF Reached
    <2>10. CASE code = "ENCRYPTION_PACKET"
      <3>1. AtCrypt(r, v, s) /\ Outside /\ aside = 0 /\ r.base[Behind(file, s)] = r.start[Due]
        BY <1>2, <2>10 DEF Reached
      <3>2. AtCrypt(r, v, s)'
        BY <1>1, <2>3, <2>5, <3>1 DEF AtCrypt
      <3> QED
        BY <1>6, <1>7, <2>1, <2>2, <2>10, <3>1, <3>2 DEF Reached
    <2>11. CASE code = "TRAILING"
      <3>1. AtTrailing(r, v, s) /\ GoesOn(r, Behind(file, s))
        BY <1>2, <2>11 DEF Reached
      <3>2. AtTrailing(r, v, s)'
        BY <1>1, <2>1, <2>3, <2>5, <3>1 DEF AtTrailing
      <3>3. GoesOn(r, Behind(file, s))'
        BY <2>1, <2>6, <3>1 DEF GoesOn
      <3> QED
        BY <2>1, <2>11, <3>2, <3>3 DEF Reached
    <2>12. CASE code \in BodyCodes
      <3>1. InBody(r, v, s)
        BY <1>2, <2>12, BodyReached
      <3>2. s \in Nat /\ r.base[s] \in Nat /\ Inside(r, s)
        BY <2>12, <3>1, BodyFacts
      <3>3. Inside(r, s)' /\ StreamAt(r, s)' = StreamAt(r, s)
        BY <1>3, <3>2, InsideReads
      <3>4. InRecord(v, s)' /\ OfSegment(s)' /\ lrs_attr' = lrs_attr /\ comp' = comp
        BY <1>1, <2>3, <2>5, <3>1 DEF InBody, eflr
      <3>5. BodyEnd(r, s)' = BodyEnd(r, s)
        BY <2>1 DEF BodyEnd
      <3>6. \A kinds : DueIs(r, kinds)' <=> DueIs(r, kinds)
        BY <1>6, <2>1 DEF DueIs
      <3>7. Sampling(r)' <=> Sampling(r)
        BY <3>6 DEF Sampling
      <3>8. InBody(r, v, s)'
        BY <1>6, <1>7, <2>1, <3>1, <3>3, <3>4, <3>5, <3>6, <3>7 DEF InBody
      <3> QED
        BY <2>1, <2>12, <3>8, InBodyNext
    <2>13. code \in Codes
      BY DEF TypeOK, RecordTypes
    <2> QED
      BY <2>7, <2>8, <2>9, <2>10, <2>11, <2>12, <2>13 DEF Codes, BodyCodes, EflrCodes
  <1> QED
    BY <1>1, <1>2, <1>3, <1>6, <1>7, <1>8, <1>9 DEF Parsed, IsTape

-----------------------------------------------------------------------------
\* Nothing is parsed yet: the parser stands on the first byte, and on the first item.
LEMMA Init_parsed ==
  ASSUME Init, NEW r, WellFormed(r, file), NEW v, NEW s
  PROVE  Parsed(r, v, s)
  <1> TypeOK
    BY InitType
  <1>1. /\ out = <<>> /\ unparsed_buff = <<>> /\ anomalies = {} /\ pc = "read" /\ code = "SUL"
        /\ fed = 0 /\ eof = FALSE /\ byte_idx = 0 /\ max_byte_idx = 0
        /\ vr_len = 0 /\ lrs_trail_len = 0 /\ templt = <<>> /\ templt_read_idx = -1
        /\ attrib_value_cnt = 0 /\ cursor = -1 /\ parsing = 0
        /\ lines = [k \in DOMAIN file.chan |-> 0]
    BY DEF Init
  <1>2. avail = 0 /\ Here = 1 /\ aside = 0 /\ Due = 1 /\ Len(out) = 0
    BY <1>1 DEF avail, Here, aside, Due
  <1>3. Len(file.cells) \in Nat /\ file.n \in Nat /\ Len(file.cells) >= 1
    <2>1. 1 \in DOMAIN file.cells
      BY DEF WellFormed, StartsWell
    <2> QED
      BY <2>1, CellFacts
  <1>4. /\ r.place[1].left = 0 /\ r.place[1].tlen = 0 /\ r.place[1].read = -1
        /\ r.place[1].cursor = -1 /\ r.place[1].nth = 0
    BY DEF WellFormed, ItemsWell
  <1>5. ~loaded
    BY <1>1 DEF loaded, channel, Sampling
  <1>6. UpToDue(r)
    <2>1. Len(out) <= file.n /\ \A i \in DOMAIN out : out[i] = i
      BY <1>1, <1>2, <1>3
    <2>2. Len(templt) = 0
      BY <1>1
    <2> QED
      BY <1>1, <1>2, <1>4, <1>5, <2>1, <2>2 DEF UpToDue
  <1>7. InRow(r)
    <2>1. ~Sampling(r)
      <3>1. SUFFICES ASSUME Sampling(r) PROVE FALSE
        OBVIOUS
      <3>2. 1 \in 1 .. file.n /\ r.items[1].kind = "sample"
        BY <1>2, <1>3, <3>1 DEF Sampling, DueIs
      <3>3. 1 > 1
        BY <3>2 DEF WellFormed, ItemsWell
      <3> QED
        BY <3>3
    <2>2. \A k, l \in DOMAIN lines : lines[k] = lines[l]
      BY <1>1
    <2> QED
      BY <2>1, <2>2 DEF InRow
  <1>8. PutAside(r)
    BY <1>2 DEF PutAside
  <1>9. Outside
    BY <1>2 DEF Outside
  <1>10. AtSul(r)
    BY <1>1, <1>2 DEF AtSul
  <1>11. Reached(r, v, s)
    BY <1>1, <1>9, <1>10 DEF Reached
  <1>12. Starved
    BY <1>1, <1>3 DEF Starved
  <1> QED
    BY <1>1, <1>6, <1>7, <1>8, <1>11, <1>12 DEF Parsed

\* Between two states that are alike nothing is to be explained.
LEMMA Stutter_parsed ==
  ASSUME TypeOK, NEW r, WellFormed(r, file), NEW v, NEW s, Parsed(r, v, s), UNCHANGED vars
  PROVE  Parsed(r, v, s)'
  <1>1. /\ UNCHANGED <<input, ring, byte_idx, nType, code, record, lrs_attr, unparsed_buff, out, lines>>
        /\ UNCHANGED <<comp, templt, templt_read_idx, attrib_value_cnt, iflr>>
        /\ UNCHANGED <<file, fed, eof, pc, anomalies>> /\ lrs_trail_len' = lrs_trail_len
    BY DEF vars, input, eflr
  <1>2. UpToDue(r)' /\ InRow(r)'
    BY <1>1, StaysDue DEF Parsed
  <1>3. CASE running
    <2>1. PutAside(r)' /\ Reached(r, v, s)' /\ Here' = Here
      BY <1>1, <1>3, StaysReached
    <2>2. Starved'
      BY <1>1, <1>3, <2>1 DEF Parsed, Starved
    <2>3. pc' \in {"read", "parse"} /\ anomalies' = {} /\ (code # "SUL" => nType' = IsTape(file))
      BY <1>1, <1>3 DEF Parsed, running
    <2> QED
      BY <1>1, <1>2, <2>1, <2>2, <2>3 DEF Parsed, IsTape
  <1>4. CASE ~running
    BY <1>1, <1>2, <1>4 DEF Parsed, running
  <1> QED
    BY <1>3, <1>4

\* No step changes the file, and none is taken after the end.
LEMMA NextRuns ==
  ASSUME Next
  PROVE  running /\ file' = file
  <1>1. CASE dlis_read
    BY <1>1 DEF dlis_read, running
  <1>2. CASE Finish \/ await_padding
    BY <1>2 DEF Finish, await_padding, Parsing, At, running, input
  <1>3. CASE parse_sul \/ parse_vr_header \/ parse_lrs_header
    BY <1>3 DEF parse_sul, parse_vr_header, parse_lrs_header, Parsing, At, running, input
  <1>4. CASE parse_lrs_encryption_packet \/ parse_lrs_trailing
    BY <1>4 DEF parse_lrs_encryption_packet, parse_lrs_trailing, Parsing, At, running, input
  <1>5. CASE parse_eflr_component \/ parse_eflr_component_set \/ parse_eflr_component_object
    BY <1>5
    DEF parse_eflr_component, parse_eflr_component_set, parse_eflr_component_object,
        Parsing, At, running, input
  <1>6. CASE parse_eflr_component_attrib \/ parse_eflr_component_attrib_value
    BY <1>6
    DEF parse_eflr_component_attrib, parse_eflr_component_attrib_value, Parsing, At, running, input
  <1>7. CASE parse_iflr_header \/ parse_iflr_data
    BY <1>7 DEF parse_iflr_header, parse_iflr_data, Parsing, At, running, input
  <1> QED
    BY <1>1, <1>2, <1>3, <1>4, <1>5, <1>6, <1>7 DEF Next

\* Every action keeps a state explained, by the record and the segment it goes to.
LEMMA Next_parsed ==
  ASSUME TypeOK, Window, CopiesInBounds', NEW r, WellFormed(r, file), BlocksReach(file),
         NEW v, NEW s, Parsed(r, v, s), Next
  PROVE  \E w, t : Parsed(r, w, t)'
  <1>1. CASE dlis_read
    BY <1>1, dlis_read_parsed
  <1>2. CASE Finish
    BY <1>2, Finish_parsed
  <1>3. CASE await_padding
    BY <1>3, await_padding_parsed
  <1>5. CASE parse_sul
    BY <1>5, parse_sul_parsed
  <1>6. CASE parse_vr_header
    BY <1>6, parse_vr_header_parsed
  <1>7. CASE parse_lrs_header
    BY <1>7, parse_lrs_header_parsed
  <1>8. CASE parse_lrs_encryption_packet
    BY <1>8, parse_lrs_encryption_packet_parsed
  <1>9. CASE parse_lrs_trailing
    BY <1>9, parse_lrs_trailing_parsed
  <1>10. CASE parse_eflr_component
    BY <1>10, parse_eflr_component_parsed
  <1>11. CASE parse_eflr_component_set
    BY <1>11, parse_eflr_component_set_parsed
  <1>12. CASE parse_eflr_component_object
    BY <1>12, parse_eflr_component_object_parsed
  <1>13. CASE parse_eflr_component_attrib
    BY <1>13, parse_eflr_component_attrib_parsed
  <1>14. CASE parse_eflr_component_attrib_value
    BY <1>14, parse_eflr_component_attrib_value_parsed
  <1>15. CASE parse_iflr_header
    BY <1>15, parse_iflr_header_parsed
  <1>16. CASE parse_iflr_data
    BY <1>16, parse_iflr_data_parsed
  <1> QED
    BY <1>1, <1>2, <1>3, <1>5, <1>6, <1>7, <1>8, <1>9, <1>10, <1>11, <1>12, <1>13, <1>14,
       <1>15, <1>16 DEF Next

\* Every step is explained by the same reading of the file.
LEMMA StepExplained ==
  ASSUME TypeOK, WindowFits, CopiesInBounds', Explained, [Next]_vars
  PROVE  Explained'
  <1>1. PICK r : WellFormed(r, file) /\ BlocksReach(file) /\ \E v, s : Parsed(r, v, s)
    BY DEF Explained
  <1>2. PICK v, s : Parsed(r, v, s)
    BY <1>1
  <1>3. file' = file
    BY NextRuns DEF vars, input
  <1>4. \E w, t : Parsed(r, w, t)'
    <2>1. CASE Next
      <3>1. Window
        BY <1>2, <2>1, NextRuns DEF Parsed, WindowFits, Harmless
      <3> QED
        BY <1>1, <1>2, <2>1, <3>1, Next_parsed
    <2>2. CASE UNCHANGED vars
      BY <1>1, <1>2, <2>2, Stutter_parsed
    <2> QED
      BY <2>1, <2>2
  <1> QED
    BY <1>1, <1>3, <1>4 DEF Explained

\* Every state of the parser of well-formed files is explained.
LEMMA AlwaysExplained ==
  ASSUME FilesWellFormed
  PROVE  Spec => []Explained
  <1>1. Init => Explained
    <2> SUFFICES ASSUME Init PROVE Explained
      OBVIOUS
    <2>1. PICK r : WellFormed(r, file)
      BY DEF Init, FilesWellFormed
    <2>2. BlocksReach(file)
      BY DEF Init, FilesWellFormed
    <2>3. \E v, s : Parsed(r, v, s)
      BY <2>1, Init_parsed
    <2> QED
      BY <2>1, <2>2, <2>3 DEF Explained
  <1>2. TypeOK /\ WindowFits /\ CopiesInBounds' /\ Explained /\ [Next]_vars => Explained'
    BY StepExplained
  <1> QED
    BY <1>1, <1>2, TypeCorrect, Fits, PTL DEF Spec

-----------------------------------------------------------------------------
(* What the invariant says of a state. *)

\* Outside bodies an explained state has the bytes of the file in front of it.
LEMMA MeansUnparsed ==
  ASSUME TypeOK, NEW r, WellFormed(r, file), NEW v, NEW s, Parsed(r, v, s)
  PROVE  UnparsedBytesAreNext
  <1> SUFFICES ASSUME running, code \in {"SUL", "VR", "LRS", "ENCRYPTION_PACKET", "TRAILING"},
                      NEW i \in byte_idx .. max_byte_idx - 1
               PROVE  OffsetAt(i) = fed - (max_byte_idx - 1 - i)
    BY DEF UnparsedBytesAreNext
  <1>1. Outside
    <2>1. Reached(r, v, s)
      BY DEF Parsed
    <2> QED
      BY <2>1 DEF Reached, GoesOn
  <1>2. /\ avail = max_byte_idx - byte_idx /\ Here = fed + 1 - avail
        /\ byte_idx \in Int /\ max_byte_idx \in Int /\ fed \in Int /\ i \in Int
    BY ViewTypes
  <1>3. i - byte_idx \in 0 .. avail - 1 /\ byte_idx + (i - byte_idx) = i
    BY <1>2
  <1>4. Seen(i - byte_idx) = Here + (i - byte_idx)
    BY <1>1, <1>3 DEF Outside
  <1>5. OffsetAt(i) = Here + (i - byte_idx)
    BY <1>3, <1>4 DEF Seen
  <1> QED
    BY <1>2, <1>5

\* What an explained state put aside is the start of the item due.
LEMMA MeansAside ==
  ASSUME TypeOK, NEW r, WellFormed(r, file), NEW v, NEW s, Parsed(r, v, s)
  PROVE  AsideStartsAnItem
  <1> SUFFICES ASSUME running, unparsed_buff # <<>>
               PROVE  LET item == CellOf(unparsed_buff[1]).item
                      IN /\ Len(unparsed_buff) < item.size
                         /\ \A j \in DOMAIN unparsed_buff : /\ CellOf(unparsed_buff[j]).item = item
                                                            /\ CellOf(unparsed_buff[j]).ix = j - 1
    BY DEF AsideStartsAnItem
  <1>1. PutAside(r)
    BY DEF Parsed
  <1>2. aside \in Nat /\ aside = Len(unparsed_buff) /\ DOMAIN unparsed_buff = 1 .. aside /\ aside >= 1
    BY DEF aside, TypeOK, RingTypes
  <1>3. Due <= file.n /\ aside < r.items[Due].size /\ Due \in 1 .. file.n
    BY <1>1, <1>2, ViewTypes, CellFacts DEF PutAside
  <1>4. r.start[Due] \in Nat /\ r.items[Due].size \in Nat
    <2>1. file.n \in Nat
      BY CellFacts
    <2>2. Due \in 1 .. file.n + 1
      BY <1>3, <2>1
    <2> QED
      BY <1>3, <2>2, ReadingTypes
  <1>5. ASSUME NEW q \in 1 .. aside
        PROVE  CellOf(unparsed_buff[q]).item = r.items[Due] /\ CellOf(unparsed_buff[q]).ix = q - 1
    <2>1. IsByte(r, file, r.start[Due] + q - 1, CellOf(unparsed_buff[q]))
      BY <1>1, <1>5 DEF PutAside
    <2>2. /\ r.start[Due] <= r.start[Due] + q - 1 /\ r.start[Due] + q - 1 < r.start[Due] + r.items[Due].size
          /\ r.start[Due] + q - 1 - r.start[Due] = q - 1
      BY <1>2, <1>3, <1>4, <1>5
    <2>3. PICK cell : cell = CellOf(unparsed_buff[q])
      OBVIOUS
    <2>4. PICK x : x = r.start[Due] + q - 1
      OBVIOUS
    <2>5. /\ IsByte(r, file, x, cell) /\ r.start[Due] <= x
          /\ x < r.start[Due] + r.items[Due].size /\ x - r.start[Due] = q - 1
      <3>1. IsByte(r, file, x, cell)
        BY <2>1, <2>3, <2>4
      <3>2. PICK from : from = r.start[Due]
        OBVIOUS
      <3>3. PICK size : size = r.items[Due].size
        OBVIOUS
      <3>4. x = from + q - 1 /\ from \in Nat /\ size \in Nat /\ aside < size /\ q \in Int /\ 1 <= q /\ q <= aside
        BY <1>2, <1>3, <1>4, <1>5, <2>4, <3>2, <3>3
      <3>5. from <= x /\ x < from + size /\ x - from = q - 1
        BY <1>2, <3>4
      <3> QED
        BY <3>1, <3>2, <3>3, <3>5
    <2>6. \A j \in 1 .. file.n : r.start[j] <= x /\ x < r.start[j] + r.items[j].size =>
            cell.item = r.items[j] /\ cell.ix = x - r.start[j]
      BY <2>5, Zenon DEF IsByte
    <2>7. Due \in 1 .. file.n
      BY <1>3
    <2>8. cell.item = r.items[Due] /\ cell.ix = x - r.start[Due]
      BY <2>5, <2>6, <2>7
    <2> QED
      BY <2>3, <2>5, <2>8
  <1>6. CellOf(unparsed_buff[1]).item = r.items[Due]
    BY <1>2, <1>5
  <1> QED
    BY <1>2, <1>3, <1>5, <1>6

\* In an explained state the lines of the channels are those of whole rows and of one begun.
LEMMA MeansRows ==
  ASSUME TypeOK, NEW r, WellFormed(r, file), NEW v, NEW s, Parsed(r, v, s)
  PROVE  RowsAligned
  <1>1. UpToDue(r) /\ InRow(r)
    BY DEF Parsed
  <1>2. \A k \in DOMAIN lines : lines[k] \in Nat
    BY DEF TypeOK, IflrTypes
  <1>3. DOMAIN lines = 1 .. Len(file.chan) /\ Len(file.chan) \in Nat
    BY DEF TypeOK, IflrTypes, InputTypes, FileOK, File
  <1> SUFFICES ASSUME NEW k \in DOMAIN lines, k > 1
               PROVE  lines[k] <= lines[k - 1] /\ lines[1] <= lines[k] + 1
    BY DEF RowsAligned
  <1>4. k \in Nat /\ k - 1 \in DOMAIN lines /\ 1 \in DOMAIN lines
    BY <1>3
  <1>5. CASE Sampling(r)
    <2>1. cursor \in DOMAIN lines /\ cursor \in Int
      <3>1. cursor \in 1 .. Len(file.chan)
        BY <1>1, <1>5, Run
      <3> QED
        BY <1>3, <3>1
    <2>2. \A l \in DOMAIN lines : lines[l] = IF l < cursor THEN lines[cursor] + 1 ELSE lines[cursor]
      BY <1>1, <1>5 DEF InRow
    <2> QED
      BY <1>2, <1>4, <2>1, <2>2
  <1>6. CASE ~Sampling(r)
    <2>1. lines[k] = lines[k - 1] /\ lines[1] = lines[k]
      BY <1>1, <1>4, <1>6 DEF InRow
    <2> QED
      BY <1>2, <1>4, <2>1
  <1> QED
    BY <1>5, <1>6

\* What was handed over are the items 1, 2, ...
LEMMA MeansOrder ==
  ASSUME TypeOK, NEW r, UpToDue(r)
  PROVE  DeliveredInOrder
  <1>1. \A i \in DOMAIN out : out[i] = i
    BY DEF UpToDue
  <1>2. DOMAIN out = 1 .. Len(out) /\ Len(out) \in Nat
    BY DEF TypeOK, IflrTypes
  <1> QED
    BY <1>1, <1>2 DEF DeliveredInOrder

\* The properties of DlisParse, of a state that is explained.
LEMMA Means ==
  ASSUME TypeOK, Explained
  PROVE  /\ anomalies = {} /\ pc \in {"read", "parse", "done"}
         /\ UnparsedBytesAreNext /\ AsideStartsAnItem /\ RecordConsumed /\ RowsAligned
         /\ DeliveredInOrder /\ Len(out) <= file.n /\ \A i \in DOMAIN out : out[i] = i
  <1>1. PICK r : WellFormed(r, file) /\ \E v, s : Parsed(r, v, s)
    BY DEF Explained
  <1>2. PICK v, s : Parsed(r, v, s)
    BY <1>1
  <1>3. anomalies = {} /\ pc \in {"read", "parse", "done"} /\ UpToDue(r)
    BY <1>2 DEF Parsed
  <1>4. Len(out) <= file.n /\ \A i \in DOMAIN out : out[i] = i
    BY <1>3 DEF UpToDue
  <1>5. RecordConsumed
    BY <1>2 DEF Parsed, RecordConsumed, Reached, AtVr
  <1>6. UnparsedBytesAreNext
    BY <1>1, <1>2, MeansUnparsed
  <1>7. AsideStartsAnItem
    BY <1>1, <1>2, MeansAside
  <1>8. RowsAligned
    BY <1>1, <1>2, MeansRows
  <1>9. DeliveredInOrder
    BY <1>3, MeansOrder
  <1> QED
    BY <1>3, <1>4, <1>5, <1>6, <1>7, <1>8, <1>9

-----------------------------------------------------------------------------
(* The results, for every set of well-formed files, of any length, and all   *)
(* blocks they may be read in.                                               *)

(***************************************************************************)
(* A well-formed file is parsed without a message: the parser is never     *)
(* stopped, by exit, by a null cursor or by a copy out of bounds, and      *)
(* never notes that a header is missing or that trailing bytes are off.    *)
(***************************************************************************)
THEOREM NothingAmiss ==
  ASSUME FilesWellFormed
  PROVE  Spec => [](anomalies = {} /\ pc \in {"read", "parse", "done"})
  <1>1. TypeOK /\ Explained => anomalies = {} /\ pc \in {"read", "parse", "done"}
    BY Means
  <1> QED
    BY <1>1, TypeCorrect, AlwaysExplained, PTL

\* Every byte of a well-formed file is read as what it is.
THEOREM NoMisreadCorrect ==
  ASSUME FilesWellFormed
  PROVE  Spec => []NoMisread
  <1>1. TypeOK /\ Explained => NoMisread
    BY Means DEF NoMisread
  <1> QED
    BY <1>1, TypeCorrect, AlwaysExplained, PTL

\* The trailing bytes of a segment are always as many as its attributes and its pad count say.
THEOREM TrailingCorrect ==
  ASSUME FilesWellFormed
  PROVE  Spec => []TrailingAsAnnounced
  <1>1. TypeOK /\ Explained => TrailingAsAnnounced
    BY Means DEF TrailingAsAnnounced
  <1> QED
    BY <1>1, TypeCorrect, AlwaysExplained, PTL

\* Changing buffers, pasting and skipping neither lose nor repeat a byte of a well-formed file.
THEOREM UnparsedCorrect ==
  ASSUME FilesWellFormed
  PROVE  Spec => []UnparsedBytesAreNext
  <1>1. TypeOK /\ Explained => UnparsedBytesAreNext
    BY Means
  <1> QED
    BY <1>1, TypeCorrect, AlwaysExplained, PTL

\* What is put aside at the end of a segment is the first bytes of an item, never all of them.
THEOREM AsideCorrect ==
  ASSUME FilesWellFormed
  PROVE  Spec => []AsideStartsAnItem
  <1>1. TypeOK /\ Explained => AsideStartsAnItem
    BY Means
  <1> QED
    BY <1>1, TypeCorrect, AlwaysExplained, PTL

\* The bytes counted in a visible record are its length when the next one is due.
THEOREM RecordCorrect ==
  ASSUME FilesWellFormed
  PROVE  Spec => []RecordConsumed
  <1>1. TypeOK /\ Explained => RecordConsumed
    BY Means
  <1> QED
    BY <1>1, TypeCorrect, AlwaysExplained, PTL

\* The curve files advance row by row, wherever rows are cut.
THEOREM RowsCorrect ==
  ASSUME FilesWellFormed
  PROVE  Spec => []RowsAligned
  <1>1. TypeOK /\ Explained => RowsAligned
    BY Means
  <1> QED
    BY <1>1, TypeCorrect, AlwaysExplained, PTL

\* No item of a well-formed file reaches a callback twice, or after one that follows it.
THEOREM OrderCorrect ==
  ASSUME FilesWellFormed
  PROVE  Spec => []DeliveredInOrder
  <1>1. TypeOK /\ Explained => DeliveredInOrder
    BY Means
  <1> QED
    BY <1>1, TypeCorrect, AlwaysExplained, PTL

\* A step hands over nothing, or something more; only Finish ends.
HandsOn == pc' # "done" /\ Len(out') >= Len(out)

\* A handler of items hands over one or none.
LEMMA HandsAnItem ==
  ASSUME TypeOK, TypeOK', pc = "parse", NEW next, (Incomplete /\ out' = out) \/ Complete(next)
  PROVE  HandsOn
  <1>1. out \in Seq(Nat) /\ Len(out) \in Nat
    BY DEF TypeOK, IflrTypes
  <1>2. CASE Incomplete /\ out' = out
    BY <1>1, <1>2 DEF HandsOn, Incomplete, await_block, lrs_skip_unparsed_buff
  <1>3. CASE Complete(next)
    <2>1. PICK e : out' = Append(out, e)
      BY <1>3 DEF Complete, Deliver
    <2>2. Len(out') >= Len(out)
      BY <1>1, <2>1
    <2>3. pc' = "parse"
      BY <1>3 DEF Complete
    <2> QED
      BY <2>2, <2>3 DEF HandsOn
  <1> QED
    BY <1>2, <1>3

\* Nothing handed over is taken back, and only Finish ends.
LEMMA HandsOver ==
  ASSUME TypeOK, TypeOK', Next, ~Finish
  PROVE  HandsOn
  <1>1. out \in Seq(Nat) /\ out' \in Seq(Nat) /\ Len(out) \in Nat
    BY DEF TypeOK, IflrTypes
  <1>2. Len(out) >= Len(out)
    BY <1>1
  <1>3. CASE dlis_read
    BY <1>2, <1>3 DEF dlis_read, HandsOn
  <1>4. CASE await_padding
    BY <1>2, <1>4 DEF await_padding, await_block, HandsOn
  <1>5. CASE parse_sul
    BY <1>2, <1>5 DEF parse_sul, Parsing, At, await_block, HandsOn
  <1>6. CASE parse_vr_header
    BY <1>2, <1>6 DEF parse_vr_header, Parsing, At, await_block, HandsOn
  <1>7. CASE parse_lrs_header
    BY <1>2, <1>7 DEF parse_lrs_header, Parsing, At, await_block, HandsOn
  <1>8. CASE parse_lrs_encryption_packet
    BY <1>2, <1>8 DEF parse_lrs_encryption_packet, Parsing, At, await_block, HandsOn
  <1>9. CASE parse_lrs_trailing
    BY <1>2, <1>9 DEF parse_lrs_trailing, Parsing, At, await_block, HandsOn
  <1>10. CASE parse_eflr_component
    BY <1>2, <1>10 DEF parse_eflr_component, Parsing, At, await_block, HandsOn
  <1>11. CASE parse_eflr_component_set
    <2>1. pc = "parse"
      BY <1>11 DEF parse_eflr_component_set, Parsing, At
    <2> QED
      BY <1>2, <1>11, <2>1, HandsAnItem DEF parse_eflr_component_set, HandsOn, await_block
  <1>12. CASE parse_eflr_component_object
    <2>1. pc = "parse"
      BY <1>12 DEF parse_eflr_component_object, Parsing, At
    <2>2. CASE out' = out /\ pc' = "exit"
      BY <1>2, <2>2 DEF HandsOn
    <2>3. CASE (Incomplete /\ out' = out) \/ Complete("EFLR_COMP")
      BY <2>1, <2>3, HandsAnItem
    <2> QED
      BY <1>12, <2>2, <2>3 DEF parse_eflr_component_object
  <1>13. CASE parse_eflr_component_attrib
    <2>1. pc = "parse"
      BY <1>13 DEF parse_eflr_component_attrib, Parsing, At
    <2>2. CASE out' = out /\ pc' = "exit"
      BY <1>2, <2>2 DEF HandsOn
    <2>3. CASE (Incomplete /\ out' = out) \/ Complete(IF comp.value THEN "VALUE" ELSE "EFLR_COMP")
      BY <2>1, <2>3, HandsAnItem
    <2> QED
      BY <1>13, <2>2, <2>3 DEF parse_eflr_component_attrib
  <1>14. CASE parse_eflr_component_attrib_value
    <2>1. pc = "parse"
      BY <1>14 DEF parse_eflr_component_attrib_value, Parsing, At
    <2>2. (Incomplete /\ out' = out) \/ Complete(IF attrib_value_cnt' <= 0 THEN "EFLR_COMP" ELSE "VALUE")
      BY <1>14 DEF parse_eflr_component_attrib_value
    <2> QED
      BY <2>1, <2>2, HandsAnItem
  <1>15. CASE parse_iflr_header
    <2>1. pc = "parse"
      BY <1>15 DEF parse_iflr_header, Parsing, At
    <2>2. CASE Incomplete /\ out' = out
      BY <2>1, <2>2, HandsAnItem
    <2>3. CASE Deliver(current_item, checked_len, 0) /\ pc' = pc
      <3>1. PICK e : out' = Append(out, e)
        BY <2>3 DEF Deliver
      <3>2. Len(out') >= Len(out)
        BY <1>1, <3>1
      <3> QED
        BY <2>1, <2>3, <3>2 DEF HandsOn
    <2>4. CASE out' = out /\ pc' = "exit"
      BY <1>2, <2>4 DEF HandsOn
    <2> QED
      BY <1>15, <2>2, <2>3, <2>4 DEF parse_iflr_header
  <1>16. CASE parse_iflr_data
    <2>1. pc = "parse"
      BY <1>16 DEF parse_iflr_data, Parsing, At
    <2>2. CASE out' = out /\ pc' \in {"nullptr", pc}
      BY <1>2, <2>1, <2>2 DEF HandsOn
    <2>3. ASSUME ~no_channel, NEW m \in 0 .. dimension - already_read,
                 out' = out \o [j \in 1 .. m |-> sample_at(byte_idx + (j - 1) * sample_size)],
                 channel_read(m * sample_size) \/ channel_not_read(m * sample_size)
          PROVE  HandsOn
      <3>1. pc' # "done"
        BY <2>1, <2>3 DEF channel_read, channel_not_read, await_block, lrs_skip_unparsed_buff
      <3>2. Len(out') >= Len(out)
        <4> DEFINE new == [j \in 1 .. m |-> sample_at(byte_idx + (j - 1) * sample_size)]
        <4>1. m \in Nat /\ new \in Seq(Nat)
          <5>1. m \in Nat /\ sample_size \in Int /\ byte_idx \in Int
            BY <2>3, SamplesType, ChannelType, ViewTypes
          <5>2. \A i \in Int : sample_at(i) \in Nat
            BY ItemType DEF sample_at, Item, TypeOK
          <5>3. \A j \in 1 .. m : byte_idx + (j - 1) * sample_size \in Int
            BY <5>1
          <5>4. new \in [1 .. m -> Nat]
            BY <5>2, <5>3 DEF new
          <5> HIDE DEF new
          <5> QED
            BY <5>1, <5>4, IntervalSeq
        <4>2. out' = out \o new
          BY <2>3
        <4> HIDE DEF new
        <4> QED
          BY <1>1, <4>1, <4>2, Concat
      <3> QED
        BY <3>1, <3>2 DEF HandsOn
    <2> QED
      BY <1>16, <2>2, <2>3 DEF parse_iflr_data
  <1> QED
    BY <1>3, <1>4, <1>5, <1>6, <1>7, <1>8, <1>9, <1>10, <1>11, <1>12, <1>13, <1>14, <1>15, <1>16 DEF Next

\* Two lists of the items 1, 2, ..., the longer one goes on where the other ends.
LEMMA Numbered ==
  ASSUME NEW a \in Seq(Nat), NEW b \in Seq(Nat), Len(a) <= Len(b),
         \A i \in DOMAIN a : a[i] = i, \A i \in DOMAIN b : b[i] = i
  PROVE  /\ b = a \o [j \in 1 .. Len(b) - Len(a) |-> Len(a) + j]
         /\ Len(a) = Len(b) => a = b
  <1>1. PICK l, n : l = Len(a) /\ n = Len(b)
    OBVIOUS
  <1>2. l \in Nat /\ n \in Nat /\ l <= n /\ n - l \in Nat /\ DOMAIN a = 1 .. l /\ DOMAIN b = 1 .. n
    BY <1>1
  <1> DEFINE new == [j \in 1 .. n - l |-> l + j]
  <1>3. new \in Seq(Nat) /\ Len(new) = n - l /\ \A j \in 1 .. n - l : new[j] = l + j
    <2>1. new \in [1 .. n - l -> Nat]
      BY <1>2
    <2> QED
      BY <1>2, <2>1, IntervalSeq
  <1> HIDE DEF new
  <1>4. /\ a \o new \in Seq(Nat) /\ DOMAIN (a \o new) = 1 .. Len(a) + Len(new)
        /\ \A i \in 1 .. Len(a) + Len(new) : (a \o new)[i] = IF i <= Len(a) THEN a[i] ELSE new[i - Len(a)]
    BY <1>3, Concat
  <1>5. l + (n - l) = n
    BY <1>2
  <1>6. PICK c : c = a \o new
    OBVIOUS
  <1>7. /\ c \in Seq(Nat) /\ DOMAIN c = 1 .. n
        /\ \A i \in 1 .. n : c[i] = IF i <= l THEN a[i] ELSE new[i - l]
    BY <1>1, <1>3, <1>4, <1>5, <1>6
  <1>8. ASSUME NEW i \in 1 .. n PROVE c[i] = i
    <2>1. CASE i <= l
      <3>1. i \in DOMAIN a
        BY <1>2, <1>8, <2>1
      <3>2. a[i] = i
        BY <3>1
      <3> QED
        BY <1>7, <1>8, <2>1, <3>2
    <2>2. CASE ~(i <= l)
      <3>1. i - l \in 1 .. n - l /\ l + (i - l) = i
        BY <1>2, <1>8, <2>2
      <3>2. new[i - l] = i
        BY <1>3, <3>1
      <3> QED
        BY <1>7, <1>8, <2>2, <3>2
    <2> QED
      BY <2>1, <2>2
  <1>9. b = [i \in 1 .. n |-> i]
    <2>1. b = [i \in 1 .. n |-> b[i]]
      BY <1>2
    <2> QED
      BY <1>2, <2>1
  <1>10. c = [i \in 1 .. n |-> i]
    <2>1. c = [i \in 1 .. n |-> c[i]]
      BY <1>7
    <2> QED
      BY <1>8, <2>1
  <1>11. a = [i \in 1 .. l |-> i]
    <2>1. a = [i \in 1 .. l |-> a[i]]
      BY <1>2
    <2> QED
      BY <1>2, <2>1
  <1> QED
    BY <1>1, <1>6, <1>9, <1>10, <1>11 DEF new

\* A step of the parser hands over the next few items, or ends, or does neither.
LEMMA StepOfStream ==
  ASSUME TypeOK, TypeOK', Explained, Explained', WindowFits, CopiesInBounds', [Next]_vars
  PROVE  [Stream!StreamNext]_<<file.n, out, pc = "done">>
  <1>1. /\ out \in Seq(Nat) /\ out' \in Seq(Nat) /\ Len(out) \in Nat /\ Len(out') \in Nat
        /\ DOMAIN out = 1 .. Len(out) /\ DOMAIN out' = 1 .. Len(out')
    BY DEF TypeOK, IflrTypes
  <1>2. file' = file
    BY NextRuns DEF vars, input
  <1>3. /\ \A i \in DOMAIN out : out[i] = i
        /\ \A i \in DOMAIN out' : out'[i] = i
        /\ Len(out') <= file.n /\ file.n \in Nat
    <2>1. \A i \in DOMAIN out : out[i] = i
      BY Means
    <2>2. Len(out') <= file'.n /\ \A i \in DOMAIN out' : out'[i] = i
      <3>1. (TypeOK /\ Explained => Len(out) <= file.n /\ \A i \in DOMAIN out : out[i] = i)'
        BY Means, PTL
      <3> QED
        BY <3>1
    <2> QED
      BY <1>2, <2>1, <2>2, CellFacts
  <1>4. CASE UNCHANGED vars
    BY <1>4 DEF vars, input
  <1>5. CASE Finish
    <2>1. PICK r : WellFormed(r, file) /\ \E v, s : Parsed(r, v, s)
      BY DEF Explained
    <2>2. PICK v, s : Parsed(r, v, s)
      BY <2>1
    <2>3. Window
      BY <1>5, <2>2, NextRuns DEF Next, Parsed, WindowFits, Harmless
    <2>4. Len(out) = file.n
      BY <1>5, <2>1, <2>2, <2>3, Finish_parsed
    <2>5. pc = "read" /\ pc' = "done" /\ out' = out
      BY <1>5 DEF Finish
    <2> QED
      BY <1>2, <2>4, <2>5 DEF Stream!StreamNext, Stream!End
  <1>6. CASE Next /\ ~Finish
    <2>1. pc # "done" /\ pc' # "done" /\ Len(out') >= Len(out)
      BY <1>6, HandsOver, NextRuns DEF HandsOn, running
    <2>2. PICK k : k = Len(out') - Len(out)
      OBVIOUS
    <2>3. k \in Nat /\ k <= file.n - Len(out)
      BY <1>1, <1>3, <2>1, <2>2
    <2>4. /\ out' = out \o [j \in 1 .. k |-> Len(out) + j]
          /\ Len(out) = Len(out') => out = out'
      BY <1>1, <1>3, <2>1, <2>2, Numbered
    <2>5. CASE Len(out) = Len(out')
      <3>1. out' = out
        BY <2>4, <2>5
      <3> QED
        BY <1>2, <2>1, <3>1
    <2>6. CASE Len(out) # Len(out')
      <3>1. k \in 1 .. file.n - Len(out)
        <4>1. PICK a, b, n : a = Len(out) /\ b = Len(out') /\ n = file.n
          OBVIOUS
        <4>2. a \in Nat /\ b \in Nat /\ n \in Nat /\ a <= b /\ b <= n /\ a # b
          BY <1>1, <1>3, <2>1, <2>6, <4>1
        <4>3. b - a \in 1 .. n - a
          BY <4>2
        <4> QED
          BY <2>2, <4>1, <4>3
      <3>2. file'.n = file.n /\ ((pc = "done")' <=> (pc = "done")) /\ pc # "done"
        BY <1>2, <2>1
      <3> QED
        BY <2>4, <3>1, <3>2 DEF Stream!StreamNext, Stream!Deliver
    <2> QED
      BY <2>5, <2>6
  <1> QED
    BY <1>4, <1>5, <1>6

(***************************************************************************)
(* The parser implements the stream of items: however a well-formed file   *)
(* is cut into segments, visible records and blocks, each of its items is  *)
(* handed over once, whole, in order, before the parser ends.              *)
(***************************************************************************)
THEOREM StreamImplemented ==
  ASSUME FilesWellFormed
  PROVE  Spec => ImplementsStream
  <1>1. Init => Stream!StreamInit
    <2> SUFFICES ASSUME Init PROVE Stream!StreamInit
      OBVIOUS
    <2>1. file.n \in Nat
      BY InitType, CellFacts
    <2> QED
      BY <2>1 DEF Init, Stream!StreamInit
  <1>2. /\ TypeOK /\ TypeOK' /\ Explained /\ Explained' /\ WindowFits /\ CopiesInBounds'
        /\ [Next]_vars
        => [Stream!StreamNext]_<<file.n, out, pc = "done">>
    BY StepOfStream
  <1> QED
    BY <1>1, <1>2, TypeCorrect, Fits, AlwaysExplained, PTL
    DEF Spec, ImplementsStream, Stream!StreamSpec
=============================================================================
