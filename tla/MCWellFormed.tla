---------------------------- MODULE MCWellFormed ----------------------------
(***************************************************************************)
(* The hypothesis and the inductive invariant of Stream_proofs on the      *)
(* files of run Ring: that they are well-formed, by the reading that       *)
(* ReadingOf works out, and that it explains every state of the parser.    *)
(***************************************************************************)
EXTENDS MCDlisParse, WellFormed, FiniteSetsExt

IsBody(f, o) == f.cells[o].kind = "body"
BodyBefore(f, o) == Cardinality({ x \in 1 .. o - 1 : IsBody(f, x) })
FirstByteOf(f, j) ==
  CHOOSE o \in DOMAIN f.cells : IsBody(f, o) /\ f.cells[o].item.id = j /\ f.cells[o].ix = 0

\* The last of the items before item j that is one of these, or 0.
LastOf(which, j) == Max({0} \cup { i \in which : i < j })
Between(which, i, j) == Cardinality({ k \in which : i < k /\ k < j })

\* What is due at item j, as the items before it say.
PlaceAt(f, items, j) ==
  LET of(kind)  == { i \in 1 .. f.n : items[i].kind = kind }
      set       == LastOf(of("set"), j)
      object    == LastOf(of("object"), j)
      attrib    == LastOf(of("attrib"), j)
      described == { i \in of("attrib") : i > set /\ \A k \in of("object") : k < set \/ i < k }
      binding   == { i \in of("object") : items[i].binds = 0 }
                   \cup { i \in of("value") : items[i].binds \in DOMAIN f.chan }
      last      == LastOf(binding \cup of("header") \cup of("sample"), j)
      sampling  == items[last].binds
      samples   == { i \in of("sample") : items[i].binds = sampling }
      read      == Between(samples, LastOf(of("header"), j), j)
      sampled   == last # 0 /\ items[last].kind = "sample"
      within    == sampled /\ read < f.chan[sampling].dim
  IN [left   |-> IF attrib # 0 /\ items[attrib].value
                 THEN items[attrib].count - Between(of("value"), attrib, j) ELSE 0,
      tlen   |-> Between(described, set, j),
      read   |-> IF object > set THEN Between(of("attrib"), object, j) ELSE -1,
      cursor |-> CASE last = 0                      -> -1
                   [] last \in of("header")         -> 1
                   [] ~sampled \/ within            -> sampling
                   [] OTHER -> IF sampling = Len(f.chan) THEN 0 ELSE sampling + 1,
      nth    |-> IF within THEN read ELSE 0]

ReadingOf(f) ==
  LET items == [j \in 1 .. f.n |-> f.cells[FirstByteOf(f, j)].item]
  IN [items |-> items,
      start |-> [j \in 1 .. f.n + 1 |->
                   BodyBefore(f, IF j > f.n THEN BehindFile(f) ELSE FirstByteOf(f, j))],
      base  |-> [o \in 1 .. BehindFile(f) |-> BodyBefore(f, o)],
      place |-> [j \in 1 .. f.n + 1 |-> PlaceAt(f, items, j)]]

Readings == [f \in Files |-> ReadingOf(f)]

\* The hypothesis of the theorems is met, but for BlocksReach by the smaller blocks on tape images.
ASSUME \A f \in Files : WellFormed(Readings[f], f)

\* As BlocksReach, of the blocks that the file is read in.
block_reaches == IsTape(file) => chunk >= first_record(file) - 1

(***************************************************************************)
(* The inductive invariant of Stream_proofs: the reading of the file       *)
(* explains where the parser is, whatever was cut, put aside or pasted.    *)
(***************************************************************************)
ReadAsMeant ==
  block_reaches =>
    \E v \in Records(file) \cup {1}, s \in Segments(file) \cup {1} : Parsed(Readings[file], v, s)
=============================================================================
