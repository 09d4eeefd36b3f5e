----------------------------- MODULE MCDlisParse ----------------------------
(* The parser on small files: see MCDlisFiles for their layout. *)
EXTENDS DlisParse, MCDlisFiles

Padding == TrailOf({"padding"}, 1)
Checked == TrailOf({"checksum", "padding"}, 2)
AllTrailing == TrailOf({"checksum", "trailing", "padding"}, 3)
Trails == {NoTrail, Padding, Checked, AllTrailing}

WholeFrame == FrameRec(<<>>, NoTrail)
WholeRow == RowRec(<<>>, NoTrail)

AFile(records, split) == MakeFile(records, split, FALSE, TwoChannels)

(***************************************************************************)
(* Splice: the FRAME record is cut anywhere after its SET, in two or three *)
(* segments without trailing bytes; or a row in two anywhere after its     *)
(* header, the second row also inside it, with any trailing bytes.         *)
(***************************************************************************)
FrameCuts == { <<i>> : i \in 2 .. 12 } \cup { <<i, j>> : i \in 3 .. 7, j \in {8, 10, 12} }

SpliceFiles ==
  { AFile(<< FrameRec(cuts, NoTrail), WholeRow, WholeRow >>, split) :
      cuts \in FrameCuts, split \in BOOLEAN }
  \cup
  { AFile(<< WholeFrame, RowRec(<<i>>, t), RowRec(<<j>>, t), EodRec(t) >>, split) :
      i \in {4, 9}, j \in {1, 2, 3, 5, 8, 9, 10}, t \in Trails, split \in BOOLEAN }

(***************************************************************************)
(* Ring: the file is several times as long as a buffer.  The FRAME record  *)
(* is cut between components or inside a value, with any trailing bytes;   *)
(* encrypted segments stand between the records; tape images too.          *)
(***************************************************************************)
RingFiles ==
  { MakeFile(<< FrameRec(cuts, t), CryptRec, RowRec(<<8>>, t), RowRec(<<j>>, t), WholeRow >>,
             split, tape, TwoChannels) :
      cuts \in { <<5>>, <<9>>, <<10>>, <<8, 12>> }, j \in {1, 8, 10},
      t \in Trails, split \in BOOLEAN, tape \in BOOLEAN }

(***************************************************************************)
(* Damaged: files that are not what their headers say, and records the     *)
(* parser is not made for.                                                 *)
(***************************************************************************)
FrameWith(items) == Rec({"eflr"}, items, <<>>, NoTrail)
CutRow == Rec({}, SubSeq(RowItems, 1, 3), <<>>, NoTrail)
MoreEod(t) == Rec({"eod", "succ"}, << It("none", 2) >>, <<>>, t)

\* The last padding count of the file is d bytes more than its segment has.
OverPadded(records, d) ==
  LET f == AFile(records, TRUE)
      segments == { o \in DOMAIN f.cells : f.cells[o].kind = "lrs" /\ f.cells[o].ix = 0 }
      last == CHOOSE o \in segments : \A other \in segments : other <= o
  IN [f EXCEPT !.cells[Len(f.cells)].len = f.cells[last].len - HeaderLen + d]

DamagedFiles ==
  LET good == AFile(<< WholeFrame, WholeRow, WholeRow >>, TRUE)
      cells == good.cells
      Patched(o, cell) == [good EXCEPT !.cells[o] = cell]
      lrs == SulLen + HeaderLen + 1     \* where the header of the first segment starts
  IN \* no storage unit label; no VR header where one is due
     { Patched(1, cells[5]), Patched(SulLen + 1, cells[2]) }
     \* the length of a segment, or its padding count, is wrong
     \cup { Patched(lrs, [cells[lrs] EXCEPT !.len = @ + d]) : d \in {-3, -1, 1, 3} }
     \cup { Patched(lrs, [cells[lrs] EXCEPT !.attr = @ \cup {"checksum", "trailing"}]) }
     \cup { OverPadded(<< FrameRec(cuts, Padding) >>, d) : cuts \in {<<>>, <<5>>, <<10>>}, d \in {1, 9} }
     \cup { OverPadded(<< WholeFrame, RowRec(cuts, Padding) >>, 1) : cuts \in {<<>>, <<8>>} }
     \* a segment shorter than its header, encrypted or not
     \cup { Patched(lrs, Of("none", 2, attr, NoItem, 0)) : attr \in {{"eflr"}, {"encrypted"}} }
     \* a SET without its type, an OBJECT without its name
     \cup { AFile(<< FrameWith([FrameItems EXCEPT ![i] = It(@.kind, 1)]), WholeRow >>, TRUE) : i \in {1, 3} }
     \* more attributes in the object than in the template, too many in the template
     \cup { AFile(<< FrameWith(FrameItems \o << It("attrib", 1) >>) >>, TRUE),
            AFile(<< FrameWith(<< FrameItems[1], FrameItems[2], FrameItems[2], FrameItems[2] >>) >>,
                  TRUE) }
     \* a value that is not there, a value too many
     \cup { AFile(<< FrameWith([FrameItems EXCEPT ![4].count = n]), WholeRow >>, TRUE) :
              n \in {0, 1, 3} }
     \* the first row's header cut, a row cut short, a row too long, a row of no frame
     \cup { AFile(<< WholeFrame, RowRec(<<2>>, NoTrail), WholeRow >>, TRUE),
            AFile(<< WholeFrame, RowRec(<<10>>, NoTrail), CutRow, WholeRow, WholeRow >>, TRUE),
            AFile(<< WholeFrame, Rec({}, RowItems \o << It("none", 2) >>, <<>>, NoTrail) >>, TRUE),
            AFile(<< WholeFrame, Rec({}, [RowItems EXCEPT ![1].binds = -1], <<>>, NoTrail) >>, TRUE) }
     \* a frame without channels, an end of data with data, one that goes on after a row cut short
     \cup { MakeFile(<< WholeFrame, WholeRow >>, TRUE, FALSE, <<>>),
            AFile(<< WholeFrame, Rec({"eod"}, RowItems, <<>>, NoTrail) >>, TRUE) }
     \cup { AFile(<< WholeFrame, row, MoreEod(t), WholeFrame >>, TRUE) :
              row \in {WholeRow, CutRow}, t \in {NoTrail, Padding} }
     \cup { AFile(<< WholeFrame, MoreEod(NoTrail), WholeRow >>, TRUE) }

\* Encrypted segments, to move what follows to another place of the buffer.
Shift(k) == [j \in 1 .. k |-> CryptRec]

\* A component cut by the end of a segment, near the end of a buffer.
CutComponentFiles ==
  { AFile(Shift(k) \o << FrameRec(<<i>>, NoTrail), WholeRow >>, TRUE) : i \in {3, 6}, k \in 1 .. 3 }

\* A component cut by the end of a segment that has trailing bytes.
CutTrailingFiles == { AFile(<< FrameRec(<<i>>, Padding), WholeRow >>, TRUE) : i \in {4, 7} }

\* An end of data, near the end of a buffer.
EodFiles == { AFile(<< WholeFrame, WholeRow >> \o Shift(k) \o << EodRec(NoTrail), WholeFrame >>, TRUE) :
                k \in 0 .. 3 }
=============================================================================
