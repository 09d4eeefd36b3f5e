------------------------------ MODULE DlisFile ------------------------------
(***************************************************************************)
(* The files the parser reads, as far as the parser tells them apart.      *)
(*                                                                         *)
(* A file is a sequence of cells, one per byte.  The storage unit label,   *)
(* the tape marks, the visible record (VR) headers and the logical record  *)
(* segment (LRS) headers are runs of cells whose first cell carries the    *)
(* fields parse_vr_header and parse_lrs_header take out of the header.     *)
(* The body of a segment is made of items: what one call of a parse        *)
(* function of dlis.cc returns (a SET, OBJECT or ATTRIB component, one     *)
(* attribute value, an IFLR header, one sample of a channel).  The record  *)
(* a body belongs to may be cut into segments between any two cells, so an *)
(* item may straddle segments, visible records and blocks of the file.     *)
(***************************************************************************)
EXTENDS Integers, Sequences

CONSTANTS Files,           \* the files that may be parsed, a set of FileOK records
          MAX_LRS,         \* longest logical record segment, header included
          MAX_ITEM,        \* longest item
          LRS_HEADER_LEN   \* dlis.cc:304

\* The roles eflr_comp_is_* tell apart; ABSATR and INVATR take the handler of ATTRIB.
ComponentKinds == {"set", "object", "attrib"}
ItemKinds      == ComponentKinds \cup {"value", "header", "sample", "none"}

(***************************************************************************)
(* id    position of the item among the items of the file                  *)
(* size  its bytes; the first byte of a component is its role and format,  *)
(*       the others are its fields, taken together as one field that       *)
(*       starts with its length                                            *)
(* value, count   the "has value" flag of an attribute and its count       *)
(* label whether an attribute carries its own label, a SET its type and an *)
(*       OBJECT its name: the same bit of the first byte                   *)
(* binds what the callback does to the channel cursor: 0 for the OBJECT    *)
(*       of a FRAME (frame_init), k for the value that names the k-th      *)
(*       channel of the frame, 1 for the header of a row of a frame that   *)
(*       is there, the channel number for a sample, else -1                *)
(***************************************************************************)
Item == [id: Nat, kind: ItemKinds, size: 1..MAX_ITEM, count: Nat,
         value: BOOLEAN, label: BOOLEAN, binds: Int]

CellKinds == {"sul", "tape", "vr", "lrs", "body", "crypt", "trail", "none"}

\* The bits of the segment attribute byte the parser tests; "eod" stands for lrs_type = EOD.
Attributes == {"eflr", "succ", "encrypted", "checksum", "trailing", "padding", "eod"}

(***************************************************************************)
(* len   the number read when the cell starts a VR or LRS header, or is    *)
(*       read as a padding count                                           *)
(* attr  the attributes of the segment whose header the cell starts        *)
(* item, ix   the item a body cell is part of, and which of its bytes      *)
(***************************************************************************)
Cell == [kind: CellKinds, len: Nat, attr: SUBSET Attributes, item: Item, ix: Nat]

\* The frame's channels: how many samples of how many bytes a row has of each.
Channel == [dim: Nat \ {0}, size: 1..MAX_ITEM]

File == [cells: Seq(Cell), chan: Seq(Channel), n: Nat]

NoItem == [id |-> 0, kind |-> "none", size |-> 1, count |-> 0,
           value |-> FALSE, label |-> FALSE, binds |-> -1]
NoCell == [kind |-> "none", len |-> 0, attr |-> {}, item |-> NoItem, ix |-> 0]

\* A segment is at least as long as its header, and no longer than MAX_LRS.  A label takes a
\* byte at least, that of its length (parse_ident).
FileOK(f) ==
  /\ f \in File
  /\ \A o \in DOMAIN f.cells :
       /\ f.cells[o].kind = "lrs" => f.cells[o].len \in LRS_HEADER_LEN .. MAX_LRS
       /\ f.cells[o].item.label => f.cells[o].item.size > 1

ASSUME FileAssumption ==
  /\ {LRS_HEADER_LEN, MAX_ITEM} \subseteq Nat \ {0}
  /\ MAX_LRS \in Nat /\ LRS_HEADER_LEN <= MAX_LRS
  /\ \A f \in Files : FileOK(f)
=============================================================================
