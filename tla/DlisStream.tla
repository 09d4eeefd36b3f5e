----------------------------- MODULE DlisStream -----------------------------
(***************************************************************************)
(* What the callbacks of the parser are promised, whatever the blocks the  *)
(* file is read in, the segments and visible records its logical records   *)
(* are cut into, and the buffers they pass through: every item of the      *)
(* file, whole, once, in the order of the file.                            *)
(***************************************************************************)
EXTENDS Naturals, Sequences

VARIABLES total,       \* number of items in the file
          delivered,   \* their positions, in the order the callbacks got them
          ended        \* the file has been parsed to its end

StreamInit == total \in Nat /\ delivered = <<>> /\ ended = FALSE

\* A call of the parser hands over the next item, or the next few samples of a channel.
Deliver == /\ ~ended
           /\ \E k \in 1 .. total - Len(delivered) :
                delivered' = delivered \o [j \in 1 .. k |-> Len(delivered) + j]
           /\ UNCHANGED <<total, ended>>

End == /\ ~ended /\ Len(delivered) = total
       /\ ended' = TRUE
       /\ UNCHANGED <<total, delivered>>

StreamNext == Deliver \/ End

StreamSpec == StreamInit /\ [][StreamNext]_<<total, delivered, ended>>
=============================================================================
