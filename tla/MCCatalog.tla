------------------------------ MODULE MCCatalog -----------------------------
(***************************************************************************)
(* Names for checking Catalog, the same in each logical file.  Letters are *)
(* model values; names that differ in a letter only may be exchanged.      *)
(***************************************************************************)
EXTENDS Catalog, TLC

CONSTANTS FrameLetters, ChannelLetters

Name(origin, copy, letter) == [origin |-> <<origin>>, copy |-> <<copy>>, ident |-> <<letter>>]

LetteredFrames == { Name(1, 0, l) : l \in FrameLetters }
LetteredChannels == { Name(1, 0, l) : l \in ChannelLetters }

\* Files with all FRAME sets before their data, and those that keep less to the grammar.
Orderly(first, last, names, dimension) ==
  [first |-> first, last |-> last, MAX_FRAMES |-> names, MAX_DIMENSION |-> dimension,
   late |-> FALSE, early |-> FALSE]
Loose(early) ==
  [first |-> 1, last |-> 1, MAX_FRAMES |-> 3, MAX_DIMENSION |-> 1, late |-> TRUE, early |-> early]

OneFile == {Orderly(1, 1, 2, 1)}
ManyFiles == {Orderly(1, 2, 1, 2), Orderly(2, 2, 1, 2), Loose(TRUE)}
LateFile == {Loose(FALSE)}

Exchanges == Permutations(FrameLetters) \cup Permutations(ChannelLetters)
=============================================================================
