------------------------------- MODULE Layout -------------------------------
(***************************************************************************)
(* What the catalog of frames and channels is for: a frame, once declared, *)
(* keeps its channels in the order they were named, and each row of the    *)
(* frame puts one line, with the row's index, in the curve file of each of *)
(* its channels, one channel after the other.                              *)
(***************************************************************************)
EXTENDS Naturals, Sequences

CONSTANTS FrameIds, ChannelIds, Indexes

VARIABLES layout,   \* the channels of each declared frame, in order
          curves,   \* the lines of each channel's curve file, by their index
          ended     \* the files are closed

LayoutInit == /\ layout = [f \in {} |-> <<>>]
              /\ curves = [c \in ChannelIds |-> <<>>]
              /\ ended = FALSE

Frames == DOMAIN layout

DeclareFrame(f) ==
  /\ f \notin Frames
  /\ layout' = [g \in Frames \cup {f} |-> IF g = f THEN <<>> ELSE layout[g]]
  /\ UNCHANGED curves

AddChannel(f, c) ==
  /\ f \in Frames
  /\ \A g \in Frames : \A i \in DOMAIN layout[g] : layout[g][i] # c
  /\ layout' = [layout EXCEPT ![f] = Append(@, c)]
  /\ UNCHANGED curves

\* The line of a row for the i-th channel follows those for the channels before it.
WriteLine(f, i, index) ==
  LET lines(j) == curves[layout[f][j]]
      n == Len(lines(i)) + 1
  IN /\ \A j \in 1 .. i - 1 : Len(lines(j)) = n /\ lines(j)[n] = index
     /\ \A j \in i .. Len(layout[f]) : Len(lines(j)) = n - 1
     /\ curves' = [curves EXCEPT ![layout[f][i]] = Append(@, index)]
     /\ UNCHANGED layout

LayoutNext ==
  \/ /\ ~ended /\ UNCHANGED ended
     /\ \/ \E f \in FrameIds : DeclareFrame(f)
        \/ \E f \in Frames, c \in ChannelIds : AddChannel(f, c)
        \/ \E f \in Frames, index \in Indexes :
             \E i \in DOMAIN layout[f] : WriteLine(f, i, index)
  \/ /\ ~ended /\ ended' = TRUE /\ UNCHANGED <<layout, curves>>

LayoutSpec == LayoutInit /\ [][LayoutNext]_<<layout, curves, ended>>
=============================================================================
