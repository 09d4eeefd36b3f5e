------------------------------- MODULE Catalog ------------------------------
(***************************************************************************)
(* The catalog of frames and channels kept by the callbacks of             *)
(* node-addon/src/dlis.cc: on_eflr_component_object and                    *)
(* on_eflr_component_attrib_value build linked lists of frame_t and        *)
(* channel_t from the FRAME and CHANNEL sets, on_iflr_header finds the     *)
(* frame of a row by name, on_iflr_data writes the row to the curve files  *)
(* of the frame's channels, and the end of do_parse closes the files.      *)
(*                                                                         *)
(* Each action is one callback.  What a callback may be given next is what *)
(* a well-formed file may hold next: see "The file" below.                 *)
(***************************************************************************)
EXTENDS Naturals, Sequences, FiniteSets

CONSTANTS FrameNames, ChannelNames,   \* object names: [origin, copy, ident], of characters
          Kinds,                      \* kinds of files, see below
          Dims,                       \* values of the attribute DIMENSION
          Depths,                     \* samples of a channel that is the index of its frame
          MAX_ROWS                    \* rows of a frame

(***************************************************************************)
(* A kind of files: the sequence numbers of the first and of the last      *)
(* logical file, below 10, bounds on the number of different names of      *)
(* frames and on the dimension of a channel (one channel of the file may   *)
(* have more than 1), whether FRAME sets may follow frame data, and        *)
(* whether rows may come before their channels' objects.                   *)
(***************************************************************************)
KindsType == [first : 1 .. 9, last : 1 .. 9, MAX_FRAMES : Nat, MAX_DIMENSION : Nat \ {0},
              late : BOOLEAN, early : BOOLEAN]

NULL == 0

\* The addresses of nodes are positions in the heaps; dlis->frames is the first frame.
HEAD == 1

\* sprintf(hash_str, "%d%d%d%.*s", ...): no separators between the numbers.  A digit is the
\* character 0 .. 9; the path is the MD5 sum of this, taken to be different for each.
path_of(number, name) == <<number>> \o name.origin \o name.copy \o name.ident

Numbers == UNION { k.first .. k.last : k \in Kinds }
Paths == { path_of(n, c) : n \in Numbers, c \in ChannelNames }

NoName == [origin |-> <<>>, copy |-> <<>>, ident |-> <<>>]
NoFile == <<>>     \* a FILE* that was never assigned

ASSUME CatalogAssumption ==
  /\ \A k \in Kinds : k \in KindsType /\ k.first <= k.last
  /\ Dims \subseteq Nat \ {0} /\ Depths \subseteq Nat
  /\ MAX_ROWS \in Nat \ {0}
  /\ \A c \in FrameNames \cup ChannelNames :
       /\ DOMAIN c = {"origin", "copy", "ident"} /\ c # NoName
       /\ c.origin \in Seq(0 .. 9) /\ c.copy \in Seq(0 .. 9)

\* Two channels do not share a curve file: the digits of their names do not run together.
\* A file that was opened is not one that was never assigned.
ASSUME PathAssumption ==
  /\ \A n, m \in Numbers : \A c, d \in ChannelNames :
       path_of(n, c) = path_of(m, d) => n = m /\ c = d
  /\ NoFile \notin Paths

VARIABLES
  kind,               \* the kind of the file that is read
  frames, channels,   \* the heaps of frame_t and channel_t: sequences of nodes
  first_channel,      \* dlis->channels
  current_frame, current_channel,
  seq_num, parsing_set_type,
  parsing_frame_index,
  disk,               \* the files opened so far: the indexes of their lines
  closed,             \* the files closed
  report,             \* the frames of the message "ended"
  within,             \* what was read of the record: none, set, object
  pc,                 \* eflr, row; done; or exit, wild: exit(-1), a pointer never assigned
  declared,           \* history: the channels named by each frame, in order
  described,          \* history: the dimension of each channel that had its CHANNEL object
  rows                \* history: the index channel's samples in the rows of each frame

catalog == <<frames, channels, first_channel, current_frame, current_channel>>
outputs == <<disk, closed, report>>
history == <<declared, described, rows>>
state == <<seq_num, parsing_set_type, within, parsing_frame_index, pc>>
vars == <<kind, catalog, state, outputs, history>>

frame_init == [seq_num |-> 0, name |-> NoName, index_type |-> FALSE, channels |-> NULL,
               current_channel |-> NULL, next |-> NULL, index_min |-> 1, index_max |-> 1]
\* Mutant of channel_init: no dimension.
channel_init_zero == [index |-> 0, seq_num |-> 0, name |-> NoName, dimension |-> 0, fp |-> NoFile,
                      next |-> NULL, f_next |-> NULL]
channel_init == [index |-> 0, seq_num |-> 0, name |-> NoName, dimension |-> 1, fp |-> NoFile,
                 next |-> NULL, f_next |-> NULL]

(***************************************************************************)
(* The nodes of a list that starts at head and goes on by link.  As many   *)
(* steps as there are nodes reach its end; a cycle would make it longer.   *)
(***************************************************************************)
Chain(head, link) ==
  LET nth[i \in 0 .. Len(link)] ==
        IF i = 0 THEN head ELSE IF nth[i - 1] = NULL THEN NULL ELSE link[nth[i - 1]]
      n == CHOOSE i \in 0 .. Len(link) + 1 : /\ i <= Len(link) => nth[i] = NULL
                                             /\ \A j \in 0 .. i - 1 : nth[j] # NULL
  IN [i \in 1 .. n |-> nth[i - 1]]

next_frame == [k \in DOMAIN frames |-> frames[k].next]
next_channel == [k \in DOMAIN channels |-> channels[k].next]
f_next == [k \in DOMAIN channels |-> channels[k].f_next]

frame_list == Chain(HEAD, next_frame)
channel_list == Chain(first_channel, next_channel)
channels_of(f) == Chain(frames[f].channels, f_next)

\* The first node of a list that is in the set, NULL when none is.
First(list, set) ==
  IF \A i \in DOMAIN list : list[i] \notin set THEN NULL
  ELSE list[CHOOSE i \in DOMAIN list : /\ list[i] \in set
                                       /\ \A j \in 1 .. i - 1 : list[j] \notin set]

Last(list) == list[Len(list)]

\* A function that is also defined at d: a file opened "w", an entry of the history.
Extended(f, d, e) == [x \in DOMAIN f \cup {d} |-> IF x = d THEN e ELSE f[x]]

\* Mutants of the next two: the logical file is not compared.
named_channels_anywhere(name) == { k \in DOMAIN channels : channels[k].name = name }
named_frames_anywhere(name) == { k \in DOMAIN frames : frames[k].name = name }
\* channel_obname_cmp, frame_obname_cmp
named_channels(name) ==
  { k \in DOMAIN channels : channels[k].seq_num = seq_num /\ channels[k].name = name }
named_frames(name) ==
  { k \in DOMAIN frames : frames[k].seq_num = seq_num /\ frames[k].name = name }

Init ==
  /\ kind \in Kinds
  /\ frames = << [frame_init EXCEPT !.index_min = 0, !.index_max = 0] >>
  /\ channels = <<>> /\ first_channel = NULL
  /\ current_frame = NULL /\ current_channel = NULL
  /\ seq_num = 0 /\ parsing_set_type = "none" /\ parsing_frame_index = 0
  /\ disk = [p \in {} |-> <<>>] /\ closed = {} /\ report = {}
  /\ pc = "eflr" /\ within = "none"
  /\ declared = [f \in {} |-> <<>>] /\ described = [c \in {} |-> 1]
  /\ rows = [f \in {} |-> <<>>]

-----------------------------------------------------------------------------
(***************************************************************************)
(* The file.  A logical file starts with its header; its sequence number   *)
(* is one more than that of the one before.  A record holds one set, of    *)
(* objects of one type, or one row.  In a logical file a frame and a       *)
(* channel have one object each, a channel is named by one frame, and the  *)
(* rows of a frame come after the frame and, unless early, all its         *)
(* channels.                                                               *)
(***************************************************************************)
FrameKeys == { <<seq_num, f>> : f \in FrameNames }
Declared == DOMAIN declared \cap FrameKeys
Named(c) == \E key \in Declared : \E i \in DOMAIN declared[key] : declared[key][i] = c
current_key == <<seq_num, frames[current_frame].name>>
DataSeen == \E key \in Declared : rows[key] # <<>>

may_hold(type) == type = "FRAME" /\ DataSeen => kind.late
in_set(type) == pc = "eflr" /\ parsing_set_type = type /\ within # "none"
in_object(type) == pc = "eflr" /\ parsing_set_type = type /\ within = "object"
may_have_row(f) == /\ <<seq_num, f>> \in Declared
                   /\ LET names == declared[<<seq_num, f>>]
                      IN \/ kind.early
                         \/ /\ names # <<>>
                            /\ \A i \in DOMAIN names : <<seq_num, names[i]>> \in DOMAIN described
                   /\ Len(rows[<<seq_num, f>>]) < MAX_ROWS

-----------------------------------------------------------------------------
on_eflr_component_set ==
  /\ pc = "eflr" /\ seq_num # 0
  /\ \E type \in {"FRAME", "CHANNEL"} : may_hold(type) /\ parsing_set_type' = type
  /\ within' = "set"
  /\ UNCHANGED <<catalog, seq_num, parsing_frame_index, pc, outputs, history>>

\* The SEQUENCE-NUMBER of a FILE-HEADER; later files go on after the last frame.
on_sequence_number ==
  /\ pc = "eflr"
  /\ seq_num # kind.last
  /\ seq_num' = IF seq_num = 0 THEN kind.first ELSE seq_num + 1
  /\ parsing_set_type' = "FILE-HEADER" /\ within' = "none"
  /\ current_frame' = IF seq_num' > 1 THEN Last(frame_list) ELSE current_frame
  /\ UNCHANGED <<frames, channels, first_channel, current_channel, parsing_frame_index, pc,
                 outputs, history>>

on_frame_object ==
  \E f \in FrameNames :
    LET new == [frame_init EXCEPT !.seq_num = seq_num, !.name = f]
        key == <<seq_num, f>>
    IN /\ in_set("FRAME") /\ key \notin Declared
       /\ Cardinality({f} \cup { k[2] : k \in DOMAIN declared }) <= kind.MAX_FRAMES
       /\ \/ /\ current_frame = NULL
             /\ frames' = [frames EXCEPT ![HEAD] = new]
             /\ current_frame' = HEAD
          \/ /\ current_frame # NULL
             /\ frames' = Append([frames EXCEPT ![current_frame].next = Len(frames) + 1], new)
             /\ current_frame' = Len(frames) + 1
       /\ within' = "object"
       /\ declared' = Extended(declared, key, <<>>)
       /\ rows' = Extended(rows, key, <<>>)
       /\ UNCHANGED <<channels, first_channel, current_channel, seq_num, parsing_set_type,
                      parsing_frame_index, pc, outputs, described>>

\* The INDEX-TYPE of the frame: its first channel is the index.
on_index_type ==
  /\ in_object("FRAME")
  /\ frames' = [frames EXCEPT ![current_frame].index_type = TRUE]
  /\ UNCHANGED <<channels, first_channel, current_frame, current_channel, state, outputs, history>>

(***************************************************************************)
(* A channel named by the frame: taken from the list of channels when its  *)
(* CHANNEL set came first, else a new node, in the frame's list only.      *)
(***************************************************************************)
on_frame_channel ==
  \E c \in ChannelNames :
    LET frame == frames[current_frame]
        known == First(channel_list, named_channels(c))
        node  == IF known # NULL THEN known ELSE Len(channels) + 1
        heap  == IF known # NULL THEN channels
                 ELSE Append(channels, [channel_init EXCEPT !.seq_num = seq_num, !.name = c])
    IN /\ in_object("FRAME") /\ ~Named(c)
       /\ \/ /\ frame.channels = NULL
             /\ channels' = [heap EXCEPT ![node].index = 1]
             /\ frames' = [frames EXCEPT ![current_frame].channels = node,
                                         ![current_frame].current_channel = node]
          \/ /\ frame.channels # NULL
             /\ channels' = [heap EXCEPT ![node].index = heap[frame.current_channel].index + 1,
                                         ![frame.current_channel].f_next = node]
             /\ frames' = [frames EXCEPT ![current_frame].current_channel = node]
       /\ declared' = [declared EXCEPT ![current_key] = Append(@, c)]
       /\ UNCHANGED <<first_channel, current_frame, current_channel, state, outputs,
                      described, rows>>

\* Mutant of found_in_frames: only the list of channels is searched.
found_in_channels(name) == First(channel_list, named_channels(name))
\* The channel nodes of the frames, frame by frame.
found_in_frames(name) ==
  LET having == { i \in DOMAIN frame_list :
                    First(channels_of(frame_list[i]), named_channels(name)) # NULL }
  IN IF having = {} THEN NULL
     ELSE First(channels_of(frame_list[CHOOSE i \in having : \A j \in having : i <= j]),
                named_channels(name))

(***************************************************************************)
(* A channel's own object: its node, found in a frame that named it or     *)
(* new, goes to the end of the list of channels, and its file is opened.   *)
(***************************************************************************)
on_channel_object ==
  \E c \in ChannelNames :
    LET known == found_in_frames(c)
        node  == IF known # NULL THEN known ELSE Len(channels) + 1
        heap  == IF known # NULL THEN channels
                 ELSE Append(channels, [channel_init EXCEPT !.seq_num = seq_num, !.name = c])
        path  == path_of(seq_num, c)
        opened == [heap EXCEPT ![node].fp = path]
    IN /\ in_set("CHANNEL") /\ <<seq_num, c>> \notin DOMAIN described
       /\ \/ /\ current_channel = NULL
             /\ first_channel' = node
             /\ channels' = opened
          \/ /\ current_channel # NULL
             /\ channels' = [opened EXCEPT ![current_channel].next = node]
             /\ UNCHANGED first_channel
       /\ current_channel' = node
       /\ disk' = Extended(disk, path, <<>>)
       /\ within' = "object"
       /\ described' = Extended(described, <<seq_num, c>>, 1)
       /\ UNCHANGED <<frames, current_frame, seq_num, parsing_set_type, parsing_frame_index, pc,
                      closed, report, declared, rows>>

\* A value of DIMENSION, of the channel whose object came last.
on_dimension ==
  \E d \in Dims :
    LET c == channels[current_channel]
        key == <<seq_num, c.name>>
    IN /\ in_object("CHANNEL") /\ c.dimension * d <= kind.MAX_DIMENSION
       /\ \A other \in DOMAIN described \ {key} : described[other] = 1
       /\ channels' = [channels EXCEPT ![current_channel].dimension = @ * d]
       /\ described' = [described EXCEPT ![key] = @ * d]
       /\ UNCHANGED <<frames, first_channel, current_frame, current_channel, state, outputs,
                      declared, rows>>

(***************************************************************************)
(* Rows.  The header gives the frame's name and the number of the row; the *)
(* samples of the frame's channels follow, those of the index channel with *)
(* the depth of the row.                                                   *)
(***************************************************************************)
on_iflr_header ==
  \E f \in FrameNames, depth \in Depths :
    LET node == First(frame_list, named_frames(f))
        key == <<seq_num, f>>
    IN /\ pc = "eflr" /\ may_have_row(f)
       /\ rows' = [rows EXCEPT ![key] = Append(@, depth)]
       /\ parsing_frame_index' = Len(rows'[key])
       /\ within' = "none"
       /\ current_frame' = node
       /\ \/ /\ node = NULL
             /\ pc' = "exit"
             /\ UNCHANGED frames
          \/ /\ node # NULL
             /\ frames' = [frames EXCEPT ![node].current_channel = frames[node].channels]
             /\ pc' = "row"
       /\ UNCHANGED <<channels, first_channel, current_channel, seq_num, parsing_set_type,
                      outputs, declared, described>>

\* An end of data forgets the frame.
on_eod ==
  /\ pc = "eflr" /\ DataSeen
  /\ current_frame' = NULL /\ within' = "none"
  /\ UNCHANGED <<frames, channels, first_channel, current_channel, seq_num, parsing_set_type,
                 parsing_frame_index, pc, outputs, history>>

\* Mutant of index_noted: the first depth is noted at every row.
index_noted_anew(frame, depth) ==
  IF frame.index_type THEN [frame EXCEPT !.index_min = depth, !.index_max = depth]
  ELSE [frame EXCEPT !.index_max = parsing_frame_index]
\* parse_iflr_data notes the index as it reads the samples of the first channel.
index_noted(frame, depth) ==
  IF frame.index_type
  THEN [frame EXCEPT !.index_min = IF parsing_frame_index = 1 THEN depth ELSE @,
                     !.index_max = depth]
  ELSE [frame EXCEPT !.index_max = parsing_frame_index]

\* Mutant of next_of: the row goes on with the list of all channels.
next_in_all(c) == c.next
next_of(c) == c.f_next

\* The samples of one channel: a line in its file, and on to the next channel of the frame.
on_iflr_data ==
  LET frame == frames[current_frame]
      node  == frame.current_channel
      c     == channels[node]
      opened == node # NULL /\ c.fp \in DOMAIN disk
      depth == Last(rows[current_key])
      noted == IF c.index = 1 THEN index_noted(frame, depth) ELSE frame
      index == IF c.index = 1 /\ frame.index_type THEN depth ELSE parsing_frame_index
  IN /\ pc = "row"
     /\ \/ /\ ~opened
           /\ pc' = "wild"
           /\ UNCHANGED <<frames, disk, parsing_frame_index>>
        \/ /\ opened
           /\ disk' = [disk EXCEPT ![c.fp] = Append(@, index)]
           /\ parsing_frame_index' = index
           /\ frames' = [frames EXCEPT ![current_frame] =
                           [noted EXCEPT !.current_channel = next_of(c)]]
           /\ pc' = IF next_of(c) = NULL THEN "eflr" ELSE "row"
     /\ UNCHANGED <<channels, first_channel, current_frame, current_channel, seq_num,
                    parsing_set_type, within, closed, report, history>>

\* Mutant of fps_to_close: the loop stops at the last node.
fps_but_last == [i \in 1 .. Len(channel_list) - 1 |-> channels[channel_list[i]].fp]
\* The files that do_parse closes at the end: those of the list of channels.
fps_to_close == [i \in DOMAIN channel_list |-> channels[channel_list[i]].fp]

(***************************************************************************)
(* The end of the file, at any point of it: the files are closed and the   *)
(* frames reported.                                                        *)
(***************************************************************************)
finish ==
  LET fps == fps_to_close
  IN /\ pc \in {"eflr", "row"}
     /\ closed' = { fps[i] : i \in DOMAIN fps }
     /\ report' = { [seq_num |-> frames[frame_list[i]].seq_num, name |-> frames[frame_list[i]].name,
                     index_min |-> frames[frame_list[i]].index_min,
                     index_max |-> frames[frame_list[i]].index_max] : i \in DOMAIN frame_list }
     /\ pc' = IF \A i, j \in DOMAIN fps : fps[i] \in DOMAIN disk /\ (fps[i] = fps[j] => i = j)
              THEN "done" ELSE "wild"
     /\ UNCHANGED <<catalog, seq_num, parsing_set_type, within, parsing_frame_index, disk, history>>

Next == /\ \/ on_eflr_component_set \/ on_sequence_number
           \/ on_frame_object \/ on_index_type \/ on_frame_channel
           \/ on_channel_object \/ on_dimension
           \/ on_iflr_header \/ on_eod \/ on_iflr_data
           \/ finish
        /\ UNCHANGED kind

Spec == Init /\ [][Next]_vars

-----------------------------------------------------------------------------
Nodes(heap) == {NULL} \cup DOMAIN heap
Lines == Depths \cup 0 .. MAX_ROWS

\* Types: links are NULL or addresses of nodes, dimensions are positive.
TypeOK ==
  /\ frames \in Seq([seq_num : {0} \cup Numbers, name : FrameNames \cup {NoName},
                     index_type : BOOLEAN, channels : Nodes(channels),
                     current_channel : Nodes(channels), next : Nodes(frames),
                     index_min : Lines, index_max : Lines])
  /\ channels \in Seq([index : 0 .. Len(channels), seq_num : Numbers, name : ChannelNames,
                       dimension : 1 .. kind.MAX_DIMENSION, fp : Paths \cup {NoFile},
                       next : Nodes(channels), f_next : Nodes(channels)])
  /\ first_channel \in Nodes(channels) /\ current_channel \in Nodes(channels)
  /\ current_frame \in Nodes(frames)
  /\ seq_num \in {0} \cup Numbers
  /\ parsing_set_type \in {"none", "FILE-HEADER", "FRAME", "CHANNEL"}
  /\ within \in {"none", "set", "object"} /\ parsing_frame_index \in Lines
  /\ DOMAIN disk \subseteq Paths /\ closed \subseteq Paths \cup {NoFile}
  /\ \A p \in DOMAIN disk : disk[p] \in Seq(Lines)
  /\ pc \in {"eflr", "row", "done", "exit", "wild"}

\* Row n of the frame is indexed by its depth or, without an INDEX-TYPE, by n.
frame_node(key) ==
  First(frame_list, { k \in DOMAIN frames : <<frames[k].seq_num, frames[k].name>> = key })
RowIndexes(key) ==
  [n \in DOMAIN rows[key] |-> IF frames[frame_node(key)].index_type THEN rows[key][n] ELSE n]
curve(key, c) == LET p == path_of(key[1], c) IN IF p \in DOMAIN disk THEN disk[p] ELSE <<>>

(***************************************************************************)
(* The catalog is what the file declared, whichever of the FRAME and       *)
(* CHANNEL sets came first and however the logical files follow each       *)
(* other: each frame is in the list with its own channels, in order and    *)
(* counted from 1, and a described channel is the node that the frame      *)
(* reads its rows with, with its dimension.  But for FRAME sets that come  *)
(* late: these cut frames off.                                             *)
(***************************************************************************)
CatalogIsTheFile ==
  ~kind.late => \A key \in DOMAIN declared :
    /\ frame_node(key) # NULL
    /\ LET nodes == channels_of(frame_node(key))
       IN /\ Len(nodes) = Len(declared[key])
          /\ \A i \in DOMAIN nodes :
               LET c == channels[nodes[i]]
                   id == <<key[1], declared[key][i]>>
               IN /\ <<c.seq_num, c.name>> = id /\ c.index = i
                  /\ id \in DOMAIN described =>
                       /\ c.dimension = described[id]
                       /\ \E j \in DOMAIN channel_list : channel_list[j] = nodes[i]

(***************************************************************************)
(* No node's file is used before it is opened: neither by a row of a frame *)
(* nor when the files are closed, where none is closed twice.              *)
(***************************************************************************)
NoWildPointer == pc # "wild"

(***************************************************************************)
(* Even when rows come too early or frames are lost, only the row of a     *)
(* frame that names no channel, or one without its CHANNEL object, uses a  *)
(* pointer that was never assigned; closing the files never does.          *)
(***************************************************************************)
WildOnlyIfEarly ==
  pc = "wild" => LET names == declared[current_key]
                 IN \/ names = <<>>
                    \/ \E i \in DOMAIN names : <<seq_num, names[i]>> \notin DOMAIN described

\* Every file opened is closed at the end, those of channels that no frame named too.
FilesClosed == pc = "done" => closed = DOMAIN disk

(***************************************************************************)
(* The rows of a frame are in the curve files of its channels, with the    *)
(* index of the row; only the last row of a file that stops in the middle  *)
(* of it may be missing in some.  Of a frame that is lost nothing is said. *)
(***************************************************************************)
RowsInCurves ==
  \A key \in DOMAIN declared : frame_node(key) # NULL => \A i \in DOMAIN declared[key] :
    LET indexes == RowIndexes(key)
        lines == curve(key, declared[key][i])
        n == Len(indexes)
    IN \/ lines = indexes
       \/ pc # "eflr" /\ n > 0 /\ lines = SubSeq(indexes, 1, n - 1)

(***************************************************************************)
(* The frames reported at the end have the first and the last index        *)
(* written for their first channel, from which index.js takes the top and  *)
(* the bottom of the dataset; a frame without an index starts at 1.        *)
(***************************************************************************)
TopAndBottom ==
  pc = "done" =>
    \A key \in DOMAIN declared :
      declared[key] # <<>> /\ curve(key, declared[key][1]) # <<>> =>
        LET lines == curve(key, declared[key][1])
        IN \E r \in report :
             /\ <<r.seq_num, r.name>> = key
             /\ r.index_min = IF frames[frame_node(key)].index_type THEN lines[1] ELSE 1
             /\ r.index_max = Last(lines)

(***************************************************************************)
(* A frame that the file declared is found when its rows come: the message *)
(* "the frame ... does not exist!!!" and exit(-1) are for other frames.    *)
(***************************************************************************)
FrameExists == pc # "exit"

(***************************************************************************)
(* The lists implement the layout of Layout: frames and their channels are *)
(* added and never lost or reordered, a row is written across exactly the  *)
(* channels of its frame.                                                  *)
(***************************************************************************)
declared_in_list ==
  { <<frames[frame_list[i]].seq_num, frames[frame_list[i]].name>> : i \in DOMAIN frame_list }
    \ {<<0, NoName>>}
names_of(key) == LET nodes == channels_of(frame_node(key))
                 IN [i \in DOMAIN nodes |-> <<channels[nodes[i]].seq_num, channels[nodes[i]].name>>]

layout_bar == [key \in declared_in_list |-> names_of(key)]
curves_bar == [c \in Numbers \X ChannelNames |-> curve(<<c[1]>>, c[2])]

L == INSTANCE Layout WITH
       FrameIds <- Numbers \X FrameNames, ChannelIds <- Numbers \X ChannelNames,
       Indexes <- Lines,
       layout <- layout_bar, curves <- curves_bar, ended <- pc = "done"
ImplementsLayout == L!LayoutSpec
=============================================================================
