--------------------------- MODULE Catalog_proofs ---------------------------
(***************************************************************************)
(* Theorems about the catalog of frames and channels, for every file:      *)
(* any names, numbers of logical files, dimensions and rows.               *)
(***************************************************************************)
EXTENDS Catalog, Induction

-----------------------------------------------------------------------------
(***************************************************************************)
(* Lists of nodes.  IsList says what Chain computes.                       *)
(***************************************************************************)
At(list, i) == IF i \in DOMAIN list THEN list[i] ELSE NULL
Elements(list) == { list[i] : i \in DOMAIN list }

IsList(list, head, link) ==
  /\ list \in Seq(DOMAIN link)
  /\ \A i, j \in DOMAIN list : list[i] = list[j] => i = j
  /\ head = At(list, 1)
  /\ \A i \in DOMAIN list : link[list[i]] = At(list, i + 1)

-----------------------------------------------------------------------------
(* The inductive invariant. *)

key_of(f) == <<frames[f].seq_num, frames[f].name>>
id_of(k) == <<channels[k].seq_num, channels[k].name>>
id(key, i) == <<key[1], declared[key][i]>>
IsDeclared(f) == key_of(f) \in DOMAIN declared

\* What the history variables may hold.
Histories ==
  /\ declared \in [DOMAIN declared -> Seq(ChannelNames)]
  /\ rows \in [DOMAIN declared -> Seq(Depths)]
  /\ described \in [DOMAIN described -> Nat]
  /\ DOMAIN declared \subseteq Numbers \X FrameNames
  /\ DOMAIN described \subseteq Numbers \X ChannelNames
  /\ \A key \in DOMAIN declared : Len(rows[key]) <= MAX_ROWS
  /\ \A k, l \in DOMAIN declared : \A i \in DOMAIN declared[k], j \in DOMAIN declared[l] :
       id(k, i) = id(l, j) => k = l /\ i = j

\* The links of the nodes make lists without cycles.
Lists ==
  /\ IsList(frame_list, HEAD, next_frame)
  /\ IsList(channel_list, first_channel, next_channel)
  /\ \A f \in Elements(frame_list) : IsList(channels_of(f), frames[f].channels, f_next)

\* The frames in the list: the first may have no name yet.
FramesDeclared ==
  /\ \A f \in Elements(frame_list) :
       \/ IsDeclared(f)
       \/ key_of(f) = <<0, NoName>> /\ frames[f].channels = NULL
  /\ \A f, g \in Elements(frame_list) : key_of(f) = key_of(g) => f = g
  /\ ~kind.late => \A key \in DOMAIN declared : \E f \in Elements(frame_list) : key_of(f) = key

\* Their channels are those the file named, in order.
ChannelsNamed ==
  \A f \in Elements(frame_list) : IsDeclared(f) =>
    /\ Len(channels_of(f)) = Len(declared[key_of(f)])
    /\ \A i \in DOMAIN channels_of(f) :
         /\ id_of(channels_of(f)[i]) = id(key_of(f), i)
         /\ channels[channels_of(f)[i]].index = i
         /\ id_of(channels_of(f)[i]) \in DOMAIN described
              => channels_of(f)[i] \in Elements(channel_list)

\* The channels in the list: those that had their objects.
ChannelsDescribed ==
  /\ DOMAIN described = { id_of(k) : k \in Elements(channel_list) }
  /\ \A k, l \in Elements(channel_list) : id_of(k) = id_of(l) => k = l
  /\ \A k \in Elements(channel_list) :
       /\ channels[k].dimension = described[id_of(k)]
       /\ channels[k].fp = path_of(channels[k].seq_num, channels[k].name)
  /\ \A k \in DOMAIN channels \ Elements(channel_list) :
       channels[k].next = NULL /\ channels[k].dimension = 1 /\ channels[k].fp = NoFile
  /\ \A k \in DOMAIN channels : channels[k].f_next # NULL =>
       \E key \in DOMAIN declared : \E i \in DOMAIN declared[key] : id(key, i) = id_of(k)
  /\ DOMAIN disk = { path_of(c[1], c[2]) : c \in DOMAIN described }

\* Where the parser is.
Cursors ==
  /\ kind \in Kinds
  /\ seq_num \in {0} \cup kind.first .. kind.last
  /\ seq_num = 0 => current_frame = NULL /\ DOMAIN declared = {}
  /\ within # "none" => seq_num # 0
  /\ pc = "row" => within = "none"
  /\ current_frame \in {NULL} \cup Elements(frame_list)
  /\ current_channel = At(channel_list, Len(channel_list))
  /\ in_object("FRAME") =>
       /\ current_frame # NULL
       /\ IsDeclared(current_frame) /\ frames[current_frame].seq_num = seq_num
       /\ frames[current_frame].current_channel
            = At(channels_of(current_frame), Len(channels_of(current_frame)))
       /\ rows[current_key] = <<>>
  /\ in_object("CHANNEL") => current_channel # NULL /\ channels[current_channel].seq_num = seq_num
  /\ ~kind.late /\ pc = "eflr" =>
       /\ in_set("FRAME") => ~DataSeen
       /\ ~DataSeen => IF current_frame = NULL THEN DOMAIN declared = {}
                       ELSE current_frame = Last(frame_list)

\* The lines of the curve of a frame's channel, and what they should be.
lines(f, i) == curve(key_of(f), declared[key_of(f)][i])
indexes(f) == [n \in DOMAIN rows[key_of(f)] |->
                 IF frames[f].index_type THEN rows[key_of(f)][n] ELSE n]
but_last(f) == SubSeq(indexes(f), 1, Len(rows[key_of(f)]) - 1)
names(f) == declared[key_of(f)]

\* The rows of the frames; only the one that is read may miss lines, from channel i on.
Reading(i) ==
  LET f == current_frame IN
  /\ frames[f].current_channel = At(channels_of(f), i)
  /\ i \in 1 .. Len(names(f)) \/ i = 1
  /\ \A j \in DOMAIN names(f) : lines(f, j) = IF j < i THEN indexes(f) ELSE but_last(f)
  /\ parsing_frame_index = IF i = 1 THEN Len(rows[key_of(f)]) ELSE Last(indexes(f))

RowsWritten ==
  /\ pc \in {"done", "exit", "wild"} =>
       \A f \in Elements(frame_list) : IsDeclared(f) => \A j \in DOMAIN names(f) :
         \/ lines(f, j) = indexes(f)
         \/ rows[key_of(f)] # <<>> /\ lines(f, j) = but_last(f)
  /\ pc \in {"eflr", "row"} =>
       \A f \in Elements(frame_list) : IsDeclared(f) =>
         \/ pc = "row" /\ f = current_frame
         \/ \A j \in DOMAIN names(f) : lines(f, j) = indexes(f)
  /\ pc = "row" =>
       /\ current_frame # NULL
       /\ IsDeclared(current_frame) /\ frames[current_frame].seq_num = seq_num
       /\ rows[current_key] # <<>>
       /\ \E i \in Nat : Reading(i)
       /\ ~kind.early =>
            /\ names(current_frame) # <<>>
            /\ \A j \in DOMAIN names(current_frame) :
                 id(key_of(current_frame), j) \in DOMAIN described

\* The file of a channel that no frame named, in any logical file, is empty.
UnnamedEmpty ==
  \A c \in DOMAIN described :
    (\A key \in DOMAIN declared : \A i \in DOMAIN declared[key] : id(key, i) # c)
      => disk[path_of(c[1], c[2])] = <<>>

\* The indexes of the frames' rows.
IndexesNoted ==
  \A f \in Elements(frame_list) : IsDeclared(f) =>
    /\ ~frames[f].index_type => frames[f].index_min = 1
    /\ names(f) # <<>> /\ lines(f, 1) # <<>> =>
         /\ frames[f].index_type => frames[f].index_min = lines(f, 1)[1]
         /\ frames[f].index_max = Last(lines(f, 1))

\* The end.
Closed ==
  pc = "done" =>
    /\ closed = DOMAIN disk
    /\ report = { [seq_num |-> frames[f].seq_num, name |-> frames[f].name,
                   index_min |-> frames[f].index_min, index_max |-> frames[f].index_max] :
                    f \in Elements(frame_list) }

IInv == /\ TypeOK /\ Histories /\ Lists /\ FramesDeclared /\ ChannelsNamed /\ ChannelsDescribed
        /\ Cursors /\ RowsWritten /\ UnnamedEmpty /\ IndexesNoted /\ Closed
        /\ WildOnlyIfEarly /\ (~kind.early => NoWildPointer)

-----------------------------------------------------------------------------
(* Chains. *)

\* Different nodes of a heap are at most as many as it has.
LEMMA AtMostAll ==
  ASSUME NEW n \in Nat, NEW list \in Seq(1 .. n),
         \A i, j \in DOMAIN list : list[i] = list[j] => i = j
  PROVE  Len(list) <= n
  <1>1. list \in [1 .. Len(list) -> 1 .. n] /\ Len(list) \in Nat
    OBVIOUS
  <1>2. list \in Injection(1 .. Len(list), 1 .. n)
    BY <1>1 DEF Injection, IsInjective
  <1>3. IsFiniteSet(1 .. n) /\ Cardinality(1 .. n) = n /\ Cardinality(1 .. Len(list)) = Len(list)
    <2>1. \A b \in Nat : IsFiniteSet(1 .. b) /\ Cardinality(1 .. b) = b
      <3> SUFFICES ASSUME NEW b \in Nat PROVE IsFiniteSet(1 .. b) /\ Cardinality(1 .. b) = b
        OBVIOUS
      <3>1. 1 \in Int /\ b \in Int /\ (IF 1 > b THEN 0 ELSE b - 1 + 1) = b
        OBVIOUS
      <3>2. IsFiniteSet(1 .. b) /\ Cardinality(1 .. b) = IF 1 > b THEN 0 ELSE b - 1 + 1
        BY <3>1, FS_Interval
      <3> QED BY <3>1, <3>2
    <2> QED BY <1>1, <2>1
  <1>4. Cardinality(1 .. Len(list)) <= Cardinality(1 .. n)
    <2> HIDE <1>1
    <2> QED BY <1>2, <1>3, FS_Injection
  <1> QED
    BY <1>3, <1>4

\* The i-th node from the head, as Chain counts them.
Walk(head, link) ==
  CHOOSE nth : nth = [i \in 0 .. Len(link) |->
    IF i = 0 THEN head ELSE IF nth[i - 1] = NULL THEN NULL ELSE link[nth[i - 1]]]

\* Walking n links from the head gives the list, then NULL.
LEMMA WalkAlongList ==
  ASSUME NEW n \in Nat, NEW link, link \in Seq(0 .. n), Len(link) = n,
         NEW head, NEW list, IsList(list, head, link)
  PROVE  \A i \in 0 .. n : Walk(head, link)[i] = At(list, i + 1)
  <1> DEFINE f == [i \in 0 .. n |-> At(list, i + 1)]
             nth == Walk(head, link)
             T == { i \in Nat : i <= n => nth[i] = f[i] }
  <1>1. DOMAIN link = 1 .. n /\ list \in Seq(1 .. n) /\ DOMAIN list = 1 .. Len(list) /\ Len(list) \in Nat
    BY DEF IsList
  <1>2. f = [i \in 0 .. n |->
              IF i = 0 THEN head ELSE IF f[i - 1] = NULL THEN NULL ELSE link[f[i - 1]]]
    <2> SUFFICES ASSUME NEW i \in 0 .. n
                 PROVE  f[i] = IF i = 0 THEN head
                               ELSE IF f[i - 1] = NULL THEN NULL ELSE link[f[i - 1]]
      OBVIOUS
    <2>1. CASE i = 0
      BY <2>1 DEF IsList
    <2>2. CASE i # 0 /\ i \in DOMAIN list
      <3>1. f[i - 1] = list[i] /\ list[i] \in 1 .. n
        BY <1>1, <2>2 DEF At
      <3>2. link[list[i]] = At(list, i + 1)
        BY <2>2 DEF IsList
      <3> QED BY <2>2, <3>1, <3>2 DEF NULL
    <2>3. CASE i # 0 /\ i \notin DOMAIN list
      BY <1>1, <2>3 DEF At
    <2> QED BY <2>1, <2>2, <2>3
  <1>3. nth = [i \in 0 .. n |->
              IF i = 0 THEN head ELSE IF nth[i - 1] = NULL THEN NULL ELSE link[nth[i - 1]]]
    <2> HIDE DEF f
    <2> QED BY <1>2 DEF Walk
  <1>4. 0 \in T
    <2>1. 0 \in 0 .. n
      OBVIOUS
    <2>2. nth[0] = head /\ f[0] = head
      <3> HIDE DEF f, nth
      <3> QED BY <1>2, <1>3, <2>1
    <2> QED BY <2>2
  <1>5. ASSUME NEW i \in Nat, i \in T PROVE i + 1 \in T
    <2>1. CASE i + 1 <= n
      <3>1. nth[i] = f[i]
        BY <1>5, <2>1
      <3>2. i + 1 \in 0 .. n /\ i + 1 # 0 /\ (i + 1) - 1 = i
        BY <2>1
      <3>3. nth[i + 1] = IF nth[i] = NULL THEN NULL ELSE link[nth[i]]
        <4> HIDE DEF f, nth, T
        <4> QED BY <1>3, <3>2
      <3>4. f[i + 1] = IF f[i] = NULL THEN NULL ELSE link[f[i]]
        <4> HIDE DEF f, nth, T
        <4> QED BY <1>2, <3>2
      <3> QED BY <3>1, <3>3, <3>4
    <2>2. CASE ~(i + 1 <= n)
      BY <2>2
    <2> QED BY <2>1, <2>2
  <1>6. Nat \subseteq T
    <2> HIDE DEF T
    <2> QED BY <1>4, <1>5, SetInduction
  <1>7. \A i \in 0 .. n : nth[i] = f[i]
    <2> HIDE DEF f, nth
    <2> QED BY <1>6
  <1> QED
    BY <1>7

\* A chain is the list that the links make.
LEMMA ChainIsList ==
  ASSUME NEW n \in Nat, NEW link, link \in Seq(0 .. n), Len(link) = n,
         NEW head, NEW list, IsList(list, head, link)
  PROVE  Chain(head, link) = list
  <1> DEFINE nth == Walk(head, link)
             Ends(i) == /\ i <= n => nth[i] = NULL
                        /\ \A j \in 0 .. i - 1 : nth[j] # NULL
  <1>1. DOMAIN link = 1 .. n /\ list \in Seq(1 .. n) /\ DOMAIN list = 1 .. Len(list) /\ Len(list) \in Nat
    BY DEF IsList
  <1>2. \A i \in 0 .. n : nth[i] = At(list, i + 1)
    BY WalkAlongList
  <1>3. Len(list) <= n
    BY <1>1, AtMostAll DEF IsList
  <1> HIDE DEF nth
  <1>4. Ends(Len(list))
    BY <1>1, <1>2, <1>3 DEF At, NULL
  <1>5. PICK m \in 0 .. n + 1 : m = (CHOOSE i \in 0 .. n + 1 : Ends(i)) /\ Ends(m)
    <2>1. \E i \in 0 .. n + 1 : Ends(i)
      <3> HIDE DEF Ends
      <3> QED BY <1>1, <1>3, <1>4
    <2> HIDE DEF Ends
    <2> QED BY <2>1
  <1>6. m = Len(list)
    <2>1. CASE m < Len(list)
      <3>1. nth[m] # NULL
        BY <1>4, <2>1
      <3>2. m <= n
        BY <1>1, <1>3, <2>1
      <3> QED BY <1>5, <3>1, <3>2
    <2>2. CASE m > Len(list)
      <3>1. nth[Len(list)] # NULL
        BY <1>1, <1>5, <2>2
      <3> QED BY <1>3, <1>4, <3>1
    <2>3. m \in Int /\ Len(list) \in Int
      BY <1>1
    <2> QED BY <2>1, <2>2, <2>3
  <1>7. Chain(head, link) = [i \in 1 .. m |-> nth[i - 1]]
    BY <1>5, Zenon DEF Chain, nth, Walk
  <1>8. \A i \in 1 .. m : nth[i - 1] = list[i]
    BY <1>1, <1>2, <1>3, <1>6 DEF At
  <1> QED
    BY <1>1, <1>6, <1>7, <1>8

\* A list, up to a node of it, goes on with a new last node.
LEMMA ListCutAndAppended ==
  ASSUME NEW head, NEW link, NEW link2, NEW list, IsList(list, head, link),
         NEW p \in 0 .. Len(list), NEW node, NEW head2,
         DOMAIN link \subseteq DOMAIN link2, node \in DOMAIN link2,
         \A i \in 1 .. p : list[i] # node,
         link2[node] = NULL,
         \A i \in 1 .. p - 1 : link2[list[i]] = link[list[i]],
         p > 0 => link2[list[p]] = node,
         head2 = IF p = 0 THEN node ELSE head
  PROVE  IsList([i \in 1 .. p + 1 |-> IF i = p + 1 THEN node ELSE list[i]], head2, link2)
  <1> DEFINE list2 == [i \in 1 .. p + 1 |-> IF i = p + 1 THEN node ELSE list[i]]
  <1>1. list \in Seq(DOMAIN link) /\ DOMAIN list = 1 .. Len(list) /\ Len(list) \in Nat /\ p \in Nat
    BY DEF IsList
  <1>2. \A i \in 1 .. p : i \in DOMAIN list /\ list[i] \in DOMAIN link
    BY <1>1
  <1>3. list2 \in Seq(DOMAIN link2) /\ DOMAIN list2 = 1 .. p + 1
    <2>1. \A i \in 1 .. p + 1 : list2[i] \in DOMAIN link2
      BY <1>1, <1>2
    <2> QED BY <1>1, <2>1
  <1>4. ASSUME NEW i \in DOMAIN list2, NEW j \in DOMAIN list2, list2[i] = list2[j]
        PROVE  i = j
    <2>1. CASE i = p + 1 \/ j = p + 1
      BY <1>1, <1>2, <1>4, <2>1
    <2>2. CASE i # p + 1 /\ j # p + 1
      <3>1. i \in DOMAIN list /\ j \in DOMAIN list /\ list[i] = list[j]
        BY <1>1, <1>2, <1>4, <2>2
      <3> QED BY <3>1 DEF IsList
    <2> QED BY <2>1, <2>2
  <1>5. head2 = At(list2, 1)
    <2>1. CASE p = 0
      BY <2>1 DEF At
    <2>2. CASE p # 0
      <3>1. 1 \in DOMAIN list /\ list2[1] = list[1] /\ 1 \in DOMAIN list2
        BY <1>1, <2>2
      <3>2. head = list[1]
        BY <3>1 DEF IsList, At
      <3> QED BY <1>1, <2>2, <3>1, <3>2 DEF At
    <2> QED BY <2>1, <2>2
  <1>6. ASSUME NEW i \in DOMAIN list2 PROVE link2[list2[i]] = At(list2, i + 1)
    <2>1. CASE i = p + 1
      BY <1>1, <2>1 DEF At
    <2>2. CASE i = p
      BY <1>1, <2>2 DEF At
    <2>3. CASE i # p + 1 /\ i # p
      <3>1. i \in 1 .. p - 1 /\ i \in DOMAIN list /\ i + 1 \in DOMAIN list
        BY <1>1, <2>3
      <3>2. link[list[i]] = list[i + 1]
        BY <3>1 DEF IsList, At
      <3>3. list2[i] = list[i] /\ i + 1 \in DOMAIN list2 /\ list2[i + 1] = list[i + 1]
        BY <1>1, <3>1
      <3> QED BY <3>1, <3>2, <3>3 DEF At
    <2> QED BY <2>1, <2>2, <2>3
  <1> QED
    <2> HIDE DEF list2
    <2>1. IsList(list2, head2, link2)
      BY <1>3, <1>4, <1>5, <1>6 DEF IsList
    <2> QED BY <2>1 DEF list2

\* A new node after the last.
LEMMA ListAppended ==
  ASSUME NEW head, NEW link, NEW link2, NEW list, IsList(list, head, link),
         NEW node, NEW head2,
         DOMAIN link \subseteq DOMAIN link2, node \in DOMAIN link2 \ Elements(list),
         link2[node] = NULL,
         \A i \in 1 .. Len(list) - 1 : link2[list[i]] = link[list[i]],
         list # <<>> => link2[list[Len(list)]] = node,
         head2 = IF list = <<>> THEN node ELSE head
  PROVE  IsList(Append(list, node), head2, link2)
  <1>1. list \in Seq(DOMAIN link) /\ DOMAIN list = 1 .. Len(list) /\ Len(list) \in Nat
    BY DEF IsList
  <1>2. list = <<>> <=> Len(list) = 0
    BY <1>1
  <1>3. \A i \in 1 .. Len(list) : list[i] # node
    BY <1>1 DEF Elements
  <1>4. IsList([i \in 1 .. Len(list) + 1 |-> IF i = Len(list) + 1 THEN node ELSE list[i]], head2, link2)
    <2>1. Len(list) \in 0 .. Len(list) /\ (Len(list) > 0 => link2[list[Len(list)]] = node)
      BY <1>1, <1>2
    <2>2. head2 = IF Len(list) = 0 THEN node ELSE head
      BY <1>2
    <2> QED BY <1>3, <2>1, <2>2, ListCutAndAppended
  <1>5. Append(list, node) = [i \in 1 .. Len(list) + 1 |-> IF i = Len(list) + 1 THEN node ELSE list[i]]
    <2>1. list \in Seq(DOMAIN link2) /\ node \in DOMAIN link2
      BY <1>1
    <2>2. Append(list, node) \in Seq(DOMAIN link2)
      BY <2>1
    <2>3. Len(Append(list, node)) = Len(list) + 1
      BY <2>1
    <2>4. \A i \in 1 .. Len(list) + 1 :
            Append(list, node)[i] = IF i = Len(list) + 1 THEN node ELSE list[i]
      BY <1>1, <2>1
    <2> DEFINE app == Append(list, node)
    <2>5. app = [i \in 1 .. Len(list) + 1 |-> app[i]]
      <3>1. app \in Seq(DOMAIN link2) /\ Len(app) = Len(list) + 1
        BY <2>2, <2>3
      <3> HIDE DEF app
      <3> QED BY <3>1
    <2>6. \A i \in 1 .. Len(list) + 1 : app[i] = IF i = Len(list) + 1 THEN node ELSE list[i]
      BY <2>4
    <2> HIDE DEF app
    <2>7. app = [i \in 1 .. Len(list) + 1 |-> IF i = Len(list) + 1 THEN node ELSE list[i]]
      BY <2>5, <2>6
    <2> QED BY <2>7 DEF app
  <1> QED
    BY <1>4, <1>5

\* Links of other nodes do not matter.
LEMMA ListUndisturbed ==
  ASSUME NEW head, NEW link, NEW link2, NEW list, IsList(list, head, link),
         DOMAIN link \subseteq DOMAIN link2,
         \A k \in Elements(list) : link2[k] = link[k]
  PROVE  IsList(list, head, link2)
  <1>1. list \in Seq(DOMAIN link2)
    BY DEF IsList
  <1>2. \A i \in DOMAIN list : link2[list[i]] = link[list[i]]
    BY DEF Elements
  <1> QED
    BY <1>1, <1>2 DEF IsList

\* A set of naturals that is not empty has a least one.
LEMMA LeastNatural ==
  ASSUME NEW S \in SUBSET Nat, S # {}
  PROVE  \E m \in S : \A s \in S : m <= s
  <1> DEFINE T == { n \in Nat : \A k \in 0 .. n : k \notin S }
  <1> SUFFICES ASSUME \A m \in S : \E s \in S : ~(m <= s)
               PROVE  FALSE
    OBVIOUS
  <1>1. 0 \in T
    <2>1. 0 \notin S
      OBVIOUS
    <2>2. \A k \in 0 .. 0 : k = 0
      OBVIOUS
    <2> QED BY <2>1, <2>2
  <1>2. ASSUME NEW n \in Nat, n \in T PROVE n + 1 \in T
    <2>1. n + 1 \notin S
      <3> SUFFICES ASSUME n + 1 \in S PROVE FALSE
        OBVIOUS
      <3>1. PICK s \in S : ~(n + 1 <= s)
        OBVIOUS
      <3>2. s \in 0 .. n
        BY <3>1
      <3> QED BY <1>2, <3>2
    <2>2. ASSUME NEW k \in 0 .. n + 1 PROVE k \notin S
      <3>1. k \in 0 .. n \/ k = n + 1
        OBVIOUS
      <3> QED BY <1>2, <2>1, <3>1
    <2> QED BY <2>2
  <1>3. Nat \subseteq T
    <2> HIDE DEF T
    <2> QED BY <1>1, <1>2, SetInduction
  <1>4. PICK s \in S : TRUE
    OBVIOUS
  <1>5. s \in T /\ s \in 0 .. s
    <2> HIDE DEF T
    <2> QED BY <1>3
  <1> QED
    BY <1>5

\* What First finds.
LEMMA FirstFinds ==
  ASSUME NEW n \in Nat, NEW list \in Seq(1 .. n), NEW set
  PROVE  /\ First(list, set) = NULL => \A k \in Elements(list) : k \notin set
         /\ First(list, set) # NULL => First(list, set) \in Elements(list) \cap set
  <1> DEFINE where == { i \in DOMAIN list : list[i] \in set }
             Is(i) == list[i] \in set /\ \A j \in 1 .. i - 1 : list[j] \notin set
  <1>1. DOMAIN list = 1 .. Len(list) /\ Len(list) \in Nat
    OBVIOUS
  <1>2. CASE where = {}
    BY <1>2 DEF First, Elements
  <1>3. CASE where # {}
    <2>1. where \in SUBSET Nat
      BY <1>1
    <2>2. PICK m \in where : \A s \in where : m <= s
      <3> HIDE DEF where
      <3> QED BY <1>3, <2>1, LeastNatural
    <2>3. \A j \in 1 .. m - 1 : j \in DOMAIN list
      BY <1>1
    <2>4. ASSUME NEW j \in 1 .. m - 1 PROVE list[j] \notin set
      <3> SUFFICES ASSUME list[j] \in set PROVE FALSE
        OBVIOUS
      <3>1. j \in where /\ m \in Nat
        BY <1>1, <2>3
      <3>2. m <= j
        BY <2>2, <3>1
      <3> QED BY <3>1, <3>2
    <2>5. \E i \in DOMAIN list : Is(i)
      BY <2>4
    <2>6. PICK i \in DOMAIN list : i = (CHOOSE x \in DOMAIN list : Is(x)) /\ Is(i)
      <3> HIDE DEF Is
      <3> QED BY <2>5
    <2>7. First(list, set) = list[i]
      BY <1>3, <2>6 DEF First
    <2>8. list[i] \in 1 .. n
      OBVIOUS
    <2>9. list[i] # NULL /\ list[i] \in Elements(list) \cap set
      <3> HIDE DEF where
      <3>1. list[i] # NULL
        BY <2>8 DEF NULL
      <3>2. list[i] \in Elements(list)
        BY DEF Elements
      <3> QED BY <2>6, <3>1, <3>2
    <2> QED BY <2>7, <2>9
  <1> QED
    BY <1>2, <1>3

\* The list that Chain collects is the one list these links make.
LEMMA ChainOfNodes ==
  ASSUME NEW n \in Nat, NEW link \in [1 .. n -> 0 .. n], NEW head, NEW list, IsList(list, head, link)
  PROVE  Chain(head, link) = list
  <1>1. link \in Seq(0 .. n) /\ Len(link) = n
    OBVIOUS
  <1> QED
    BY <1>1, ChainIsList

-----------------------------------------------------------------------------
(* The nodes and their types. *)

FrameNode == [seq_num : {0} \cup Numbers, name : FrameNames \cup {NoName},
              index_type : BOOLEAN, channels : Nodes(channels),
              current_channel : Nodes(channels), next : Nodes(frames),
              index_min : Lines, index_max : Lines]
ChannelNode == [index : 0 .. Len(channels), seq_num : Numbers, name : ChannelNames,
                dimension : 1 .. kind.MAX_DIMENSION, fp : Paths \cup {NoFile},
                next : Nodes(channels), f_next : Nodes(channels)]

\* Both heaps are sequences of nodes, and their links are NULL or nodes.
LEMMA Heaps ==
  ASSUME TypeOK
  PROVE  /\ frames \in Seq(FrameNode) /\ Len(frames) \in Nat /\ DOMAIN frames = 1 .. Len(frames)
         /\ channels \in Seq(ChannelNode) /\ Len(channels) \in Nat /\ DOMAIN channels = 1 .. Len(channels)
         /\ Nodes(frames) = 0 .. Len(frames) /\ Nodes(channels) = 0 .. Len(channels)
         /\ \A f \in DOMAIN frames : frames[f] \in FrameNode
         /\ \A k \in DOMAIN channels : channels[k] \in ChannelNode
         /\ next_frame \in [1 .. Len(frames) -> 0 .. Len(frames)]
         /\ next_channel \in [1 .. Len(channels) -> 0 .. Len(channels)]
         /\ f_next \in [1 .. Len(channels) -> 0 .. Len(channels)]
         /\ DOMAIN next_frame = DOMAIN frames
         /\ DOMAIN next_channel = DOMAIN channels /\ DOMAIN f_next = DOMAIN channels
  <1>1. frames \in Seq(FrameNode) /\ channels \in Seq(ChannelNode)
    BY DEF TypeOK, FrameNode, ChannelNode
  <1>2. /\ Len(frames) \in Nat /\ DOMAIN frames = 1 .. Len(frames)
        /\ Len(channels) \in Nat /\ DOMAIN channels = 1 .. Len(channels)
    BY <1>1
  <1>3. Nodes(frames) = 0 .. Len(frames) /\ Nodes(channels) = 0 .. Len(channels)
    BY <1>2 DEF Nodes, NULL
  <1>4. /\ \A f \in DOMAIN frames : frames[f] \in FrameNode
        /\ \A k \in DOMAIN channels : channels[k] \in ChannelNode
    BY <1>1
  <1>5. /\ \A f \in DOMAIN frames : frames[f].next \in Nodes(frames)
        /\ \A k \in DOMAIN channels :
             channels[k].next \in Nodes(channels) /\ channels[k].f_next \in Nodes(channels)
    BY <1>4 DEF FrameNode, ChannelNode
  <1> QED
    BY <1>1, <1>2, <1>3, <1>4, <1>5 DEF next_frame, next_channel, f_next

\* The nodes in the lists are nodes of the heaps.
LEMMA Listed ==
  ASSUME TypeOK, Lists
  PROVE  /\ frame_list \in Seq(1 .. Len(frames)) /\ Elements(frame_list) \subseteq DOMAIN frames
         /\ DOMAIN frame_list = 1 .. Len(frame_list) /\ Len(frame_list) \in Nat
         /\ 1 \in DOMAIN frame_list /\ HEAD \in Elements(frame_list)
         /\ frame_list # <<>> /\ Last(frame_list) \in Elements(frame_list)
         /\ channel_list \in Seq(1 .. Len(channels))
         /\ Elements(channel_list) \subseteq DOMAIN channels
         /\ DOMAIN channel_list = 1 .. Len(channel_list) /\ Len(channel_list) \in Nat
         /\ \A f \in Elements(frame_list) :
              /\ channels_of(f) \in Seq(1 .. Len(channels))
              /\ Elements(channels_of(f)) \subseteq DOMAIN channels
              /\ DOMAIN channels_of(f) = 1 .. Len(channels_of(f)) /\ Len(channels_of(f)) \in Nat
  <1>1. ASSUME NEW X, NEW list \in Seq(X)
        PROVE  Elements(list) \subseteq X /\ DOMAIN list = 1 .. Len(list) /\ Len(list) \in Nat
    BY DEF Elements
  <1>2. frame_list \in Seq(1 .. Len(frames)) /\ channel_list \in Seq(1 .. Len(channels))
    BY Heaps DEF Lists, IsList
  <1>3. \A f \in Elements(frame_list) : channels_of(f) \in Seq(1 .. Len(channels))
    BY Heaps DEF Lists, IsList
  <1>4. 1 \in DOMAIN frame_list
    <2>1. HEAD = At(frame_list, 1)
      BY DEF Lists, IsList
    <2> QED BY <2>1 DEF At, HEAD, NULL
  <1>5. HEAD \in Elements(frame_list)
    <2>1. HEAD = frame_list[1]
      BY <1>4 DEF Lists, IsList, At
    <2> QED BY <1>4, <2>1 DEF Elements
  <1>6. Last(frame_list) \in Elements(frame_list)
    <2>1. Len(frame_list) \in DOMAIN frame_list
      BY <1>1, <1>2, <1>4
    <2> QED BY <2>1 DEF Last, Elements
  <1>7. frame_list # <<>>
    BY <1>1, <1>2, <1>4
  <1> QED
    BY <1>1, <1>2, <1>3, <1>4, <1>5, <1>6, <1>7, Heaps

\* A step that changes no link, no name and no channel's index or file.
SameNodes ==
  /\ DOMAIN frames' = DOMAIN frames /\ DOMAIN channels' = DOMAIN channels
  /\ \A f \in DOMAIN frames :
       /\ frames'[f].seq_num = frames[f].seq_num /\ frames'[f].name = frames[f].name
       /\ frames'[f].channels = frames[f].channels /\ frames'[f].next = frames[f].next
  /\ \A k \in DOMAIN channels :
       /\ channels'[k].seq_num = channels[k].seq_num /\ channels'[k].name = channels[k].name
       /\ channels'[k].index = channels[k].index /\ channels'[k].fp = channels[k].fp
       /\ channels'[k].next = channels[k].next /\ channels'[k].f_next = channels[k].f_next
  /\ UNCHANGED <<kind, first_channel, declared>>
  /\ DOMAIN described' = DOMAIN described /\ DOMAIN disk' = DOMAIN disk

\* A step that leaves the links alone leaves every list as it was.
LEMMA SameLists ==
  ASSUME TypeOK, Lists, SameNodes
  PROVE  /\ frame_list' = frame_list /\ channel_list' = channel_list
         /\ \A f \in DOMAIN frames : channels_of(f)' = channels_of(f)
         /\ Lists'
  <1>1. next_frame' = next_frame /\ next_channel' = next_channel /\ f_next' = f_next
    BY DEF SameNodes, next_frame, next_channel, f_next
  <1>2. frame_list' = frame_list /\ channel_list' = channel_list
    BY <1>1 DEF SameNodes, frame_list, channel_list
  <1>3. \A f \in DOMAIN frames : channels_of(f)' = channels_of(f)
    BY <1>1 DEF SameNodes, channels_of
  <1>4. IsList(frame_list, HEAD, next_frame)' /\ IsList(channel_list, first_channel, next_channel)'
    <2>1. IsList(frame_list, HEAD, next_frame) /\ IsList(channel_list, first_channel, next_channel)
      BY DEF Lists
    <2> QED BY <1>1, <1>2, <2>1 DEF SameNodes
  <1>5. \A f \in Elements(frame_list) : IsList(channels_of(f), frames[f].channels, f_next)'
    <2> SUFFICES ASSUME NEW f \in Elements(frame_list)
                 PROVE  IsList(channels_of(f)', frames'[f].channels, f_next')
      OBVIOUS
    <2>1. IsList(channels_of(f), frames[f].channels, f_next) /\ f \in DOMAIN frames
      BY Listed DEF Lists
    <2>2. frames'[f].channels = frames[f].channels
      BY <2>1 DEF SameNodes
    <2> QED BY <1>1, <1>3, <2>1, <2>2
  <1>6. Lists'
    BY <1>2, <1>4, <1>5 DEF Lists
  <1> QED
    BY <1>2, <1>3, <1>6

\* It leaves what the frames and channels are called, and what they are declared as.
LEMMA SameNames ==
  ASSUME TypeOK, Lists, FramesDeclared, ChannelsNamed, SameNodes
  PROVE  /\ \A f \in Elements(frame_list) : key_of(f)' = key_of(f) /\ (IsDeclared(f)' <=> IsDeclared(f))
         /\ \A k \in DOMAIN channels : id_of(k)' = id_of(k)
         /\ \A key, i : id(key, i)' = id(key, i)
         /\ FramesDeclared' /\ ChannelsNamed'
  <1>1. ASSUME NEW f \in Elements(frame_list)
        PROVE  key_of(f)' = key_of(f) /\ (IsDeclared(f)' <=> IsDeclared(f)) /\ f \in DOMAIN frames
    BY Listed DEF SameNodes, key_of, IsDeclared
  <1>2. \A k \in DOMAIN channels : id_of(k)' = id_of(k)
    BY DEF SameNodes, id_of
  <1>3. \A key, i : id(key, i)' = id(key, i)
    BY DEF SameNodes, id
  <1>4. Elements(frame_list)' = Elements(frame_list) /\ Elements(channel_list)' = Elements(channel_list)
    BY SameLists
  <1>5. FramesDeclared'
    <2>1. ASSUME NEW f \in Elements(frame_list)
          PROVE  IsDeclared(f)' \/ (key_of(f) = <<0, NoName>> /\ frames[f].channels = NULL)'
      BY <1>1 DEF FramesDeclared, SameNodes
    <2>2. \A f, g \in Elements(frame_list) : key_of(f)' = key_of(g)' => f = g
      BY <1>1 DEF FramesDeclared
    <2>3. ~kind'.late => \A key \in DOMAIN declared' : \E f \in Elements(frame_list) : key_of(f)' = key
      BY <1>1 DEF FramesDeclared, SameNodes
    <2> QED BY <1>4, <2>1, <2>2, <2>3 DEF FramesDeclared
  <1>6. ChannelsNamed'
    <2> SUFFICES ASSUME NEW f \in Elements(frame_list), IsDeclared(f)'
                 PROVE  (/\ Len(channels_of(f)) = Len(declared[key_of(f)])
                         /\ \A i \in DOMAIN channels_of(f) :
                              /\ id_of(channels_of(f)[i]) = id(key_of(f), i)
                              /\ channels[channels_of(f)[i]].index = i
                              /\ id_of(channels_of(f)[i]) \in DOMAIN described
                                   => channels_of(f)[i] \in Elements(channel_list))'
      BY <1>4 DEF ChannelsNamed
    <2>1. IsDeclared(f) /\ f \in DOMAIN frames /\ key_of(f)' = key_of(f) /\ channels_of(f)' = channels_of(f)
      BY <1>1, SameLists
    <2>2. Len(channels_of(f)) = Len(declared[key_of(f)]) /\ declared' = declared
      BY <2>1 DEF ChannelsNamed, SameNodes
    <2>3. ASSUME NEW i \in DOMAIN channels_of(f)
          PROVE  (/\ id_of(channels_of(f)[i]) = id(key_of(f), i)
                  /\ channels[channels_of(f)[i]].index = i
                  /\ id_of(channels_of(f)[i]) \in DOMAIN described
                       => channels_of(f)[i] \in Elements(channel_list))'
      <3>1. PICK k : k = channels_of(f)[i]
        OBVIOUS
      <3>2. k \in DOMAIN channels
        <4>1. k \in Elements(channels_of(f))
          BY <3>1 DEF Elements
        <4> QED BY <4>1, Listed
      <3>3. /\ id_of(k) = id(key_of(f), i) /\ channels[k].index = i
            /\ id_of(k) \in DOMAIN described => k \in Elements(channel_list)
        BY <2>1, <3>1 DEF ChannelsNamed
      <3>4. id_of(k)' = id_of(k) /\ channels'[k].index = channels[k].index
        BY <1>2, <3>2 DEF SameNodes
      <3>5. id(key_of(f), i)' = id(key_of(f), i)
        BY <2>1, <2>2 DEF id
      <3>6. channels_of(f)'[i] = k
        BY <2>1, <3>1
      <3>7. (id_of(channels_of(f)[i]))' = id_of(k)'
        BY <3>6 DEF id_of
      <3> QED BY <1>4, <3>3, <3>4, <3>5, <3>6, <3>7 DEF SameNodes
    <2> QED BY <2>1, <2>2, <2>3
  <1> QED
    BY <1>1, <1>2, <1>3, <1>5, <1>6

\* It keeps ChannelsDescribed where a dimension changes with what was described.
LEMMA SameDescribed ==
  ASSUME TypeOK, Lists, Histories, ChannelsDescribed, SameNodes,
         \A k \in Elements(channel_list) : channels'[k].dimension = described'[id_of(k)],
         \A k \in DOMAIN channels \ Elements(channel_list) :
           channels'[k].dimension = channels[k].dimension
  PROVE  ChannelsDescribed'
  <1>1. Elements(channel_list)' = Elements(channel_list) /\ Elements(channel_list) \subseteq DOMAIN channels
    BY SameLists, Listed
  <1>2. \A k \in DOMAIN channels : id_of(k)' = id_of(k)
    BY DEF SameNodes, id_of
  <1>3. DOMAIN described' = { id_of(k)' : k \in Elements(channel_list) }
    BY <1>1, <1>2 DEF ChannelsDescribed, SameNodes
  <1>4. \A k, l \in Elements(channel_list) : id_of(k)' = id_of(l)' => k = l
    BY <1>1, <1>2 DEF ChannelsDescribed
  <1>5. ASSUME NEW k \in Elements(channel_list)
        PROVE  /\ channels'[k].dimension = described'[id_of(k)']
               /\ channels'[k].fp = path_of(channels'[k].seq_num, channels'[k].name)
    BY <1>1, <1>2 DEF ChannelsDescribed, SameNodes
  <1>6. ASSUME NEW k \in DOMAIN channels \ Elements(channel_list)
        PROVE  channels'[k].next = NULL /\ channels'[k].dimension = 1 /\ channels'[k].fp = NoFile
    BY DEF ChannelsDescribed, SameNodes
  <1>7. ASSUME NEW k \in DOMAIN channels, channels'[k].f_next # NULL
        PROVE  \E key \in DOMAIN declared' : \E i \in DOMAIN declared'[key] : id(key, i)' = id_of(k)'
    <2>1. PICK key \in DOMAIN declared : \E i \in DOMAIN declared[key] : id(key, i) = id_of(k)
      BY <1>7 DEF ChannelsDescribed, SameNodes
    <2> QED BY <1>2, <2>1 DEF SameNodes, id
  <1>8. DOMAIN disk' = { path_of(c[1], c[2]) : c \in DOMAIN described' }
    BY DEF ChannelsDescribed, SameNodes
  <1>9. DOMAIN channels' = DOMAIN channels
    BY DEF SameNodes
  <1> QED
    BY <1>1, <1>3, <1>4, <1>5, <1>6, <1>7, <1>8, <1>9 DEF ChannelsDescribed

\* The rows and the curves stay when nothing is written.
LEMMA SameCurves ==
  ASSUME TypeOK, Lists, FramesDeclared, ChannelsNamed, SameNodes, UNCHANGED <<disk, rows>>,
         \A f \in Elements(frame_list) : frames'[f].index_type = frames[f].index_type
  PROVE  \A f \in Elements(frame_list) :
           /\ key_of(f)' = key_of(f) /\ names(f)' = names(f) /\ (IsDeclared(f)' <=> IsDeclared(f))
           /\ indexes(f)' = indexes(f) /\ but_last(f)' = but_last(f)
           /\ \A i : lines(f, i)' = lines(f, i)
  <1> SUFFICES ASSUME NEW f \in Elements(frame_list)
               PROVE  /\ key_of(f)' = key_of(f) /\ names(f)' = names(f) /\ (IsDeclared(f)' <=> IsDeclared(f))
                      /\ indexes(f)' = indexes(f) /\ but_last(f)' = but_last(f)
                      /\ \A i : lines(f, i)' = lines(f, i)
    OBVIOUS
  <1>1. key_of(f)' = key_of(f) /\ declared' = declared /\ (IsDeclared(f)' <=> IsDeclared(f))
    BY SameNames DEF SameNodes
  <1>2. names(f)' = names(f)
    BY <1>1 DEF names
  <1>3. indexes(f)' = indexes(f)
    BY <1>1 DEF indexes
  <1>4. but_last(f)' = but_last(f)
    BY <1>1, <1>3 DEF but_last
  <1>5. \A i : lines(f, i)' = lines(f, i)
    BY <1>1 DEF lines, curve
  <1> QED
    BY <1>1, <1>2, <1>3, <1>4, <1>5

\* No frame in the list has index 0.
LEMMA NodesNotNull ==
  ASSUME TypeOK, Lists
  PROVE  NULL \notin Elements(frame_list) /\ NULL \notin Elements(channel_list)
  <1> QED
    BY Listed, Heaps DEF NULL

\* The files of channels that no frame named stay empty when neither files nor names change.
LEMMA SameUnnamed ==
  ASSUME UnnamedEmpty, UNCHANGED <<disk, declared>>, DOMAIN described' = DOMAIN described
  PROVE  UnnamedEmpty'
  <1> QED
    BY DEF UnnamedEmpty, id

\* Steps that read a component and build nothing.
LEMMA PlainStep ==
  ASSUME IInv, UNCHANGED <<kind, frames, channels, first_channel, current_channel, outputs, history>>,
         pc = "eflr", pc' = "eflr"
  PROVE  /\ Histories' /\ Lists' /\ FramesDeclared' /\ ChannelsNamed' /\ ChannelsDescribed'
         /\ RowsWritten' /\ UnnamedEmpty' /\ IndexesNoted' /\ Closed' /\ WildOnlyIfEarly' /\ NoWildPointer'
         /\ SameNodes /\ frame_list' = frame_list /\ channel_list' = channel_list
         /\ \A f : channels_of(f)' = channels_of(f) /\ key_of(f)' = key_of(f)
  <1> USE DEF IInv
  <1>1. SameNodes
    BY DEF SameNodes, history, outputs
  <1>2. Lists' /\ FramesDeclared' /\ ChannelsNamed'
    BY <1>1, SameLists, SameNames
  <1>3. /\ frame_list' = frame_list /\ channel_list' = channel_list
        /\ \A f : channels_of(f)' = channels_of(f) /\ key_of(f)' = key_of(f)
    BY DEF frame_list, channel_list, channels_of, next_frame, next_channel, f_next, key_of
  <1>4. ChannelsDescribed'
    <2>1. \A k \in Elements(channel_list) : channels'[k].dimension = described'[id_of(k)]
      BY DEF ChannelsDescribed, history
    <2> QED BY <1>1, <2>1, SameDescribed
  <1>5. Histories'
    BY DEF Histories, history, id
  <1>6. \A f : /\ names(f)' = names(f) /\ (IsDeclared(f)' <=> IsDeclared(f))
               /\ indexes(f)' = indexes(f) /\ \A i : lines(f, i)' = lines(f, i)
    BY DEF names, IsDeclared, indexes, lines, curve, key_of, history, outputs
  <1>7. RowsWritten'
    <2> SUFFICES ASSUME NEW f \in Elements(frame_list), IsDeclared(f), NEW j \in DOMAIN names(f)
                 PROVE  lines(f, j) = indexes(f)
      BY <1>3, <1>6 DEF RowsWritten
    <2> QED BY DEF RowsWritten
  <1>8. IndexesNoted'
    <2> SUFFICES ASSUME NEW f \in Elements(frame_list), IsDeclared(f)
                 PROVE  /\ ~frames[f].index_type => frames[f].index_min = 1
                        /\ names(f) # <<>> /\ lines(f, 1) # <<>> =>
                             /\ frames[f].index_type => frames[f].index_min = lines(f, 1)[1]
                             /\ frames[f].index_max = Last(lines(f, 1))
      BY <1>3, <1>6 DEF IndexesNoted
    <2> QED BY DEF IndexesNoted
  <1>9. Closed' /\ WildOnlyIfEarly' /\ NoWildPointer'
    BY DEF Closed, WildOnlyIfEarly, NoWildPointer
  <1>10. UnnamedEmpty'
    BY SameUnnamed DEF history, outputs
  <1> QED
    BY <1>1, <1>2, <1>3, <1>4, <1>5, <1>7, <1>8, <1>9, <1>10

\* on_eflr_component_set: a set begins, nothing is in it yet.
LEMMA OnSet == IInv /\ on_eflr_component_set /\ UNCHANGED kind => IInv'
  <1> SUFFICES ASSUME IInv, on_eflr_component_set, UNCHANGED kind PROVE IInv'
    OBVIOUS
  <1> USE DEF IInv
  <1>1. /\ UNCHANGED <<kind, frames, channels, first_channel, current_frame, current_channel,
                       outputs, history, seq_num, parsing_frame_index, pc>>
        /\ pc = "eflr" /\ seq_num # 0 /\ within' = "set"
        /\ parsing_set_type' \in {"FRAME", "CHANNEL"}
        /\ parsing_set_type' = "FRAME" /\ DataSeen => kind.late
    BY DEF on_eflr_component_set, catalog, may_hold
  <1>2. TypeOK'
    BY <1>1 DEF TypeOK, outputs, Nodes
  <1>3. DataSeen' <=> DataSeen
    BY <1>1 DEF DataSeen, Declared, FrameKeys, history
  <1>4. Cursors'
    <2>1. ~in_object("FRAME")' /\ ~in_object("CHANNEL")'
      BY <1>1 DEF in_object
    <2>2. frame_list' = frame_list /\ channel_list' = channel_list
      BY <1>1, PlainStep
    <2>3. in_set("FRAME")' /\ ~kind.late => ~DataSeen
      BY <1>1 DEF in_set
    <2> QED BY <1>1, <1>3, <2>1, <2>2, <2>3 DEF Cursors, history
  <1> QED
    BY <1>1, <1>2, <1>4, PlainStep

\* The kind of file, and that its logical files have numbers.
LEMMA KindOf ==
  ASSUME Cursors
  PROVE  /\ kind.first \in 1 .. 9 /\ kind.last \in 1 .. 9 /\ kind.first <= kind.last
         /\ kind.MAX_FRAMES \in Nat /\ kind.MAX_DIMENSION \in Nat \ {0}
         /\ kind.late \in BOOLEAN /\ kind.early \in BOOLEAN
         /\ kind.first .. kind.last \subseteq Numbers
         /\ seq_num \in Nat /\ seq_num \in {0} \cup Numbers
  <1>1. kind \in KindsType /\ kind.first <= kind.last
    BY CatalogAssumption DEF Cursors
  <1>2. kind.first .. kind.last \subseteq Numbers
    BY DEF Cursors, Numbers
  <1> QED
    BY <1>1, <1>2 DEF Cursors, KindsType

\* An end-of-data record after rows: no frame is current any more.
LEMMA OnEod == IInv /\ on_eod /\ UNCHANGED kind => IInv'
  <1> SUFFICES ASSUME IInv, on_eod, UNCHANGED kind PROVE IInv'
    OBVIOUS
  <1> USE DEF IInv
  <1>1. /\ UNCHANGED <<kind, frames, channels, first_channel, current_channel,
                       outputs, history, seq_num, parsing_set_type, parsing_frame_index, pc>>
        /\ pc = "eflr" /\ within' = "none" /\ current_frame' = NULL /\ DataSeen
    BY DEF on_eod
  <1>2. TypeOK'
    BY <1>1 DEF TypeOK, outputs, Nodes
  <1>3. DataSeen' <=> DataSeen
    BY <1>1 DEF DataSeen, Declared, FrameKeys, history
  <1>4. Cursors'
    <2>1. ~in_object("FRAME")' /\ ~in_object("CHANNEL")' /\ ~in_set("FRAME")'
      BY <1>1 DEF in_object, in_set
    <2>2. frame_list' = frame_list /\ channel_list' = channel_list
      BY <1>1, PlainStep
    <2> QED BY <1>1, <1>3, <2>1, <2>2 DEF Cursors, history
  <1> QED
    BY <1>1, <1>2, <1>4, PlainStep

\* The next logical file: frames are added behind the last one.
LEMMA OnSequenceNumber == IInv /\ on_sequence_number /\ UNCHANGED kind => IInv'
  <1> SUFFICES ASSUME IInv, on_sequence_number, UNCHANGED kind PROVE IInv'
    OBVIOUS
  <1> USE DEF IInv
  <1>1. /\ UNCHANGED <<kind, frames, channels, first_channel, current_channel,
                       outputs, history, parsing_frame_index, pc>>
        /\ pc = "eflr" /\ within' = "none"
        /\ seq_num # kind.last /\ seq_num' = IF seq_num = 0 THEN kind.first ELSE seq_num + 1
        /\ parsing_set_type' = "FILE-HEADER"
        /\ current_frame' = IF seq_num' > 1 THEN Last(frame_list) ELSE current_frame
    BY DEF on_sequence_number
  <1>2. seq_num' \in kind.first .. kind.last /\ seq_num' \in Numbers /\ seq_num' \in Nat /\ seq_num' # 0
    BY <1>1, KindOf DEF Cursors
  <1>3. \/ seq_num' > 1 /\ current_frame' = Last(frame_list)
        \/ seq_num = 0 /\ current_frame' = NULL /\ DOMAIN declared = {}
    BY <1>1, <1>2, KindOf DEF Cursors
  <1>4. Last(frame_list) \in Elements(frame_list) /\ Elements(frame_list) \subseteq DOMAIN frames
    BY Listed
  <1>5. TypeOK'
    <2>1. current_frame' \in Nodes(frames)
      BY <1>3, <1>4 DEF Nodes
    <2> QED BY <1>1, <1>2, <2>1 DEF TypeOK, outputs, Nodes
  <1>6. Cursors'
    <2>1. ~in_object("FRAME")' /\ ~in_object("CHANNEL")' /\ ~in_set("FRAME")'
      BY <1>1 DEF in_object, in_set
    <2>2. frame_list' = frame_list /\ channel_list' = channel_list
      BY <1>1, PlainStep
    <2>3. IF current_frame' = NULL THEN DOMAIN declared' = {} ELSE current_frame' = Last(frame_list')
      BY <1>1, <1>3, <1>4, <2>2, NodesNotNull DEF history
    <2>4. current_frame' \in {NULL} \cup Elements(frame_list')
      BY <1>3, <1>4, <2>2
    <2> QED BY <1>1, <1>2, <2>1, <2>2, <2>3, <2>4 DEF Cursors
  <1> QED
    BY <1>1, <1>5, <1>6, PlainStep

\* Where an object of a FRAME set is read.
LEMMA FrameObject ==
  ASSUME TypeOK, Lists, Cursors, in_object("FRAME")
  PROVE  /\ current_frame \in Elements(frame_list) /\ current_frame \in DOMAIN frames
         /\ IsDeclared(current_frame) /\ key_of(current_frame) = current_key
         /\ rows[current_key] = <<>> /\ current_key = <<seq_num, frames[current_frame].name>>
         /\ pc = "eflr" /\ parsing_set_type = "FRAME" /\ within = "object" /\ seq_num # 0
         /\ in_set("FRAME")
  <1>1. current_frame \in Elements(frame_list) /\ current_frame \in DOMAIN frames
    BY Listed DEF Cursors
  <1>2. key_of(current_frame) = current_key
    BY DEF Cursors, key_of, current_key
  <1> QED
    BY <1>1, <1>2 DEF Cursors, in_object, in_set, current_key

\* INDEX-TYPE of the frame at the cursor, which has no row yet.
LEMMA OnIndexType == IInv /\ on_index_type /\ UNCHANGED kind => IInv'
  <1> SUFFICES ASSUME IInv, on_index_type, UNCHANGED kind PROVE IInv'
    OBVIOUS
  <1> USE DEF IInv
  <1> DEFINE cf == current_frame
  <1>1. /\ UNCHANGED <<kind, channels, first_channel, current_frame, current_channel,
                       outputs, history, seq_num, parsing_set_type, within, parsing_frame_index, pc>>
        /\ frames' = [frames EXCEPT ![current_frame].index_type = TRUE]
        /\ in_object("FRAME")
    BY DEF on_index_type, state
  <1>2. cf \in Elements(frame_list) /\ cf \in DOMAIN frames /\ pc = "eflr"
    BY <1>1, FrameObject
  <1>3. \A f \in DOMAIN frames :
          frames'[f] = IF f = cf THEN [frames[cf] EXCEPT !.index_type = TRUE] ELSE frames[f]
    BY <1>1
  <1>4. DOMAIN frames' = DOMAIN frames /\ frames' \in Seq(FrameNode) /\ Len(frames') = Len(frames)
    <2>1. frames[cf] \in FrameNode /\ frames \in Seq(FrameNode)
      BY <1>2, Heaps
    <2>2. [frames[cf] EXCEPT !.index_type = TRUE] \in FrameNode
      BY <2>1 DEF FrameNode
    <2> QED BY <1>1, <1>2, <2>1, <2>2
  <1>5. TypeOK'
    <2>1. Nodes(frames)' = Nodes(frames) /\ Nodes(channels)' = Nodes(channels)
      BY <1>1, <1>4 DEF Nodes
    <2>2. FrameNode' = FrameNode
      BY <2>1 DEF FrameNode
    <2>3. frames' \in Seq(FrameNode')
      BY <1>4, <2>2
    <2> HIDE DEF IInv
    <2>4. TypeOK
      BY DEF IInv
    <2> QED BY <1>1, <2>1, <2>3, <2>4 DEF TypeOK, FrameNode, outputs
  <1>6. /\ \A f \in DOMAIN frames :
             /\ frames'[f].seq_num = frames[f].seq_num /\ frames'[f].name = frames[f].name
             /\ frames'[f].channels = frames[f].channels /\ frames'[f].next = frames[f].next
             /\ frames'[f].current_channel = frames[f].current_channel
             /\ frames'[f].index_min = frames[f].index_min /\ frames'[f].index_max = frames[f].index_max
             /\ f # cf => frames'[f].index_type = frames[f].index_type
    <2>1. \A f \in DOMAIN frames : frames[f] \in FrameNode
      BY Heaps
    <2> HIDE DEF IInv, cf
    <2> QED BY <1>3, <2>1 DEF FrameNode
  <1>7. SameNodes
    BY <1>1, <1>4, <1>6 DEF SameNodes, history, outputs
  <1>8. /\ frame_list' = frame_list /\ channel_list' = channel_list
        /\ \A f \in Elements(frame_list) :
             key_of(f)' = key_of(f) /\ channels_of(f)' = channels_of(f) /\ (IsDeclared(f)' <=> IsDeclared(f))
    BY <1>7, SameLists, SameNames, Listed
  <1>9. ChannelsDescribed'
    <2>1. \A k \in Elements(channel_list) : channels'[k].dimension = described'[id_of(k)]
      BY <1>1 DEF ChannelsDescribed, history
    <2> QED BY <1>1, <1>7, <2>1, SameDescribed
  <1>10. Histories'
    BY <1>1 DEF Histories, history, id
  <1>11. \A f \in Elements(frame_list) :
           names(f)' = names(f) /\ indexes(f)' = indexes(f) /\ \A i : lines(f, i)' = lines(f, i)
    <2> SUFFICES ASSUME NEW f \in Elements(frame_list)
                 PROVE  names(f)' = names(f) /\ indexes(f)' = indexes(f) /\ \A i : lines(f, i)' = lines(f, i)
      OBVIOUS
    <2>1. key_of(f)' = key_of(f) /\ UNCHANGED <<declared, rows, disk>>
      BY <1>1, <1>8 DEF history, outputs
    <2>2. names(f)' = names(f) /\ \A i : lines(f, i)' = lines(f, i)
      BY <2>1 DEF names, lines, curve
    <2>3. indexes(f)' = indexes(f)
      <3>1. CASE f = cf
        <4>1. rows[key_of(f)] = <<>>
          BY <1>1, <3>1, FrameObject
        <4> QED BY <2>1, <4>1 DEF indexes
      <3>2. CASE f # cf
        BY <1>6, <2>1, <3>2, Listed DEF indexes
      <3> QED BY <3>1, <3>2
    <2> QED BY <2>2, <2>3
  <1>12. RowsWritten'
    <2> SUFFICES ASSUME NEW f \in Elements(frame_list), IsDeclared(f), NEW j \in DOMAIN names(f)
                 PROVE  lines(f, j) = indexes(f)
      BY <1>1, <1>2, <1>8, <1>11 DEF RowsWritten
    <2> QED BY <1>2 DEF RowsWritten
  <1>13. IndexesNoted'
    <2> SUFFICES ASSUME NEW f \in Elements(frame_list), IsDeclared(f)
                 PROVE  (/\ ~frames[f].index_type => frames[f].index_min = 1
                         /\ names(f) # <<>> /\ lines(f, 1) # <<>> =>
                              /\ frames[f].index_type => frames[f].index_min = lines(f, 1)[1]
                              /\ frames[f].index_max = Last(lines(f, 1)))'
      BY <1>8 DEF IndexesNoted
    <2>1. names(f)' = names(f) /\ lines(f, 1)' = lines(f, 1) /\ f \in DOMAIN frames
      BY <1>11, Listed
    <2>2. CASE f # cf
      <3>1. frames'[f].index_type = frames[f].index_type /\ frames'[f].index_min = frames[f].index_min
            /\ frames'[f].index_max = frames[f].index_max
        BY <1>6, <2>1, <2>2
      <3> QED BY <2>1, <3>1 DEF IndexesNoted
    <2>3. CASE f = cf
      <3>1. rows[key_of(f)] = <<>>
        BY <1>1, <2>3, FrameObject
      <3>2. indexes(f) = <<>>
        BY <3>1 DEF indexes
      <3>3. names(f) # <<>> => lines(f, 1) = <<>>
        <4>1. names(f) \in Seq(ChannelNames)
          BY DEF Histories, names, IsDeclared
        <4>2. names(f) # <<>> => 1 \in DOMAIN names(f)
          BY <4>1
        <4> QED BY <1>2, <3>2, <4>2 DEF RowsWritten
      <3>4. frames'[f].index_type
        BY <1>2, <1>3, <2>3, Heaps DEF FrameNode
      <3> QED BY <2>1, <3>3, <3>4
    <2> QED BY <2>2, <2>3
  <1>14. Cursors'
    <2>1. DataSeen' <=> DataSeen
      BY <1>1 DEF DataSeen, Declared, FrameKeys, history
    <2>2. in_object("FRAME")' /\ ~in_object("CHANNEL")' /\ in_set("FRAME")'
      BY <1>1, FrameObject DEF in_object, in_set
    <2>3. (/\ current_frame # NULL
           /\ IsDeclared(current_frame) /\ frames[current_frame].seq_num = seq_num
           /\ frames[current_frame].current_channel
                = At(channels_of(current_frame), Len(channels_of(current_frame)))
           /\ rows[current_key] = <<>>)'
      <3>1. /\ current_frame # NULL
            /\ IsDeclared(current_frame) /\ frames[current_frame].seq_num = seq_num
            /\ frames[current_frame].current_channel
                 = At(channels_of(current_frame), Len(channels_of(current_frame)))
            /\ rows[current_key] = <<>>
        BY <1>1 DEF Cursors
      <3>2. channels_of(current_frame)' = channels_of(current_frame) /\ IsDeclared(current_frame)' /\ current_key' = current_key
        <4>1. channels_of(cf)' = channels_of(current_frame)' /\ IsDeclared(cf)' = IsDeclared(current_frame)'
          BY <1>1 DEF channels_of, IsDeclared, key_of
        <4> QED BY <1>1, <1>2, <1>6, <1>8, <3>1, <4>1 DEF current_key, channels_of, IsDeclared, key_of
      <3> QED BY <1>1, <1>2, <1>6, <3>1, <3>2 DEF history
    <2>4. seq_num' = 0 => DOMAIN declared' = {} /\ current_frame' = NULL
      BY <1>1 DEF Cursors, history
    <2>5. ~kind'.late => ~DataSeen' /\ (IF current_frame' = NULL THEN DOMAIN declared' = {}
                                        ELSE current_frame' = Last(frame_list'))
      <3>1. in_set("FRAME") /\ pc = "eflr"
        BY <1>1, FrameObject
      <3>2. ~kind.late => ~DataSeen /\ (IF current_frame = NULL THEN DOMAIN declared = {}
                                        ELSE current_frame = Last(frame_list))
        BY <3>1 DEF Cursors
      <3> QED BY <1>1, <1>8, <2>1, <3>2 DEF history
    <2>6. current_frame' \in Elements(frame_list)' /\ current_channel' = At(channel_list', Len(channel_list'))
      BY <1>1, <1>2, <1>8 DEF Cursors
    <2>7. kind' \in Kinds /\ seq_num' \in {0} \cup kind'.first .. kind'.last /\ seq_num' # 0
      BY <1>1, FrameObject DEF Cursors
    <2> HIDE DEF IInv
    <2>8. pc' # "row"
      BY <1>1, <1>2
    <2> QED BY <2>2, <2>3, <2>5, <2>6, <2>7, <2>8 DEF Cursors
  <1>15. Closed' /\ WildOnlyIfEarly' /\ NoWildPointer'
    BY <1>1, <1>2 DEF Closed, WildOnlyIfEarly, NoWildPointer
  <1>16. Lists' /\ FramesDeclared' /\ ChannelsNamed'
    BY <1>7, SameLists, SameNames
  <1>17. UnnamedEmpty'
    BY <1>1, SameUnnamed DEF history, outputs
  <1> QED
    BY <1>5, <1>9, <1>10, <1>12, <1>13, <1>14, <1>15, <1>16, <1>17

\* What is noted of the rows stays when neither the frames nor the curves change.
LEMMA SameIndexes ==
  ASSUME TypeOK, Lists, FramesDeclared, ChannelsNamed, IndexesNoted, SameNodes,
         UNCHANGED <<frames, disk, rows>>
  PROVE  IndexesNoted'
  <1>1. \A f \in Elements(frame_list) :
          /\ names(f)' = names(f) /\ (IsDeclared(f)' <=> IsDeclared(f))
          /\ \A i : lines(f, i)' = lines(f, i)
    BY SameCurves
  <1>2. Elements(frame_list)' = Elements(frame_list)
    BY SameLists
  <1> SUFFICES ASSUME NEW f \in Elements(frame_list), IsDeclared(f)
               PROVE  /\ ~frames[f].index_type => frames[f].index_min = 1
                      /\ names(f) # <<>> /\ lines(f, 1) # <<>> =>
                           /\ frames[f].index_type => frames[f].index_min = lines(f, 1)[1]
                           /\ frames[f].index_max = Last(lines(f, 1))
    BY <1>1, <1>2 DEF IndexesNoted
  <1> QED
    BY DEF IndexesNoted

\* Where an object of a CHANNEL set is read.
LEMMA ChannelObject ==
  ASSUME TypeOK, Lists, ChannelsDescribed, Cursors, in_object("CHANNEL")
  PROVE  /\ current_channel \in Elements(channel_list) /\ current_channel \in DOMAIN channels
         /\ id_of(current_channel) = <<seq_num, channels[current_channel].name>>
         /\ id_of(current_channel) \in DOMAIN described
         /\ pc = "eflr" /\ parsing_set_type = "CHANNEL" /\ within = "object" /\ seq_num # 0
  <1>1. current_channel # NULL /\ channels[current_channel].seq_num = seq_num
        /\ current_channel = At(channel_list, Len(channel_list))
    BY DEF Cursors
  <1>2. current_channel \in Elements(channel_list)
    BY <1>1, Listed DEF At, Elements
  <1>3. id_of(current_channel) = <<seq_num, channels[current_channel].name>>
    BY <1>1 DEF id_of
  <1>4. id_of(current_channel) \in DOMAIN described
    BY <1>2 DEF ChannelsDescribed
  <1> QED
    BY <1>2, <1>3, <1>4, Listed DEF Cursors, in_object

\* One more value of DIMENSION for the channel at the cursor.
LEMMA OnDimension == IInv /\ on_dimension /\ UNCHANGED kind => IInv'
  <1> SUFFICES ASSUME IInv, on_dimension, UNCHANGED kind PROVE IInv'
    OBVIOUS
  <1> USE DEF IInv
  <1> DEFINE cc == current_channel
             key == <<seq_num, channels[cc].name>>
  <1>1. PICK d \in Dims :
          /\ UNCHANGED <<kind, frames, first_channel, current_frame, current_channel,
                         outputs, declared, rows, seq_num, parsing_set_type, within,
                         parsing_frame_index, pc>>
          /\ in_object("CHANNEL") /\ channels[cc].dimension * d <= kind.MAX_DIMENSION
          /\ channels' = [channels EXCEPT ![cc].dimension = channels[cc].dimension * d]
          /\ described' = [described EXCEPT ![key] = described[key] * d]
    BY DEF on_dimension, state
  <1>2. /\ cc \in Elements(channel_list) /\ cc \in DOMAIN channels /\ pc = "eflr"
        /\ key = id_of(cc) /\ key \in DOMAIN described
    BY <1>1, ChannelObject
  <1>3. d \in Nat \ {0}
    BY CatalogAssumption
  <1>4. channels[cc] \in ChannelNode /\ channels \in Seq(ChannelNode)
    BY <1>2, Heaps
  <1>5. channels[cc].dimension * d \in 1 .. kind.MAX_DIMENSION
    <2>1. channels[cc].dimension \in Nat \ {0} /\ kind.MAX_DIMENSION \in Nat
      BY <1>4, KindOf DEF ChannelNode
    <2>2. \A x \in Nat \ {0}, y \in Nat \ {0} : x * y \in Nat \ {0}
      OBVIOUS
    <2>3. channels[cc].dimension * d \in Nat \ {0}
      BY <1>3, <2>1, <2>2
    <2> QED BY <1>1, <2>1, <2>3
  <1> DEFINE new == [channels[cc] EXCEPT !.dimension = channels[cc].dimension * d]
  <1>6. new \in ChannelNode
    BY <1>4, <1>5 DEF ChannelNode
  <1>7. \A k \in DOMAIN channels : channels'[k] = IF k = cc THEN new ELSE channels[k]
    BY <1>1
  <1>8. DOMAIN channels' = DOMAIN channels /\ channels' \in Seq(ChannelNode) /\ Len(channels') = Len(channels)
    BY <1>1, <1>2, <1>4, <1>6
  <1>9. TypeOK'
    <2>1. Nodes(frames)' = Nodes(frames) /\ Nodes(channels)' = Nodes(channels)
      BY <1>1, <1>8 DEF Nodes
    <2>2. FrameNode' = FrameNode /\ ChannelNode' = ChannelNode
      BY <1>1, <1>8, <2>1 DEF FrameNode, ChannelNode
    <2>3. channels' \in Seq(ChannelNode') /\ frames' \in Seq(FrameNode')
      BY <1>1, <1>8, <2>2, Heaps
    <2> HIDE DEF IInv
    <2>4. TypeOK
      BY DEF IInv
    <2> QED BY <1>1, <2>1, <2>3, <2>4 DEF TypeOK, FrameNode, ChannelNode, outputs
  <1>10. \A k \in DOMAIN channels :
           /\ channels'[k].seq_num = channels[k].seq_num /\ channels'[k].name = channels[k].name
           /\ channels'[k].index = channels[k].index /\ channels'[k].fp = channels[k].fp
           /\ channels'[k].next = channels[k].next /\ channels'[k].f_next = channels[k].f_next
           /\ channels'[k].dimension = IF k = cc THEN channels[cc].dimension * d ELSE channels[k].dimension
    BY <1>2, <1>4, <1>7 DEF ChannelNode
  <1>11. DOMAIN described' = DOMAIN described /\ described \in [DOMAIN described -> Nat]
    BY <1>1 DEF Histories
  <1>12. SameNodes
    BY <1>1, <1>8, <1>10, <1>11 DEF SameNodes, outputs
  <1>13. ChannelsDescribed'
    <2>1. ASSUME NEW k \in Elements(channel_list)
          PROVE  channels'[k].dimension = described'[id_of(k)]
      <3>1. channels[k].dimension = described[id_of(k)] /\ id_of(k) \in DOMAIN described /\ k \in DOMAIN channels
        BY Listed DEF ChannelsDescribed
      <3>2. CASE k = cc
        <4>1. described'[key] = described[key] * d
          BY <1>1, <1>2
        <4>2. channels'[k].dimension = channels[cc].dimension * d
          BY <1>10, <3>1, <3>2
        <4>3. channels[cc].dimension = described[key] /\ id_of(k) = key
          BY <1>2, <3>1, <3>2
        <4> QED
          <5> HIDE DEF key, IInv, cc
          <5> QED BY <4>1, <4>2, <4>3
      <3>3. CASE k # cc
        <4>1. id_of(k) # key
          BY <1>2, <3>3 DEF ChannelsDescribed
        <4>2. described'[id_of(k)] = described[id_of(k)]
          BY <1>1, <3>1, <4>1
        <4> QED BY <1>10, <3>1, <3>3, <4>2
      <3> QED BY <3>2, <3>3
    <2>2. \A k \in DOMAIN channels \ Elements(channel_list) : channels'[k].dimension = channels[k].dimension
      BY <1>2, <1>10
    <2> QED BY <1>12, <2>1, <2>2, SameDescribed
  <1>14. Histories'
    <2>1. described' \in [DOMAIN described' -> Nat]
      <3>1. described[key] * d \in Nat
        BY <1>2, <1>3, <1>11
      <3> QED BY <1>1, <1>11, <3>1
    <2> QED BY <1>1, <1>11, <2>1 DEF Histories, id
  <1>15. Lists' /\ FramesDeclared' /\ ChannelsNamed'
    BY <1>12, SameLists, SameNames
  <1>16. frame_list' = frame_list /\ channel_list' = channel_list
    BY <1>12, SameLists
  <1>17. \A f \in Elements(frame_list) : /\ names(f)' = names(f) /\ (IsDeclared(f)' <=> IsDeclared(f))
               /\ indexes(f)' = indexes(f) /\ \A i : lines(f, i)' = lines(f, i)
    BY <1>1, <1>12, SameCurves DEF outputs
  <1>18. RowsWritten'
    <2> SUFFICES ASSUME NEW f \in Elements(frame_list), IsDeclared(f), NEW j \in DOMAIN names(f)
                 PROVE  lines(f, j) = indexes(f)
      BY <1>1, <1>2, <1>16, <1>17 DEF RowsWritten
    <2> QED BY <1>2 DEF RowsWritten
  <1>19. IndexesNoted'
    BY <1>1, <1>12, SameIndexes DEF outputs
  <1>20. Closed' /\ WildOnlyIfEarly' /\ NoWildPointer'
    BY <1>1, <1>2 DEF Closed, WildOnlyIfEarly, NoWildPointer
  <1>21. Cursors'
    <2>1. DataSeen' <=> DataSeen
      BY <1>1 DEF DataSeen, Declared, FrameKeys
    <2>2. ~in_object("FRAME")' /\ in_object("CHANNEL")' /\ ~in_set("FRAME")' /\ seq_num # 0
      BY <1>1, ChannelObject DEF in_object, in_set
    <2>3. current_channel' # NULL /\ channels'[current_channel'].seq_num = seq_num'
      BY <1>1, <1>2, <1>10 DEF Cursors
    <2>4. current_frame' \in {NULL} \cup Elements(frame_list') /\ current_channel' = At(channel_list', Len(channel_list'))
      BY <1>1, <1>16 DEF Cursors
    <2>5. ~kind'.late => (~DataSeen' => IF current_frame' = NULL THEN DOMAIN declared' = {}
                                         ELSE current_frame' = Last(frame_list'))
      BY <1>1, <1>2, <1>16, <2>1 DEF Cursors
    <2>6. kind' \in Kinds /\ seq_num' \in {0} \cup kind'.first .. kind'.last /\ seq_num' # 0
      BY <1>1, <2>2 DEF Cursors
    <2> HIDE DEF IInv
    <2>7. pc' # "row"
      BY <1>1, <1>2
    <2> QED BY <2>2, <2>3, <2>4, <2>5, <2>6, <2>7 DEF Cursors
  <1>22. UnnamedEmpty'
    BY <1>1, <1>11, SameUnnamed DEF outputs
  <1> QED
    <2> HIDE DEF IInv
    <2> QED BY <1>9, <1>13, <1>14, <1>15, <1>18, <1>19, <1>20, <1>21, <1>22 DEF IInv

\* The files of the channels in the list are open and different.
LEMMA FilesOfList ==
  ASSUME TypeOK, Lists, Histories, ChannelsDescribed
  PROVE  /\ DOMAIN disk = { channels[k].fp : k \in Elements(channel_list) }
         /\ \A k, l \in Elements(channel_list) : channels[k].fp = channels[l].fp => k = l
         /\ \A k \in Elements(channel_list) :
              channels[k].fp = path_of(channels[k].seq_num, channels[k].name)
  <1>1. \A k \in Elements(channel_list) :
          /\ channels[k].fp = path_of(channels[k].seq_num, channels[k].name)
          /\ id_of(k) = <<channels[k].seq_num, channels[k].name>>
          /\ channels[k].seq_num \in Numbers /\ channels[k].name \in ChannelNames
    BY Heaps, Listed DEF ChannelsDescribed, id_of, ChannelNode
  <1>2. DOMAIN disk = { path_of(c[1], c[2]) : c \in DOMAIN described }
        /\ DOMAIN described = { id_of(k) : k \in Elements(channel_list) }
    BY DEF ChannelsDescribed
  <1>3. DOMAIN disk = { path_of(id_of(k)[1], id_of(k)[2]) : k \in Elements(channel_list) }
    BY <1>2
  <1>4. \A k \in Elements(channel_list) : path_of(id_of(k)[1], id_of(k)[2]) = channels[k].fp
    BY <1>1
  <1>5. \A k, l \in Elements(channel_list) : channels[k].fp = channels[l].fp => k = l
    <2> SUFFICES ASSUME NEW k \in Elements(channel_list), NEW l \in Elements(channel_list),
                        channels[k].fp = channels[l].fp
                 PROVE  k = l
      OBVIOUS
    <2>1. id_of(k) = id_of(l)
      BY <1>1, PathAssumption
    <2> QED BY <2>1 DEF ChannelsDescribed
  <1> QED
    BY <1>1, <1>3, <1>4, <1>5

\* The end of do_parse: the report, and the files closed.
LEMMA OnFinish == IInv /\ finish /\ UNCHANGED kind => IInv'
  <1> SUFFICES ASSUME IInv, finish, UNCHANGED kind PROVE IInv'
    OBVIOUS
  <1> USE DEF IInv
  <1> DEFINE fps == fps_to_close
             entry(f) == [seq_num |-> frames[f].seq_num, name |-> frames[f].name,
                          index_min |-> frames[f].index_min, index_max |-> frames[f].index_max]
  <1>1. /\ UNCHANGED <<kind, frames, channels, first_channel, current_frame, current_channel,
                       history, disk, seq_num, parsing_set_type, within, parsing_frame_index>>
        /\ pc \in {"eflr", "row"}
        /\ closed' = { fps[i] : i \in DOMAIN fps }
        /\ report' = { entry(frame_list[i]) : i \in DOMAIN frame_list }
        /\ pc' = IF \A i, j \in DOMAIN fps : fps[i] \in DOMAIN disk /\ (fps[i] = fps[j] => i = j)
                 THEN "done" ELSE "wild"
    BY DEF finish, catalog
  <1>2. DOMAIN fps = DOMAIN channel_list /\ \A i \in DOMAIN fps : fps[i] = channels[channel_list[i]].fp
    BY DEF fps_to_close
  <1>3. \A i \in DOMAIN channel_list : channel_list[i] \in Elements(channel_list)
    BY DEF Elements
  <1>4. \A i, j \in DOMAIN channel_list : channel_list[i] = channel_list[j] => i = j
    BY DEF Lists, IsList
  <1>5. pc' = "done"
    <2>1. \A i, j \in DOMAIN fps : fps[i] \in DOMAIN disk /\ (fps[i] = fps[j] => i = j)
      <3> HIDE DEF fps
      <3> QED BY <1>2, <1>3, <1>4, FilesOfList
    <2> QED BY <1>1, <2>1
  <1>6. closed' = DOMAIN disk
    <2>1. \A p : p \in closed' <=> \E k \in Elements(channel_list) : p = channels[k].fp
      <3> HIDE DEF fps
      <3> QED BY <1>1, <1>2 DEF Elements
    <2> QED BY <2>1, FilesOfList
  <1>7. report' = { entry(f) : f \in Elements(frame_list) }
    BY <1>1 DEF Elements
  <1>8. TypeOK'
    <2>1. closed' \subseteq Paths \cup {NoFile}
      BY <1>6 DEF TypeOK
    <2> HIDE DEF fps
    <2> QED BY <1>1, <1>5, <2>1 DEF TypeOK, Nodes
  <1>9. SameNodes
    BY <1>1 DEF SameNodes, history
  <1>10. Lists' /\ FramesDeclared' /\ ChannelsNamed' /\ frame_list' = frame_list /\ channel_list' = channel_list
    BY <1>9, SameLists, SameNames
  <1>11. ChannelsDescribed'
    <2>1. \A k \in Elements(channel_list) : channels'[k].dimension = described'[id_of(k)]
      BY <1>1 DEF ChannelsDescribed, history
    <2> QED BY <1>1, <1>9, <2>1, SameDescribed
  <1>12. Histories'
    BY <1>1 DEF Histories, history, id
  <1>13. \A f \in Elements(frame_list) : /\ names(f)' = names(f) /\ (IsDeclared(f)' <=> IsDeclared(f))
               /\ indexes(f)' = indexes(f) /\ but_last(f)' = but_last(f) /\ \A i : lines(f, i)' = lines(f, i)
               /\ key_of(f)' = key_of(f)
    BY <1>1, <1>9, SameCurves DEF history
  <1>14. RowsWritten'
    <2> SUFFICES ASSUME NEW f \in Elements(frame_list), IsDeclared(f), NEW j \in DOMAIN names(f)
                 PROVE  \/ lines(f, j) = indexes(f)
                        \/ rows[key_of(f)] # <<>> /\ lines(f, j) = but_last(f)
      BY <1>1, <1>5, <1>10, <1>13 DEF RowsWritten, history
    <2>1. CASE pc = "row" /\ f = current_frame
      <3>1. PICK i \in Nat : Reading(i)
        BY <2>1 DEF RowsWritten
      <3>2. rows[key_of(f)] # <<>>
        BY <2>1 DEF RowsWritten, current_key, key_of
      <3> QED BY <2>1, <3>1, <3>2 DEF Reading
    <2>2. CASE ~(pc = "row" /\ f = current_frame)
      BY <1>1, <2>2 DEF RowsWritten
    <2> QED BY <2>1, <2>2
  <1>15. IndexesNoted'
    BY <1>1, <1>9, SameIndexes DEF history
  <1>16. Closed'
    BY <1>1, <1>5, <1>6, <1>7, <1>10 DEF Closed
  <1>17. WildOnlyIfEarly' /\ NoWildPointer'
    BY <1>5 DEF WildOnlyIfEarly, NoWildPointer
  <1>18. Cursors'
    <2>1. ~in_object("FRAME")' /\ ~in_object("CHANNEL")' /\ ~in_set("FRAME")'
      BY <1>5 DEF in_object, in_set
    <2> HIDE DEF IInv, fps, entry
    <2>2. Cursors
      BY DEF IInv
    <2> QED BY <1>1, <1>5, <1>10, <2>1, <2>2 DEF Cursors, history
  <1>19. UnnamedEmpty'
    BY <1>1, SameUnnamed DEF history
  <1> QED
    <2> HIDE DEF IInv
    <2> QED BY <1>8, <1>10, <1>11, <1>12, <1>14, <1>15, <1>16, <1>17, <1>18, <1>19 DEF IInv

\* A sequence without its last element.
LEMMA SequenceEnds ==
  ASSUME NEW S, NEW s \in Seq(S), s # <<>>
  PROVE  /\ SubSeq(s, 1, Len(s) - 1) \in Seq(S)
         /\ Len(SubSeq(s, 1, Len(s) - 1)) = Len(s) - 1
         /\ \A i \in 1 .. Len(s) - 1 : SubSeq(s, 1, Len(s) - 1)[i] = s[i]
         /\ Last(s) \in S /\ Last(s) = s[Len(s)]
         /\ Append(SubSeq(s, 1, Len(s) - 1), Last(s)) = s
  <1> DEFINE t == SubSeq(s, 1, Len(s) - 1)
  <1>1. Len(s) \in Nat \ {0} /\ DOMAIN s = 1 .. Len(s)
    OBVIOUS
  <1>2. /\ t \in Seq(S) /\ Len(t) = Len(s) - 1 /\ \A i \in 1 .. Len(s) - 1 : t[i] = s[i]
    BY <1>1
  <1>3. Last(s) \in S /\ Last(s) = s[Len(s)]
    BY <1>1 DEF Last
  <1>4. Append(t, Last(s)) = s
    <2> DEFINE u == Append(t, Last(s))
    <2> HIDE DEF t
    <2>0. t \in Seq(S) /\ Last(s) \in S
      BY <1>2, <1>3
    <2>1. u \in Seq(S) /\ Len(u) = Len(t) + 1 /\ u[Len(t) + 1] = Last(s)
          /\ \A i \in 1 .. Len(t) : u[i] = t[i]
      BY <2>0
    <2>2. Len(u) = Len(s) /\ \A i \in 1 .. Len(s) : u[i] = s[i]
      BY <1>1, <1>2, <1>3, <2>1
    <2> HIDE DEF u
    <2>3. u = s
      BY <2>1, <2>2
    <2> QED BY <2>3 DEF u
  <1> QED
    BY <1>2, <1>3, <1>4

\* The indexes of a frame's rows.
LEMMA IndexesOf ==
  ASSUME Histories, NEW f, IsDeclared(f)
  PROVE  /\ rows[key_of(f)] \in Seq(Depths) /\ Len(rows[key_of(f)]) \in 0 .. MAX_ROWS
         /\ indexes(f) \in Seq(Lines) /\ Len(indexes(f)) = Len(rows[key_of(f)])
         /\ rows[key_of(f)] # <<>> <=> indexes(f) # <<>>
         /\ \A n \in 1 .. Len(rows[key_of(f)]) :
              indexes(f)[n] = IF frames[f].index_type THEN rows[key_of(f)][n] ELSE n
         /\ names(f) \in Seq(ChannelNames)
         /\ key_of(f)[1] \in Numbers /\ key_of(f)[2] \in FrameNames
         /\ key_of(f) = <<key_of(f)[1], key_of(f)[2]>>
  <1> DEFINE r == rows[key_of(f)]
  <1>1. r \in Seq(Depths) /\ Len(r) \in Nat /\ Len(r) <= MAX_ROWS /\ DOMAIN r = 1 .. Len(r)
    BY DEF Histories, IsDeclared
  <1>2. \A n \in 1 .. Len(r) : r[n] \in Lines /\ n \in Lines
    BY <1>1, CatalogAssumption DEF Lines
  <1>3. indexes(f) = [n \in 1 .. Len(r) |-> IF frames[f].index_type THEN r[n] ELSE n]
    BY <1>1 DEF indexes
  <1>4. indexes(f) \in Seq(Lines) /\ Len(indexes(f)) = Len(r)
    BY <1>1, <1>2, <1>3
  <1>5. r # <<>> <=> indexes(f) # <<>>
    BY <1>1, <1>4
  <1>6. key_of(f) \in Numbers \X FrameNames /\ names(f) \in Seq(ChannelNames)
    BY DEF Histories, IsDeclared, names
  <1> QED
    BY <1>1, <1>3, <1>4, <1>5, <1>6, CatalogAssumption

\* A row more: the indexes but the last are those before.
Indexes(r, by_depth) == [n \in DOMAIN r |-> IF by_depth THEN r[n] ELSE n]

\* A row added at the end changes the indexes before the last in nothing.
LEMMA RowAppended ==
  ASSUME NEW D, NEW r \in Seq(D), NEW depth \in D, NEW by_depth
  PROVE  SubSeq(Indexes(Append(r, depth), by_depth), 1, Len(Append(r, depth)) - 1) = Indexes(r, by_depth)
  <1> DEFINE m == Len(r)
             S == D \cup Nat
             more == Append(r, depth)
             new == Indexes(more, by_depth)
             old == Indexes(r, by_depth)
  <1>1. m \in Nat /\ DOMAIN r = 1 .. m /\ \A n \in 1 .. m : r[n] \in D
    OBVIOUS
  <1>2. more \in Seq(D) /\ Len(more) = m + 1 /\ DOMAIN more = 1 .. m + 1
        /\ \A n \in 1 .. m : more[n] = r[n]
    BY <1>1
  <1> HIDE DEF more, m
  <1>3. \A n \in 1 .. m + 1 : more[n] \in D
    BY <1>2
  <1>4. new = [n \in 1 .. m + 1 |-> IF by_depth THEN more[n] ELSE n]
    BY <1>2 DEF Indexes
  <1>5. \A n \in 1 .. m + 1 : new[n] \in S
    BY <1>1, <1>3, <1>4
  <1>6. new \in [1 .. m + 1 -> S]
    BY <1>4, <1>5
  <1>7. old = [n \in 1 .. m |-> IF by_depth THEN r[n] ELSE n]
    BY <1>1 DEF Indexes
  <1>8. old \in [1 .. m -> S]
    BY <1>1, <1>7
  <1>9. \A n \in 1 .. m : new[n] = old[n]
    BY <1>1, <1>2, <1>4, <1>7
  <1> HIDE DEF new, old, S
  <1>10. new \in Seq(S) /\ Len(new) = m + 1 /\ old \in Seq(S) /\ Len(old) = m
    BY <1>1, <1>6, <1>8
  <1> DEFINE part == SubSeq(new, 1, m)
  <1>11. part \in Seq(S) /\ Len(part) = m /\ \A n \in 1 .. m : part[n] = new[n]
    BY <1>1, <1>10
  <1> HIDE DEF part
  <1>12. part = old
    BY <1>1, <1>9, <1>10, <1>11
  <1>13. SubSeq(new, 1, Len(more) - 1) = part
    BY <1>1, <1>2 DEF part
  <1> QED
    BY <1>12, <1>13 DEF new, old, more

\* The lines of a frame's channels stay where nodes and files do.
LEMMA SameLines ==
  ASSUME TypeOK, Lists, FramesDeclared, ChannelsNamed, SameNodes, disk' = disk
  PROVE  \A f \in Elements(frame_list) :
           /\ key_of(f)' = key_of(f) /\ names(f)' = names(f) /\ (IsDeclared(f)' <=> IsDeclared(f))
           /\ \A i : lines(f, i)' = lines(f, i)
  <1> SUFFICES ASSUME NEW f \in Elements(frame_list)
               PROVE  /\ key_of(f)' = key_of(f) /\ names(f)' = names(f) /\ (IsDeclared(f)' <=> IsDeclared(f))
                      /\ \A i : lines(f, i)' = lines(f, i)
    OBVIOUS
  <1>1. key_of(f)' = key_of(f) /\ declared' = declared /\ (IsDeclared(f)' <=> IsDeclared(f))
    BY SameNames DEF SameNodes
  <1> QED
    BY <1>1 DEF names, lines, curve

\* The header of a row: its frame is looked for, its index noted.
LEMMA OnRowHeader == IInv /\ on_iflr_header /\ UNCHANGED kind => IInv'
  <1> SUFFICES ASSUME IInv, on_iflr_header, UNCHANGED kind PROVE IInv'
    OBVIOUS
  <1> USE DEF IInv
  <1>1. PICK name \in FrameNames, depth \in Depths :
          LET node == First(frame_list, named_frames(name))
              key == <<seq_num, name>>
          IN /\ pc = "eflr" /\ may_have_row(name)
             /\ rows' = [rows EXCEPT ![key] = Append(@, depth)]
             /\ parsing_frame_index' = Len(rows'[key])
             /\ within' = "none"
             /\ current_frame' = node
             /\ \/ /\ node = NULL
                   /\ pc' = "exit"
                   /\ UNCHANGED frames
                \/ /\ node # NULL
                   /\ frames' = [frames EXCEPT ![node].current_channel = frames[node].channels]
                   /\ pc' = "row"
             /\ UNCHANGED <<channels, first_channel, current_channel, seq_num, parsing_set_type,
                            outputs, declared, described>>
    BY DEF on_iflr_header
  <1> DEFINE key == <<seq_num, name>>
  <1>2. PICK node : node = First(frame_list, named_frames(name))
    OBVIOUS
  <1>3. /\ pc = "eflr" /\ may_have_row(name)
        /\ rows' = [rows EXCEPT ![key] = Append(rows[key], depth)]
        /\ parsing_frame_index' = Len(rows'[key])
        /\ within' = "none" /\ current_frame' = node
        /\ UNCHANGED <<kind, channels, first_channel, current_channel, seq_num, parsing_set_type,
                       disk, closed, report, declared, described>>
    BY <1>1, <1>2 DEF outputs
  <1>4. \/ node = NULL /\ pc' = "exit" /\ frames' = frames
        \/ /\ node # NULL /\ pc' = "row"
           /\ frames' = [frames EXCEPT ![node].current_channel = frames[node].channels]
    BY <1>1, <1>2
  <1>5. /\ key \in DOMAIN declared /\ Len(rows[key]) < MAX_ROWS /\ seq_num \in Nat \ {0}
        /\ ~kind.early => /\ declared[key] # <<>>
                          /\ \A i \in DOMAIN declared[key] : <<seq_num, declared[key][i]>> \in DOMAIN described
    <2>1. key \in DOMAIN declared
      BY <1>3 DEF may_have_row, Declared
    <2>2. seq_num \in Nat \ {0}
      BY <2>1, KindOf DEF Cursors
    <2> QED BY <1>3, <2>1, <2>2 DEF may_have_row, Declared
  <1>6. /\ node = NULL => \A f \in Elements(frame_list) : key_of(f) # key
        /\ node # NULL => node \in Elements(frame_list) /\ node \in DOMAIN frames /\ key_of(node) = key
    <2>1. /\ node = NULL => \A f \in Elements(frame_list) : f \notin named_frames(name)
          /\ node # NULL => node \in Elements(frame_list) \cap named_frames(name)
      BY <1>2, Listed, Heaps, FirstFinds
    <2> QED BY <2>1, Listed DEF named_frames, key_of
  <1>7. /\ rows[key] \in Seq(Depths) /\ Len(rows[key]) \in Nat /\ Append(rows[key], depth) \in Seq(Depths)
        /\ rows'[key] = Append(rows[key], depth) /\ rows'[key] \in Seq(Depths)
        /\ Len(rows'[key]) = Len(rows[key]) + 1 /\ Len(rows'[key]) \in 1 .. MAX_ROWS
        /\ \A k \in DOMAIN rows : k # key => rows'[k] = rows[k]
        /\ DOMAIN rows = DOMAIN declared /\ DOMAIN rows' = DOMAIN rows
    <2>1. rows[key] \in Seq(Depths) /\ key \in DOMAIN rows /\ DOMAIN rows = DOMAIN declared
      <3>1. rows \in [DOMAIN declared -> Seq(Depths)]
        BY DEF Histories
      <3> HIDE DEF key, IInv
      <3> QED BY <1>5, <3>1
    <2>2. rows'[key] = Append(rows[key], depth) /\ DOMAIN rows' = DOMAIN rows
      BY <1>3, <2>1
    <2>3. Append(rows[key], depth) \in Seq(Depths) /\ Len(Append(rows[key], depth)) = Len(rows[key]) + 1
          /\ Len(rows[key]) \in Nat
      BY <2>1
    <2>4. \A k \in DOMAIN rows : k # key => rows'[k] = rows[k]
      BY <1>3
    <2>5. Len(Append(rows[key], depth)) \in 1 .. MAX_ROWS
      BY <1>5, <2>3, CatalogAssumption
    <2> QED
      <3> HIDE DEF key, IInv
      <3> QED BY <2>1, <2>2, <2>3, <2>4, <2>5
  <1>8. /\ DOMAIN frames' = DOMAIN frames /\ frames' \in Seq(FrameNode) /\ Len(frames') = Len(frames)
        /\ \A f \in DOMAIN frames :
             /\ frames'[f].seq_num = frames[f].seq_num /\ frames'[f].name = frames[f].name
             /\ frames'[f].channels = frames[f].channels /\ frames'[f].next = frames[f].next
             /\ frames'[f].index_type = frames[f].index_type
             /\ frames'[f].index_min = frames[f].index_min /\ frames'[f].index_max = frames[f].index_max
             /\ f = node => frames'[f].current_channel = frames[f].channels
    <2>1. CASE node = NULL
      BY <1>4, <2>1, Heaps DEF NULL
    <2>2. CASE node # NULL
      <3>1. frames[node] \in FrameNode /\ frames \in Seq(FrameNode) /\ node \in DOMAIN frames
        BY <1>6, <2>2, Heaps
      <3> DEFINE new == [frames[node] EXCEPT !.current_channel = frames[node].channels]
      <3>2. new \in FrameNode
        BY <3>1 DEF FrameNode
      <3>3. frames' = [frames EXCEPT ![node] = new]
        BY <1>4, <2>2, <3>1
      <3>4. DOMAIN frames' = DOMAIN frames /\ frames' \in Seq(FrameNode) /\ Len(frames') = Len(frames)
        <4> HIDE DEF new
        <4> QED BY <3>1, <3>2, <3>3
      <3>5. \A f \in DOMAIN frames : frames'[f] = IF f = node THEN new ELSE frames[f]
        BY <3>1, <3>3
      <3>6. \A f \in DOMAIN frames :
             /\ frames'[f].seq_num = frames[f].seq_num /\ frames'[f].name = frames[f].name
             /\ frames'[f].channels = frames[f].channels /\ frames'[f].next = frames[f].next
             /\ frames'[f].index_type = frames[f].index_type
             /\ frames'[f].index_min = frames[f].index_min /\ frames'[f].index_max = frames[f].index_max
             /\ f = node => frames'[f].current_channel = frames[f].channels
        BY <3>1, <3>5 DEF FrameNode
      <3> QED BY <3>4, <3>6
    <2> QED BY <2>1, <2>2
  <1>9. SameNodes
    BY <1>3, <1>8 DEF SameNodes
  <1>10. /\ Lists' /\ FramesDeclared' /\ ChannelsNamed'
         /\ frame_list' = frame_list /\ channel_list' = channel_list
         /\ \A f \in DOMAIN frames : channels_of(f)' = channels_of(f)
    BY <1>9, SameLists, SameNames
  <1>11. ChannelsDescribed'
    <2>1. \A k \in Elements(channel_list) : channels'[k].dimension = described'[id_of(k)]
      BY <1>3 DEF ChannelsDescribed
    <2> QED BY <1>3, <1>9, <2>1, SameDescribed
  <1>12. Histories'
    <2>1. rows' \in [DOMAIN declared' -> Seq(Depths)]
      <3>1. \A k \in DOMAIN rows : rows'[k] \in Seq(Depths)
        BY <1>7 DEF Histories
      <3> QED BY <1>3, <1>7, <3>1
    <2>2. \A k \in DOMAIN declared' : Len(rows'[k]) <= MAX_ROWS
      <3> SUFFICES ASSUME NEW k \in DOMAIN declared PROVE Len(rows'[k]) <= MAX_ROWS
        BY <1>3
      <3>1. CASE k = key
        <4>1. Len(rows'[key]) \in 1 .. MAX_ROWS
          BY <1>7
        <4> QED BY <3>1, <4>1, CatalogAssumption
      <3>2. CASE k # key
        BY <1>7, <3>2 DEF Histories
      <3> QED BY <3>1, <3>2
    <2>3. \A k, l \in DOMAIN declared' : \A i \in DOMAIN declared'[k], j \in DOMAIN declared'[l] :
            id(k, i)' = id(l, j)' => k = l /\ i = j
      BY <1>3 DEF Histories, id
    <2>4. /\ declared \in [DOMAIN declared -> Seq(ChannelNames)]
          /\ described \in [DOMAIN described -> Nat]
          /\ DOMAIN declared \subseteq Numbers \X FrameNames
          /\ DOMAIN described \subseteq Numbers \X ChannelNames
      BY DEF Histories
    <2> HIDE DEF IInv, key
    <2> QED BY <1>3, <2>1, <2>2, <2>3, <2>4 DEF Histories
  <1>13. TypeOK'
    <2>1. Nodes(frames)' = Nodes(frames) /\ Nodes(channels)' = Nodes(channels)
      BY <1>3, <1>8 DEF Nodes
    <2>2. FrameNode' = FrameNode
      BY <2>1 DEF FrameNode
    <2>3. frames' \in Seq(FrameNode')
      BY <1>8, <2>2
    <2>4. parsing_frame_index' \in Lines
      BY <1>3, <1>7 DEF Lines
    <2>5. current_frame' \in Nodes(frames')
      BY <1>3, <1>6, <1>8 DEF Nodes
    <2>6. pc' \in {"exit", "row"}
      BY <1>4
    <2> HIDE DEF IInv
    <2>7. TypeOK
      BY DEF IInv
    <2> QED BY <1>3, <2>1, <2>3, <2>4, <2>5, <2>6, <2>7 DEF TypeOK, FrameNode
  <1>14. ASSUME NEW f \in Elements(frame_list)
         PROVE  /\ key_of(f)' = key_of(f) /\ names(f)' = names(f) /\ (IsDeclared(f)' <=> IsDeclared(f))
                /\ f \in DOMAIN frames
                /\ \A i : lines(f, i)' = lines(f, i)
    BY <1>3, <1>9, SameLines, Listed
  <1>15. ASSUME NEW f \in Elements(frame_list), IsDeclared(f), key_of(f) # key
         PROVE  indexes(f)' = indexes(f)
    <2>1. rows'[key_of(f)'] = rows[key_of(f)]
      BY <1>7, <1>14, <1>15 DEF IsDeclared
    <2> QED BY <1>8, <1>14, <2>1 DEF indexes
  <1>16. ASSUME node # NULL
         PROVE  but_last(node)' = indexes(node) /\ IsDeclared(node) /\ node \in Elements(frame_list)
    <2>1. IsDeclared(node) /\ key_of(node) = key /\ node \in Elements(frame_list) /\ key_of(node)' = key
      BY <1>5, <1>6, <1>14, <1>16 DEF IsDeclared
    <2>2. indexes(node) = Indexes(rows[key], frames[node].index_type)
      BY <2>1 DEF indexes, Indexes
    <2>3. frames'[node].index_type = frames[node].index_type
      BY <1>6, <1>8, <1>16
    <2>4. indexes(node)' = Indexes(Append(rows[key], depth), frames[node].index_type)
      BY <1>7, <2>1, <2>3 DEF indexes, Indexes
    <2>5. but_last(node)' = SubSeq(indexes(node)', 1, Len(Append(rows[key], depth)) - 1)
      BY <1>7, <2>1 DEF but_last
    <2>6. SubSeq(Indexes(Append(rows[key], depth), frames[node].index_type), 1, Len(Append(rows[key], depth)) - 1)
            = Indexes(rows[key], frames[node].index_type)
      BY <1>7, RowAppended
    <2>7. but_last(node)' = indexes(node)
      BY <2>2, <2>4, <2>5, <2>6
    <2> QED BY <2>1, <2>7
  <1>17. \A f \in Elements(frame_list) : IsDeclared(f) =>
           \A j \in DOMAIN names(f) : lines(f, j) = indexes(f)
    BY <1>3 DEF RowsWritten
  <1>18. RowsWritten'
    <2>1. CASE node = NULL
      <3> SUFFICES ASSUME NEW f \in Elements(frame_list), IsDeclared(f), NEW j \in DOMAIN names(f)
                   PROVE  lines(f, j) = indexes(f)'
        BY <1>4, <1>10, <1>14, <2>1 DEF RowsWritten
      <3>1. key_of(f) # key
        BY <1>6, <2>1
      <3> QED BY <1>15, <1>17, <3>1
    <2>2. CASE node # NULL
      <3>1. node \in Elements(frame_list) /\ IsDeclared(node)' /\ key_of(node) = key /\ key_of(node)' = key
        BY <1>6, <1>14, <1>16, <2>2
      <3>2. ASSUME NEW f \in Elements(frame_list), IsDeclared(f)', f # node, NEW j \in DOMAIN names(f)'
            PROVE  lines(f, j)' = indexes(f)'
        <4>1. key_of(f) # key /\ IsDeclared(f) /\ j \in DOMAIN names(f) /\ lines(f, j)' = lines(f, j)
          BY <1>14, <3>1, <3>2 DEF FramesDeclared
        <4> QED BY <1>15, <1>17, <4>1
      <3>3. pc' = "row" /\ current_frame' = node
        BY <1>3, <1>4, <2>2
      <3>4. seq_num' = frames'[node].seq_num /\ current_key' = key
        BY <1>3, <1>6, <1>8, <2>2, <3>3 DEF key_of, current_key
      <3>5. rows'[key] # <<>>
        BY <1>7
      <3>6. Reading(1)'
        <4>1. frames'[node].current_channel = At(channels_of(node)', 1)
          <5>1. frames'[node].current_channel = frames[node].channels
            BY <1>8, <3>1, <1>14
          <5>2. frames[node].channels = At(channels_of(node), 1)
            BY <3>1 DEF Lists, IsList
          <5> QED BY <1>10, <1>14, <3>1, <5>1, <5>2
        <4>2. \A j \in DOMAIN names(node)' : lines(node, j)' = but_last(node)'
          <5> SUFFICES ASSUME NEW j \in DOMAIN names(node)' PROVE lines(node, j)' = but_last(node)'
            OBVIOUS
          <5>1. j \in DOMAIN names(node) /\ lines(node, j)' = lines(node, j)
            BY <1>14, <3>1
          <5> QED BY <1>16, <1>17, <2>2, <5>1
        <4>3. parsing_frame_index' = Len(rows'[key_of(node)'])
          BY <1>3, <3>1
        <4>4. ASSUME NEW j \in DOMAIN names(node)' PROVE ~(j < 1)
          <5>1. names(node) \in Seq(ChannelNames) /\ names(node)' = names(node)
            BY <1>14, <1>16, <2>2, IndexesOf
          <5> QED BY <5>1
        <4>5. /\ frames'[current_frame'].current_channel = At(channels_of(current_frame)', 1)
              /\ \A j \in DOMAIN names(current_frame)' : lines(current_frame, j)' = but_last(current_frame)'
              /\ parsing_frame_index' = Len(rows'[key_of(current_frame)'])
              /\ \A j \in DOMAIN names(current_frame)' : ~(j < 1)
          BY <3>3, <4>1, <4>2, <4>3, <4>4 DEF channels_of, names, lines, but_last, indexes, key_of
        <4> QED BY <4>5 DEF Reading
      <3>7. ~kind'.early => /\ names(node)' # <<>>
                            /\ \A j \in DOMAIN names(node)' : id(key_of(node), j)' \in DOMAIN described'
        <4>1. names(node)' = declared[key] /\ key[1] = seq_num
          BY <1>3, <3>1 DEF names
        <4>2. \A j : id(key_of(node), j)' = <<seq_num, declared[key][j]>>
          BY <1>3, <3>1, <4>1 DEF id
        <4>3. ~kind.early => /\ declared[key] # <<>>
                             /\ \A j \in DOMAIN declared[key] : <<seq_num, declared[key][j]>> \in DOMAIN described
          BY <1>5
        <4> HIDE DEF key, IInv
        <4> QED BY <1>3, <4>1, <4>2, <4>3
      <3>8. /\ current_frame' # NULL /\ IsDeclared(current_frame)'
            /\ frames'[current_frame'].seq_num = seq_num' /\ rows'[current_key'] # <<>>
            /\ \E i \in Nat : Reading(i)'
            /\ ~kind'.early =>
                 /\ names(current_frame)' # <<>>
                 /\ \A j \in DOMAIN names(current_frame)' :
                      id(key_of(current_frame), j)' \in DOMAIN described'
        BY <2>2, <3>1, <3>3, <3>4, <3>5, <3>6, <3>7 DEF IsDeclared, names, key_of, id
      <3> QED BY <1>10, <3>2, <3>3, <3>8 DEF RowsWritten
    <2> QED BY <2>1, <2>2
  <1>19. IndexesNoted'
    <2> SUFFICES ASSUME NEW f \in Elements(frame_list), IsDeclared(f)
                 PROVE  /\ ~frames'[f].index_type => frames'[f].index_min = 1
                        /\ names(f) # <<>> /\ lines(f, 1) # <<>> =>
                             /\ frames'[f].index_type => frames'[f].index_min = lines(f, 1)[1]
                             /\ frames'[f].index_max = Last(lines(f, 1))
      BY <1>10, <1>14 DEF IndexesNoted
    <2>1. f \in DOMAIN frames
      BY <1>14
    <2> QED BY <1>8, <2>1 DEF IndexesNoted
  <1>20. Closed' /\ WildOnlyIfEarly' /\ NoWildPointer'
    BY <1>4 DEF Closed, WildOnlyIfEarly, NoWildPointer
  <1>21. Cursors'
    <2>1. ~in_object("FRAME")' /\ ~in_object("CHANNEL")' /\ ~in_set("FRAME")' /\ pc' # "eflr"
      BY <1>3, <1>4 DEF in_object, in_set
    <2>2. current_frame' \in {NULL} \cup Elements(frame_list') /\ current_channel' = At(channel_list', Len(channel_list'))
      BY <1>3, <1>6, <1>10 DEF Cursors
    <2>3. kind' \in Kinds /\ seq_num' \in {0} \cup kind'.first .. kind'.last /\ seq_num' # 0
      <3>1. kind \in Kinds /\ seq_num \in {0} \cup kind.first .. kind.last
        BY DEF Cursors
      <3> QED BY <1>3, <1>5, <3>1
    <2> HIDE DEF IInv
    <2> QED BY <1>3, <2>1, <2>2, <2>3 DEF Cursors
  <1>22. UnnamedEmpty'
    BY <1>3, SameUnnamed
  <1> QED
    <2> HIDE DEF IInv
    <2> QED BY <1>10, <1>11, <1>12, <1>13, <1>18, <1>19, <1>20, <1>21, <1>22 DEF IInv

\* Where a row is read: at the i-th channel of its frame.
LEMMA Row ==
  ASSUME TypeOK, Histories, Lists, FramesDeclared, ChannelsNamed, ChannelsDescribed, Cursors,
         RowsWritten, pc = "row", NEW i \in Nat, Reading(i)
  PROVE  /\ current_frame \in Elements(frame_list) /\ current_frame \in DOMAIN frames
         /\ IsDeclared(current_frame) /\ key_of(current_frame) = current_key
         /\ rows[current_key] # <<>> /\ current_key[1] = seq_num /\ seq_num # 0 /\ DataSeen
         /\ LET nodes == channels_of(current_frame)
                node == frames[current_frame].current_channel
            IN \/ node = NULL /\ i = 1 /\ names(current_frame) = <<>>
               \/ /\ node # NULL /\ node \in DOMAIN channels
                  /\ i \in DOMAIN names(current_frame) /\ i \in DOMAIN nodes /\ node = nodes[i]
                  /\ i >= 1 /\ DOMAIN names(current_frame) = 1 .. Len(nodes) /\ Len(nodes) \in Nat
                  /\ id_of(node) = id(current_key, i) /\ channels[node].index = i
                  /\ channels[node].f_next = At(nodes, i + 1)
                  /\ i + 1 \in DOMAIN nodes => nodes[i + 1] # NULL
                  /\ channels[node].fp \in DOMAIN disk =>
                       channels[node].fp = path_of(current_key[1], names(current_frame)[i])
                  /\ channels[node].fp \notin DOMAIN disk => id(current_key, i) \notin DOMAIN described
  <1> DEFINE f == current_frame
             nodes == channels_of(f)
             node == frames[f].current_channel
  <1>1. /\ f \in Elements(frame_list) /\ f \in DOMAIN frames /\ IsDeclared(f)
        /\ frames[f].seq_num = seq_num /\ rows[current_key] # <<>>
    BY Listed DEF RowsWritten, Cursors
  <1>2. key_of(f) = current_key /\ current_key[1] = seq_num
    BY <1>1 DEF key_of, current_key
  <1>3. seq_num # 0 /\ current_key \in FrameKeys
    <2>1. current_key \in Numbers \X FrameNames
      BY <1>1, <1>2 DEF Histories, IsDeclared
    <2>2. current_key = <<seq_num, frames[f].name>>
      BY DEF current_key
    <2>3. frames[f].name \in FrameNames
      BY <2>1, <2>2
    <2>4. DOMAIN declared # {}
      BY <1>1 DEF IsDeclared
    <2> QED BY <2>2, <2>3, <2>4 DEF FrameKeys, Cursors
  <1>4. DataSeen
    BY <1>1, <1>2, <1>3 DEF DataSeen, Declared, IsDeclared
  <1>5. /\ Len(nodes) = Len(names(f)) /\ DOMAIN nodes = 1 .. Len(nodes) /\ Len(nodes) \in Nat
        /\ DOMAIN names(f) = 1 .. Len(nodes)
    <2>1. names(f) \in Seq(ChannelNames)
      BY <1>1 DEF Histories, names, IsDeclared
    <2>2. Len(nodes) = Len(names(f)) /\ DOMAIN nodes = 1 .. Len(nodes) /\ Len(nodes) \in Nat
      BY <1>1, Listed DEF ChannelsNamed, names
    <2> QED BY <2>1, <2>2
  <1>6. node = At(nodes, i) /\ (i \in 1 .. Len(nodes) \/ i = 1)
    BY <1>5 DEF Reading
  <1>7. CASE i \notin DOMAIN nodes
    <2>1. node = NULL /\ i = 1 /\ Len(nodes) = 0
      BY <1>5, <1>6, <1>7 DEF At
    <2>2. names(f) = <<>>
      <3>1. names(f) \in Seq(ChannelNames) /\ Len(names(f)) = 0
        BY <1>1, <1>5, <2>1 DEF Histories, names, IsDeclared
      <3> QED BY <3>1
    <2> QED BY <1>1, <1>2, <1>3, <1>4, <2>1, <2>2
  <1>8. CASE i \in DOMAIN nodes
    <2>1. node = nodes[i] /\ node \in DOMAIN channels /\ node # NULL
      <3>1. node = nodes[i] /\ node \in Elements(nodes)
        BY <1>6, <1>8 DEF At, Elements
      <3> QED BY <1>1, <3>1, Listed, Heaps DEF NULL
    <2>2. /\ id_of(node) = id(current_key, i) /\ channels[node].index = i
          /\ id_of(node) \in DOMAIN described => node \in Elements(channel_list)
      BY <1>1, <1>2, <1>8, <2>1 DEF ChannelsNamed
    <2>3. channels[node].f_next = At(nodes, i + 1)
      <3>1. f_next[nodes[i]] = At(nodes, i + 1)
        BY <1>1, <1>8 DEF Lists, IsList
      <3> QED BY <2>1, <3>1 DEF f_next
    <2>4. i + 1 \in DOMAIN nodes => nodes[i + 1] # NULL
      <3>1. i + 1 \in DOMAIN nodes => nodes[i + 1] \in Elements(nodes)
        BY DEF Elements
      <3> QED BY <1>1, <3>1, Listed, Heaps DEF NULL
    <2>5. CASE node \in Elements(channel_list)
      <3>1. channels[node].fp \in DOMAIN disk
            /\ channels[node].fp = path_of(channels[node].seq_num, channels[node].name)
        BY <2>5, FilesOfList
      <3>2. channels[node].seq_num = current_key[1] /\ channels[node].name = names(f)[i]
        BY <1>2, <2>2 DEF id_of, id, names
      <3> QED BY <1>1, <1>2, <1>3, <1>4, <1>5, <1>8, <2>1, <2>2, <2>3, <2>4, <3>1, <3>2
    <2>6. CASE node \notin Elements(channel_list)
      <3>1. channels[node].fp = NoFile
        BY <2>1, <2>6 DEF ChannelsDescribed
      <3>2. channels[node].fp \notin DOMAIN disk
        BY <3>1, PathAssumption DEF TypeOK
      <3> QED BY <1>1, <1>2, <1>3, <1>4, <1>5, <1>8, <2>1, <2>2, <2>3, <2>4, <2>6, <3>2
    <2> QED BY <2>5, <2>6
  <1> QED
    BY <1>7, <1>8

\* A row's samples need a file that is not open.
LEMMA OnRowDataWild ==
  ASSUME IInv, on_iflr_data, UNCHANGED kind,
         ~(/\ frames[current_frame].current_channel # NULL
           /\ channels[frames[current_frame].current_channel].fp \in DOMAIN disk)
  PROVE  IInv'
  <1> USE DEF IInv
  <1> DEFINE f == current_frame
             node == frames[f].current_channel
  <1>1. /\ UNCHANGED <<kind, frames, channels, first_channel, current_frame, current_channel, seq_num,
                       parsing_set_type, within, parsing_frame_index, disk, closed, report, history>>
        /\ pc = "row" /\ pc' = "wild"
    BY DEF on_iflr_data
  <1>2. PICK i \in Nat : Reading(i)
    BY <1>1 DEF RowsWritten
  <1>3. SameNodes
    BY <1>1 DEF SameNodes, history
  <1>4. /\ Lists' /\ FramesDeclared' /\ ChannelsNamed'
        /\ frame_list' = frame_list /\ channel_list' = channel_list
    BY <1>3, SameLists, SameNames
  <1>5. ChannelsDescribed'
    <2>1. \A k \in Elements(channel_list) : channels'[k].dimension = described'[id_of(k)]
      BY <1>1 DEF ChannelsDescribed, history
    <2> QED BY <1>1, <1>3, <2>1, SameDescribed
  <1>6. Histories'
    BY <1>1 DEF Histories, history, id
  <1>7. TypeOK'
    BY <1>1 DEF TypeOK, Nodes
  <1>8. \A g \in Elements(frame_list) : /\ names(g)' = names(g) /\ (IsDeclared(g)' <=> IsDeclared(g))
               /\ indexes(g)' = indexes(g) /\ but_last(g)' = but_last(g) /\ \A j : lines(g, j)' = lines(g, j)
               /\ key_of(g)' = key_of(g)
    BY <1>1, <1>3, SameCurves DEF history
  <1>9. RowsWritten'
    <2> SUFFICES ASSUME NEW g \in Elements(frame_list), IsDeclared(g), NEW j \in DOMAIN names(g)
                 PROVE  \/ lines(g, j) = indexes(g)
                        \/ rows[key_of(g)] # <<>> /\ lines(g, j) = but_last(g)
      BY <1>1, <1>4, <1>8 DEF RowsWritten, history
    <2>1. CASE g = f
      <3>1. rows[key_of(g)] # <<>>
        BY <1>1, <2>1 DEF RowsWritten, current_key, key_of
      <3> QED BY <1>2, <2>1, <3>1 DEF Reading
    <2>2. CASE g # f
      BY <1>1, <2>2 DEF RowsWritten
    <2> QED BY <2>1, <2>2
  <1>10. IndexesNoted'
    BY <1>1, <1>3, SameIndexes DEF history
  <1>11. names(f) = <<>> \/ \E j \in DOMAIN names(f) : id(current_key, j) \notin DOMAIN described
    BY <1>1, <1>2, Row
  <1>12. names(f) = declared[current_key] /\ current_key[1] = seq_num
    BY <1>1, <1>2, Row DEF names
  <1>13. WildOnlyIfEarly'
    <2>1. \/ declared[current_key] = <<>>
          \/ \E j \in DOMAIN declared[current_key] :
               <<seq_num, declared[current_key][j]>> \notin DOMAIN described
      BY <1>11, <1>12 DEF id
    <2>2. current_key' = current_key /\ UNCHANGED <<declared, described, seq_num>>
      BY <1>1 DEF current_key, history
    <2> QED BY <2>1, <2>2 DEF WildOnlyIfEarly
  <1>14. kind.early
    <2> SUFFICES ASSUME ~kind.early PROVE FALSE
      BY KindOf
    <2>1. names(f) # <<>> /\ \A j \in DOMAIN names(f) : id(key_of(f), j) \in DOMAIN described
      BY <1>1 DEF RowsWritten
    <2>2. key_of(f) = current_key
      BY <1>1, <1>2, Row
    <2> QED BY <1>11, <2>1, <2>2
  <1>15. Closed' /\ (~kind'.early => NoWildPointer')
    BY <1>1, <1>14 DEF Closed
  <1>16. Cursors'
    <2>1. ~in_object("FRAME")' /\ ~in_object("CHANNEL")' /\ ~in_set("FRAME")'
      BY <1>1 DEF in_object, in_set
    <2>2. Cursors
      OBVIOUS
    <2> HIDE DEF IInv
    <2> QED BY <1>1, <1>4, <2>1, <2>2 DEF Cursors, history
  <1>17. UnnamedEmpty'
    BY <1>1, SameUnnamed DEF history
  <1> QED
    <2> HIDE DEF IInv
    <2> QED BY <1>4, <1>5, <1>6, <1>7, <1>9, <1>10, <1>13, <1>15, <1>16, <1>17 DEF IInv

\* A line more in a curve file, and on to the next channel.
LEMMA OnRowDataWritten ==
  ASSUME IInv, on_iflr_data, UNCHANGED kind,
         frames[current_frame].current_channel # NULL,
         channels[frames[current_frame].current_channel].fp \in DOMAIN disk
  PROVE  IInv'
  <1> USE DEF IInv
  <1>1. PICK f, node : f = current_frame /\ node = frames[f].current_channel
    OBVIOUS
  <1>2. PICK c, depth, index, noted :
          /\ c = channels[node] /\ depth = Last(rows[current_key])
          /\ noted = IF c.index = 1 THEN index_noted(frames[f], depth) ELSE frames[f]
          /\ index = IF c.index = 1 /\ frames[f].index_type THEN depth ELSE parsing_frame_index
    OBVIOUS
  <1>3. /\ UNCHANGED <<kind, channels, first_channel, current_frame, current_channel, seq_num,
                       parsing_set_type, within, closed, report, declared, described, rows>>
        /\ pc = "row"
        /\ disk' = [disk EXCEPT ![c.fp] = Append(disk[c.fp], index)]
        /\ parsing_frame_index' = index
        /\ frames' = [frames EXCEPT ![f] = [noted EXCEPT !.current_channel = c.f_next]]
        /\ pc' = IF c.f_next = NULL THEN "eflr" ELSE "row"
    BY <1>1, <1>2 DEF on_iflr_data, next_of, history
  <1>4. PICK i \in Nat : Reading(i)
    BY <1>3 DEF RowsWritten
  <1>5. PICK key, nodes, n : key = current_key /\ nodes = channels_of(f) /\ n = Len(rows[key])
    OBVIOUS
  <1>6. /\ f \in Elements(frame_list) /\ f \in DOMAIN frames /\ IsDeclared(f) /\ key_of(f) = key
        /\ rows[key] # <<>> /\ key[1] = seq_num /\ seq_num # 0 /\ DataSeen
        /\ node # NULL /\ node \in DOMAIN channels
        /\ i \in DOMAIN names(f) /\ i \in DOMAIN nodes /\ node = nodes[i] /\ i >= 1
        /\ DOMAIN names(f) = 1 .. Len(nodes) /\ Len(nodes) \in Nat
        /\ id_of(node) = id(key, i) /\ c.index = i /\ c.f_next = At(nodes, i + 1)
        /\ i + 1 \in DOMAIN nodes => nodes[i + 1] # NULL
        /\ c.fp = path_of(key[1], names(f)[i]) /\ c.fp \in DOMAIN disk
    BY <1>1, <1>2, <1>3, <1>4, <1>5, Row
  <1>7. DOMAIN nodes = 1 .. Len(nodes)
    BY <1>5, <1>6, Listed
  <1>8. /\ rows[key] \in Seq(Depths) /\ n \in 1 .. MAX_ROWS
        /\ indexes(f) \in Seq(Lines) /\ Len(indexes(f)) = n /\ indexes(f) # <<>>
        /\ \A m \in 1 .. n : indexes(f)[m] = IF frames[f].index_type THEN rows[key][m] ELSE m
        /\ depth = rows[key][n] /\ depth \in Depths
    <2>1. /\ rows[key] \in Seq(Depths) /\ n \in 0 .. MAX_ROWS
          /\ indexes(f) \in Seq(Lines) /\ Len(indexes(f)) = n /\ indexes(f) # <<>>
          /\ \A m \in 1 .. n : indexes(f)[m] = IF frames[f].index_type THEN rows[key][m] ELSE m
      BY <1>5, <1>6, IndexesOf
    <2>2. n # 0
      BY <2>1
    <2>3. depth = rows[key][n] /\ depth \in Depths
      BY <1>2, <1>5, <1>6, <2>1, SequenceEnds
    <2> QED BY <2>1, <2>2, <2>3
  <1>9. Last(indexes(f)) = indexes(f)[n] /\ Last(indexes(f)) \in Lines
        /\ Append(but_last(f), Last(indexes(f))) = indexes(f)
        /\ but_last(f) \in Seq(Lines) /\ Len(but_last(f)) = n - 1
        /\ \A m \in 1 .. n - 1 : but_last(f)[m] = indexes(f)[m]
    <2>1. but_last(f) = SubSeq(indexes(f), 1, Len(indexes(f)) - 1)
      BY <1>5, <1>6, <1>8 DEF but_last
    <2> QED BY <1>8, <2>1, SequenceEnds
  <1>10. parsing_frame_index = IF i = 1 THEN n ELSE Last(indexes(f))
    BY <1>1, <1>4, <1>5, <1>6 DEF Reading
  <1>11. index = Last(indexes(f))
    <2>1. indexes(f)[n] = IF frames[f].index_type THEN depth ELSE n
      BY <1>8
    <2> QED BY <1>2, <1>6, <1>9, <1>10, <2>1
  <1>12. frames[f] \in FrameNode /\ frames \in Seq(FrameNode) /\ channels[node] \in ChannelNode
    BY <1>6, Heaps
  <1>13. /\ noted \in FrameNode
         /\ noted.seq_num = frames[f].seq_num /\ noted.name = frames[f].name
         /\ noted.channels = frames[f].channels /\ noted.next = frames[f].next
         /\ noted.index_type = frames[f].index_type
         /\ noted.index_min = IF i = 1 /\ frames[f].index_type /\ n = 1 THEN depth ELSE frames[f].index_min
         /\ noted.index_max = IF i = 1 THEN index ELSE frames[f].index_max
    <2>1. depth \in Lines /\ n \in Lines /\ index \in Lines
      BY <1>8, <1>9, <1>11, CatalogAssumption DEF Lines
    <2>2. CASE i # 1
      BY <1>2, <1>6, <1>12, <2>2 DEF FrameNode
    <2>3. CASE i = 1 /\ frames[f].index_type
      <3>1. noted = [frames[f] EXCEPT !.index_min = IF n = 1 THEN depth ELSE frames[f].index_min,
                                      !.index_max = depth]
        BY <1>2, <1>6, <1>10, <2>3 DEF index_noted
      <3>2. index = depth
        BY <1>2, <1>6, <2>3
      <3> QED BY <1>12, <2>1, <2>3, <3>1, <3>2 DEF FrameNode
    <2>4. CASE i = 1 /\ ~frames[f].index_type
      <3>1. noted = [frames[f] EXCEPT !.index_max = n]
        BY <1>2, <1>6, <1>10, <2>4 DEF index_noted
      <3>2. index = n
        BY <1>2, <1>6, <1>10, <2>4
      <3> QED BY <1>12, <2>1, <2>4, <3>1, <3>2 DEF FrameNode
    <2> QED BY <2>2, <2>3, <2>4
  <1> DEFINE new == [noted EXCEPT !.current_channel = c.f_next]
  <1>14. /\ new \in FrameNode
         /\ new.seq_num = frames[f].seq_num /\ new.name = frames[f].name
         /\ new.channels = frames[f].channels /\ new.next = frames[f].next
         /\ new.index_type = frames[f].index_type /\ new.current_channel = c.f_next
         /\ new.index_min = noted.index_min /\ new.index_max = noted.index_max
    <2>1. c.f_next \in Nodes(channels)
      BY <1>2, <1>12 DEF ChannelNode
    <2> QED BY <1>13, <2>1 DEF FrameNode
  <1>15. /\ DOMAIN frames' = DOMAIN frames /\ frames' \in Seq(FrameNode) /\ Len(frames') = Len(frames)
         /\ \A g \in DOMAIN frames : frames'[g] = IF g = f THEN new ELSE frames[g]
    <2> HIDE DEF new
    <2>1. frames' = [frames EXCEPT ![f] = new]
      BY <1>3 DEF new
    <2> QED BY <1>6, <1>12, <1>14, <2>1
  <1> HIDE DEF new
  <1>16. DOMAIN disk' = DOMAIN disk
    BY <1>3
  <1>17. SameNodes
    <2>1. \A g \in DOMAIN frames :
            /\ frames'[g].seq_num = frames[g].seq_num /\ frames'[g].name = frames[g].name
            /\ frames'[g].channels = frames[g].channels /\ frames'[g].next = frames[g].next
      BY <1>14, <1>15
    <2> QED BY <1>3, <1>15, <1>16, <2>1 DEF SameNodes
  <1>18. /\ Lists' /\ FramesDeclared' /\ ChannelsNamed'
         /\ frame_list' = frame_list /\ channel_list' = channel_list
         /\ \A g \in DOMAIN frames : channels_of(g)' = channels_of(g)
    BY <1>17, SameLists, SameNames
  <1>19. ChannelsDescribed'
    <2>1. \A k \in Elements(channel_list) : channels'[k].dimension = described'[id_of(k)]
      BY <1>3 DEF ChannelsDescribed
    <2> QED BY <1>3, <1>17, <2>1, SameDescribed
  <1>20. Histories'
    BY <1>3 DEF Histories, id
  <1>21. \A p \in DOMAIN disk : disk'[p] = IF p = c.fp THEN Append(disk[p], index) ELSE disk[p]
    BY <1>3
  <1>22. TypeOK'
    <2>1. Nodes(frames)' = Nodes(frames) /\ Nodes(channels)' = Nodes(channels)
      BY <1>3, <1>15 DEF Nodes
    <2>2. FrameNode' = FrameNode
      BY <2>1 DEF FrameNode
    <2>3. frames' \in Seq(FrameNode')
      BY <1>15, <2>2
    <2>4. index \in Lines
      BY <1>9, <1>11
    <2>5. ASSUME NEW p \in DOMAIN disk' PROVE disk'[p] \in Seq(Lines)
      <3>1. p \in DOMAIN disk /\ disk[p] \in Seq(Lines)
        BY <1>16, <2>5 DEF TypeOK
      <3> HIDE DEF IInv
      <3>2. Append(disk[p], index) \in Seq(Lines)
        BY <2>4, <3>1
      <3> QED BY <1>21, <3>1, <3>2
    <2>6. pc' \in {"eflr", "row"}
      BY <1>3
    <2> HIDE DEF IInv
    <2>7. TypeOK
      BY DEF IInv
    <2> QED BY <1>3, <1>16, <2>1, <2>3, <2>4, <2>5, <2>6, <2>7 DEF TypeOK, FrameNode
  <1>23. ASSUME NEW g \in Elements(frame_list)
         PROVE  /\ key_of(g)' = key_of(g) /\ names(g)' = names(g) /\ (IsDeclared(g)' <=> IsDeclared(g))
                /\ indexes(g)' = indexes(g) /\ but_last(g)' = but_last(g) /\ g \in DOMAIN frames
    <2>1. key_of(g)' = key_of(g) /\ (IsDeclared(g)' <=> IsDeclared(g)) /\ g \in DOMAIN frames
      BY <1>17, SameNames, Listed
    <2>2. frames'[g].index_type = frames[g].index_type
      BY <1>14, <1>15, <2>1
    <2>3. names(g)' = names(g) /\ indexes(g)' = indexes(g)
      BY <1>3, <2>1, <2>2 DEF names, indexes
    <2>4. but_last(g)' = but_last(g)
      BY <1>3, <2>1, <2>3 DEF but_last
    <2> QED BY <2>1, <2>3, <2>4
  <1>24. lines(f, i)' = Append(lines(f, i), index)
    <2>1. lines(f, i) = disk[c.fp]
      BY <1>6 DEF lines, curve, names
    <2>2. lines(f, i)' = disk'[c.fp]
      BY <1>3, <1>6, <1>16, <1>23 DEF lines, curve, names
    <2> QED BY <1>6, <1>21, <2>1, <2>2
  <1>25. ASSUME NEW g \in Elements(frame_list), IsDeclared(g), NEW j \in DOMAIN names(g), g # f \/ j # i
         PROVE  lines(g, j)' = lines(g, j)
    <2>1. /\ key_of(g) \in DOMAIN declared /\ key \in DOMAIN declared
          /\ j \in DOMAIN declared[key_of(g)] /\ i \in DOMAIN declared[key]
      BY <1>6, <1>25 DEF IsDeclared, names
    <2>2. key_of(g) # key \/ j # i
      BY <1>6, <1>25 DEF FramesDeclared
    <2>3. id(key_of(g), j) # id(key, i)
      BY <2>1, <2>2 DEF Histories
    <2>4. /\ key_of(g)[1] \in Numbers /\ key[1] \in Numbers
          /\ declared[key_of(g)][j] \in ChannelNames /\ declared[key][i] \in ChannelNames
      BY <2>1 DEF Histories
    <2>5. path_of(key_of(g)[1], declared[key_of(g)][j]) # c.fp
      <3>1. c.fp = path_of(key[1], declared[key][i])
        BY <1>6 DEF names
      <3>2. key_of(g)[1] # key[1] \/ declared[key_of(g)][j] # declared[key][i]
        BY <2>3 DEF id
      <3> QED BY <2>4, <3>1, <3>2, PathAssumption
    <2>6. key_of(g)' = key_of(g) /\ declared' = declared
      BY <1>3, <1>23
    <2> QED BY <1>16, <1>21, <2>5, <2>6 DEF lines, curve
  <1>26. lines(f, i)' = indexes(f)'
    <2>1. lines(f, i) = but_last(f)
      BY <1>1, <1>4, <1>6 DEF Reading
    <2> QED BY <1>6, <1>9, <1>11, <1>23, <1>24, <2>1
  <1>27. ASSUME NEW j \in DOMAIN names(f)
         PROVE  lines(f, j)' = IF j < i + 1 THEN indexes(f)' ELSE but_last(f)'
    <2>1. j \in Nat /\ i \in Nat
      BY <1>6
    <2>2. CASE j = i
      BY <1>26, <2>1, <2>2
    <2>3. CASE j # i
      <3>1. lines(f, j)' = IF j < i THEN indexes(f) ELSE but_last(f)
        BY <1>1, <1>4, <1>6, <1>25, <2>3 DEF Reading
      <3>2. j < i <=> j < i + 1
        BY <2>1, <2>3
      <3> QED BY <1>6, <1>23, <3>1, <3>2
    <2> QED BY <2>2, <2>3
  <1>28. ASSUME NEW g \in Elements(frame_list), IsDeclared(g), g # f, NEW j \in DOMAIN names(g)
         PROVE  lines(g, j)' = indexes(g)'
    <2>1. lines(g, j) = indexes(g)
      BY <1>1, <1>3, <1>28 DEF RowsWritten
    <2> QED BY <1>23, <1>25, <1>28, <2>1
  <1>29. RowsWritten'
    <2>1. CASE i + 1 \notin DOMAIN nodes
      <3>1. c.f_next = NULL /\ i = Len(nodes)
        <4> HIDE DEF IInv
        <4>1. c.f_next = At(nodes, i + 1)
          BY <1>6
        <4>2. i \in 1 .. Len(nodes) /\ Len(nodes) \in Nat /\ i + 1 \notin 1 .. Len(nodes)
          BY <1>6, <1>7, <2>1
        <4>3. i = Len(nodes)
          BY <4>2
        <4> QED BY <2>1, <4>1, <4>3 DEF At
      <3>2. pc' = "eflr"
        BY <1>3, <3>1
      <3>3. \A j \in DOMAIN names(f) : j < i + 1
        BY <1>6, <3>1
      <3> SUFFICES ASSUME NEW g \in Elements(frame_list), IsDeclared(g), NEW j \in DOMAIN names(g)
                   PROVE  lines(g, j)' = indexes(g)'
        BY <1>18, <1>23, <3>2 DEF RowsWritten
      <3> QED BY <1>27, <1>28, <3>3
    <2>2. CASE i + 1 \in DOMAIN nodes
      <3>1. c.f_next = nodes[i + 1] /\ c.f_next # NULL
        BY <1>6, <2>2 DEF At
      <3>2. pc' = "row" /\ current_frame' = f
        BY <1>1, <1>3, <3>1
      <3>3. Reading(i + 1)'
        <4>1. frames'[f].current_channel = At(channels_of(f)', i + 1)
          BY <1>5, <1>6, <1>14, <1>15, <1>18
        <4>2. i + 1 \in 1 .. Len(names(f)')
          <5>1. names(f)' = names(f) /\ names(f) \in Seq(ChannelNames)
            BY <1>6, <1>23, IndexesOf
          <5>2. Len(names(f)) = Len(nodes)
            BY <1>6, <5>1
          <5> QED BY <1>6, <1>7, <2>2, <5>1, <5>2
        <4>3. \A j \in DOMAIN names(f)' : lines(f, j)' = IF j < i + 1 THEN indexes(f)' ELSE but_last(f)'
          BY <1>6, <1>23, <1>27
        <4>4. parsing_frame_index' = IF i + 1 = 1 THEN Len(rows'[key_of(f)']) ELSE Last(indexes(f)')
          BY <1>3, <1>6, <1>11, <1>23
        <4> QED BY <3>2, <4>1, <4>2, <4>3, <4>4
              DEF Reading, channels_of, names, lines, indexes, but_last, key_of
      <3>4. /\ IsDeclared(f)' /\ frames'[f].seq_num = seq_num' /\ current_key' = key /\ rows'[key] # <<>>
        <4>1. frames[f].seq_num = seq_num
          BY <1>1, <1>3 DEF RowsWritten
        <4> QED BY <1>1, <1>3, <1>5, <1>6, <1>14, <1>15, <1>23, <4>1 DEF current_key
      <3>5. ~kind'.early => /\ names(f)' # <<>>
                            /\ \A j \in DOMAIN names(f)' : id(key_of(f), j)' \in DOMAIN described'
        <4>1. ~kind.early => names(f) # <<>> /\ \A j \in DOMAIN names(f) : id(key_of(f), j) \in DOMAIN described
          BY <1>1, <1>3 DEF RowsWritten
        <4>2. \A j : id(key_of(f), j)' = id(key_of(f), j)
          BY <1>3, <1>6, <1>23 DEF id
        <4> QED BY <1>3, <1>6, <1>23, <4>1, <4>2
      <3>6. \A g \in Elements(frame_list)' : IsDeclared(g)' =>
              g = current_frame' \/ \A j \in DOMAIN names(g)' : lines(g, j)' = indexes(g)'
        BY <1>18, <1>23, <1>28, <3>2
      <3>7. /\ current_frame' # NULL /\ IsDeclared(current_frame)'
            /\ frames'[current_frame'].seq_num = seq_num' /\ rows'[current_key'] # <<>>
            /\ \E m \in Nat : Reading(m)'
            /\ ~kind'.early =>
                 /\ names(current_frame)' # <<>>
                 /\ \A j \in DOMAIN names(current_frame)' :
                      id(key_of(current_frame), j)' \in DOMAIN described'
        <4>1. f # NULL /\ i + 1 \in Nat
          BY <1>6, Heaps DEF NULL
        <4> QED BY <3>2, <3>3, <3>4, <3>5, <4>1 DEF IsDeclared, names, key_of, id
      <3> QED BY <3>2, <3>6, <3>7 DEF RowsWritten
    <2> QED BY <2>1, <2>2
  <1>30. IndexesNoted'
    <2> SUFFICES ASSUME NEW g \in Elements(frame_list), IsDeclared(g)
                 PROVE  /\ ~frames'[g].index_type => frames'[g].index_min = 1
                        /\ names(g)' # <<>> /\ lines(g, 1)' # <<>> =>
                             /\ frames'[g].index_type => frames'[g].index_min = lines(g, 1)'[1]
                             /\ frames'[g].index_max = Last(lines(g, 1)')
      BY <1>18, <1>23 DEF IndexesNoted
    <2>1. /\ names(g)' = names(g) /\ g \in DOMAIN frames
          /\ names(g) # <<>> => 1 \in DOMAIN names(g)
      <3>1. names(g) \in Seq(ChannelNames)
        BY IndexesOf
      <3> QED BY <1>23, <3>1
    <2>2. CASE g # f
      <3>1. names(g) # <<>> => lines(g, 1)' = lines(g, 1)
        BY <1>25, <2>1, <2>2
      <3>2. frames'[g] = frames[g]
        BY <1>15, <2>1, <2>2
      <3> QED BY <2>1, <3>1, <3>2 DEF IndexesNoted
    <2>3. CASE g = f /\ i # 1
      <3>1. names(g) # <<>> => lines(g, 1)' = lines(g, 1)
        BY <1>25, <2>1, <2>3
      <3>2. frames'[g].index_type = frames[g].index_type /\ frames'[g].index_min = frames[g].index_min
            /\ frames'[g].index_max = frames[g].index_max
        BY <1>13, <1>14, <1>15, <2>1, <2>3
      <3> QED BY <2>1, <3>1, <3>2 DEF IndexesNoted
    <2>4. CASE g = f /\ i = 1
      <3>1. lines(g, 1)' = indexes(f)
        BY <1>6, <1>23, <1>26, <2>4
      <3>2. Last(lines(g, 1)') = index
        BY <1>11, <3>1
      <3>3. frames'[g].index_type = frames[f].index_type /\ frames'[g].index_max = index
            /\ frames'[g].index_min = IF frames[f].index_type /\ n = 1 THEN depth ELSE frames[f].index_min
        BY <1>13, <1>14, <1>15, <2>1, <2>4
      <3>4. ~frames[f].index_type => frames[f].index_min = 1
        BY <1>6 DEF IndexesNoted
      <3>5. frames[f].index_type => frames'[g].index_min = indexes(f)[1]
        <4>1. CASE n = 1
          BY <1>8, <3>3, <4>1
        <4>2. CASE n # 1 /\ frames[f].index_type
          <5>1. lines(f, 1) = but_last(f)
            BY <1>1, <1>4, <1>6, <2>4 DEF Reading
          <5>2. lines(f, 1) # <<>> /\ lines(f, 1)[1] = indexes(f)[1]
            BY <1>8, <1>9, <4>2, <5>1
          <5>3. names(f) # <<>>
            BY <1>6
          <5>4. frames[f].index_min = lines(f, 1)[1]
            BY <1>6, <4>2, <5>2, <5>3 DEF IndexesNoted
          <5> QED BY <3>3, <4>2, <5>2, <5>4
        <4> QED BY <4>1, <4>2
      <3> QED BY <3>1, <3>2, <3>3, <3>4, <3>5
    <2> QED BY <2>2, <2>3, <2>4
  <1>31. Closed' /\ WildOnlyIfEarly' /\ NoWildPointer'
    BY <1>3 DEF Closed, WildOnlyIfEarly, NoWildPointer
  <1>32. Cursors'
    <2>1. within' = "none"
      BY <1>3 DEF Cursors
    <2>2. ~in_object("FRAME")' /\ ~in_object("CHANNEL")' /\ ~in_set("FRAME")'
      BY <2>1 DEF in_object, in_set
    <2>3. DataSeen'
      <3>1. DataSeen
        BY <1>6
      <3> QED BY <1>3, <3>1 DEF DataSeen, Declared, FrameKeys
    <2>4. current_frame' \in {NULL} \cup Elements(frame_list') /\ current_channel' = At(channel_list', Len(channel_list'))
      BY <1>3, <1>18 DEF Cursors
    <2>5. kind' \in Kinds /\ seq_num' \in {0} \cup kind'.first .. kind'.last /\ seq_num' # 0
      BY <1>3, <1>6 DEF Cursors
    <2> HIDE DEF IInv
    <2> QED BY <2>1, <2>2, <2>3, <2>4, <2>5 DEF Cursors
  <1>33. UnnamedEmpty'
    <2> SUFFICES ASSUME NEW d \in DOMAIN described,
                        \A l \in DOMAIN declared : \A j \in DOMAIN declared[l] : id(l, j) # d
                 PROVE  disk'[path_of(d[1], d[2])] = <<>>
      <3>1. \A l, j : id(l, j)' = id(l, j)
        BY <1>3 DEF id
      <3> QED BY <1>3, <3>1 DEF UnnamedEmpty
    <2>1. key \in DOMAIN declared /\ i \in DOMAIN declared[key] /\ id(key, i) = <<key[1], names(f)[i]>>
      BY <1>6 DEF IsDeclared, names, id
    <2>2. key[1] \in Numbers /\ names(f)[i] \in ChannelNames
      BY <2>1, <1>6 DEF Histories, names
    <2>3. d[1] \in Numbers /\ d[2] \in ChannelNames /\ d = <<d[1], d[2]>>
      BY DEF Histories
    <2>4. d # <<key[1], names(f)[i]>>
      BY <2>1
    <2>5. path_of(d[1], d[2]) # c.fp
      BY <1>6, <2>2, <2>3, <2>4, PathAssumption
    <2>6. path_of(d[1], d[2]) \in DOMAIN disk
      BY DEF ChannelsDescribed
    <2>7. disk[path_of(d[1], d[2])] = <<>>
      BY DEF UnnamedEmpty
    <2> QED BY <1>21, <2>5, <2>6, <2>7
  <1> QED
    <2> HIDE DEF IInv
    <2> QED BY <1>18, <1>19, <1>20, <1>22, <1>29, <1>30, <1>31, <1>32, <1>33 DEF IInv

\* One channel's value of a row, written through its pointer, wild or not.
LEMMA OnRowData == IInv /\ on_iflr_data /\ UNCHANGED kind => IInv'
  <1> QED
    BY OnRowDataWild, OnRowDataWritten

-----------------------------------------------------------------------------
(* The steps that build the lists. *)

\* The elements of a sequence with one more.
LEMMA AppendedAt ==
  ASSUME NEW S, NEW s \in Seq(S), NEW e
  PROVE  /\ Len(Append(s, e)) = Len(s) + 1 /\ DOMAIN Append(s, e) = 1 .. Len(s) + 1
         /\ Append(s, e)[Len(s) + 1] = e
         /\ \A i \in 1 .. Len(s) : Append(s, e)[i] = s[i]
         /\ e \in S => Append(s, e) \in Seq(S)
  <1>1. s \in Seq(S \cup {e}) /\ e \in S \cup {e} /\ Len(s) \in Nat
    OBVIOUS
  <1>2. /\ Append(s, e) \in Seq(S \cup {e}) /\ Len(Append(s, e)) = Len(s) + 1
        /\ Append(s, e)[Len(s) + 1] = e
        /\ \A i \in 1 .. Len(s) : Append(s, e)[i] = s[i]
    BY <1>1
  <1>3. e \in S => S \cup {e} = S
    OBVIOUS
  <1> QED
    BY <1>1, <1>2, <1>3

\* The elements of a sequence with one replaced.
LEMMA ChangedAt ==
  ASSUME NEW S, NEW s \in Seq(S), NEW k \in DOMAIN s, NEW e
  PROVE  /\ [s EXCEPT ![k] = e] \in Seq(S \cup {e}) /\ Len([s EXCEPT ![k] = e]) = Len(s)
         /\ DOMAIN [s EXCEPT ![k] = e] = 1 .. Len(s) /\ Len(s) \in Nat /\ DOMAIN s = 1 .. Len(s)
         /\ \A i \in DOMAIN s : [s EXCEPT ![k] = e][i] = IF i = k THEN e ELSE s[i]
         /\ e \in S => [s EXCEPT ![k] = e] \in Seq(S)
  <1> DEFINE t == [s EXCEPT ![k] = e]
  <1>1. Len(s) \in Nat /\ DOMAIN s = 1 .. Len(s) /\ \A i \in 1 .. Len(s) : s[i] \in S
    OBVIOUS
  <1>2. DOMAIN t = 1 .. Len(s) /\ \A i \in DOMAIN s : t[i] = IF i = k THEN e ELSE s[i]
    BY <1>1
  <1>3. t = [i \in 1 .. Len(s) |-> t[i]]
    BY <1>1
  <1> HIDE DEF t
  <1>4. t \in [1 .. Len(s) -> S \cup {e}]
    BY <1>1, <1>2, <1>3
  <1>5. t \in Seq(S \cup {e}) /\ Len(t) = Len(s)
    BY <1>1, <1>4
  <1>6. e \in S => S \cup {e} = S
    OBVIOUS
  <1> QED
    BY <1>1, <1>2, <1>5, <1>6 DEF t

\* A frame just made has the empty list of channels.
LEMMA NoChannels == ASSUME TypeOK PROVE Chain(NULL, f_next) = <<>> /\ IsList(<<>>, NULL, f_next)
  <1>1. IsList(<<>>, NULL, f_next)
    BY DEF IsList, At
  <1> QED
    BY <1>1, Heaps, ChainOfNodes

\* Where a set of frames is read.
LEMMA InFrameSet ==
  ASSUME Histories, FramesDeclared, Cursors, in_set("FRAME"), NEW name \in FrameNames,
         <<seq_num, name>> \notin Declared
  PROVE  /\ pc = "eflr" /\ parsing_set_type = "FRAME" /\ seq_num \in Numbers /\ seq_num # 0
         /\ <<seq_num, name>> \notin DOMAIN declared /\ <<seq_num, name>> \in Numbers \X FrameNames
         /\ \A f \in Elements(frame_list) : key_of(f) # <<seq_num, name>>
         /\ current_frame = NULL /\ ~kind.late => DOMAIN declared = {}
         /\ ~kind.late => ~DataSeen
         /\ current_frame # NULL /\ ~kind.late => current_frame = Last(frame_list)
  <1>1. pc = "eflr" /\ parsing_set_type = "FRAME" /\ within # "none"
    BY DEF in_set
  <1>2. seq_num # 0 /\ seq_num \in Numbers
    BY <1>1, KindOf DEF Cursors
  <1>3. <<seq_num, name>> \notin DOMAIN declared /\ <<seq_num, name>> \in Numbers \X FrameNames
    BY <1>2 DEF Declared, FrameKeys
  <1>4. \A f \in Elements(frame_list) : key_of(f) # <<seq_num, name>>
    BY <1>2, <1>3 DEF FramesDeclared, IsDeclared
  <1>5. ~kind.late => /\ ~DataSeen
                      /\ IF current_frame = NULL THEN DOMAIN declared = {}
                         ELSE current_frame = Last(frame_list)
    BY <1>1 DEF Cursors
  <1> QED
    BY <1>1, <1>2, <1>3, <1>4, <1>5

\* The frames after the step: those of the list up to the current frame, and the new one.
LEMMA FrameAdded ==
  ASSUME IInv, NEW node, NEW new, new.next = NULL,
         UNCHANGED <<channels, first_channel>>,
         \/ /\ current_frame = NULL /\ node = HEAD
            /\ frames' = [frames EXCEPT ![HEAD] = new]
         \/ /\ current_frame # NULL /\ node = Len(frames) + 1
            /\ frames' = Append([frames EXCEPT ![current_frame].next = Len(frames) + 1], new)
  PROVE  /\ DOMAIN frames' = DOMAIN frames \cup {node} /\ frames'[node] = new
         /\ Len(frames') \in Nat /\ Len(frames) <= Len(frames')
         /\ \A f \in DOMAIN frames \ {node} :
              frames'[f] = IF f = current_frame THEN [frames[f] EXCEPT !.next = node] ELSE frames[f]
         /\ \E p \in 0 .. Len(frame_list) :
              /\ IF p = 0 THEN current_frame = NULL ELSE current_frame = frame_list[p]
              /\ \A i \in 1 .. p : frame_list[i] # node
              /\ frame_list' = [i \in 1 .. p + 1 |-> IF i = p + 1 THEN node ELSE frame_list[i]]
         /\ IsList(frame_list, HEAD, next_frame)'
  <1> USE DEF IInv
  <1>1. /\ DOMAIN frames = 1 .. Len(frames) /\ Len(frames) \in Nat /\ HEAD \in DOMAIN frames
        /\ current_frame # NULL => current_frame \in DOMAIN frames /\ current_frame \in Elements(frame_list)
        /\ \A f \in DOMAIN frames : frames[f] \in FrameNode
        /\ Elements(frame_list) \subseteq DOMAIN frames
        /\ DOMAIN frame_list = 1 .. Len(frame_list) /\ Len(frame_list) \in Nat
        /\ frame_list \in Seq(1 .. Len(frames))
        /\ frames \in Seq(FrameNode)
    <2>1. current_frame \in {NULL} \cup Elements(frame_list)
      BY DEF Cursors
    <2> QED BY <2>1, Heaps, Listed
  <1>2. /\ DOMAIN frames' = DOMAIN frames \cup {node} /\ frames'[node] = new
        /\ Len(frames') \in Nat /\ Len(frames) <= Len(frames')
        /\ DOMAIN frames' = 1 .. Len(frames')
        /\ \A f \in DOMAIN frames \ {node} :
             frames'[f] = IF f = current_frame THEN [frames[f] EXCEPT !.next = node] ELSE frames[f]
        /\ current_frame # NULL => node \notin DOMAIN frames
    <2>1. CASE current_frame = NULL
      <3>1. node = HEAD /\ frames' = [frames EXCEPT ![HEAD] = new] /\ current_frame \notin DOMAIN frames
        BY <1>1, <2>1 DEF NULL
      <3> HIDE DEF IInv
      <3> QED BY <1>1, <2>1, <3>1
    <2>2. CASE current_frame # NULL
      <3>1. PICK cf, old : cf = current_frame /\ old = [frames EXCEPT ![cf].next = Len(frames) + 1]
        OBVIOUS
      <3>2. cf \in DOMAIN frames /\ node = Len(frames) + 1 /\ frames' = Append(old, new)
        BY <1>1, <2>2, <3>1 DEF NULL
      <3> HIDE DEF IInv
      <3>3. /\ Len(old) = Len(frames) /\ DOMAIN old = 1 .. Len(frames)
            /\ \E S : old \in Seq(S)
            /\ \A f \in DOMAIN frames : old[f] = IF f = cf THEN [frames[f] EXCEPT !.next = node] ELSE frames[f]
        <4> DEFINE n2 == [frames[cf] EXCEPT !.next = node]
        <4>2. old = [frames EXCEPT ![cf] = n2]
          BY <1>1, <3>1, <3>2
        <4> HIDE DEF n2
        <4>3. old \in Seq(FrameNode \cup {n2}) /\ Len(old) = Len(frames) /\ DOMAIN old = 1 .. Len(frames)
          <5>1. frames \in Seq(FrameNode) /\ cf \in DOMAIN frames
            BY <1>1, <3>2
          <5>2. LET t == [frames EXCEPT ![cf] = n2]
                IN t \in Seq(FrameNode \cup {n2}) /\ Len(t) = Len(frames) /\ DOMAIN t = 1 .. Len(frames)
            BY <5>1, ChangedAt
          <5> QED BY <4>2, <5>2
        <4>4. \A f \in DOMAIN frames : old[f] = IF f = cf THEN n2 ELSE frames[f]
          BY <1>1, <3>2, <4>2
        <4> QED BY <4>3, <4>4 DEF n2
      <3>4. PICK S : old \in Seq(S)
        BY <3>3
      <3>5. /\ Len(frames') = Len(frames) + 1 /\ DOMAIN frames' = 1 .. Len(frames) + 1
            /\ frames'[Len(frames) + 1] = new
            /\ \A f \in 1 .. Len(frames) : frames'[f] = old[f]
        <4>1. LET t == Append(old, new)
              IN /\ Len(t) = Len(old) + 1 /\ DOMAIN t = 1 .. Len(old) + 1
                 /\ t[Len(old) + 1] = new /\ \A f \in 1 .. Len(old) : t[f] = old[f]
          BY <3>4, AppendedAt
        <4> QED BY <3>2, <3>3, <4>1
      <3>6. /\ DOMAIN frames' = DOMAIN frames \cup {node} /\ node \notin DOMAIN frames
            /\ Len(frames') \in Nat /\ Len(frames) <= Len(frames') /\ DOMAIN frames' = 1 .. Len(frames')
        <4>1. PICK n \in Nat : n = Len(frames)
          BY <1>1
        <4>2. /\ DOMAIN frames = 1 .. n /\ node = n + 1
              /\ Len(frames') = n + 1 /\ DOMAIN frames' = 1 .. n + 1
          BY <1>1, <3>2, <3>5, <4>1
        <4>3. 1 .. n + 1 = (1 .. n) \cup {n + 1} /\ n + 1 \notin 1 .. n /\ n <= n + 1 /\ n + 1 \in Nat
          OBVIOUS
        <4>4. DOMAIN frames' = DOMAIN frames \cup {node} /\ node \notin DOMAIN frames
          BY <4>2, <4>3
        <4> QED BY <4>1, <4>2, <4>3, <4>4
      <3>7. \A f \in DOMAIN frames \ {node} :
              frames'[f] = IF f = current_frame THEN [frames[f] EXCEPT !.next = node] ELSE frames[f]
        BY <1>1, <3>1, <3>3, <3>5
      <3> QED BY <3>2, <3>5, <3>6, <3>7
    <2> QED BY <2>1, <2>2
  <1>3. PICK p \in 0 .. Len(frame_list) :
          IF p = 0 THEN current_frame = NULL ELSE current_frame = frame_list[p]
    <2>1. CASE current_frame = NULL
      BY <1>1, <2>1
    <2>2. CASE current_frame # NULL
      <3>1. \E i \in 1 .. Len(frame_list) : current_frame = frame_list[i]
        BY <1>1, <2>2 DEF Elements
      <3>2. PICK i \in 1 .. Len(frame_list) : current_frame = frame_list[i]
        BY <3>1
      <3>3. i \in 0 .. Len(frame_list) /\ i # 0
        BY <1>1
      <3> QED BY <3>2, <3>3
    <2> QED BY <2>1, <2>2
  <1>4. IsList(frame_list, HEAD, next_frame) /\ DOMAIN next_frame = DOMAIN frames
    BY Heaps DEF Lists
  <1>5. \A i \in 1 .. p : frame_list[i] \in DOMAIN frames /\ frame_list[i] # node /\ i \in DOMAIN frame_list
    <2> SUFFICES ASSUME NEW i \in 1 .. p PROVE frame_list[i] \in DOMAIN frames /\ frame_list[i] # node /\ i \in DOMAIN frame_list
      OBVIOUS
    <2>1. p # 0 /\ i \in DOMAIN frame_list
      BY <1>1
    <2>2. frame_list[i] \in DOMAIN frames
      BY <1>1, <2>1 DEF Elements
    <2>3. current_frame # NULL
      <3>1. current_frame = frame_list[p] /\ p \in DOMAIN frame_list
        BY <1>1, <1>3, <2>1
      <3>2. frame_list[p] \in DOMAIN frames
        BY <1>1, <3>1 DEF Elements
      <3> QED BY <1>1, <3>1, <3>2 DEF NULL
    <2> QED BY <1>2, <2>1, <2>2, <2>3
  <1>6. /\ DOMAIN next_frame' = DOMAIN frames'
        /\ next_frame'[node] = NULL
        /\ \A i \in 1 .. p - 1 : next_frame'[frame_list[i]] = next_frame[frame_list[i]]
        /\ p > 0 => next_frame'[frame_list[p]] = node
    <2>1. DOMAIN next_frame' = DOMAIN frames' /\ next_frame'[node] = NULL
      BY <1>2 DEF next_frame
    <2>2. ASSUME NEW i \in 1 .. p - 1 PROVE next_frame'[frame_list[i]] = next_frame[frame_list[i]]
      <3>1. i \in 1 .. p /\ p \in 1 .. p /\ i # p /\ p # 0
        OBVIOUS
      <3>2. frame_list[i] # frame_list[p]
        BY <1>4, <1>5, <3>1 DEF IsList
      <3>3. current_frame = frame_list[p]
        BY <1>3, <3>1
      <3>4. frames'[frame_list[i]] = frames[frame_list[i]]
        BY <1>2, <1>5, <3>1, <3>2, <3>3
      <3> QED BY <1>2, <1>5, <3>1, <3>4 DEF next_frame
    <2>3. ASSUME p > 0 PROVE next_frame'[frame_list[p]] = node
      <3>1. p \in 1 .. p /\ current_frame = frame_list[p]
        BY <1>3, <2>3
      <3>2. /\ frame_list[p] \in DOMAIN frames \ {node}
            /\ frames'[frame_list[p]] = [frames[frame_list[p]] EXCEPT !.next = node]
        BY <1>2, <1>5, <3>1
      <3>3. frames[frame_list[p]] \in FrameNode
        BY <1>1, <3>2
      <3>4. frames'[frame_list[p]].next = node
        BY <3>2, <3>3 DEF FrameNode
      <3> QED BY <1>2, <3>2, <3>4 DEF next_frame
    <2> QED BY <2>1, <2>2, <2>3
  <1> DEFINE list2 == [i \in 1 .. p + 1 |-> IF i = p + 1 THEN node ELSE frame_list[i]]
  <1>7. IsList(list2, HEAD, next_frame')
    <2>1. HEAD = IF p = 0 THEN node ELSE HEAD
      <3>1. p = 0 => current_frame = NULL
        BY <1>3
      <3> QED BY <3>1
    <2>2. DOMAIN next_frame \subseteq DOMAIN next_frame' /\ node \in DOMAIN next_frame'
      BY <1>2, <1>4, <1>6
    <2> HIDE DEF IInv
    <2> QED BY <1>4, <1>5, <1>6, <2>1, <2>2, ListCutAndAppended
  <1>8. next_frame' \in [1 .. Len(frames') -> 0 .. Len(frames')]
    <2> SUFFICES ASSUME NEW f \in DOMAIN frames' PROVE frames'[f].next \in 0 .. Len(frames')
      BY <1>2 DEF next_frame
    <2>1. node \in 0 .. Len(frames') /\ NULL \in 0 .. Len(frames')
      BY <1>2 DEF NULL
    <2>2. CASE f = node
      BY <1>2, <2>1, <2>2
    <2>3. CASE f # node
      <3>1. f \in DOMAIN frames /\ frames[f] \in FrameNode
        BY <1>1, <1>2, <2>3
      <3>2. frames[f].next \in 0 .. Len(frames)
        BY <3>1, Heaps DEF FrameNode
      <3>3. frames[f].next \in 0 .. Len(frames')
        BY <1>1, <1>2, <3>2
      <3>4. frames'[f].next \in {node, frames[f].next}
        BY <1>2, <2>3, <3>1 DEF FrameNode
      <3> QED BY <2>1, <3>3, <3>4
    <2> QED BY <2>2, <2>3
  <1>9. frame_list' = list2
    <2> HIDE DEF list2, IInv
    <2> QED BY <1>2, <1>7, <1>8, ChainOfNodes DEF frame_list
  <1> QED
    <2> HIDE DEF IInv
    <2> QED BY <1>2, <1>3, <1>5, <1>7, <1>9

\* An object of a FRAME set: a node is linked behind the last frame.
LEMMA OnFrameObject == IInv /\ on_frame_object /\ UNCHANGED kind => IInv'
  <1> SUFFICES ASSUME IInv, on_frame_object, UNCHANGED kind PROVE IInv'
    OBVIOUS
  <1> USE DEF IInv
  <1>1. PICK name \in FrameNames :
          /\ in_set("FRAME") /\ <<seq_num, name>> \notin Declared
          /\ \/ /\ current_frame = NULL
                /\ frames' = [frames EXCEPT ![HEAD] =
                                [frame_init EXCEPT !.seq_num = seq_num, !.name = name]]
                /\ current_frame' = HEAD
             \/ /\ current_frame # NULL
                /\ frames' = Append([frames EXCEPT ![current_frame].next = Len(frames) + 1],
                                    [frame_init EXCEPT !.seq_num = seq_num, !.name = name])
                /\ current_frame' = Len(frames) + 1
          /\ within' = "object"
          /\ declared' = Extended(declared, <<seq_num, name>>, <<>>)
          /\ rows' = Extended(rows, <<seq_num, name>>, <<>>)
          /\ UNCHANGED <<channels, first_channel, current_channel, seq_num, parsing_set_type,
                         parsing_frame_index, pc, outputs, described>>
    BY DEF on_frame_object
  <1>2. PICK key, new, node :
          /\ key = <<seq_num, name>> /\ node = current_frame'
          /\ new = [frame_init EXCEPT !.seq_num = seq_num, !.name = name]
    OBVIOUS
  <1>3. /\ within' = "object" /\ current_frame' = node
        /\ declared' = Extended(declared, key, <<>>) /\ rows' = Extended(rows, key, <<>>)
        /\ UNCHANGED <<kind, channels, first_channel, current_channel, seq_num, parsing_set_type,
                       parsing_frame_index, pc, disk, closed, report, described>>
    BY <1>1, <1>2 DEF outputs
  <1>4. /\ pc = "eflr" /\ parsing_set_type = "FRAME" /\ seq_num \in Numbers /\ seq_num # 0
        /\ key \notin DOMAIN declared /\ key \in Numbers \X FrameNames
        /\ \A f \in Elements(frame_list) : key_of(f) # key
        /\ current_frame = NULL /\ ~kind.late => DOMAIN declared = {}
        /\ ~kind.late => ~DataSeen
        /\ current_frame # NULL /\ ~kind.late => current_frame = Last(frame_list)
    <2> HIDE DEF IInv
    <2>1. Histories /\ FramesDeclared /\ Cursors
      BY DEF IInv
    <2> QED BY <1>1, <1>2, <2>1, InFrameSet
  <1>5. /\ new \in FrameNode /\ new.seq_num = seq_num /\ new.name = name
        /\ new.channels = NULL /\ new.current_channel = NULL /\ new.next = NULL
        /\ new.index_type = FALSE /\ new.index_min = 1 /\ new.index_max = 1
    <2>1. 1 \in Lines /\ NULL \in Nodes(channels) /\ NULL \in Nodes(frames)
      BY CatalogAssumption DEF Lines, Nodes
    <2> QED BY <1>2, <1>4, <2>1 DEF FrameNode, frame_init
  <1>6. /\ DOMAIN frames' = DOMAIN frames \cup {node} /\ frames'[node] = new
        /\ Len(frames') \in Nat /\ Len(frames) <= Len(frames')
        /\ \A f \in DOMAIN frames \ {node} :
             frames'[f] = IF f = current_frame THEN [frames[f] EXCEPT !.next = node] ELSE frames[f]
        /\ \E p \in 0 .. Len(frame_list) :
             /\ IF p = 0 THEN current_frame = NULL ELSE current_frame = frame_list[p]
             /\ \A i \in 1 .. p : frame_list[i] # node
             /\ frame_list' = [i \in 1 .. p + 1 |-> IF i = p + 1 THEN node ELSE frame_list[i]]
        /\ IsList(frame_list, HEAD, next_frame)'
    <2> HIDE DEF IInv
    <2>1. \/ /\ current_frame = NULL /\ node = HEAD
             /\ frames' = [frames EXCEPT ![HEAD] = new]
          \/ /\ current_frame # NULL /\ node = Len(frames) + 1
             /\ frames' = Append([frames EXCEPT ![current_frame].next = Len(frames) + 1], new)
      BY <1>1, <1>2
    <2>2. UNCHANGED <<channels, first_channel>> /\ new.next = NULL
      BY <1>3, <1>5
    <2> QED BY <2>1, <2>2, FrameAdded
  <1>7. PICK p \in 0 .. Len(frame_list) :
          /\ IF p = 0 THEN current_frame = NULL ELSE current_frame = frame_list[p]
          /\ \A i \in 1 .. p : frame_list[i] # node
          /\ frame_list' = [i \in 1 .. p + 1 |-> IF i = p + 1 THEN node ELSE frame_list[i]]
    BY <1>6
  <1>8. /\ DOMAIN frame_list = 1 .. Len(frame_list) /\ Len(frame_list) \in Nat
        /\ Elements(frame_list) \subseteq DOMAIN frames
        /\ DOMAIN frames = 1 .. Len(frames) /\ Len(frames) \in Nat
        /\ \A f \in DOMAIN frames : frames[f] \in FrameNode
    BY Listed, Heaps
  <1>9. /\ DOMAIN frame_list' = 1 .. p + 1 /\ Len(frame_list') = p + 1 /\ p \in Nat
        /\ frame_list'[p + 1] = node
        /\ \A i \in 1 .. p : frame_list'[i] = frame_list[i] /\ i \in DOMAIN frame_list
    <2> HIDE DEF IInv
    <2>1. p \in Nat /\ \A i \in 1 .. p : i # p + 1 /\ i \in DOMAIN frame_list /\ i \in 1 .. p + 1
      BY <1>8
    <2> QED BY <1>7, <2>1
  <1>10. /\ node \in Elements(frame_list)' /\ Last(frame_list)' = node
         /\ Elements(frame_list)' \ {node} \subseteq Elements(frame_list)
    <2>1. node \in Elements(frame_list)' /\ Last(frame_list)' = node
      <3>1. p + 1 \in DOMAIN frame_list'
        BY <1>9
      <3> QED BY <1>9, <3>1 DEF Elements, Last
    <2>2. ASSUME NEW i \in DOMAIN frame_list', frame_list'[i] # node
          PROVE  frame_list'[i] \in Elements(frame_list)
      <3>1. i \in 1 .. p
        BY <1>9, <2>2
      <3> QED BY <1>9, <3>1 DEF Elements
    <2> QED BY <2>1, <2>2 DEF Elements
  <1>11. /\ DOMAIN declared' = DOMAIN declared \cup {key} /\ declared'[key] = <<>>
         /\ DOMAIN rows' = DOMAIN rows \cup {key} /\ rows'[key] = <<>>
         /\ \A k \in DOMAIN declared : k # key /\ declared'[k] = declared[k]
         /\ \A k \in DOMAIN rows : k # key => rows'[k] = rows[k]
         /\ DOMAIN rows = DOMAIN declared
    <2>1. DOMAIN rows = DOMAIN declared
      BY DEF Histories
    <2>2. /\ DOMAIN declared' = {key} \cup DOMAIN declared /\ declared'[key] = <<>>
          /\ \A k \in DOMAIN declared : k # key => declared'[k] = declared[k]
      <3>1. declared' = Extended(declared, key, <<>>)
        BY <1>3
      <3> QED BY <3>1 DEF Extended
    <2>3. /\ DOMAIN rows' = {key} \cup DOMAIN rows /\ rows'[key] = <<>>
          /\ \A k \in DOMAIN rows : k # key => rows'[k] = rows[k]
      <3>1. rows' = Extended(rows, key, <<>>)
        BY <1>3
      <3> QED BY <3>1 DEF Extended
    <2> HIDE DEF IInv
    <2> QED BY <1>4, <2>1, <2>2, <2>3
  <1>12. \A k \in DOMAIN declared : \A i : id(k, i)' = id(k, i)
    BY <1>11 DEF id
  <1>13. f_next' = f_next /\ next_channel' = next_channel /\ channel_list' = channel_list
         /\ \A k : id_of(k)' = id_of(k)
    BY <1>3 DEF f_next, next_channel, channel_list, id_of
  <1>14. ASSUME NEW f \in Elements(frame_list)', f # node
         PROVE  /\ f \in Elements(frame_list) /\ f \in DOMAIN frames
                /\ key_of(f)' = key_of(f) /\ (IsDeclared(f)' <=> IsDeclared(f))
                /\ frames'[f].channels = frames[f].channels /\ frames'[f].index_type = frames[f].index_type
                /\ frames'[f].index_min = frames[f].index_min /\ frames'[f].index_max = frames[f].index_max
                /\ channels_of(f)' = channels_of(f)
    <2>1. f \in Elements(frame_list) /\ f \in DOMAIN frames /\ frames[f] \in FrameNode
      BY <1>8, <1>10, <1>14
    <2>2. /\ frames'[f].seq_num = frames[f].seq_num /\ frames'[f].name = frames[f].name
          /\ frames'[f].channels = frames[f].channels /\ frames'[f].index_type = frames[f].index_type
          /\ frames'[f].index_min = frames[f].index_min /\ frames'[f].index_max = frames[f].index_max
      BY <1>6, <1>14, <2>1 DEF FrameNode
    <2>3. key_of(f)' = key_of(f) /\ channels_of(f)' = channels_of(f)
      BY <1>13, <2>2 DEF key_of, channels_of
    <2>4. IsDeclared(f)' <=> IsDeclared(f)
      BY <1>4, <1>11, <2>1, <2>3 DEF IsDeclared
    <2> QED BY <2>1, <2>2, <2>3, <2>4
  <1>15. /\ key_of(node)' = key /\ IsDeclared(node)' /\ channels_of(node)' = <<>>
         /\ names(node)' = <<>> /\ frames'[node].seq_num = seq_num
    <2>1. key_of(node)' = key
      BY <1>2, <1>5, <1>6 DEF key_of
    <2>2. channels_of(node)' = <<>>
      BY <1>5, <1>6, <1>13, NoChannels DEF channels_of
    <2> QED BY <1>5, <1>6, <1>11, <2>1, <2>2 DEF IsDeclared, names
  <1>16. ASSUME NEW f \in Elements(frame_list)', f # node, IsDeclared(f)
         PROVE  /\ names(f)' = names(f) /\ indexes(f)' = indexes(f)
                /\ \A i : lines(f, i)' = lines(f, i)
    <2>1. key_of(f)' = key_of(f) /\ key_of(f) \in DOMAIN declared /\ key_of(f) \in DOMAIN rows
      BY <1>11, <1>14, <1>16 DEF IsDeclared
    <2>2. declared'[key_of(f)] = declared[key_of(f)] /\ rows'[key_of(f)] = rows[key_of(f)]
      BY <1>4, <1>11, <2>1
    <2>3. frames'[f].index_type = frames[f].index_type /\ disk' = disk
      BY <1>3, <1>14, <1>16
    <2> QED BY <2>1, <2>2, <2>3 DEF names, indexes, lines, curve
  <1>17. TypeOK'
    <2>1. Nodes(frames) \subseteq Nodes(frames)' /\ Nodes(channels)' = Nodes(channels)
      BY <1>3, <1>6 DEF Nodes
    <2>2. FrameNode \subseteq FrameNode'
      BY <2>1 DEF FrameNode
    <2>3. \A f \in DOMAIN frames' : frames'[f] \in FrameNode'
      <3> SUFFICES ASSUME NEW f \in DOMAIN frames' PROVE frames'[f] \in FrameNode'
        OBVIOUS
      <3>1. CASE f = node
        BY <1>5, <1>6, <2>2, <3>1
      <3>2. CASE f # node
        <4>1. f \in DOMAIN frames /\ frames[f] \in FrameNode' /\ node \in Nodes(frames)'
          BY <1>6, <1>8, <2>2, <3>2 DEF Nodes
        <4>2. [frames[f] EXCEPT !.next = node] \in FrameNode'
          BY <4>1 DEF FrameNode
        <4> QED BY <1>6, <3>2, <4>1, <4>2
      <3> QED BY <3>1, <3>2
    <2>4. frames' \in Seq(FrameNode')
      <3>1. \E S : frames' \in Seq(S)
        <4>1. CASE current_frame = NULL
          <5>1. frames \in Seq(FrameNode) /\ HEAD \in DOMAIN frames
            BY Heaps, Listed
          <5>2. frames' = [frames EXCEPT ![HEAD] = new]
            BY <1>1, <1>2, <4>1
          <5>3. [frames EXCEPT ![HEAD] = new] \in Seq(FrameNode \cup {new})
            BY <5>1, ChangedAt
          <5> QED BY <5>2, <5>3
        <4>2. CASE current_frame # NULL
          <5>1. frames \in Seq(FrameNode) /\ current_frame \in DOMAIN frames
            BY <1>8, <4>2, Heaps DEF Cursors
          <5> DEFINE linked == [frames EXCEPT ![current_frame].next = Len(frames) + 1]
                     n2 == [frames[current_frame] EXCEPT !.next = Len(frames) + 1]
          <5>2. frames' = Append(linked, new)
            BY <1>1, <1>2, <4>2
          <5>3. linked = [frames EXCEPT ![current_frame] = n2]
            OBVIOUS
          <5> HIDE DEF linked, n2, IInv
          <5>4. linked \in Seq(FrameNode \cup {n2})
            BY <5>1, <5>3, ChangedAt
          <5>5. linked \in Seq(FrameNode \cup {n2, new}) /\ new \in FrameNode \cup {n2, new}
            BY <5>4
          <5> QED BY <5>2, <5>5
        <4> QED BY <4>1, <4>2
      <3>2. PICK S : frames' \in Seq(S)
        BY <3>1
      <3>3. frames' \in [1 .. Len(frames') -> S] /\ DOMAIN frames' = 1 .. Len(frames')
        BY <3>2
      <3>4. frames' \in [1 .. Len(frames') -> FrameNode']
        BY <2>3, <3>3
      <3> QED BY <1>6, <3>4
    <2>5. current_frame' \in Nodes(frames')
      BY <1>3, <1>6 DEF Nodes
    <2> HIDE DEF IInv
    <2>6. TypeOK
      BY DEF IInv
    <2> QED BY <1>3, <2>1, <2>4, <2>5, <2>6 DEF TypeOK, FrameNode
  <1>18. Histories'
    <2>1. declared' \in [DOMAIN declared' -> Seq(ChannelNames)] /\ rows' \in [DOMAIN declared' -> Seq(Depths)]
      <3>1. declared \in [DOMAIN declared -> Seq(ChannelNames)] /\ rows \in [DOMAIN declared -> Seq(Depths)]
        BY DEF Histories
      <3> HIDE DEF IInv
      <3>2. \A k \in DOMAIN declared' : declared'[k] \in Seq(ChannelNames) /\ rows'[k] \in Seq(Depths)
        <4> SUFFICES ASSUME NEW k \in DOMAIN declared' PROVE declared'[k] \in Seq(ChannelNames) /\ rows'[k] \in Seq(Depths)
          OBVIOUS
        <4>1. CASE k = key
          <5>1. <<>> \in Seq(ChannelNames) /\ <<>> \in Seq(Depths)
            OBVIOUS
          <5> QED BY <1>11, <4>1, <5>1
        <4>2. CASE k # key
          <5>1. k \in DOMAIN declared /\ k \in DOMAIN rows
            BY <1>11, <4>2
          <5>2. declared'[k] = declared[k] /\ rows'[k] = rows[k]
            BY <1>11, <4>2, <5>1
          <5> QED BY <3>1, <5>1, <5>2
        <4> QED BY <4>1, <4>2
      <3>3. declared' = [k \in DOMAIN declared' |-> declared'[k]] /\ rows' = [k \in DOMAIN declared' |-> rows'[k]]
        BY <1>3, <1>11 DEF Extended
      <3> QED BY <3>2, <3>3
    <2>2. DOMAIN declared' \subseteq Numbers \X FrameNames
      BY <1>4, <1>11 DEF Histories
    <2>3. \A k \in DOMAIN declared' : Len(rows'[k]) <= MAX_ROWS
      <3> SUFFICES ASSUME NEW k \in DOMAIN declared' PROVE Len(rows'[k]) <= MAX_ROWS
        OBVIOUS
      <3>1. CASE k = key
        <4>1. Len(<<>>) = 0 /\ 0 <= MAX_ROWS
          BY CatalogAssumption
        <4> QED BY <1>11, <3>1, <4>1
      <3>2. CASE k # key
        BY <1>11, <3>2 DEF Histories
      <3> QED BY <3>1, <3>2
    <2>4. ASSUME NEW k \in DOMAIN declared', NEW l \in DOMAIN declared',
                 NEW i \in DOMAIN declared'[k], NEW j \in DOMAIN declared'[l],
                 id(k, i)' = id(l, j)'
          PROVE  k = l /\ i = j
      <3>1. k # key /\ l # key
        BY <1>11
      <3>2. k \in DOMAIN declared /\ l \in DOMAIN declared /\ declared'[k] = declared[k] /\ declared'[l] = declared[l]
        BY <1>11, <3>1
      <3> QED BY <1>12, <2>4, <3>2 DEF Histories
    <2>5. described' \in [DOMAIN described' -> Nat] /\ DOMAIN described' \subseteq Numbers \X ChannelNames
      BY <1>3 DEF Histories
    <2> HIDE DEF IInv
    <2> QED BY <2>1, <2>2, <2>3, <2>4, <2>5 DEF Histories
  <1>19. Lists'
    <2>1. IsList(channel_list, first_channel, next_channel)'
      <3>1. IsList(channel_list, first_channel, next_channel)
        BY DEF Lists
      <3> QED BY <1>3, <1>13, <3>1
    <2>2. ASSUME NEW f \in Elements(frame_list)'
          PROVE  IsList(channels_of(f)', frames'[f].channels, f_next')
      <3>1. CASE f = node
        BY <1>5, <1>6, <1>13, <1>15, <3>1, NoChannels
      <3>2. CASE f # node
        <4>1. IsList(channels_of(f), frames[f].channels, f_next)
          BY <1>14, <3>2 DEF Lists
        <4> QED BY <1>13, <1>14, <3>2, <4>1
      <3> QED BY <3>1, <3>2
    <2> HIDE DEF IInv
    <2> QED BY <1>6, <2>1, <2>2 DEF Lists
  <1>20. FramesDeclared'
    <2>1. ASSUME NEW f \in Elements(frame_list)'
          PROVE  IsDeclared(f)' \/ (key_of(f) = <<0, NoName>> /\ frames[f].channels = NULL)'
      <3>1. CASE f = node
        BY <1>15, <3>1 DEF IsDeclared, key_of
      <3>2. CASE f # node
        BY <1>14, <3>2 DEF FramesDeclared
      <3> QED BY <3>1, <3>2
    <2>2. ASSUME NEW f \in Elements(frame_list)', NEW g \in Elements(frame_list)', key_of(f)' = key_of(g)'
          PROVE  f = g
      <3>1. CASE f = node \/ g = node
        <4>1. \A h \in Elements(frame_list)' : h # node => key_of(h)' # key
          BY <1>4, <1>14
        <4>2. key_of(f)' = key /\ key_of(g)' = key
          BY <1>15, <2>2, <3>1 DEF key_of
        <4> QED BY <4>1, <4>2
      <3>2. CASE f # node /\ g # node
        BY <1>14, <2>2, <3>2 DEF FramesDeclared
      <3> QED BY <3>1, <3>2
    <2>3. ASSUME ~kind'.late, NEW k \in DOMAIN declared'
          PROVE  \E f \in Elements(frame_list)' : key_of(f)' = k
      <3>1. CASE k = key
        BY <1>10, <1>15, <3>1
      <3>2. CASE k # key
        <4>1. k \in DOMAIN declared /\ ~kind.late /\ current_frame # NULL
          BY <1>3, <1>4, <1>11, <2>3, <3>2
        <4>2. PICK f \in Elements(frame_list) : key_of(f) = k
          BY <4>1 DEF FramesDeclared
        <4>3. p = Len(frame_list)
          <5>1. current_frame = frame_list[Len(frame_list)] /\ Len(frame_list) \in DOMAIN frame_list
            BY <1>4, <4>1, Listed DEF Last
          <5>2. p # 0 /\ current_frame = frame_list[p]
            BY <1>7, <4>1
          <5>3. p \in DOMAIN frame_list
            BY <1>8, <5>2
          <5> QED BY <5>1, <5>2, <5>3 DEF Lists, IsList
        <4>4. f \in Elements(frame_list)'
          <5>1. PICK i \in DOMAIN frame_list : f = frame_list[i]
            BY <4>2 DEF Elements
          <5>2. i \in 1 .. p /\ i \in 1 .. p + 1
            BY <1>8, <4>3
          <5> QED BY <1>9, <5>1, <5>2 DEF Elements
        <4>5. f # node
          <5>1. PICK i \in DOMAIN frame_list : f = frame_list[i]
            BY <4>2 DEF Elements
          <5> QED BY <1>7, <1>8, <4>3, <5>1
        <4> QED BY <1>14, <4>2, <4>4, <4>5
      <3> QED BY <3>1, <3>2
    <2> HIDE DEF IInv
    <2> QED BY <2>1, <2>2, <2>3 DEF FramesDeclared
  <1>21. ChannelsNamed'
    <2> SUFFICES ASSUME NEW f \in Elements(frame_list)', IsDeclared(f)'
                 PROVE  (/\ Len(channels_of(f)) = Len(declared[key_of(f)])
                         /\ \A i \in DOMAIN channels_of(f) :
                              /\ id_of(channels_of(f)[i]) = id(key_of(f), i)
                              /\ channels[channels_of(f)[i]].index = i
                              /\ id_of(channels_of(f)[i]) \in DOMAIN described
                                   => channels_of(f)[i] \in Elements(channel_list))'
      BY DEF ChannelsNamed
    <2>1. CASE f = node
      <3>1. channels_of(f)' = <<>> /\ declared'[key_of(f)'] = <<>>
        BY <1>11, <1>15, <2>1 DEF channels_of, key_of
      <3> QED BY <3>1
    <2>2. CASE f # node
      <3>1. /\ f \in Elements(frame_list) /\ IsDeclared(f) /\ key_of(f)' = key_of(f) /\ channels_of(f)' = channels_of(f)
            /\ key_of(f) \in DOMAIN declared /\ declared'[key_of(f)] = declared[key_of(f)]
        BY <1>11, <1>14, <2>2 DEF IsDeclared
      <3>2. /\ Len(channels_of(f)) = Len(declared[key_of(f)])
            /\ \A i \in DOMAIN channels_of(f) :
                 /\ id_of(channels_of(f)[i]) = id(key_of(f), i)
                 /\ channels[channels_of(f)[i]].index = i
                 /\ id_of(channels_of(f)[i]) \in DOMAIN described
                      => channels_of(f)[i] \in Elements(channel_list)
        BY <3>1 DEF ChannelsNamed
      <3>3. ASSUME NEW i \in DOMAIN channels_of(f)
            PROVE  /\ (id_of(channels_of(f)[i]))' = id_of(channels_of(f)[i])
                   /\ (id(key_of(f), i))' = id(key_of(f), i)
                   /\ channels'[channels_of(f)'[i]].index = channels[channels_of(f)[i]].index
        <4>1. channels' = channels
          BY <1>3
        <4> QED BY <3>1, <4>1 DEF id_of, id
      <3>4. Elements(channel_list)' = Elements(channel_list) /\ described' = described
        BY <1>3, <1>13
      <3> HIDE DEF IInv
      <3> QED BY <3>1, <3>2, <3>3, <3>4
    <2> QED BY <2>1, <2>2
  <1>22. ChannelsDescribed'
    <2>1. ASSUME NEW k \in DOMAIN channels', channels'[k].f_next # NULL
          PROVE  \E l \in DOMAIN declared' : \E i \in DOMAIN declared'[l] : id(l, i)' = id_of(k)'
      <3>1. PICK l \in DOMAIN declared : \E i \in DOMAIN declared[l] : id(l, i) = id_of(k)
        BY <1>3, <2>1 DEF ChannelsDescribed
      <3> QED BY <1>11, <1>12, <1>13, <3>1
    <2>2. Elements(channel_list)' = Elements(channel_list)
      BY <1>13
    <2>3. ChannelsDescribed
      OBVIOUS
    <2> HIDE DEF IInv
    <2> QED BY <1>3, <1>13, <2>1, <2>2, <2>3 DEF ChannelsDescribed
  <1>23. RowsWritten'
    <2> SUFFICES ASSUME NEW f \in Elements(frame_list)', IsDeclared(f)', NEW j \in DOMAIN names(f)'
                 PROVE  lines(f, j)' = indexes(f)'
      BY <1>3, <1>4 DEF RowsWritten
    <2>1. f # node
      <3>1. f = node => names(f)' = <<>>
        BY <1>15 DEF names, key_of
      <3> QED BY <3>1
    <2>2. f \in Elements(frame_list) /\ IsDeclared(f)
      BY <1>14, <2>1
    <2> QED BY <1>4, <1>16, <2>1, <2>2 DEF RowsWritten
  <1>24. IndexesNoted'
    <2> SUFFICES ASSUME NEW f \in Elements(frame_list)', IsDeclared(f)'
                 PROVE  /\ ~frames'[f].index_type => frames'[f].index_min = 1
                        /\ names(f)' # <<>> /\ lines(f, 1)' # <<>> =>
                             /\ frames'[f].index_type => frames'[f].index_min = lines(f, 1)'[1]
                             /\ frames'[f].index_max = Last(lines(f, 1)')
      BY DEF IndexesNoted
    <2>1. CASE f = node
      <3>1. names(f)' = <<>> /\ frames'[f].index_min = 1
        BY <1>5, <1>6, <1>15, <2>1 DEF names, key_of
      <3> QED BY <3>1
    <2>2. CASE f # node
      <3>1. f \in Elements(frame_list) /\ IsDeclared(f)
        BY <1>14, <2>2
      <3> QED BY <1>14, <1>16, <2>2, <3>1 DEF IndexesNoted
    <2> QED BY <2>1, <2>2
  <1>25. Closed' /\ WildOnlyIfEarly' /\ NoWildPointer'
    BY <1>3, <1>4 DEF Closed, WildOnlyIfEarly, NoWildPointer
  <1>26. Cursors'
    <2>1. node # NULL
      BY <1>8, <1>1, <1>2 DEF HEAD, NULL
    <2>2. ~in_object("CHANNEL")'
      BY <1>3, <1>4 DEF in_object
    <2>3. (/\ current_frame # NULL
           /\ IsDeclared(current_frame) /\ frames[current_frame].seq_num = seq_num
           /\ frames[current_frame].current_channel
                = At(channels_of(current_frame), Len(channels_of(current_frame)))
           /\ rows[current_key] = <<>>)'
      <3>1. channels_of(current_frame)' = <<>> /\ IsDeclared(current_frame)'
        BY <1>3, <1>15 DEF channels_of, IsDeclared, key_of
      <3>2. current_key' = key
        BY <1>2, <1>3, <1>5, <1>6 DEF current_key
      <3>3. At(<<>>, Len(<<>>)) = NULL
        BY DEF At
      <3> QED BY <1>3, <1>5, <1>6, <1>11, <2>1, <3>1, <3>2, <3>3
    <2>4. ~kind'.late => ~DataSeen' /\ current_frame' = Last(frame_list')
      <3>1. Last(frame_list') = node
        BY <1>10
      <3>2. DataSeen' => DataSeen
        BY <1>3, <1>11 DEF DataSeen, Declared, FrameKeys
      <3> QED BY <1>3, <1>4, <3>1, <3>2
    <2>5. current_frame' \in Elements(frame_list)' /\ current_channel' = At(channel_list', Len(channel_list'))
      BY <1>3, <1>10, <1>13 DEF Cursors
    <2>6. kind' \in Kinds /\ seq_num' \in {0} \cup kind'.first .. kind'.last /\ seq_num' # 0
      BY <1>3, <1>4 DEF Cursors
    <2>7. pc' # "row"
      BY <1>3, <1>4
    <2> HIDE DEF IInv
    <2> QED BY <2>1, <2>2, <2>3, <2>4, <2>5, <2>6, <2>7 DEF Cursors
  <1>27. UnnamedEmpty'
    <2> SUFFICES ASSUME NEW d \in DOMAIN described,
                        \A l \in DOMAIN declared' : \A j \in DOMAIN declared'[l] : id(l, j)' # d
                 PROVE  disk[path_of(d[1], d[2])] = <<>>
      BY <1>3 DEF UnnamedEmpty
    <2>1. \A l \in DOMAIN declared : \A j \in DOMAIN declared[l] : id(l, j) # d
      BY <1>11, <1>12
    <2> QED BY <2>1 DEF UnnamedEmpty
  <1> QED
    <2> HIDE DEF IInv
    <2> QED BY <1>17, <1>18, <1>19, <1>20, <1>21, <1>22, <1>23, <1>24, <1>25, <1>26, <1>27 DEF IInv

\* Where a channel of a frame is read that was not named before.
LEMMA NotNamed ==
  ASSUME Histories, Cursors, seq_num # 0, NEW c \in ChannelNames, ~Named(c)
  PROVE  \A k \in DOMAIN declared : \A i \in DOMAIN declared[k] : id(k, i) # <<seq_num, c>>
  <1> SUFFICES ASSUME NEW k \in DOMAIN declared, NEW i \in DOMAIN declared[k], id(k, i) = <<seq_num, c>>
               PROVE  FALSE
    OBVIOUS
  <1>1. k[1] = seq_num /\ declared[k][i] = c
    BY DEF id
  <1>2. k \in Numbers \X FrameNames
    BY DEF Histories
  <1>3. k \in Declared
    BY <1>1, <1>2 DEF Declared, FrameKeys
  <1> QED
    BY <1>1, <1>3 DEF Named

\* A new node of the heap, when there is none that is known.
Heap(known, c) ==
  IF known # NULL THEN channels
  ELSE Append(channels, [channel_init EXCEPT !.seq_num = seq_num, !.name = c])
NodeOf(known) == IF known # NULL THEN known ELSE Len(channels) + 1

SizeOf(known) == IF known # NULL THEN Len(channels) ELSE Len(channels) + 1

\* What is known of it.
HeapHas(hp, node, n, known, c) ==
  /\ n \in Nat /\ Len(channels) <= n /\ Len(hp) = n /\ DOMAIN hp = 1 .. n /\ node \in 1 .. n
  /\ \E S : hp \in Seq(S)
  /\ DOMAIN hp = DOMAIN channels \cup {node}
  /\ \A k \in DOMAIN channels : hp[k] = channels[k]
  /\ hp[node].seq_num = seq_num /\ hp[node].name = c
  /\ \A k \in DOMAIN hp : hp[k] \in ChannelNode
  /\ node # NULL
  /\ known = NULL => /\ node \notin DOMAIN channels
                     /\ hp[node].f_next = NULL /\ hp[node].next = NULL
                     /\ hp[node].dimension = 1 /\ hp[node].fp = NoFile

\* The heap after a channel was taken or made: one node more, or none.
LEMMA HeapOf ==
  ASSUME TypeOK, Cursors, seq_num # 0, NEW c \in ChannelNames, NEW known,
         known # NULL => known \in DOMAIN channels /\ id_of(known) = <<seq_num, c>>
  PROVE  HeapHas(Heap(known, c), NodeOf(known), SizeOf(known), known, c)
  <1> DEFINE new == [channel_init EXCEPT !.seq_num = seq_num, !.name = c]
  <1>1. /\ channels \in Seq(ChannelNode) /\ Len(channels) \in Nat /\ DOMAIN channels = 1 .. Len(channels)
        /\ \A k \in DOMAIN channels : channels[k] \in ChannelNode
    BY Heaps
  <1>2. CASE known # NULL
    <2>0. SizeOf(known) = Len(channels)
      BY <1>2 DEF SizeOf
    <2>1. Heap(known, c) = channels /\ NodeOf(known) = known /\ known \in DOMAIN channels
      BY <1>2 DEF Heap, NodeOf
    <2>2. channels[known].seq_num = seq_num /\ channels[known].name = c
      BY <1>2 DEF id_of
    <2> QED BY <1>1, <1>2, <2>1, <2>2, <2>0 DEF HeapHas
  <1>3. CASE known = NULL
    <2>0. SizeOf(known) = Len(channels) + 1
      BY <1>3 DEF SizeOf
    <2>1. /\ new \in ChannelNode /\ new.seq_num = seq_num /\ new.name = c /\ new.f_next = NULL
          /\ new.next = NULL /\ new.dimension = 1 /\ new.fp = NoFile
      <3>1. seq_num \in Numbers /\ kind.MAX_DIMENSION \in Nat \ {0}
        BY KindOf DEF Cursors
      <3>2. 1 \in 1 .. kind.MAX_DIMENSION /\ 0 \in 0 .. Len(channels) /\ NULL \in Nodes(channels)
        BY <1>1, <3>1 DEF Nodes
      <3> QED BY <3>1, <3>2 DEF ChannelNode, channel_init
    <2> HIDE DEF new
    <2>2. PICK m \in Nat : m = Len(channels)
      BY <1>1
    <2>3. /\ 1 .. m + 1 = (1 .. m) \cup {m + 1} /\ m + 1 \notin 1 .. m /\ m <= m + 1
          /\ m + 1 \in 1 .. m + 1 /\ m + 1 # 0 /\ m + 1 \in Nat
      OBVIOUS
    <2>4. PICK heap : heap = Append(channels, new)
      OBVIOUS
    <2>5. Heap(known, c) = heap /\ NodeOf(known) = m + 1
      BY <1>3, <2>2, <2>4 DEF Heap, NodeOf, new
    <2>6. /\ Len(heap) = m + 1 /\ DOMAIN heap = 1 .. m + 1 /\ heap[m + 1] = new
          /\ \A k \in 1 .. m : heap[k] = channels[k]
          /\ heap \in Seq(ChannelNode)
      <3>1. LET t == Append(channels, new)
            IN /\ Len(t) = Len(channels) + 1 /\ DOMAIN t = 1 .. Len(channels) + 1
               /\ t[Len(channels) + 1] = new
               /\ \A k \in 1 .. Len(channels) : t[k] = channels[k]
               /\ t \in Seq(ChannelNode)
        BY <1>1, <2>1, AppendedAt
      <3> QED BY <2>2, <2>4, <3>1
    <2>7. DOMAIN channels = 1 .. m /\ DOMAIN heap = DOMAIN channels \cup {m + 1}
      BY <1>1, <2>2, <2>3, <2>6
    <2>8. \A k \in DOMAIN heap : heap[k] \in ChannelNode
      BY <2>6
    <2> QED BY <1>3, <2>0, <2>1, <2>2, <2>3, <2>5, <2>6, <2>7, <2>8 DEF NULL, HeapHas
  <1> QED
    BY <1>2, <1>3

\* A channel that no frame named is in the list of no frame, and goes on to none.
LEMMA NodeFree ==
  ASSUME TypeOK, Histories, Lists, FramesDeclared, ChannelsNamed, ChannelsDescribed,
         NEW d, \A k \in DOMAIN declared : \A i \in DOMAIN declared[k] : id(k, i) # d,
         NEW node, node \in DOMAIN channels => id_of(node) = d
  PROVE  /\ \A f \in Elements(frame_list) : node \notin Elements(channels_of(f))
         /\ node \in DOMAIN channels => channels[node].f_next = NULL
  <1>1. ASSUME NEW f \in Elements(frame_list), node \in Elements(channels_of(f))
        PROVE  FALSE
    <2>1. PICK i \in DOMAIN channels_of(f) : node = channels_of(f)[i]
      BY <1>1 DEF Elements
    <2>2. node \in DOMAIN channels /\ DOMAIN channels_of(f) = 1 .. Len(channels_of(f))
      BY <1>1, Listed
    <2>3. CASE IsDeclared(f)
      <3>1. id_of(node) = id(key_of(f), i) /\ Len(channels_of(f)) = Len(declared[key_of(f)])
        BY <2>1, <2>3 DEF ChannelsNamed
      <3>2. declared[key_of(f)] \in Seq(ChannelNames) /\ key_of(f) \in DOMAIN declared
        BY <2>3 DEF Histories, IsDeclared
      <3>3. i \in DOMAIN declared[key_of(f)]
        BY <2>2, <3>1, <3>2
      <3> QED BY <2>2, <3>1, <3>2, <3>3
    <2>4. CASE ~IsDeclared(f)
      <3>1. frames[f].channels = NULL
        BY <2>4 DEF FramesDeclared
      <3>2. At(channels_of(f), 1) = NULL
        BY <3>1 DEF Lists, IsList
      <3>3. 1 \in DOMAIN channels_of(f) /\ Len(channels_of(f)) \in Nat
        BY <2>2, Listed
      <3>4. channels_of(f)[1] = NULL /\ channels_of(f)[1] \in Elements(channels_of(f))
        BY <3>2, <3>3 DEF At, Elements
      <3> QED BY <3>4, Listed, Heaps DEF NULL
    <2> QED BY <2>3, <2>4
  <1>2. node \in DOMAIN channels => channels[node].f_next = NULL
    BY DEF ChannelsDescribed
  <1> QED
    BY <1>1, <1>2

\* A channel of CHANNELS: found or made, and linked behind the frame's last one.
LEMMA OnFrameChannel == IInv /\ on_frame_channel /\ UNCHANGED kind => IInv'
  <1> SUFFICES ASSUME IInv, on_frame_channel, UNCHANGED kind PROVE IInv'
    OBVIOUS
  <1> USE DEF IInv
  <1>1. PICK c, known :
          /\ c \in ChannelNames /\ known = First(channel_list, named_channels(c))
          /\ in_object("FRAME") /\ ~Named(c)
          /\ \/ /\ frames[current_frame].channels = NULL
                /\ channels' = [Heap(known, c) EXCEPT ![NodeOf(known)].index = 1]
                /\ frames' = [frames EXCEPT ![current_frame].channels = NodeOf(known),
                                            ![current_frame].current_channel = NodeOf(known)]
             \/ /\ frames[current_frame].channels # NULL
                /\ channels' = [Heap(known, c) EXCEPT
                                  ![NodeOf(known)].index =
                                     Heap(known, c)[frames[current_frame].current_channel].index + 1,
                                  ![frames[current_frame].current_channel].f_next = NodeOf(known)]
                /\ frames' = [frames EXCEPT ![current_frame].current_channel = NodeOf(known)]
          /\ declared' = [declared EXCEPT ![current_key] = Append(@, c)]
          /\ UNCHANGED <<first_channel, current_frame, current_channel, state, outputs,
                         described, rows>>
    BY DEF on_frame_channel, Heap, NodeOf
  <1>2. PICK f, key, nodes, m, node, heap, n, cid :
          /\ f = current_frame /\ key = current_key /\ nodes = channels_of(f) /\ m = Len(nodes)
          /\ node = NodeOf(known) /\ heap = Heap(known, c)
          /\ n = SizeOf(known)
          /\ cid = <<seq_num, c>>
    OBVIOUS
  <1>3. /\ UNCHANGED <<kind, first_channel, current_frame, current_channel, described, rows,
                       seq_num, parsing_set_type, within, parsing_frame_index, pc, disk, closed, report>>
        /\ declared' = [declared EXCEPT ![key] = Append(declared[key], c)]
        /\ in_object("FRAME")
    BY <1>1, <1>2 DEF state, outputs
  <1>4. /\ f \in Elements(frame_list) /\ f \in DOMAIN frames /\ IsDeclared(f) /\ key_of(f) = key
        /\ rows[key] = <<>> /\ key = <<seq_num, frames[f].name>> /\ key[1] = seq_num
        /\ pc = "eflr" /\ parsing_set_type = "FRAME" /\ within = "object" /\ seq_num # 0 /\ in_set("FRAME")
        /\ key \in DOMAIN declared /\ declared[key] \in Seq(ChannelNames) /\ seq_num \in Numbers
    <2>1. /\ f \in Elements(frame_list) /\ f \in DOMAIN frames /\ IsDeclared(f) /\ key_of(f) = key
          /\ rows[key] = <<>> /\ key = <<seq_num, frames[f].name>>
          /\ pc = "eflr" /\ parsing_set_type = "FRAME" /\ within = "object" /\ seq_num # 0 /\ in_set("FRAME")
      BY <1>2, <1>3, FrameObject
    <2>2. key \in DOMAIN declared /\ declared[key] \in Seq(ChannelNames)
      BY <2>1 DEF IsDeclared, Histories
    <2>3. seq_num \in Numbers
      BY <2>1, KindOf
    <2> QED BY <2>1, <2>2, <2>3
  <1>5. \A k \in DOMAIN declared : \A i \in DOMAIN declared[k] : id(k, i) # cid
    BY <1>1, <1>2, <1>4, NotNamed
  <1>6. /\ known # NULL => known \in Elements(channel_list) /\ known \in DOMAIN channels /\ id_of(known) = cid
        /\ known = NULL => cid \notin DOMAIN described
    <2>1. /\ known = NULL => \A k \in Elements(channel_list) : k \notin named_channels(c)
          /\ known # NULL => known \in Elements(channel_list) \cap named_channels(c)
      BY <1>1, Listed, Heaps, FirstFinds
    <2>2. known # NULL => known \in Elements(channel_list) /\ known \in DOMAIN channels /\ id_of(known) = cid
      BY <1>2, <2>1, Listed DEF named_channels, id_of
    <2>3. ASSUME known = NULL, cid \in DOMAIN described PROVE FALSE
      <3>1. PICK k \in Elements(channel_list) : id_of(k) = cid
        BY <2>3 DEF ChannelsDescribed
      <3>2. k \in named_channels(c)
        BY <1>2, <3>1, Listed DEF named_channels, id_of
      <3> QED BY <2>1, <2>3, <3>2
    <2> QED BY <2>2, <2>3
  <1>7. /\ n \in Nat /\ Len(channels) <= n /\ Len(heap) = n /\ DOMAIN heap = 1 .. n /\ node \in 1 .. n
        /\ \E S : heap \in Seq(S)
        /\ DOMAIN heap = DOMAIN channels \cup {node}
        /\ \A k \in DOMAIN channels : heap[k] = channels[k]
        /\ heap[node].seq_num = seq_num /\ heap[node].name = c
        /\ \A k \in DOMAIN heap : heap[k] \in ChannelNode
        /\ node # NULL
        /\ known = NULL => /\ node \notin DOMAIN channels
                           /\ heap[node].f_next = NULL /\ heap[node].next = NULL
                           /\ heap[node].dimension = 1 /\ heap[node].fp = NoFile
    <2>1. known # NULL => known \in DOMAIN channels /\ id_of(known) = <<seq_num, c>>
      BY <1>2, <1>6
    <2>2. TypeOK /\ Cursors /\ seq_num # 0 /\ c \in ChannelNames
      BY <1>1, <1>4
    <2> HIDE DEF IInv
    <2>3. HeapHas(Heap(known, c), NodeOf(known), SizeOf(known), known, c)
      BY <2>1, <2>2, HeapOf, Zenon
    <2>4. HeapHas(heap, node, n, known, c)
      BY <1>2, <2>3
    <2> QED BY <2>4 DEF HeapHas
  <1>8. /\ \A g \in Elements(frame_list) : node \notin Elements(channels_of(g))
        /\ heap[node].f_next = NULL
    <2>1. node \in DOMAIN channels => known # NULL /\ node = known
      BY <1>2, <1>7 DEF NodeOf
    <2>2. node \in DOMAIN channels => id_of(node) = cid
      BY <1>6, <2>1
    <2>3. /\ \A g \in Elements(frame_list) : node \notin Elements(channels_of(g))
          /\ node \in DOMAIN channels => channels[node].f_next = NULL
      BY <1>5, <2>2, NodeFree
    <2>4. heap[node].f_next = NULL
      <3>1. CASE known = NULL
        BY <1>7, <3>1
      <3>2. CASE known # NULL
        BY <1>2, <1>6, <1>7, <2>3, <3>2 DEF NodeOf
      <3> QED BY <3>1, <3>2
    <2> QED BY <2>3, <2>4
  <1>9. /\ IsList(nodes, frames[f].channels, f_next) /\ nodes \in Seq(1 .. Len(channels))
        /\ DOMAIN nodes = 1 .. m /\ m \in Nat /\ m = Len(declared[key])
        /\ frames[f].channels = At(nodes, 1) /\ frames[f].current_channel = At(nodes, m)
        /\ \A i \in 1 .. m : /\ nodes[i] \in DOMAIN channels /\ nodes[i] # node /\ nodes[i] # NULL
                             /\ id_of(nodes[i]) = id(key, i) /\ channels[nodes[i]].index = i
                             /\ id_of(nodes[i]) \in DOMAIN described => nodes[i] \in Elements(channel_list)
    <2>1. IsList(nodes, frames[f].channels, f_next) /\ nodes \in Seq(1 .. Len(channels))
          /\ DOMAIN nodes = 1 .. m /\ m \in Nat
      BY <1>2, <1>4, Listed DEF Lists
    <2>2. m = Len(declared[key])
      BY <1>2, <1>4 DEF ChannelsNamed
    <2>3. frames[f].channels = At(nodes, 1) /\ frames[f].current_channel = At(nodes, m)
      BY <1>2, <1>3, <2>1 DEF Cursors, IsList
    <2>4. ASSUME NEW i \in 1 .. m
          PROVE  /\ nodes[i] \in DOMAIN channels /\ nodes[i] # node /\ nodes[i] # NULL
                 /\ id_of(nodes[i]) = id(key, i) /\ channels[nodes[i]].index = i
                 /\ id_of(nodes[i]) \in DOMAIN described => nodes[i] \in Elements(channel_list)
      <3>1. nodes[i] \in Elements(nodes) /\ i \in DOMAIN nodes
        BY <2>1 DEF Elements
      <3>2. nodes[i] \in DOMAIN channels /\ nodes[i] # node
        BY <1>2, <1>4, <1>8, <3>1, Listed
      <3>3. nodes[i] # NULL
        BY <3>2, Heaps DEF NULL
      <3>4. /\ id_of(nodes[i]) = id(key, i) /\ channels[nodes[i]].index = i
            /\ id_of(nodes[i]) \in DOMAIN described => nodes[i] \in Elements(channel_list)
        BY <1>2, <1>4, <3>1 DEF ChannelsNamed
      <3> QED BY <3>2, <3>3, <3>4
    <2> QED BY <2>1, <2>2, <2>3, <2>4
  <1>10. IF m = 0 THEN frames[f].channels = NULL
         ELSE frames[f].channels # NULL /\ frames[f].current_channel = nodes[m] /\ m \in 1 .. m
    <2>1. CASE m = 0
      BY <1>9, <2>1 DEF At
    <2>2. CASE m # 0
      <3>1. 1 \in 1 .. m /\ m \in 1 .. m
        BY <1>9, <2>2
      <3> QED BY <1>9, <2>2, <3>1 DEF At
    <2> QED BY <2>1, <2>2
  <1>11. /\ DOMAIN channels' = 1 .. n /\ Len(channels') = n /\ channels' \in [1 .. n -> { channels'[k] : k \in 1 .. n }]
         /\ channels'[node] = [heap[node] EXCEPT !.index = m + 1]
         /\ \A k \in DOMAIN channels \ {node} :
              channels'[k] = IF m # 0 /\ k = nodes[m] THEN [channels[k] EXCEPT !.f_next = node]
                             ELSE channels[k]
    <2> HIDE DEF IInv
    <2>1. PICK S : heap \in Seq(S) /\ \A k \in DOMAIN heap : heap[k] \in ChannelNode
      BY <1>7
    <2> DEFINE first == [heap[node] EXCEPT !.index = m + 1]
               last == [channels[nodes[m]] EXCEPT !.f_next = node]
               one == [heap EXCEPT ![node] = first]
               two == [one EXCEPT ![nodes[m]] = last]
    <2>2. one \in Seq(S \cup {first}) /\ Len(one) = n /\ DOMAIN one = 1 .. n
          /\ \A k \in 1 .. n : one[k] = IF k = node THEN first ELSE heap[k]
      <3>1. LET t == [heap EXCEPT ![node] = first]
            IN /\ t \in Seq(S \cup {first}) /\ Len(t) = Len(heap) /\ DOMAIN t = 1 .. Len(heap)
               /\ \A k \in DOMAIN heap : t[k] = IF k = node THEN first ELSE heap[k]
        <4> HIDE DEF first
        <4>1. node \in DOMAIN heap
          BY <1>7
        <4> QED BY <2>1, <4>1, ChangedAt
      <3> QED BY <1>7, <3>1
    <2>3. CASE m = 0
      <3>1. channels' = one
        <4>1. channels' = [heap EXCEPT ![node].index = 1]
          BY <1>1, <1>2, <1>10, <2>3
        <4> QED BY <2>3, <4>1
      <3> HIDE DEF first, one
      <3>2. \A k \in DOMAIN channels \ {node} : channels'[k] = channels[k]
        BY <1>7, <2>2, <3>1
      <3>3. channels' \in [1 .. n -> { channels'[k] : k \in 1 .. n }]
        BY <2>2, <3>1
      <3>4. channels'[node] = first
        BY <1>7, <2>2, <3>1
      <3> QED BY <2>2, <2>3, <3>1, <3>2, <3>3, <3>4 DEF first
    <2>4. CASE m # 0
      <3>0. /\ frames[f].current_channel = nodes[m] /\ nodes[m] # node /\ nodes[m] \in DOMAIN channels
            /\ nodes[m] \in DOMAIN heap /\ heap[nodes[m]] = channels[nodes[m]] /\ channels[nodes[m]].index = m
        BY <1>7, <1>9, <1>10, <2>4
      <3>1. channels' = two
        <4>1. channels' = [heap EXCEPT ![node].index = heap[nodes[m]].index + 1, ![nodes[m]].f_next = node]
          BY <1>1, <1>2, <1>10, <2>4, <3>0
        <4>2. channels' = [[heap EXCEPT ![node].index = heap[nodes[m]].index + 1] EXCEPT ![nodes[m]].f_next = node]
          BY <4>1
        <4>3. one = [heap EXCEPT ![node].index = heap[nodes[m]].index + 1]
          BY <3>0
        <4>4. one[nodes[m]] = channels[nodes[m]]
          BY <1>7, <2>2, <3>0
        <4> HIDE DEF one
        <4> QED BY <4>2, <4>3, <4>4
      <3> HIDE DEF first, one, last
      <3>2. /\ two \in Seq(S \cup {first} \cup {last}) /\ Len(two) = n /\ DOMAIN two = 1 .. n
            /\ \A k \in 1 .. n : two[k] = IF k = nodes[m] THEN last ELSE one[k]
        <4>1. LET t == [one EXCEPT ![nodes[m]] = last]
              IN /\ t \in Seq(S \cup {first} \cup {last}) /\ Len(t) = Len(one) /\ DOMAIN t = 1 .. Len(one)
                 /\ \A k \in DOMAIN one : t[k] = IF k = nodes[m] THEN last ELSE one[k]
          <5>1. nodes[m] \in DOMAIN one
            BY <1>7, <2>2, <3>0
          <5> QED BY <2>2, <5>1, ChangedAt
        <4> QED BY <2>2, <4>1
      <3> HIDE DEF two
      <3>3. \A k \in DOMAIN channels \ {node} : channels'[k] = IF k = nodes[m] THEN last ELSE channels[k]
        BY <1>7, <2>2, <3>1, <3>2
      <3>4. channels' \in [1 .. n -> { channels'[k] : k \in 1 .. n }]
        BY <3>1, <3>2
      <3>5. channels'[node] = first
        BY <1>7, <2>2, <3>0, <3>1, <3>2
      <3> QED BY <2>4, <3>1, <3>2, <3>3, <3>4, <3>5 DEF first, last
    <2> QED
      <3> HIDE DEF one, two, first, last
      <3> QED BY <1>9, <2>3, <2>4
  <1>12. DOMAIN channels \subseteq 1 .. n /\ DOMAIN channels' = DOMAIN channels \cup {node} /\ node \in DOMAIN channels'
         /\ DOMAIN channels = 1 .. Len(channels) /\ Len(channels) \in Nat
    BY <1>7, <1>11, Heaps
  <1>13. /\ DOMAIN frames' = DOMAIN frames /\ Len(frames') = Len(frames) /\ \E S : frames' \in Seq(S)
         /\ \A g \in DOMAIN frames \ {f} : frames'[g] = frames[g]
         /\ frames'[f] = [frames[f] EXCEPT !.channels = IF m = 0 THEN node ELSE frames[f].channels,
                                           !.current_channel = node]
    <2> HIDE DEF IInv
    <2>1. frames \in Seq(FrameNode) /\ frames[f] \in FrameNode
      <3>1. TypeOK
        BY DEF IInv
      <3> QED BY <1>4, <3>1, Heaps
    <2> DEFINE new == [frames[f] EXCEPT !.channels = IF m = 0 THEN node ELSE frames[f].channels,
                                        !.current_channel = node]
    <2>2. frames' = [frames EXCEPT ![f] = new]
      <3>1. CASE m = 0
        <4>1. frames' = [frames EXCEPT ![f].channels = node, ![f].current_channel = node]
          BY <1>1, <1>2, <1>10, <3>1
        <4> QED BY <1>4, <2>1, <3>1, <4>1
      <3>2. CASE m # 0
        <4>1. frames' = [frames EXCEPT ![f].current_channel = node]
          BY <1>1, <1>2, <1>10, <3>2
        <4>2. new = [frames[f] EXCEPT !.current_channel = node]
          BY <2>1, <3>2 DEF FrameNode
        <4> QED BY <1>4, <4>1, <4>2
      <3> QED BY <3>1, <3>2
    <2> HIDE DEF new
    <2>3. LET t == [frames EXCEPT ![f] = new]
          IN /\ t \in Seq(FrameNode \cup {new}) /\ Len(t) = Len(frames) /\ DOMAIN t = 1 .. Len(frames)
             /\ DOMAIN frames = 1 .. Len(frames)
             /\ \A g \in DOMAIN frames : t[g] = IF g = f THEN new ELSE frames[g]
      BY <1>4, <2>1, ChangedAt
    <2> QED BY <1>4, <2>2, <2>3 DEF new
  <1>14. /\ \A k \in DOMAIN channels :
              /\ channels[k] \in ChannelNode
              /\ channels'[k].seq_num = channels[k].seq_num /\ channels'[k].name = channels[k].name
              /\ channels'[k].dimension = channels[k].dimension /\ channels'[k].fp = channels[k].fp
              /\ channels'[k].next = channels[k].next
              /\ k # node => channels'[k].index = channels[k].index
              /\ channels'[k].f_next = IF m # 0 /\ k = nodes[m] THEN node ELSE channels[k].f_next
         /\ channels'[node].seq_num = seq_num /\ channels'[node].name = c
         /\ channels'[node].index = m + 1 /\ channels'[node].f_next = NULL
         /\ channels'[node].dimension = heap[node].dimension
         /\ channels'[node].fp = heap[node].fp /\ channels'[node].next = heap[node].next
         /\ heap[node] \in ChannelNode
    <2> HIDE DEF IInv
    <2>1. \A k \in DOMAIN channels : channels[k] \in ChannelNode /\ heap[k] = channels[k]
      BY <1>7
    <2>2. heap[node] \in ChannelNode
      BY <1>7
    <2>3. /\ channels'[node].seq_num = seq_num /\ channels'[node].name = c
          /\ channels'[node].index = m + 1 /\ channels'[node].f_next = NULL
          /\ channels'[node].dimension = heap[node].dimension
          /\ channels'[node].fp = heap[node].fp /\ channels'[node].next = heap[node].next
      BY <1>7, <1>8, <1>11, <2>2 DEF ChannelNode
    <2>4. ASSUME NEW k \in DOMAIN channels
          PROVE  /\ channels'[k].seq_num = channels[k].seq_num /\ channels'[k].name = channels[k].name
                 /\ channels'[k].dimension = channels[k].dimension /\ channels'[k].fp = channels[k].fp
                 /\ channels'[k].next = channels[k].next
                 /\ k # node => channels'[k].index = channels[k].index
                 /\ channels'[k].f_next = IF m # 0 /\ k = nodes[m] THEN node ELSE channels[k].f_next
      <3>1. CASE k = node
        <4>1. heap[node] = channels[k]
          BY <2>1, <3>1
        <4>2. ~(m # 0 /\ k = nodes[m])
          BY <1>9, <1>10, <3>1
        <4> QED BY <1>7, <1>8, <2>3, <3>1, <4>1, <4>2
      <3>2. CASE k # node
        BY <1>11, <2>1, <3>2 DEF ChannelNode
      <3> QED BY <3>1, <3>2
    <2> QED BY <2>1, <2>2, <2>3, <2>4
  <1>15. /\ \A g \in DOMAIN frames :
              /\ frames[g] \in FrameNode
              /\ frames'[g].seq_num = frames[g].seq_num /\ frames'[g].name = frames[g].name
              /\ frames'[g].next = frames[g].next /\ frames'[g].index_type = frames[g].index_type
              /\ frames'[g].index_min = frames[g].index_min /\ frames'[g].index_max = frames[g].index_max
              /\ g # f => frames'[g].channels = frames[g].channels
         /\ frames'[f].channels = IF m = 0 THEN node ELSE frames[f].channels
         /\ frames'[f].current_channel = node
    <2>1. \A g \in DOMAIN frames : frames[g] \in FrameNode
      BY Heaps
    <2> HIDE DEF IInv
    <2>2. /\ frames'[f].seq_num = frames[f].seq_num /\ frames'[f].name = frames[f].name
          /\ frames'[f].next = frames[f].next /\ frames'[f].index_type = frames[f].index_type
          /\ frames'[f].index_min = frames[f].index_min /\ frames'[f].index_max = frames[f].index_max
          /\ frames'[f].channels = IF m = 0 THEN node ELSE frames[f].channels
          /\ frames'[f].current_channel = node
      <3>1. frames[f] \in FrameNode
        BY <1>4, <2>1
      <3> QED BY <1>13, <3>1 DEF FrameNode
    <2> QED BY <1>13, <2>1, <2>2
  <1>16. /\ DOMAIN f_next' = 1 .. n /\ DOMAIN next_channel' = 1 .. n
         /\ DOMAIN f_next = DOMAIN channels /\ DOMAIN next_channel = DOMAIN channels
         /\ f_next'[node] = NULL
         /\ \A k \in DOMAIN channels :
              /\ next_channel'[k] = next_channel[k]
              /\ f_next'[k] = IF m # 0 /\ k = nodes[m] THEN node ELSE f_next[k]
    <2> HIDE DEF IInv
    <2> QED BY <1>11, <1>12, <1>14 DEF f_next, next_channel
  <1> DEFINE more == Append(nodes, node)
  <1>17. /\ more \in Seq(1 .. n) /\ Len(more) = m + 1 /\ DOMAIN more = 1 .. m + 1 /\ more[m + 1] = node
         /\ \A i \in 1 .. m : more[i] = nodes[i]
         /\ 1 .. m + 1 = (1 .. m) \cup {m + 1} /\ m + 1 \notin 1 .. m
    <2> HIDE DEF IInv
    <2>1. nodes \in Seq(1 .. n) /\ node \in 1 .. n
      <3>1. \A i \in 1 .. m : nodes[i] \in 1 .. n
        BY <1>9, <1>12
      <3>2. nodes = [i \in 1 .. m |-> nodes[i]]
        BY <1>9
      <3>3. nodes \in [1 .. m -> 1 .. n]
        BY <3>1, <3>2
      <3> QED BY <1>7, <1>9, <3>3
    <2>2. LET t == Append(nodes, node)
          IN /\ Len(t) = Len(nodes) + 1 /\ DOMAIN t = 1 .. Len(nodes) + 1
             /\ t[Len(nodes) + 1] = node
             /\ \A i \in 1 .. Len(nodes) : t[i] = nodes[i]
             /\ t \in Seq(1 .. n)
      BY <2>1, AppendedAt
    <2>3. m = Len(nodes)
      BY <1>2
    <2>4. \A x \in Nat : 1 .. x + 1 = (1 .. x) \cup {x + 1} /\ x + 1 \notin 1 .. x
      OBVIOUS
    <2> QED BY <1>9, <2>2, <2>3, <2>4
  <1>18. IsList(more, frames'[f].channels, f_next')
    <2>1. node \in DOMAIN f_next' \ Elements(nodes)
      BY <1>2, <1>4, <1>7, <1>8, <1>16
    <2>2. \A i \in 1 .. m - 1 : f_next'[nodes[i]] = f_next[nodes[i]]
      <3> SUFFICES ASSUME NEW i \in 1 .. m - 1 PROVE f_next'[nodes[i]] = f_next[nodes[i]]
        OBVIOUS
      <3>1. i \in 1 .. m /\ m \in 1 .. m /\ i # m
        BY <1>9
      <3>2. nodes[i] # nodes[m] /\ nodes[i] \in DOMAIN channels
        BY <1>9, <3>1 DEF IsList
      <3> QED BY <1>16, <3>2
    <2>3. nodes # <<>> => f_next'[nodes[Len(nodes)]] = node
      <3>1. nodes # <<>> => m # 0
        BY <1>9
      <3> QED BY <1>2, <1>9, <1>10, <1>16, <3>1
    <2>4. frames'[f].channels = IF nodes = <<>> THEN node ELSE frames[f].channels
      <3>1. nodes = <<>> <=> m = 0
        BY <1>2, <1>9
      <3> QED BY <1>15, <3>1
    <2>5. DOMAIN f_next \subseteq DOMAIN f_next'
      BY <1>12, <1>16
    <2>6. \A i \in 1 .. Len(nodes) - 1 : f_next'[nodes[i]] = f_next[nodes[i]]
      BY <1>2, <2>2
    <2> HIDE DEF IInv
    <2> QED BY <1>9, <1>16, <2>1, <2>3, <2>4, <2>5, <2>6, ListAppended
  <1> HIDE DEF more
  <1>19. m + 1 <= n
    <2>1. \A i, j \in DOMAIN more : more[i] = more[j] => i = j
      BY <1>18 DEF IsList
    <2> HIDE DEF IInv
    <2>2. n \in Nat /\ more \in Seq(1 .. n)
      BY <1>7, <1>17
    <2>3. Len(more) <= n
      BY <2>1, <2>2, AtMostAll
    <2> QED BY <1>17, <2>3
  <1>20. TypeOK'
    <2>1. Nodes(frames)' = Nodes(frames) /\ Nodes(channels) \subseteq Nodes(channels)' /\ node \in Nodes(channels)'
      BY <1>12, <1>13 DEF Nodes
    <2>2. \A g \in DOMAIN frames' : frames'[g] \in FrameNode'
      <3> SUFFICES ASSUME NEW g \in DOMAIN frames PROVE frames'[g] \in FrameNode'
        BY <1>13
      <3>1. frames[g] \in FrameNode'
        BY <1>15, <2>1 DEF FrameNode
      <3>2. CASE g = f
        <4>1. [frames[f] EXCEPT !.channels = IF m = 0 THEN node ELSE frames[f].channels,
                                !.current_channel = node] \in FrameNode'
          BY <2>1, <3>1, <3>2 DEF FrameNode
        <4> QED BY <1>13, <3>2, <4>1
      <3>3. CASE g # f
        BY <1>13, <3>1, <3>3
      <3> QED BY <3>2, <3>3
    <2>3. frames' \in Seq(FrameNode')
      <3>1. PICK S : frames' \in Seq(S)
        BY <1>13
      <3>2. frames' = [g \in 1 .. Len(frames') |-> frames'[g]] /\ DOMAIN frames' = 1 .. Len(frames') /\ Len(frames') \in Nat
        BY <3>1
      <3> QED BY <2>2, <3>2
    <2>4. ChannelNode \subseteq ChannelNode'
      <3>1. 0 .. Len(channels) \subseteq 0 .. Len(channels')
        BY <1>7, <1>11, <1>12
      <3> QED BY <1>3, <2>1, <3>1 DEF ChannelNode
    <2>5. \A k \in DOMAIN channels' : channels'[k] \in ChannelNode'
      <3> SUFFICES ASSUME NEW k \in DOMAIN channels' PROVE channels'[k] \in ChannelNode'
        OBVIOUS
      <3>1. CASE k = node
        <4>1. heap[node] \in ChannelNode' /\ m + 1 \in 0 .. Len(channels')
          <5> HIDE DEF IInv
          <5>1. heap[node] \in ChannelNode'
            BY <1>14, <2>4
          <5>2. m \in Nat /\ n \in Nat /\ Len(channels') = n /\ m + 1 <= n
            BY <1>7, <1>9, <1>11, <1>19
          <5> QED BY <5>1, <5>2
        <4>2. [heap[node] EXCEPT !.index = m + 1] \in ChannelNode'
          BY <4>1 DEF ChannelNode
        <4> QED BY <1>11, <3>1, <4>2
      <3>2. CASE k # node
        <4>1. k \in DOMAIN channels /\ channels[k] \in ChannelNode'
          BY <1>12, <1>14, <2>4, <3>2
        <4>2. [channels[k] EXCEPT !.f_next = node] \in ChannelNode'
          BY <2>1, <4>1 DEF ChannelNode
        <4> QED BY <1>11, <3>2, <4>1, <4>2
      <3> QED BY <3>1, <3>2
    <2>6. channels' \in Seq(ChannelNode')
      <3>1. channels' = [k \in 1 .. n |-> channels'[k]] /\ n \in Nat
        BY <1>7, <1>11
      <3> QED BY <1>11, <2>5, <3>1
    <2>7. first_channel' \in Nodes(channels)' /\ current_channel' \in Nodes(channels)'
      BY <1>3, <2>1 DEF TypeOK
    <2> HIDE DEF IInv
    <2>8. TypeOK
      BY DEF IInv
    <2> QED BY <1>3, <2>1, <2>3, <2>6, <2>7, <2>8 DEF TypeOK, FrameNode, ChannelNode
  <1>21. f_next' \in [1 .. n -> 0 .. n] /\ next_channel' \in [1 .. n -> 0 .. n]
    <2>1. \A k \in DOMAIN channels : channels[k].f_next \in 0 .. n /\ channels[k].next \in 0 .. n
      <3>1. Nodes(channels) \subseteq 0 .. n
        BY <1>7, Heaps
      <3> QED BY <1>14, <3>1 DEF ChannelNode
    <2>2. NULL \in 0 .. n /\ node \in 0 .. n /\ heap[node].next \in 0 .. n
      <3>1. NULL \in 0 .. n /\ node \in 0 .. n
        BY <1>7 DEF NULL
      <3>2. CASE node \in DOMAIN channels
        BY <1>7, <2>1, <3>1, <3>2
      <3>3. CASE node \notin DOMAIN channels
        <4>1. known = NULL
          BY <1>2, <1>6, <3>3 DEF NodeOf
        <4> QED BY <1>7, <3>1, <4>1
      <3> QED BY <3>1, <3>2, <3>3
    <2>3. \A k \in 1 .. n : f_next'[k] \in 0 .. n /\ next_channel'[k] \in 0 .. n
      <3> SUFFICES ASSUME NEW k \in 1 .. n
                   PROVE  channels'[k].f_next \in 0 .. n /\ channels'[k].next \in 0 .. n
        BY <1>11 DEF f_next, next_channel
      <3>1. CASE k = node
        BY <1>14, <2>2, <3>1
      <3>2. CASE k # node
        <4>1. k \in DOMAIN channels
          BY <1>11, <1>12, <3>2
        <4>2. channels'[k].f_next \in {node, channels[k].f_next} /\ channels'[k].next = channels[k].next
          BY <1>14, <4>1
        <4> QED BY <2>1, <2>2, <4>1, <4>2
      <3> QED BY <3>1, <3>2
    <2>4. f_next' = [k \in 1 .. n |-> f_next'[k]] /\ next_channel' = [k \in 1 .. n |-> next_channel'[k]]
      BY <1>11 DEF f_next, next_channel
    <2> HIDE DEF IInv
    <2> QED BY <2>3, <2>4
  <1>22. channels_of(f)' = more
    <2>1. Chain(frames'[f].channels, f_next') = more
      BY <1>7, <1>18, <1>21, ChainOfNodes
    <2> QED BY <2>1 DEF channels_of
  <1>23. ASSUME NEW g \in Elements(frame_list), g # f
         PROVE  /\ channels_of(g)' = channels_of(g)
                /\ IsList(channels_of(g), frames'[g].channels, f_next')
                /\ \A k \in Elements(channels_of(g)) : k # node /\ k \in DOMAIN channels
    <2>1. IsList(channels_of(g), frames[g].channels, f_next) /\ g \in DOMAIN frames
      BY Listed DEF Lists
    <2>2. ASSUME NEW k \in Elements(channels_of(g))
          PROVE  k # node /\ k \in DOMAIN channels /\ ~(m # 0 /\ k = nodes[m])
      <3>1. k # node /\ k \in DOMAIN channels
        BY <1>8, Listed
      <3>2. ASSUME m # 0, k = nodes[m] PROVE FALSE
        <4>1. PICK i \in DOMAIN channels_of(g) : k = channels_of(g)[i]
          BY <2>2 DEF Elements
        <4>2. id_of(k) = id(key, m) /\ m \in 1 .. m
          BY <1>9, <1>10, <3>2
        <4>3. m \in DOMAIN declared[key]
          BY <1>4, <1>9, <4>2
        <4>4. CASE IsDeclared(g)
          <5>1. id_of(k) = id(key_of(g), i) /\ Len(channels_of(g)) = Len(declared[key_of(g)])
            BY <4>1, <4>4 DEF ChannelsNamed
          <5>2. declared[key_of(g)] \in Seq(ChannelNames) /\ key_of(g) \in DOMAIN declared
            BY <4>4 DEF Histories, IsDeclared
          <5>3. i \in DOMAIN declared[key_of(g)]
            BY <4>1, <5>1, <5>2, Listed
          <5>4. key_of(g) = key
            BY <1>4, <4>2, <4>3, <5>1, <5>2, <5>3 DEF Histories
          <5> QED BY <1>4, <1>23, <5>4 DEF FramesDeclared
        <4>5. CASE ~IsDeclared(g)
          <5>1. At(channels_of(g), 1) = NULL
            BY <2>1, <4>5 DEF FramesDeclared, IsList
          <5>2. 1 \in DOMAIN channels_of(g)
            BY <4>1, Listed
          <5>3. channels_of(g)[1] = NULL /\ channels_of(g)[1] \in Elements(channels_of(g))
            BY <5>1, <5>2 DEF At, Elements
          <5> QED BY <5>3, Listed, Heaps DEF NULL
        <4> QED BY <4>4, <4>5
      <3> QED BY <3>1, <3>2
    <2>3. \A k \in Elements(channels_of(g)) : f_next'[k] = f_next[k]
      BY <1>16, <2>2
    <2>4. IsList(channels_of(g), frames[g].channels, f_next')
      <3>1. DOMAIN f_next \subseteq DOMAIN f_next'
        BY <1>12, <1>16
      <3> HIDE DEF IInv
      <3> QED BY <2>1, <2>3, <3>1, ListUndisturbed
    <2>5. frames'[g].channels = frames[g].channels
      BY <1>15, <1>23, <2>1
    <2>6. Chain(frames'[g].channels, f_next') = channels_of(g)
      BY <1>7, <1>21, <2>4, <2>5, ChainOfNodes
    <2>7. channels_of(g)' = channels_of(g)
      BY <2>6 DEF channels_of
    <2> QED BY <2>2, <2>4, <2>5, <2>7
  <1>24. /\ frame_list' = frame_list /\ IsList(frame_list, HEAD, next_frame)'
         /\ channel_list' = channel_list /\ IsList(channel_list, first_channel, next_channel)'
    <2>1. next_frame' = next_frame
      BY <1>13, <1>15 DEF next_frame
    <2>2. frame_list' = frame_list
      BY <2>1 DEF frame_list
    <2>3. IsList(frame_list, HEAD, next_frame) /\ IsList(channel_list, first_channel, next_channel)
      BY DEF Lists
    <2>4. IsList(channel_list, first_channel, next_channel')
      <3>1. DOMAIN next_channel \subseteq DOMAIN next_channel'
        BY <1>12, <1>16
      <3>2. \A k \in Elements(channel_list) : next_channel'[k] = next_channel[k]
        BY <1>16, Listed
      <3> HIDE DEF IInv
      <3> QED BY <2>3, <3>1, <3>2, ListUndisturbed
    <2>5. channel_list' = channel_list
      <3>1. Chain(first_channel, next_channel') = channel_list
        BY <1>7, <1>21, <2>4, ChainOfNodes
      <3> QED BY <1>3, <3>1 DEF channel_list
    <2> QED BY <1>3, <2>1, <2>2, <2>3, <2>4, <2>5
  <1>25. Lists'
    <2>1. ASSUME NEW g \in Elements(frame_list)
          PROVE  IsList(channels_of(g)', frames'[g].channels, f_next')
      <3>1. CASE g = f
        BY <1>18, <1>22, <3>1
      <3>2. CASE g # f
        BY <1>23, <3>2
      <3> QED BY <3>1, <3>2
    <2> HIDE DEF IInv
    <2> QED BY <1>24, <2>1 DEF Lists
  <1>26. /\ \A g \in Elements(frame_list) : /\ key_of(g)' = key_of(g) /\ g \in DOMAIN frames
                                            /\ (IsDeclared(g)' <=> IsDeclared(g))
         /\ \A k \in DOMAIN channels : id_of(k)' = id_of(k)
         /\ id_of(node)' = cid
         /\ DOMAIN declared' = DOMAIN declared /\ declared'[key] = Append(declared[key], c)
         /\ \A k \in DOMAIN declared : k # key => declared'[k] = declared[k]
    <2>1. \A g \in Elements(frame_list) : key_of(g)' = key_of(g) /\ g \in DOMAIN frames
      BY <1>15, Listed DEF key_of
    <2>2. \A k \in DOMAIN channels : id_of(k)' = id_of(k)
      BY <1>14 DEF id_of
    <2>3. id_of(node)' = cid
      BY <1>2, <1>14 DEF id_of
    <2>4. /\ DOMAIN declared' = DOMAIN declared /\ declared'[key] = Append(declared[key], c)
          /\ \A k \in DOMAIN declared : k # key => declared'[k] = declared[k]
      BY <1>3, <1>4
    <2>5. \A g \in Elements(frame_list) : IsDeclared(g)' <=> IsDeclared(g)
      BY <2>1, <2>4 DEF IsDeclared
    <2> QED BY <2>1, <2>2, <2>3, <2>4, <2>5
  <1>27. /\ Len(declared'[key]) = m + 1 /\ DOMAIN declared'[key] = 1 .. m + 1
         /\ declared'[key][m + 1] = c /\ declared'[key] \in Seq(ChannelNames)
         /\ \A i \in 1 .. m : declared'[key][i] = declared[key][i]
         /\ DOMAIN declared[key] = 1 .. m
         /\ id(key, m + 1)' = cid
         /\ \A i \in 1 .. m : id(key, i)' = id(key, i)
         /\ \A k \in DOMAIN declared : k # key => \A i : id(k, i)' = id(k, i)
    <2>1. LET t == Append(declared[key], c)
          IN /\ Len(t) = Len(declared[key]) + 1 /\ DOMAIN t = 1 .. Len(declared[key]) + 1
             /\ t[Len(declared[key]) + 1] = c
             /\ \A i \in 1 .. Len(declared[key]) : t[i] = declared[key][i]
             /\ t \in Seq(ChannelNames)
      BY <1>1, <1>4, AppendedAt
    <2>2. DOMAIN declared[key] = 1 .. m
      BY <1>4, <1>9
    <2>3. /\ Len(declared'[key]) = m + 1 /\ DOMAIN declared'[key] = 1 .. m + 1
          /\ declared'[key][m + 1] = c /\ declared'[key] \in Seq(ChannelNames)
          /\ \A i \in 1 .. m : declared'[key][i] = declared[key][i]
      BY <1>9, <1>26, <2>1
    <2>4. id(key, m + 1)' = cid /\ \A i \in 1 .. m : id(key, i)' = id(key, i)
      BY <1>2, <1>4, <2>3 DEF id
    <2>5. \A k \in DOMAIN declared : k # key => \A i : id(k, i)' = id(k, i)
      BY <1>26 DEF id
    <2> QED BY <2>2, <2>3, <2>4, <2>5
  <1>28. ASSUME NEW k \in DOMAIN declared, NEW i \in DOMAIN declared'[k]
         PROVE  \/ i \in DOMAIN declared[k] /\ id(k, i)' = id(k, i) /\ id(k, i)' # cid
                \/ k = key /\ i = m + 1 /\ id(k, i)' = cid
    <2>1. CASE k # key
      <3>1. i \in DOMAIN declared[k] /\ id(k, i)' = id(k, i)
        BY <1>26, <1>27, <2>1
      <3> QED BY <1>5, <3>1
    <2>2. CASE k = key /\ i = m + 1
      BY <1>27, <2>2 DEF id
    <2>3. CASE k = key /\ i # m + 1
      <3>1. i \in 1 .. m /\ i \in DOMAIN declared[k]
        BY <1>17, <1>27, <2>3
      <3>2. id(k, i)' = id(k, i)
        BY <1>27, <2>3, <3>1 DEF id
      <3> QED BY <1>5, <3>1, <3>2
    <2> QED BY <2>1, <2>2, <2>3
  <1>29. Histories'
    <2>1. declared' \in [DOMAIN declared' -> Seq(ChannelNames)]
      <3>1. \A k \in DOMAIN declared' : declared'[k] \in Seq(ChannelNames)
        BY <1>26, <1>27 DEF Histories
      <3>2. declared' = [k \in DOMAIN declared' |-> declared'[k]]
        BY <1>3
      <3> QED BY <3>1, <3>2
    <2>2. ASSUME NEW k \in DOMAIN declared', NEW l \in DOMAIN declared',
                 NEW i \in DOMAIN declared'[k], NEW j \in DOMAIN declared'[l],
                 id(k, i)' = id(l, j)'
          PROVE  k = l /\ i = j
      <3>1. k \in DOMAIN declared /\ l \in DOMAIN declared
        BY <1>26
      <3>2. \/ i \in DOMAIN declared[k] /\ id(k, i)' = id(k, i) /\ id(k, i)' # cid
            \/ k = key /\ i = m + 1 /\ id(k, i)' = cid
        BY <1>28, <3>1
      <3>3. \/ j \in DOMAIN declared[l] /\ id(l, j)' = id(l, j) /\ id(l, j)' # cid
            \/ l = key /\ j = m + 1 /\ id(l, j)' = cid
        BY <1>28, <3>1
      <3>4. CASE id(k, i)' = cid
        BY <2>2, <3>2, <3>3, <3>4
      <3>5. CASE id(k, i)' # cid
        BY <2>2, <3>1, <3>2, <3>3, <3>5 DEF Histories
      <3> QED BY <3>4, <3>5
    <2>3. /\ rows \in [DOMAIN declared -> Seq(Depths)]
          /\ described \in [DOMAIN described -> Nat]
          /\ DOMAIN declared \subseteq Numbers \X FrameNames
          /\ DOMAIN described \subseteq Numbers \X ChannelNames
          /\ \A k \in DOMAIN declared : Len(rows[k]) <= MAX_ROWS
      BY DEF Histories
    <2> HIDE DEF IInv
    <2> QED BY <1>3, <1>26, <2>1, <2>2, <2>3 DEF Histories
  <1>30. FramesDeclared'
    <2>1. ASSUME NEW g \in Elements(frame_list)
          PROVE  IsDeclared(g)' \/ (key_of(g) = <<0, NoName>> /\ frames[g].channels = NULL)'
      <3>1. CASE g = f
        BY <1>4, <1>26, <3>1 DEF IsDeclared, key_of
      <3>2. CASE g # f
        <4>1. frames'[g].channels = frames[g].channels /\ key_of(g)' = key_of(g)
          BY <1>15, <1>26, <3>2
        <4> QED BY <1>26, <4>1 DEF FramesDeclared
      <3> QED BY <3>1, <3>2
    <2>2. \A g, h \in Elements(frame_list) : key_of(g)' = key_of(h)' => g = h
      BY <1>26 DEF FramesDeclared
    <2>3. ~kind'.late => \A k \in DOMAIN declared' : \E g \in Elements(frame_list) : key_of(g)' = k
      BY <1>3, <1>26 DEF FramesDeclared
    <2> HIDE DEF IInv
    <2> QED BY <1>24, <2>1, <2>2, <2>3 DEF FramesDeclared
  <1>31. \A l \in DOMAIN declared : \A i \in DOMAIN declared[l] :
           i \in DOMAIN declared'[l] /\ id(l, i)' = id(l, i)
    <2> SUFFICES ASSUME NEW l \in DOMAIN declared, NEW i \in DOMAIN declared[l]
                 PROVE  i \in DOMAIN declared'[l] /\ id(l, i)' = id(l, i)
      OBVIOUS
    <2>1. CASE l = key
      <3>1. i \in 1 .. m
        BY <1>27, <2>1
      <3> QED BY <1>17, <1>27, <2>1, <3>1
    <2>2. CASE l # key
      BY <1>26, <1>27, <2>2
    <2> QED BY <2>1, <2>2
  <1>32. node \notin DOMAIN channels => known = NULL
    BY <1>2, <1>6 DEF NodeOf
  <1>33. ChannelsNamed'
    <2>1. ASSUME NEW g \in Elements(frame_list), IsDeclared(g)'
          PROVE  /\ Len(channels_of(g)') = Len(declared'[key_of(g)])
                 /\ \A i \in DOMAIN channels_of(g)' :
                      /\ id_of(channels_of(g)[i])' = id(key_of(g), i)'
                      /\ channels'[channels_of(g)'[i]].index = i
                      /\ id_of(channels_of(g)[i])' \in DOMAIN described
                           => channels_of(g)'[i] \in Elements(channel_list)
      <3>1. CASE g = f
        <4>1. channels_of(g)' = more /\ key_of(g) = key /\ key_of(g)' = key
          BY <1>4, <1>22, <1>26, <3>1
        <4>2. ASSUME NEW i \in 1 .. m + 1
              PROVE  /\ id_of(more[i])' = id(key, i)' /\ channels'[more[i]].index = i
                     /\ id_of(more[i])' \in DOMAIN described => more[i] \in Elements(channel_list)
          <5>1. CASE i = m + 1
            <6>1. more[i] = node /\ id_of(node)' = cid /\ id(key, m + 1)' = cid /\ channels'[node].index = m + 1
              BY <1>14, <1>17, <1>26, <1>27, <5>1
            <6>2. cid \in DOMAIN described => node \in Elements(channel_list)
              BY <1>2, <1>6 DEF NodeOf
            <6> QED BY <5>1, <6>1, <6>2
          <5>2. CASE i \in 1 .. m
            <6>1. PICK k : k = nodes[i] /\ k = more[i]
              BY <1>17, <5>2
            <6>2. k \in DOMAIN channels /\ k # node /\ id_of(k)' = id_of(k)
              BY <1>9, <1>26, <5>2, <6>1
            <6>3. /\ id_of(k) = id(key, i) /\ channels[k].index = i
                  /\ id_of(k) \in DOMAIN described => k \in Elements(channel_list)
              BY <1>9, <5>2, <6>1
            <6>4. id(key, i)' = id(key, i)
              BY <1>27, <5>2
            <6>5. channels'[k].index = i
              BY <1>14, <6>2, <6>3
            <6>6. id_of(more[i])' = id_of(k)'
              BY <6>1 DEF id_of
            <6> QED BY <6>1, <6>2, <6>3, <6>4, <6>5, <6>6
          <5> QED BY <1>17, <5>1, <5>2
        <4>3. Len(more) = Len(declared'[key])
          BY <1>17, <1>27
        <4>4. \A i : id_of(channels_of(g)[i])' = id_of(more[i])' /\ id(key_of(g), i)' = id(key, i)'
          BY <4>1 DEF id_of, id
        <4> HIDE DEF IInv
        <4> QED BY <1>17, <4>1, <4>2, <4>3, <4>4
      <3>2. CASE g # f
        <4>1. /\ channels_of(g)' = channels_of(g) /\ IsDeclared(g) /\ key_of(g)' = key_of(g)
              /\ \A k \in Elements(channels_of(g)) : k # node /\ k \in DOMAIN channels
          BY <1>23, <1>26, <2>1, <3>2
        <4>2. key_of(g) # key /\ key_of(g) \in DOMAIN declared /\ declared'[key_of(g)] = declared[key_of(g)]
          BY <1>4, <1>26, <3>2, <4>1 DEF FramesDeclared, IsDeclared
        <4>3. /\ Len(channels_of(g)) = Len(declared[key_of(g)])
              /\ \A i \in DOMAIN channels_of(g) :
                   /\ id_of(channels_of(g)[i]) = id(key_of(g), i)
                   /\ channels[channels_of(g)[i]].index = i
                   /\ id_of(channels_of(g)[i]) \in DOMAIN described
                        => channels_of(g)[i] \in Elements(channel_list)
          BY <4>1 DEF ChannelsNamed
        <4>4. ASSUME NEW i \in DOMAIN channels_of(g)
              PROVE  /\ id_of(channels_of(g)[i])' = id_of(channels_of(g)[i])
                     /\ id(key_of(g), i)' = id(key_of(g), i)
                     /\ channels'[channels_of(g)'[i]].index = channels[channels_of(g)[i]].index
          <5>1. channels_of(g)[i] # node /\ channels_of(g)[i] \in DOMAIN channels
            BY <4>1 DEF Elements
          <5>2. channels'[channels_of(g)'[i]].index = channels[channels_of(g)[i]].index
            BY <1>14, <4>1, <5>1
          <5>3. id_of(channels_of(g)[i])' = id_of(channels_of(g)[i])
            BY <1>14, <4>1, <5>1 DEF id_of
          <5>4. id(key_of(g), i)' = id(key_of(g), i)
            BY <4>1, <4>2 DEF id
          <5> QED BY <5>2, <5>3, <5>4
        <4> HIDE DEF IInv
        <4> QED BY <4>1, <4>2, <4>3, <4>4
      <3> QED BY <3>1, <3>2
    <2>2. Elements(frame_list)' = Elements(frame_list) /\ Elements(channel_list)' = Elements(channel_list)
      BY <1>24
    <2>3. \A g \in Elements(frame_list) : key_of(g)' = key_of(g)
      BY <1>26
    <2> HIDE DEF IInv
    <2> QED BY <1>3, <2>1, <2>2, <2>3 DEF ChannelsNamed
  <1>34. ChannelsDescribed'
    <2>1. Elements(channel_list)' = Elements(channel_list) /\ Elements(channel_list) \subseteq DOMAIN channels
      BY <1>24, Listed
    <2>2. /\ DOMAIN described = { id_of(k)' : k \in Elements(channel_list) }
          /\ \A k, l \in Elements(channel_list) : id_of(k)' = id_of(l)' => k = l
      <3>1. \A k \in Elements(channel_list) : id_of(k)' = id_of(k)
        BY <1>26, <2>1
      <3> QED BY <3>1 DEF ChannelsDescribed
    <2>3. ASSUME NEW k \in Elements(channel_list)
          PROVE  /\ channels'[k].dimension = described[id_of(k)']
                 /\ channels'[k].fp = path_of(channels'[k].seq_num, channels'[k].name)
      <3>1. /\ channels[k].dimension = described[id_of(k)]
            /\ channels[k].fp = path_of(channels[k].seq_num, channels[k].name)
        BY DEF ChannelsDescribed
      <3> QED BY <1>14, <1>26, <2>1, <3>1
    <2>4. ASSUME NEW k \in DOMAIN channels' \ Elements(channel_list)
          PROVE  channels'[k].next = NULL /\ channels'[k].dimension = 1 /\ channels'[k].fp = NoFile
      <3>1. CASE k \in DOMAIN channels
        <4>1. channels[k].next = NULL /\ channels[k].dimension = 1 /\ channels[k].fp = NoFile
          BY <2>4, <3>1 DEF ChannelsDescribed
        <4> QED BY <1>14, <3>1, <4>1
      <3>2. CASE k \notin DOMAIN channels
        <4>1. k = node /\ known = NULL
          BY <1>12, <1>32, <3>2
        <4> QED BY <1>7, <1>14, <4>1
      <3> QED BY <3>1, <3>2
    <2>5. ASSUME NEW k \in DOMAIN channels', channels'[k].f_next # NULL
          PROVE  \E l \in DOMAIN declared' : \E i \in DOMAIN declared'[l] : id(l, i)' = id_of(k)'
      <3>1. k # node /\ k \in DOMAIN channels
        BY <1>12, <1>14, <2>5
      <3>2. \E l \in DOMAIN declared : \E i \in DOMAIN declared[l] : id(l, i) = id_of(k)
        <4>1. CASE m # 0 /\ k = nodes[m]
          <5>1. m \in 1 .. m
            BY <1>10, <4>1
          <5>2. m \in DOMAIN declared[key] /\ id_of(k) = id(key, m)
            BY <1>9, <1>27, <4>1, <5>1
          <5> QED BY <1>4, <5>2
        <4>2. CASE ~(m # 0 /\ k = nodes[m])
          <5>1. channels[k].f_next # NULL
            BY <1>14, <2>5, <3>1, <4>2
          <5> QED BY <3>1, <5>1 DEF ChannelsDescribed
        <4> QED BY <4>1, <4>2
      <3>3. PICK l, i : l \in DOMAIN declared /\ i \in DOMAIN declared[l] /\ id(l, i) = id_of(k)
        BY <3>2
      <3> QED BY <1>26, <1>31, <3>1, <3>3
    <2>6. DOMAIN disk = { path_of(d[1], d[2]) : d \in DOMAIN described }
      BY DEF ChannelsDescribed
    <2> HIDE DEF IInv
    <2> QED BY <1>3, <2>1, <2>2, <2>3, <2>4, <2>5, <2>6 DEF ChannelsDescribed
  <1>35. curve(key, c) = <<>>
    <2>1. ASSUME path_of(seq_num, c) \in DOMAIN disk PROVE disk[path_of(seq_num, c)] = <<>>
      <3>1. PICK d \in DOMAIN described : path_of(seq_num, c) = path_of(d[1], d[2])
        BY <2>1 DEF ChannelsDescribed
      <3>2. d \in Numbers \X ChannelNames
        BY DEF Histories
      <3>3. d[1] = seq_num /\ d[2] = c
        BY <1>1, <1>4, <3>1, <3>2, PathAssumption
      <3>4. d = cid
        BY <1>2, <3>2, <3>3
      <3>5. disk[path_of(d[1], d[2])] = <<>>
        BY <1>5, <3>4 DEF UnnamedEmpty
      <3> QED BY <3>3, <3>5
    <2> QED BY <1>4, <2>1 DEF curve
  <1>36. \A g \in Elements(frame_list) : g # f /\ IsDeclared(g) =>
           /\ names(g)' = names(g) /\ indexes(g)' = indexes(g)
           /\ \A j : lines(g, j)' = lines(g, j)
    <2> SUFFICES ASSUME NEW g \in Elements(frame_list), g # f, IsDeclared(g)
                 PROVE  /\ names(g)' = names(g) /\ indexes(g)' = indexes(g)
                        /\ \A j : lines(g, j)' = lines(g, j)
      OBVIOUS
    <2>1. key_of(g)' = key_of(g) /\ g \in DOMAIN frames
      BY <1>26
    <2>2. declared'[key_of(g)] = declared[key_of(g)]
      BY <1>4, <1>26 DEF FramesDeclared, IsDeclared
    <2>3. names(g)' = names(g)
      BY <2>1, <2>2 DEF names
    <2>4. frames'[g].index_type = frames[g].index_type
      BY <1>15, <2>1
    <2>5. indexes(g)' = indexes(g)
      BY <1>3, <2>1, <2>4 DEF indexes
    <2>6. disk' = disk
      BY <1>3
    <2>7. \A j : lines(g, j)' = lines(g, j)
      <3> HIDE DEF IInv
      <3> QED BY <2>1, <2>2, <2>6 DEF lines, curve
    <2> QED BY <2>3, <2>5, <2>7
  <1>37. /\ names(f)' = declared'[key] /\ indexes(f)' = <<>>
         /\ \A j \in DOMAIN names(f)' : lines(f, j)' = <<>>
    <2>1. key_of(f)' = key
      BY <1>4, <1>26
    <2>2. names(f)' = declared'[key]
      BY <2>1 DEF names
    <2>3. indexes(f)' = <<>> /\ indexes(f) = <<>>
      <3>1. DOMAIN rows[key_of(f)] = {}
        BY <1>4
      <3>2. DOMAIN rows'[key_of(f)'] = {}
        BY <1>3, <1>4, <2>1
      <3>3. \A S, e : S = {} => [x \in S |-> e] = <<>>
        OBVIOUS
      <3>4. DOMAIN indexes(f) = {} /\ indexes(f) = [x \in DOMAIN indexes(f) |-> indexes(f)[x]]
        BY <3>1 DEF indexes
      <3>5. DOMAIN indexes(f)' = {} /\ indexes(f)' = [x \in DOMAIN indexes(f)' |-> indexes(f)'[x]]
        BY <3>2 DEF indexes
      <3> QED BY <3>4, <3>5
    <2>4. ASSUME NEW j \in 1 .. m + 1 PROVE lines(f, j)' = <<>>
      <3>1. lines(f, j)' = curve(key, declared'[key][j])
        BY <1>3, <2>1 DEF lines, curve
      <3>2. CASE j = m + 1
        BY <1>27, <1>35, <3>1, <3>2
      <3>3. CASE j \in 1 .. m
        <4>1. lines(f, j)' = lines(f, j)
          BY <1>4, <1>27, <3>1, <3>3 DEF lines
        <4>2. j \in DOMAIN names(f)
          BY <1>4, <1>27, <3>3 DEF names
        <4>3. lines(f, j) = indexes(f)
          BY <1>4, <4>2 DEF RowsWritten
        <4> QED BY <2>3, <4>1, <4>3
      <3> QED BY <1>17, <3>2, <3>3
    <2> QED BY <1>27, <2>2, <2>3, <2>4
  <1>38. RowsWritten'
    <2>1. ASSUME NEW g \in Elements(frame_list), IsDeclared(g)', NEW j \in DOMAIN names(g)'
          PROVE  lines(g, j)' = indexes(g)'
      <3>1. CASE g = f
        BY <1>37, <2>1, <3>1
      <3>2. CASE g # f
        <4>1. IsDeclared(g) /\ j \in DOMAIN names(g)
          BY <1>26, <1>36, <2>1, <3>2
        <4>2. lines(g, j) = indexes(g)
          BY <1>4, <4>1 DEF RowsWritten
        <4> QED BY <1>36, <3>2, <4>1, <4>2
      <3> QED BY <3>1, <3>2
    <2>2. Elements(frame_list)' = Elements(frame_list) /\ pc' = "eflr"
      BY <1>3, <1>4, <1>24
    <2> HIDE DEF IInv
    <2> QED BY <2>1, <2>2 DEF RowsWritten
  <1>39. IndexesNoted'
    <2>1. ASSUME NEW g \in Elements(frame_list), IsDeclared(g)'
          PROVE  /\ ~frames'[g].index_type => frames'[g].index_min = 1
                 /\ names(g)' # <<>> /\ lines(g, 1)' # <<>> =>
                      /\ frames'[g].index_type => frames'[g].index_min = lines(g, 1)'[1]
                      /\ frames'[g].index_max = Last(lines(g, 1)')
      <3>1. IsDeclared(g) /\ g \in DOMAIN frames
        BY <1>26, <2>1
      <3>2. ~frames'[g].index_type => frames'[g].index_min = 1
        BY <1>15, <3>1 DEF IndexesNoted
      <3>3. CASE g = f
        <4>1. 1 \in DOMAIN names(f)'
          BY <1>9, <1>27, <1>37
        <4> QED BY <1>37, <3>2, <3>3, <4>1
      <3>4. CASE g # f
        <4>1. names(g)' = names(g) /\ lines(g, 1)' = lines(g, 1)
          BY <1>36, <3>1, <3>4
        <4>2. names(g) # <<>> /\ lines(g, 1) # <<>> =>
                      /\ frames[g].index_type => frames[g].index_min = lines(g, 1)[1]
                      /\ frames[g].index_max = Last(lines(g, 1))
          BY <3>1 DEF IndexesNoted
        <4>3. /\ frames'[g].index_type = frames[g].index_type /\ frames'[g].index_min = frames[g].index_min
              /\ frames'[g].index_max = frames[g].index_max
          BY <1>15, <3>1
        <4> HIDE DEF IInv
        <4> QED BY <3>2, <4>1, <4>2, <4>3
      <3> QED BY <3>3, <3>4
    <2>2. Elements(frame_list)' = Elements(frame_list)
      BY <1>24
    <2> HIDE DEF IInv
    <2> QED BY <2>1, <2>2 DEF IndexesNoted
  <1>40. UnnamedEmpty'
    <2> SUFFICES ASSUME NEW d \in DOMAIN described,
                        \A l \in DOMAIN declared' : \A j \in DOMAIN declared'[l] : id(l, j)' # d
                 PROVE  disk[path_of(d[1], d[2])] = <<>>
      BY <1>3 DEF UnnamedEmpty
    <2>1. \A l \in DOMAIN declared : \A j \in DOMAIN declared[l] : id(l, j) # d
      BY <1>26, <1>31
    <2> QED BY <2>1 DEF UnnamedEmpty
  <1>41. Closed' /\ WildOnlyIfEarly' /\ NoWildPointer'
    BY <1>3, <1>4 DEF Closed, WildOnlyIfEarly, NoWildPointer
  <1>42. Cursors'
    <2>1. ~in_object("CHANNEL")' /\ pc' # "row" /\ pc' = "eflr" /\ within' = "object"
      BY <1>3, <1>4 DEF in_object
    <2>2. (/\ current_frame # NULL
           /\ IsDeclared(current_frame) /\ frames[current_frame].seq_num = seq_num
           /\ frames[current_frame].current_channel
                = At(channels_of(current_frame), Len(channels_of(current_frame)))
           /\ rows[current_key] = <<>>)'
      <3>1. current_frame' = f /\ f # NULL /\ frames[f].seq_num = seq_num
        BY <1>2, <1>3 DEF Cursors
      <3>2. IsDeclared(f)' /\ frames'[f].seq_num = seq_num'
        BY <1>3, <1>4, <1>15, <1>26, <3>1
      <3>3. IsDeclared(current_frame)'
        BY <3>1, <3>2 DEF IsDeclared, key_of
      <3>4. current_key' = key
        BY <1>3, <1>4, <1>15, <3>1 DEF current_key
      <3>5. channels_of(current_frame)' = more
        BY <1>22, <3>1 DEF channels_of
      <3>6. m + 1 \in 1 .. m + 1
        BY <1>9
      <3>7. At(more, Len(more)) = node
        BY <1>17, <3>6 DEF At
      <3>8. frames'[current_frame'].current_channel = node
        BY <1>15, <3>1
      <3> QED BY <1>3, <1>4, <3>1, <3>2, <3>3, <3>4, <3>5, <3>7, <3>8
    <2>3. DataSeen' <=> DataSeen
      BY <1>3, <1>26 DEF DataSeen, Declared, FrameKeys
    <2>4. ~kind'.late => /\ in_set("FRAME")' => ~DataSeen'
                         /\ ~DataSeen' => IF current_frame' = NULL THEN DOMAIN declared' = {}
                                          ELSE current_frame' = Last(frame_list')
      <3>1. ~kind.late => /\ in_set("FRAME") => ~DataSeen
                          /\ ~DataSeen => IF current_frame = NULL THEN DOMAIN declared = {}
                                          ELSE current_frame = Last(frame_list)
        BY <1>4 DEF Cursors
      <3>2. in_set("FRAME")' <=> in_set("FRAME")
        BY <1>3 DEF in_set
      <3> HIDE DEF IInv
      <3> QED BY <1>3, <1>24, <1>26, <2>3, <3>1, <3>2
    <2>5. current_frame' \in Elements(frame_list)' /\ current_channel' = At(channel_list', Len(channel_list'))
      BY <1>2, <1>3, <1>4, <1>24 DEF Cursors
    <2>6. kind' \in Kinds /\ seq_num' \in {0} \cup kind'.first .. kind'.last /\ seq_num' # 0
      BY <1>3, <1>4 DEF Cursors
    <2> HIDE DEF IInv
    <2> QED BY <2>1, <2>2, <2>4, <2>5, <2>6 DEF Cursors
  <1> QED
    <2> HIDE DEF IInv
    <2> QED BY <1>20, <1>25, <1>29, <1>30, <1>33, <1>34, <1>38, <1>39, <1>40, <1>41, <1>42 DEF IInv

\* The node of a channel among those of the frames.
LEMMA FoundInFrames ==
  ASSUME TypeOK, Lists, NEW c
  PROVE  /\ found_in_frames(c) = NULL =>
              \A f \in Elements(frame_list) : \A k \in Elements(channels_of(f)) : k \notin named_channels(c)
         /\ found_in_frames(c) # NULL =>
              \E f \in Elements(frame_list) :
                found_in_frames(c) \in Elements(channels_of(f)) \cap named_channels(c)
  <1> DEFINE having == { i \in DOMAIN frame_list :
                           First(channels_of(frame_list[i]), named_channels(c)) # NULL }
  <1>1. ASSUME NEW f \in Elements(frame_list)
        PROVE  /\ First(channels_of(f), named_channels(c)) = NULL =>
                    \A k \in Elements(channels_of(f)) : k \notin named_channels(c)
               /\ First(channels_of(f), named_channels(c)) # NULL =>
                    First(channels_of(f), named_channels(c)) \in Elements(channels_of(f)) \cap named_channels(c)
    <2>1. channels_of(f) \in Seq(1 .. Len(channels)) /\ Len(channels) \in Nat
      BY Listed, Heaps
    <2> QED BY <2>1, FirstFinds
  <1>2. CASE having = {}
    <2>1. found_in_frames(c) = NULL
      BY <1>2 DEF found_in_frames
    <2>2. \A f \in Elements(frame_list) : First(channels_of(f), named_channels(c)) = NULL
      BY <1>2 DEF Elements
    <2> QED BY <1>1, <2>1, <2>2
  <1>3. CASE having # {}
    <2>1. having \subseteq Nat
      BY Listed
    <2>2. \E i \in having : \A j \in having : i <= j
      <3> HIDE DEF having
      <3> QED BY <1>3, <2>1, LeastNatural
    <2>3. PICK i \in having : i = CHOOSE x \in having : \A j \in having : x <= j
      <3> HIDE DEF having
      <3> QED BY <2>2
    <2>4. found_in_frames(c) = First(channels_of(frame_list[i]), named_channels(c))
      BY <1>3, <2>3 DEF found_in_frames
    <2>5. frame_list[i] \in Elements(frame_list)
      BY DEF Elements
    <2>6. found_in_frames(c) # NULL
      BY <2>4
    <2> QED BY <1>1, <2>4, <2>5, <2>6
  <1> QED
    BY <1>2, <1>3

\* A channel has one node among those of the frames.
LEMMA OneNode ==
  ASSUME TypeOK, Histories, Lists, FramesDeclared, ChannelsNamed,
         NEW f \in Elements(frame_list), NEW g \in Elements(frame_list),
         NEW k \in Elements(channels_of(f)), NEW l \in Elements(channels_of(g)), id_of(k) = id_of(l)
  PROVE  k = l
  <1>1. ASSUME NEW h \in Elements(frame_list), NEW x \in Elements(channels_of(h))
        PROVE  /\ IsDeclared(h)
               /\ \E i \in DOMAIN declared[key_of(h)] : x = channels_of(h)[i] /\ id_of(x) = id(key_of(h), i)
    <2>1. PICK i \in DOMAIN channels_of(h) : x = channels_of(h)[i]
      BY DEF Elements
    <2>2. DOMAIN channels_of(h) = 1 .. Len(channels_of(h)) /\ Len(channels_of(h)) \in Nat
      BY Listed
    <2>3. IsDeclared(h)
      <3> SUFFICES ASSUME ~IsDeclared(h) PROVE FALSE
        OBVIOUS
      <3>1. frames[h].channels = NULL
        BY DEF FramesDeclared
      <3>2. At(channels_of(h), 1) = NULL
        BY <3>1 DEF Lists, IsList
      <3>3. 1 \in DOMAIN channels_of(h)
        BY <2>1, <2>2
      <3>4. channels_of(h)[1] = NULL /\ channels_of(h)[1] \in Elements(channels_of(h))
        BY <3>2, <3>3 DEF At, Elements
      <3> QED BY <3>4, Listed, Heaps DEF NULL
    <2>4. id_of(x) = id(key_of(h), i) /\ Len(channels_of(h)) = Len(declared[key_of(h)])
      BY <2>1, <2>3 DEF ChannelsNamed
    <2>5. declared[key_of(h)] \in Seq(ChannelNames)
      BY <2>3 DEF Histories, IsDeclared
    <2>6. i \in DOMAIN declared[key_of(h)]
      BY <2>1, <2>2, <2>4, <2>5
    <2> QED BY <2>1, <2>3, <2>4, <2>6
  <1>2. PICK i \in DOMAIN declared[key_of(f)] : k = channels_of(f)[i] /\ id_of(k) = id(key_of(f), i)
    BY <1>1
  <1>3. PICK j \in DOMAIN declared[key_of(g)] : l = channels_of(g)[j] /\ id_of(l) = id(key_of(g), j)
    BY <1>1
  <1>4. key_of(f) \in DOMAIN declared /\ key_of(g) \in DOMAIN declared
    BY <1>1 DEF IsDeclared
  <1>5. key_of(f) = key_of(g) /\ i = j
    BY <1>2, <1>3, <1>4 DEF Histories
  <1>6. f = g
    BY <1>5 DEF FramesDeclared
  <1> QED
    BY <1>2, <1>3, <1>5, <1>6

\* An object of a CHANNEL set: its node gets a file and is linked into the list.
LEMMA OnChannelObject == IInv /\ on_channel_object /\ UNCHANGED kind => IInv'
  <1> SUFFICES ASSUME IInv, on_channel_object, UNCHANGED kind PROVE IInv'
    OBVIOUS
  <1> USE DEF IInv
  <1>0. PICK c \in ChannelNames :
          LET known == found_in_frames(c)
              node  == IF known # NULL THEN known ELSE Len(channels) + 1
              heap  == IF known # NULL THEN channels
                       ELSE Append(channels, [channel_init EXCEPT !.seq_num = seq_num, !.name = c])
              path  == path_of(seq_num, c)
              opened == [heap EXCEPT ![node].fp = path]
          IN /\ in_set("CHANNEL") /\ <<seq_num, c>> \notin DOMAIN described
             /\ \/ /\ current_channel = NULL
                   /\ first_channel' = node
                   /\ channels' = opened
                \/ /\ current_channel # NULL
                   /\ channels' = [opened EXCEPT ![current_channel].next = node]
                   /\ UNCHANGED first_channel
             /\ current_channel' = node
             /\ disk' = Extended(disk, path, <<>>)
             /\ within' = "object"
             /\ described' = Extended(described, <<seq_num, c>>, 1)
             /\ UNCHANGED <<frames, current_frame, seq_num, parsing_set_type, parsing_frame_index, pc,
                            closed, report, declared, rows>>
    BY Zenon DEF on_channel_object
  <1>1. PICK known :
          /\ known = found_in_frames(c)
          /\ in_set("CHANNEL") /\ <<seq_num, c>> \notin DOMAIN described
          /\ \/ /\ current_channel = NULL
                /\ first_channel' = NodeOf(known)
                /\ channels' = [Heap(known, c) EXCEPT ![NodeOf(known)].fp = path_of(seq_num, c)]
             \/ /\ current_channel # NULL
                /\ channels' = [[Heap(known, c) EXCEPT ![NodeOf(known)].fp = path_of(seq_num, c)]
                                  EXCEPT ![current_channel].next = NodeOf(known)]
                /\ UNCHANGED first_channel
          /\ current_channel' = NodeOf(known)
          /\ disk' = Extended(disk, path_of(seq_num, c), <<>>)
          /\ within' = "object"
          /\ described' = Extended(described, <<seq_num, c>>, 1)
          /\ UNCHANGED <<frames, current_frame, seq_num, parsing_set_type, parsing_frame_index, pc,
                         closed, report, declared, rows>>
    <2> DEFINE known == found_in_frames(c)
               node == IF known # NULL THEN known ELSE Len(channels) + 1
               heap == IF known # NULL THEN channels
                       ELSE Append(channels, [channel_init EXCEPT !.seq_num = seq_num, !.name = c])
               path == path_of(seq_num, c)
               opened == [heap EXCEPT ![node].fp = path]
    <2>1. node = NodeOf(known) /\ heap = Heap(known, c)
      BY DEF NodeOf, Heap
    <2>2. /\ in_set("CHANNEL") /\ <<seq_num, c>> \notin DOMAIN described
          /\ \/ /\ current_channel = NULL
                /\ first_channel' = node
                /\ channels' = opened
             \/ /\ current_channel # NULL
                /\ channels' = [opened EXCEPT ![current_channel].next = node]
                /\ UNCHANGED first_channel
          /\ current_channel' = node
          /\ disk' = Extended(disk, path, <<>>)
          /\ within' = "object"
          /\ described' = Extended(described, <<seq_num, c>>, 1)
          /\ UNCHANGED <<frames, current_frame, seq_num, parsing_set_type, parsing_frame_index, pc,
                         closed, report, declared, rows>>
      BY <1>0
    <2>3. opened = [Heap(known, c) EXCEPT ![NodeOf(known)].fp = path]
      <3> HIDE DEF node, heap
      <3> QED BY <2>1
    <2> HIDE DEF node, heap, opened
    <2> QED BY <2>1, <2>2, <2>3
  <1>2. PICK list, m, node, heap, n, cid, path :
          /\ list = channel_list /\ m = Len(list)
          /\ node = NodeOf(known) /\ heap = Heap(known, c) /\ n = SizeOf(known)
          /\ cid = <<seq_num, c>> /\ path = path_of(seq_num, c)
    OBVIOUS
  <1>3. /\ UNCHANGED <<kind, frames, current_frame, seq_num, parsing_set_type, parsing_frame_index, pc,
                       closed, report, declared, rows>>
        /\ within' = "object" /\ current_channel' = node
        /\ disk' = Extended(disk, path, <<>>) /\ described' = Extended(described, cid, 1)
    BY <1>1, <1>2
  <1>4. /\ pc = "eflr" /\ parsing_set_type = "CHANNEL" /\ seq_num # 0 /\ seq_num \in Numbers
        /\ cid \notin DOMAIN described /\ cid \in Numbers \X ChannelNames /\ cid[1] = seq_num /\ cid[2] = c
        /\ path \in Paths
    <2>1. pc = "eflr" /\ parsing_set_type = "CHANNEL" /\ within # "none" /\ seq_num # 0
      BY <1>1 DEF in_set, Cursors
    <2>2. seq_num \in Numbers
      BY <2>1, KindOf
    <2> QED BY <1>1, <1>2, <2>1, <2>2 DEF Paths
  <1>5. /\ known # NULL => /\ known \in DOMAIN channels /\ id_of(known) = cid
                           /\ \E f \in Elements(frame_list) : known \in Elements(channels_of(f))
        /\ known = NULL => \A f \in Elements(frame_list) : \A k \in Elements(channels_of(f)) : id_of(k) # cid
    <2>1. /\ known = NULL =>
               \A f \in Elements(frame_list) : \A k \in Elements(channels_of(f)) : k \notin named_channels(c)
          /\ known # NULL =>
               \E f \in Elements(frame_list) : known \in Elements(channels_of(f)) \cap named_channels(c)
      BY <1>1, FoundInFrames
    <2>2. \A f \in Elements(frame_list) : Elements(channels_of(f)) \subseteq DOMAIN channels
      BY Listed
    <2>3. \A k \in DOMAIN channels : k \in named_channels(c) <=> id_of(k) = cid
      BY <1>2 DEF named_channels, id_of
    <2> HIDE DEF IInv
    <2> QED BY <2>1, <2>2, <2>3
  <1>6. HeapHas(heap, node, n, known, c)
    <2>1. known # NULL => known \in DOMAIN channels /\ id_of(known) = <<seq_num, c>>
      BY <1>2, <1>5
    <2>2. TypeOK /\ Cursors /\ seq_num # 0 /\ c \in ChannelNames
      BY <1>1, <1>4
    <2> HIDE DEF IInv
    <2>3. HeapHas(Heap(known, c), NodeOf(known), SizeOf(known), known, c)
      BY <2>1, <2>2, HeapOf, Zenon
    <2> QED BY <1>2, <2>3
  <1>7. /\ node \notin Elements(list)
        /\ heap[node].next = NULL /\ heap[node].dimension = 1
        /\ IF node \in DOMAIN channels THEN known = node ELSE known = NULL
    <2>1. IF node \in DOMAIN channels THEN known = node ELSE known = NULL
      BY <1>2, <1>5, <1>6 DEF NodeOf, HeapHas
    <2>2. node \notin Elements(list)
      <3> SUFFICES ASSUME node \in Elements(list) PROVE FALSE
        OBVIOUS
      <3>1. node \in DOMAIN channels
        BY <1>2, Listed
      <3>2. id_of(node) = cid
        BY <1>5, <1>6, <2>1, <3>1 DEF HeapHas
      <3> QED BY <1>2, <1>4, <3>2 DEF ChannelsDescribed
    <2>3. CASE node \in DOMAIN channels
      <3>1. channels[node].next = NULL /\ channels[node].dimension = 1
        BY <1>2, <2>2, <2>3 DEF ChannelsDescribed
      <3> QED BY <1>6, <2>1, <2>2, <2>3, <3>1 DEF HeapHas
    <2>4. CASE node \notin DOMAIN channels
      BY <1>6, <2>1, <2>2, <2>4 DEF HeapHas
    <2> QED BY <2>3, <2>4
  <1>8. /\ IsList(list, first_channel, next_channel) /\ list \in Seq(1 .. Len(channels))
        /\ DOMAIN list = 1 .. m /\ m \in Nat /\ current_channel = At(list, m)
        /\ \A i \in 1 .. m : list[i] \in DOMAIN channels /\ list[i] # node /\ list[i] # NULL
    <2>1. IsList(list, first_channel, next_channel) /\ list \in Seq(1 .. Len(channels))
          /\ DOMAIN list = 1 .. m /\ m \in Nat /\ current_channel = At(list, m)
      BY <1>2, Listed DEF Lists, Cursors
    <2>2. ASSUME NEW i \in 1 .. m PROVE list[i] \in DOMAIN channels /\ list[i] # node /\ list[i] # NULL
      <3>1. list[i] \in Elements(list)
        BY <2>1 DEF Elements
      <3>2. list[i] \in DOMAIN channels /\ list[i] # node
        BY <1>2, <1>7, <3>1, Listed
      <3> QED BY <3>2, Heaps DEF NULL
    <2> QED BY <2>1, <2>2
  <1>9. IF m = 0 THEN current_channel = NULL
        ELSE current_channel # NULL /\ current_channel = list[m] /\ m \in 1 .. m
    <2>1. CASE m = 0
      BY <1>8, <2>1 DEF At
    <2>2. CASE m # 0
      <3>1. m \in 1 .. m
        BY <1>8, <2>2
      <3> QED BY <1>8, <2>2, <3>1 DEF At
    <2> QED BY <2>1, <2>2
  <1>10. /\ DOMAIN channels' = 1 .. n /\ Len(channels') = n /\ channels' \in [1 .. n -> { channels'[k] : k \in 1 .. n }]
         /\ channels'[node] = [heap[node] EXCEPT !.fp = path]
         /\ \A k \in DOMAIN channels \ {node} :
              channels'[k] = IF m # 0 /\ k = list[m] THEN [channels[k] EXCEPT !.next = node]
                             ELSE channels[k]
         /\ first_channel' = IF m = 0 THEN node ELSE first_channel
    <2> HIDE DEF IInv
    <2>1. PICK S : heap \in Seq(S)
      BY <1>6 DEF HeapHas
    <2>a. /\ Len(heap) = n /\ n \in Nat /\ DOMAIN heap = 1 .. n /\ node \in DOMAIN heap
          /\ DOMAIN channels \subseteq DOMAIN heap /\ \A k \in DOMAIN channels : heap[k] = channels[k]
      BY <1>6 DEF HeapHas
    <2> DEFINE first == [heap[node] EXCEPT !.fp = path]
               last == [channels[list[m]] EXCEPT !.next = node]
               one == [heap EXCEPT ![node] = first]
               two == [one EXCEPT ![list[m]] = last]
    <2>2. one \in Seq(S \cup {first}) /\ Len(one) = n /\ DOMAIN one = 1 .. n
          /\ \A k \in 1 .. n : one[k] = IF k = node THEN first ELSE heap[k]
      <3>1. LET t == [heap EXCEPT ![node] = first]
            IN /\ t \in Seq(S \cup {first}) /\ Len(t) = Len(heap) /\ DOMAIN t = 1 .. Len(heap)
               /\ \A k \in DOMAIN heap : t[k] = IF k = node THEN first ELSE heap[k]
        <4> HIDE DEF first
        <4> QED BY <2>1, <2>a, ChangedAt
      <3> QED BY <2>a, <3>1
    <2>b. one = [heap EXCEPT ![node].fp = path]
      BY <2>a
    <2>3. CASE m = 0
      <3>1. channels' = one /\ first_channel' = node
        <4>1. channels' = [heap EXCEPT ![node].fp = path] /\ first_channel' = node
          BY <1>1, <1>2, <1>9, <2>3
        <4> QED BY <2>b, <4>1
      <3> HIDE DEF first, one
      <3>2. \A k \in DOMAIN channels \ {node} : channels'[k] = channels[k]
        BY <2>a, <2>2, <3>1
      <3>3. channels' \in [1 .. n -> { channels'[k] : k \in 1 .. n }]
        BY <2>2, <3>1
      <3>4. channels'[node] = first
        BY <2>a, <2>2, <3>1
      <3> QED BY <2>2, <2>3, <3>1, <3>2, <3>3, <3>4 DEF first
    <2>4. CASE m # 0
      <3>0. /\ current_channel = list[m] /\ list[m] # node /\ list[m] \in DOMAIN channels
            /\ list[m] \in DOMAIN heap /\ heap[list[m]] = channels[list[m]]
        BY <1>8, <1>9, <2>a, <2>4
      <3>1. channels' = two /\ first_channel' = first_channel
        <4>1. /\ channels' = [[heap EXCEPT ![node].fp = path] EXCEPT ![list[m]].next = node]
              /\ first_channel' = first_channel
          BY <1>1, <1>2, <1>9, <2>4, <3>0
        <4>2. one[list[m]] = channels[list[m]]
          BY <2>a, <2>2, <3>0
        <4> HIDE DEF one
        <4> QED BY <2>b, <4>1, <4>2
      <3> HIDE DEF first, one, last
      <3>2. /\ two \in Seq(S \cup {first} \cup {last}) /\ Len(two) = n /\ DOMAIN two = 1 .. n
            /\ \A k \in 1 .. n : two[k] = IF k = list[m] THEN last ELSE one[k]
        <4>1. LET t == [one EXCEPT ![list[m]] = last]
              IN /\ t \in Seq(S \cup {first} \cup {last}) /\ Len(t) = Len(one) /\ DOMAIN t = 1 .. Len(one)
                 /\ \A k \in DOMAIN one : t[k] = IF k = list[m] THEN last ELSE one[k]
          <5>1. list[m] \in DOMAIN one
            BY <2>a, <2>2, <3>0
          <5> QED BY <2>2, <5>1, ChangedAt
        <4> QED BY <2>2, <4>1
      <3> HIDE DEF two
      <3>3. \A k \in DOMAIN channels \ {node} : channels'[k] = IF k = list[m] THEN last ELSE channels[k]
        BY <2>a, <2>2, <3>1, <3>2
      <3>4. channels' \in [1 .. n -> { channels'[k] : k \in 1 .. n }]
        BY <3>1, <3>2
      <3>5. channels'[node] = first
        BY <2>a, <2>2, <3>0, <3>1, <3>2
      <3> QED BY <2>4, <3>1, <3>2, <3>3, <3>4, <3>5 DEF first, last
    <2> QED
      <3> HIDE DEF one, two, first, last
      <3> QED BY <1>8, <2>3, <2>4
  <1>11. /\ DOMAIN channels' = DOMAIN channels \cup {node} /\ node \in DOMAIN channels' /\ node \in 1 .. n
         /\ DOMAIN channels = 1 .. Len(channels) /\ Len(channels) \in Nat /\ n \in Nat /\ Len(channels) <= n
         /\ node # NULL
    BY <1>6, <1>10, Heaps DEF HeapHas
  <1>12. /\ \A k \in DOMAIN channels :
              /\ channels[k] \in ChannelNode
              /\ channels'[k].seq_num = channels[k].seq_num /\ channels'[k].name = channels[k].name
              /\ channels'[k].dimension = channels[k].dimension
              /\ channels'[k].index = channels[k].index
              /\ channels'[k].f_next = channels[k].f_next
              /\ k # node => channels'[k].fp = channels[k].fp
              /\ channels'[k].next = IF m # 0 /\ k = list[m] THEN node ELSE channels[k].next
         /\ channels'[node].seq_num = seq_num /\ channels'[node].name = c
         /\ channels'[node].dimension = 1
         /\ channels'[node].fp = path /\ channels'[node].next = NULL
         /\ channels'[node].index = heap[node].index
         /\ channels'[node].f_next = heap[node].f_next
         /\ heap[node] \in ChannelNode
         /\ node \notin DOMAIN channels => heap[node].f_next = NULL
         /\ node \in DOMAIN channels => heap[node] = channels[node]
    <2> HIDE DEF IInv
    <2>1. \A k \in DOMAIN channels : channels[k] \in ChannelNode /\ heap[k] = channels[k]
      BY <1>6, <1>11 DEF HeapHas
    <2>2. heap[node] \in ChannelNode /\ heap[node].seq_num = seq_num /\ heap[node].name = c
          /\ (node \notin DOMAIN channels => heap[node].f_next = NULL)
      BY <1>6, <1>7 DEF HeapHas
    <2>3. /\ channels'[node].seq_num = seq_num /\ channels'[node].name = c
          /\ channels'[node].dimension = 1
          /\ channels'[node].fp = path /\ channels'[node].next = NULL
          /\ channels'[node].index = heap[node].index
          /\ channels'[node].f_next = heap[node].f_next
      BY <1>7, <1>10, <2>2 DEF ChannelNode
    <2>4. ASSUME NEW k \in DOMAIN channels
          PROVE  /\ channels'[k].seq_num = channels[k].seq_num /\ channels'[k].name = channels[k].name
                 /\ channels'[k].dimension = channels[k].dimension
                 /\ channels'[k].index = channels[k].index
                 /\ channels'[k].f_next = channels[k].f_next
                 /\ k # node => channels'[k].fp = channels[k].fp
                 /\ channels'[k].next = IF m # 0 /\ k = list[m] THEN node ELSE channels[k].next
      <3>1. CASE k = node
        <4>1. ~(m # 0 /\ k = list[m])
          BY <1>8, <1>9, <3>1
        <4>2. heap[node] = channels[k]
          BY <2>1, <3>1
        <4> QED BY <1>7, <2>2, <2>3, <3>1, <4>1, <4>2
      <3>2. CASE k # node
        BY <1>10, <2>1, <3>2 DEF ChannelNode
      <3> QED BY <3>1, <3>2
    <2> QED BY <2>1, <2>2, <2>3, <2>4
  <1>13. /\ DOMAIN f_next' = 1 .. n /\ DOMAIN next_channel' = 1 .. n
         /\ DOMAIN f_next = DOMAIN channels /\ DOMAIN next_channel = DOMAIN channels
         /\ next_channel'[node] = NULL
         /\ \A k \in DOMAIN channels :
              /\ f_next'[k] = f_next[k]
              /\ next_channel'[k] = IF m # 0 /\ k = list[m] THEN node ELSE next_channel[k]
    <2> HIDE DEF IInv
    <2> QED BY <1>10, <1>11, <1>12 DEF f_next, next_channel
  <1> DEFINE more == Append(list, node)
  <1>14. /\ more \in Seq(1 .. n) /\ Len(more) = m + 1 /\ DOMAIN more = 1 .. m + 1 /\ more[m + 1] = node
         /\ \A i \in 1 .. m : more[i] = list[i]
         /\ 1 .. m + 1 = (1 .. m) \cup {m + 1} /\ m + 1 \notin 1 .. m
    <2> HIDE DEF IInv
    <2>1. list \in Seq(1 .. n)
      <3>1. 1 .. Len(channels) \subseteq 1 .. n
        BY <1>11
      <3>2. \A i \in 1 .. m : list[i] \in 1 .. n
        BY <1>8, <1>11, <3>1
      <3>3. list = [i \in 1 .. m |-> list[i]] /\ m \in Nat
        BY <1>8
      <3>4. list \in [1 .. m -> 1 .. n]
        BY <3>2, <3>3
      <3> QED BY <3>3, <3>4
    <2>2. LET t == Append(list, node)
          IN /\ Len(t) = Len(list) + 1 /\ DOMAIN t = 1 .. Len(list) + 1
             /\ t[Len(list) + 1] = node
             /\ \A i \in 1 .. Len(list) : t[i] = list[i]
             /\ node \in 1 .. n => t \in Seq(1 .. n)
      BY <2>1, AppendedAt
    <2>3. m = Len(list)
      BY <1>2
    <2>4. \A x \in Nat : 1 .. x + 1 = (1 .. x) \cup {x + 1} /\ x + 1 \notin 1 .. x
      OBVIOUS
    <2> QED BY <1>8, <1>11, <2>2, <2>3, <2>4
  <1>15. IsList(more, first_channel', next_channel')
    <2>1. node \in DOMAIN next_channel' \ Elements(list)
      BY <1>7, <1>11, <1>13
    <2>2. \A i \in 1 .. m - 1 : next_channel'[list[i]] = next_channel[list[i]]
      <3> SUFFICES ASSUME NEW i \in 1 .. m - 1 PROVE next_channel'[list[i]] = next_channel[list[i]]
        OBVIOUS
      <3>1. i \in 1 .. m /\ m \in 1 .. m /\ i # m
        BY <1>8
      <3>2. list[i] # list[m] /\ list[i] \in DOMAIN channels
        BY <1>8, <3>1 DEF IsList
      <3> QED BY <1>13, <3>2
    <2>3. list # <<>> => next_channel'[list[Len(list)]] = node
      <3>1. list # <<>> => m # 0
        BY <1>8, <1>2
      <3> QED BY <1>2, <1>8, <1>9, <1>13, <3>1
    <2>4. first_channel' = IF list = <<>> THEN node ELSE first_channel
      <3>1. list = <<>> <=> m = 0
        BY <1>2, <1>8
      <3> QED BY <1>10, <3>1
    <2>5. DOMAIN next_channel \subseteq DOMAIN next_channel'
      BY <1>10, <1>11, <1>13
    <2>6. \A i \in 1 .. Len(list) - 1 : next_channel'[list[i]] = next_channel[list[i]]
      BY <1>2, <2>2
    <2> HIDE DEF IInv
    <2> QED BY <1>8, <1>13, <2>1, <2>3, <2>4, <2>5, <2>6, ListAppended
  <1> HIDE DEF more
  <1>16. f_next' \in [1 .. n -> 0 .. n] /\ next_channel' \in [1 .. n -> 0 .. n]
    <2>1. \A k \in DOMAIN channels : channels[k].f_next \in 0 .. n /\ channels[k].next \in 0 .. n
      <3>1. Nodes(channels) \subseteq 0 .. n
        BY <1>11, Heaps
      <3> QED BY <1>12, <3>1 DEF ChannelNode
    <2>2. NULL \in 0 .. n /\ node \in 0 .. n /\ heap[node].f_next \in 0 .. n
      <3>1. NULL \in 0 .. n /\ node \in 0 .. n
        BY <1>11 DEF NULL
      <3> QED BY <1>12, <2>1, <3>1
    <2>3. \A k \in 1 .. n : f_next'[k] \in 0 .. n /\ next_channel'[k] \in 0 .. n
      <3> SUFFICES ASSUME NEW k \in 1 .. n
                   PROVE  channels'[k].f_next \in 0 .. n /\ channels'[k].next \in 0 .. n
        BY <1>10 DEF f_next, next_channel
      <3>1. CASE k = node
        BY <1>12, <2>2, <3>1
      <3>2. CASE k # node
        <4>1. k \in DOMAIN channels
          BY <1>10, <1>11, <3>2
        <4>2. channels'[k].next \in {node, channels[k].next} /\ channels'[k].f_next = channels[k].f_next
          BY <1>12, <4>1
        <4> QED BY <2>1, <2>2, <4>1, <4>2
      <3> QED BY <3>1, <3>2
    <2>4. f_next' = [k \in 1 .. n |-> f_next'[k]] /\ next_channel' = [k \in 1 .. n |-> next_channel'[k]]
      BY <1>10 DEF f_next, next_channel
    <2> HIDE DEF IInv
    <2> QED BY <2>3, <2>4
  <1>17. /\ channel_list' = more /\ frame_list' = frame_list
         /\ Elements(more) = Elements(list) \cup {node}
         /\ IsList(frame_list, HEAD, next_frame)'
         /\ \A f \in Elements(frame_list) :
              /\ channels_of(f)' = channels_of(f)
              /\ IsList(channels_of(f), frames[f].channels, f_next')
    <2>1. channel_list' = more
      <3>1. Chain(first_channel', next_channel') = more
        BY <1>11, <1>15, <1>16, ChainOfNodes
      <3> QED BY <3>1 DEF channel_list
    <2>2. next_frame' = next_frame /\ frame_list' = frame_list
      BY <1>3 DEF next_frame, frame_list
    <2>3. IsList(frame_list, HEAD, next_frame)'
      BY <2>2 DEF Lists
    <2>4. ASSUME NEW f \in Elements(frame_list)
          PROVE  channels_of(f)' = channels_of(f) /\ IsList(channels_of(f), frames[f].channels, f_next')
      <3>1. IsList(channels_of(f), frames[f].channels, f_next) /\ Elements(channels_of(f)) \subseteq DOMAIN channels
        BY Listed DEF Lists
      <3>2. \A k \in Elements(channels_of(f)) : f_next'[k] = f_next[k]
        BY <1>13, <3>1
      <3>3. DOMAIN f_next \subseteq DOMAIN f_next'
        BY <1>10, <1>11, <1>13
      <3>4. IsList(channels_of(f), frames[f].channels, f_next')
        <4> HIDE DEF IInv
        <4> QED BY <3>1, <3>2, <3>3, ListUndisturbed
      <3>5. Chain(frames[f].channels, f_next') = channels_of(f)
        BY <1>11, <1>16, <3>4, ChainOfNodes
      <3> QED BY <1>3, <3>4, <3>5 DEF channels_of
    <2>5. Elements(more) = Elements(list) \cup {node}
      <3> HIDE DEF IInv
      <3>1. Elements(more) = { more[i] : i \in 1 .. m + 1 } /\ Elements(list) = { list[i] : i \in 1 .. m }
        BY <1>8, <1>14 DEF Elements
      <3>2. m + 1 \in 1 .. m + 1 /\ \A i \in 1 .. m : i \in 1 .. m + 1
        BY <1>8
      <3> QED BY <1>14, <3>1, <3>2
    <2> QED BY <2>1, <2>2, <2>3, <2>4, <2>5
  <1>18. Lists'
    <2>1. Elements(frame_list)' = Elements(frame_list) /\ frames' = frames
      BY <1>3, <1>17
    <2>2. IsList(channel_list, first_channel, next_channel)'
      BY <1>15, <1>17
    <2>3. \A f \in Elements(frame_list) : IsList(channels_of(f), frames[f].channels, f_next)'
      BY <1>17, <2>1
    <2> HIDE DEF IInv
    <2> QED BY <1>17, <2>1, <2>2, <2>3 DEF Lists
  <1>19. /\ DOMAIN disk' = DOMAIN disk \cup {path} /\ path \notin DOMAIN disk /\ disk'[path] = <<>>
         /\ \A p \in DOMAIN disk : disk'[p] = disk[p]
         /\ DOMAIN described' = DOMAIN described \cup {cid} /\ described'[cid] = 1
         /\ \A d \in DOMAIN described : described'[d] = described[d]
         /\ \A k, d : curve(k, d)' = curve(k, d)
    <2>1. path \notin DOMAIN disk
      <3> SUFFICES ASSUME path \in DOMAIN disk PROVE FALSE
        OBVIOUS
      <3>1. PICK d \in DOMAIN described : path = path_of(d[1], d[2])
        BY DEF ChannelsDescribed
      <3>2. d \in Numbers \X ChannelNames
        BY DEF Histories
      <3>3. path_of(seq_num, c) = path_of(d[1], d[2])
        BY <1>2, <3>1
      <3>4. d[1] = seq_num /\ d[2] = c
        BY <1>4, <3>2, <3>3, PathAssumption
      <3>5. d = cid
        BY <1>2, <3>2, <3>4
      <3> QED BY <1>4, <3>5
    <2>2. /\ DOMAIN disk' = DOMAIN disk \cup {path} /\ disk'[path] = <<>>
          /\ \A p \in DOMAIN disk : disk'[p] = disk[p]
      BY <1>3, <2>1 DEF Extended
    <2>3. /\ DOMAIN described' = DOMAIN described \cup {cid} /\ described'[cid] = 1
          /\ \A d \in DOMAIN described : described'[d] = described[d]
      BY <1>3, <1>4 DEF Extended
    <2>4. \A k, d : curve(k, d)' = curve(k, d)
      <3> HIDE DEF IInv
      <3> QED BY <2>1, <2>2 DEF curve
    <2> QED BY <2>1, <2>2, <2>3, <2>4
  <1>20. TypeOK'
    <2>1. Nodes(frames)' = Nodes(frames) /\ Nodes(channels) \subseteq Nodes(channels)' /\ node \in Nodes(channels)'
          /\ NULL \in Nodes(channels)'
      BY <1>3, <1>11 DEF Nodes
    <2>2. FrameNode \subseteq FrameNode'
      BY <2>1 DEF FrameNode
    <2>3. frames' \in Seq(FrameNode')
      <3>1. frames \in Seq(FrameNode)
        BY Heaps
      <3> HIDE DEF IInv
      <3> QED BY <1>3, <2>2, <3>1
    <2>4. ChannelNode \subseteq ChannelNode'
      <3>1. 0 .. Len(channels) \subseteq 0 .. Len(channels')
        BY <1>10, <1>11
      <3> QED BY <1>3, <2>1, <3>1 DEF ChannelNode
    <2>5. \A k \in DOMAIN channels' : channels'[k] \in ChannelNode'
      <3> SUFFICES ASSUME NEW k \in DOMAIN channels' PROVE channels'[k] \in ChannelNode'
        OBVIOUS
      <3>1. CASE k = node
        <4>1. heap[node] \in ChannelNode'
          BY <1>12, <2>4
        <4>2. [heap[node] EXCEPT !.fp = path] \in ChannelNode'
          BY <1>4, <4>1 DEF ChannelNode
        <4> QED BY <1>10, <3>1, <4>2
      <3>2. CASE k # node
        <4>1. k \in DOMAIN channels /\ channels[k] \in ChannelNode'
          BY <1>11, <1>12, <2>4, <3>2
        <4>2. [channels[k] EXCEPT !.next = node] \in ChannelNode'
          BY <2>1, <4>1 DEF ChannelNode
        <4> QED BY <1>10, <3>2, <4>1, <4>2
      <3> QED BY <3>1, <3>2
    <2>6. channels' \in Seq(ChannelNode')
      <3>1. channels' = [k \in 1 .. n |-> channels'[k]] /\ n \in Nat
        BY <1>10, <1>11
      <3> QED BY <1>10, <2>5, <3>1
    <2>7. first_channel' \in Nodes(channels)' /\ current_channel' \in Nodes(channels)'
      <3>1. first_channel \in Nodes(channels)
        BY DEF TypeOK
      <3> QED BY <1>3, <1>10, <2>1, <3>1
    <2>8. DOMAIN disk' \subseteq Paths /\ \A p \in DOMAIN disk' : disk'[p] \in Seq(Lines)
      <3>1. DOMAIN disk \subseteq Paths /\ \A p \in DOMAIN disk : disk[p] \in Seq(Lines)
        BY DEF TypeOK
      <3> HIDE DEF IInv
      <3>2. <<>> \in Seq(Lines)
        OBVIOUS
      <3> QED BY <1>4, <1>19, <3>1, <3>2
    <2> HIDE DEF IInv
    <2>9. TypeOK
      BY DEF IInv
    <2> QED BY <1>3, <2>1, <2>3, <2>6, <2>7, <2>8, <2>9 DEF TypeOK, FrameNode, ChannelNode
  <1>21. /\ \A f : key_of(f)' = key_of(f) /\ (IsDeclared(f)' <=> IsDeclared(f)) /\ names(f)' = names(f)
                   /\ indexes(f)' = indexes(f) /\ (\A j : lines(f, j)' = lines(f, j))
         /\ \A k, i : id(k, i)' = id(k, i)
         /\ \A k \in DOMAIN channels : id_of(k)' = id_of(k)
         /\ id_of(node)' = cid
         /\ node \in DOMAIN channels => id_of(node) = cid
    <2>1. frames' = frames /\ declared' = declared /\ rows' = rows
      BY <1>3
    <2>2. \A f : key_of(f)' = key_of(f) /\ (IsDeclared(f)' <=> IsDeclared(f)) /\ names(f)' = names(f)
                 /\ indexes(f)' = indexes(f)
      BY <2>1 DEF key_of, IsDeclared, names, indexes
    <2>3. \A f, j : lines(f, j)' = lines(f, j)
      <3> SUFFICES ASSUME NEW f, NEW j PROVE lines(f, j)' = lines(f, j)
        OBVIOUS
      <3>1. PICK k, d : k = key_of(f) /\ d = declared[k][j]
        OBVIOUS
      <3>2. lines(f, j) = curve(k, d)
        BY <3>1 DEF lines
      <3>3. lines(f, j)' = curve(k, d)'
        BY <2>1, <2>2, <3>1 DEF lines, curve
      <3> QED BY <1>19, <3>2, <3>3
    <2>4. \A k, i : id(k, i)' = id(k, i)
      BY <2>1 DEF id
    <2>5. \A k \in DOMAIN channels : id_of(k)' = id_of(k)
      BY <1>12 DEF id_of
    <2>6. id_of(node)' = cid /\ (node \in DOMAIN channels => id_of(node) = cid)
      BY <1>2, <1>12, <1>6 DEF id_of, HeapHas
    <2> QED BY <2>2, <2>3, <2>4, <2>5, <2>6
  <1>22. Histories' /\ FramesDeclared'
    <2>1. described' \in [DOMAIN described' -> Nat] /\ DOMAIN described' \subseteq Numbers \X ChannelNames
      <3>1. \A d \in DOMAIN described' : described'[d] \in Nat
        BY <1>19 DEF Histories
      <3>2. described' = [d \in DOMAIN described' |-> described'[d]]
        BY <1>3 DEF Extended
      <3>3. DOMAIN described' \subseteq Numbers \X ChannelNames
        BY <1>4, <1>19 DEF Histories
      <3> QED BY <3>1, <3>2, <3>3
    <2>2. Histories'
      BY <1>3, <1>21, <2>1 DEF Histories
    <2>3. FramesDeclared'
      BY <1>3, <1>17, <1>21 DEF FramesDeclared
    <2> QED BY <2>2, <2>3
  <1>23. ChannelsNamed'
    <2>1. ASSUME NEW f \in Elements(frame_list), IsDeclared(f), NEW i \in DOMAIN channels_of(f)
          PROVE  /\ id_of(channels_of(f)[i])' = id(key_of(f), i)'
                 /\ channels'[channels_of(f)[i]].index = i
                 /\ id_of(channels_of(f)[i])' \in DOMAIN described' => channels_of(f)[i] \in Elements(more)
      <3>1. PICK k : k = channels_of(f)[i] /\ k \in Elements(channels_of(f)) /\ k \in DOMAIN channels
        <4>1. Elements(channels_of(f)) \subseteq DOMAIN channels
          BY Listed
        <4>2. channels_of(f)[i] \in Elements(channels_of(f))
          BY DEF Elements
        <4> QED BY <4>1, <4>2
      <3>2. /\ id_of(k) = id(key_of(f), i) /\ channels[k].index = i
            /\ id_of(k) \in DOMAIN described => k \in Elements(channel_list)
        BY <2>1, <3>1 DEF ChannelsNamed
      <3>3. id_of(k)' = id_of(k) /\ channels'[k].index = i
        BY <1>12, <1>21, <3>1, <3>2
      <3>4. ASSUME id_of(k) = cid PROVE k = node
        <4>1. known # NULL
          BY <1>5, <3>1, <3>4
        <4>2. PICK g \in Elements(frame_list) : known \in Elements(channels_of(g))
          BY <1>5, <4>1
        <4>3. id_of(k) = id_of(known)
          BY <1>5, <3>4, <4>1
        <4>4. k = known
          BY <3>1, <4>2, <4>3, OneNode
        <4> QED BY <1>2, <4>1, <4>4 DEF NodeOf
      <3>5. id_of(k)' \in DOMAIN described' => k \in Elements(more)
        BY <1>2, <1>17, <1>19, <3>2, <3>3, <3>4
      <3>6. id(key_of(f), i)' = id(key_of(f), i)
        BY <1>3, <1>21 DEF id
      <3>7. id_of(channels_of(f)[i])' = id_of(k)'
        BY <1>17, <3>1 DEF id_of
      <3> HIDE DEF IInv
      <3> QED BY <3>1, <3>2, <3>3, <3>5, <3>6, <3>7
    <2>2. \A f \in Elements(frame_list) : IsDeclared(f) =>
            /\ Len(channels_of(f)) = Len(declared[key_of(f)])
            /\ channels_of(f)' = channels_of(f) /\ key_of(f)' = key_of(f) /\ (IsDeclared(f)' <=> IsDeclared(f))
      BY <1>17, <1>21 DEF ChannelsNamed
    <2>3. Elements(channel_list)' = Elements(more) /\ Elements(frame_list)' = Elements(frame_list)
      BY <1>17
    <2> HIDE DEF IInv
    <2>4. \A f \in Elements(frame_list) : IsDeclared(f)' => IsDeclared(f)
      BY <1>21
    <2> QED BY <1>3, <2>1, <2>2, <2>3, <2>4 DEF ChannelsNamed
  <1>24. ChannelsDescribed'
    <2>1. Elements(channel_list)' = Elements(list) \cup {node} /\ Elements(list) \subseteq DOMAIN channels
      BY <1>2, <1>17, Listed
    <2>2. \A k \in Elements(list) : id_of(k)' = id_of(k) /\ id_of(k) \in DOMAIN described /\ k # node
      BY <1>2, <1>7, <1>21, <2>1 DEF ChannelsDescribed
    <2>3. DOMAIN described' = { id_of(k)' : k \in Elements(list) \cup {node} }
      <3>1. DOMAIN described = { id_of(k) : k \in Elements(list) }
        BY <1>2 DEF ChannelsDescribed
      <3>2. \A d \in DOMAIN described' : \E k \in Elements(list) \cup {node} : d = id_of(k)'
        BY <1>19, <1>21, <2>2, <3>1
      <3>3. \A k \in Elements(list) \cup {node} : id_of(k)' \in DOMAIN described'
        BY <1>19, <1>21, <2>2
      <3> HIDE DEF IInv
      <3> QED BY <3>2, <3>3
    <2>4. \A k, l \in Elements(list) \cup {node} : id_of(k)' = id_of(l)' => k = l
      <3>1. \A k, l \in Elements(list) : id_of(k) = id_of(l) => k = l
        BY <1>2 DEF ChannelsDescribed
      <3> HIDE DEF IInv
      <3> QED BY <1>4, <1>21, <2>2, <3>1
    <2>5. ASSUME NEW k \in Elements(list) \cup {node}
          PROVE  /\ channels'[k].dimension = described'[id_of(k)']
                 /\ channels'[k].fp = path_of(channels'[k].seq_num, channels'[k].name)
      <3>1. CASE k = node
        <4>1. channels'[node].fp = path_of(channels'[node].seq_num, channels'[node].name)
          BY <1>2, <1>12
        <4>2. channels'[node].dimension = described'[id_of(node)']
          BY <1>12, <1>19, <1>21
        <4> QED BY <3>1, <4>1, <4>2 DEF id_of
      <3>2. CASE k # node
        <4>1. k \in Elements(list) /\ k \in DOMAIN channels
          BY <2>1, <3>2
        <4>2. /\ channels[k].dimension = described[id_of(k)]
              /\ channels[k].fp = path_of(channels[k].seq_num, channels[k].name)
          BY <1>2, <4>1 DEF ChannelsDescribed
        <4>3. described'[id_of(k)'] = described[id_of(k)]
          BY <1>19, <2>2, <4>1
        <4> QED BY <1>12, <3>2, <4>1, <4>2, <4>3
      <3> QED BY <3>1, <3>2
    <2>6. ASSUME NEW k \in DOMAIN channels', k \notin Elements(list) \cup {node}
          PROVE  channels'[k].next = NULL /\ channels'[k].dimension = 1 /\ channels'[k].fp = NoFile
      <3>1. k \in DOMAIN channels /\ k # node /\ k \notin Elements(channel_list)
        BY <1>2, <1>11, <2>6
      <3>2. channels[k].next = NULL /\ channels[k].dimension = 1 /\ channels[k].fp = NoFile
        BY <3>1 DEF ChannelsDescribed
      <3>3. ~(m # 0 /\ k = list[m])
        BY <1>2, <1>8, <1>9, <3>1 DEF Elements
      <3> QED BY <1>12, <3>1, <3>2, <3>3
    <2>7. ASSUME NEW k \in DOMAIN channels', channels'[k].f_next # NULL
          PROVE  \E l \in DOMAIN declared' : \E i \in DOMAIN declared'[l] : id(l, i)' = id_of(k)'
      <3>1. k \in DOMAIN channels /\ channels[k].f_next # NULL
        <4>1. CASE k = node
          BY <1>12, <2>7, <4>1
        <4>2. CASE k # node
          BY <1>11, <1>12, <2>7, <4>2
        <4> QED BY <4>1, <4>2
      <3>2. \E l \in DOMAIN declared : \E i \in DOMAIN declared[l] : id(l, i) = id_of(k)
        BY <3>1 DEF ChannelsDescribed
      <3>3. PICK l, i : l \in DOMAIN declared /\ i \in DOMAIN declared[l] /\ id(l, i) = id_of(k)
        BY <3>2
      <3> QED BY <1>3, <1>21, <3>1, <3>3
    <2>8. DOMAIN disk' = { path_of(d[1], d[2]) : d \in DOMAIN described' }
      <3>1. DOMAIN disk = { path_of(d[1], d[2]) : d \in DOMAIN described }
        BY DEF ChannelsDescribed
      <3>2. path = path_of(cid[1], cid[2])
        BY <1>2, <1>4
      <3> HIDE DEF IInv
      <3> QED BY <1>19, <3>1, <3>2
    <2> HIDE DEF IInv
    <2> QED BY <1>3, <2>1, <2>3, <2>4, <2>5, <2>6, <2>7, <2>8 DEF ChannelsDescribed
  <1>25. Elements(frame_list)' = Elements(frame_list) /\ frames' = frames /\ pc' = "eflr" /\ declared' = declared
    BY <1>3, <1>4, <1>17
  <1>26. RowsWritten'
    <2>1. \A f \in Elements(frame_list) : IsDeclared(f) => \A j \in DOMAIN names(f) : lines(f, j) = indexes(f)
      BY <1>4 DEF RowsWritten
    <2> HIDE DEF IInv
    <2>2. \A f \in Elements(frame_list)' : IsDeclared(f)' => \A j \in DOMAIN names(f)' : lines(f, j)' = indexes(f)'
      BY <1>21, <1>25, <2>1
    <2> QED BY <1>25, <2>2 DEF RowsWritten
  <1>27. IndexesNoted'
    <2>1. \A f \in Elements(frame_list) : IsDeclared(f) =>
            /\ ~frames[f].index_type => frames[f].index_min = 1
            /\ names(f) # <<>> /\ lines(f, 1) # <<>> =>
                 /\ frames[f].index_type => frames[f].index_min = lines(f, 1)[1]
                 /\ frames[f].index_max = Last(lines(f, 1))
      BY DEF IndexesNoted
    <2> HIDE DEF IInv
    <2>2. \A f \in Elements(frame_list)' : IsDeclared(f)' =>
            /\ ~frames'[f].index_type => frames'[f].index_min = 1
            /\ names(f)' # <<>> /\ lines(f, 1)' # <<>> =>
                 /\ frames'[f].index_type => frames'[f].index_min = lines(f, 1)'[1]
                 /\ frames'[f].index_max = Last(lines(f, 1)')
      BY <1>21, <1>25, <2>1
    <2> QED BY <2>2 DEF IndexesNoted
  <1>28. UnnamedEmpty'
    <2> SUFFICES ASSUME NEW d \in DOMAIN described',
                        \A l \in DOMAIN declared : \A j \in DOMAIN declared[l] : id(l, j)' # d
                 PROVE  disk'[path_of(d[1], d[2])] = <<>>
      BY <1>3 DEF UnnamedEmpty
    <2>1. CASE d = cid
      BY <1>2, <1>4, <1>19, <2>1
    <2>2. CASE d # cid
      <3>1. d \in DOMAIN described /\ \A l \in DOMAIN declared : \A j \in DOMAIN declared[l] : id(l, j) # d
        BY <1>19, <1>21, <2>2
      <3>2. disk[path_of(d[1], d[2])] = <<>> /\ path_of(d[1], d[2]) \in DOMAIN disk
        BY <3>1 DEF UnnamedEmpty, ChannelsDescribed
      <3> QED BY <1>19, <3>2
    <2> QED BY <2>1, <2>2
  <1>29. Closed' /\ WildOnlyIfEarly' /\ NoWildPointer'
    BY <1>25 DEF Closed, WildOnlyIfEarly, NoWildPointer
  <1>30. Cursors'
    <2>1. ~in_object("FRAME")' /\ ~in_set("FRAME")' /\ pc' # "row" /\ pc' = "eflr"
      BY <1>3, <1>4 DEF in_object, in_set
    <2>2. current_channel' # NULL /\ channels'[current_channel'].seq_num = seq_num'
      BY <1>3, <1>11, <1>12
    <2>3. DataSeen' <=> DataSeen
      BY <1>3 DEF DataSeen, Declared, FrameKeys
    <2>4. ~kind'.late => (~DataSeen' => IF current_frame' = NULL THEN DOMAIN declared' = {}
                                        ELSE current_frame' = Last(frame_list'))
      <3>1. ~kind.late => (~DataSeen => IF current_frame = NULL THEN DOMAIN declared = {}
                                        ELSE current_frame = Last(frame_list))
        BY <1>4 DEF Cursors
      <3> HIDE DEF IInv
      <3> QED BY <1>3, <1>17, <2>3, <3>1
    <2>5. current_channel' = At(channel_list', Len(channel_list'))
      <3>1. m + 1 \in 1 .. m + 1
        BY <1>8
      <3> HIDE DEF IInv
      <3> QED BY <1>3, <1>14, <1>17, <3>1 DEF At
    <2>6. /\ kind' \in Kinds /\ seq_num' \in {0} \cup kind'.first .. kind'.last /\ seq_num' # 0
          /\ current_frame' \in {NULL} \cup Elements(frame_list)'
      BY <1>3, <1>4, <1>25 DEF Cursors
    <2> HIDE DEF IInv
    <2> QED BY <2>1, <2>2, <2>4, <2>5, <2>6 DEF Cursors
  <1> QED
    <2> HIDE DEF IInv
    <2> QED BY <1>18, <1>20, <1>22, <1>23, <1>24, <1>26, <1>27, <1>28, <1>29, <1>30 DEF IInv

-----------------------------------------------------------------------------
(* The invariant holds at the start and is kept by every step. *)

\* The inductive invariant holds of the head node alone.
LEMMA Initially == Init => IInv
  <1> SUFFICES ASSUME Init PROVE IInv
    OBVIOUS
  <1>1. PICK head : head = [frame_init EXCEPT !.index_min = 0, !.index_max = 0] /\ frames = << head >>
    BY DEF Init
  <1>2. /\ kind \in Kinds /\ channels = <<>> /\ first_channel = NULL
        /\ current_frame = NULL /\ current_channel = NULL
        /\ seq_num = 0 /\ parsing_set_type = "none" /\ parsing_frame_index = 0
        /\ DOMAIN disk = {} /\ closed = {} /\ report = {} /\ pc = "eflr" /\ within = "none"
        /\ DOMAIN declared = {} /\ DOMAIN described = {} /\ DOMAIN rows = {}
        /\ declared = [f \in {} |-> <<>>] /\ rows = [f \in {} |-> <<>>] /\ described = [f \in {} |-> 1]
    BY DEF Init
  <1>3. /\ head.seq_num = 0 /\ head.name = NoName /\ head.channels = NULL /\ head.next = NULL
        /\ head.current_channel = NULL /\ head.index_type = FALSE
        /\ head.index_min = 0 /\ head.index_max = 0
        /\ DOMAIN frames = {1} /\ Len(frames) = 1 /\ frames[1] = head
    BY <1>1 DEF frame_init
  <1>4. TypeOK
    <2>1. head \in FrameNode
      <3>1. 0 \in Lines /\ NULL \in Nodes(channels) /\ NULL \in Nodes(frames)
        BY CatalogAssumption DEF Lines, Nodes
      <3> QED BY <1>1, <3>1 DEF FrameNode, frame_init
    <2>2. frames \in Seq(FrameNode)
      BY <1>1, <2>1
    <2>3. channels \in Seq(ChannelNode)
      BY <1>2
    <2>4. parsing_frame_index \in Lines
      BY <1>2, CatalogAssumption DEF Lines
    <2> QED BY <1>2, <2>2, <2>3, <2>4 DEF TypeOK, FrameNode, ChannelNode, Nodes
  <1>5. frame_list = <<1>> /\ channel_list = <<>> /\ channels_of(1) = <<>>
        /\ IsList(frame_list, HEAD, next_frame) /\ IsList(channel_list, first_channel, next_channel)
        /\ IsList(channels_of(1), frames[1].channels, f_next)
    <2>1. DOMAIN next_frame = {1} /\ next_frame[1] = NULL
      BY <1>3 DEF next_frame
    <2>2. IsList(<<1>>, HEAD, next_frame)
      <3>1. DOMAIN <<1>> = {1} /\ <<1>>[1] = 1 /\ <<1>> \in Seq({1})
        OBVIOUS
      <3>2. At(<<1>>, 1) = 1 /\ At(<<1>>, 2) = NULL
        BY <3>1 DEF At
      <3> QED BY <2>1, <3>1, <3>2 DEF IsList, HEAD
    <2>3. IsList(<<>>, NULL, next_channel) /\ IsList(<<>>, NULL, f_next)
      BY DEF IsList, At
    <2>4. /\ next_frame \in [1 .. 1 -> 0 .. 1]
          /\ next_channel \in [1 .. Len(channels) -> 0 .. Len(channels)] /\ Len(channels) \in Nat
      BY <1>3, <1>4, Heaps
    <2>5. Chain(HEAD, next_frame) = <<1>>
      BY <2>2, <2>4, ChainOfNodes
    <2>6. Chain(NULL, next_channel) = <<>>
      BY <2>3, <2>4, ChainOfNodes
    <2>7. Chain(NULL, f_next) = <<>>
      BY <1>4, NoChannels
    <2> QED BY <1>2, <1>3, <2>2, <2>3, <2>5, <2>6, <2>7 DEF frame_list, channel_list, channels_of
  <1>6. Elements(frame_list) = {1} /\ Elements(channel_list) = {}
    BY <1>5 DEF Elements
  <1>7. key_of(1) = <<0, NoName>> /\ ~IsDeclared(1)
    BY <1>2, <1>3 DEF key_of, IsDeclared
  <1>8. Histories
    BY <1>2 DEF Histories
  <1>9. Lists
    BY <1>5, <1>6 DEF Lists
  <1>10. FramesDeclared
    BY <1>2, <1>3, <1>6, <1>7 DEF FramesDeclared
  <1>11. ChannelsNamed
    BY <1>6, <1>7 DEF ChannelsNamed
  <1>12. ChannelsDescribed
    BY <1>2, <1>6 DEF ChannelsDescribed
  <1>13. Cursors
    <2>1. ~in_object("FRAME") /\ ~in_object("CHANNEL") /\ ~in_set("FRAME")
      BY <1>2 DEF in_object, in_set
    <2>2. At(channel_list, Len(channel_list)) = NULL
      BY <1>5 DEF At
    <2> QED BY <1>2, <2>1, <2>2 DEF Cursors
  <1>14. RowsWritten /\ UnnamedEmpty /\ IndexesNoted /\ Closed /\ WildOnlyIfEarly /\ NoWildPointer
    BY <1>2, <1>6, <1>7
       DEF RowsWritten, UnnamedEmpty, IndexesNoted, Closed, WildOnlyIfEarly, NoWildPointer
  <1> QED
    BY <1>4, <1>8, <1>9, <1>10, <1>11, <1>12, <1>13, <1>14 DEF IInv

\* A step that changes nothing.
LEMMA Stuttering == IInv /\ UNCHANGED vars => IInv'
  <1> SUFFICES ASSUME IInv, UNCHANGED vars PROVE IInv'
    OBVIOUS
  <1> USE DEF IInv
  <1>1. /\ UNCHANGED <<kind, frames, channels, first_channel, current_frame, current_channel>>
        /\ UNCHANGED <<seq_num, parsing_set_type, within, parsing_frame_index, pc>>
        /\ UNCHANGED <<disk, closed, report, declared, described, rows>>
    BY DEF vars, catalog, state, outputs, history
  <1>2. SameNodes
    BY <1>1 DEF SameNodes
  <1>3. Lists' /\ FramesDeclared' /\ ChannelsNamed'
    BY <1>2, SameLists, SameNames
  <1>4. TypeOK' /\ Histories'
    BY <1>1 DEF TypeOK, Histories, Nodes, id
  <1>5. ChannelsDescribed'
    BY <1>1, <1>2, SameDescribed DEF ChannelsDescribed
  <1>6. /\ frame_list' = frame_list /\ channel_list' = channel_list
        /\ \A f : channels_of(f)' = channels_of(f) /\ key_of(f)' = key_of(f)
        /\ current_key' = current_key
    BY <1>1 DEF frame_list, channel_list, channels_of, next_frame, next_channel, f_next, key_of, current_key
  <1>7. /\ DataSeen' <=> DataSeen
        /\ \A type : (in_set(type)' <=> in_set(type)) /\ (in_object(type)' <=> in_object(type))
    BY <1>1 DEF DataSeen, Declared, FrameKeys, in_set, in_object
  <1>8. \A f : /\ (IsDeclared(f)' <=> IsDeclared(f)) /\ names(f)' = names(f)
               /\ indexes(f)' = indexes(f) /\ but_last(f)' = but_last(f)
               /\ \A i : lines(f, i)' = lines(f, i)
    BY <1>1, <1>6 DEF IsDeclared, names, indexes, but_last, lines, curve
  <1>9. Cursors'
    BY <1>1, <1>6, <1>7, <1>8 DEF Cursors
  <1>10. RowsWritten'
    BY <1>1, <1>6, <1>8 DEF RowsWritten, Reading, id
  <1>11. IndexesNoted'
    BY <1>1, <1>6, <1>8 DEF IndexesNoted
  <1>12. UnnamedEmpty' /\ Closed'
    BY <1>1, <1>6 DEF UnnamedEmpty, Closed, id
  <1>13. WildOnlyIfEarly' /\ (NoWildPointer' <=> NoWildPointer)
    BY <1>1, <1>6 DEF WildOnlyIfEarly, NoWildPointer
  <1> QED
    <2> HIDE DEF IInv
    <2>1. ~kind'.early => NoWildPointer'
      BY <1>1, <1>13 DEF IInv
    <2> QED BY <1>3, <1>4, <1>5, <1>9, <1>10, <1>11, <1>12, <1>13, <2>1 DEF IInv

\* Every step keeps the inductive invariant.
LEMMA InvStep == IInv /\ [Next]_vars => IInv'
  <1> QED
    BY Stuttering, OnSet, OnSequenceNumber, OnFrameObject, OnIndexType, OnFrameChannel,
       OnChannelObject, OnDimension, OnRowHeader, OnEod, OnRowData, OnFinish, Zenon DEF Next

\* The inductive invariant: the lists have no cycles and hold what the file
\* declared, in any order of FRAME and CHANNEL sets, rows and logical files;
\* the curve files hold the rows of the frames (dlis.cc:1059-1330).
THEOREM CatalogInvariant == Spec => []IInv
  <1> QED
    BY Initially, InvStep, PTL DEF Spec

-----------------------------------------------------------------------------
(* What the invariant says of the properties. *)

\* A frame is found by its key, wherever it is in the list.
LEMMA FrameNodeOf ==
  ASSUME TypeOK, Lists, FramesDeclared, NEW key
  PROVE  /\ frame_node(key) = NULL => \A f \in Elements(frame_list) : key_of(f) # key
         /\ frame_node(key) # NULL =>
              frame_node(key) \in Elements(frame_list) /\ key_of(frame_node(key)) = key
         /\ \A f \in Elements(frame_list) : key_of(f) = key => f = frame_node(key)
  <1> DEFINE those == { k \in DOMAIN frames : <<frames[k].seq_num, frames[k].name>> = key }
  <1>1. /\ First(frame_list, those) = NULL => \A f \in Elements(frame_list) : f \notin those
        /\ First(frame_list, those) # NULL => First(frame_list, those) \in Elements(frame_list) \cap those
    <2>1. frame_list \in Seq(1 .. Len(frames)) /\ Len(frames) \in Nat
      BY Listed, Heaps
    <2> HIDE DEF those
    <2> QED BY <2>1, FirstFinds
  <1>2. frame_node(key) = First(frame_list, those)
    BY DEF frame_node
  <1>3. \A f \in Elements(frame_list) : f \in those <=> key_of(f) = key
    BY Listed DEF key_of
  <1> HIDE DEF those
  <1>4. frame_node(key) = NULL => \A f \in Elements(frame_list) : key_of(f) # key
    BY <1>1, <1>2, <1>3
  <1>5. frame_node(key) # NULL =>
          frame_node(key) \in Elements(frame_list) /\ key_of(frame_node(key)) = key
    BY <1>1, <1>2, <1>3
  <1>6. ASSUME NEW f \in Elements(frame_list), key_of(f) = key PROVE f = frame_node(key)
    BY <1>4, <1>5, <1>6 DEF FramesDeclared
  <1> QED
    BY <1>4, <1>5, <1>6

\* Its rows and its curves are those of the node.
LEMMA FrameOf ==
  ASSUME IInv, NEW key \in DOMAIN declared, NEW f \in Elements(frame_list), key_of(f) = key
  PROVE  /\ frame_node(key) = f /\ f # NULL /\ IsDeclared(f) /\ names(f) = declared[key]
         /\ RowIndexes(key) = indexes(f)
         /\ \A i : curve(key, declared[key][i]) = lines(f, i)
         /\ Len(RowIndexes(key)) = Len(rows[key]) /\ Len(rows[key]) \in Nat
         /\ rows[key] = <<>> <=> Len(rows[key]) = 0
  <1>1. TypeOK /\ Lists /\ FramesDeclared /\ Histories
    BY DEF IInv
  <1>2. frame_node(key) = f /\ f # NULL
    BY <1>1, FrameNodeOf, NodesNotNull
  <1>3. rows[key] \in Seq(Depths)
    BY <1>1 DEF Histories
  <1>4. Len(rows[key]) \in Nat /\ DOMAIN rows[key] = 1 .. Len(rows[key]) /\ (rows[key] = <<>> <=> Len(rows[key]) = 0)
    BY <1>3
  <1>5. RowIndexes(key) = indexes(f)
    BY <1>2 DEF RowIndexes, indexes
  <1>6. Len(RowIndexes(key)) = Len(rows[key])
    <2>1. DOMAIN RowIndexes(key) = 1 .. Len(rows[key]) /\ RowIndexes(key) = [n \in 1 .. Len(rows[key]) |-> RowIndexes(key)[n]]
      BY <1>4 DEF RowIndexes
    <2> QED BY <1>4, <2>1
  <1>7. IsDeclared(f) /\ names(f) = declared[key]
    BY DEF IsDeclared, names
  <1>8. \A i : curve(key, declared[key][i]) = lines(f, i)
    BY DEF lines
  <1> QED
    BY <1>2, <1>4, <1>5, <1>6, <1>7, <1>8

\* The list of frames and their lists of channels are what the file declared.
LEMMA CatalogFollows == IInv => CatalogIsTheFile
  <1> SUFFICES ASSUME IInv, ~kind.late, NEW key \in DOMAIN declared
               PROVE  /\ frame_node(key) # NULL
                      /\ LET nodes == channels_of(frame_node(key))
                         IN /\ Len(nodes) = Len(declared[key])
                            /\ \A i \in DOMAIN nodes :
                                 LET c == channels[nodes[i]]
                                     d == <<key[1], declared[key][i]>>
                                 IN /\ <<c.seq_num, c.name>> = d /\ c.index = i
                                    /\ d \in DOMAIN described =>
                                         /\ c.dimension = described[d]
                                         /\ \E j \in DOMAIN channel_list : channel_list[j] = nodes[i]
    BY DEF CatalogIsTheFile
  <1>1. PICK f \in Elements(frame_list) : key_of(f) = key
    BY DEF IInv, FramesDeclared
  <1>2. frame_node(key) = f /\ f # NULL /\ IsDeclared(f)
    BY <1>1, FrameOf
  <1>3. /\ Len(channels_of(f)) = Len(declared[key])
        /\ \A i \in DOMAIN channels_of(f) :
             /\ id_of(channels_of(f)[i]) = id(key, i)
             /\ channels[channels_of(f)[i]].index = i
             /\ id_of(channels_of(f)[i]) \in DOMAIN described
                  => channels_of(f)[i] \in Elements(channel_list)
    BY <1>1, <1>2 DEF IInv, ChannelsNamed
  <1>4. \A k \in Elements(channel_list) : channels[k].dimension = described[id_of(k)]
    BY DEF IInv, ChannelsDescribed
  <1>5. ASSUME NEW i \in DOMAIN channels_of(f), id(key, i) \in DOMAIN described
        PROVE  /\ channels[channels_of(f)[i]].dimension = described[id(key, i)]
               /\ \E j \in DOMAIN channel_list : channel_list[j] = channels_of(f)[i]
    <2>1. channels_of(f)[i] \in Elements(channel_list) /\ id_of(channels_of(f)[i]) = id(key, i)
      BY <1>3, <1>5
    <2>2. channels[channels_of(f)[i]].dimension = described[id(key, i)]
      BY <1>4, <2>1
    <2> QED BY <2>1, <2>2 DEF Elements
  <1> QED
    BY <1>2, <1>3, <1>5 DEF id, id_of

\* How far each curve file is follows from the cursor in the row being read.
LEMMA RowsFollow == IInv => RowsInCurves
  <1> SUFFICES ASSUME IInv, NEW key \in DOMAIN declared, frame_node(key) # NULL,
                      NEW i \in DOMAIN declared[key]
               PROVE  LET ix == RowIndexes(key)
                          ls == curve(key, declared[key][i])
                          n == Len(ix)
                      IN ls = ix \/ (pc # "eflr" /\ n > 0 /\ ls = SubSeq(ix, 1, n - 1))
    BY DEF RowsInCurves
  <1>1. PICK f \in Elements(frame_list) : key_of(f) = key
    BY FrameNodeOf DEF IInv
  <1>2. /\ IsDeclared(f) /\ i \in DOMAIN names(f)
        /\ RowIndexes(key) = indexes(f) /\ curve(key, declared[key][i]) = lines(f, i)
        /\ Len(RowIndexes(key)) = Len(rows[key]) /\ Len(rows[key]) \in Nat
        /\ rows[key] = <<>> <=> Len(rows[key]) = 0
    BY <1>1, FrameOf
  <1>3. SUFFICES lines(f, i) = indexes(f) \/ (pc # "eflr" /\ rows[key] # <<>> /\ lines(f, i) = but_last(f))
    <2>1. but_last(f) = SubSeq(RowIndexes(key), 1, Len(RowIndexes(key)) - 1)
      BY <1>1, <1>2 DEF but_last
    <2>2. rows[key] # <<>> => Len(RowIndexes(key)) > 0
      BY <1>2
    <2> QED BY <1>2, <2>1, <2>2
  <1>4. CASE pc \in {"done", "exit", "wild"}
    BY <1>1, <1>2, <1>4 DEF IInv, RowsWritten
  <1>5. CASE pc \in {"eflr", "row"} /\ ~(pc = "row" /\ f = current_frame)
    BY <1>2, <1>5 DEF IInv, RowsWritten
  <1>6. CASE pc = "row" /\ f = current_frame
    <2>1. frames[f].seq_num = seq_num /\ rows[current_key] # <<>>
      BY <1>6 DEF IInv, RowsWritten
    <2>2. current_key = key
      BY <1>1, <1>6, <2>1 DEF current_key, key_of
    <2>3. PICK p \in Nat : Reading(p)
      BY <1>6 DEF IInv, RowsWritten
    <2>4. lines(f, i) = IF i < p THEN indexes(f) ELSE but_last(f)
      BY <1>2, <1>6, <2>3 DEF Reading
    <2> QED BY <1>6, <2>1, <2>2, <2>4
  <1>7. pc \in {"eflr", "row", "done", "exit", "wild"}
    BY DEF IInv, TypeOK
  <1> QED
    BY <1>4, <1>5, <1>6, <1>7

\* The report's range of a frame is that of the lines of its first channel.
LEMMA ReportFollows == IInv /\ ~kind.late => TopAndBottom
  <1> SUFFICES ASSUME IInv, ~kind.late, pc = "done", NEW key \in DOMAIN declared,
                      declared[key] # <<>>, curve(key, declared[key][1]) # <<>>
               PROVE  LET ls == curve(key, declared[key][1])
                      IN \E r \in report :
                           /\ <<r.seq_num, r.name>> = key
                           /\ r.index_min = IF frames[frame_node(key)].index_type THEN ls[1] ELSE 1
                           /\ r.index_max = Last(ls)
    BY DEF TopAndBottom
  <1>1. PICK f \in Elements(frame_list) : key_of(f) = key
    BY DEF IInv, FramesDeclared
  <1>2. /\ IsDeclared(f) /\ names(f) = declared[key] /\ frame_node(key) = f
        /\ curve(key, declared[key][1]) = lines(f, 1)
    BY <1>1, FrameOf
  <1>3. PICK r : r = [seq_num |-> frames[f].seq_num, name |-> frames[f].name,
                      index_min |-> frames[f].index_min, index_max |-> frames[f].index_max]
    OBVIOUS
  <1>4. r \in report
    BY <1>3 DEF IInv, Closed
  <1>5. /\ ~frames[f].index_type => frames[f].index_min = 1
        /\ frames[f].index_type => frames[f].index_min = lines(f, 1)[1]
        /\ frames[f].index_max = Last(lines(f, 1))
    BY <1>2 DEF IInv, IndexesNoted
  <1>6. <<r.seq_num, r.name>> = key /\ r.index_min = frames[f].index_min /\ r.index_max = frames[f].index_max
    BY <1>1, <1>3 DEF key_of
  <1>7. r.index_min = IF frames[frame_node(key)].index_type THEN curve(key, declared[key][1])[1] ELSE 1
    BY <1>2, <1>5, <1>6
  <1> QED
    BY <1>2, <1>4, <1>5, <1>6, <1>7

\* The program ends for an unknown frame only in a file with late FRAME sets.
LEMMA FrameFound ==
  IInv /\ ~kind.late /\ FrameExists /\ [Next]_vars => FrameExists'
  <1> SUFFICES ASSUME IInv, ~kind.late, FrameExists, [Next]_vars PROVE FrameExists'
    OBVIOUS
  <1>1. ASSUME on_iflr_header PROVE FrameExists'
    <2>1. PICK f \in FrameNames :
            /\ may_have_row(f)
            /\ \/ First(frame_list, named_frames(f)) = NULL
               \/ pc' = "row"
      BY <1>1 DEF on_iflr_header
    <2>2. PICK key : key = <<seq_num, f>> /\ key \in DOMAIN declared
      BY <2>1 DEF may_have_row, Declared
    <2>3. PICK g \in Elements(frame_list) : key_of(g) = key
      BY <2>2 DEF IInv, FramesDeclared
    <2>4. g \in DOMAIN frames /\ frame_list \in Seq(1 .. Len(frames)) /\ Len(frames) \in Nat
      BY Listed, Heaps DEF IInv
    <2>5. g \in named_frames(f)
      BY <2>2, <2>3, <2>4 DEF named_frames, key_of
    <2>6. First(frame_list, named_frames(f)) # NULL
      BY <2>3, <2>4, <2>5, FirstFinds
    <2> QED BY <2>1, <2>6 DEF FrameExists
  <1>2. ASSUME on_iflr_data \/ finish PROVE FrameExists'
    BY <1>2 DEF on_iflr_data, finish, FrameExists
  <1>3. ASSUME \/ on_eflr_component_set \/ on_sequence_number \/ on_frame_object \/ on_index_type
               \/ on_frame_channel \/ on_channel_object \/ on_dimension \/ on_eod
               \/ UNCHANGED vars
        PROVE  FrameExists'
    <2>1. pc' = pc
      BY <1>3 DEF on_eflr_component_set, on_sequence_number, on_frame_object, on_index_type,
                  on_frame_channel, on_channel_object, on_dimension, on_eod, vars, state
    <2> QED BY <2>1 DEF FrameExists
  <1> QED
    BY <1>1, <1>2, <1>3 DEF Next

\* Types of the catalog of dlis.cc (dlis.h:92-116), in every reachable state.
THEOREM CatalogTypes == Spec => []TypeOK
  <1>1. IInv => TypeOK
    BY DEF IInv
  <1> QED
    BY <1>1, CatalogInvariant, PTL

\* Without late FRAME sets the catalog is what the file declared: frames and
\* their channels in order, a described channel by the same node in both lists
\* (frame_list, channel_list; dlis.cc:1233-1330).
THEOREM CatalogOfTheFile == Spec => []CatalogIsTheFile
  <1> QED
    BY CatalogFollows, CatalogInvariant, PTL

\* The rows of every frame are in the curve files of its channels, but for the
\* last row where the file stops in the middle of it (on_iflr_data).
THEOREM RowsReachCurves == Spec => []RowsInCurves
  <1> QED
    BY RowsFollow, CatalogInvariant, PTL

\* The end of do_parse closes every file that was opened.
THEOREM AllFilesClosed == Spec => []FilesClosed
  <1>1. IInv => FilesClosed
    BY DEF IInv, Closed, FilesClosed
  <1> QED
    BY <1>1, CatalogInvariant, PTL

\* A pointer never assigned is used only for a row of a frame without channels,
\* or of a frame with a channel that had no CHANNEL object.
THEOREM WildOnlyForEarlyRows == Spec => []WildOnlyIfEarly
  <1>1. IInv => WildOnlyIfEarly
    BY DEF IInv
  <1> QED
    BY <1>1, CatalogInvariant, PTL

\* None is used where rows come after the CHANNEL objects of their frame.
THEOREM NoWildPointerInOrder == Spec => [](~kind.early => NoWildPointer)
  <1>1. IInv => (~kind.early => NoWildPointer)
    BY DEF IInv
  <1> QED
    BY <1>1, CatalogInvariant, PTL

\* Without late FRAME sets the report has the first and the last index of each
\* frame with rows, as index.js takes them for the dataset's top and bottom.
THEOREM ReportedRange == Spec => [](~kind.late => TopAndBottom)
  <1>1. IInv => (~kind.late => TopAndBottom)
    BY ReportFollows
  <1> QED
    BY <1>1, CatalogInvariant, PTL

\* Without late FRAME sets no row ends the program for an unknown frame
\* (on_iflr_header's exit(-1)).
THEOREM FrameOfRowFound == Spec => [](~kind.late => FrameExists)
  <1> DEFINE Inv == IInv /\ (~kind.late => FrameExists)
  <1>1. Init => Inv
    BY Initially DEF Init, FrameExists
  <1>2. Inv /\ [Next]_vars => Inv'
    <2>1. [Next]_vars => UNCHANGED kind
      BY DEF Next, vars
    <2> HIDE DEF Next, vars
    <2> QED BY <2>1, InvStep, FrameFound
  <1>3. Inv => (~kind.late => FrameExists)
    OBVIOUS
  <1> QED
    BY <1>1, <1>2, <1>3, PTL DEF Spec

-----------------------------------------------------------------------------
(***************************************************************************)
(* The catalog implements the layout.  Where FRAME sets are not late, the  *)
(* lists show the history of what the file declared.                       *)
(***************************************************************************)
layout_of(d) == [key \in DOMAIN d |-> [i \in DOMAIN d[key] |-> <<key[1], d[key][i]>>]]

\* The mapped layout is the one declared, since no frame is lost.
LEMMA LayoutBar == IInv /\ ~kind.late => layout_bar = layout_of(declared)
  <1> SUFFICES ASSUME IInv, ~kind.late PROVE layout_bar = layout_of(declared)
    OBVIOUS
  <1>1. declared_in_list = { key_of(f) : f \in Elements(frame_list) } \ {<<0, NoName>>}
    BY DEF declared_in_list, Elements, key_of
  <1>2. <<0, NoName>> \notin DOMAIN declared
    <2>1. DOMAIN declared \subseteq Numbers \X FrameNames
      BY DEF IInv, Histories
    <2>2. NoName \notin FrameNames
      BY CatalogAssumption
    <2> QED BY <2>1, <2>2
  <1>3. \A key \in DOMAIN declared : \E f \in Elements(frame_list) : key_of(f) = key
    BY DEF IInv, FramesDeclared
  <1>4. \A f \in Elements(frame_list) : key_of(f) \in DOMAIN declared \/ key_of(f) = <<0, NoName>>
    BY DEF IInv, FramesDeclared, IsDeclared
  <1>5. declared_in_list = DOMAIN declared
    BY <1>1, <1>2, <1>3, <1>4
  <1>6. ASSUME NEW key \in DOMAIN declared
        PROVE  names_of(key) = [i \in DOMAIN declared[key] |-> <<key[1], declared[key][i]>>]
    <2>1. PICK f \in Elements(frame_list) : key_of(f) = key
      BY <1>3
    <2>2. frame_node(key) = f /\ IsDeclared(f)
      BY <2>1, FrameOf
    <2>3. /\ Len(channels_of(f)) = Len(declared[key])
          /\ \A i \in DOMAIN channels_of(f) : id_of(channels_of(f)[i]) = id(key, i)
      BY <2>1, <2>2 DEF IInv, ChannelsNamed
    <2>4. DOMAIN channels_of(f) = 1 .. Len(channels_of(f))
      BY Listed DEF IInv
    <2>5. declared[key] \in Seq(ChannelNames)
      BY DEF IInv, Histories
    <2>6. DOMAIN channels_of(f) = DOMAIN declared[key]
      BY <2>3, <2>4, <2>5
    <2>7. names_of(key) = [i \in DOMAIN channels_of(f) |-> id_of(channels_of(f)[i])]
      BY <2>2 DEF names_of, id_of
    <2> QED BY <2>3, <2>6, <2>7 DEF id
  <1> QED
    BY <1>5, <1>6 DEF layout_bar, layout_of

\* Steps that neither declare anything nor write a line.
LEMMA LayoutStays ==
  ASSUME IInv, IInv', ~kind.late, kind' = kind, declared' = declared,
         \A k, d : curve(k, d)' = curve(k, d)
  PROVE  layout_bar' = layout_bar /\ curves_bar' = curves_bar
  <1>1. layout_bar = layout_of(declared)
    BY LayoutBar
  <1>2. (layout_bar = layout_of(declared))'
    <2>1. (~kind.late)'
      OBVIOUS
    <2> QED BY <2>1, LayoutBar, PTL
  <1>3. curves_bar' = curves_bar
    BY DEF curves_bar
  <1> QED
    BY <1>1, <1>2, <1>3 DEF layout_of

\* A frame object declares a frame.
LEMMA DeclaresFrame ==
  ASSUME IInv, IInv', ~kind.late, UNCHANGED kind, on_frame_object
  PROVE  \E f \in Numbers \X FrameNames : L!DeclareFrame(f)
  <1>1. PICK name \in FrameNames :
          /\ in_set("FRAME") /\ <<seq_num, name>> \notin Declared
          /\ declared' = Extended(declared, <<seq_num, name>>, <<>>)
          /\ UNCHANGED outputs
    BY DEF on_frame_object
  <1>2. PICK key : key = <<seq_num, name>>
    OBVIOUS
  <1>3. key \notin DOMAIN declared /\ key \in Numbers \X FrameNames
    BY <1>1, <1>2, InFrameSet DEF IInv
  <1>4. layout_bar = layout_of(declared) /\ layout_bar' = layout_of(declared')
    <2>1. layout_bar = layout_of(declared)
      BY LayoutBar
    <2>2. (layout_bar = layout_of(declared))'
      <3>1. (~kind.late)'
        OBVIOUS
      <3> QED BY <3>1, LayoutBar, PTL
    <2> QED BY <2>1, <2>2 DEF layout_of
  <1>5. /\ key \notin DOMAIN layout_bar
        /\ layout_bar' = [g \in DOMAIN layout_bar \cup {key} |-> IF g = key THEN <<>> ELSE layout_bar[g]]
    <2>1. DOMAIN declared' = DOMAIN declared \cup {key} /\ declared'[key] = <<>>
          /\ \A k \in DOMAIN declared : declared'[k] = declared[k]
      BY <1>1, <1>2, <1>3 DEF Extended
    <2>2. DOMAIN layout_bar = DOMAIN declared
      BY <1>4 DEF layout_of
    <2>3. layout_bar' = [g \in DOMAIN declared \cup {key} |->
                           [i \in DOMAIN declared'[g] |-> <<g[1], declared'[g][i]>>]]
      BY <1>4, <2>1 DEF layout_of
    <2>4. \A g \in DOMAIN declared : layout_bar[g] = [i \in DOMAIN declared[g] |-> <<g[1], declared[g][i]>>]
      BY <1>4 DEF layout_of
    <2>5. [i \in DOMAIN declared'[key] |-> <<key[1], declared'[key][i]>>] = <<>>
      <3>1. DOMAIN declared'[key] = {}
        BY <2>1
      <3> QED BY <3>1
    <2>6. ASSUME NEW g \in DOMAIN declared \cup {key}
          PROVE  [i \in DOMAIN declared'[g] |-> <<g[1], declared'[g][i]>>]
                   = IF g = key THEN <<>> ELSE layout_bar[g]
      BY <1>3, <2>1, <2>4, <2>5
    <2> QED BY <1>3, <2>2, <2>3, <2>6
  <1>6. curves_bar' = curves_bar
    BY <1>1 DEF outputs, curves_bar, curve
  <1> QED
    BY <1>3, <1>5, <1>6 DEF L!DeclareFrame, L!Frames

\* A channel named by a frame is added to it.
LEMMA AddsChannel ==
  ASSUME IInv, IInv', ~kind.late, UNCHANGED kind, on_frame_channel
  PROVE  \E f \in L!Frames, c \in Numbers \X ChannelNames : L!AddChannel(f, c)
  <1>1. PICK c \in ChannelNames :
          /\ in_object("FRAME") /\ ~Named(c)
          /\ declared' = [declared EXCEPT ![current_key] = Append(@, c)]
          /\ UNCHANGED outputs
    BY DEF on_frame_channel
  <1>2. PICK key, cid : key = current_key /\ cid = <<seq_num, c>>
    OBVIOUS
  <1>3. /\ key \in DOMAIN declared /\ declared[key] \in Seq(ChannelNames) /\ seq_num # 0
        /\ key[1] = seq_num /\ cid \in Numbers \X ChannelNames
        /\ \A k \in DOMAIN declared : \A i \in DOMAIN declared[k] : id(k, i) # cid
    <2>1. /\ IsDeclared(current_frame) /\ key_of(current_frame) = current_key /\ seq_num # 0
          /\ current_key = <<seq_num, frames[current_frame].name>>
      BY <1>1, FrameObject DEF IInv
    <2>2. key \in DOMAIN declared /\ declared[key] \in Seq(ChannelNames)
      BY <1>2, <2>1 DEF IsDeclared, IInv, Histories
    <2>3. \A k \in DOMAIN declared : \A i \in DOMAIN declared[k] : id(k, i) # cid
      BY <1>1, <1>2, <2>1, NotNamed DEF IInv
    <2>4. seq_num \in Numbers
      BY <2>1, KindOf DEF IInv
    <2> QED BY <1>2, <2>1, <2>2, <2>3, <2>4
  <1>4. layout_bar = layout_of(declared) /\ layout_bar' = layout_of(declared')
    <2>1. layout_bar = layout_of(declared)
      BY LayoutBar
    <2>2. (layout_bar = layout_of(declared))'
      <3>1. (~kind.late)'
        OBVIOUS
      <3> QED BY <3>1, LayoutBar, PTL
    <2> QED BY <2>1, <2>2 DEF layout_of
  <1>5. DOMAIN layout_bar = DOMAIN declared
        /\ \A g \in DOMAIN declared : layout_bar[g] = [i \in DOMAIN declared[g] |-> id(g, i)]
    BY <1>4 DEF layout_of, id
  <1>6. \A g \in DOMAIN layout_bar : \A i \in DOMAIN layout_bar[g] : layout_bar[g][i] # cid
    BY <1>3, <1>5
  <1>7. layout_bar' = [layout_bar EXCEPT ![key] = Append(@, cid)]
    <2>1. PICK s, m : s = declared[key] /\ m = Len(s) /\ m \in Nat /\ DOMAIN s = 1 .. m
      BY <1>3
    <2>2. PICK t : t = Append(s, c)
      OBVIOUS
    <2>3. DOMAIN t = 1 .. m + 1 /\ t[m + 1] = c /\ \A i \in 1 .. m : t[i] = s[i]
      <3>1. LET u == Append(s, c)
            IN /\ DOMAIN u = 1 .. Len(s) + 1 /\ u[Len(s) + 1] = c /\ \A i \in 1 .. Len(s) : u[i] = s[i]
        BY <1>3, <2>1, AppendedAt
      <3> QED BY <2>1, <2>2, <3>1
    <2>4. PICK old, new : /\ old = [i \in 1 .. m |-> <<key[1], s[i]>>]
                          /\ new = [i \in 1 .. m + 1 |-> <<key[1], t[i]>>]
      OBVIOUS
    <2>5. new = Append(old, cid)
      <3>1. \A i \in 1 .. m : s[i] \in ChannelNames
        BY <1>3, <2>1
      <3>2. old \in [1 .. m -> Numbers \X ChannelNames]
        <4>1. key[1] \in Numbers
          BY <1>2, <1>3
        <4> QED BY <2>4, <3>1, <4>1
      <3>3. old \in Seq(Numbers \X ChannelNames) /\ Len(old) = m
        BY <2>1, <3>2
      <3>4. LET u == Append(old, cid)
            IN /\ DOMAIN u = 1 .. Len(old) + 1 /\ u[Len(old) + 1] = cid
               /\ \A i \in 1 .. Len(old) : u[i] = old[i]
               /\ u \in Seq(Numbers \X ChannelNames)
        BY <1>3, <3>3, AppendedAt
      <3>5. PICK u : u = Append(old, cid)
        OBVIOUS
      <3>6. /\ DOMAIN u = 1 .. m + 1 /\ u[m + 1] = cid /\ u \in Seq(Numbers \X ChannelNames)
            /\ \A i \in 1 .. m : u[i] = <<key[1], s[i]>>
        BY <2>4, <3>3, <3>4, <3>5
      <3>7. \A i \in 1 .. m + 1 : u[i] = <<key[1], t[i]>>
        <4>1. 1 .. m + 1 = (1 .. m) \cup {m + 1}
          BY <2>1
        <4> QED BY <1>2, <1>3, <2>3, <3>6, <4>1
      <3>8. u = [i \in 1 .. m + 1 |-> u[i]]
        BY <3>6
      <3> QED BY <2>4, <3>5, <3>7, <3>8
    <2>6. declared' = [declared EXCEPT ![key] = t]
      BY <1>1, <1>2, <2>1, <2>2
    <2>7. layout_bar[key] = old
      BY <1>3, <1>4, <2>1, <2>4 DEF layout_of
    <2>8. DOMAIN declared' = DOMAIN declared /\ declared'[key] = t
          /\ \A k \in DOMAIN declared : k # key => declared'[k] = declared[k]
      BY <1>3, <2>6
    <2>9. layout_bar' = [g \in DOMAIN declared |-> IF g = key THEN new ELSE layout_bar[g]]
      BY <1>4, <1>5, <2>3, <2>4, <2>8 DEF layout_of, id
    <2> QED BY <1>3, <1>5, <2>5, <2>7, <2>9
  <1>8. curves_bar' = curves_bar
    BY <1>1 DEF outputs, curves_bar, curve
  <1>9. key \in DOMAIN layout_bar
    BY <1>3, <1>5
  <1> QED
    BY <1>3, <1>6, <1>7, <1>8, <1>9 DEF L!AddChannel, L!Frames

\* A row's samples of a channel are a line in its curve.
LEMMA WritesLine ==
  ASSUME IInv, IInv', ~kind.late, UNCHANGED kind, on_iflr_data,
         frames[current_frame].current_channel # NULL,
         channels[frames[current_frame].current_channel].fp \in DOMAIN disk
  PROVE  \E f \in L!Frames, x \in Lines : \E i \in DOMAIN layout_bar[f] : L!WriteLine(f, i, x)
  <1>1. PICK f, node : f = current_frame /\ node = frames[f].current_channel
    OBVIOUS
  <1>2. PICK c, depth, x :
          /\ c = channels[node] /\ depth = Last(rows[current_key])
          /\ x = IF c.index = 1 /\ frames[f].index_type THEN depth ELSE parsing_frame_index
    OBVIOUS
  <1>3. /\ pc = "row" /\ declared' = declared
        /\ disk' = [disk EXCEPT ![c.fp] = Append(disk[c.fp], x)]
    BY <1>1, <1>2 DEF on_iflr_data, history
  <1>4. PICK i \in Nat : Reading(i)
    BY <1>3 DEF IInv, RowsWritten
  <1>5. PICK key, nodes, n : key = current_key /\ nodes = channels_of(f) /\ n = Len(rows[key])
    OBVIOUS
  <1>6. /\ f \in Elements(frame_list) /\ IsDeclared(f) /\ key_of(f) = key
        /\ rows[key] # <<>>
        /\ node # NULL /\ i \in DOMAIN names(f) /\ i >= 1
        /\ DOMAIN names(f) = 1 .. Len(nodes) /\ Len(nodes) \in Nat
        /\ id_of(node) = id(key, i) /\ c.index = i
        /\ c.fp = path_of(key[1], names(f)[i]) /\ c.fp \in DOMAIN disk
    <2>1. /\ TypeOK /\ Histories /\ Lists /\ FramesDeclared /\ ChannelsNamed /\ ChannelsDescribed
          /\ Cursors /\ RowsWritten
      BY DEF IInv
    <2> QED BY <1>1, <1>2, <1>3, <1>4, <1>5, <2>1, Row
  <1>7. /\ rows[key] \in Seq(Depths) /\ n \in 1 .. MAX_ROWS
        /\ indexes(f) \in Seq(Lines) /\ Len(indexes(f)) = n /\ indexes(f) # <<>>
        /\ \A m \in 1 .. n : indexes(f)[m] = IF frames[f].index_type THEN rows[key][m] ELSE m
        /\ depth = rows[key][n]
    <2>1. /\ rows[key] \in Seq(Depths) /\ n \in 0 .. MAX_ROWS
          /\ indexes(f) \in Seq(Lines) /\ Len(indexes(f)) = n /\ indexes(f) # <<>>
          /\ \A m \in 1 .. n : indexes(f)[m] = IF frames[f].index_type THEN rows[key][m] ELSE m
      BY <1>5, <1>6, IndexesOf DEF IInv
    <2>2. n # 0
      BY <2>1
    <2>3. depth = rows[key][n]
      BY <1>2, <1>5, <1>6, <2>1, SequenceEnds
    <2> QED BY <2>1, <2>2, <2>3
  <1>8. /\ Last(indexes(f)) = indexes(f)[n] /\ Last(indexes(f)) \in Lines
        /\ but_last(f) \in Seq(Lines) /\ Len(but_last(f)) = n - 1
    <2>1. but_last(f) = SubSeq(indexes(f), 1, Len(indexes(f)) - 1)
      BY <1>5, <1>6, <1>7 DEF but_last
    <2> QED BY <1>7, <2>1, SequenceEnds
  <1>9. x = indexes(f)[n] /\ x \in Lines
    <2>1. parsing_frame_index = IF i = 1 THEN n ELSE Last(indexes(f))
      BY <1>1, <1>4, <1>5, <1>6 DEF Reading
    <2>2. indexes(f)[n] = IF frames[f].index_type THEN depth ELSE n
      BY <1>7
    <2>3. x = Last(indexes(f))
      BY <1>2, <1>6, <1>8, <2>1, <2>2
    <2> QED BY <1>8, <2>3
  <1>10. PICK s, ids : /\ s = declared[key] /\ s = names(f)
                       /\ ids = [j \in DOMAIN s |-> <<key[1], s[j]>>]
    BY <1>6 DEF names
  <1>11. /\ key \in DOMAIN declared /\ key[1] \in Numbers /\ DOMAIN s = 1 .. Len(s)
         /\ \A j \in DOMAIN s : s[j] \in ChannelNames
    <2>1. key \in DOMAIN declared
      BY <1>6 DEF IsDeclared
    <2>2. /\ declared \in [DOMAIN declared -> Seq(ChannelNames)]
          /\ DOMAIN declared \subseteq Numbers \X FrameNames
      BY DEF IInv, Histories
    <2>3. s \in Seq(ChannelNames) /\ key \in Numbers \X FrameNames
      BY <1>10, <2>1, <2>2
    <2> QED BY <2>1, <2>3
  <1>12. layout_bar = layout_of(declared) /\ layout_bar' = layout_bar
    <2>1. layout_bar = layout_of(declared)
      BY LayoutBar
    <2>2. (layout_bar = layout_of(declared))'
      <3>1. (~kind.late)'
        OBVIOUS
      <3> QED BY <3>1, LayoutBar, PTL
    <2> QED BY <1>3, <2>1, <2>2 DEF layout_of
  <1>13. key \in DOMAIN layout_bar /\ layout_bar[key] = ids /\ DOMAIN ids = DOMAIN s
    BY <1>10, <1>11, <1>12 DEF layout_of
  <1>14. /\ \A j \in DOMAIN s : ids[j] \in Numbers \X ChannelNames /\ ids[j] = <<key[1], s[j]>>
         /\ Len(ids) = Len(s)
    <2>1. \A j \in DOMAIN s : ids[j] \in Numbers \X ChannelNames /\ ids[j] = <<key[1], s[j]>>
      BY <1>10, <1>11
    <2>2. ids \in Seq(Numbers \X ChannelNames)
      <3>1. ids \in [1 .. Len(s) -> Numbers \X ChannelNames] /\ Len(s) \in Nat
        <4>1. Len(s) = Len(nodes)
          BY <1>6, <1>10, <1>11, IndexesOf DEF IInv
        <4>2. Len(s) \in Nat /\ DOMAIN ids = 1 .. Len(s)
          BY <1>6, <1>11, <1>13, <4>1
        <4>3. ids = [j \in 1 .. Len(s) |-> ids[j]]
          BY <1>10, <4>2
        <4>4. \A j \in 1 .. Len(s) : ids[j] \in Numbers \X ChannelNames
          BY <1>11, <2>1
        <4> QED BY <4>2, <4>3, <4>4
      <3> QED BY <3>1
    <2> QED BY <1>11, <1>13, <2>1, <2>2
  <1>15. \A j \in DOMAIN s : curves_bar[ids[j]] = lines(f, j)
    <2> SUFFICES ASSUME NEW j \in DOMAIN s PROVE curves_bar[ids[j]] = lines(f, j)
      OBVIOUS
    <2>1. ids[j][1] = key[1] /\ ids[j][2] = s[j] /\ ids[j] \in Numbers \X ChannelNames
      BY <1>14
    <2>2. curves_bar[ids[j]] = curve(<<key[1]>>, s[j])
      BY <2>1 DEF curves_bar
    <2>3. <<key[1]>>[1] = key[1]
      OBVIOUS
    <2>4. lines(f, j) = curve(key, s[j])
      BY <1>6, <1>10 DEF lines, names
    <2> QED BY <2>2, <2>3, <2>4 DEF curve
  <1>16. \A j \in DOMAIN s : curves_bar[ids[j]] = IF j < i THEN indexes(f) ELSE but_last(f)
    BY <1>1, <1>4, <1>10, <1>15 DEF Reading
  <1>17. curves_bar' = [curves_bar EXCEPT ![ids[i]] = Append(curves_bar[ids[i]], x)]
    <2>1. /\ DOMAIN disk' = DOMAIN disk
          /\ \A p \in DOMAIN disk : disk'[p] = IF p = c.fp THEN Append(disk[p], x) ELSE disk[p]
      BY <1>3
    <2>2. i \in DOMAIN s /\ ids[i] \in Numbers \X ChannelNames /\ ids[i] = <<key[1], s[i]>>
          /\ s[i] \in ChannelNames /\ c.fp = path_of(key[1], s[i])
      BY <1>6, <1>10, <1>11, <1>14
    <2>3. curves_bar[ids[i]] = disk[c.fp]
      BY <1>6, <1>10, <1>15, <2>2 DEF lines, curve, names
    <2>4. ASSUME NEW d \in Numbers \X ChannelNames
          PROVE  curve(<<d[1]>>, d[2])' = IF d = ids[i] THEN Append(curves_bar[ids[i]], x)
                                          ELSE curve(<<d[1]>>, d[2])
      <3>1. d[1] \in Numbers /\ d[2] \in ChannelNames /\ d = <<d[1], d[2]>> /\ <<d[1]>>[1] = d[1]
        BY <2>4
      <3>2. CASE d = ids[i]
        <4>1. path_of(d[1], d[2]) = c.fp
          BY <2>2, <3>2
        <4> QED BY <1>6, <2>1, <2>3, <3>1, <3>2, <4>1 DEF curve
      <3>3. CASE d # ids[i]
        <4>1. d[1] # key[1] \/ d[2] # s[i]
          BY <2>2, <3>1, <3>3
        <4>2. path_of(d[1], d[2]) # c.fp
          BY <1>11, <2>2, <3>1, <4>1, PathAssumption
        <4> QED BY <2>1, <3>1, <3>3, <4>2 DEF curve
      <3> QED BY <3>2, <3>3
    <2>5. curves_bar' = [d \in Numbers \X ChannelNames |-> curve(<<d[1]>>, d[2])']
      BY DEF curves_bar
    <2>6. curves_bar' = [d \in Numbers \X ChannelNames |->
                           IF d = ids[i] THEN Append(curves_bar[ids[i]], x) ELSE curves_bar[d]]
      BY <2>4, <2>5 DEF curves_bar
    <2>7. DOMAIN curves_bar = Numbers \X ChannelNames
      BY DEF curves_bar
    <2> QED BY <2>2, <2>6, <2>7
  <1>18. i \in DOMAIN s /\ i \in Nat /\ n \in Nat \ {0} /\ Len(s) \in Nat
    <2>1. Len(s) = Len(nodes)
      BY <1>6, <1>10, <1>11, IndexesOf DEF IInv
    <2>2. n \in Nat \ {0}
      BY <1>7, CatalogAssumption
    <2> QED BY <1>6, <1>10, <2>1, <2>2
  <1>19. Len(curves_bar[ids[i]]) + 1 = n
    BY <1>8, <1>16, <1>18
  <1>20. \A j \in 1 .. i - 1 : Len(curves_bar[ids[j]]) = n /\ curves_bar[ids[j]][n] = x
    <2> SUFFICES ASSUME NEW j \in 1 .. i - 1 PROVE curves_bar[ids[j]] = indexes(f)
      BY <1>7, <1>9
    <2>1. j \in DOMAIN s /\ j < i
      BY <1>11, <1>18
    <2> QED BY <1>16, <2>1
  <1>21. \A j \in i .. Len(ids) : Len(curves_bar[ids[j]]) = n - 1
    <2> SUFFICES ASSUME NEW j \in i .. Len(ids) PROVE curves_bar[ids[j]] = but_last(f)
      BY <1>8
    <2>1. j \in DOMAIN s /\ ~(j < i)
      BY <1>11, <1>14, <1>18
    <2> QED BY <1>16, <2>1
  <1>22. L!WriteLine(key, i, x)
    BY <1>12, <1>13, <1>17, <1>19, <1>20, <1>21 DEF L!WriteLine
  <1> QED
    BY <1>9, <1>13, <1>18, <1>22 DEF L!Frames

\* The object of a channel: its file is opened, its curve as empty as before.
LEMMA OpensCurve ==
  ASSUME IInv, IInv', on_channel_object
  PROVE  \A k, d : curve(k, d)' = curve(k, d)
  <1>1. PICK c \in ChannelNames :
          /\ in_set("CHANNEL") /\ <<seq_num, c>> \notin DOMAIN described
          /\ disk' = Extended(disk, path_of(seq_num, c), <<>>)
    BY DEF on_channel_object
  <1>2. seq_num \in Numbers
    <2>1. seq_num # 0
      BY <1>1 DEF in_set, IInv, Cursors
    <2> QED BY <2>1, KindOf DEF IInv
  <1>3. path_of(seq_num, c) \notin DOMAIN disk
    <2> SUFFICES ASSUME path_of(seq_num, c) \in DOMAIN disk PROVE FALSE
      OBVIOUS
    <2>1. DOMAIN disk = { path_of(d[1], d[2]) : d \in DOMAIN described }
          /\ DOMAIN described \subseteq Numbers \X ChannelNames
      BY DEF IInv, Histories, ChannelsDescribed
    <2>2. PICK d \in DOMAIN described : path_of(seq_num, c) = path_of(d[1], d[2])
      BY <2>1
    <2>3. d[1] \in Numbers /\ d[2] \in ChannelNames /\ d = <<d[1], d[2]>>
      BY <2>1
    <2>4. d[1] = seq_num /\ d[2] = c
      BY <1>2, <2>2, <2>3, PathAssumption
    <2> QED BY <1>1, <2>3, <2>4
  <1>4. PICK p : p = path_of(seq_num, c)
    OBVIOUS
  <1>5. /\ DOMAIN disk' = DOMAIN disk \cup {p} /\ disk'[p] = <<>> /\ p \notin DOMAIN disk
        /\ \A q \in DOMAIN disk : disk'[q] = disk[q]
    BY <1>1, <1>3, <1>4 DEF Extended
  <1> QED
    BY <1>5 DEF curve

layout_vars == <<layout_bar, curves_bar, pc = "done">>

\* Every step of the catalog is one of the layout, or changes nothing of it.
LEMMA LayoutStep ==
  ASSUME IInv, IInv', ~kind.late, [Next]_vars
  PROVE  [L!LayoutNext]_layout_vars
  <1>1. CASE UNCHANGED vars
    <2>1. kind' = kind /\ declared' = declared /\ disk' = disk /\ pc' = pc
      BY <1>1 DEF vars, state, outputs, history
    <2>2. \A k, d : curve(k, d)' = curve(k, d)
      BY <2>1 DEF curve
    <2>3. layout_bar' = layout_bar /\ curves_bar' = curves_bar
      BY <2>1, <2>2, LayoutStays
    <2> QED BY <2>1, <2>3 DEF layout_vars
  <1>2. ASSUME Next PROVE [L!LayoutNext]_layout_vars
    <2>1. kind' = kind
      BY <1>2 DEF Next
    <2>2. ASSUME declared' = declared, disk' = disk, pc # "done", pc' # "done"
          PROVE  UNCHANGED layout_vars
      <3>1. \A k, d : curve(k, d)' = curve(k, d)
        BY <2>2 DEF curve
      <3>2. layout_bar' = layout_bar /\ curves_bar' = curves_bar
        BY <2>1, <2>2, <3>1, LayoutStays
      <3> QED BY <2>2, <3>2 DEF layout_vars
    <2>3. CASE on_eflr_component_set
      <3>1. declared' = declared /\ disk' = disk /\ pc = "eflr" /\ pc' = pc
        BY <2>3 DEF on_eflr_component_set, outputs, history
      <3> QED BY <2>2, <3>1
    <2>4. CASE on_sequence_number
      <3>1. declared' = declared /\ disk' = disk /\ pc = "eflr" /\ pc' = pc
        BY <2>4 DEF on_sequence_number, outputs, history
      <3> QED BY <2>2, <3>1
    <2>5. CASE on_frame_object
      <3>1. pc = "eflr" /\ pc' = pc
        BY <2>5 DEF on_frame_object, in_set
      <3>2. \E f \in Numbers \X FrameNames : L!DeclareFrame(f)
        BY <2>1, <2>5, DeclaresFrame
      <3>3. ~(pc = "done") /\ UNCHANGED (pc = "done")
        BY <3>1
      <3> QED BY <3>2, <3>3 DEF L!LayoutNext
    <2>6. CASE on_index_type
      <3>1. declared' = declared /\ disk' = disk /\ pc = "eflr" /\ pc' = pc
        BY <2>6 DEF on_index_type, in_object, state, outputs, history
      <3> QED BY <2>2, <3>1
    <2>7. CASE on_frame_channel
      <3>1. pc = "eflr" /\ pc' = pc
        BY <2>7 DEF on_frame_channel, in_object, state
      <3>2. \E f \in L!Frames, c \in Numbers \X ChannelNames : L!AddChannel(f, c)
        BY <2>1, <2>7, AddsChannel
      <3>3. ~(pc = "done") /\ UNCHANGED (pc = "done")
        BY <3>1
      <3> QED BY <3>2, <3>3 DEF L!LayoutNext
    <2>8. CASE on_channel_object
      <3>1. declared' = declared /\ pc = "eflr" /\ pc' = pc
        BY <2>8 DEF on_channel_object, in_set
      <3>2. \A k, d : curve(k, d)' = curve(k, d)
        BY <2>8, OpensCurve
      <3>3. layout_bar' = layout_bar /\ curves_bar' = curves_bar
        BY <2>1, <3>1, <3>2, LayoutStays
      <3> QED BY <3>1, <3>3 DEF layout_vars
    <2>9. CASE on_dimension
      <3>1. declared' = declared /\ disk' = disk /\ pc = "eflr" /\ pc' = pc
        BY <2>9 DEF on_dimension, in_object, state, outputs
      <3> QED BY <2>2, <3>1
    <2>10. CASE on_iflr_header
      <3>1. declared' = declared /\ disk' = disk /\ pc = "eflr" /\ pc' \in {"exit", "row"}
        BY <2>10 DEF on_iflr_header, outputs
      <3> QED BY <2>2, <3>1
    <2>11. CASE on_eod
      <3>1. declared' = declared /\ disk' = disk /\ pc = "eflr" /\ pc' = pc
        BY <2>11 DEF on_eod, outputs, history
      <3> QED BY <2>2, <3>1
    <2>12. CASE on_iflr_data
      <3> DEFINE node == frames[current_frame].current_channel
                 written == node # NULL /\ channels[node].fp \in DOMAIN disk
      <3>1. CASE written
        <4>1. \E f \in L!Frames, x \in Lines : \E i \in DOMAIN layout_bar[f] : L!WriteLine(f, i, x)
          BY <2>1, <2>12, <3>1, WritesLine
        <4>2. pc = "row" /\ pc' \in {"eflr", "row"}
          BY <2>12, <3>1 DEF on_iflr_data
        <4>3. ~(pc = "done") /\ UNCHANGED (pc = "done")
          BY <4>2
        <4> QED BY <4>1, <4>3 DEF L!LayoutNext
      <3>2. CASE ~written
        <4>1. declared' = declared /\ disk' = disk /\ pc = "row" /\ pc' = "wild"
          BY <2>12, <3>2 DEF on_iflr_data, history
        <4> QED BY <2>2, <4>1
      <3> QED BY <3>1, <3>2
    <2>13. CASE finish
      <3>1. declared' = declared /\ disk' = disk /\ pc # "done" /\ pc' \in {"done", "wild"}
        BY <2>13 DEF finish, history
      <3>2. CASE pc' = "done"
        <4>1. \A k, d : curve(k, d)' = curve(k, d)
          BY <3>1 DEF curve
        <4>2. layout_bar' = layout_bar /\ curves_bar' = curves_bar
          BY <2>1, <3>1, <4>1, LayoutStays
        <4> QED BY <3>1, <3>2, <4>2 DEF L!LayoutNext
      <3>3. CASE pc' # "done"
        BY <2>2, <3>1, <3>3
      <3> QED BY <3>2, <3>3
    <2> QED
      BY <1>2, <2>3, <2>4, <2>5, <2>6, <2>7, <2>8, <2>9, <2>10, <2>11, <2>12, <2>13 DEF Next
  <1> QED BY <1>1, <1>2

\* The catalog is empty at first: a frame without a name, no curve.
LEMMA LayoutInitially == Init /\ ~kind.late => L!LayoutInit
  <1> SUFFICES ASSUME Init, ~kind.late PROVE L!LayoutInit
    OBVIOUS
  <1>1. IInv
    BY Initially
  <1>2. DOMAIN declared = {} /\ DOMAIN disk = {} /\ pc = "eflr"
    BY DEF Init
  <1>3. layout_bar = [f \in {} |-> <<>>]
    <2>1. layout_bar = layout_of(declared)
      BY <1>1, LayoutBar
    <2> QED BY <1>2, <2>1 DEF layout_of
  <1>4. curves_bar = [c \in Numbers \X ChannelNames |-> <<>>]
    BY <1>2 DEF curves_bar, curve
  <1> QED
    BY <1>2, <1>3, <1>4 DEF L!LayoutInit

\* Where no FRAME set comes late, the lists and the curve files implement the
\* layout: frames and channels are added and never lost or reordered, and a row
\* writes one line, with its index, for each channel of its frame in turn.
THEOREM CatalogImplementsLayout == Spec /\ ~kind.late => ImplementsLayout
  <1> DEFINE Inv == IInv /\ ~kind.late
  <1>1. Init /\ ~kind.late => Inv /\ L!LayoutInit
    BY Initially, LayoutInitially
  <1>2. Inv /\ [Next]_vars => Inv'
    <2>1. [Next]_vars => UNCHANGED kind
      BY DEF Next, vars
    <2> HIDE DEF Next, vars
    <2> QED BY <2>1, InvStep
  <1>3. Inv /\ Inv' /\ [Next]_vars => [L!LayoutNext]_layout_vars
    BY LayoutStep
  <1> QED
    BY <1>1, <1>2, <1>3, PTL
       DEF Spec, ImplementsLayout, L!LayoutSpec, layout_vars
=============================================================================
