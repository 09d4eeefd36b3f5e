------------------------------- MODULE Contents -----------------------------
(***************************************************************************)
(* What files hold, for EflrObjects, Wells and Addon: a sequence of sets,  *)
(* each with its type, the labels of its template, its objects and the     *)
(* rows that come after it; an object has a name and the values of its     *)
(* attributes, one sequence per attribute, in the order of the template.   *)
(* ItemsOf is the same as the sequence of items that the parser reads.     *)
(*                                                                         *)
(* WellsOf is the catalogue the file describes, without messages: the      *)
(* reference for what index.js answers.                                    *)
(***************************************************************************)
EXTENDS Integers, Sequences, SequencesExt, TLC, Messages

CONSTANTS Files,    \* [names of files -> sequences of sets]
          Ranges,   \* [names of files -> [names of frames -> [min, max]]]: indexes of their rows
          WrongCode \* a value whose representation code no type has, or ATTREF

NoType == "none"    \* the type of a set that has none; an object without a name has NoName

\* A row: the frame its header names, and whether its channels have codes that some type has.
end_of_data == [frame |-> NoName, coded |-> TRUE]

IsSequence(s) == Len(s) \in Nat /\ s = [i \in 1 .. Len(s) |-> s[i]]

ASSUME ContentsAssumption ==
  \A f \in DOMAIN Files :
    /\ IsSequence(Files[f])
    /\ \A k \in DOMAIN Files[f] :
         /\ IsSequence(Files[f][k].labels) /\ IsSequence(Files[f][k].objects)
         /\ IsSequence(Files[f][k].rows)
         /\ \A i \in DOMAIN Files[f][k].objects :
              LET attributes == Files[f][k].objects[i].attributes
              IN IsSequence(attributes) /\ \A j \in DOMAIN attributes : IsSequence(attributes[j])

-----------------------------------------------------------------------------
value_items(values) == [i \in DOMAIN values |-> [kind |-> "VALUE", value |-> values[i]]]
attrib_items(values) == <<[kind |-> "ATTRIB", count |-> Len(values)]>> \o value_items(values)
object_items(object) ==
  <<[kind |-> "OBJECT", name |-> object.name]>>
    \o FlattenSeq([i \in DOMAIN object.attributes |-> attrib_items(object.attributes[i])])
set_items(set) ==
  <<[kind |-> "SET", type |-> set.type]>>
    \o [i \in DOMAIN set.labels |-> [kind |-> "ATTRIB", label |-> set.labels[i]]]
    \o FlattenSeq([i \in DOMAIN set.objects |-> object_items(set.objects[i])])
    \o [i \in DOMAIN set.rows |-> [kind |-> "ROW", row |-> set.rows[i]]]
ItemsOf(sets) == FlattenSeq([k \in DOMAIN sets |-> set_items(sets[k])])

Items == [f \in DOMAIN Files |-> ItemsOf(Files[f])]

\* The objects of a file, in order, with the types of their sets.
Objects == [f \in DOMAIN Files |->
              FlattenSeq([k \in DOMAIN Files[f] |->
                [i \in DOMAIN Files[f][k].objects |->
                   [set |-> Files[f][k].type, name |-> Files[f][k].objects[i].name]]])]

-----------------------------------------------------------------------------
\* The values of an attribute; none when the object does not give it.
attribute(set, object, label) ==
  LET where == { i \in DOMAIN set.labels : set.labels[i] = label /\ i \in DOMAIN object.attributes }
  IN IF where = {} THEN <<>> ELSE object.attributes[CHOOSE i \in where : TRUE]

Whole(set, object) == Len(object.attributes) = Len(set.labels)

\* A logical file starts with its FILE-HEADER.
headers(f) == { k \in DOMAIN Files[f] : Files[f][k].type = "FILE-HEADER" }
header_of(f, k) == CHOOSE h \in headers(f) : h <= k /\ \A g \in headers(f) : g <= k => g <= h
number_of(f, h) == attribute(Files[f][h], Files[f][h].objects[1], "SEQUENCE-NUMBER")[1]
\* The sets of the logical file that set k is in.
sets_with(f, k) == { j \in DOMAIN Files[f] : j >= header_of(f, k) /\ header_of(f, j) = header_of(f, k) }
sets_of(f, k, type) == { j \in sets_with(f, k) : Files[f][j].type = type }

named(set, name) == { i \in DOMAIN set.objects : set.objects[i].name = name }
channel_sets(f, k, name) == { j \in sets_of(f, k, "CHANNEL") : named(Files[f][j], name) # {} }

Product(numbers) == FoldSeq(LAMBDA x, y : x * y, 1, numbers)

(***************************************************************************)
(* What must be so of a file for its catalogue to be the one it describes. *)
(* Each conjunct is something the parser or index.js relies on.            *)
(***************************************************************************)
NumberedFromOne(f) ==
  /\ Files[f] # <<>> /\ Files[f][1].type = "FILE-HEADER"
  /\ \A h \in headers(f) :
       /\ Len(Files[f][h].objects) = 1
       /\ attribute(Files[f][h], Files[f][h].objects[1], "SEQUENCE-NUMBER") # <<>>
       /\ number_of(f, h) > 0
       /\ \A g \in headers(f) : g # h => number_of(f, g) # number_of(f, h)
OriginFirst(f) ==
  /\ \A h \in headers(f) : \E j \in sets_of(f, h, "ORIGIN") : Files[f][j].objects # <<>>
  /\ \A k \in DOMAIN Files[f] :
       Files[f][k].type \in {"FRAME", "CHANNEL", "EQUIPMENT", "TOOL"} =>
         \E j \in sets_of(f, k, "ORIGIN") : j < k /\ Files[f][j].objects # <<>>
AllWhole(f) ==
  \A k \in DOMAIN Files[f] : \A i \in DOMAIN Files[f][k].objects :
    Whole(Files[f][k], Files[f][k].objects[i])
NoBlanks(f) ==
  \A i \in DOMAIN Objects[f] : Objects[f][i].set \in {"FRAME", "CHANNEL"} => ~Objects[f][i].name.padded
FramesName(f) ==
  \A k \in DOMAIN Files[f] : Files[f][k].type = "FRAME" => \A i \in DOMAIN Files[f][k].objects :
    LET names == attribute(Files[f][k], Files[f][k].objects[i], "CHANNELS")
        before == \E j \in sets_of(f, k, "CHANNEL") : j < k /\ Files[f][j].objects # <<>>
    IN /\ names # <<>>
       /\ \A c \in DOMAIN names : \E j \in channel_sets(f, k, names[c]) : before => j < k
\* The first object of the ORIGIN sets of a logical file names its well.
WellsNamed(f) ==
  \A k \in DOMAIN Files[f] :
    /\ Files[f][k].type = "ORIGIN" /\ Files[f][k].objects # <<>>
    /\ \A j \in sets_of(f, k, "ORIGIN") : j < k => Files[f][j].objects = <<>>
    => LET names == attribute(Files[f][k], Files[f][k].objects[1], "WELL-NAME")
       IN names = <<>> \/ names[1] \in Texts
\* The rows come after the frames of their logical file, and those of an earlier one when that
\* has a sequence number of 2 or more.
FramesBeforeRows(f) ==
  \A j, k \in DOMAIN Files[f] :
    /\ \A i \in DOMAIN Files[f][j].rows :
         Files[f][j].rows[i] # end_of_data =>
           \E s \in sets_of(f, j, "FRAME") : s <= j /\ named(Files[f][s], Files[f][j].rows[i].frame) # {}
    /\ Files[f][j].rows # <<>> /\ j < k /\ Files[f][k].type = "FRAME" /\ Files[f][k].objects # <<>>
         => header_of(f, j) # header_of(f, k) /\ number_of(f, header_of(f, k)) > 1
ChannelsCoded(f) ==
  \A k \in DOMAIN Files[f] : Files[f][k].type = "CHANNEL" => \A i \in DOMAIN Files[f][k].objects :
    attribute(Files[f][k], Files[f][k].objects[i], "REPRESENTATION-CODE") # <<>>

Sound(f) == /\ f \in DOMAIN Files
            /\ NumberedFromOne(f) /\ OriginFirst(f) /\ WellsNamed(f) /\ AllWhole(f) /\ NoBlanks(f)
            /\ FramesName(f) /\ ChannelsCoded(f) /\ FramesBeforeRows(f)

(***************************************************************************)
(* The catalogue of a sound file whose data goes to directory dir.  The    *)
(* index of a frame is left out of the curves when the channels come       *)
(* first, and kept when the frame does.                                    *)
(***************************************************************************)
CurvesOf(f, k, frame, dir) ==
  LET names == attribute(Files[f][k], frame, "CHANNELS")
      before == \E j \in sets_of(f, k, "CHANNEL") : j < k
      skipped == IF before /\ attribute(Files[f][k], frame, "INDEX-TYPE") # <<>> THEN 1 ELSE 0
      curve(name) ==
        LET set == Files[f][CHOOSE j \in channel_sets(f, k, name) : TRUE]
            channel == set.objects[CHOOSE i \in named(set, name) : TRUE]
        IN [name |-> name, dimension |-> Product(attribute(set, channel, "DIMENSION")),
            path |-> [dir |-> dir, number |-> number_of(f, header_of(f, k)), name |-> name]]
  IN [i \in 1 .. Len(names) - skipped |-> curve(names[i + skipped])]

\* What a dataset is called: the ID of its logical file's header and a name.
title_of(f, k, name) ==
  LET header == Files[f][header_of(f, k)]
      ids == attribute(header, header.objects[1], "ID")
  IN [file_id |-> IF ids = <<>> THEN NoName ELSE [ids[1] EXCEPT !.padded = FALSE], name |-> name]

DatasetOf(f, k, frame, dir) ==
  LET spacing == attribute(Files[f][k], frame, "SPACING")
      range == Ranges[f][frame.name]
      turned == spacing # <<>> /\ spacing[1] < 0
  IN [name |-> title_of(f, k, frame.name), top |-> IF turned THEN range.max ELSE range.min,
      bottom |-> IF turned THEN range.min ELSE range.max,
      curves |-> CurvesOf(f, k, frame, dir)]

DatasetsOf(f, k, dir) ==
  LET set == Files[f][k]
  IN IF set.type = "FRAME" THEN [i \in DOMAIN set.objects |-> DatasetOf(f, k, set.objects[i], dir)]
     ELSE IF set.type \in {"EQUIPMENT", "TOOL"}
     THEN <<[name |-> title_of(f, k, [letters |-> set.type, padded |-> FALSE]), top |-> 0,
             bottom |-> Len(set.objects), curves |-> <<>>]>>
     ELSE <<>>

\* Places in a file, in order.
places(f, test(_)) == SelectSeq([k \in DOMAIN Files[f] |-> k], test)
WellsOf(f, dir) ==
  LET starts == places(f, LAMBDA k : k \in headers(f))
      its_datasets(h) == LET sets == places(f, LAMBDA k : k \in sets_with(f, h))
                         IN FlattenSeq([j \in DOMAIN sets |-> DatasetsOf(f, sets[j], dir)])
  IN [w \in DOMAIN starts |-> its_datasets(starts[w])]
=============================================================================
