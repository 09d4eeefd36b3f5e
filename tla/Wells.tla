-------------------------------- MODULE Wells -------------------------------
(***************************************************************************)
(* The catalogue that index.js builds from the messages of the parser:     *)
(* wells (one per logical file), their datasets (one per frame, and one    *)
(* per set of EQUIPMENT or TOOL) and the curves of these.  One operator    *)
(* per case of eflr_data, one for the message "ended", and the condition   *)
(* under which each throws a TypeError.                                    *)
(*                                                                         *)
(* The state is the module variables of index.js.  Only attributes that    *)
(* decide something are kept; units, descriptions, steps and types of      *)
(* values are not.  An object identifier, the string of obname2Str, is the *)
(* pair of the sequence number and the name; a name stands for origin,     *)
(* copy number and ident, and may be padded with blanks.  A dataset is     *)
(* called by the ID of its file and its own name, kept as a pair; NoName   *)
(* stands for the empty string.  A path is                                 *)
(* relative to userInfo.dataPath, which is the same in all calls.          *)
(***************************************************************************)
EXTENDS Integers, Sequences, SequencesExt, TLC, Messages

VARIABLES
  instance,     \* onEnd: the call to be answered; wells, numberOfWell, dataDir
  setType,      \* the type of the last set
  channels,     \* [sequence numbers -> [identifiers -> CHANNEL objects]]
  file_number,  \* seq_num of index.js
  file_id,      \* the ID of the last FILE-HEADER
  answers       \* history: the calls of onEnd, with what they were given

wells_vars == <<instance, setType, channels, file_number, file_id, answers>>

NoCall == 0
NoId == <<0, NoName>>
Tools == {"EQUIPMENT", "TOOL"}

WellsInit ==
  /\ instance = [onEnd |-> NoCall, wells |-> <<>>, numberOfWell |-> 0, dataDir |-> 0]
  /\ setType = "none" /\ channels = [n \in {} |-> <<>>] /\ file_number = 0 /\ file_id = NoName
  /\ answers = <<>>

-----------------------------------------------------------------------------
trim(name) == [name EXCEPT !.padded = FALSE]
trimmed(object) == [object EXCEPT !.name = trim(@)]

\* obname2Str: a sequence number of 0, or none, is that of the file being read.
id_of(number, name) == <<IF number = 0 THEN file_number ELSE number, name>>

has(object, label) == label \in DOMAIN object.attributes
values_of(object, label) == object.attributes[label]
first_of(object, label, default) == IF has(object, label) THEN values_of(object, label)[1] ELSE default

\* instance.wells[instance.numberOfWell - 1]
has_well == instance.numberOfWell \in DOMAIN instance.wells
datasets == instance.wells[instance.numberOfWell].datasets
with_datasets(new) == [instance EXCEPT !.wells[instance.numberOfWell].datasets = new]

\* channels[seq_num]
file_known == file_number \in DOMAIN channels
file_channels == channels[file_number]

-----------------------------------------------------------------------------
titled(name) == [file_id |-> file_id, name |-> name]

\* The dataset of a set of EQUIPMENT or TOOL; its streams write files named by the type alone.
tool_dataset(type) ==
  LET name == [letters |-> type, padded |-> FALSE]
  IN [id |-> <<0, name>>, name |-> titled(name), direction |-> "INCREASING", top |-> 0, bottom |-> 0,
      curves |-> <<>>, streams |-> "open", dir |-> instance.dataDir]

\* Mutant of on_set: the type of a set without a dataset of its own is not noted.
on_set_of_tools(type) ==
  /\ setType' = IF type = "ZONE" THEN setType ELSE type
  /\ instance' = IF type \in Tools THEN with_datasets(Append(datasets, tool_dataset(type)))
                 ELSE instance
  /\ UNCHANGED <<channels, file_number, file_id, answers>>

on_set(type) ==
  /\ setType' = type
  /\ instance' = IF type \in Tools THEN with_datasets(Append(datasets, tool_dataset(type)))
                 ELSE instance
  /\ UNCHANGED <<channels, file_number, file_id, answers>>
set_throws(type) == type \in Tools /\ ~has_well

\* Mutant of fresh_channels: the channels of an earlier file stay.
kept_channels(n) == IF n \in DOMAIN channels THEN channels[n] ELSE [i \in {} |-> <<>>]
fresh_channels(n) == [i \in {} |-> <<>>]

\* Mutant of id_given: without an ID the one before stays.
id_kept(object) == trim(first_of(object, "ID", file_id))
\* The ID of a header; without one, the empty string.
id_given(object) == trim(first_of(object, "ID", NoName))

on_file_header(object) ==
  LET n == values_of(object, "SEQUENCE-NUMBER")[1]
  IN /\ file_number' = n
     /\ channels' = (n :> fresh_channels(n)) @@ channels
     /\ file_id' = id_given(object)
     /\ instance' = [instance EXCEPT !.numberOfWell = @ + 1]
     /\ UNCHANGED <<setType, answers>>
file_header_throws(object) == ~has(object, "SEQUENCE-NUMBER")

well_wanted == Len(instance.wells) < instance.numberOfWell

\* Only the first ORIGIN object of a logical file makes a well, and is asked for its name.
on_origin(object) ==
  /\ instance' = IF well_wanted
                 THEN [instance EXCEPT !.wells = Append(@, [datasets |-> <<>>, dir |-> 0])]
                 ELSE instance
  /\ UNCHANGED <<setType, channels, file_number, file_id, answers>>
\* trim() of a WELL-NAME that is not a text.
origin_throws(object) ==
  well_wanted /\ has(object, "WELL-NAME") /\ values_of(object, "WELL-NAME")[1] \notin Texts

-----------------------------------------------------------------------------
direction_of(frame) ==
  IF has(frame, "SPACING")
  THEN IF values_of(frame, "SPACING")[1] < 0 THEN "DECREASING" ELSE "INCREASING"
  ELSE first_of(frame, "DIRECTION", "INCREASING")

\* The product of the values of DIMENSION.
dimension_of(channel) ==
  IF has(channel, "DIMENSION") THEN FoldSeq(LAMBDA x, y : x * y, 1, values_of(channel, "DIMENSION"))
  ELSE 1

curve_of(id, name, path, dimension) == [id |-> id, name |-> name, path |-> path,
                                        dimension |-> dimension]
\* The channels are there: the curves are theirs, and the index is not a curve.
curves_from_channels(frame) ==
  LET names == values_of(frame, "CHANNELS")
      curve(i) == LET channel == file_channels[id_of(0, names[i])]
                  IN curve_of(NoId, names[i], channel.path, dimension_of(channel))
      skipped == IF has(frame, "INDEX-TYPE") THEN 1 ELSE 0
  IN [i \in 1 .. Len(names) - skipped |-> curve(i + skipped)]

\* They are not yet: the curves wait for them, that of the index too.
curves_to_come(frame) ==
  LET names == values_of(frame, "CHANNELS")
  IN [i \in DOMAIN names |-> curve_of(id_of(0, names[i]), names[i], NoPath, 1)]

on_frame(frame) ==
  LET direction == direction_of(frame)
      min == first_of(frame, "INDEX-MIN", 0)
      max == first_of(frame, "INDEX-MAX", 0)
      dataset == [id |-> id_of(frame.seq_num, frame.name), name |-> titled(frame.name),
                  direction |-> direction,
                  top |-> IF direction = "DECREASING" THEN max ELSE min,
                  bottom |-> IF direction = "DECREASING" THEN min ELSE max,
                  curves |-> IF DOMAIN file_channels # {} THEN curves_from_channels(frame)
                             ELSE curves_to_come(frame),
                  streams |-> "none", dir |-> instance.dataDir]
  IN /\ instance' = with_datasets(Append(datasets, dataset))
     /\ UNCHANGED <<setType, channels, file_number, file_id, answers>>

(***************************************************************************)
(* channels[seq_num], CHANNELS and the well must be there; when some       *)
(* channel is, each one the frame names must be, under the name as it is   *)
(* written in the frame, with a REPRESENTATION-CODE unless it is the       *)
(* index.                                                                  *)
(***************************************************************************)
frame_throws(frame) ==
  \/ ~file_known \/ ~has(frame, "CHANNELS") \/ ~has_well
  \/ /\ DOMAIN file_channels # {}
     /\ LET names == values_of(frame, "CHANNELS")
        IN \E i \in DOMAIN names :
             LET id == id_of(0, names[i])
             IN \/ id \notin DOMAIN file_channels
                \/ /\ ~has(file_channels[id], "REPRESENTATION-CODE")
                   /\ ~(i = 1 /\ has(frame, "INDEX-TYPE"))

-----------------------------------------------------------------------------
\* A curve that waits for this channel.
filled(curve, channel) ==
  IF curve.id = id_of(channel.seq_num, channel.name)
  THEN [curve EXCEPT !.path = channel.path, !.dimension = dimension_of(channel)] ELSE curve

on_channel(channel) ==
  /\ channels' = [channels EXCEPT ![file_number] =
                    (id_of(channel.seq_num, channel.name) :> channel) @@ @]
  /\ instance' = with_datasets([k \in DOMAIN datasets |->
       [datasets[k] EXCEPT !.curves = [i \in DOMAIN @ |-> filled(@[i], channel)]]])
  /\ UNCHANGED <<setType, file_number, file_id, answers>>

\* NoPath: the object was not made in a CHANNEL set and has no path.
channel_throws(channel) ==
  \/ channel.path = NoPath \/ ~file_known \/ ~has_well
  \/ /\ ~has(channel, "REPRESENTATION-CODE")
     /\ \E k \in DOMAIN datasets : \E i \in DOMAIN datasets[k].curves :
          datasets[k].curves[i].id = id_of(channel.seq_num, channel.name)

\* A line in each file of the last dataset.
on_tool(object) ==
  /\ instance' = with_datasets([datasets EXCEPT ![Len(datasets)].bottom = @ + 1])
  /\ UNCHANGED <<setType, channels, file_number, file_id, answers>>
\* There is no dataset, or it is a frame's, whose curves have no stream.
tool_throws(object) ==
  \/ ~has_well \/ datasets = <<>>
  \/ Last(datasets).streams = "none" /\ Last(datasets).curves # <<>>

on_other(object) == UNCHANGED wells_vars

-----------------------------------------------------------------------------
reported(dataset, frame) ==
  IF dataset.direction = "DECREASING"
  THEN [dataset EXCEPT !.top = frame.index_max, !.bottom = frame.index_min]
  ELSE [dataset EXCEPT !.top = frame.index_min, !.bottom = frame.index_max]

\* A dataset at the end: its streams are closed, its range is that of its frame's rows.
finished(dataset, frames) ==
  LET its == SelectSeq(frames, LAMBDA f : dataset.id = id_of(f.seq_num, f.name))
      closed == [dataset EXCEPT !.streams = IF @ = "open" THEN "closed" ELSE @]
  IN IF its = <<>> THEN closed ELSE reported(closed, Last(its))

on_ended(frames) ==
  LET wells == [w \in DOMAIN instance.wells |->
                  [datasets |-> [k \in DOMAIN instance.wells[w].datasets |->
                                   finished(instance.wells[w].datasets[k], frames)],
                   dir |-> instance.dataDir]]
  IN /\ instance' = [instance EXCEPT !.wells = wells]
     /\ answers' = Append(answers, [call |-> instance.onEnd, wells |-> wells])
     /\ UNCHANGED <<setType, channels, file_number, file_id>>

-----------------------------------------------------------------------------
\* The types that eflr_data tells apart; nothing is done for objects of the others.
Handled == {"FILE-HEADER", "ORIGIN", "FRAME", "CHANNEL"} \cup Tools

\* eflr_data of an object: what is done is decided by setType.
on_object(object) ==
  \/ setType = "FILE-HEADER" /\ on_file_header(object)
  \/ setType = "ORIGIN" /\ on_origin(object)
  \/ setType = "FRAME" /\ on_frame(object)
  \/ setType = "CHANNEL" /\ on_channel(object)
  \/ setType \in Tools /\ on_tool(object)
  \/ setType \notin Handled /\ on_other(object)

object_throws(object) ==
  \/ setType = "FILE-HEADER" /\ file_header_throws(object)
  \/ setType = "ORIGIN" /\ origin_throws(object)
  \/ setType = "FRAME" /\ frame_throws(object)
  \/ setType = "CHANNEL" /\ channel_throws(object)
  \/ setType \in Tools /\ tool_throws(object)

\* The message is handled without a TypeError.
survives(message) ==
  /\ message.sending_data_type = "_SET" => ~set_throws(message.type)
  /\ message.sending_data_type = "_OBJECT" => ~object_throws(trimmed(message))

\* The listener of "message", after it has replied.
handle(message) ==
  \/ message.sending_data_type = "_SET" /\ on_set(message.type)
  \/ message.sending_data_type = "_OBJECT" /\ on_object(trimmed(message))
  \/ message.sending_data_type = "ended" /\ on_ended(message.frames)
=============================================================================
