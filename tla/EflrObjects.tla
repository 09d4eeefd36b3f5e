----------------------------- MODULE EflrObjects ----------------------------
(***************************************************************************)
(* The callbacks of node-addon/src/dlis.cc that collect the objects of     *)
(* explicitly formatted records and send them to JavaScript, and the       *)
(* parser thread around them: do_parse from its start to the message       *)
(* "ended".  One action per callback, with the part of parse() that goes   *)
(* with it; jscall is a request on the thread's socket and a wait for its  *)
(* reply.                                                                  *)
(*                                                                         *)
(* What a thread reads is the sequence of items of its file: a SET, an     *)
(* ATTRIB, an OBJECT, a VALUE, a ROW.  That these reach the callbacks      *)
(* whole and in order is the subject of DlisParse; of a row, which sends   *)
(* nothing, only the frame it goes to is kept: Catalog has the rest.       *)
(***************************************************************************)
EXTENDS ReqRep, Contents

CONSTANT MAX_TEMPLT_OBJS    \* the places for attributes of a template
ASSUME RoomForTemplate == MAX_TEMPLT_OBJS \in Nat

VARIABLES
  dlis,    \* the dlis_t of each thread: what the callbacks keep in it
  pc,      \* none, created, opening; parse, reply; ending, closed
  exited   \* whether a thread called exit(-1), which ends the process

thread_vars == <<dlis, pc, exited>>

NoFile == "none"
NoObject == [sending_data_type |-> "none"]
NoAttributes == [label \in {} |-> <<>>]

\* dlis_init; fields it leaves alone are taken as zero.  templt_write_idx is Len(templt).
dlis_init ==
  [file |-> NoFile, at |-> 1, out_dir |-> 0, seq_num |-> 0, parsing_set_type |-> "none",
   templt |-> <<>>, templt_read_idx |-> -1, attrib_label |-> "none", attrib_value_cnt |-> 0,
   parsing_obj_binn |-> NoObject, parsing_obj_values |-> <<>>,
   frames |-> <<>>, current_frame |-> 0]    \* the list's nodes, and which is current_frame; 0: NULL

ThreadInit == /\ dlis = [t \in Peers |-> dlis_init]
              /\ pc = [t \in Peers |-> "none"]
              /\ exited = FALSE

\* The item that parse() reads next.
AtItem(t, kind) == /\ pc[t] = "parse"
                   /\ dlis[t].at \in DOMAIN Items[dlis[t].file]
                   /\ Items[dlis[t].file][dlis[t].at].kind = kind
Item(t) == Items[dlis[t].file][dlis[t].at]

\* zmq_send and on to zmq_recv.
jscall(t, message, next) == /\ req_send(t, message)
                            /\ pc' = [pc EXCEPT ![t] = next]
no_jscall == UNCHANGED <<socket_vars, pc>>

\* exit(-1): the process ends.
exits == exited' = TRUE /\ no_jscall /\ UNCHANGED dlis

-----------------------------------------------------------------------------
\* The set's message goes out at once; an object that was not sent stays where it is.
on_eflr_component_set(t) ==
  /\ AtItem(t, "SET") /\ Item(t).type # NoType
  /\ dlis' = [dlis EXCEPT ![t].at = @ + 1, ![t].templt = <<>>, ![t].templt_read_idx = -1,
                          ![t].parsing_set_type = Item(t).type]
  /\ jscall(t, set_message(Item(t).type), "reply")
  /\ UNCHANGED exited

on_set_without_type(t) == AtItem(t, "SET") /\ Item(t).type = NoType /\ exits

\* eflr_set_template_object_queue: before the first object an ATTRIB belongs to the template.
on_template_attrib(t) ==
  /\ AtItem(t, "ATTRIB") /\ dlis[t].templt_read_idx < 0
  /\ Len(dlis[t].templt) < MAX_TEMPLT_OBJS
  /\ dlis' = [dlis EXCEPT ![t].at = @ + 1, ![t].templt = Append(@, Item(t).label)]
  /\ no_jscall /\ UNCHANGED exited

on_full_template(t) ==
  /\ AtItem(t, "ATTRIB") /\ dlis[t].templt_read_idx < 0
  /\ Len(dlis[t].templt) >= MAX_TEMPLT_OBJS
  /\ exits

path_of(d, name) == [dir |-> d.out_dir, number |-> d.seq_num, name |-> name]

(***************************************************************************)
(* A new object.  `set` and `whole` are history: the type of the set that  *)
(* holds it and whether it was sent when its last attribute was read.      *)
(***************************************************************************)
new_object(d, name) ==
  [sending_data_type |-> "_OBJECT", seq_num |-> d.seq_num, name |-> name,
   path |-> IF d.parsing_set_type = "CHANNEL" THEN path_of(d, name) ELSE NoPath,
   attributes |-> NoAttributes, set |-> d.parsing_set_type, whole |-> FALSE]

no_frame == [seq_num |-> 0, name |-> NoName, index_min |-> 0, index_max |-> 0]
\* The node of a frame: what the message "ended" will say of it.
frame_node(d, name) == [seq_num |-> d.seq_num, name |-> name,
                        index_min |-> Ranges[d.file][name].min,
                        index_max |-> Ranges[d.file][name].max]

\* Mutant of unsent: what was not sent is forgotten.
unsent_dropped(d) == NoObject
\* The object before, when its last attribute did not send it.
unsent(d) == d.parsing_obj_binn

\* A new node goes behind current_frame, whatever the list has there.
with_frame(d, name) ==
  [d EXCEPT !.frames = Append(SubSeq(@, 1, d.current_frame), frame_node(d, name)),
            !.current_frame = @ + 1]

on_eflr_component_object(t) ==
  LET name == Item(t).name
      d == dlis[t]
      before == unsent(d)
      placed == IF d.parsing_set_type = "FRAME" THEN with_frame(d, name) ELSE d
  IN /\ AtItem(t, "OBJECT") /\ name # NoName
     /\ dlis' = [dlis EXCEPT ![t] = [placed EXCEPT
          !.at = @ + 1, !.templt_read_idx = 0, !.parsing_obj_binn = new_object(d, name)]]
     /\ IF before # NoObject THEN jscall(t, before, "reply") ELSE no_jscall
     /\ UNCHANGED exited

on_object_without_name(t) == AtItem(t, "OBJECT") /\ Item(t).name = NoName /\ exits

\* Mutant of is_last_attr: the template's last attribute is counted from 0.
is_last_attr_early(d, read_idx) == read_idx >= Len(d.templt) - 1
\* eflr_set_template_is_last_attr, after the attribute was dequeued.
is_last_attr(d, read_idx) == read_idx >= Len(d.templt)

whole(object) == IF object = NoObject THEN object ELSE [object EXCEPT !.whole = TRUE]

\* An attribute of an object, with its template: the label, and what the item says of its values.
on_eflr_component_attrib(t) ==
  LET d == dlis[t]
      read_idx == d.templt_read_idx + 1
      count == Item(t).count
      sends == count = 0 /\ is_last_attr(d, read_idx)
  IN /\ AtItem(t, "ATTRIB") /\ 0 <= d.templt_read_idx /\ d.templt_read_idx < Len(d.templt)
     /\ dlis' = [dlis EXCEPT
          ![t].at = @ + 1, ![t].templt_read_idx = read_idx,
          ![t].attrib_label = d.templt[read_idx], ![t].attrib_value_cnt = count,
          ![t].parsing_obj_binn = IF sends THEN NoObject ELSE @]
     /\ IF sends THEN jscall(t, whole(d.parsing_obj_binn), "reply") ELSE no_jscall
     /\ UNCHANGED exited

\* eflr_set_template_object_get: the object has more attributes than the template.
on_index_out_of_bound(t) ==
  /\ AtItem(t, "ATTRIB") /\ dlis[t].templt_read_idx >= Len(dlis[t].templt)
  /\ exits

\* binn_object_set_object: a key that the object has already keeps its value.
with_attribute(object, label, values) ==
  [object EXCEPT !.attributes = @ @@ (label :> values)]

(***************************************************************************)
(* A value: it goes to the list of the attribute's values; with the last   *)
(* one the list goes to the object and, if the attribute is the last of    *)
(* the template, the object to JavaScript.  A sequence number of 2 or more *)
(* makes the last node of the list of frames current: in a file that       *)
(* starts with it, the first node, as it was.                              *)
(***************************************************************************)
on_eflr_component_attrib_value(t) ==
  LET d == dlis[t]
      value == Item(t).value
      left == d.attrib_value_cnt - 1
      values == Append(d.parsing_obj_values, value)
      object == with_attribute(d.parsing_obj_binn, d.attrib_label, values)
      sends == left <= 0 /\ is_last_attr(d, d.templt_read_idx)
      numbers == d.parsing_set_type = "FILE-HEADER" /\ d.attrib_label = "SEQUENCE-NUMBER"
      follows == numbers /\ value > 1
      frames == IF follows /\ d.frames = <<>> THEN <<no_frame>> ELSE d.frames
  IN /\ AtItem(t, "VALUE") /\ value # WrongCode
     /\ dlis' = [dlis EXCEPT
          ![t].at = @ + 1, ![t].attrib_value_cnt = left,
          ![t].seq_num = IF numbers THEN value ELSE @,
          ![t].frames = frames, ![t].current_frame = IF follows THEN Len(frames) ELSE @,
          ![t].parsing_obj_values = IF left <= 0 THEN <<>> ELSE values,
          ![t].parsing_obj_binn = IF sends THEN NoObject ELSE IF left <= 0 THEN object ELSE @]
     /\ IF sends THEN jscall(t, whole(object), "reply") ELSE no_jscall
     /\ UNCHANGED exited

\* parse_value and serialize_list_add: no type has this representation code, or nothing reads it.
on_wrong_repcode(t) == AtItem(t, "VALUE") /\ Item(t).value = WrongCode /\ exits

-----------------------------------------------------------------------------
\* The nodes of the list that a row of this name may go to: the first one is taken.
frames_named(d, name) ==
  { i \in DOMAIN d.frames : d.frames[i].seq_num = d.seq_num /\ d.frames[i].name = name }

\* A row becomes its frame's, which is current_frame from now on; an end of data unsets it.
on_iflr_header(t) ==
  LET d == dlis[t]
      row == Item(t).row
      its == frames_named(d, row.frame)
  IN /\ AtItem(t, "ROW") /\ row.coded
     /\ row = end_of_data \/ its # {}
     /\ \E i \in IF row = end_of_data THEN {0} ELSE { j \in its : \A k \in its : j <= k } :
          dlis' = [dlis EXCEPT ![t].at = @ + 1, ![t].current_frame = i]
     /\ no_jscall /\ UNCHANGED exited

\* A row at hand whose frame is not in the list.
Astray(t) == /\ AtItem(t, "ROW") /\ Item(t).row # end_of_data
             /\ frames_named(dlis[t], Item(t).row.frame) = {}
on_frame_missing(t) == Astray(t) /\ exits
\* parse_value of a sample: the channel has a representation code that no type has.
on_wrong_channel(t) == AtItem(t, "ROW") /\ ~Item(t).row.coded /\ ~Astray(t) /\ exits

(***************************************************************************)
(* The end of the file: the message "ended" with the list of frames.  It   *)
(* starts with the frame inside dlis_t, also when the file has none.  An   *)
(* object that was not sent is lost.                                       *)
(***************************************************************************)
reported_frames(d) == IF d.frames = <<>> THEN <<no_frame>> ELSE d.frames
finish_file(t) ==
  /\ pc[t] = "parse" /\ dlis[t].at > Len(Items[dlis[t].file])
  /\ jscall(t, ended_message(reported_frames(dlis[t])), "ending")
  /\ UNCHANGED <<dlis, exited>>

\* zmq_recv returns: parsing goes on, or the thread closes its socket and ends.
on_reply(t) ==
  /\ pc[t] \in {"reply", "ending"}
  /\ req_recv(t)
  /\ pc' = [pc EXCEPT ![t] = IF pc[t] = "reply" THEN "parse" ELSE "closed"]
  /\ UNCHANGED <<dlis, exited>>

ThreadStep(t) ==
  \/ on_eflr_component_set(t) \/ on_template_attrib(t) \/ on_eflr_component_object(t)
  \/ on_eflr_component_attrib(t) \/ on_eflr_component_attrib_value(t) \/ on_iflr_header(t)
  \/ on_set_without_type(t) \/ on_full_template(t) \/ on_object_without_name(t)
  \/ on_index_out_of_bound(t) \/ on_wrong_repcode(t)
  \/ on_frame_missing(t) \/ on_wrong_channel(t)
  \/ finish_file(t) \/ on_reply(t)
=============================================================================
