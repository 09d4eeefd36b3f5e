------------------------------- MODULE Messages -----------------------------
(***************************************************************************)
(* The names and the messages that the parser thread (EflrObjects) and     *)
(* JavaScript (Wells) share.                                               *)
(***************************************************************************)
CONSTANT Texts    \* the values that are texts

NoName == [letters |-> "none", padded |-> FALSE]
NoPath == [dir |-> 0, number |-> 0, name |-> NoName]

set_message(type) == [sending_data_type |-> "_SET", type |-> type]
ended_message(frames) == [sending_data_type |-> "ended", frames |-> frames]
=============================================================================
