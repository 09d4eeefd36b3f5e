-------------------------------- MODULE Addon -------------------------------
(***************************************************************************)
(* parseFile and what follows from it: the JavaScript thread of index.js   *)
(* and src/main.cc, the parser threads of EflrObjects, the sockets of      *)
(* ReqRep and the catalogue of Wells.                                      *)
(*                                                                         *)
(* Calls are numbered from 1; call c starts parser thread c, which has     *)
(* socket c.  A call may come while an earlier one goes on, unless the     *)
(* user waits: nothing in the code prevents it.                            *)
(***************************************************************************)
EXTENDS EflrObjects, Wells

CONSTANT Scripts    \* what users do: the files they parse, and whether they wait for each answer

VARIABLES
  script,      \* what the user does
  calls,       \* the calls so far: file, dir and status
  js,          \* where the JavaScript thread is, and the message it works on
  args,        \* _args of src/main.cc: what a reader may find in each of its strings
  clock,       \* the millisecond of the last call of parseFile that made a directory
  died,        \* whether an exception reached the event loop, which ends the process
  overlapped,  \* history: a call came while another went on
  raced,       \* history: the threads that had not read _args when a later call wrote it
  handled      \* history: the objects of each thread that eflr_data was given

js_vars == <<calls, js, args, clock, died, overlapped, raced, handled>>
vars == <<socket_vars, thread_vars, wells_vars, js_vars, script>>

Torn == "torn"       \* a string that another thread is writing
TornDir == -1
NoMessage == [sending_data_type |-> "none"]
Loop == [at |-> "loop", from |-> NoPeer, message |-> NoMessage]

ASSUME NamesAssumption == NoFile \notin DOMAIN Files /\ Torn \notin DOMAIN Files
ASSUME ScriptsAssumption ==
  \A s \in Scripts : /\ IsSequence(s.files) /\ DOMAIN s.files \subseteq Peers
                      /\ s.waits \in BOOLEAN

Init ==
  /\ SocketInit /\ ThreadInit /\ WellsInit
  /\ script \in Scripts
  /\ calls = <<>> /\ js = Loop
  /\ args = [fname |-> {NoFile}, data_dir |-> {0}]
  /\ clock = 0 /\ died = FALSE /\ overlapped = FALSE /\ raced = {}
  /\ handled = [t \in Peers |-> <<>>]

Running == ~exited /\ ~died
Open(c) == c \in DOMAIN calls /\ calls[c].status = "started"

-----------------------------------------------------------------------------
fresh_instance(c, dir) == [onEnd |-> c, wells |-> <<>>, numberOfWell |-> 0, dataDir |-> dir]

\* What every call of parseFile does first, at any time the event loop runs.
begin_call(c) == /\ Running /\ js.at = "loop"
                 /\ c = Len(calls) + 1 /\ c \in DOMAIN script.files
                 /\ script.waits => \A d \in DOMAIN calls : ~Open(d)
                 /\ overlapped' = (overlapped \/ \E d \in DOMAIN calls : Open(d))
                 /\ UNCHANGED <<socket_vars, thread_vars, script, died, handled,
                                setType, channels, file_number, file_id, answers>>

(***************************************************************************)
(* parseFile: a directory named by the time in milliseconds is made, and   *)
(* dlis_parse starts to copy the name of the file into _args.              *)
(***************************************************************************)
parseFile ==
  LET c == Len(calls) + 1
  IN /\ begin_call(c)
     /\ clock' = clock + 1
     /\ instance' = fresh_instance(c, clock')
     /\ calls' = Append(calls, [file |-> script.files[c], dir |-> clock', status |-> "started"])
     /\ args' = [args EXCEPT !.fname = @ \cup {script.files[c], Torn}]
     /\ raced' = raced \cup { t \in Peers : pc[t] \in {"created", "opening"} }
     /\ js' = [Loop EXCEPT !.at = "copy"]

\* In the millisecond of an earlier call mkdirSync throws, to the caller: the directory exists.
parseFile_same_millisecond ==
  LET c == Len(calls) + 1
  IN /\ begin_call(c)
     /\ clock > 0
     /\ instance' = fresh_instance(c, instance.dataDir)
     /\ calls' = Append(calls, [file |-> script.files[c], dir |-> clock, status |-> "failed"])
     /\ UNCHANGED <<clock, args, raced, js>>

\* dlis_parse: the second string ...
copy_data_dir ==
  LET c == Len(calls)
  IN /\ Running /\ js.at = "copy"
     /\ args' = [fname |-> {calls[c].file}, data_dir |-> args.data_dir \cup {calls[c].dir, TornDir}]
     /\ js' = [js EXCEPT !.at = "create"]
     /\ UNCHANGED <<socket_vars, thread_vars, wells_vars, script, calls, clock, died, overlapped,
                    raced, handled>>

\* Mutant of args_written: the thread is created before the strings are complete.
args_written_late(c) == args
args_written(c) == [args EXCEPT !.data_dir = {calls[c].dir}]

\* ... and pthread_create.
create_thread ==
  LET c == Len(calls)
  IN /\ Running /\ js.at = "create"
     /\ args' = args_written(c)
     /\ pc' = [pc EXCEPT ![c] = "created"]
     /\ js' = Loop
     /\ UNCHANGED <<socket_vars, dlis, exited, wells_vars, script, calls, clock, died, overlapped,
                    raced, handled>>

\* do_parse: the socket is connected, and the directory copied from _args ...
do_parse_begin(t) ==
  /\ Running /\ pc[t] = "created"
  /\ \E dir \in args.data_dir : dlis' = [dlis EXCEPT ![t].out_dir = dir]
  /\ pc' = [pc EXCEPT ![t] = "opening"]
  /\ UNCHANGED <<socket_vars, exited, wells_vars, js_vars, script>>

\* ... and the file opened by the name in _args; what is not a DLIS file ends the process too.
do_parse_open(t) ==
  /\ Running /\ pc[t] = "opening"
  /\ \E fname \in args.fname :
       IF fname \in DOMAIN Files
       THEN /\ dlis' = [dlis EXCEPT ![t].file = fname]
            /\ pc' = [pc EXCEPT ![t] = "parse"]
            /\ UNCHANGED exited
       ELSE exited' = TRUE /\ UNCHANGED <<dlis, pc>>
  /\ UNCHANGED <<socket_vars, wells_vars, js_vars, script>>

thread_step(t) == /\ Running /\ ThreadStep(t)
                  /\ UNCHANGED <<wells_vars, js_vars, script>>

-----------------------------------------------------------------------------
\* The I/O thread.
io_step(t) ==
  /\ Running
  /\ \/ pc[t] \notin {"none", "created", "closed"} /\ ~Contains(pipes, t) /\ attach(t)
     \/ Arrive(t)
     \/ pc[t] = "closed" /\ Contains(pipes, t) /\ pipe_terminated(t)
  /\ UNCHANGED <<thread_vars, wells_vars, js_vars, script>>

\* The event loop takes a request, or finds none.
on_readable ==
  /\ Running /\ js.at = "loop"
  /\ \/ /\ rep_recv
        /\ js' = [at |-> "reply", from |-> NextPeer, message |-> Head(arrived[NextPeer])]
     \/ rep_recv_none /\ UNCHANGED js
  /\ UNCHANGED <<thread_vars, wells_vars, script, calls, args, clock, died, overlapped, raced,
                 handled>>

\* socket.send, before the message is looked at.
on_message_reply ==
  /\ Running /\ js.at = "reply"
  /\ rep_send
  /\ js' = [js EXCEPT !.at = "handle"]
  /\ UNCHANGED <<thread_vars, wells_vars, script, calls, args, clock, died, overlapped, raced,
                 handled>>

\* The rest of the listener: the message is handled, or its handling throws.
on_message ==
  LET message == js.message
      call == instance.onEnd
  IN /\ Running /\ js.at = "handle" /\ survives(message)
     /\ handle(message)
     /\ calls' = IF message.sending_data_type = "ended"
                 THEN [calls EXCEPT ![call].status = "answered"] ELSE calls
     /\ handled' = IF message.sending_data_type = "_OBJECT"
                   THEN [handled EXCEPT ![js.from] =
                           Append(@, [set |-> message.set, name |-> message.name])]
                   ELSE handled
     /\ js' = Loop
     /\ UNCHANGED <<socket_vars, thread_vars, script, args, clock, died, overlapped, raced>>

on_message_throws ==
  /\ Running /\ js.at = "handle" /\ ~survives(js.message)
  /\ died' = TRUE
  /\ UNCHANGED <<socket_vars, thread_vars, wells_vars, script, calls, js, args, clock, overlapped,
                 raced, handled>>

JavaScript == \/ copy_data_dir \/ create_thread
              \/ on_readable \/ on_message_reply \/ on_message \/ on_message_throws
Parser(t) == do_parse_begin(t) \/ do_parse_open(t) \/ thread_step(t)

Next == \/ parseFile \/ parseFile_same_millisecond
        \/ JavaScript
        \/ \E t \in Peers : Parser(t) \/ io_step(t)

Spec == Init /\ [][Next]_vars

(***************************************************************************)
(* Each thread runs: a parser thread that is not blocked, the I/O thread   *)
(* for each peer, the event loop of JavaScript when it has something to    *)
(* do.  The user need not call.                                            *)
(***************************************************************************)
Fairness == /\ WF_vars(JavaScript)
            /\ \A t \in Peers : WF_vars(Parser(t)) /\ WF_vars(io_step(t))
FairSpec == Spec /\ Fairness

-----------------------------------------------------------------------------
Threads_at == {"none", "created", "opening", "parse", "reply", "ending", "closed"}
Statuses == {"started", "failed", "answered"}

\* Types, and where the threads and the sockets may be.
TypeOK ==
  /\ \A t \in Peers :
       /\ pc[t] \in Threads_at
       /\ dlis[t].file \in DOMAIN Files \cup {NoFile}
       /\ dlis[t].templt_read_idx \in -1 .. Len(dlis[t].templt)
       /\ dlis[t].attrib_value_cnt \in Nat
       /\ receiving_reply[t] \in BOOLEAN /\ replies[t] \in 0 .. 1
       /\ passed[t] \in Nat
  /\ pipes \in Seq(Peers) /\ IsInjective(pipes)
  /\ active \in 0 .. Len(pipes) /\ current \in 1 .. IF active = 0 THEN 1 ELSE active
  /\ sending_reply = (js.at = "reply") /\ current_out \in {NoPeer} \cup Peers
  /\ instance.numberOfWell \in Nat /\ instance.onEnd \in {NoCall} \cup DOMAIN calls
  /\ \A c \in DOMAIN calls : calls[c].status \in Statuses
  /\ js.at \in {"loop", "copy", "create", "reply", "handle"}
  /\ exited \in BOOLEAN /\ died \in BOOLEAN /\ overlapped \in BOOLEAN

(***************************************************************************)
(* JavaScript is given the objects of each file once, in their order,      *)
(* however many threads share its socket.  At the end of the file the last *)
(* one may be missing: when its template's last attribute was not read,    *)
(* nothing sends it.                                                       *)
(***************************************************************************)
ObjectsInOrder ==
  \A t \in Peers : dlis[t].file # NoFile =>
    LET all == Objects[dlis[t].file]
    IN /\ IsPrefix(handled[t], all)
       /\ pc[t] = "closed" =>
            IF dlis[t].parsing_obj_binn = NoObject THEN handled[t] = all
            ELSE handled[t] = Front(all)

(***************************************************************************)
(* An object that was sent when the last attribute of its template was     *)
(* read is handled while setType is the type of its own set.               *)
(***************************************************************************)
ObjectsUnderTheirSet ==
  js.at = "handle" /\ js.message.sending_data_type = "_OBJECT" /\ ~overlapped =>
    \/ js.message.set = setType
    \/ ~js.message.whole

\* The answer to a call, with what its reference is said of.
Described(wells) ==
  [w \in DOMAIN wells |-> [k \in DOMAIN wells[w].datasets |->
     LET dataset == wells[w].datasets[k]
     IN [name |-> dataset.name, top |-> dataset.top, bottom |-> dataset.bottom,
         curves |-> [i \in DOMAIN dataset.curves |->
                       [name |-> dataset.curves[i].name, dimension |-> dataset.curves[i].dimension,
                        path |-> dataset.curves[i].path]]]]]

(***************************************************************************)
(* A call that does not overlap another is answered with the catalogue of  *)
(* its own file, under its own directory, whatever files were parsed       *)
(* before it in the same process, and no stream is left open.              *)
(***************************************************************************)
RightAnswer(answer, call) ==
  /\ Described(answer.wells) = WellsOf(call.file, call.dir)
  /\ \A w \in DOMAIN answer.wells :
       /\ answer.wells[w].dir = call.dir
       /\ \A k \in DOMAIN answer.wells[w].datasets :
            answer.wells[w].datasets[k].streams # "open"
AnsweredWithItsWells ==
  [][ answers' # answers /\ ~overlapped =>
        LET answer == Last(answers')
            call == calls[answer.call]
        IN /\ Open(answer.call) /\ answers' = Append(answers, answer)
           /\ Sound(call.file) => RightAnswer(answer, call) ]_vars

(***************************************************************************)
(* The process ends by an exception only when calls overlapped or the file *)
(* that was being parsed is not sound.                                     *)
(***************************************************************************)
DiesOnlyFor ==
  died => \/ overlapped
          \/ \E c \in DOMAIN calls : Open(c) /\ ~Sound(calls[c].file)

\* What a file may hold that ends the process.
TooLong(sets) ==
  \E k \in DOMAIN sets : \E i \in DOMAIN sets[k].objects :
    Len(sets[k].objects[i].attributes) > Len(sets[k].labels)
WideTemplate(sets) == \E k \in DOMAIN sets : Len(sets[k].labels) > MAX_TEMPLT_OBJS
Unnamed(sets) ==
  \E k \in DOMAIN sets : \/ sets[k].type = NoType
                         \/ \E i \in DOMAIN sets[k].objects : sets[k].objects[i].name = NoName
Uncoded(sets) ==
  \E k \in DOMAIN sets :
    \/ \E i \in DOMAIN sets[k].rows : ~sets[k].rows[i].coded
    \/ \E i \in DOMAIN sets[k].objects : \E j \in DOMAIN sets[k].objects[i].attributes :
         WrongCode \in Range(sets[k].objects[i].attributes[j])
Fatal(sets) == TooLong(sets) \/ WideTemplate(sets) \/ Unnamed(sets) \/ Uncoded(sets)

(***************************************************************************)
(* It ends by exit(-1) only when a name was read while it was written, a   *)
(* file is missing or not a DLIS file, or what a thread reads has an       *)
(* object with more attributes than its template, a template with more     *)
(* than fit, a set without a type, an object without a name, a value or a  *)
(* channel with an unknown representation code, or a row whose frame is    *)
(* not in the thread's list.                                               *)
(***************************************************************************)
ExitsOnlyFor ==
  exited => \/ raced # {}
            \/ \E c \in DOMAIN calls : calls[c].file \notin DOMAIN Files
            \/ \E t \in Peers : dlis[t].file # NoFile /\ (Fatal(Files[dlis[t].file]) \/ Astray(t))

\* The list of frames has lost none that a row needs, when the frames come before the rows.
RowsFindTheirFrames ==
  \A t \in Peers : Astray(t) => ~FramesBeforeRows(dlis[t].file)
EndsOnlyFor == DiesOnlyFor /\ ExitsOnlyFor /\ RowsFindTheirFrames

(***************************************************************************)
(* A thread parses the file of its own call into that call's directory,    *)
(* unless a later call came before it had read _args.                      *)
(***************************************************************************)
OwnArgs ==
  \A t \in DOMAIN calls : t \notin raced =>
    /\ dlis[t].file # NoFile => dlis[t].file = calls[t].file
    /\ pc[t] \notin {"none", "created"} => dlis[t].out_dir = calls[t].dir

(***************************************************************************)
(* Every call that started comes to its end: its thread closes its socket, *)
(* and if no other call came meanwhile the user is called back.            *)
(***************************************************************************)
Answered(c) == \E i \in DOMAIN answers : answers[i].call = c
EveryCallEnds ==
  \A c \in Peers :
    Open(c) ~> \/ ~Running
               \/ pc[c] = "closed" /\ (overlapped \/ Answered(c))
=============================================================================
