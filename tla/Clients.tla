------------------------------- MODULE Clients ------------------------------
(***************************************************************************)
(* The sockets of ReqRep under their use by the program, whatever is in    *)
(* the messages: each parser thread connects, sends requests and waits for *)
(* their replies (jscall), and closes its socket (do_parse); JavaScript    *)
(* replies to each request that it takes (index.js).  A peer that closed   *)
(* may connect again: the thread of a later call.                          *)
(*                                                                         *)
(* The program is one of Calls: the refinement says that each thread is    *)
(* answered although the event loop takes requests of all from one socket. *)
(***************************************************************************)
EXTENDS ReqRep

VARIABLE sender    \* dlis.sender of each peer: closed or open

vars == <<socket_vars, sender>>

Request == "request"

Init == SocketInit /\ sender = [p \in Peers |-> "closed"]

-----------------------------------------------------------------------------
\* initSocket: zmq_socket and zmq_connect; the connection of an earlier socket is gone.
initSocket(p) ==
  /\ sender[p] = "closed" /\ ~Contains(pipes, p)
  /\ sender' = [sender EXCEPT ![p] = "open"]
  /\ UNCHANGED socket_vars

\* jscall: zmq_send, then zmq_recv.
jscall_send(p) == sender[p] = "open" /\ req_send(p, Request) /\ UNCHANGED sender
jscall_recv(p) == sender[p] = "open" /\ req_recv(p) /\ UNCHANGED sender

\* The end of do_parse.
zmq_close(p) ==
  /\ sender[p] = "open" /\ ~receiving_reply[p] /\ Contains(pipes, p)
  /\ sender' = [sender EXCEPT ![p] = "closed"]
  /\ UNCHANGED socket_vars

\* The I/O thread, for a peer.
accept(p) == sender[p] = "open" /\ ~Contains(pipes, p) /\ attach(p)
hang_up(p) == sender[p] = "closed" /\ Contains(pipes, p) /\ pipe_terminated(p)
io_step(p) == (accept(p) \/ Arrive(p) \/ hang_up(p)) /\ UNCHANGED sender

\* The listener of index.js: a request is taken and replied to.
on_message == (rep_recv \/ rep_recv_none \/ rep_send) /\ UNCHANGED sender

Next == \/ on_message
        \/ \E p \in Peers : \/ initSocket(p) \/ jscall_send(p) \/ jscall_recv(p) \/ zmq_close(p)
                            \/ io_step(p)

Spec == Init /\ [][Next]_vars

\* The event loop, the I/O thread and a thread whose reply is there run.  None needs to send.
Fairness == /\ WF_vars(on_message)
            /\ \A p \in Peers : WF_vars(io_step(p)) /\ WF_vars(jscall_recv(p))
FairSpec == Spec /\ Fairness

-----------------------------------------------------------------------------
(***************************************************************************)
(* Type invariant.  The pipes are those of connected peers, each once; the *)
(* index is that of an active one, or the first; the server owes a reply   *)
(* just when it knows to whom.                                             *)
(***************************************************************************)
TypeOK ==
  /\ receiving_reply \in [Peers -> BOOLEAN] /\ replies \in [Peers -> 0 .. 1]
  /\ on_the_way \in [Peers -> Seq({Request})] /\ arrived \in [Peers -> Seq({Request})]
  /\ pipes \in Seq(Peers) /\ IsInjective(pipes)
  /\ active \in 0 .. Len(pipes) /\ current \in 1 .. IF active = 0 THEN 1 ELSE active
  /\ current_out \in Peers \cup {NoPeer} /\ sending_reply = (current_out # NoPeer)
  /\ passed \in [Peers -> Nat] /\ sender \in [Peers -> {"closed", "open"}]

(***************************************************************************)
(* Each thread's exchanges are calls, and each call returns: the fairness  *)
(* of one event loop becomes fairness to each thread.                      *)
(***************************************************************************)
call_of(p) == IF ~receiving_reply[p] THEN "idle"
              ELSE IF replies[p] = 0 THEN "asked" ELSE "answered"
AbstractCalls == INSTANCE Calls WITH call <- [p \in Peers |-> call_of(p)]
ImplementsCalls == AbstractCalls!Spec
=============================================================================
