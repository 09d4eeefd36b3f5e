-------------------------------- MODULE ReqRep ------------------------------
(***************************************************************************)
(* The request/reply sockets of libzmq, as the add-on and index.js use     *)
(* them: a REQ socket per parser thread (req.cpp), connected to the one    *)
(* REP socket of JavaScript (rep.cpp over router.cpp), which takes         *)
(* requests from its pipes by fair queueing (fq.cpp).                      *)
(*                                                                         *)
(* A request is a message of the program; a reply is always the number 1   *)
(* that index.js sends.  The frames around a message (the empty            *)
(* delimiter, the routing id) are left out, and so is the order in which   *)
(* the I/O thread moves the bytes of different peers: Arrive is one step   *)
(* per request, taken at any time.  High water marks are never reached:    *)
(* a peer has one message in its pipe.                                     *)
(***************************************************************************)
EXTENDS Integers, Sequences, SequencesExt

CONSTANT Peers    \* the sockets that may connect, one per parser thread

VARIABLES
  receiving_reply,   \* req_t::receiving_reply of each peer
  on_the_way,        \* requests written by each peer that the I/O thread still carries
  arrived,           \* requests in the pipe of each peer at the REP side
  replies,           \* the number of replies on the way to each peer
  pipes, active, current,   \* fq_t: the first `active` pipes may hold requests
  sending_reply,     \* rep_t::sending_reply
  current_out,       \* router_t::current_out: the peer that the reply goes to
  passed             \* history: requests of others taken since the request of each arrived

req_vars == <<receiving_reply, on_the_way, replies>>
fq_vars == <<pipes, active, current>>
rep_vars == <<arrived, fq_vars, sending_reply, current_out, passed>>
socket_vars == <<req_vars, rep_vars>>

NoPeer == 0

ASSUME PeersAssumption == Peers \subseteq Nat \ {NoPeer} /\ IsFiniteSet(Peers)

SocketInit ==
  /\ receiving_reply = [p \in Peers |-> FALSE]
  /\ on_the_way = [p \in Peers |-> <<>>] /\ arrived = [p \in Peers |-> <<>>]
  /\ replies = [p \in Peers |-> 0]
  /\ pipes = <<>> /\ active = 0 /\ current = 1
  /\ sending_reply = FALSE /\ current_out = NoPeer
  /\ passed = [p \in Peers |-> 0]

-----------------------------------------------------------------------------
\* array_t::swap.  Positions count from 1 here, from 0 in the code.
Swapped(s, i, j) == [s EXCEPT ![i] = s[j], ![j] = s[i]]
PositionOf(p) == CHOOSE i \in DOMAIN pipes : pipes[i] = p

\* fq_t::attach, when the I/O thread has accepted the connection of p.
attach(p) ==
  /\ pipes' = Swapped(Append(pipes, p), active + 1, Len(pipes) + 1)
  /\ active' = active + 1
  /\ UNCHANGED <<current, arrived, sending_reply, current_out, passed, req_vars>>

\* array_t::erase: the last item takes the place of the one that goes.
Erased(s, i) == [k \in 1 .. Len(s) - 1 |-> IF k = i THEN Last(s) ELSE s[k]]

\* fq_t::pipe_terminated
pipe_terminated(p) ==
  LET i == PositionOf(p)
  IN /\ IF i <= active
        THEN /\ pipes' = Erased(Swapped(pipes, i, active), active)
             /\ active' = active - 1
             /\ current' = IF current = active THEN 1 ELSE current
        ELSE pipes' = Erased(pipes, i) /\ UNCHANGED <<active, current>>
     /\ UNCHANGED <<arrived, sending_reply, current_out, passed, req_vars>>

\* Mutant of Arrive: the REP side is not told of the request.
Arrive_unnoticed(p) ==
  /\ on_the_way[p] # <<>> /\ Contains(pipes, p)
  /\ arrived' = [arrived EXCEPT ![p] = Append(@, Head(on_the_way[p]))]
  /\ on_the_way' = [on_the_way EXCEPT ![p] = Tail(@)]
  /\ passed' = [passed EXCEPT ![p] = 0]
  /\ UNCHANGED <<fq_vars, sending_reply, current_out, receiving_reply, replies>>

\* The request of a peer is in its pipe; fq_t::activated when the pipe was found empty before.
Arrive(p) ==
  /\ on_the_way[p] # <<>> /\ Contains(pipes, p)
  /\ arrived' = [arrived EXCEPT ![p] = Append(@, Head(on_the_way[p]))]
  /\ on_the_way' = [on_the_way EXCEPT ![p] = Tail(@)]
  /\ passed' = [passed EXCEPT ![p] = 0]
  /\ IF PositionOf(p) > active
     THEN /\ pipes' = Swapped(pipes, PositionOf(p), active + 1)
          /\ active' = active + 1
     ELSE UNCHANGED <<pipes, active>>
  /\ UNCHANGED <<current, sending_reply, current_out, receiving_reply, replies>>

(***************************************************************************)
(* The loop of fq_t::recvpipe: as long as the current pipe is empty it is  *)
(* moved behind the active ones.  At most one round per pipe.              *)
(***************************************************************************)
\* Mutant of Deactivated: the current pipe is not the first again when it was the last.
Deactivated_kept(q) ==
  [pipes |-> Swapped(q.pipes, q.current, q.active), active |-> q.active - 1, current |-> q.current]
Deactivated(q) ==
  LET last == q.active
  IN [pipes |-> Swapped(q.pipes, q.current, last), active |-> last - 1,
      current |-> IF q.current = last THEN 1 ELSE q.current]
is_empty(q) == q.active > 0 /\ arrived[q.pipes[q.current]] = <<>>
queue == [pipes |-> pipes, active |-> active, current |-> current]
round[i \in 0 .. Len(pipes)] ==
  IF i = 0 THEN queue
  ELSE IF is_empty(round[i - 1]) THEN Deactivated(round[i - 1]) ELSE round[i - 1]
Searched == round[Len(pipes)]

\* Mutant of next_pipe: the same pipe is read again.
next_pipe_same(q) == q.current
\* current = (current + 1) % active
next_pipe(q) == IF q.current = q.active THEN 1 ELSE q.current + 1

\* Whether a request is there: rep_t::xrecv would return it.
HasRequest == Searched.active > 0
NextPeer == Searched.pipes[Searched.current]

\* rep_t::xrecv takes the request of the next pipe and notes where the reply goes.
rep_recv ==
  LET q == Searched
      p == NextPeer
  IN /\ ~sending_reply /\ HasRequest
     /\ arrived' = [arrived EXCEPT ![p] = Tail(@)]
     /\ pipes' = q.pipes /\ active' = q.active /\ current' = next_pipe(q)
     /\ sending_reply' = TRUE /\ current_out' = p
     /\ passed' = [o \in Peers |-> IF o # p /\ arrived[o] # <<>> THEN passed[o] + 1 ELSE 0]
     /\ UNCHANGED req_vars

\* rep_t::xrecv when no request is there: EAGAIN, every pipe is set aside.
rep_recv_none ==
  /\ ~sending_reply /\ active > 0 /\ ~HasRequest
  /\ pipes' = Searched.pipes /\ active' = 0 /\ current' = Searched.current
  /\ UNCHANGED <<arrived, sending_reply, current_out, passed, req_vars>>

\* Mutant of rep_send: the reply goes to the pipe that is current now.
rep_send_current ==
  /\ sending_reply
  /\ replies' = [p \in Peers |-> IF p = pipes[current] THEN replies[p] + 1 ELSE replies[p]]
  /\ sending_reply' = FALSE /\ current_out' = NoPeer
  /\ UNCHANGED <<arrived, fq_vars, passed, receiving_reply, on_the_way>>

\* rep_t::xsend; router_t::xsend drops the reply when the pipe is gone.
rep_send ==
  /\ sending_reply
  /\ replies' = [p \in Peers |->
                   IF p = current_out /\ Contains(pipes, p) THEN replies[p] + 1 ELSE replies[p]]
  /\ sending_reply' = FALSE /\ current_out' = NoPeer
  /\ UNCHANGED <<arrived, fq_vars, passed, receiving_reply, on_the_way>>

\* req_t::xsend.  While it is receiving a reply it would fail with EFSM: see OneExchange.
\* Replies that are there when a request starts are dropped.
req_send(p, message) ==
  /\ ~receiving_reply[p]
  /\ on_the_way' = [on_the_way EXCEPT ![p] = Append(@, message)]
  /\ replies' = [replies EXCEPT ![p] = 0]
  /\ receiving_reply' = [receiving_reply EXCEPT ![p] = TRUE]
  /\ UNCHANGED rep_vars

\* req_t::xrecv: zmq_recv blocks until the reply is there.
req_recv(p) ==
  /\ receiving_reply[p] /\ replies[p] > 0
  /\ replies' = [replies EXCEPT ![p] = @ - 1]
  /\ receiving_reply' = [receiving_reply EXCEPT ![p] = FALSE]
  /\ UNCHANGED <<on_the_way, rep_vars>>

-----------------------------------------------------------------------------
(***************************************************************************)
(* One exchange at a time: a request that was sent is in exactly one       *)
(* place (carried, in the pipe, being answered, answered) until its reply  *)
(* is taken.  So no reply is for an earlier request, none is dropped, and  *)
(* zmq_send in jscall, whose result is not looked at, is never refused     *)
(* with EFSM.                                                              *)
(***************************************************************************)
OneExchange ==
  \A p \in Peers :
    Len(on_the_way[p]) + Len(arrived[p]) + (IF current_out = p THEN 1 ELSE 0) + replies[p]
      = IF receiving_reply[p] THEN 1 ELSE 0

(***************************************************************************)
(* Fair queueing: the requests of others that are taken while one waits in *)
(* its pipe are bounded by the number of peers alone.  Not one per peer: a *)
(* connection that ends leaves its place to the last active pipe, which    *)
(* may have been about to be read and is then a whole round behind.        *)
(***************************************************************************)
Others == Cardinality(Peers) - 1
BoundedBypass == \A p \in Peers : arrived[p] # <<>> => passed[p] <= Others * Others
=============================================================================
