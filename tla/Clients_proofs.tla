---------------------------- MODULE Clients_proofs ---------------------------
(***************************************************************************)
(* Theorems about the sockets under their use by the program, for any      *)
(* finite number of parser threads.                                        *)
(***************************************************************************)
EXTENDS Clients, ReqRep_proofs

(***************************************************************************)
(* The inductive invariant: what the sockets keep, and that only an open   *)
(* one waits for a reply, so that none goes while its request is under way.*)
(***************************************************************************)
Answerable == \A p \in Peers : receiving_reply[p] => sender[p] = "open"
Senders == sender \in [Peers -> {"closed", "open"}]

IInv == SocketInv({Request}) /\ Senders /\ Answerable

LEMMA TypeParts == IInv => TypeOK
  BY DEF IInv, SocketInv, TypeOK, Counters, Queued, FairQueue, Answering, Senders

LEMMA InitHolds == Init => IInv
  <1> SUFFICES ASSUME Init PROVE IInv
    OBVIOUS
  <1>1. SocketInv({Request})
    BY SocketsStart DEF Init
  <1> QED
    BY <1>1 DEF IInv, Init, SocketInit, Senders, Answerable

LEMMA InitSocketHolds == ASSUME IInv, NEW p \in Peers, initSocket(p) PROVE IInv'
  <1>1. SocketInv({Request})' /\ UNCHANGED receiving_reply
    BY SocketsStay DEF IInv, initSocket, socket_vars, req_vars
  <1> QED
    BY <1>1 DEF IInv, initSocket, Senders, Answerable

LEMMA CloseHolds == ASSUME IInv, NEW p \in Peers, zmq_close(p) PROVE IInv'
  <1>1. SocketInv({Request})' /\ UNCHANGED receiving_reply
    BY SocketsStay DEF IInv, zmq_close, socket_vars, req_vars
  <1> QED
    BY <1>1 DEF IInv, zmq_close, Senders, Answerable

LEMMA SendAsked == ASSUME IInv, NEW p \in Peers, jscall_send(p) PROVE IInv'
  <1>1. SocketInv({Request})'
    BY SendHolds DEF IInv, jscall_send
  <1>2. receiving_reply \in [Peers -> BOOLEAN]
    BY DEF IInv, SocketInv, Counters
  <1> QED
    BY <1>1, <1>2 DEF IInv, jscall_send, req_send, Senders, Answerable

LEMMA RecvAnswered == ASSUME IInv, NEW p \in Peers, jscall_recv(p) PROVE IInv'
  <1>1. SocketInv({Request})'
    BY RecvHolds DEF IInv, jscall_recv
  <1>2. receiving_reply \in [Peers -> BOOLEAN]
    BY DEF IInv, SocketInv, Counters
  <1> QED
    BY <1>1, <1>2 DEF IInv, jscall_recv, req_recv, Senders, Answerable

LEMMA IoHolds == ASSUME IInv, NEW p \in Peers, io_step(p) PROVE IInv'
  <1>1. UNCHANGED sender
    BY DEF io_step
  <1>2. CASE accept(p)
    <2>1. SocketInv({Request})'
      BY <1>2, AttachHolds DEF IInv, accept
    <2> QED BY <1>1, <1>2, <2>1 DEF IInv, accept, attach, req_vars, Senders, Answerable
  <1>3. CASE Arrive(p)
    <2>1. SocketInv({Request})'
      BY <1>3, ArriveHolds DEF IInv
    <2> QED BY <1>1, <1>3, <2>1 DEF IInv, Arrive, Senders, Answerable
  <1>4. CASE hang_up(p)
    <2>1. ~receiving_reply[p]
      BY <1>4 DEF IInv, Answerable, hang_up
    <2>2. SocketInv({Request})'
      BY <1>4, <2>1, TerminateHolds DEF IInv, hang_up
    <2> QED BY <1>1, <1>4, <2>2 DEF IInv, hang_up, pipe_terminated, req_vars, Senders, Answerable
  <1> QED
    BY <1>2, <1>3, <1>4 DEF io_step

LEMMA MessageHolds == ASSUME IInv, on_message PROVE IInv'
  <1>1. UNCHANGED <<sender, receiving_reply>>
    BY DEF on_message, rep_recv, rep_recv_none, rep_send, req_vars
  <1>2. SocketInv({Request})'
    BY TakeHolds, TakeNoneHolds, ReplyHolds DEF IInv, on_message
  <1> QED
    BY <1>1, <1>2 DEF IInv, Senders, Answerable

LEMMA NextHolds == IInv /\ [Next]_vars => IInv'
  <1> SUFFICES ASSUME IInv, [Next]_vars PROVE IInv'
    OBVIOUS
  <1>1. CASE UNCHANGED vars
    <2>1. UNCHANGED <<socket_vars, sender, receiving_reply>>
      BY <1>1 DEF vars, socket_vars, req_vars
    <2>2. SocketInv({Request})'
      BY <2>1, SocketsStay DEF IInv
    <2> QED BY <2>1, <2>2 DEF IInv, Senders, Answerable
  <1>2. CASE on_message
    BY <1>2, MessageHolds
  <1>3. ASSUME NEW p \in Peers, initSocket(p) PROVE IInv'
    BY <1>3, InitSocketHolds
  <1>4. ASSUME NEW p \in Peers, jscall_send(p) PROVE IInv'
    BY <1>4, SendAsked
  <1>5. ASSUME NEW p \in Peers, jscall_recv(p) PROVE IInv'
    BY <1>5, RecvAnswered
  <1>6. ASSUME NEW p \in Peers, zmq_close(p) PROVE IInv'
    BY <1>6, CloseHolds
  <1>7. ASSUME NEW p \in Peers, io_step(p) PROVE IInv'
    BY <1>7, IoHolds
  <1> QED
    BY <1>1, <1>2, <1>3, <1>4, <1>5, <1>6, <1>7 DEF Next

\* The inductive invariant holds in every reachable state of the sockets.
THEOREM SocketsInvariant == Spec => []IInv
  BY InitHolds, NextHolds, PTL DEF Spec

(***************************************************************************)
(* The lists of pipes that fq.cpp keeps stay lists of the connected peers, *)
(* each once, and its indices are within them, whatever the order in which *)
(* any number of threads connect, ask and go.                              *)
(***************************************************************************)
THEOREM SocketsTypeOK == Spec => []TypeOK
  BY TypeParts, SocketsInvariant, PTL

(***************************************************************************)
(* A request is in one place until its reply is taken: no call of jscall   *)
(* is refused, no reply is lost or taken for another.                      *)
(***************************************************************************)
THEOREM SocketsOneExchange == Spec => []OneExchange
  <1>1. IInv => OneExchange
    BY DEF IInv, SocketInv
  <1> QED
    BY <1>1, SocketsInvariant, PTL

(***************************************************************************)
(* No request is passed by more than the square of the number of other     *)
(* peers while it waits in its pipe.                                       *)
(***************************************************************************)
THEOREM SocketsBoundedBypass == Spec => []BoundedBypass
  <1>1. IInv => BoundedBypass
    BY BypassBounded DEF IInv
  <1> QED
    BY <1>1, SocketsInvariant, PTL

-----------------------------------------------------------------------------
(***************************************************************************)
(* The refinement: what a thread sees of the sockets is a call.            *)
(***************************************************************************)
calls == [p \in Peers |-> call_of(p)]

\* A step that does not change what a thread sees.
LEMMA Unseen ==
  ASSUME \A p \in Peers : receiving_reply'[p] = receiving_reply[p] /\ replies'[p] = replies[p]
  PROVE  calls' = calls
  BY DEF calls, call_of

LEMMA SendAsks ==
  ASSUME IInv, NEW p \in Peers, jscall_send(p)
  PROVE  AbstractCalls!Ask(p)
  <1> USE DEF jscall_send, req_send
  <1>1. Counters({Request})
    BY DEF IInv, SocketInv
  <1>2. call_of(p) = "idle" /\ call_of(p)' = "asked"
    BY <1>1 DEF Counters, call_of
  <1>3. ASSUME NEW o \in Peers, o # p PROVE call_of(o)' = call_of(o)
    BY <1>1, <1>3 DEF Counters, call_of
  <1> HIDE DEF jscall_send, req_send
  <1> QED
    BY <1>2, <1>3 DEF AbstractCalls!Ask

LEMMA RecvTakes ==
  ASSUME IInv, NEW p \in Peers, jscall_recv(p)
  PROVE  AbstractCalls!Take(p)
  <1> USE DEF jscall_recv, req_recv
  <1>1. Counters({Request})
    BY DEF IInv, SocketInv
  <1>2. call_of(p) = "answered" /\ call_of(p)' = "idle"
    BY <1>1 DEF Counters, call_of
  <1>3. ASSUME NEW o \in Peers, o # p PROVE call_of(o)' = call_of(o)
    BY <1>1, <1>3 DEF Counters, call_of
  <1> HIDE DEF jscall_recv, req_recv
  <1> QED
    BY <1>2, <1>3 DEF AbstractCalls!Take

LEMMA ReplyAnswers ==
  ASSUME IInv, rep_send, UNCHANGED sender, NEW p, p = current_out
  PROVE  AbstractCalls!Answer(p) /\ p \in Peers
  <1>1. Places(p, 0, 0, 1, 0) /\ replies'[p] = 1
    BY ReplyHolds DEF IInv
  <1>2. p \in Peers
    BY DEF IInv, SocketInv, Answering, rep_send
  <1>3. receiving_reply[p] /\ receiving_reply' = receiving_reply
    BY <1>1, <1>2, NoExchange DEF IInv, InOnePlace, Places, rep_send
  <1>4. call_of(p) = "asked" /\ call_of(p)' = "answered"
    BY <1>1, <1>3 DEF Places, call_of
  <1>5. ASSUME NEW o \in Peers, o # p PROVE call_of(o)' = call_of(o)
    BY <1>5 DEF rep_send, call_of
  <1> QED
    BY <1>2, <1>4, <1>5 DEF AbstractCalls!Answer

LEMMA CallStep == IInv /\ [Next]_vars => [AbstractCalls!Next]_calls
  <1> SUFFICES ASSUME IInv, [Next]_vars PROVE AbstractCalls!Next \/ calls' = calls
    BY DEF calls
  <1>1. ASSUME UNCHANGED <<receiving_reply, replies>> PROVE calls' = calls
    BY <1>1, Unseen
  <1>2. CASE UNCHANGED vars
    BY <1>1, <1>2 DEF vars, socket_vars, req_vars
  <1>3. CASE on_message
    <2>1. CASE rep_send /\ UNCHANGED sender
      BY <2>1, ReplyAnswers DEF AbstractCalls!Next
    <2>2. CASE rep_recv \/ rep_recv_none
      BY <1>1, <2>2 DEF rep_recv, rep_recv_none, req_vars
    <2> QED BY <1>3, <2>1, <2>2 DEF on_message
  <1>4. ASSUME NEW p \in Peers, jscall_send(p) PROVE AbstractCalls!Next
    BY <1>4, SendAsks DEF AbstractCalls!Next
  <1>5. ASSUME NEW p \in Peers, jscall_recv(p) PROVE AbstractCalls!Next
    BY <1>5, RecvTakes DEF AbstractCalls!Next
  <1>6. ASSUME NEW p \in Peers, initSocket(p) \/ zmq_close(p) PROVE calls' = calls
    BY <1>1, <1>6 DEF initSocket, zmq_close, socket_vars, req_vars
  <1>7. ASSUME NEW p \in Peers, io_step(p) PROVE calls' = calls
    BY <1>1, <1>7 DEF io_step, accept, attach, hang_up, pipe_terminated, Arrive, req_vars
  <1> QED
    BY <1>2, <1>3, <1>4, <1>5, <1>6, <1>7 DEF Next

(***************************************************************************)
(* jscall is a call: a thread asks, is answered once and takes its answer, *)
(* in this order, as in the safety part of Calls.                          *)
(***************************************************************************)
THEOREM SocketsAreCalls == Spec => AbstractCalls!SafeSpec
  <1>1. Init => AbstractCalls!Init
    BY DEF Init, SocketInit, AbstractCalls!Init, call_of
  <1>2. IInv /\ [Next]_vars => [AbstractCalls!Next]_calls
    BY CallStep
  <1> QED
    BY <1>1, <1>2, SocketsInvariant, PTL DEF Spec, AbstractCalls!SafeSpec, calls
=============================================================================
