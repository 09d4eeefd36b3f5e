-------------------------------- MODULE Calls -------------------------------
(***************************************************************************)
(* What the sockets promise a parser thread: jscall is a call.  A peer     *)
(* asks, is answered, takes its answer, and may then ask again; each peer  *)
(* that asks is answered, however busy the others are.                     *)
(***************************************************************************)
CONSTANT Peers
VARIABLE call

Init == call = [p \in Peers |-> "idle"]

Ask(p) == call[p] = "idle" /\ call' = [call EXCEPT ![p] = "asked"]
Answer(p) == call[p] = "asked" /\ call' = [call EXCEPT ![p] = "answered"]
Take(p) == call[p] = "answered" /\ call' = [call EXCEPT ![p] = "idle"]

Next == \E p \in Peers : Ask(p) \/ Answer(p) \/ Take(p)

SafeSpec == Init /\ [][Next]_call
Spec == /\ SafeSpec
        /\ \A p \in Peers : WF_call(Answer(p)) /\ WF_call(Take(p))
=============================================================================
