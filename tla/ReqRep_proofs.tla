---------------------------- MODULE ReqRep_proofs ----------------------------
(***************************************************************************)
(* Lemmas about the sockets, for any finite number of peers: what each     *)
(* operation of libzmq keeps, whatever is in the messages.  Clients and    *)
(* Addon use the same sockets.                                             *)
(***************************************************************************)
EXTENDS ReqRep, Induction, SequenceTheorems

-----------------------------------------------------------------------------
(* Swapping two pipes keeps each of them once. *)

LEMMA SwappedPipes ==
  ASSUME NEW s \in Seq(Peers), IsInjective(s), NEW i \in 1 .. Len(s), NEW j \in 1 .. Len(s)
  PROVE  /\ Swapped(s, i, j) \in Seq(Peers) /\ Len(Swapped(s, i, j)) = Len(s)
         /\ IsInjective(Swapped(s, i, j))
         /\ \A k \in 1 .. Len(s) :
              Swapped(s, i, j)[k] = IF k = j THEN s[i] ELSE IF k = i THEN s[j] ELSE s[k]
         /\ \A p \in Peers : Contains(Swapped(s, i, j), p) <=> Contains(s, p)
  <1> DEFINE u == [s EXCEPT ![i] = s[j]]
             t == Swapped(s, i, j)
  <1>1. u \in Seq(Peers) /\ Len(u) = Len(s)
    BY ElementOfSeq, ExceptSeq
  <1>2. t = [u EXCEPT ![j] = s[i]] /\ t \in Seq(Peers) /\ Len(t) = Len(s)
    BY <1>1, ElementOfSeq, ExceptSeq DEF Swapped
  <1>3. \A k \in 1 .. Len(s) : t[k] = IF k = j THEN s[i] ELSE IF k = i THEN s[j] ELSE s[k]
    BY <1>1, <1>2
  <1> HIDE DEF u, t
  <1>4. IsInjective(t)
    <2>1. DOMAIN s = 1 .. Len(s) /\ DOMAIN t = 1 .. Len(s)
      BY <1>2
    <2>2. \A a, b \in 1 .. Len(s) : s[a] = s[b] => a = b
      BY <2>1 DEF IsInjective
    <2> QED BY <1>3, <2>1, <2>2 DEF IsInjective
  <1>5. ASSUME NEW p \in Peers
        PROVE  Contains(t, p) <=> Contains(s, p)
    <2>1. ASSUME NEW k \in 1 .. Len(s), s[k] = p
          PROVE  \E m \in 1 .. Len(s) : t[m] = p
      <3>1. CASE k = i
        BY <1>3, <2>1, <3>1
      <3>2. CASE k = j
        BY <1>3, <2>1, <3>2
      <3>3. CASE k # i /\ k # j
        BY <1>3, <2>1, <3>3
      <3> QED BY <3>1, <3>2, <3>3
    <2>2. ASSUME NEW k \in 1 .. Len(s), t[k] = p
          PROVE  \E m \in 1 .. Len(s) : s[m] = p
      BY <1>3, <2>2
    <2> QED BY <1>2, <2>1, <2>2 DEF Contains
  <1> QED
    BY <1>2, <1>3, <1>4, <1>5 DEF t

\* A list of pipes is no longer than there are peers.
LEMMA PipesBound ==
  ASSUME NEW s \in Seq(Peers), IsInjective(s)
  PROVE  /\ Others \in Int /\ Len(s) \in Nat /\ Len(s) <= Others + 1
  <1>1. s \in Injection(1 .. Len(s), Peers)
    BY DEF Injection, IsInjective
  <1>2. Len(s) \in Nat /\ IsFiniteSet(1 .. Len(s)) /\ Cardinality(1 .. Len(s)) = Len(s)
    <2>1. Len(s) \in Nat
      OBVIOUS
    <2> QED BY <2>1, FS_Interval
  <1>3. IsFiniteSet(Peers) /\ Cardinality(Peers) \in Nat
    BY PeersAssumption, FS_CardinalityType
  <1>4. Cardinality(1 .. Len(s)) <= Cardinality(Peers)
    BY <1>1, <1>3, FS_Injection
  <1> QED
    BY <1>2, <1>3, <1>4 DEF Others

-----------------------------------------------------------------------------
(***************************************************************************)
(* The queue of pipes as the search of fq_t::recvpipe goes on.             *)
(***************************************************************************)
FairQueue(s, a, c) == /\ s \in Seq(Peers) /\ IsInjective(s)
                      /\ a \in 0 .. Len(s) /\ c \in 1 .. IF a = 0 THEN 1 ELSE a
Queued == FairQueue(pipes, active, current)

(***************************************************************************)
(* How many requests of others are at most taken before that of the pipe   *)
(* at position j when position c is the next to be read: those from c to   *)
(* j, or to the end and again from 1; and a whole round for each of the    *)
(* positions before j, to which the pipe may be moved.                     *)
(***************************************************************************)
Ahead(j, c) == Others * (j - 1) - (c - 1) + (IF c > j THEN Others + 1 ELSE 0)

\* From pipes s, a of them active, c the next, to t, b and d: a pipe with a request stays
\* active, and is not put off.
Waits(s, a, c, t, b, d) ==
  \A p \in Peers : \A j \in 1 .. a :
    arrived[p] # <<>> /\ s[j] = p =>
      \E k \in 1 .. b : t[k] = p /\ Ahead(k, d) <= Ahead(j, c)

SamePipes(s, t) == /\ Len(t) = Len(s)
                   /\ \A p \in Peers : Contains(t, p) <=> Contains(s, p)

LEMMA Products ==
  ASSUME NEW m \in Nat, NEW a \in Nat, NEW b \in Nat, NEW d \in Nat, a + d <= b
  PROVE  /\ m * a \in Nat /\ m * b \in Nat
         /\ m * a + m * d <= m * b
  <1>1. m * (b - a - d) >= 0
    <2>1. b - a - d \in Nat
      OBVIOUS
    <2> QED BY <2>1
  <1>2. m * (b - a - d) = m * b - m * a - m * d
    OBVIOUS
  <1> QED
    BY <1>1, <1>2

LEMMA AheadOfAnother ==
  ASSUME NEW n \in Int, Others \in Int, n <= Others + 1,
         NEW j \in 1 .. n, NEW k \in 1 .. n, NEW c \in 1 .. n
  PROVE  /\ Ahead(j, c) \in Int /\ Ahead(k, c) \in Int
         /\ c < j => Ahead(c, c) <= Ahead(j, c)
         /\ c > j => Ahead(j, 1) < Ahead(j, c)
         /\ c # j => Ahead(j, c + 1) < Ahead(j, c)
         /\ 0 <= Ahead(j, c) /\ Ahead(j, c) <= Others * Others
         /\ k < j /\ c <= j => Ahead(k, 1) <= Ahead(j, c)
         /\ k < j /\ c < j => Ahead(k, c) <= Ahead(j, c)
  <1>1. Others \in Nat /\ j - 1 \in Nat /\ k - 1 \in Nat /\ c - 1 \in Nat /\ n - 1 \in Nat
    OBVIOUS
  <1> DEFINE J == Others * (j - 1)
             K == Others * (k - 1)
             C == Others * (c - 1)
             N == Others * (n - 1)
             S == Others * Others
             D == Others * 1
             E == Others * 2
  <1>2. J \in Nat /\ K \in Nat /\ C \in Nat /\ S \in Nat /\ D = Others /\ E = 2 * Others
    BY <1>1
  <1>3. /\ k < j => K + D <= J
        /\ k + 1 < j => K + E <= J
        /\ c < j => C + D <= J
        /\ J <= S
        /\ j < n => J + D <= S
    BY <1>1, Products
  <1>4. /\ Ahead(j, c) = J - (c - 1) + (IF c > j THEN Others + 1 ELSE 0)
        /\ Ahead(k, c) = K - (c - 1) + (IF c > k THEN Others + 1 ELSE 0)
        /\ Ahead(j, 1) = J /\ Ahead(k, 1) = K /\ Ahead(c, c) = C - (c - 1)
        /\ Ahead(j, c + 1) = J - c + (IF c + 1 > j THEN Others + 1 ELSE 0)
    BY <1>1 DEF Ahead
  <1>5. Others > 0 => C >= c - 1
    <2>1. Others > 0 => Others - 1 \in Nat
      BY <1>1
    <2>2. Others > 0 => (Others - 1) * (c - 1) \in Nat
      BY <1>1, <2>1, Products
    <2>3. (Others - 1) * (c - 1) = C - (c - 1)
      BY <1>1
    <2> QED BY <1>1, <1>2, <2>2, <2>3
  <1>6. c = j => C = J
    OBVIOUS
  <1> HIDE DEF J, K, C, N, S, D, E
  <1> QED
    BY <1>1, <1>2, <1>3, <1>4, <1>5, <1>6 DEF S

\* An empty pipe that is set aside: one pipe less is active, no waiting one is lost.
LEMMA SetAsideWaits ==
  ASSUME NEW s, NEW a, NEW c, FairQueue(s, a, c), a > 0, arrived[s[c]] = <<>>,
         NEW t, t = Swapped(s, c, a), NEW d, d = IF c = a THEN 1 ELSE c
  PROVE  FairQueue(t, a - 1, d) /\ SamePipes(s, t) /\ Waits(s, a, c, t, a - 1, d)
  <1>1. /\ s \in Seq(Peers) /\ IsInjective(s) /\ a \in 1 .. Len(s)
        /\ c \in 1 .. a /\ c \in 1 .. Len(s) /\ a \in Int /\ c \in Int
    BY DEF FairQueue
  <1>2. /\ t \in Seq(Peers) /\ Len(t) = Len(s) /\ IsInjective(t)
        /\ \A k \in 1 .. Len(s) :
             t[k] = IF k = a THEN s[c] ELSE IF k = c THEN s[a] ELSE s[k]
        /\ \A p \in Peers : Contains(t, p) <=> Contains(s, p)
    <2> DEFINE u == Swapped(s, c, a)
    <2>1. /\ u \in Seq(Peers) /\ Len(u) = Len(s) /\ IsInjective(u)
          /\ \A k \in 1 .. Len(s) :
               u[k] = IF k = a THEN s[c] ELSE IF k = c THEN s[a] ELSE s[k]
          /\ \A p \in Peers : Contains(u, p) <=> Contains(s, p)
      BY <1>1, SwappedPipes
    <2>2. t = u
      OBVIOUS
    <2> HIDE DEF u
    <2> QED BY <2>1, <2>2
  <1>3. Len(s) \in Nat /\ Others \in Int /\ Len(s) <= Others + 1
    BY <1>1, PipesBound
  <1>4. FairQueue(t, a - 1, d) /\ SamePipes(s, t)
    BY <1>1, <1>2, <1>3 DEF FairQueue, SamePipes
  <1>5. ASSUME NEW p \in Peers, NEW j \in 1 .. a, arrived[p] # <<>>, s[j] = p
        PROVE  \E k \in 1 .. a - 1 : t[k] = p /\ Ahead(k, d) <= Ahead(j, c)
    <2>1. j # c /\ j \in 1 .. Len(s) /\ j \in Int
      BY <1>1, <1>5
    <2>2. /\ Ahead(j, c) \in Int
          /\ c < j => Ahead(c, c) <= Ahead(j, c)
          /\ c > j => Ahead(j, 1) < Ahead(j, c)
      BY <1>1, <1>3, <2>1, AheadOfAnother
    <2>3. CASE j = a
      <3>1. c \in 1 .. a - 1 /\ t[c] = p /\ d = c
        BY <1>1, <1>2, <1>5, <2>1, <2>3
      <3> QED BY <1>1, <2>2, <2>3, <3>1
    <2>4. CASE j # a
      <3>1. j \in 1 .. a - 1 /\ t[j] = p
        BY <1>1, <1>2, <1>5, <2>1, <2>4
      <3>2. CASE c = a
        <4>1. c > j /\ d = 1 /\ 1 \in 1 .. Len(s)
          BY <1>1, <1>3, <2>1, <3>2, <3>1
        <4>2. Ahead(j, 1) \in Int
          BY <1>3, <2>1 DEF Ahead
        <4> QED BY <2>2, <3>1, <4>1, <4>2
      <3>3. CASE c # a
        BY <2>2, <3>1, <3>3
      <3> QED BY <3>2, <3>3
    <2> QED BY <2>3, <2>4
  <1> QED
    BY <1>4, <1>5 DEF Waits

\* fq_t's queue, and the rounds of its search, by their recursion.
Fits(q) == /\ q \in [pipes : Seq(Peers), active : Nat, current : Nat]
           /\ FairQueue(q.pipes, q.active, q.current)

Searching(q) == IF is_empty(q) THEN Deactivated(q) ELSE q

LEMMA QueueFits == ASSUME Queued PROVE Fits(queue) /\ Len(pipes) \in Nat
  BY DEF Queued, Fits, FairQueue, queue

LEMMA DeactivatedFits ==
  ASSUME NEW q, Fits(q), is_empty(q), NEW d, d = Deactivated(q)
  PROVE  /\ Fits(d) /\ d.active = q.active - 1 /\ SamePipes(q.pipes, d.pipes)
         /\ Waits(q.pipes, q.active, q.current, d.pipes, d.active, d.current)
  <1> DEFINE s == q.pipes
             a == q.active
             c == q.current
             t == Swapped(s, c, a)
             e == IF c = a THEN 1 ELSE c
  <1>1. FairQueue(s, a, c) /\ a > 0 /\ arrived[s[c]] = <<>> /\ a \in Nat /\ c \in Nat
    BY DEF Fits, is_empty
  <1>2. FairQueue(t, a - 1, e) /\ SamePipes(s, t) /\ Waits(s, a, c, t, a - 1, e)
    <2> HIDE DEF s, a, c
    <2> QED BY <1>1, SetAsideWaits
  <1>3. d = [pipes |-> t, active |-> a - 1, current |-> e]
    BY DEF Deactivated
  <1>4. d.pipes = t /\ d.active = a - 1 /\ d.current = e
    BY <1>3
  <1>5. t \in Seq(Peers) /\ a - 1 \in Nat /\ e \in Nat
    <2> HIDE DEF t
    <2> QED BY <1>1, <1>2 DEF FairQueue
  <1>6. Fits(d)
    <2> HIDE DEF s, a, c, t, e
    <2> QED BY <1>2, <1>3, <1>5 DEF Fits
  <1> HIDE DEF t, e
  <1> QED
    BY <1>2, <1>4, <1>6

LEMMA Rounds ==
  ASSUME Queued
  PROVE  round = [i \in 0 .. Len(pipes) |->
                    IF i = 0 THEN queue
                    ELSE IF is_empty(round[i - 1]) THEN Deactivated(round[i - 1])
                         ELSE round[i - 1]]
  <1> DEFINE n == Len(pipes)
             S == { q \in [pipes : Seq(Peers), active : Nat, current : Nat] :
                      FairQueue(q.pipes, q.active, q.current) }
             step == [q \in S |-> Searching(q)]
  <1>1. \A q : q \in S <=> Fits(q)
    BY DEF Fits
  <1>2. \A q \in S : Searching(q) \in S
    <2> HIDE DEF S
    <2> QED BY <1>1, DeactivatedFits DEF Searching
  <1>3. queue \in S /\ n \in Nat
    <2> HIDE DEF S
    <2> QED BY <1>1, QueueFits
  <1> HIDE DEF S, n
  <1>4. step \in [S -> S]
    BY <1>2
  <1>5. PICK r : Repeats(r, S, queue, step, n)
    <2> HIDE DEF step
    <2> QED BY <1>3, <1>4, Repetition
  <1>6. ASSUME NEW i \in 1 .. n PROVE r[i] = Searching(r[i - 1])
    <2>1. i - 1 \in 0 .. n
      BY <1>3
    <2>2. r[i - 1] \in S
      BY <1>5, <2>1 DEF Repeats
    <2> QED BY <1>5, <2>2 DEF Repeats
  <1>7. r = [i \in 0 .. n |-> IF i = 0 THEN queue
                              ELSE IF is_empty(r[i - 1]) THEN Deactivated(r[i - 1]) ELSE r[i - 1]]
    BY <1>3, <1>5, <1>6 DEF Searching, Repeats
  <1> QED
    BY <1>7 DEF round, n

LEMMA WaitsOn ==
  ASSUME NEW s, NEW a \in Nat, NEW c \in Nat, NEW t, NEW b \in Nat, NEW d \in Nat,
         NEW u, NEW e \in Nat, NEW f \in Nat,
         Waits(s, a, c, t, b, d), Waits(t, b, d, u, e, f)
  PROVE  Waits(s, a, c, u, e, f)
  <1>1. Others \in Int
    BY PeersAssumption, FS_CardinalityType DEF Others
  <1> SUFFICES ASSUME NEW p \in Peers, NEW j \in 1 .. a, arrived[p] # <<>>, s[j] = p
               PROVE  \E l \in 1 .. e : u[l] = p /\ Ahead(l, f) <= Ahead(j, c)
    BY DEF Waits
  <1>2. PICK k \in 1 .. b : t[k] = p /\ Ahead(k, d) <= Ahead(j, c)
    BY DEF Waits
  <1>3. PICK l \in 1 .. e : u[l] = p /\ Ahead(l, f) <= Ahead(k, d)
    BY <1>2 DEF Waits
  <1>4. Ahead(j, c) \in Int /\ Ahead(k, d) \in Int /\ Ahead(l, f) \in Int
    BY <1>1 DEF Ahead
  <1> QED
    BY <1>2, <1>3, <1>4

(***************************************************************************)
(* The search ends at a pipe with a request, or with no active pipe; the   *)
(* pipes are the same, and those with requests are not put off.            *)
(***************************************************************************)
LEMMA SearchedFits ==
  ASSUME Queued, NEW q, q = Searched
  PROVE  /\ Fits(q) /\ ~is_empty(q) /\ SamePipes(pipes, q.pipes)
         /\ Waits(pipes, active, current, q.pipes, q.active, q.current)
  <1> DEFINE n == Len(pipes)
             Found(r, k) == /\ Fits(r) /\ SamePipes(pipes, r.pipes)
                            /\ Waits(pipes, active, current, r.pipes, r.active, r.current)
                            /\ is_empty(r) => r.active <= active - k
             T == { k \in Nat : k <= n => Found(round[k], k) }
  <1>1. n \in Nat /\ Fits(queue) /\ active \in 0 .. n /\ current \in Nat
    BY QueueFits DEF Queued, FairQueue
  <1>2. round[0] = queue
    BY <1>1, Rounds
  <1>3. Found(queue, 0)
    <2>1. queue.pipes = pipes /\ queue.active = active /\ queue.current = current
      BY DEF queue
    <2>2. SamePipes(pipes, queue.pipes)
      BY <2>1 DEF SamePipes
    <2>3. Others \in Int
      BY PeersAssumption, FS_CardinalityType DEF Others
    <2>4. Waits(pipes, active, current, queue.pipes, queue.active, queue.current)
      <3> SUFFICES ASSUME NEW p \in Peers, NEW j \in 1 .. active, arrived[p] # <<>>, pipes[j] = p
                   PROVE  pipes[j] = p /\ Ahead(j, current) <= Ahead(j, current)
        BY <2>1 DEF Waits
      <3>1. Ahead(j, current) \in Int
        BY <1>1, <2>3 DEF Ahead
      <3> QED BY <3>1
    <2> QED BY <1>1, <2>1, <2>2, <2>4
  <1>4. 0 \in T
    <2> HIDE DEF Found
    <2> QED BY <1>2, <1>3
  <1>5. ASSUME NEW k \in Nat, k \in T PROVE k + 1 \in T
    <2> SUFFICES ASSUME k + 1 <= n PROVE Found(round[k + 1], k + 1)
      OBVIOUS
    <2> DEFINE r == round[k]
               d == Deactivated(r)
    <2>1. Found(r, k) /\ k + 1 \in 0 .. n /\ k + 1 # 0 /\ k + 1 - 1 = k
      BY <1>1, <1>5
    <2>2. round[k + 1] = IF is_empty(r) THEN d ELSE r
      <3> HIDE DEF Found
      <3> QED BY <2>1, Rounds
    <2>3. CASE is_empty(r)
      <3>1. /\ Fits(d) /\ d.active = r.active - 1 /\ SamePipes(r.pipes, d.pipes)
            /\ Waits(r.pipes, r.active, r.current, d.pipes, d.active, d.current)
        <4> HIDE DEF d, r
        <4> QED BY <2>1, <2>3, DeactivatedFits DEF d
      <3> HIDE DEF d, r
      <3>2. SamePipes(pipes, d.pipes)
        BY <2>1, <3>1 DEF SamePipes
      <3>3. /\ r.active \in Nat /\ r.current \in Nat /\ d.active \in Nat /\ d.current \in Nat
            /\ active \in Nat
        BY <1>1, <2>1, <3>1 DEF Fits
      <3>4. Waits(pipes, active, current, d.pipes, d.active, d.current)
        BY <1>1, <2>1, <3>1, <3>3, WaitsOn
      <3> QED BY <1>1, <2>1, <2>2, <2>3, <3>1, <3>2, <3>3, <3>4
    <2>4. CASE ~is_empty(r)
      BY <2>1, <2>2, <2>4
    <2> QED BY <2>3, <2>4
  <1>6. n \in T
    <2> HIDE DEF T
    <2> QED BY <1>1, <1>4, <1>5, SetInduction
  <1>7. q = round[n] /\ Found(q, n)
    BY <1>1, <1>6 DEF Searched
  <1>8. ~is_empty(q)
    BY <1>1, <1>7 DEF Fits, is_empty
  <1> QED
    BY <1>7, <1>8

-----------------------------------------------------------------------------
(***************************************************************************)
(* What the sockets keep, whatever the messages M and whoever connects:    *)
(* one request per peer at most; each that waits in its pipe is in an      *)
(* active one, and was passed by at most those that are no longer ahead;   *)
(* the peer that is owed a reply is connected.                             *)
(***************************************************************************)
Counters(M) == /\ receiving_reply \in [Peers -> BOOLEAN] /\ replies \in [Peers -> 0 .. 1]
               /\ on_the_way \in [Peers -> Seq(M)] /\ arrived \in [Peers -> Seq(M)]
               /\ passed \in [Peers -> Nat]
Answering == /\ current_out \in Peers \cup {NoPeer}
             /\ sending_reply = (current_out # NoPeer)
Waiting ==
  \A p \in Peers : arrived[p] # <<>> =>
    \E j \in 1 .. active : pipes[j] = p /\ passed[p] + Ahead(j, current) <= Others * Others
Connected == current_out # NoPeer => Contains(pipes, current_out)

SocketInv(M) == Counters(M) /\ Queued /\ Answering /\ OneExchange /\ Waiting /\ Connected

\* The places that the request of a peer may be in, and how many requests are in each.
BeingAnswered(p) == IF current_out = p THEN 1 ELSE 0
Places(p, carried, waiting, taken, replied) ==
  /\ Len(on_the_way[p]) = carried /\ Len(arrived[p]) = waiting
  /\ BeingAnswered(p) = taken /\ replies[p] = replied
InOnePlace(p) ==
  \/ ~receiving_reply[p] /\ Places(p, 0, 0, 0, 0)
  \/ /\ receiving_reply[p]
     /\ \/ Places(p, 1, 0, 0, 0) \/ Places(p, 0, 1, 0, 0)
        \/ Places(p, 0, 0, 1, 0) \/ Places(p, 0, 0, 0, 1)

LEMMA OnePlace ==
  ASSUME NEW w \in Nat, NEW a \in Nat, NEW b \in Nat, NEW r \in Nat
  PROVE  /\ w + a + b + r = 0 => w = 0 /\ a = 0 /\ b = 0 /\ r = 0
         /\ w + a + b + r = 1 => \/ w = 1 /\ a = 0 /\ b = 0 /\ r = 0
                                 \/ w = 0 /\ a = 1 /\ b = 0 /\ r = 0
                                 \/ w = 0 /\ a = 0 /\ b = 1 /\ r = 0
                                 \/ w = 0 /\ a = 0 /\ b = 0 /\ r = 1
  OBVIOUS

\* The request of a peer is in one of them, or the peer waits for no reply.
LEMMA NoExchange ==
  ASSUME NEW M, SocketInv(M), NEW p \in Peers
  PROVE  /\ arrived[p] = <<>> <=> Len(arrived[p]) = 0
         /\ on_the_way[p] = <<>> <=> Len(on_the_way[p]) = 0
         /\ InOnePlace(p)
  <1>1. on_the_way[p] \in Seq(M) /\ arrived[p] \in Seq(M)
    BY DEF SocketInv, Counters
  <1>2. replies[p] \in Nat
    <2>1. replies \in [Peers -> 0 .. 1]
      BY DEF SocketInv, Counters
    <2> QED BY <2>1
  <1>3. /\ Len(on_the_way[p]) \in Nat /\ Len(arrived[p]) \in Nat
        /\ arrived[p] = <<>> <=> Len(arrived[p]) = 0
        /\ on_the_way[p] = <<>> <=> Len(on_the_way[p]) = 0
    BY <1>1
  <1> DEFINE w == Len(on_the_way[p])
             a == Len(arrived[p])
             b == BeingAnswered(p)
             r == replies[p]
  <1>4. b \in Nat
    BY DEF BeingAnswered
  <1>5. /\ receiving_reply[p] => w + a + b + r = 1
        /\ ~receiving_reply[p] => w + a + b + r = 0
    BY DEF SocketInv, OneExchange, BeingAnswered
  <1>6. InOnePlace(p)
    <2>1. w \in Nat /\ a \in Nat /\ r \in Nat
      BY <1>2, <1>3
    <2> HIDE DEF w, a, b, r
    <2>2. \/ ~receiving_reply[p] /\ w = 0 /\ a = 0 /\ b = 0 /\ r = 0
          \/ /\ receiving_reply[p]
             /\ \/ w = 1 /\ a = 0 /\ b = 0 /\ r = 0
                \/ w = 0 /\ a = 1 /\ b = 0 /\ r = 0
                \/ w = 0 /\ a = 0 /\ b = 1 /\ r = 0
                \/ w = 0 /\ a = 0 /\ b = 0 /\ r = 1
      BY <1>4, <1>5, <2>1, OnePlace
    <2> QED BY <2>2 DEF InOnePlace, Places, w, a, b, r
  <1> QED
    BY <1>3, <1>6

LEMMA OneExchangeNext == (\A p \in Peers : InOnePlace(p)') => OneExchange'
  <1> SUFFICES ASSUME NEW p \in Peers, InOnePlace(p)'
               PROVE  Len(on_the_way'[p]) + Len(arrived'[p]) + BeingAnswered(p)' + replies'[p]
                        = IF receiving_reply'[p] THEN 1 ELSE 0
    BY DEF OneExchange, BeingAnswered
  <1>1. CASE ~receiving_reply'[p] /\ Places(p, 0, 0, 0, 0)'
    BY <1>1 DEF Places
  <1>2. CASE receiving_reply'[p] /\ Places(p, 1, 0, 0, 0)'
    BY <1>2 DEF Places
  <1>3. CASE receiving_reply'[p] /\ Places(p, 0, 1, 0, 0)'
    BY <1>3 DEF Places
  <1>4. CASE receiving_reply'[p] /\ Places(p, 0, 0, 1, 0)'
    BY <1>4 DEF Places
  <1>5. CASE receiving_reply'[p] /\ Places(p, 0, 0, 0, 1)'
    BY <1>5 DEF Places
  <1> QED
    BY <1>1, <1>2, <1>3, <1>4, <1>5 DEF InOnePlace

\* The pipes of connected peers, and where they are.
LEMMA PositionOfPipe ==
  ASSUME Queued, NEW p, Contains(pipes, p)
  PROVE  PositionOf(p) \in 1 .. Len(pipes) /\ pipes[PositionOf(p)] = p
  <1>1. \E i \in DOMAIN pipes : pipes[i] = p
    BY DEF Queued, FairQueue, Contains
  <1>2. DOMAIN pipes = 1 .. Len(pipes)
    BY DEF Queued, FairQueue
  <1> QED
    BY <1>1, <1>2 DEF PositionOf

LEMMA ErasedPipes ==
  ASSUME NEW s \in Seq(Peers), IsInjective(s), NEW i \in 1 .. Len(s), NEW t, t = Erased(s, i)
  PROVE  /\ t \in Seq(Peers) /\ Len(t) = Len(s) - 1 /\ IsInjective(t)
         /\ \A k \in 1 .. Len(t) : t[k] = IF k = i THEN s[Len(s)] ELSE s[k]
         /\ \A p : Contains(s, p) /\ p # s[i] => Contains(t, p)
         /\ \A p : Contains(t, p) => Contains(s, p) /\ p # s[i]
  <1> DEFINE n == Len(s)
  <1>1. n \in Nat /\ n >= 1 /\ n \in 1 .. n /\ DOMAIN s = 1 .. n
    OBVIOUS
  <1>2. \A a, b \in 1 .. n : s[a] = s[b] => a = b
    BY <1>1 DEF IsInjective
  <1>3. /\ t = [k \in 1 .. n - 1 |-> IF k = i THEN s[n] ELSE s[k]]
        /\ \A k \in 1 .. n : s[k] \in Peers
    BY DEF Erased, Last
  <1> HIDE DEF n
  <1>4. t \in [1 .. n - 1 -> Peers]
    BY <1>1, <1>3
  <1>5. t \in Seq(Peers) /\ Len(t) = n - 1 /\ DOMAIN t = 1 .. n - 1
    BY <1>1, <1>4
  <1>6. \A k \in 1 .. n - 1 : t[k] = IF k = i THEN s[n] ELSE s[k]
    BY <1>3
  <1>7. IsInjective(t)
    BY <1>1, <1>2, <1>5, <1>6 DEF IsInjective
  <1>8. ASSUME NEW p, NEW k \in 1 .. n, s[k] = p, p # s[i] PROVE \E m \in 1 .. n - 1 : t[m] = p
    <2>1. CASE k = n
      BY <1>1, <1>6, <1>8, <2>1 DEF n
    <2>2. CASE k # n
      BY <1>1, <1>6, <1>8, <2>2
    <2> QED BY <2>1, <2>2
  <1>9. ASSUME NEW p, NEW m \in 1 .. n - 1, t[m] = p
        PROVE  (\E k \in 1 .. n : s[k] = p) /\ p # s[i]
    BY <1>1, <1>2, <1>6, <1>9 DEF n
  <1> QED
    BY <1>5, <1>6, <1>7, <1>8, <1>9 DEF n, Contains

-----------------------------------------------------------------------------
(***************************************************************************)
(* What the actions do to the queue: s, a and c are its pipes, how many    *)
(* are active and the next, and t, b, d the same after the action.         *)
(***************************************************************************)
LEMMA AheadIsInt ==
  ASSUME NEW j \in Int, NEW c \in Int
  PROVE  Others \in Int /\ Others * Others \in Int /\ Ahead(j, c) \in Int
  <1>1. Others \in Int
    BY PeersAssumption, FS_CardinalityType DEF Others
  <1> QED BY <1>1 DEF Ahead

LEMMA FairQueueFacts ==
  ASSUME NEW s, NEW a, NEW c, FairQueue(s, a, c)
  PROVE  /\ a \in Nat /\ c \in Nat /\ Len(s) \in Nat /\ a <= Len(s) /\ c >= 1
         /\ a > 0 => c <= a
         /\ a = 0 => c = 1
         /\ DOMAIN s = 1 .. Len(s) /\ \A k \in 1 .. Len(s) : s[k] \in Peers
         /\ \A k, l \in 1 .. Len(s) : s[k] = s[l] => k = l
         /\ \A p : Contains(s, p) <=> \E k \in 1 .. Len(s) : s[k] = p
         /\ Len(s) <= Others + 1
  <1>1. Len(s) <= Others + 1
    BY PipesBound DEF FairQueue
  <1> QED
    BY <1>1 DEF FairQueue, IsInjective, Contains

\* Positions at which the pipes stay where they are.
LEMMA Unmoved ==
  ASSUME NEW s, NEW a \in Nat, NEW c \in Nat, NEW t, NEW b \in Nat, a <= b,
         \A j \in 1 .. a : t[j] = s[j]
  PROVE  Waits(s, a, c, t, b, c)
  <1> SUFFICES ASSUME NEW j \in 1 .. a
               PROVE  j \in 1 .. b /\ Ahead(j, c) <= Ahead(j, c)
    BY DEF Waits
  <1>1. Ahead(j, c) \in Int
    BY AheadIsInt
  <1> QED
    BY <1>1

LEMMA AttachedPipe ==
  ASSUME NEW s, NEW a, NEW c, FairQueue(s, a, c), NEW p \in Peers, ~Contains(s, p),
         NEW t, t = Swapped(Append(s, p), a + 1, Len(s) + 1)
  PROVE  /\ FairQueue(t, a + 1, c) /\ Waits(s, a, c, t, a + 1, c)
         /\ \A o \in Peers : Contains(t, o) <=> Contains(s, o) \/ o = p
  <1> DEFINE n == Len(s)
             u == Append(s, p)
             v == Swapped(u, a + 1, n + 1)
  <1>1. s \in Seq(Peers)
    BY DEF FairQueue
  <1>2. /\ n \in Nat /\ a \in Nat /\ c \in Nat /\ a <= n /\ c >= 1
        /\ a > 0 => c <= a
        /\ a = 0 => c = 1
        /\ \A k, l \in 1 .. n : s[k] = s[l] => k = l
        /\ \A o : Contains(s, o) <=> \E k \in 1 .. n : s[k] = o
    BY FairQueueFacts
  <1>3. /\ u \in Seq(Peers) /\ Len(u) = n + 1 /\ u[n + 1] = p /\ DOMAIN u = 1 .. n + 1
        /\ \A k \in 1 .. n : u[k] = s[k]
    BY <1>1
  <1>4. t = v
    OBVIOUS
  <1> HIDE DEF u, n
  <1>5. IsInjective(u)
    BY <1>2, <1>3 DEF IsInjective
  <1>6. a + 1 \in 1 .. Len(u) /\ n + 1 \in 1 .. Len(u)
    BY <1>2, <1>3
  <1>7. /\ v \in Seq(Peers) /\ Len(v) = Len(u) /\ IsInjective(v)
        /\ \A k \in 1 .. Len(u) :
             v[k] = IF k = n + 1 THEN u[a + 1] ELSE IF k = a + 1 THEN u[n + 1] ELSE u[k]
        /\ \A o \in Peers : Contains(v, o) <=> Contains(u, o)
    BY <1>3, <1>5, <1>6, SwappedPipes
  <1> HIDE DEF v
  <1>8. FairQueue(t, a + 1, c)
    BY <1>2, <1>3, <1>4, <1>7 DEF FairQueue
  <1>9. \A j \in 1 .. a : t[j] = s[j]
    BY <1>2, <1>3, <1>4, <1>7
  <1>10. Waits(s, a, c, t, a + 1, c)
    <2>1. a + 1 \in Nat /\ a <= a + 1
      BY <1>2
    <2> QED BY <1>2, <1>9, <2>1, Unmoved
  <1>11. ASSUME NEW o \in Peers PROVE Contains(u, o) <=> Contains(s, o) \/ o = p
    <2>1. Contains(u, o) <=> \E k \in 1 .. n + 1 : u[k] = o
      BY <1>3 DEF Contains
    <2> QED BY <1>2, <1>3, <2>1
  <1> QED
    BY <1>4, <1>7, <1>8, <1>10, <1>11

\* A pipe with a new request is swapped behind the active ones.
LEMMA ActivatedPipe ==
  ASSUME NEW s, NEW a, NEW c, FairQueue(s, a, c), NEW i \in 1 .. Len(s), i > a,
         NEW t, t = Swapped(s, i, a + 1)
  PROVE  /\ FairQueue(t, a + 1, c) /\ Waits(s, a, c, t, a + 1, c) /\ t[a + 1] = s[i]
         /\ \A o \in Peers : Contains(t, o) <=> Contains(s, o)
  <1> DEFINE n == Len(s)
             v == Swapped(s, i, a + 1)
  <1>1. s \in Seq(Peers) /\ IsInjective(s)
    BY DEF FairQueue
  <1>2. /\ n \in Nat /\ a \in Nat /\ c \in Nat /\ a <= n /\ c >= 1
        /\ a > 0 => c <= a
        /\ a = 0 => c = 1
    BY FairQueueFacts
  <1>3. t = v
    OBVIOUS
  <1>4. a + 1 \in 1 .. Len(s)
    BY <1>2
  <1>5. /\ v \in Seq(Peers) /\ Len(v) = Len(s) /\ IsInjective(v)
        /\ \A k \in 1 .. Len(s) :
             v[k] = IF k = a + 1 THEN s[i] ELSE IF k = i THEN s[a + 1] ELSE s[k]
        /\ \A o \in Peers : Contains(v, o) <=> Contains(s, o)
    BY <1>1, <1>4, SwappedPipes
  <1> HIDE DEF v, n
  <1>6. FairQueue(t, a + 1, c)
    BY <1>2, <1>3, <1>4, <1>5 DEF FairQueue
  <1>7. \A j \in 1 .. a : t[j] = s[j]
    BY <1>2, <1>3, <1>5 DEF n
  <1>8. Waits(s, a, c, t, a + 1, c)
    <2>1. a + 1 \in Nat /\ a <= a + 1
      BY <1>2
    <2> QED BY <1>2, <1>7, <2>1, Unmoved
  <1> QED
    BY <1>3, <1>4, <1>5, <1>6, <1>8

\* An active pipe that ends: the last active one takes its place.
LEMMA RemovedActive ==
  ASSUME NEW s, NEW a, NEW c, FairQueue(s, a, c), NEW i \in 1 .. Len(s), i <= a,
         arrived[s[i]] = <<>>,
         NEW t, t = Erased(Swapped(s, i, a), a), NEW d, d = IF c = a THEN 1 ELSE c
  PROVE  /\ FairQueue(t, a - 1, d) /\ Waits(s, a, c, t, a - 1, d)
         /\ \A o \in Peers : Contains(t, o) <=> Contains(s, o) /\ o # s[i]
  <1> DEFINE n == Len(s)
             v == Swapped(s, i, a)
             w == Erased(v, a)
  <1>1. s \in Seq(Peers) /\ IsInjective(s)
    BY DEF FairQueue
  <1>2. /\ n \in Nat /\ a \in Nat /\ c \in Nat /\ a <= n /\ c >= 1
        /\ a > 0 => c <= a
        /\ a = 0 => c = 1
        /\ n <= Others + 1
        /\ \A k, l \in 1 .. n : s[k] = s[l] => k = l
    BY FairQueueFacts
  <1>3. a \in 1 .. Len(s)
    BY <1>2
  <1>4. /\ v \in Seq(Peers) /\ Len(v) = Len(s) /\ IsInjective(v)
        /\ \A k \in 1 .. Len(s) : v[k] = IF k = a THEN s[i] ELSE IF k = i THEN s[a] ELSE s[k]
        /\ \A o \in Peers : Contains(v, o) <=> Contains(s, o)
    BY <1>1, <1>3, SwappedPipes
  <1>5. t = w
    OBVIOUS
  <1> HIDE DEF v
  <1>6. /\ t \in Seq(Peers) /\ Len(t) = Len(v) - 1 /\ IsInjective(t)
        /\ \A k \in 1 .. Len(t) : t[k] = IF k = a THEN v[Len(v)] ELSE v[k]
        /\ \A p : Contains(v, p) /\ p # v[a] => Contains(t, p)
        /\ \A p : Contains(t, p) => Contains(v, p) /\ p # v[a]
    <2>1. a \in 1 .. Len(v) /\ v \in Seq(Peers) /\ IsInjective(v)
      BY <1>3, <1>4
    <2>2. /\ w \in Seq(Peers) /\ Len(w) = Len(v) - 1 /\ IsInjective(w)
          /\ \A k \in 1 .. Len(w) : w[k] = IF k = a THEN v[Len(v)] ELSE v[k]
          /\ \A p : Contains(v, p) /\ p # v[a] => Contains(w, p)
          /\ \A p : Contains(w, p) => Contains(v, p) /\ p # v[a]
      BY <2>1, ErasedPipes
    <2> HIDE DEF w
    <2> QED BY <1>5, <2>2
  <1>7. Len(t) = n - 1 /\ v[a] = s[i]
    BY <1>3, <1>4, <1>6
  <1>8. \A k \in 1 .. a - 1 : t[k] = IF k = i THEN s[a] ELSE s[k]
    BY <1>2, <1>4, <1>6, <1>7
  <1> HIDE DEF n
  <1>9. FairQueue(t, a - 1, d)
    BY <1>2, <1>3, <1>6, <1>7 DEF FairQueue, n
  <1>10. ASSUME NEW p \in Peers, NEW j \in 1 .. a, arrived[p] # <<>>, s[j] = p
         PROVE  \E k \in 1 .. a - 1 : t[k] = p /\ Ahead(k, d) <= Ahead(j, c)
    <2>1. j # i /\ j \in 1 .. n /\ i \in 1 .. n /\ c \in 1 .. n /\ j \in Int /\ a \in Int
      BY <1>2, <1>10 DEF n
    <2>2. /\ Ahead(j, c) \in Int
          /\ c > j => Ahead(j, 1) < Ahead(j, c)
          /\ i < j /\ c <= j => Ahead(i, 1) <= Ahead(j, c)
          /\ i < j /\ c < j => Ahead(i, c) <= Ahead(j, c)
      <3>1. Others \in Int /\ n \in Int
        BY <1>2, <2>1, AheadIsInt
      <3> QED BY <1>2, <2>1, <3>1, AheadOfAnother
    <2>3. CASE j = a
      <3>1. i \in 1 .. a - 1 /\ t[i] = p
        BY <1>8, <1>10, <2>1, <2>3
      <3>2. Ahead(i, d) <= Ahead(j, c)
        BY <1>2, <2>1, <2>2, <2>3, <3>1
      <3> QED BY <3>1, <3>2
    <2>4. CASE j # a
      <3>1. j \in 1 .. a - 1 /\ t[j] = p
        BY <1>8, <1>10, <2>1, <2>4
      <3>2. Ahead(j, d) <= Ahead(j, c)
        <4>1. Ahead(j, 1) \in Int
          BY <2>1, AheadIsInt
        <4>2. CASE c = a
          BY <2>1, <2>2, <3>1, <4>1, <4>2
        <4>3. CASE c # a
          BY <2>2, <4>3
        <4> QED BY <4>2, <4>3
      <3> QED BY <3>1, <3>2
    <2> QED BY <2>3, <2>4
  <1> QED
    BY <1>4, <1>6, <1>7, <1>9, <1>10 DEF Waits

\* A pipe that ends when it is not active.
LEMMA RemovedInactive ==
  ASSUME NEW s, NEW a, NEW c, FairQueue(s, a, c), NEW i \in 1 .. Len(s), i > a,
         NEW t, t = Erased(s, i)
  PROVE  /\ FairQueue(t, a, c) /\ Waits(s, a, c, t, a, c)
         /\ \A o \in Peers : Contains(t, o) <=> Contains(s, o) /\ o # s[i]
  <1>1. s \in Seq(Peers) /\ IsInjective(s)
    BY DEF FairQueue
  <1>2. a \in Nat /\ c \in Nat /\ Len(s) \in Nat
    BY FairQueueFacts
  <1>3. /\ t \in Seq(Peers) /\ Len(t) = Len(s) - 1 /\ IsInjective(t)
        /\ \A k \in 1 .. Len(t) : t[k] = IF k = i THEN s[Len(s)] ELSE s[k]
        /\ \A p : Contains(s, p) /\ p # s[i] => Contains(t, p)
        /\ \A p : Contains(t, p) => Contains(s, p) /\ p # s[i]
    BY <1>1, ErasedPipes
  <1>4. FairQueue(t, a, c)
    BY <1>2, <1>3 DEF FairQueue
  <1>5. \A j \in 1 .. a : t[j] = s[j]
    BY <1>2, <1>3
  <1>6. Waits(s, a, c, t, a, c)
    BY <1>2, <1>5, Unmoved
  <1> QED
    BY <1>3, <1>4, <1>6

-----------------------------------------------------------------------------
(***************************************************************************)
(* Each operation keeps SocketInv.  Whether a peer connects, asks or goes  *)
(* at the right time is up to the program: it is an assumption here.       *)
(***************************************************************************)
\* A queue that goes on keeps the requests that wait.
LEMMA StillWaiting ==
  ASSUME NEW M, SocketInv(M), Queued', Waits(pipes, active, current, pipes', active', current'),
         UNCHANGED <<arrived, passed>>
  PROVE  Waiting'
  <1>1. active \in Nat /\ current \in Nat
    BY FairQueueFacts DEF SocketInv, Queued
  <1>2. active' \in Nat /\ current' \in Nat
    BY DEF Queued, FairQueue
  <1> SUFFICES ASSUME NEW p \in Peers, arrived[p] # <<>>
               PROVE  \E k \in 1 .. active' : /\ pipes'[k] = p
                                             /\ passed[p] + Ahead(k, current') <= Others * Others
    BY DEF Waiting, Ahead, Others
  <1>3. PICK j \in 1 .. active : pipes[j] = p /\ passed[p] + Ahead(j, current) <= Others * Others
    BY DEF SocketInv, Waiting
  <1>4. PICK k \in 1 .. active' : pipes'[k] = p /\ Ahead(k, current') <= Ahead(j, current)
    BY <1>3 DEF Waits
  <1>5. /\ Ahead(j, current) \in Int /\ Ahead(k, current') \in Int
        /\ Others * Others \in Int
    <2>1. j \in Int /\ k \in Int /\ current \in Int /\ current' \in Int
      BY <1>1, <1>2
    <2> QED BY <2>1, AheadIsInt
  <1>6. passed[p] \in Nat
    BY DEF SocketInv, Counters
  <1> QED
    BY <1>3, <1>4, <1>5, <1>6

\* Steps that leave the queue and the requests in it alone.
LEMMA QueueKept ==
  ASSUME NEW M, SocketInv(M), UNCHANGED <<fq_vars, arrived, passed>>
  PROVE  Queued' /\ Waiting'
  BY DEF SocketInv, fq_vars, Queued, FairQueue, Waiting, Ahead, Others

\* A step changes the exchange of one peer only.
LEMMA OthersExchange ==
  ASSUME NEW M, SocketInv(M), NEW o \in Peers,
         receiving_reply'[o] = receiving_reply[o], on_the_way'[o] = on_the_way[o],
         arrived'[o] = arrived[o], replies'[o] = replies[o], BeingAnswered(o)' = BeingAnswered(o)
  PROVE  InOnePlace(o)'
  BY NoExchange DEF InOnePlace, Places

LEMMA SendHolds ==
  ASSUME NEW M, SocketInv(M), NEW p \in Peers, NEW message \in M, req_send(p, message)
  PROVE  SocketInv(M)'
  <1> USE DEF req_send
  <1>1. Queued' /\ Waiting'
    BY QueueKept DEF rep_vars, fq_vars
  <1>2. Counters(M) /\ Answering
    BY DEF SocketInv
  <1>3. on_the_way[p] \in Seq(M) 
    BY <1>2 DEF Counters
  <1>4. /\ Append(on_the_way[p], message) \in Seq(M)
        /\ Len(Append(on_the_way[p], message)) = Len(on_the_way[p]) + 1
    BY <1>3
  <1>5. Counters(M)' /\ Answering'
    <2>1. on_the_way' \in [Peers -> Seq(M)]
      BY <1>2, <1>4 DEF Counters
    <2> QED BY <1>2, <2>1 DEF Counters, Answering, rep_vars
  <1>6. ASSUME NEW o \in Peers PROVE InOnePlace(o)'
    <2>1. arrived'[o] = arrived[o] /\ BeingAnswered(o)' = BeingAnswered(o)
      BY DEF rep_vars, BeingAnswered
    <2>2. CASE o = p
      <3>1. Places(o, 0, 0, 0, 0)
        BY <2>2, NoExchange DEF InOnePlace
      <3>2. Len(on_the_way'[o]) = Len(on_the_way[o]) + 1 /\ replies'[o] = 0 /\ receiving_reply'[o]
        BY <1>2, <1>4, <2>2 DEF Counters
      <3>3. Places(o, 1, 0, 0, 0)'
        BY <2>1, <3>1, <3>2 DEF Places
      <3> QED BY <3>2, <3>3 DEF InOnePlace
    <2>3. CASE o # p
      BY <1>2, <2>1, <2>3, OthersExchange DEF Counters
    <2> QED BY <2>2, <2>3
  <1>7. Connected'
    BY <1>2 DEF SocketInv, Connected, Counters, rep_vars, fq_vars
  <1> QED
    BY <1>1, <1>5, <1>6, <1>7, OneExchangeNext DEF SocketInv

LEMMA RecvHolds ==
  ASSUME NEW M, SocketInv(M), NEW p \in Peers, req_recv(p)
  PROVE  SocketInv(M)'
  <1> USE DEF req_recv
  <1>1. Queued' /\ Waiting'
    BY QueueKept DEF rep_vars, fq_vars
  <1>2. Counters(M) /\ Answering
    BY DEF SocketInv
  <1>3. replies[p] = 1
    BY <1>2 DEF Counters
  <1>4. Counters(M)' /\ Answering'
    <2>1. replies' \in [Peers -> 0 .. 1]
      BY <1>2, <1>3 DEF Counters
    <2> QED BY <1>2, <2>1 DEF Counters, Answering, rep_vars
  <1>5. ASSUME NEW o \in Peers PROVE InOnePlace(o)'
    <2>1. /\ on_the_way'[o] = on_the_way[o] /\ arrived'[o] = arrived[o]
          /\ BeingAnswered(o)' = BeingAnswered(o)
      BY DEF rep_vars, BeingAnswered
    <2>2. CASE o = p
      <3>1. Places(o, 0, 0, 0, 1)
        BY <1>3, <2>2, NoExchange DEF InOnePlace, Places
      <3>2. replies'[o] = replies[o] - 1 /\ ~receiving_reply'[o]
        BY <1>2, <2>2 DEF Counters
      <3>3. Places(o, 0, 0, 0, 0)'
        BY <2>1, <3>1, <3>2 DEF Places
      <3> QED BY <3>2, <3>3 DEF InOnePlace
    <2>3. CASE o # p
      BY <1>2, <2>1, <2>3, OthersExchange DEF Counters
    <2> QED BY <2>2, <2>3
  <1>6. Connected'
    BY <1>2 DEF SocketInv, Connected, Counters, rep_vars, fq_vars
  <1> QED
    BY <1>1, <1>4, <1>5, <1>6, OneExchangeNext DEF SocketInv

LEMMA AttachHolds ==
  ASSUME NEW M, SocketInv(M), NEW p \in Peers, ~Contains(pipes, p), attach(p)
  PROVE  SocketInv(M)'
  <1> USE DEF attach
  <1>1. Counters(M) /\ Queued /\ Answering
    BY DEF SocketInv
  <1>2. /\ Queued' /\ Waits(pipes, active, current, pipes', active', current')
        /\ \A o \in Peers : Contains(pipes', o) <=> Contains(pipes, o) \/ o = p
    <2> DEFINE t == Swapped(Append(pipes, p), active + 1, Len(pipes) + 1)
    <2>1. /\ FairQueue(t, active + 1, current) /\ Waits(pipes, active, current, t, active + 1, current)
          /\ \A o \in Peers : Contains(t, o) <=> Contains(pipes, o) \/ o = p
      <3>1. FairQueue(pipes, active, current) /\ ~Contains(pipes, p)
        BY <1>1 DEF Queued
      <3> HIDE DEF attach
      <3>2. t = Swapped(Append(pipes, p), active + 1, Len(pipes) + 1)
        OBVIOUS
      <3> HIDE DEF t
      <3> QED BY <3>1, <3>2, AttachedPipe
    <2>2. pipes' = t /\ active' = active + 1 /\ current' = current
      OBVIOUS
    <2> HIDE DEF t, attach
    <2> QED BY <2>1, <2>2 DEF Queued
  <1>3. Waiting'
    BY <1>2, StillWaiting
  <1>4. Counters(M)' /\ Answering'
    BY <1>1 DEF Counters, Answering, req_vars
  <1>5. OneExchange'
    BY <1>1 DEF SocketInv, OneExchange, Counters, req_vars
  <1>6. Connected'
    BY <1>1, <1>2 DEF SocketInv, Connected, Answering
  <1> QED
    BY <1>2, <1>3, <1>4, <1>5, <1>6 DEF SocketInv

LEMMA TerminateHolds ==
  ASSUME NEW M, SocketInv(M), NEW p \in Peers, Contains(pipes, p), ~receiving_reply[p],
         pipe_terminated(p)
  PROVE  SocketInv(M)'
  <1>1. Counters(M) /\ Queued /\ Answering
    BY DEF SocketInv
  <1>2. arrived[p] = <<>> /\ current_out # p
    <2>1. ~receiving_reply[p]
      BY DEF SocketInv
    <2>2. Places(p, 0, 0, 0, 0)
      BY <2>1, NoExchange DEF InOnePlace
    <2> QED BY <2>2, NoExchange DEF Places, BeingAnswered
  <1> DEFINE i == PositionOf(p)
  <1>3. i \in 1 .. Len(pipes) /\ pipes[i] = p
    BY PositionOfPipe DEF SocketInv
  <1>4. UNCHANGED <<arrived, sending_reply, current_out, passed, req_vars>>
    BY DEF pipe_terminated
  <1>5. /\ i <= active => /\ pipes' = Erased(Swapped(pipes, i, active), active)
                          /\ active' = active - 1
                          /\ current' = IF current = active THEN 1 ELSE current
        /\ ~(i <= active) => /\ pipes' = Erased(pipes, i)
                             /\ active' = active /\ current' = current
    BY DEF pipe_terminated
  <1> HIDE DEF i
  <1>6. /\ Queued' /\ Waits(pipes, active, current, pipes', active', current')
        /\ \A o \in Peers : Contains(pipes', o) <=> Contains(pipes, o) /\ o # p
    <2>1. CASE i <= active
      <3> DEFINE t == Erased(Swapped(pipes, i, active), active)
                 d == IF current = active THEN 1 ELSE current
      <3>1. /\ FairQueue(t, active - 1, d) /\ Waits(pipes, active, current, t, active - 1, d)
            /\ \A o \in Peers : Contains(t, o) <=> Contains(pipes, o) /\ o # pipes[i]
        <4>1. FairQueue(pipes, active, current) /\ arrived[pipes[i]] = <<>>
          BY <1>1, <1>2, <1>3 DEF Queued
        <4>2. /\ t = Erased(Swapped(pipes, i, active), active)
              /\ d = IF current = active THEN 1 ELSE current
          OBVIOUS
        <4> HIDE DEF t, d
        <4> QED BY <1>3, <2>1, <4>1, <4>2, RemovedActive
      <3>2. pipes' = t /\ active' = active - 1 /\ current' = d
        BY <1>5, <2>1
      <3> HIDE DEF t, d
      <3> QED BY <1>3, <3>1, <3>2 DEF Queued
    <2>2. CASE ~(i <= active)
      <3> DEFINE t == Erased(pipes, i)
      <3>1. /\ FairQueue(t, active, current) /\ Waits(pipes, active, current, t, active, current)
            /\ \A o \in Peers : Contains(t, o) <=> Contains(pipes, o) /\ o # pipes[i]
        <4>1. FairQueue(pipes, active, current) /\ i > active
          BY <1>1, <1>3, <2>2, FairQueueFacts DEF Queued
        <4>2. t = Erased(pipes, i)
          OBVIOUS
        <4> HIDE DEF t
        <4> QED BY <1>3, <4>1, <4>2, RemovedInactive
      <3>2. pipes' = t /\ active' = active /\ current' = current
        BY <1>5, <2>2
      <3> HIDE DEF t
      <3> QED BY <1>3, <3>1, <3>2 DEF Queued
    <2> QED BY <2>1, <2>2
  <1>7. Waiting'
    BY <1>4, <1>6, StillWaiting
  <1>8. Counters(M)' /\ Answering'
    BY <1>1, <1>4 DEF Counters, Answering, req_vars
  <1>9. OneExchange'
    BY <1>1, <1>4 DEF SocketInv, OneExchange, Counters, req_vars
  <1>10. Connected'
    BY <1>1, <1>2, <1>4, <1>6 DEF SocketInv, Connected, Answering
  <1> QED
    BY <1>6, <1>7, <1>8, <1>9, <1>10 DEF SocketInv

LEMMA ArriveHolds ==
  ASSUME NEW M, SocketInv(M), NEW p \in Peers, Arrive(p)
  PROVE  SocketInv(M)'
  <1>1. Counters(M) /\ Queued /\ Answering
    BY DEF SocketInv
  <1>2. /\ on_the_way[p] # <<>> /\ Contains(pipes, p)
        /\ arrived' = [arrived EXCEPT ![p] = Append(@, Head(on_the_way[p]))]
        /\ on_the_way' = [on_the_way EXCEPT ![p] = Tail(@)]
        /\ passed' = [passed EXCEPT ![p] = 0]
        /\ UNCHANGED <<current, sending_reply, current_out, receiving_reply, replies>>
    BY DEF Arrive
  <1>3. on_the_way[p] \in Seq(M) /\ arrived[p] \in Seq(M)
    BY <1>1 DEF Counters
  <1>4. /\ Tail(on_the_way[p]) \in Seq(M) /\ Len(Tail(on_the_way[p])) = Len(on_the_way[p]) - 1
        /\ Append(arrived[p], Head(on_the_way[p])) \in Seq(M)
        /\ Len(Append(arrived[p], Head(on_the_way[p]))) = Len(arrived[p]) + 1
    BY <1>2, <1>3
  <1>5. Counters(M)' /\ Answering'
    <2>1. arrived' \in [Peers -> Seq(M)] /\ on_the_way' \in [Peers -> Seq(M)]
      BY <1>1, <1>2, <1>4 DEF Counters
    <2>2. passed' \in [Peers -> Nat]
      BY <1>1, <1>2 DEF Counters
    <2> QED BY <1>1, <1>2, <2>1, <2>2 DEF Counters, Answering
  <1> DEFINE i == PositionOf(p)
  <1>6. i \in 1 .. Len(pipes) /\ pipes[i] = p
    BY <1>2, PositionOfPipe DEF SocketInv
  <1>7. /\ i > active => pipes' = Swapped(pipes, i, active + 1) /\ active' = active + 1
        /\ ~(i > active) => pipes' = pipes /\ active' = active
    BY DEF Arrive
  <1> HIDE DEF i
  <1>8. /\ Queued' /\ Waits(pipes, active, current, pipes', active', current')
        /\ \A o \in Peers : Contains(pipes', o) <=> Contains(pipes, o)
        /\ \E k \in 1 .. active' : pipes'[k] = p
    <2>0. active \in Nat /\ current \in Nat
      BY <1>1, FairQueueFacts DEF Queued
    <2>1. CASE i > active
      <3> DEFINE t == Swapped(pipes, i, active + 1)
      <3>1. /\ FairQueue(t, active + 1, current) /\ Waits(pipes, active, current, t, active + 1, current)
            /\ \A o \in Peers : Contains(t, o) <=> Contains(pipes, o)
            /\ t[active + 1] = pipes[i]
        <4>1. FairQueue(pipes, active, current)
          BY <1>1 DEF Queued
        <4>2. t = Swapped(pipes, i, active + 1)
          OBVIOUS
        <4> HIDE DEF t
        <4> QED BY <1>6, <2>1, <4>1, <4>2, ActivatedPipe
      <3>2. pipes' = t /\ active' = active + 1 /\ current' = current
        BY <1>2, <1>7, <2>1
      <3> HIDE DEF t
      <3>3. active' \in 1 .. active' /\ pipes'[active'] = p
        BY <1>6, <2>0, <3>1, <3>2
      <3> QED BY <3>1, <3>2, <3>3 DEF Queued
    <2>2. CASE ~(i > active)
      <3>1. pipes' = pipes /\ active' = active /\ current' = current
        BY <1>2, <1>7, <2>2
      <3>2. Waits(pipes, active, current, pipes, active, current)
        BY <2>0, Unmoved
      <3>3. i \in 1 .. active
        BY <1>6, <2>0, <2>2
      <3> QED BY <1>1, <1>6, <3>1, <3>2, <3>3 DEF Queued
    <2> QED BY <2>1, <2>2
  <1>9. Waiting'
    <2>1. Others * Others \in Int /\ active' \in Nat /\ current' \in Nat
      BY <1>8, PeersAssumption, FS_CardinalityType DEF Queued, FairQueue, Others
    <2> SUFFICES ASSUME NEW o \in Peers, arrived'[o] # <<>>
                 PROVE  \E k \in 1 .. active' : /\ pipes'[k] = o
                                               /\ passed'[o] + Ahead(k, current') <= Others * Others
      BY DEF Waiting, Ahead, Others
    <2>2. CASE o = p
      <3>1. PICK k \in 1 .. active' : pipes'[k] = o
        BY <1>8, <2>2
      <3>2. Ahead(k, current') <= Others * Others
        <4> DEFINE n == active'
                   c == current'
        <4>1. n \in Int /\ k \in 1 .. n /\ c \in 1 .. n /\ Others \in Int /\ n <= Others + 1
          <5> DEFINE s == pipes'
          <5>1. FairQueue(s, n, c)
            BY <1>8 DEF Queued
          <5> HIDE DEF s, n, c
          <5>2. /\ n \in Nat /\ c \in Nat /\ Len(s) \in Nat /\ n <= Len(s) /\ c >= 1
                /\ n > 0 => c <= n
                /\ Len(s) <= Others + 1
            BY <5>1, FairQueueFacts
          <5>3. k \in 1 .. n
            BY DEF n
          <5>4. Others \in Int
            BY PeersAssumption, FS_CardinalityType DEF Others
          <5> QED BY <5>2, <5>3, <5>4
        <4> HIDE DEF n, c
        <4>2. Ahead(k, c) <= Others * Others
          BY <4>1, AheadOfAnother
        <4> QED BY <4>2 DEF c
      <3>3. passed'[o] = 0
        BY <1>1, <1>2, <2>2 DEF Counters
      <3>4. Ahead(k, current') \in Int
        <4>1. k \in Int /\ current' \in Int
          BY <2>1
        <4> QED BY <4>1, AheadIsInt
      <3> QED BY <3>1, <3>2, <3>3, <3>4
    <2>3. CASE o # p
      <3>1. arrived[o] # <<>> /\ passed'[o] = passed[o] /\ passed[o] \in Nat
        BY <1>1, <1>2, <2>3 DEF Counters
      <3>2. PICK j \in 1 .. active : /\ pipes[j] = o
                                     /\ passed[o] + Ahead(j, current) <= Others * Others
        BY <3>1 DEF SocketInv, Waiting
      <3>3. PICK k \in 1 .. active' : pipes'[k] = o /\ Ahead(k, current') <= Ahead(j, current)
        BY <1>8, <3>1, <3>2 DEF Waits
      <3>4. Ahead(k, current') \in Int /\ Ahead(j, current) \in Int
        <4>1. k \in Int /\ j \in Int /\ current' \in Int /\ current \in Int
          BY <1>1, <2>1, FairQueueFacts DEF Queued
        <4> QED BY <4>1, AheadIsInt
      <3> QED BY <2>1, <3>1, <3>2, <3>3, <3>4
    <2> QED BY <2>2, <2>3
  <1>10. ASSUME NEW o \in Peers PROVE InOnePlace(o)'
    <2>1. /\ receiving_reply'[o] = receiving_reply[o] /\ replies'[o] = replies[o]
          /\ BeingAnswered(o)' = BeingAnswered(o)
      BY <1>2 DEF BeingAnswered
    <2>2. CASE o = p
      <3>1. receiving_reply[o] /\ Places(o, 1, 0, 0, 0)
        BY <1>2, <2>2, NoExchange DEF InOnePlace, Places
      <3>2. Len(on_the_way'[o]) = Len(on_the_way[o]) - 1 /\ Len(arrived'[o]) = Len(arrived[o]) + 1
        BY <1>1, <1>2, <1>4, <2>2 DEF Counters
      <3>3. Places(o, 0, 1, 0, 0)'
        BY <2>1, <3>1, <3>2 DEF Places
      <3> QED BY <2>1, <3>1, <3>3 DEF InOnePlace
    <2>3. CASE o # p
      BY <1>1, <1>2, <2>1, <2>3, OthersExchange DEF Counters
    <2> QED BY <2>2, <2>3
  <1>11. Connected'
    BY <1>1, <1>2, <1>8 DEF SocketInv, Connected, Answering
  <1> QED
    BY <1>5, <1>8, <1>9, <1>10, <1>11, OneExchangeNext DEF SocketInv

\* A request is taken: those that still wait come nearer by one.
LEMMA TakenOne ==
  ASSUME NEW s, NEW a, NEW c, FairQueue(s, a, c), a > 0, NEW d, d = IF c = a THEN 1 ELSE c + 1
  PROVE  /\ FairQueue(s, a, d)
         /\ \A j \in 1 .. a : j # c => Ahead(j, d) + 1 <= Ahead(j, c)
  <1>1. /\ a \in Nat /\ c \in Nat /\ Len(s) \in Nat /\ a <= Len(s) /\ c >= 1 /\ c <= a
        /\ Len(s) <= Others + 1
    BY FairQueueFacts
  <1>2. FairQueue(s, a, d)
    BY <1>1 DEF FairQueue
  <1>3. ASSUME NEW j \in 1 .. a, j # c PROVE Ahead(j, d) + 1 <= Ahead(j, c)
    <2>1. Others \in Int
      BY PeersAssumption, FS_CardinalityType DEF Others
    <2>2. j \in 1 .. a /\ c \in 1 .. a /\ a \in Int /\ a <= Others + 1 /\ j \in Int
      BY <1>1, <2>1
    <2>3. /\ c > j => Ahead(j, 1) < Ahead(j, c)
          /\ c # j => Ahead(j, c + 1) < Ahead(j, c)
      BY <2>1, <2>2, AheadOfAnother
    <2>4. Ahead(j, 1) \in Int /\ Ahead(j, c + 1) \in Int /\ Ahead(j, c) \in Int
      <3>1. c + 1 \in Int /\ c \in Int /\ 1 \in Int
        BY <1>1
      <3>2. Ahead(j, 1) \in Int
        BY <2>2, <3>1, AheadIsInt
      <3>3. Ahead(j, c + 1) \in Int
        BY <2>2, <3>1, AheadIsInt
      <3>4. Ahead(j, c) \in Int
        BY <2>2, <3>1, AheadIsInt
      <3> QED BY <3>2, <3>3, <3>4
    <2>5. CASE c = a
      <3>1. c > j /\ d = 1
        BY <1>1, <1>3, <2>2, <2>5
      <3> QED BY <2>3, <2>4, <3>1
    <2>6. CASE c # a
      BY <1>3, <2>3, <2>4, <2>6
    <2> QED BY <2>5, <2>6
  <1> QED
    BY <1>2, <1>3

LEMMA TakeHolds ==
  ASSUME NEW M, SocketInv(M), rep_recv
  PROVE  SocketInv(M)'
  <1>1. Counters(M) /\ Queued /\ Answering
    BY DEF SocketInv
  <1>2. PICK q : q = Searched
    OBVIOUS
  <1>3. /\ Fits(q) /\ ~is_empty(q) /\ SamePipes(pipes, q.pipes)
        /\ Waits(pipes, active, current, q.pipes, q.active, q.current)
    BY <1>2, SearchedFits DEF SocketInv
  <1> DEFINE s == q.pipes
             a == q.active
             c == q.current
             d == IF c = a THEN 1 ELSE c + 1
             p == s[c]
  <1>4. /\ a > 0 /\ ~sending_reply
        /\ arrived' = [arrived EXCEPT ![p] = Tail(@)]
        /\ pipes' = s /\ active' = a /\ current' = d
        /\ sending_reply' = TRUE /\ current_out' = p
        /\ passed' = [o \in Peers |-> IF o # p /\ arrived[o] # <<>> THEN passed[o] + 1 ELSE 0]
        /\ UNCHANGED req_vars
    BY <1>2 DEF rep_recv, HasRequest, NextPeer, next_pipe
  <1>5. FairQueue(s, a, c) /\ a \in Nat /\ c \in Nat
    BY <1>3 DEF Fits
  <1>6. arrived[p] # <<>>
    BY <1>3, <1>4 DEF is_empty
  <1>7. /\ FairQueue(s, a, d)
        /\ \A j \in 1 .. a : j # c => Ahead(j, d) + 1 <= Ahead(j, c)
    <2>1. a > 0 /\ d = IF c = a THEN 1 ELSE c + 1
      BY <1>4
    <2> HIDE DEF s, a, c, d
    <2> QED BY <1>5, <2>1, TakenOne
  <1>8. p \in Peers /\ c \in 1 .. a /\ c \in 1 .. Len(s)
    <2>1. a > 0
      BY <1>4
    <2> HIDE DEF s, a, c
    <2>2. c <= a /\ a <= Len(s) /\ c >= 1 /\ Len(s) \in Nat
      BY <1>5, <2>1, FairQueueFacts
    <2> QED BY <1>5, <2>2, FairQueueFacts
  <1>9. /\ Contains(s, p)
        /\ \A o \in Peers : Contains(s, o) <=> Contains(pipes, o)
        /\ Waits(pipes, active, current, s, a, c)
    <2>1. Contains(s, p)
      <3>1. \E k \in 1 .. Len(s) : s[k] = p
        BY <1>8
      <3> HIDE DEF s, a, c, p
      <3> QED BY <1>5, <3>1, FairQueueFacts
    <2> QED BY <1>3, <2>1 DEF SamePipes
  <1> HIDE DEF s, a, c, d, p
  <1>10. Places(p, 0, 1, 0, 0) /\ receiving_reply[p]
    BY <1>6, <1>8, NoExchange DEF InOnePlace, Places
  <1>11. Tail(arrived[p]) \in Seq(M) /\ Len(Tail(arrived[p])) = 0 /\ Tail(arrived[p]) = <<>>
    <2>1. arrived[p] \in Seq(M) /\ Len(arrived[p]) = 1
      BY <1>1, <1>8, <1>10 DEF Counters, Places
    <2>2. Tail(arrived[p]) \in Seq(M) /\ Len(Tail(arrived[p])) = 0
      BY <1>6, <2>1
    <2> DEFINE t == Tail(arrived[p])
    <2>3. t \in Seq(M) /\ Len(t) = 0
      BY <2>2
    <2> HIDE DEF t
    <2>4. t = <<>>
      BY <2>3
    <2> QED BY <2>3, <2>4 DEF t
  <1>12. Queued'
    BY <1>4, <1>7 DEF Queued
  <1>13. Counters(M)' /\ Answering'
    <2>1. arrived' \in [Peers -> Seq(M)]
      BY <1>1, <1>4, <1>8, <1>11 DEF Counters
    <2>2. passed' \in [Peers -> Nat]
      BY <1>1, <1>4 DEF Counters
    <2>3. Counters(M)'
      BY <1>1, <1>4, <2>1, <2>2 DEF Counters, req_vars
    <2>4. p # NoPeer
      BY <1>8, PeersAssumption
    <2>5. sending_reply' = (current_out' # NoPeer)
      <3>1. (current_out' # NoPeer) = TRUE
        BY <1>4, <2>4
      <3> QED BY <1>4, <3>1
    <2> QED BY <1>4, <1>8, <2>3, <2>5 DEF Answering
  <1>14. Waiting'
    <2> SUFFICES ASSUME NEW o \in Peers, arrived'[o] # <<>>
                 PROVE  \E k \in 1 .. a : s[k] = o /\ passed'[o] + Ahead(k, d) <= Others * Others
      BY <1>4 DEF Waiting, Ahead, Others
    <2>1. o # p /\ arrived[o] # <<>> /\ passed'[o] = passed[o] + 1 /\ passed[o] \in Nat
      BY <1>1, <1>4, <1>8, <1>11 DEF Counters
    <2>2. PICK j \in 1 .. active : pipes[j] = o /\ passed[o] + Ahead(j, current) <= Others * Others
      BY <2>1 DEF SocketInv, Waiting
    <2>3. PICK k \in 1 .. a : s[k] = o /\ Ahead(k, c) <= Ahead(j, current)
      BY <1>9, <2>1, <2>2 DEF Waits
    <2>4. k # c
      BY <2>1, <2>3 DEF p
    <2>5. Ahead(k, d) + 1 <= Ahead(k, c)
      BY <1>7, <2>4
    <2>6. /\ Ahead(k, d) \in Int /\ Ahead(k, c) \in Int /\ Ahead(j, current) \in Int
          /\ Others * Others \in Int
      <3>1. k \in Int /\ j \in Int /\ c \in Int /\ d \in Int /\ current \in Int
        BY <1>1, <1>5, FairQueueFacts DEF Queued, d
      <3> QED BY <3>1, AheadIsInt
    <2>7. passed'[o] + Ahead(k, d) <= Others * Others
      <3> DEFINE x == passed[o]
                 y == passed'[o]
      <3>1. x \in Nat /\ y = x + 1 /\ x + Ahead(j, current) <= Others * Others
        BY <2>1, <2>2
      <3> HIDE DEF x, y
      <3>2. y + Ahead(k, d) <= Others * Others
        BY <2>3, <2>5, <2>6, <3>1
      <3> QED BY <3>2 DEF y
    <2> QED BY <2>3, <2>7
  <1>15. ASSUME NEW o \in Peers PROVE InOnePlace(o)'
    <2>1. /\ receiving_reply'[o] = receiving_reply[o] /\ replies'[o] = replies[o]
          /\ on_the_way'[o] = on_the_way[o]
      BY <1>4 DEF req_vars
    <2>2. current_out = NoPeer /\ o # NoPeer
      BY <1>1, <1>4, PeersAssumption DEF Answering
    <2>3. CASE o = p
      <3>1. arrived'[o] = <<>> /\ Len(arrived'[o]) = 0
        BY <1>1, <1>4, <1>8, <1>11, <2>3 DEF Counters
      <3>2. BeingAnswered(o)' = 1
        BY <1>4, <2>3 DEF BeingAnswered
      <3>3. Places(o, 0, 0, 1, 0)'
        BY <1>10, <2>1, <2>3, <3>1, <3>2 DEF Places
      <3> QED BY <1>10, <2>1, <2>3, <3>3 DEF InOnePlace
    <2>4. CASE o # p
      <3>1. arrived'[o] = arrived[o]
        BY <1>1, <1>4, <2>4 DEF Counters
      <3>2. BeingAnswered(o)' = BeingAnswered(o)
        BY <1>4, <2>2, <2>4 DEF BeingAnswered
      <3> QED BY <2>1, <3>1, <3>2, OthersExchange
    <2> QED BY <2>3, <2>4
  <1>16. Connected'
    BY <1>1, <1>4, <1>9 DEF SocketInv, Connected, req_vars
  <1> QED
    BY <1>12, <1>13, <1>14, <1>15, <1>16, OneExchangeNext DEF SocketInv

LEMMA TakeNoneHolds ==
  ASSUME NEW M, SocketInv(M), rep_recv_none
  PROVE  SocketInv(M)'
  <1>1. Counters(M) /\ Queued /\ Answering
    BY DEF SocketInv
  <1>2. PICK q : q = Searched
    OBVIOUS
  <1>3. /\ Fits(q) /\ SamePipes(pipes, q.pipes)
        /\ Waits(pipes, active, current, q.pipes, q.active, q.current)
    BY <1>2, SearchedFits DEF SocketInv
  <1>4. /\ pipes' = q.pipes /\ active' = 0 /\ current' = q.current /\ ~(q.active > 0)
        /\ UNCHANGED <<arrived, sending_reply, current_out, passed, req_vars>>
    BY <1>2 DEF rep_recv_none, HasRequest
  <1>5. q.active = 0
    BY <1>3, <1>4 DEF Fits
  <1>6. Queued' /\ Waits(pipes, active, current, pipes', active', current')
    BY <1>3, <1>4, <1>5 DEF Fits, Queued
  <1>7. Waiting'
    BY <1>4, <1>6, StillWaiting
  <1>8. Counters(M)' /\ Answering'
    BY <1>1, <1>4 DEF Counters, Answering, req_vars
  <1>9. OneExchange'
    BY <1>1, <1>4 DEF SocketInv, OneExchange, Counters, req_vars
  <1>10. Connected'
    BY <1>1, <1>3, <1>4 DEF SocketInv, Connected, Answering, SamePipes
  <1> QED
    BY <1>6, <1>7, <1>8, <1>9, <1>10 DEF SocketInv

LEMMA ReplyHolds ==
  ASSUME NEW M, SocketInv(M), rep_send
  PROVE  SocketInv(M)' /\ Places(current_out, 0, 0, 1, 0) /\ replies'[current_out] = 1
  <1>1. Counters(M) /\ Queued /\ Answering
    BY DEF SocketInv
  <1>2. /\ sending_reply
        /\ replies' = [p \in Peers |->
                         IF p = current_out /\ Contains(pipes, p) THEN replies[p] + 1 ELSE replies[p]]
        /\ sending_reply' = FALSE /\ current_out' = NoPeer
        /\ UNCHANGED <<arrived, fq_vars, passed, receiving_reply, on_the_way>>
    BY DEF rep_send
  <1>3. current_out \in Peers /\ Contains(pipes, current_out)
    BY <1>1, <1>2 DEF SocketInv, Connected, Answering
  <1>4. Places(current_out, 0, 0, 1, 0) /\ receiving_reply[current_out]
    BY <1>3, NoExchange DEF InOnePlace, Places, BeingAnswered
  <1>5. replies[current_out] = 0
    BY <1>4 DEF Places
  <1>6. replies'[current_out] = 1
    BY <1>2, <1>3, <1>5
  <1>7. Queued' /\ Waiting'
    BY <1>2, QueueKept DEF fq_vars
  <1>8. Counters(M)' /\ Answering'
    <2>1. replies' \in [Peers -> 0 .. 1]
      BY <1>1, <1>2, <1>5 DEF Counters
    <2>2. (current_out' # NoPeer) = FALSE
      BY <1>2
    <2> QED BY <1>1, <1>2, <2>1, <2>2 DEF Counters, Answering
  <1>9. ASSUME NEW o \in Peers PROVE InOnePlace(o)'
    <2>1. /\ receiving_reply'[o] = receiving_reply[o] /\ on_the_way'[o] = on_the_way[o]
          /\ arrived'[o] = arrived[o]
      BY <1>2
    <2>2. BeingAnswered(o)' = 0
      BY <1>2, PeersAssumption DEF BeingAnswered
    <2>3. CASE o = current_out
      <3>1. Places(o, 0, 0, 0, 1)'
        BY <1>4, <1>6, <2>1, <2>2, <2>3 DEF Places
      <3> QED BY <1>4, <2>1, <2>3, <3>1 DEF InOnePlace
    <2>4. CASE o # current_out
      <3>1. replies'[o] = replies[o] /\ BeingAnswered(o) = 0
        BY <1>2, <2>4 DEF BeingAnswered
      <3> QED BY <2>1, <2>2, <3>1, OthersExchange
    <2> QED BY <2>3, <2>4
  <1>10. Connected'
    BY <1>1, <1>2 DEF SocketInv, Connected
  <1> QED
    BY <1>4, <1>6, <1>7, <1>8, <1>9, <1>10, OneExchangeNext DEF SocketInv

LEMMA SocketsStay ==
  ASSUME NEW M, SocketInv(M), UNCHANGED socket_vars
  PROVE  SocketInv(M)'
  <1>1. UNCHANGED <<req_vars, arrived, fq_vars, sending_reply, current_out, passed>>
    BY DEF socket_vars, rep_vars
  <1>2. Queued' /\ Waiting'
    BY <1>1, QueueKept
  <1>3. Counters(M)' /\ Answering'
    BY <1>1 DEF SocketInv, req_vars, Counters, Answering
  <1>4. OneExchange' /\ Connected'
    BY <1>1 DEF SocketInv, req_vars, fq_vars, OneExchange, Connected
  <1> QED
    BY <1>2, <1>3, <1>4 DEF SocketInv

LEMMA SocketsStart == ASSUME NEW M, SocketInit PROVE SocketInv(M)
  <1> USE DEF SocketInit
  <1>1. <<>> \in Seq(Peers) /\ Len(<<>>) = 0 /\ IsInjective(<<>>)
    BY DEF IsInjective
  <1>2. Counters(M)
    <2>1. <<>> \in Seq(M)
      OBVIOUS
    <2> QED BY <2>1 DEF Counters
  <1>3. Queued
    BY <1>1 DEF Queued, FairQueue
  <1>4. Answering
    <2>1. current_out \in Peers \cup {NoPeer} /\ (current_out # NoPeer) = FALSE
      OBVIOUS
    <2> QED BY <2>1 DEF Answering
  <1>5. OneExchange
    BY <1>1, PeersAssumption DEF OneExchange
  <1> QED
    BY <1>2, <1>3, <1>4, <1>5 DEF SocketInv, Waiting, Connected

\* Ahead is never negative: what waits has been passed by (N - 1)^2 others at most.
LEMMA BypassBounded == ASSUME NEW M, SocketInv(M) PROVE BoundedBypass
  <1> SUFFICES ASSUME NEW p \in Peers, arrived[p] # <<>> PROVE passed[p] <= Others * Others
    BY DEF BoundedBypass
  <1>1. PICK j \in 1 .. active : pipes[j] = p /\ passed[p] + Ahead(j, current) <= Others * Others
    BY DEF SocketInv, Waiting
  <1> DEFINE n == active
             c == current
             x == passed[p]
  <1>2. n \in Int /\ j \in 1 .. n /\ c \in 1 .. n /\ n <= Others + 1 /\ Others \in Int
    <2>1. /\ n \in Nat /\ c \in Nat /\ Len(pipes) \in Nat /\ n <= Len(pipes) /\ c >= 1
          /\ n > 0 => c <= n
          /\ Len(pipes) <= Others + 1
      BY FairQueueFacts DEF SocketInv, Queued
    <2>2. Others \in Int
      BY PeersAssumption, FS_CardinalityType DEF Others
    <2> QED BY <2>1, <2>2
  <1>3. x \in Nat
    BY DEF SocketInv, Counters
  <1>4. x + Ahead(j, c) <= Others * Others
    BY <1>1
  <1> HIDE DEF n, c, x
  <1>5. 0 <= Ahead(j, c) /\ Ahead(j, c) \in Int /\ Others * Others \in Int
    BY <1>2, AheadOfAnother
  <1>6. x <= Others * Others
    BY <1>3, <1>4, <1>5
  <1> QED BY <1>6 DEF x

\* The peer whose request is taken, and what becomes of it.
LEMMA TakenRequest ==
  ASSUME NEW M, SocketInv(M), rep_recv
  PROVE  \E p \in Peers :
           /\ p = NextPeer /\ current_out' = p
           /\ arrived[p] # <<>> /\ receiving_reply[p] /\ Places(p, 0, 1, 0, 0)
           /\ arrived' = [arrived EXCEPT ![p] = <<>>]
           /\ UNCHANGED req_vars
           /\ \A o \in Peers : Contains(pipes', o) <=> Contains(pipes, o)
  <1>1. Counters(M) /\ Queued
    BY DEF SocketInv
  <1>2. PICK q : q = Searched
    OBVIOUS
  <1>3. /\ Fits(q) /\ ~is_empty(q) /\ SamePipes(pipes, q.pipes)
    BY <1>1, <1>2, SearchedFits
  <1> DEFINE s == q.pipes
             a == q.active
             c == q.current
             p == s[c]
  <1>4. /\ a > 0 /\ p = NextPeer /\ pipes' = s
        /\ arrived' = [arrived EXCEPT ![p] = Tail(@)]
        /\ current_out' = p
        /\ UNCHANGED req_vars
    BY <1>2 DEF rep_recv, HasRequest, NextPeer, next_pipe
  <1>5. FairQueue(s, a, c) /\ a \in Nat /\ c \in Nat
    BY <1>3 DEF Fits
  <1>6. arrived[p] # <<>>
    BY <1>3, <1>4 DEF is_empty
  <1>7. p \in Peers
    <2>1. a > 0
      BY <1>4
    <2> HIDE DEF s, a, c
    <2>2. c <= a /\ a <= Len(s) /\ c >= 1 /\ Len(s) \in Nat
      BY <1>5, <2>1, FairQueueFacts
    <2> QED BY <1>5, <2>2, FairQueueFacts
  <1> HIDE DEF a, c, p
  <1>8. \A o \in Peers : Contains(pipes', o) <=> Contains(pipes, o)
    BY <1>3, <1>4 DEF SamePipes
  <1>9. Places(p, 0, 1, 0, 0) /\ receiving_reply[p]
    BY <1>6, <1>7, NoExchange DEF InOnePlace, Places
  <1>10. Tail(arrived[p]) = <<>>
    <2>1. arrived[p] \in Seq(M) /\ Len(arrived[p]) = 1
      BY <1>1, <1>7, <1>9 DEF Counters, Places
    <2> DEFINE t == Tail(arrived[p])
    <2>2. t \in Seq(M) /\ Len(t) = 0
      BY <1>6, <2>1
    <2> HIDE DEF t
    <2>3. t = <<>>
      BY <2>2
    <2> QED BY <2>3 DEF t
  <1>11. arrived' = [arrived EXCEPT ![p] = <<>>]
    BY <1>4, <1>10
  <1> QED
    BY <1>4, <1>6, <1>7, <1>8, <1>9, <1>11
=============================================================================
