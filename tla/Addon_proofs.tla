---------------------------- MODULE Addon_proofs -----------------------------
(***************************************************************************)
(* Theorems about parseFile and what follows from it, for any files, any   *)
(* number of calls and any interleaving of their threads.                  *)
(***************************************************************************)
EXTENDS Addon, ReqRep_proofs

-----------------------------------------------------------------------------
(* Sequences of anything: the elements of a file have no common type. *)

LEMMA SequenceOfElements ==
  ASSUME NEW s
  PROVE  /\ IsSequence(s) <=> s \in Seq(Range(s))
         /\ IsSequence(s) => DOMAIN s = 1 .. Len(s) /\ Len(s) \in Nat
  <1>1. ASSUME IsSequence(s) PROVE s \in Seq(Range(s)) /\ DOMAIN s = 1 .. Len(s) /\ Len(s) \in Nat
    <2>1. PICK n \in Nat : n = Len(s) /\ s = [i \in 1 .. n |-> s[i]]
      BY <1>1 DEF IsSequence
    <2>2. DOMAIN s = 1 .. n /\ \A i \in 1 .. n : s[i] \in Range(s)
      BY <2>1 DEF Range
    <2>3. s \in [1 .. n -> Range(s)]
      BY <2>1, <2>2
    <2> QED BY <2>1, <2>2, <2>3
  <1>2. ASSUME s \in Seq(Range(s)) PROVE IsSequence(s)
    <2>1. Len(s) \in Nat /\ DOMAIN s = 1 .. Len(s) /\ s \in [1 .. Len(s) -> Range(s)]
      BY <1>2
    <2> QED BY <2>1 DEF IsSequence
  <1> QED
    BY <1>1, <1>2

LEMMA SequenceOf ==
  ASSUME NEW X, NEW s \in Seq(X)
  PROVE  IsSequence(s)
  <1>1. Len(s) \in Nat /\ s \in [1 .. Len(s) -> X]
    OBVIOUS
  <1> QED
    BY <1>1 DEF IsSequence

LEMMA SequenceOfMore ==
  ASSUME NEW s, IsSequence(s), NEW X, Range(s) \subseteq X
  PROVE  s \in Seq(X)
  <1>1. s \in Seq(Range(s))
    BY SequenceOfElements
  <1>2. Len(s) \in Nat /\ s \in [1 .. Len(s) -> X]
    BY <1>1
  <1> QED
    BY <1>2

LEMMA ListedSequence ==
  ASSUME NEW n \in Nat, NEW s, DOMAIN s = 1 .. n, s = [i \in 1 .. n |-> s[i]]
  PROVE  IsSequence(s) /\ Len(s) = n
  <1>1. s \in [1 .. n -> Range(s)]
    BY DEF Range
  <1>2. s \in Seq(Range(s)) /\ Len(s) = n
    BY <1>1
  <1> QED
    BY <1>2, SequenceOf

\* One after the other.
LEMMA Concatenation ==
  ASSUME NEW s, NEW t, IsSequence(s), IsSequence(t), NEW u, u = s \o t
  PROVE  /\ IsSequence(u) /\ Len(u) = Len(s) + Len(t)
         /\ Len(s) \in Nat /\ Len(t) \in Nat
         /\ \A i \in 1 .. Len(s) : u[i] = s[i]
         /\ \A i \in 1 .. Len(t) : u[Len(s) + i] = t[i]
  <1> DEFINE X == Range(s) \cup Range(t)
  <1>1. s \in Seq(X) /\ t \in Seq(X)
    BY SequenceOfMore
  <1> HIDE DEF X
  <1>2. u \in Seq(X) /\ Len(u) = Len(s) + Len(t)
    BY <1>1
  <1>3. /\ \A i \in 1 .. Len(s) : u[i] = s[i]
        /\ \A i \in 1 .. Len(t) : u[Len(s) + i] = t[i]
    BY <1>1
  <1>4. IsSequence(u)
    BY <1>2, SequenceOf
  <1>5. Len(s) \in Nat /\ Len(t) \in Nat
    BY <1>1
  <1> QED
    BY <1>2, <1>3, <1>4, <1>5

LEMMA OneElement == ASSUME NEW x PROVE IsSequence(<<x>>) /\ Len(<<x>>) = 1 /\ <<x>>[1] = x
  <1>1. <<x>> \in Seq({x})
    OBVIOUS
  <1> QED
    BY <1>1, SequenceOf

(***************************************************************************)
(* FlattenSeq by its recursion.                                            *)
(***************************************************************************)
flattened(ss) ==
  CHOOSE g : g = [i \in 1 .. Len(ss) |-> IF i = 1 THEN ss[i] ELSE g[i - 1] \o ss[i]]
Flattens(ss, g) == g = [i \in 1 .. Len(ss) |-> IF i = 1 THEN ss[i] ELSE g[i - 1] \o ss[i]]

LEMMA FlatteningExists ==
  ASSUME NEW ss, IsSequence(ss)
  PROVE  \E g : Flattens(ss, g)
  <1> DEFINE n == Len(ss)
             Upto(k, g) == g = [i \in 1 .. k |-> IF i = 1 THEN ss[i] ELSE g[i - 1] \o ss[i]]
             T == { k \in Nat : \E g : Upto(k, g) }
  <1>1. n \in Nat
    BY DEF IsSequence
  <1>2. 0 \in T
    <2>1. Upto(0, [i \in 1 .. 0 |-> ss])
      OBVIOUS
    <2> QED BY <2>1
  <1>3. ASSUME NEW k \in Nat, k \in T PROVE k + 1 \in T
    <2>1. PICK g : Upto(k, g)
      BY <1>3
    <2> DEFINE h == [i \in 1 .. k + 1 |->
                       IF i = 1 THEN ss[i] ELSE IF i = k + 1 THEN g[k] \o ss[i] ELSE g[i]]
    <2>2. \A i \in 1 .. k : g[i] = IF i = 1 THEN ss[i] ELSE g[i - 1] \o ss[i]
      BY <2>1
    <2>3. \A i \in 1 .. k : h[i] = g[i]
      BY <2>2
    <2>4. ASSUME NEW i \in 1 .. k + 1 PROVE h[i] = IF i = 1 THEN ss[i] ELSE h[i - 1] \o ss[i]
      <3>1. CASE i = 1
        BY <3>1
      <3>2. CASE i # 1 /\ i = k + 1
        <4>1. i - 1 = k /\ k \in 1 .. k
          BY <3>2
        <4>2. h[i - 1] = g[k]
          BY <2>3, <4>1
        <4> QED BY <3>2, <4>2
      <3>3. CASE i # 1 /\ i # k + 1
        <4>1. i \in 1 .. k /\ i - 1 \in 1 .. k
          BY <3>3
        <4> QED BY <2>2, <2>3, <3>3, <4>1
      <3> QED BY <3>1, <3>2, <3>3
    <2>5. h = [i \in 1 .. k + 1 |-> h[i]]
      OBVIOUS
    <2> HIDE DEF h
    <2>6. Upto(k + 1, h)
      BY <2>4, <2>5
    <2>7. \E p : Upto(k + 1, p)
      <3> HIDE DEF Upto
      <3> QED BY <2>6
    <2> HIDE DEF Upto
    <2> QED BY <2>7
  <1>4. n \in T
    <2> HIDE DEF T
    <2> QED BY <1>1, <1>2, <1>3, SetInduction
  <1> QED
    BY <1>4 DEF Flattens

LEMMA FlatteningRecurs ==
  ASSUME NEW ss, IsSequence(ss), NEW g, g = flattened(ss)
  PROVE  /\ \A i \in 1 .. Len(ss) : g[i] = IF i = 1 THEN ss[i] ELSE g[i - 1] \o ss[i]
         /\ FlattenSeq(ss) = IF Len(ss) = 0 THEN ss ELSE g[Len(ss)]
  <1>1. Flattens(ss, g)
    BY FlatteningExists DEF Flattens, flattened
  <1>2. FlattenSeq(ss) = IF Len(ss) = 0 THEN ss ELSE g[Len(ss)]
    BY DEF FlattenSeq, flattened
  <1> QED
    BY <1>1, <1>2 DEF Flattens

\* The elements of the parts, one part after the other: part k starts behind first[k - 1].
Starts(ss, first) ==
  /\ first \in [0 .. Len(ss) -> Nat] /\ first[0] = 0
  /\ \A k \in 1 .. Len(ss) : first[k] = first[k - 1] + Len(ss[k])
  /\ IsSequence(FlattenSeq(ss)) /\ Len(FlattenSeq(ss)) = first[Len(ss)]
  /\ \A k \in 1 .. Len(ss) : \A i \in 1 .. Len(ss[k]) :
       /\ first[k - 1] + i \in 1 .. Len(FlattenSeq(ss))
       /\ FlattenSeq(ss)[first[k - 1] + i] = ss[k][i]

LEMMA FlattenedParts ==
  ASSUME NEW ss, IsSequence(ss), \A k \in 1 .. Len(ss) : IsSequence(ss[k])
  PROVE  \E first : Starts(ss, first)
  <1> DEFINE n == Len(ss)
             g == flattened(ss)
             first == [k \in 0 .. n |-> IF k = 0 THEN 0 ELSE Len(g[k])]
             Part(k, j) == \A i \in 1 .. Len(ss[j]) :
                             /\ first[j - 1] + i \in 1 .. Len(g[k])
                             /\ g[k][first[j - 1] + i] = ss[j][i]
             Parts(k) == /\ IsSequence(g[k]) /\ Len(g[k]) = first[k - 1] + Len(ss[k])
                         /\ first[k - 1] \in Nat
                         /\ \A j \in 1 .. k : Part(k, j)
             T == { k \in Nat : k \in 1 .. n => Parts(k) }
  <1>1. n \in Nat
    BY DEF IsSequence
  <1>2. /\ \A i \in 1 .. n : g[i] = IF i = 1 THEN ss[i] ELSE g[i - 1] \o ss[i]
        /\ FlattenSeq(ss) = IF n = 0 THEN ss ELSE g[n]
    BY FlatteningRecurs
  <1>3. \A k \in 1 .. n : Len(ss[k]) \in Nat /\ IsSequence(ss[k])
    BY DEF IsSequence
  <1>4. first[0] = 0 /\ \A k \in 1 .. n : first[k] = Len(g[k])
    BY <1>1
  <1> HIDE DEF g, first
  <1>5. ASSUME NEW k \in Nat, k \in T PROVE k + 1 \in T
    <2> SUFFICES ASSUME k + 1 \in 1 .. n PROVE Parts(k + 1)
      OBVIOUS
    <2>1. CASE k = 0
      <3>1. k + 1 = 1 /\ k + 1 - 1 = 0 /\ 1 \in 1 .. n
        BY <2>1
      <3>2. g[1] = ss[1] /\ Len(ss[1]) \in Nat /\ IsSequence(ss[1])
        BY <1>2, <1>3, <3>1
      <3>3. Part(1, 1)
        BY <1>4, <3>2
      <3>4. Parts(1)
        <4> HIDE DEF Part
        <4>1. \A j \in 1 .. 1 : j = 1
          OBVIOUS
        <4> QED BY <1>4, <3>2, <3>3, <4>1
      <3> HIDE DEF Parts
      <3> QED BY <3>1, <3>4
    <2>2. CASE k # 0
      <3>1. k \in 1 .. n /\ k + 1 # 1 /\ k + 1 - 1 = k
        BY <2>2
      <3>2. Parts(k)
        <4> HIDE DEF Parts
        <4> QED BY <1>5, <3>1
      <3>3. g[k + 1] = g[k] \o ss[k + 1]
        <4>1. \A i \in 1 .. n : i # 1 => g[i] = g[i - 1] \o ss[i]
          BY <1>2
        <4>2. PICK m : m = k + 1
          OBVIOUS
        <4>3. m \in 1 .. n /\ m # 1 /\ m - 1 = k
          BY <3>1, <4>2
        <4>4. g[m] = g[m - 1] \o ss[m]
          BY <4>1, <4>3
        <4> QED BY <4>2, <4>3, <4>4
      <3> DEFINE u == g[k + 1]
                 s == g[k]
                 t == ss[k + 1]
      <3>4. /\ IsSequence(u) /\ Len(u) = Len(s) + Len(t)
            /\ Len(s) \in Nat /\ Len(t) \in Nat
            /\ \A i \in 1 .. Len(s) : u[i] = s[i]
            /\ \A i \in 1 .. Len(t) : u[Len(s) + i] = t[i]
        <4>1. IsSequence(s) /\ IsSequence(t) /\ u = s \o t
          BY <1>3, <3>2, <3>3
        <4> HIDE DEF s, t, u
        <4>2. IsSequence(u) /\ Len(u) = Len(s) + Len(t) /\ Len(s) \in Nat /\ Len(t) \in Nat
          BY <4>1, Concatenation
        <4>3. \A i \in 1 .. Len(s) : u[i] = s[i]
          BY <4>1, Concatenation
        <4>4. \A i \in 1 .. Len(t) : u[Len(s) + i] = t[i]
          BY <4>1, Concatenation
        <4> QED BY <4>2, <4>3, <4>4
      <3>5. first[k] = Len(s)
        BY <1>4, <3>1
      <3>6. ASSUME NEW j \in 1 .. k + 1 PROVE Part(k + 1, j)
        <4>1. CASE j = k + 1
          <5>1. first[j - 1] = Len(s) /\ ss[j] = t
            BY <3>5, <4>1
          <5> SUFFICES ASSUME NEW i \in 1 .. Len(t)
                       PROVE  Len(s) + i \in 1 .. Len(u) /\ u[Len(s) + i] = t[i]
            BY <5>1
          <5> HIDE DEF s, t, u
          <5> QED BY <3>4
        <4>2. CASE j # k + 1
          <5>1. Part(k, j)
            <6> HIDE DEF Part
            <6> QED BY <3>2, <4>2
          <5> SUFFICES ASSUME NEW i \in 1 .. Len(ss[j])
                       PROVE  /\ first[j - 1] + i \in 1 .. Len(u)
                              /\ u[first[j - 1] + i] = ss[j][i]
            OBVIOUS
          <5>2. first[j - 1] + i \in 1 .. Len(s) /\ s[first[j - 1] + i] = ss[j][i]
            BY <5>1
          <5> HIDE DEF s, t, u
          <5> QED BY <3>4, <5>2
        <4> QED BY <4>1, <4>2
      <3>7. first[k] \in Nat
        BY <3>4, <3>5
      <3>8. Parts(k + 1)
        <4>1. /\ IsSequence(g[k + 1]) /\ Len(g[k + 1]) = first[k + 1 - 1] + Len(ss[k + 1])
              /\ first[k + 1 - 1] \in Nat
          BY <3>1, <3>4, <3>5, <3>7
        <4>2. \A j \in 1 .. k + 1 : Part(k + 1, j)
          BY <3>6
        <4>3. (\A j \in 1 .. k + 1 : Part(k + 1, j)) => Parts(k + 1)
          BY <4>1
        <4> HIDE DEF Part, Parts
        <4> QED BY <4>2, <4>3
      <3> QED BY <3>8
    <2> QED BY <2>1, <2>2
  <1>6. 0 \in T
    BY <1>1
  <1>7. ASSUME NEW k \in 1 .. n PROVE Parts(k)
    <2>1. k \in T
      <3> HIDE DEF T
      <3> QED BY <1>5, <1>6, SetInduction
    <2> HIDE DEF Parts
    <2> QED BY <2>1
  <1>8. first \in [0 .. n -> Nat]
    <2>1. \A k \in 0 .. n : first[k] \in Nat
      <3> SUFFICES ASSUME NEW k \in 0 .. n PROVE first[k] \in Nat
        OBVIOUS
      <3>1. CASE k = 0
        BY <1>4, <3>1
      <3>2. CASE k # 0
        <4>1. k \in 1 .. n
          BY <3>2
        <4>2. IsSequence(g[k])
          BY <1>7, <4>1
        <4> QED BY <1>4, <4>1, <4>2 DEF IsSequence
      <3> QED BY <3>1, <3>2
    <2> QED BY <2>1 DEF first
  <1>9. ASSUME NEW k \in 1 .. n PROVE first[k] = first[k - 1] + Len(ss[k])
    BY <1>4, <1>7
  <1>10. IsSequence(FlattenSeq(ss)) /\ Len(FlattenSeq(ss)) = first[n]
    <2>1. CASE n = 0
      BY <1>2, <1>4, <2>1
    <2>2. CASE n # 0
      <3>1. n \in 1 .. n
        BY <1>1, <2>2
      <3>2. IsSequence(g[n])
        BY <1>7, <3>1
      <3> QED BY <1>2, <1>4, <2>2, <3>1, <3>2
    <2> QED BY <2>1, <2>2
  <1>11. ASSUME NEW k \in 1 .. n PROVE FlattenSeq(ss) = g[n] /\ Part(n, k)
    <2>1. n # 0 /\ n \in 1 .. n
      BY <1>1
    <2>2. Parts(n)
      BY <1>7, <2>1
    <2> HIDE DEF Part
    <2> QED BY <1>2, <2>1, <2>2
  <1>12. Starts(ss, first)
    BY <1>4, <1>8, <1>9, <1>10, <1>11 DEF Starts
  <1> HIDE DEF Parts
  <1> QED
    BY <1>12

-----------------------------------------------------------------------------
(***************************************************************************)
(* What a thread has read of file f, as far as the callbacks go by it: the *)
(* sets begun; of the last set the labels read and, from its first object  *)
(* on, the attributes begun of its last object (-1 before); the values due *)
(* to the last attribute; the objects of the file.  An item is due at a    *)
(* place b and leads to a place a.                                         *)
(***************************************************************************)
Place == [set : Nat, labels : Nat, attribute : {-1} \cup Nat, values : Nat, objects : Nat]
FirstPlace == [set |-> 0, labels |-> 0, attribute |-> -1, values |-> 0, objects |-> 0]

SetAt(f, b) == Files[f][b.set]
AllLabels(f, b) == b.set \in DOMAIN Files[f] /\ b.labels = Len(SetAt(f, b).labels)

SetDue(f, item, b, a) ==
  /\ item.kind = "SET" /\ b.values = 0
  /\ b.set + 1 \in DOMAIN Files[f] /\ item.type = Files[f][b.set + 1].type
  /\ a = [set |-> b.set + 1, labels |-> 0, attribute |-> -1, values |-> 0, objects |-> b.objects]
LabelDue(f, item, b, a) ==
  /\ item.kind = "ATTRIB" /\ b.values = 0 /\ b.attribute = -1
  /\ b.set \in DOMAIN Files[f] /\ b.labels < Len(SetAt(f, b).labels)
  /\ a = [b EXCEPT !.labels = @ + 1]
ObjectDue(f, item, b, a) ==
  /\ item.kind = "OBJECT" /\ b.values = 0 /\ AllLabels(f, b)
  /\ b.objects + 1 \in 1 .. Len(Objects[f])
  /\ Objects[f][b.objects + 1] = [set |-> SetAt(f, b).type, name |-> item.name]
  /\ \E i \in DOMAIN SetAt(f, b).objects : SetAt(f, b).objects[i].name = item.name
  /\ a = [b EXCEPT !.attribute = 0, !.objects = @ + 1]
AttributeDue(f, item, b, a) ==
  /\ item.kind = "ATTRIB" /\ b.values = 0 /\ AllLabels(f, b)
  /\ b.attribute >= 0 /\ item.count \in Nat
  /\ \E i \in DOMAIN SetAt(f, b).objects : b.attribute < Len(SetAt(f, b).objects[i].attributes)
  /\ a = [b EXCEPT !.attribute = @ + 1, !.values = item.count]
\* The values of an attribute in the set at b.
IsGiven(f, b, values) ==
  /\ b.set \in DOMAIN Files[f]
  /\ \E i \in DOMAIN SetAt(f, b).objects :
       \E j \in DOMAIN SetAt(f, b).objects[i].attributes : SetAt(f, b).objects[i].attributes[j] = values
ValueDue(f, item, b, a) ==
  /\ item.kind = "VALUE" /\ b.values > 0 /\ b.attribute > 0
  /\ \E values : IsGiven(f, b, values) /\ item.value \in Range(values)
  /\ a = [b EXCEPT !.values = @ - 1]
RowDue(f, item, b, a) ==
  /\ item.kind = "ROW" /\ b.values = 0
  /\ b.set \in DOMAIN Files[f] /\ item.row \in Range(SetAt(f, b).rows)
  /\ a = b
Due(f, item, b, a) ==
  \/ SetDue(f, item, b, a) \/ LabelDue(f, item, b, a) \/ ObjectDue(f, item, b, a)
  \/ AttributeDue(f, item, b, a) \/ ValueDue(f, item, b, a) \/ RowDue(f, item, b, a)

\* The places on the way through the items s, from b to a.
Way(f, s, r, b, a) ==
  /\ r \in [0 .. Len(s) -> Place] /\ r[0] = b /\ r[Len(s)] = a
  /\ \A n \in 1 .. Len(s) : Due(f, s[n], r[n - 1], r[n])
Leads(f, s, b, a) == IsSequence(s) /\ \E r : Way(f, s, r, b, a)

LEMMA OneItemLeads ==
  ASSUME NEW f, NEW item, NEW b \in Place, NEW a \in Place, Due(f, item, b, a)
  PROVE  Leads(f, <<item>>, b, a)
  <1> DEFINE s == <<item>>
             r == [n \in 0 .. 1 |-> IF n = 0 THEN b ELSE a]
  <1>1. IsSequence(s) /\ Len(s) = 1 /\ s[1] = item
    BY OneElement
  <1>2. r \in [0 .. 1 -> Place] /\ r[0] = b /\ r[1] = a
    OBVIOUS
  <1> HIDE DEF s, r
  <1>3. ASSUME NEW n \in 1 .. 1 PROVE Due(f, s[n], r[n - 1], r[n])
    <2>1. n = 1 /\ n - 1 = 0
      OBVIOUS
    <2> QED BY <1>1, <1>2, <2>1
  <1>4. Way(f, s, r, b, a)
    <2> HIDE DEF Due
    <2> QED BY <1>1, <1>2, <1>3 DEF Way
  <1> QED
    BY <1>1, <1>4 DEF Leads, s

LEMMA NothingLeads ==
  ASSUME NEW f, NEW s, IsSequence(s), Len(s) = 0, NEW b \in Place
  PROVE  Leads(f, s, b, b)
  <1>1. Way(f, s, [n \in 0 .. 0 |-> b], b, b)
    BY DEF Way
  <1> QED
    BY <1>1 DEF Leads

LEMMA LeadsOn ==
  ASSUME NEW f, NEW s, NEW t, NEW b, NEW m, NEW a, Leads(f, s, b, m), Leads(f, t, m, a)
  PROVE  Leads(f, s \o t, b, a)
  <1> DEFINE u == s \o t
             k == Len(s)
             l == Len(t)
  <1>1. PICK p : Way(f, s, p, b, m)
    BY DEF Leads
  <1>2. PICK q : Way(f, t, q, m, a)
    BY DEF Leads
  <1>3. /\ IsSequence(u) /\ Len(u) = k + l /\ k \in Nat /\ l \in Nat
        /\ \A i \in 1 .. k : u[i] = s[i]
        /\ \A i \in 1 .. l : u[k + i] = t[i]
    <2>1. IsSequence(s) /\ IsSequence(t) /\ u = s \o t
      BY DEF Leads
    <2> HIDE DEF u
    <2>2. IsSequence(u) /\ Len(u) = Len(s) + Len(t) /\ Len(s) \in Nat /\ Len(t) \in Nat
      BY <2>1, Concatenation
    <2>3. \A i \in 1 .. Len(s) : u[i] = s[i]
      BY <2>1, Concatenation
    <2>4. \A i \in 1 .. Len(t) : u[Len(s) + i] = t[i]
      BY <2>1, Concatenation
    <2> QED BY <2>2, <2>3, <2>4
  <1>4. /\ p \in [0 .. k -> Place] /\ p[0] = b /\ p[k] = m
        /\ \A n \in 1 .. k : Due(f, s[n], p[n - 1], p[n])
    BY <1>1 DEF Way
  <1>5. /\ q \in [0 .. l -> Place] /\ q[0] = m /\ q[l] = a
        /\ \A n \in 1 .. l : Due(f, t[n], q[n - 1], q[n])
    BY <1>2 DEF Way
  <1> HIDE DEF u, k, l
  <1> DEFINE r == [n \in 0 .. k + l |-> IF n <= k THEN p[n] ELSE q[n - k]]
  <1>6. r \in [0 .. k + l -> Place] /\ r[0] = b /\ r[k + l] = a
    <2>1. CASE l = 0
      BY <1>3, <1>4, <1>5, <2>1
    <2>2. CASE l # 0
      BY <1>3, <1>4, <1>5, <2>2
    <2> QED BY <2>1, <2>2
  <1>7. \A n \in 0 .. k : r[n] = p[n]
    BY <1>3
  <1>8. ASSUME NEW n \in 0 .. l PROVE r[k + n] = q[n]
    <2>1. PICK i : i = k + n
      OBVIOUS
    <2>2. i \in 0 .. k + l /\ i - k = n
      BY <1>3, <2>1
    <2>3. r[i] = IF i <= k THEN p[i] ELSE q[i - k]
      BY <2>2
    <2>4. CASE n = 0
      <3>1. i = k /\ k \in 0 .. k
        BY <1>3, <2>1, <2>4
      <3>2. r[i] = p[k]
        BY <1>7, <3>1
      <3> HIDE DEF r
      <3> QED BY <1>4, <1>5, <2>1, <2>4, <3>2
    <2>5. CASE n # 0
      <3>1. ~(i <= k)
        BY <1>3, <2>1, <2>5
      <3>2. r[i] = q[n]
        BY <2>2, <2>3, <3>1
      <3> HIDE DEF r
      <3> QED BY <2>1, <3>2
    <2> QED BY <2>4, <2>5
  <1> HIDE DEF r
  <1>9. ASSUME NEW n \in 1 .. k + l PROVE Due(f, u[n], r[n - 1], r[n])
    <2>1. CASE n <= k
      <3>1. n \in 1 .. k /\ n - 1 \in 0 .. k /\ n \in 0 .. k
        BY <1>3, <2>1
      <3>2. u[n] = s[n] /\ r[n - 1] = p[n - 1] /\ r[n] = p[n]
        BY <1>3, <1>7, <3>1
      <3>3. Due(f, s[n], p[n - 1], p[n])
        BY <1>4, <3>1
      <3> HIDE DEF Due
      <3> QED BY <3>2, <3>3
    <2>2. CASE ~(n <= k)
      <3>1. PICK i \in 1 .. l : n = k + i
        BY <1>3, <2>2
      <3>2. i - 1 \in 0 .. l /\ i \in 0 .. l /\ n - 1 = k + (i - 1)
        BY <1>3, <3>1
      <3>3. u[n] = t[i] /\ r[n - 1] = q[i - 1] /\ r[n] = q[i]
        BY <1>3, <1>8, <3>1, <3>2
      <3>4. Due(f, t[i], q[i - 1], q[i])
        BY <1>5, <3>1
      <3> HIDE DEF Due
      <3> QED BY <3>3, <3>4
    <2> QED BY <2>1, <2>2
  <1>10. Way(f, u, r, b, a)
    BY <1>3, <1>6, <1>9 DEF Way
  <1> QED
    BY <1>3, <1>10 DEF Leads, u

LEMMA FlattenedLeads ==
  ASSUME NEW f, NEW ss, IsSequence(ss), NEW p \in [0 .. Len(ss) -> Place],
         \A k \in 1 .. Len(ss) : Leads(f, ss[k], p[k - 1], p[k])
  PROVE  Leads(f, FlattenSeq(ss), p[0], p[Len(ss)])
  <1> DEFINE n == Len(ss)
             g == flattened(ss)
             T == { k \in Nat : k \in 1 .. n => Leads(f, g[k], p[0], p[k]) }
  <1>1. n \in Nat
    BY DEF IsSequence
  <1>2. /\ \A i \in 1 .. n : g[i] = IF i = 1 THEN ss[i] ELSE g[i - 1] \o ss[i]
        /\ FlattenSeq(ss) = IF n = 0 THEN ss ELSE g[n]
    BY FlatteningRecurs
  <1> HIDE DEF g
  <1>3. 0 \in T
    OBVIOUS
  <1>4. ASSUME NEW k \in Nat, k \in T PROVE k + 1 \in T
    <2> SUFFICES ASSUME NEW m \in 1 .. n, m = k + 1 PROVE Leads(f, g[m], p[0], p[m])
      OBVIOUS
    <2>1. CASE k = 0
      <3>1. m = 1 /\ m - 1 = 0
        BY <2>1
      <3>2. g[m] = ss[m]
        BY <1>2, <3>1
      <3>3. Leads(f, ss[m], p[m - 1], p[m])
        OBVIOUS
      <3> QED BY <3>1, <3>2, <3>3
    <2>2. CASE k # 0
      <3>1. k \in 1 .. n /\ m - 1 = k /\ m # 1
        BY <2>2
      <3>2. g[m] = g[k] \o ss[m]
        BY <1>2, <3>1
      <3>3. Leads(f, g[k], p[0], p[k])
        BY <1>4, <3>1
      <3>4. Leads(f, ss[m], p[k], p[m])
        BY <3>1
      <3> QED BY <3>2, <3>3, <3>4, LeadsOn
    <2> QED BY <2>1, <2>2
  <1>5. n \in T
    <2> HIDE DEF T
    <2> QED BY <1>1, <1>3, <1>4, SetInduction
  <1>6. CASE n = 0
    <2>1. FlattenSeq(ss) = ss /\ p[0] \in Place
      BY <1>2, <1>6
    <2> QED BY <1>6, <2>1, NothingLeads
  <1>7. CASE n # 0
    <2>1. n \in 1 .. n
      BY <1>1, <1>7
    <2> QED BY <1>2, <1>5, <1>7, <2>1
  <1> QED
    BY <1>6, <1>7
-----------------------------------------------------------------------------
(* The items of a file, part by part. *)

LEMMA StepsLead ==
  ASSUME NEW f, NEW s, IsSequence(s), NEW n \in Nat, Len(s) = n, NEW r \in [0 .. n -> Place],
         \A i \in 1 .. n : Due(f, s[i], r[i - 1], r[i])
  PROVE  Leads(f, s, r[0], r[n])
  <1>1. Way(f, s, r, r[0], r[n])
    BY DEF Way
  <1> QED
    BY <1>1 DEF Leads

LEMMA Mapped ==
  ASSUME NEW s, IsSequence(s), NEW t, DOMAIN t = DOMAIN s, t = [i \in DOMAIN s |-> t[i]]
  PROVE  IsSequence(t) /\ Len(t) = Len(s) /\ Len(s) \in Nat /\ DOMAIN s = 1 .. Len(s)
  <1>1. Len(s) \in Nat /\ DOMAIN s = 1 .. Len(s)
    BY SequenceOfElements
  <1>2. DOMAIN t = 1 .. Len(s) /\ t = [i \in 1 .. Len(s) |-> t[i]]
    BY <1>1
  <1>3. IsSequence(t) /\ Len(t) = Len(s)
    BY <1>1, <1>2, ListedSequence
  <1> QED
    BY <1>1, <1>3

LEMMA ValuesLead ==
  ASSUME NEW f, NEW values, IsSequence(values),
         NEW b \in Place, b.attribute > 0, b.values = Len(values), IsGiven(f, b, values)
  PROVE  Leads(f, value_items(values), b, [b EXCEPT !.values = 0])
  <1> DEFINE s == value_items(values)
             n == Len(values)
             r == [i \in 0 .. n |-> [b EXCEPT !.values = n - i]]
  <1>1. IsSequence(s) /\ Len(s) = n /\ n \in Nat /\ DOMAIN values = 1 .. n
    <2>1. DOMAIN s = DOMAIN values /\ s = [i \in DOMAIN values |-> s[i]]
      BY DEF value_items
    <2> QED BY <2>1, Mapped
  <1>2. \A i \in 1 .. n : s[i].kind = "VALUE" /\ s[i].value \in Range(values)
    BY <1>1 DEF value_items, Range
  <1> HIDE DEF s
  <1>3. r \in [0 .. n -> Place]
    BY <1>1 DEF Place
  <1>4. r[0] = b /\ r[n] = [b EXCEPT !.values = 0]
    BY <1>1 DEF Place
  <1>5. ASSUME NEW i \in 1 .. n PROVE Due(f, s[i], r[i - 1], r[i])
    <2>1. PICK m : m = i - 1
      OBVIOUS
    <2>2. m \in 0 .. n /\ i \in 0 .. n /\ i = m + 1
      BY <1>1, <2>1
    <2>3. r[m] = [b EXCEPT !.values = n - m] /\ r[i] = [b EXCEPT !.values = n - i]
      BY <2>2
    <2>4. r[m] \in Place /\ r[m].values = n - m /\ r[m].attribute = b.attribute /\ r[m].set = b.set
      BY <2>2, <2>3 DEF Place
    <2>5. r[i] = [r[m] EXCEPT !.values = @ - 1]
      <3>1. PICK k : k = n - i
        OBVIOUS
      <3>2. r[m].values - 1 = k
        BY <1>1, <2>2, <2>4, <3>1
      <3>3. [b EXCEPT !.values = k] = [r[m] EXCEPT !.values = k]
        BY <2>3 DEF Place
      <3> HIDE DEF r
      <3> QED BY <2>3, <3>1, <3>2, <3>3
    <2>6. n - m > 0
      BY <1>1, <2>2
    <2> HIDE DEF r
    <2>7. IsGiven(f, r[m], values)
      BY <2>4 DEF IsGiven, SetAt
    <2>8. ValueDue(f, s[i], r[m], r[i])
      BY <1>2, <2>4, <2>5, <2>6, <2>7 DEF ValueDue
    <2> QED BY <2>1, <2>8 DEF Due
  <1> HIDE DEF r
  <1>6. Leads(f, s, r[0], r[n])
    BY <1>1, <1>3, <1>5, StepsLead
  <1> QED
    BY <1>4, <1>6 DEF s

LEMMA AttributeLeads ==
  ASSUME NEW f, NEW values, IsSequence(values),
         NEW b \in Place, b.values = 0, b.attribute >= 0, AllLabels(f, b), IsGiven(f, b, values),
         \E i \in DOMAIN SetAt(f, b).objects : b.attribute < Len(SetAt(f, b).objects[i].attributes)
  PROVE  Leads(f, attrib_items(values), b, [b EXCEPT !.attribute = @ + 1])
  <1> DEFINE n == Len(values)
             item == [kind |-> "ATTRIB", count |-> n]
             m == [b EXCEPT !.attribute = @ + 1, !.values = n]
  <1>1. n \in Nat
    BY DEF IsSequence
  <1>2. m \in Place /\ m.attribute > 0 /\ m.values = n /\ m.set = b.set
    <2>1. PICK k \in Nat : k = b.attribute + 1 /\ k > 0
      BY DEF Place
    <2>2. m = [b EXCEPT !.attribute = k, !.values = n]
      BY <2>1
    <2> HIDE DEF m
    <2> QED BY <1>1, <2>1, <2>2 DEF Place
  <1>3. AttributeDue(f, item, b, m)
    BY <1>1 DEF AttributeDue
  <1>4. [m EXCEPT !.values = 0] = [b EXCEPT !.attribute = @ + 1]
    BY DEF Place
  <1> HIDE DEF item, m
  <1>5. Leads(f, <<item>>, b, m)
    BY <1>2, <1>3, OneItemLeads DEF Due
  <1>6. Leads(f, value_items(values), m, [m EXCEPT !.values = 0])
    <2>1. IsGiven(f, m, values)
      BY <1>2 DEF IsGiven, SetAt
    <2> QED BY <1>2, <2>1, ValuesLead
  <1>7. Leads(f, <<item>> \o value_items(values), b, [b EXCEPT !.attribute = @ + 1])
    <2> DEFINE a == [b EXCEPT !.attribute = @ + 1]
    <2>1. Leads(f, value_items(values), m, a)
      BY <1>4, <1>6
    <2> HIDE DEF a
    <2>2. Leads(f, <<item>> \o value_items(values), b, a)
      BY <1>5, <2>1, LeadsOn
    <2> QED BY <2>2 DEF a
  <1> QED
    BY <1>7 DEF attrib_items, item

Behind(b, n, o) == [b EXCEPT !.attribute = n, !.objects = o]
LEMMA BehindPlace ==
  ASSUME NEW b \in Place, NEW n \in Nat, NEW o \in Nat, NEW k \in Nat
  PROVE  /\ Behind(b, n, o) \in Place
         /\ Behind(b, n, o).set = b.set /\ Behind(b, n, o).labels = b.labels
         /\ Behind(b, n, o).values = b.values
         /\ Behind(b, n, o).attribute = n /\ Behind(b, n, o).objects = o
         /\ Behind(b, k, o) = [Behind(b, n, o) EXCEPT !.attribute = k]
  <1>1. PICK s \in Nat, l \in Nat, a \in Int, v \in Nat, x \in Nat :
          b = [set |-> s, labels |-> l, attribute |-> a, values |-> v, objects |-> x]
    BY DEF Place
  <1>2. ASSUME NEW i \in Nat
        PROVE  Behind(b, i, o) = [set |-> s, labels |-> l, attribute |-> i, values |-> v, objects |-> o]
    <2>1. [b EXCEPT !.attribute = i] =
            [set |-> s, labels |-> l, attribute |-> i, values |-> v, objects |-> x]
      BY <1>1
    <2>2. [[set |-> s, labels |-> l, attribute |-> i, values |-> v, objects |-> x] EXCEPT !.objects = o]
            = [set |-> s, labels |-> l, attribute |-> i, values |-> v, objects |-> o]
      OBVIOUS
    <2>3. Behind(b, i, o) = [[b EXCEPT !.attribute = i] EXCEPT !.objects = o]
      BY DEF Behind
    <2> QED BY <2>1, <2>2, <2>3
  <1>3. Behind(b, n, o) \in Place
    BY <1>2 DEF Place
  <1>4. Behind(b, k, o) = [Behind(b, n, o) EXCEPT !.attribute = k]
    BY <1>2
  <1>5. /\ Behind(b, n, o).set = b.set /\ Behind(b, n, o).labels = b.labels
        /\ Behind(b, n, o).values = b.values
        /\ Behind(b, n, o).attribute = n /\ Behind(b, n, o).objects = o
    <2>1. Behind(b, n, o) = [set |-> s, labels |-> l, attribute |-> n, values |-> v, objects |-> o]
      BY <1>2
    <2> QED BY <1>1, <2>1
  <1> QED
    BY <1>3, <1>4, <1>5

\* An object of the set that is read, the next one of the file.
LEMMA ObjectLeads ==
  ASSUME NEW f, NEW b \in Place, b.values = 0, AllLabels(f, b),
         NEW i \in DOMAIN SetAt(f, b).objects, NEW object, object = SetAt(f, b).objects[i],
         IsSequence(object.attributes),
         \A j \in DOMAIN object.attributes : IsSequence(object.attributes[j]),
         b.objects + 1 \in 1 .. Len(Objects[f]),
         Objects[f][b.objects + 1] = [set |-> SetAt(f, b).type, name |-> object.name]
  PROVE  Leads(f, object_items(object), b,
               [b EXCEPT !.attribute = Len(object.attributes), !.objects = @ + 1])
  <1>0. PICK o \in Nat : o = b.objects + 1
    BY DEF Place
  <1> DEFINE item == [kind |-> "OBJECT", name |-> object.name]
             attributes == object.attributes
             n == Len(attributes)
             m == Behind(b, 0, o)
             p == [j \in 0 .. n |-> Behind(b, j, o)]
             ss == [j \in DOMAIN attributes |-> attrib_items(attributes[j])]
  <1>1. IsSequence(ss) /\ Len(ss) = n /\ n \in Nat /\ DOMAIN attributes = 1 .. n
    <2>1. DOMAIN ss = DOMAIN attributes /\ ss = [j \in DOMAIN attributes |-> ss[j]]
      OBVIOUS
    <2> HIDE DEF ss
    <2> QED BY <2>1, Mapped
  <1>2. ObjectDue(f, item, b, m)
    BY <1>0 DEF ObjectDue, Behind
  <1>3. m \in Place
    BY BehindPlace
  <1>4. p \in [0 .. n -> Place] /\ p[0] = m
    <2>1. \A j \in 0 .. n : Behind(b, j, o) \in Place
      BY <1>1, BehindPlace
    <2> QED BY <1>1, <2>1
  <1>5. ASSUME NEW j \in 1 .. n PROVE Leads(f, ss[j], p[j - 1], p[j])
    <2>1. PICK k : k = j - 1
      OBVIOUS
    <2>2. k \in 0 .. n /\ j = k + 1 /\ k < n /\ j \in 0 .. n
      BY <1>1, <2>1
    <2> DEFINE c == p[k]
    <2>3. c = Behind(b, k, o)
      BY <2>2
    <2>4. p[j] = Behind(b, j, o)
      BY <2>2
    <2>5. /\ c \in Place /\ c.values = 0 /\ c.attribute = k /\ c.set = b.set /\ c.labels = b.labels
          /\ p[j] = [c EXCEPT !.attribute = @ + 1]
      <3> HIDE DEF c, p
      <3>1. c \in Place /\ c.values = 0 /\ c.attribute = k /\ c.set = b.set /\ c.labels = b.labels
        BY <2>2, <2>3, BehindPlace
      <3>2. c.attribute + 1 = j
        BY <2>2, <3>1
      <3>3. p[j] = [c EXCEPT !.attribute = j]
        <4>1. j \in Nat /\ k \in Nat
          BY <1>1, <2>2
        <4> QED BY <2>3, <2>4, <4>1, BehindPlace
      <3> QED BY <3>1, <3>2, <3>3
    <2> HIDE DEF c, p
    <2>6. SetAt(f, c) = SetAt(f, b) /\ AllLabels(f, c)
      BY <2>5 DEF SetAt, AllLabels
    <2>7. \E h \in DOMAIN SetAt(f, c).objects : c.attribute < Len(SetAt(f, c).objects[h].attributes)
      BY <2>2, <2>5, <2>6
    <2>8. ss[j] = attrib_items(attributes[j]) /\ IsSequence(attributes[j])
      BY <1>1
    <2>9. Leads(f, attrib_items(attributes[j]), c, [c EXCEPT !.attribute = @ + 1])
      <3>1. c.attribute >= 0
        BY <2>2, <2>5
      <3>2. IsGiven(f, c, attributes[j])
        BY <1>1, <2>5, <2>6 DEF IsGiven, AllLabels
      <3> HIDE DEF attributes, ss
      <3> QED BY <2>5, <2>6, <2>7, <2>8, <3>1, <3>2, AttributeLeads
    <2> HIDE DEF ss, attributes
    <2> QED BY <2>1, <2>5, <2>8, <2>9 DEF c
  <1> HIDE DEF ss, p
  <1>6. Leads(f, FlattenSeq(ss), p[0], p[n])
    BY <1>1, <1>4, <1>5, FlattenedLeads
  <1> DEFINE a == Behind(b, n, o)
  <1>7. p[n] = a
    BY <1>1 DEF p
  <1>8. Leads(f, <<item>>, b, m)
    <2> HIDE DEF item, m
    <2> QED BY <1>2, <1>3, OneItemLeads DEF Due
  <1>9. Leads(f, FlattenSeq(ss), m, a)
    BY <1>4, <1>6, <1>7
  <1> HIDE DEF item, m, a
  <1>10. Leads(f, <<item>> \o FlattenSeq(ss), b, a)
    BY <1>8, <1>9, LeadsOn
  <1>11. object_items(object) = <<item>> \o FlattenSeq(ss)
    BY DEF object_items, item, ss
  <1> QED
    BY <1>0, <1>10, <1>11 DEF a, Behind

-----------------------------------------------------------------------------
LEMMA LabelsLead ==
  ASSUME NEW f, NEW labels, IsSequence(labels),
         NEW b \in Place, b.values = 0, b.attribute = -1, b.labels = 0,
         b.set \in DOMAIN Files[f], labels = SetAt(f, b).labels
  PROVE  Leads(f, [i \in DOMAIN labels |-> [kind |-> "ATTRIB", label |-> labels[i]]],
               b, [b EXCEPT !.labels = Len(labels)])
  <1> DEFINE s == [i \in DOMAIN labels |-> [kind |-> "ATTRIB", label |-> labels[i]]]
             n == Len(labels)
             r == [i \in 0 .. n |-> [b EXCEPT !.labels = i]]
  <1>1. IsSequence(s) /\ Len(s) = n /\ n \in Nat /\ DOMAIN labels = 1 .. n
    <2>1. DOMAIN s = DOMAIN labels /\ s = [i \in DOMAIN labels |-> s[i]]
      OBVIOUS
    <2> HIDE DEF s
    <2> QED BY <2>1, Mapped
  <1>2. \A i \in 1 .. n : s[i].kind = "ATTRIB"
    BY <1>1
  <1> HIDE DEF s
  <1>3. r \in [0 .. n -> Place]
    BY <1>1 DEF Place
  <1>4. r[0] = b /\ r[n] = [b EXCEPT !.labels = n]
    BY <1>1 DEF Place
  <1>5. ASSUME NEW i \in 1 .. n PROVE Due(f, s[i], r[i - 1], r[i])
    <2>1. PICK m : m = i - 1
      OBVIOUS
    <2>2. m \in 0 .. n /\ i \in 0 .. n /\ i = m + 1
      BY <1>1, <2>1
    <2>3. r[m] = [b EXCEPT !.labels = m] /\ r[i] = [b EXCEPT !.labels = i]
      BY <2>2
    <2>4. /\ r[m].values = 0 /\ r[m].attribute = -1 /\ r[i] = [r[m] EXCEPT !.labels = @ + 1]
          /\ r[m].set = b.set /\ r[m].labels = m
      BY <2>2, <2>3 DEF Place
    <2>5. r[m].labels < Len(SetAt(f, r[m]).labels)
      <3>1. m < n
        BY <1>1, <2>2
      <3> HIDE DEF r
      <3>2. SetAt(f, r[m]) = SetAt(f, b)
        BY <2>4 DEF SetAt
      <3> QED BY <2>4, <3>1, <3>2
    <2> HIDE DEF r
    <2>6. LabelDue(f, s[i], r[m], r[i])
      BY <1>2, <2>4, <2>5 DEF LabelDue
    <2> QED BY <2>1, <2>6 DEF Due
  <1> HIDE DEF r
  <1>6. Leads(f, s, r[0], r[n])
    BY <1>1, <1>3, <1>5, StepsLead
  <1> QED
    BY <1>4, <1>6 DEF s
LEMMA RowsLead ==
  ASSUME NEW f, NEW rows, IsSequence(rows),
         NEW b \in Place, b.values = 0, b.set \in DOMAIN Files[f], rows = SetAt(f, b).rows
  PROVE  Leads(f, [i \in DOMAIN rows |-> [kind |-> "ROW", row |-> rows[i]]], b, b)
  <1> DEFINE s == [i \in DOMAIN rows |-> [kind |-> "ROW", row |-> rows[i]]]
             n == Len(rows)
             r == [i \in 0 .. n |-> b]
  <1>1. IsSequence(s) /\ Len(s) = n /\ n \in Nat /\ DOMAIN rows = 1 .. n
    <2>1. DOMAIN s = DOMAIN rows /\ s = [i \in DOMAIN rows |-> s[i]]
      OBVIOUS
    <2> HIDE DEF s
    <2> QED BY <2>1, Mapped
  <1>2. ASSUME NEW i \in 1 .. n PROVE Due(f, s[i], b, b)
    <2>1. s[i].kind = "ROW" /\ s[i].row \in Range(rows)
      BY <1>1 DEF Range
    <2> QED BY <2>1 DEF Due, RowDue, RowDue
  <1>3. r \in [0 .. n -> Place] /\ r[0] = b /\ r[n] = b
    BY <1>1
  <1>4. \A i \in 1 .. n : r[i - 1] = b /\ r[i] = b
    BY <1>1
  <1> HIDE DEF s, r
  <1>5. \A i \in 1 .. n : Due(f, s[i], r[i - 1], r[i])
    <2> HIDE DEF Due
    <2> QED BY <1>2, <1>4
  <1>6. Leads(f, s, r[0], r[n])
    BY <1>1, <1>3, <1>5, StepsLead
  <1> QED
    BY <1>3, <1>6 DEF s
-----------------------------------------------------------------------------
\* Behind the labels of set k (j = 0) or its object number j, when o objects were before the set.
Within(f, k, j, o) ==
  [set |-> k, labels |-> Len(Files[f][k].labels),
   attribute |-> IF j = 0 THEN -1 ELSE Len(Files[f][k].objects[j].attributes),
   values |-> 0, objects |-> o + j]

LEMMA SetLeads ==
  ASSUME NEW f \in DOMAIN Files, NEW k \in DOMAIN Files[f], NEW o \in Nat,
         NEW n \in Nat, n = Len(Files[f][k].objects),
         \A i \in 1 .. n : /\ o + i \in 1 .. Len(Objects[f])
                           /\ Objects[f][o + i] = [set |-> Files[f][k].type,
                                                   name |-> Files[f][k].objects[i].name],
         NEW b \in Place, b.set + 1 = k, b.values = 0, b.objects = o
  PROVE  Leads(f, set_items(Files[f][k]), b, Within(f, k, n, o)) /\ Within(f, k, n, o) \in Place
  <1> DEFINE set == Files[f][k]
             item == [kind |-> "SET", type |-> set.type]
             list == [i \in DOMAIN set.labels |-> [kind |-> "ATTRIB", label |-> set.labels[i]]]
             m == [set |-> k, labels |-> 0, attribute |-> -1, values |-> 0, objects |-> o]
             p == [j \in 0 .. n |-> Within(f, k, j, o)]
             ss == [i \in DOMAIN set.objects |-> object_items(set.objects[i])]
             headers_of_rows == [i \in DOMAIN set.rows |-> [kind |-> "ROW", row |-> set.rows[i]]]
  <1>1. /\ IsSequence(set.labels) /\ IsSequence(set.objects) /\ IsSequence(set.rows)
        /\ \A i \in DOMAIN set.objects :
             /\ IsSequence(set.objects[i].attributes)
             /\ \A j \in DOMAIN set.objects[i].attributes : IsSequence(set.objects[i].attributes[j])
    BY ContentsAssumption
  <1>2. k \in Nat
    <2>1. IsSequence(Files[f])
      BY ContentsAssumption
    <2>2. DOMAIN Files[f] = 1 .. Len(Files[f]) /\ Len(Files[f]) \in Nat
      BY <2>1, SequenceOfElements
    <2> QED BY <2>2
  <1>3. IsSequence(ss) /\ Len(ss) = n /\ DOMAIN set.objects = 1 .. n
    <2>1. DOMAIN ss = DOMAIN set.objects /\ ss = [i \in DOMAIN set.objects |-> ss[i]]
      OBVIOUS
    <2> HIDE DEF ss
    <2> QED BY <1>1, <2>1, Mapped
  <1>4. Len(set.labels) \in Nat
    BY <1>1 DEF IsSequence
  <1>5. ASSUME NEW j \in 0 .. n PROVE Within(f, k, j, o) \in Place
    <2>1. PICK a \in {-1} \cup Nat : a = IF j = 0 THEN -1 ELSE Len(set.objects[j].attributes)
      <3>1. CASE j = 0
        BY <3>1
      <3>2. CASE j # 0
        <4>1. IsSequence(set.objects[j].attributes)
          BY <1>1, <1>3, <3>2
        <4> QED BY <3>2, <4>1 DEF IsSequence
      <3> QED BY <3>1, <3>2
    <2>2. PICK l \in Nat, x \in Nat : l = Len(set.labels) /\ x = o + j
      BY <1>4
    <2>3. Within(f, k, j, o) = [set |-> k, labels |-> l, attribute |-> a, values |-> 0, objects |-> x]
      BY <2>1, <2>2 DEF Within
    <2> QED BY <1>2, <2>3 DEF Place
  <1>6. m \in Place
    BY <1>2 DEF Place
  <1>7. Leads(f, <<item>>, b, m)
    <2>1. SetDue(f, item, b, m)
      BY DEF SetDue
    <2> HIDE DEF item, m
    <2> QED BY <1>6, <2>1, OneItemLeads DEF Due
  <1>8. Leads(f, list, m, p[0])
    <2>1. [m EXCEPT !.labels = Len(set.labels)] = Within(f, k, 0, o)
      BY DEF Within
    <2>2. m.values = 0 /\ m.attribute = -1 /\ m.labels = 0 /\ m.set = k
      OBVIOUS
    <2>3. p[0] = Within(f, k, 0, o)
      OBVIOUS
    <2> DEFINE labels == set.labels
    <2> HIDE DEF m, p
    <2>4. IsSequence(labels) /\ m.set \in DOMAIN Files[f] /\ labels = SetAt(f, m).labels
      BY <1>1, <2>2 DEF SetAt
    <2> HIDE DEF labels
    <2>5. Leads(f, [i \in DOMAIN labels |-> [kind |-> "ATTRIB", label |-> labels[i]]],
                m, [m EXCEPT !.labels = Len(labels)])
      BY <1>6, <2>2, <2>4, LabelsLead
    <2> QED BY <2>1, <2>3, <2>5 DEF labels
  <1>9. p \in [0 .. n -> Place] /\ p[n] = Within(f, k, n, o)
    BY <1>5
  <1>10. ASSUME NEW j \in 1 .. n PROVE Leads(f, ss[j], p[j - 1], p[j])
    <2>1. PICK i : i = j - 1
      OBVIOUS
    <2>2. i \in 0 .. n /\ j = i + 1 /\ j \in 0 .. n /\ j # 0
      BY <2>1
    <2> DEFINE c == Within(f, k, i, o)
               object == set.objects[j]
    <2>3. c \in Place
      BY <1>5, <2>2
    <2>4. c.set = k /\ c.labels = Len(set.labels) /\ c.values = 0 /\ c.objects = o + i
      BY DEF Within
    <2>5. SetAt(f, c) = set /\ AllLabels(f, c)
      <3> HIDE DEF c
      <3> QED BY <2>4 DEF SetAt, AllLabels
    <2>6. ss[j] = object_items(object)
      BY <1>3
    <2>7. IsSequence(object.attributes) /\ \A l \in DOMAIN object.attributes : IsSequence(object.attributes[l])
      BY <1>1, <1>3
    <2>8. c.objects + 1 = o + j
      <3> HIDE DEF c
      <3> QED BY <2>2, <2>4
    <2>9. Within(f, k, j, o) = [c EXCEPT !.attribute = Len(object.attributes), !.objects = @ + 1]
      <3>1. PICK a : a = IF i = 0 THEN -1 ELSE Len(set.objects[i].attributes)
        OBVIOUS
      <3>2. PICK x : x = o + i
        OBVIOUS
      <3>3. c = [set |-> k, labels |-> Len(set.labels), attribute |-> a, values |-> 0, objects |-> x]
        BY <3>1, <3>2 DEF Within
      <3>4. Within(f, k, j, o) = [set |-> k, labels |-> Len(set.labels),
                attribute |-> Len(object.attributes), values |-> 0, objects |-> o + j]
        BY <2>2 DEF Within
      <3>5. o + j = x + 1
        BY <2>2, <3>2
      <3>6. PICK l, y : l = Len(object.attributes) /\ y = o + j
        OBVIOUS
      <3> HIDE DEF c, object, set
      <3>7. c.objects + 1 = y
        BY <3>3, <3>5, <3>6
      <3>8. [c EXCEPT !.attribute = l] =
              [set |-> k, labels |-> Len(set.labels), attribute |-> l, values |-> 0, objects |-> x]
        BY <3>3
      <3>9. [c EXCEPT !.attribute = l, !.objects = y] = [[c EXCEPT !.attribute = l] EXCEPT !.objects = y]
        OBVIOUS
      <3>10. [c EXCEPT !.attribute = l, !.objects = y] =
              [set |-> k, labels |-> Len(set.labels), attribute |-> l, values |-> 0, objects |-> y]
        <4>1. PICK e : e = [c EXCEPT !.attribute = l]
          OBVIOUS
        <4>2. e = [set |-> k, labels |-> Len(set.labels), attribute |-> l, values |-> 0, objects |-> x]
          BY <3>8, <4>1
        <4>3. [e EXCEPT !.objects = y] =
                [set |-> k, labels |-> Len(set.labels), attribute |-> l, values |-> 0, objects |-> y]
          BY <4>2
        <4> QED BY <3>9, <4>1, <4>3
      <3> QED BY <3>4, <3>6, <3>7, <3>10
    <2> HIDE DEF c, ss
    <2>10. Leads(f, object_items(object), c,
                 [c EXCEPT !.attribute = Len(object.attributes), !.objects = @ + 1])
      <3>1. c.objects + 1 \in 1 .. Len(Objects[f])
        BY <2>8
      <3>2. Objects[f][c.objects + 1] = [set |-> SetAt(f, c).type, name |-> object.name]
        BY <2>5, <2>8
      <3>3. j \in DOMAIN SetAt(f, c).objects /\ object = SetAt(f, c).objects[j]
        BY <1>3, <2>5
      <3> HIDE DEF object, set
      <3> QED BY <2>3, <2>4, <2>5, <2>7, <3>1, <3>2, <3>3, ObjectLeads
    <2>11. p[j - 1] = c /\ p[j] = Within(f, k, j, o)
      BY <2>1, <2>2 DEF c
    <2> HIDE DEF object, p
    <2> QED BY <2>6, <2>9, <2>10, <2>11
  <1> HIDE DEF ss, p
  <1>11. Leads(f, FlattenSeq(ss), p[0], p[n])
    BY <1>3, <1>9, <1>10, FlattenedLeads
  <1>12. Within(f, k, n, o) \in Place
    BY <1>5
  <1>13. Leads(f, headers_of_rows, p[n], p[n])
    <2> DEFINE rows == set.rows
               c == Within(f, k, n, o)
    <2>1. c.set = k /\ c.values = 0
      BY DEF Within
    <2> HIDE DEF c
    <2>2. IsSequence(rows) /\ c.set \in DOMAIN Files[f] /\ rows = SetAt(f, c).rows
      BY <1>1, <2>1 DEF SetAt
    <2>3. c \in Place
      BY <1>12 DEF c
    <2> HIDE DEF rows
    <2>4. Leads(f, [i \in DOMAIN rows |-> [kind |-> "ROW", row |-> rows[i]]], c, c)
      BY <2>1, <2>2, <2>3, RowsLead
    <2> QED BY <1>9, <2>4 DEF rows, c
  <1> HIDE DEF item, list, m, headers_of_rows
  <1>14. Leads(f, <<item>> \o list, b, p[0])
    BY <1>7, <1>8, LeadsOn
  <1>15. Leads(f, (<<item>> \o list) \o FlattenSeq(ss), b, p[n])
    BY <1>11, <1>14, LeadsOn
  <1>16. Leads(f, ((<<item>> \o list) \o FlattenSeq(ss)) \o headers_of_rows, b, p[n])
    BY <1>13, <1>15, LeadsOn
  <1>17. set_items(set) = ((<<item>> \o list) \o FlattenSeq(ss)) \o headers_of_rows
    BY DEF set_items, item, list, ss, headers_of_rows
  <1> QED
    BY <1>9, <1>12, <1>16, <1>17

\* All the items of a file are due, one after the other, and its objects are Objects[f].
LEMMA FileLeads ==
  ASSUME NEW f \in DOMAIN Files
  PROVE  /\ IsSequence(Objects[f]) /\ Len(Objects[f]) \in Nat
         /\ \E last \in Place : /\ Leads(f, Items[f], FirstPlace, last)
                                /\ last.values = 0 /\ last.objects = Len(Objects[f])
  <1> DEFINE sets == Files[f]
             n == Len(sets)
             lists == [k \in DOMAIN sets |-> [i \in DOMAIN sets[k].objects |->
                         [set |-> sets[k].type, name |-> sets[k].objects[i].name]]]
             ss == [k \in DOMAIN sets |-> set_items(sets[k])]
  <1>1. /\ IsSequence(sets)
        /\ \A k \in DOMAIN sets : IsSequence(sets[k].labels) /\ IsSequence(sets[k].objects)
    BY ContentsAssumption
  <1>2. /\ IsSequence(lists) /\ Len(lists) = n /\ n \in Nat /\ DOMAIN sets = 1 .. n
    <2>1. DOMAIN lists = DOMAIN sets /\ lists = [k \in DOMAIN sets |-> lists[k]]
      OBVIOUS
    <2> HIDE DEF lists
    <2> QED BY <1>1, <2>1, Mapped
  <1>3. IsSequence(ss) /\ Len(ss) = n
    <2>1. DOMAIN ss = DOMAIN sets /\ ss = [k \in DOMAIN sets |-> ss[k]]
      OBVIOUS
    <2> HIDE DEF ss
    <2> QED BY <1>1, <2>1, Mapped
  <1>4. ASSUME NEW k \in 1 .. n
        PROVE  /\ IsSequence(lists[k]) /\ Len(lists[k]) = Len(sets[k].objects)
               /\ Len(sets[k].objects) \in Nat
               /\ \A i \in 1 .. Len(sets[k].objects) :
                    lists[k][i] = [set |-> sets[k].type, name |-> sets[k].objects[i].name]
    <2> DEFINE objects == sets[k].objects
               list == [i \in DOMAIN objects |->
                          [set |-> sets[k].type, name |-> objects[i].name]]
    <2>1. IsSequence(objects) /\ lists[k] = list
      BY <1>1, <1>2
    <2>2. DOMAIN list = DOMAIN objects /\ list = [i \in DOMAIN objects |-> list[i]]
      OBVIOUS
    <2>3. IsSequence(list) /\ Len(list) = Len(objects) /\ Len(objects) \in Nat
          /\ DOMAIN objects = 1 .. Len(objects)
      <3> HIDE DEF list, objects
      <3> QED BY <2>1, <2>2, Mapped
    <2> QED BY <2>1, <2>3
  <1>5. Objects[f] = FlattenSeq(lists)
    BY DEF Objects
  <1> HIDE DEF lists
  <1>6. PICK first : Starts(lists, first)
    BY <1>2, <1>4, FlattenedParts
  <1>7. /\ first \in [0 .. n -> Nat] /\ first[0] = 0
        /\ \A k \in 1 .. n : first[k] = first[k - 1] + Len(sets[k].objects)
        /\ IsSequence(Objects[f]) /\ Len(Objects[f]) = first[n]
    BY <1>2, <1>4, <1>5, <1>6 DEF Starts
  <1>8. ASSUME NEW k \in 1 .. n, NEW i \in 1 .. Len(sets[k].objects)
        PROVE  /\ first[k - 1] + i \in 1 .. Len(Objects[f])
               /\ Objects[f][first[k - 1] + i] =
                    [set |-> sets[k].type, name |-> sets[k].objects[i].name]
    BY <1>2, <1>4, <1>5, <1>6 DEF Starts
  <1> DEFINE p == [k \in 0 .. n |->
                     IF k = 0 THEN FirstPlace ELSE Within(f, k, Len(sets[k].objects), first[k - 1])]
  <1>9. FirstPlace \in Place
    BY DEF FirstPlace, Place
  <1>10. ASSUME NEW k \in 0 .. n
         PROVE  p[k].values = 0 /\ p[k].set = k /\ p[k].objects = first[k]
    <2>1. CASE k = 0
      BY <1>7, <2>1 DEF FirstPlace
    <2>2. CASE k # 0
      <3>1. k \in 1 .. n /\ p[k] = Within(f, k, Len(sets[k].objects), first[k - 1])
        BY <2>2
      <3>2. first[k] = first[k - 1] + Len(sets[k].objects)
        BY <1>7, <3>1
      <3> HIDE DEF p
      <3> QED BY <3>1, <3>2 DEF Within
    <2> QED BY <2>1, <2>2
  <1>11. ASSUME NEW k \in 1 .. n, p[k - 1] \in Place
         PROVE  Leads(f, ss[k], p[k - 1], p[k]) /\ p[k] \in Place
    <2>1. PICK j : j = k - 1
      OBVIOUS
    <2>2. j \in 0 .. n /\ k = j + 1 /\ k \in 0 .. n /\ k # 0
      BY <1>2, <2>1
    <2>3. PICK o \in Nat : o = first[j]
      BY <1>7, <2>2
    <2>4. PICK m \in Nat : m = Len(sets[k].objects)
      BY <1>4
    <2>5. p[k] = Within(f, k, m, o)
      BY <2>1, <2>2, <2>3, <2>4
    <2>6. p[j] \in Place /\ p[j].values = 0 /\ p[j].set + 1 = k /\ p[j].objects = o
      <3> HIDE DEF p
      <3> QED BY <1>10, <1>11, <2>1, <2>2, <2>3
    <2>7. \A i \in 1 .. m : /\ o + i \in 1 .. Len(Objects[f])
                            /\ Objects[f][o + i] = [set |-> sets[k].type,
                                                    name |-> sets[k].objects[i].name]
      BY <1>8, <2>1, <2>3, <2>4
    <2>8. ss[k] = set_items(sets[k]) /\ k \in DOMAIN Files[f]
      BY <1>2
    <2> HIDE DEF p, ss
    <2>9. Leads(f, set_items(Files[f][k]), p[j], Within(f, k, m, o)) /\ Within(f, k, m, o) \in Place
      BY <2>4, <2>6, <2>7, <2>8, SetLeads
    <2> QED BY <2>1, <2>5, <2>8, <2>9
  <1> HIDE DEF ss
  <1>12. \A k \in 0 .. n : p[k] \in Place
    <2> DEFINE T == { k \in Nat : k \in 0 .. n => p[k] \in Place }
    <2>1. 0 \in T
      BY <1>9
    <2>2. ASSUME NEW k \in Nat, k \in T PROVE k + 1 \in T
      <3> SUFFICES ASSUME NEW m \in 1 .. n, m = k + 1 PROVE p[m] \in Place
        BY <1>2
      <3>1. m - 1 = k /\ k \in 0 .. n
        BY <1>2
      <3> HIDE DEF p
      <3>2. p[m - 1] \in Place
        BY <2>2, <3>1
      <3> QED BY <1>11, <3>2
    <2>3. \A k \in Nat : k \in T
      <3> HIDE DEF T
      <3> QED BY <2>1, <2>2, SetInduction
    <2> SUFFICES ASSUME NEW k \in 0 .. n PROVE p[k] \in Place
      OBVIOUS
    <2>4. k \in T
      <3> HIDE DEF T
      <3> QED BY <1>2, <2>3
    <2> HIDE DEF p
    <2> QED BY <2>4
  <1>13. p \in [0 .. n -> Place] /\ p[0] = FirstPlace
    BY <1>2, <1>12
  <1> HIDE DEF p
  <1>14. \A k \in 1 .. n : Leads(f, ss[k], p[k - 1], p[k])
    <2> SUFFICES ASSUME NEW k \in 1 .. n PROVE Leads(f, ss[k], p[k - 1], p[k])
      OBVIOUS
    <2>1. p[k - 1] \in Place
      BY <1>2, <1>12
    <2> QED BY <1>11, <2>1
  <1>15. Leads(f, FlattenSeq(ss), p[0], p[n])
    BY <1>3, <1>13, <1>14, FlattenedLeads
  <1>16. Items[f] = FlattenSeq(ss)
    BY DEF Items, ItemsOf, ss
  <1>17. p[n] \in Place /\ p[n].values = 0 /\ p[n].objects = Len(Objects[f]) /\ Len(Objects[f]) \in Nat
    BY <1>2, <1>7, <1>10, <1>12
  <1> QED
    BY <1>7, <1>13, <1>15, <1>16, <1>17
-----------------------------------------------------------------------------
(***************************************************************************)
(* The inductive invariant.  reading(f) is the way through file f; Read(t) *)
(* is the place of thread t on it.                                         *)
(***************************************************************************)
IsReading(f, r) ==
  \E last \in Place : /\ Way(f, Items[f], r, FirstPlace, last)
                      /\ last.values = 0 /\ last.objects = Len(Objects[f])
reading(f) == CHOOSE r : IsReading(f, r)
Read(t) == reading(dlis[t].file)[dlis[t].at - 1]

Started(t) == pc[t] \in {"parse", "reply", "ending", "closed"}
Arguing == js.at \in {"copy", "create"}        \* parseFile is writing _args
Listening == js.at \in {"reply", "handle"}     \* the listener has a message

\* The calls, the event loop and what index.js keeps.
Named == UNION { Range(s.files) : s \in Scripts }    \* what users parse
Call == [file : Named, dir : Nat, status : Statuses]
Program ==
  /\ script \in Scripts /\ calls \in Seq(Call) /\ clock \in Nat
  /\ DOMAIN calls \subseteq DOMAIN script.files
  /\ js.at \in {"loop", "copy", "create", "reply", "handle"}
  /\ DOMAIN js = DOMAIN Loop /\ DOMAIN args = {"fname", "data_dir"}
  /\ {"onEnd", "wells", "numberOfWell", "dataDir"} \subseteq DOMAIN instance
  /\ instance.numberOfWell \in Nat /\ instance.onEnd \in {NoCall} \cup DOMAIN calls
  /\ exited \in BOOLEAN /\ died \in BOOLEAN /\ overlapped \in BOOLEAN

\* Which thread a call has, and what may be in _args.
Arguments ==
  /\ Arguing => calls # <<>> /\ pc[Len(calls)] = "none"
  /\ js.at = "create" => args.fname = {calls[Len(calls)].file}
  /\ \A t \in Peers :
       /\ pc[t] # "none" => t \in DOMAIN calls
       /\ t \notin raced =>
            /\ pc[t] \in {"created", "opening"} => ~Arguing /\ args.fname = {calls[t].file}
            /\ pc[t] = "created" => args.data_dir = {calls[t].dir}
            /\ pc[t] \notin {"none", "created"} => dlis[t].out_dir = calls[t].dir
            /\ Started(t) => dlis[t].file = calls[t].file

\* The sockets: the exchange of each thread, and the reply that the listener owes.
Exchanges ==
  /\ \E M : SocketInv(M)
  /\ sending_reply <=> js.at = "reply"
  /\ js.at = "reply" => js.from = current_out
  /\ Listening => js.from \in Peers /\ Started(js.from)
  /\ \A t \in Peers : receiving_reply[t] <=> pc[t] \in {"reply", "ending"}

\* An object in the making, or a message: what is said of it.
IsObject(object) ==
  /\ object.sending_data_type = "_OBJECT"
  /\ {"sending_data_type", "name", "set", "attributes", "whole"} \subseteq DOMAIN object
Piece(message) ==
  IF message.sending_data_type = "_OBJECT" THEN <<[set |-> message.set, name |-> message.name]>>
  ELSE <<>>

\* Where a thread is in its file, and what the callbacks keep of it.
Reader(t) ==
  LET d == dlis[t]
      b == Read(t)
      held == d.parsing_obj_binn
  IN /\ d.file \in DOMAIN Files /\ d.at \in 1 .. Len(Items[d.file]) + 1
     /\ d.templt_read_idx = b.attribute /\ Len(d.templt) = b.labels /\ b.attribute <= b.labels
     /\ d.attrib_value_cnt = b.values
     /\ b.attribute >= 0 => AllLabels(d.file, b)
     /\ b.set > 0 => d.parsing_set_type = SetAt(d.file, b).type
     /\ held = NoObject \/ IsObject(held)
     /\ b.attribute >= 0 /\ (b.attribute < b.labels \/ b.values > 0) => held # NoObject
Kept(t) ==
  /\ DOMAIN dlis[t] = DOMAIN dlis_init /\ IsSequence(dlis[t].templt) /\ IsSequence(handled[t])
  /\ Started(t) => Reader(t)
  /\ ~Started(t) => /\ dlis[t] = [dlis_init EXCEPT !.out_dir = dlis[t].out_dir]
                    /\ handled[t] = <<>>

\* The objects of a thread that are on their way: with the listener, in its pipe, carried.
Heard(t) == IF Listening /\ js.from = t THEN Piece(js.message) ELSE <<>>
InQueue(messages) == IF messages = <<>> THEN <<>> ELSE Piece(messages[1])
OnTheirWay(t) == Heard(t) \o InQueue(arrived[t]) \o InQueue(on_the_way[t])
Held(t) == Piece(dlis[t].parsing_obj_binn)

(***************************************************************************)
(* The objects that were read are those handled, those on their way and    *)
(* the one that is held; behind the message "ended" there is none.         *)
(***************************************************************************)
Order(t) ==
  /\ handled[t] \o OnTheirWay(t) \o Held(t) = SubSeq(Objects[dlis[t].file], 1, Read(t).objects)
  /\ pc[t] \in {"ending", "closed"} =>
       /\ dlis[t].at = Len(Items[dlis[t].file]) + 1
       /\ InQueue(arrived[t]) = <<>> /\ InQueue(on_the_way[t]) = <<>>
       /\ arrived[t] = <<>> /\ on_the_way[t] = <<>> => Heard(t) = <<>>
ThreadInv(t) == Kept(t) /\ (Started(t) => Order(t))
Threads ==
  /\ pc \in [Peers -> Threads_at] /\ DOMAIN dlis = Peers /\ DOMAIN handled = Peers
  /\ \A t \in Peers : ThreadInv(t)

IInv == Program /\ Arguments /\ Exchanges /\ Threads /\ ExitsOnlyFor

-----------------------------------------------------------------------------
(* Lemmas about the parts of the invariant. *)

LEMMA ReadingHolds ==
  ASSUME NEW f \in DOMAIN Files, NEW r, r = reading(f), NEW n, n = Len(Items[f])
  PROVE  /\ n \in Nat /\ DOMAIN Items[f] = 1 .. n
         /\ r \in [0 .. n -> Place] /\ r[0] = FirstPlace
         /\ r[n].values = 0 /\ r[n].objects = Len(Objects[f])
         /\ \A i \in 1 .. n : Due(f, Items[f][i], r[i - 1], r[i])
  <1>1. PICK last \in Place : /\ Leads(f, Items[f], FirstPlace, last)
                              /\ last.values = 0 /\ last.objects = Len(Objects[f])
    BY FileLeads
  <1>2. IsSequence(Items[f])
    BY <1>1 DEF Leads
  <1>3. \E q : IsReading(f, q)
    BY <1>1 DEF Leads, IsReading
  <1>4. IsReading(f, r)
    BY <1>3 DEF reading
  <1>5. PICK end \in Place : /\ Way(f, Items[f], r, FirstPlace, end)
                             /\ end.values = 0 /\ end.objects = Len(Objects[f])
    BY <1>4 DEF IsReading
  <1>6. n \in Nat /\ DOMAIN Items[f] = 1 .. n
    BY <1>2, SequenceOfElements
  <1> HIDE DEF Place
  <1> QED
    BY <1>5, <1>6 DEF Way

\* The same, one after the other, when one part moves to the next place: it is sent, arrives,
\* is taken, is handled.
LEMMA Sent ==
  ASSUME NEW d, NEW h, NEW k,
         IsSequence(d), IsSequence(h), IsSequence(k)
  PROVE  (d \o ((h \o <<>>) \o k)) \o <<>> = (d \o ((h \o <<>>) \o <<>>)) \o k
  <1> DEFINE X == Range(d) \cup Range(h) \cup Range(k)
  <1>1. d \in Seq(X) /\ h \in Seq(X) /\ k \in Seq(X)
    BY SequenceOfMore
  <1> HIDE DEF X
  <1>2. \A s \in Seq(X) : s \o <<>> = s /\ <<>> \o s = s
    BY ConcatEmptySeq
  <1>3. \A s, t, u \in Seq(X) : s \o (t \o u) = (s \o t) \o u
    BY ConcatAssociative
  <1>4. \A s, t \in Seq(X) : s \o t \in Seq(X)
    OBVIOUS
  <1> QED
    BY <1>1, <1>2, <1>3, <1>4

LEMMA Arrived ==
  ASSUME NEW d, NEW h, NEW w, NEW k,
         IsSequence(d), IsSequence(h), IsSequence(w), IsSequence(k)
  PROVE  (d \o ((h \o w) \o <<>>)) \o k = (d \o ((h \o <<>>) \o w)) \o k
  <1> DEFINE X == Range(d) \cup Range(h) \cup Range(w) \cup Range(k)
  <1>1. d \in Seq(X) /\ h \in Seq(X) /\ w \in Seq(X) /\ k \in Seq(X)
    BY SequenceOfMore
  <1> HIDE DEF X
  <1>2. \A s \in Seq(X) : s \o <<>> = s /\ <<>> \o s = s
    BY ConcatEmptySeq
  <1>3. \A s, t, u \in Seq(X) : s \o (t \o u) = (s \o t) \o u
    BY ConcatAssociative
  <1>4. \A s, t \in Seq(X) : s \o t \in Seq(X)
    OBVIOUS
  <1> QED
    BY <1>1, <1>2, <1>3, <1>4

LEMMA Taken ==
  ASSUME NEW d, NEW a, NEW k,
         IsSequence(d), IsSequence(a), IsSequence(k)
  PROVE  (d \o ((a \o <<>>) \o <<>>)) \o k = (d \o ((<<>> \o a) \o <<>>)) \o k
  <1> DEFINE X == Range(d) \cup Range(a) \cup Range(k)
  <1>1. d \in Seq(X) /\ a \in Seq(X) /\ k \in Seq(X)
    BY SequenceOfMore
  <1> HIDE DEF X
  <1>2. \A s \in Seq(X) : s \o <<>> = s /\ <<>> \o s = s
    BY ConcatEmptySeq
  <1>3. \A s, t, u \in Seq(X) : s \o (t \o u) = (s \o t) \o u
    BY ConcatAssociative
  <1>4. \A s, t \in Seq(X) : s \o t \in Seq(X)
    OBVIOUS
  <1> QED
    BY <1>1, <1>2, <1>3, <1>4

LEMMA JoinedOn ==
  ASSUME NEW d, NEW h, NEW k,
         IsSequence(d), IsSequence(h), IsSequence(k)
  PROVE  d \o ((h \o <<>>) \o k) = (d \o ((h \o <<>>) \o k)) \o <<>>
  <1> DEFINE X == Range(d) \cup Range(h) \cup Range(k)
  <1>1. d \in Seq(X) /\ h \in Seq(X) /\ k \in Seq(X)
    BY SequenceOfMore
  <1> HIDE DEF X
  <1>2. \A s \in Seq(X) : s \o <<>> = s /\ <<>> \o s = s
    BY ConcatEmptySeq
  <1>3. \A s, t, u \in Seq(X) : s \o (t \o u) = (s \o t) \o u
    BY ConcatAssociative
  <1>4. \A s, t \in Seq(X) : s \o t \in Seq(X)
    OBVIOUS
  <1> QED
    BY <1>1, <1>2, <1>3, <1>4

LEMMA OneMore ==
  ASSUME NEW s, IsSequence(s), NEW n \in Nat, n + 1 \in 1 .. Len(s), NEW x, x = s[n + 1]
  PROVE  SubSeq(s, 1, n) \o <<x>> = SubSeq(s, 1, n + 1)
  <1>1. s \in Seq(Range(s)) /\ Len(s) \in Nat
    BY SequenceOfElements DEF IsSequence
  <1>2. x \in Range(s)
    BY <1>1 DEF Range
  <1> QED
    BY <1>1, <1>2

LEMMA PiecesAreSequences ==
  ASSUME NEW m, NEW q
  PROVE  IsSequence(Piece(m)) /\ IsSequence(InQueue(q)) /\ IsSequence(<<>>)
  <1>1. IsSequence(<<>>)
    <2>1. <<>> \in Seq({})
      OBVIOUS
    <2> QED BY <2>1, SequenceOf
  <1>2. \A x : IsSequence(Piece(x))
    BY <1>1, OneElement DEF Piece
  <1> QED
    BY <1>1, <1>2 DEF InQueue

\* Between two requests of a thread nothing of it is anywhere.
LEMMA NothingSent ==
  ASSUME Exchanges, NEW t \in Peers, ~receiving_reply[t]
  PROVE  on_the_way[t] = <<>> /\ arrived[t] = <<>> /\ current_out # t
  <1>1. PICK M : SocketInv(M)
    BY DEF Exchanges
  <1>2. InOnePlace(t) /\ (arrived[t] = <<>> <=> Len(arrived[t]) = 0)
        /\ (on_the_way[t] = <<>> <=> Len(on_the_way[t]) = 0)
    BY <1>1, NoExchange
  <1> QED
    BY <1>2 DEF InOnePlace, Places, BeingAnswered

LEMMA OtherThread ==
  ASSUME NEW t \in Peers, ThreadInv(t),
         UNCHANGED <<pc[t], dlis[t], handled[t], arrived[t], on_the_way[t]>>,
         Heard(t)' = Heard(t)
  PROVE  ThreadInv(t)'
  <1>1. Started(t)' <=> Started(t)
    BY DEF Started
  <1>2. Read(t)' = Read(t) /\ (Reader(t)' <=> Reader(t))
    BY DEF Read, Reader
  <1>3. Kept(t)'
    BY <1>1, <1>2 DEF ThreadInv, Kept
  <1>4. Held(t)' = Held(t) /\ OnTheirWay(t)' = OnTheirWay(t)
    BY DEF Held, OnTheirWay, InQueue
  <1>5. Order(t)' <=> Order(t)
    BY <1>2, <1>4 DEF Order, InQueue
  <1> QED
    BY <1>1, <1>3, <1>5 DEF ThreadInv

\* A step of parser thread t: what it may change of the others, of the program and of itself.
Alone(t) ==
  /\ ~exited
  /\ UNCHANGED <<wells_vars, js_vars, script, sending_reply, current_out>>
  /\ \A o \in Peers : o # t => UNCHANGED <<pc[o], dlis[o], arrived[o], on_the_way[o], receiving_reply[o]>>
  /\ pc' \in [Peers -> Threads_at] /\ DOMAIN dlis' = Peers

LEMMA ThreadMoved ==
  ASSUME IInv, NEW t \in Peers, Alone(t), Started(t), Started(t)', ThreadInv(t)',
         dlis'[t].out_dir = dlis[t].out_dir, dlis'[t].file = dlis[t].file,
         UNCHANGED exited, (\E M : SocketInv(M))',
         receiving_reply'[t] <=> pc'[t] \in {"reply", "ending"}
  PROVE  IInv'
  <1>1. Program'
    BY DEF IInv, Program, Alone, wells_vars, js_vars
  <1>2. Arguments'
    <2>1. Arguing' <=> Arguing
      BY DEF Arguing, Alone, js_vars
    <2>2. UNCHANGED <<js, calls, args, raced>>
      BY DEF Alone, js_vars
    <2>3. \A o \in Peers : o # t => UNCHANGED <<pc[o], dlis[o]>>
      BY DEF Alone
    <2>4. pc[t] \notin {"none", "created", "opening"} /\ pc'[t] \notin {"none", "created", "opening"}
      BY DEF Started
    <2>5. Arguing => calls # <<>> /\ pc[Len(calls)] = "none" /\ Len(calls) \in Peers
      <3> SUFFICES ASSUME Arguing PROVE calls # <<>> /\ pc[Len(calls)] = "none" /\ Len(calls) \in Peers
        OBVIOUS
      <3>1. calls # <<>> /\ pc[Len(calls)] = "none" /\ calls \in Seq(Call)
        BY DEF IInv, Program, Arguments
      <3>2. Len(calls) \in DOMAIN calls
        BY <3>1
      <3>3. DOMAIN calls \subseteq DOMAIN script.files /\ DOMAIN script.files \subseteq Peers
        BY ScriptsAssumption DEF IInv, Program
      <3> QED BY <3>1, <3>2, <3>3
    <2>6. ASSUME Arguing' PROVE (calls # <<>> /\ pc[Len(calls)] = "none")'
      BY <2>1, <2>2, <2>3, <2>4, <2>5, <2>6
    <2>7. (js.at = "create" => args.fname = {calls[Len(calls)].file})'
      BY <2>2 DEF IInv, Arguments
    <2>8. ASSUME NEW o \in Peers
          PROVE  /\ (pc[o] # "none" => o \in DOMAIN calls)'
                 /\ (o \notin raced =>
                      /\ pc[o] \in {"created", "opening"} => ~Arguing /\ args.fname = {calls[o].file}
                      /\ pc[o] = "created" => args.data_dir = {calls[o].dir}
                      /\ pc[o] \notin {"none", "created"} => dlis[o].out_dir = calls[o].dir
                      /\ Started(o) => dlis[o].file = calls[o].file)'
      <3>1. CASE o = t
        BY <2>1, <2>2, <2>4, <3>1 DEF IInv, Arguments
      <3>2. CASE o # t
        <4>1. UNCHANGED <<pc[o], dlis[o]>> /\ (Started(o)' <=> Started(o))
          BY <2>3, <3>2 DEF Started
        <4> QED BY <2>1, <2>2, <4>1 DEF IInv, Arguments
      <3> QED BY <3>1, <3>2
    <2> QED BY <2>6, <2>7, <2>8 DEF Arguments
  <1>3. Exchanges'
    <2>1. UNCHANGED <<js, sending_reply, current_out>>
      BY DEF Alone, js_vars
    <2>2. (Listening => js.from \in Peers /\ Started(js.from))'
      <3>1. PICK o : o = js.from
        OBVIOUS
      <3>2. ASSUME Listening, o \in Peers, Started(o) PROVE Started(o)'
        <4>1. CASE o = t
          BY <4>1
        <4>2. CASE o # t
          BY <3>2, <4>2 DEF Alone, Started
        <4> QED BY <4>1, <4>2
      <3>3. Listening' => Listening /\ o \in Peers /\ Started(o)
        BY <2>1, <3>1 DEF Listening, IInv, Exchanges
      <3>4. (js.from = o)'
        BY <2>1, <3>1
      <3>5. Listening' => o \in Peers /\ Started(o)'
        BY <3>2, <3>3
      <3>6. Started(o)' <=> Started(js.from)'
        BY <3>4 DEF Started
      <3> QED BY <3>4, <3>5, <3>6
    <2>3. \A o \in Peers : receiving_reply'[o] <=> pc'[o] \in {"reply", "ending"}
      BY DEF IInv, Exchanges, Alone
    <2> QED BY <2>1, <2>2, <2>3 DEF IInv, Exchanges
  <1>4. Threads'
    <2>1. ASSUME NEW o \in Peers, o # t PROVE ThreadInv(o)'
      <3>1. Heard(o)' = Heard(o)
        BY DEF Heard, Listening, Alone, js_vars
      <3>2. UNCHANGED <<pc[o], dlis[o], handled[o], arrived[o], on_the_way[o]>>
        BY <2>1 DEF Alone, js_vars
      <3>3. ThreadInv(o)
        BY DEF IInv, Threads
      <3> QED BY <3>1, <3>2, <3>3, OtherThread
    <2>2. DOMAIN handled' = Peers
      BY DEF IInv, Threads, Alone, js_vars
    <2> QED BY <2>1, <2>2 DEF Threads, Alone
  <1>5. ExitsOnlyFor'
    BY DEF Alone, ExitsOnlyFor
  <1> QED
    BY <1>1, <1>2, <1>3, <1>4, <1>5 DEF IInv

\* The item that a thread is at, and the places before and behind it.
LEMMA NextItem ==
  ASSUME NEW t \in Peers, Reader(t), NEW kind, AtItem(t, kind),
         NEW f, f = dlis[t].file, NEW b, b = Read(t), NEW a, a = reading(f)[dlis[t].at]
  PROVE  /\ f \in DOMAIN Files /\ a \in Place /\ b \in Place
         /\ Due(f, Item(t), b, a) /\ Item(t).kind = kind
         /\ dlis[t].at \in 1 .. Len(Items[f]) /\ Len(Items[f]) \in Nat
  <1>1. f \in DOMAIN Files /\ dlis[t].at \in DOMAIN Items[f]
    BY DEF Reader, AtItem
  <1> DEFINE r == reading(f)
             n == Len(Items[f])
             i == dlis[t].at
  <1>2. /\ n \in Nat /\ DOMAIN Items[f] = 1 .. n
        /\ r \in [0 .. n -> Place]
        /\ \A j \in 1 .. n : Due(f, Items[f][j], r[j - 1], r[j])
    <2> HIDE DEF r, n
    <2> QED BY <1>1, ReadingHolds DEF r, n
  <1>3. i \in 1 .. n /\ i - 1 \in 0 .. n /\ i \in 0 .. n
    BY <1>1, <1>2
  <1>4. b = r[i - 1] /\ a = r[i] /\ Items[f][i] = Item(t)
    BY DEF Read, Item
  <1> HIDE DEF r, n, i
  <1>5. a \in Place /\ b \in Place /\ Due(f, Item(t), b, a)
    <2> HIDE DEF Due, Place
    <2> QED BY <1>2, <1>3, <1>4
  <1> QED
    BY <1>1, <1>2, <1>3, <1>5 DEF AtItem, Item, n, i

-----------------------------------------------------------------------------
(* The steps of a parser thread. *)

\* A callback: nothing is sent, or a message that holds no object, or the object that is held;
\* at a new object that is the next one of the file.
LEMMA OrderNext ==
  ASSUME NEW t \in Peers, ThreadInv(t), pc[t] = "parse", pc'[t] \in {"parse", "reply"},
         handled'[t] = handled[t], Heard(t)' = Heard(t),
         arrived[t] = <<>>, arrived'[t] = <<>>, on_the_way[t] = <<>>,
         dlis'[t].file = dlis[t].file,
         NEW f \in DOMAIN Files, f = dlis[t].file, NEW n \in Nat, n = Read(t).objects,
         \/ /\ Read(t)'.objects = n /\ InQueue(on_the_way[t])' = <<>> /\ Held(t)' = Held(t)
         \/ /\ Read(t)'.objects = n /\ InQueue(on_the_way[t])' = Held(t) /\ Held(t)' = <<>>
         \/ /\ Read(t)'.objects = n + 1 /\ n + 1 \in 1 .. Len(Objects[f])
            /\ InQueue(on_the_way[t])' = Held(t) /\ Held(t)' = <<Objects[f][n + 1]>>
  PROVE  Order(t)'
  <1> DEFINE d == handled[t]
             h == Heard(t)
             k == Held(t)
             all == Objects[f]
  <1>1. Started(t) /\ IsSequence(d)
    BY DEF ThreadInv, Kept, Started
  <1>2. (d \o ((h \o <<>>) \o <<>>)) \o k = SubSeq(all, 1, n)
    <2>1. d \o OnTheirWay(t) \o k = SubSeq(all, 1, n)
      BY <1>1 DEF ThreadInv, Order
    <2>2. OnTheirWay(t) = (h \o <<>>) \o <<>>
      BY DEF OnTheirWay, InQueue
    <2> QED BY <2>1, <2>2
  <1>3. IsSequence(h) /\ IsSequence(k) /\ IsSequence(<<>>) /\ \A x : IsSequence(<<x>>)
    BY PiecesAreSequences, OneElement DEF Heard, Held
  <1>4. InQueue(arrived[t])' = <<>>
    BY DEF InQueue
  <1>5. OnTheirWay(t)' = (h \o <<>>) \o InQueue(on_the_way[t])'
    BY <1>4 DEF OnTheirWay
  <1>6. handled'[t] = d /\ Objects[dlis'[t].file] = all
    OBVIOUS
  <1>7. IsSequence(all)
    BY FileLeads
  <1> HIDE DEF d, h, k, all
  <1>8. handled'[t] \o OnTheirWay(t)' \o Held(t)' = SubSeq(all, 1, Read(t)'.objects)
    <2>1. CASE /\ Read(t)'.objects = n /\ InQueue(on_the_way[t])' = <<>> /\ Held(t)' = Held(t)
      BY <1>2, <1>5, <1>6, <2>1 DEF k
    <2>2. CASE /\ Read(t)'.objects = n /\ InQueue(on_the_way[t])' = Held(t) /\ Held(t)' = <<>>
      <3>1. OnTheirWay(t)' = (h \o <<>>) \o k
        BY <1>5, <2>2 DEF k
      <3>2. (d \o ((h \o <<>>) \o k)) \o <<>> = (d \o ((h \o <<>>) \o <<>>)) \o k
        <4>1. IsSequence(k)
          BY <1>3
        <4> QED BY <1>1, <1>3, <4>1, Sent
      <3> QED BY <1>2, <1>6, <2>2, <3>1, <3>2
    <2>3. CASE /\ Read(t)'.objects = n + 1 /\ n + 1 \in 1 .. Len(Objects[f])
               /\ InQueue(on_the_way[t])' = Held(t) /\ Held(t)' = <<Objects[f][n + 1]>>
      <3>1. OnTheirWay(t)' = (h \o <<>>) \o k
        BY <1>5, <2>3 DEF k
      <3>2. PICK x : x = all[n + 1]
        OBVIOUS
      <3>3. (d \o ((h \o <<>>) \o k)) \o <<x>> = ((d \o ((h \o <<>>) \o <<>>)) \o k) \o <<x>>
        <4>1. (d \o ((h \o <<>>) \o k)) \o <<>> = (d \o ((h \o <<>>) \o <<>>)) \o k
          BY <1>1, <1>3, Sent
        <4>2. d \o ((h \o <<>>) \o k) = (d \o ((h \o <<>>) \o k)) \o <<>>
          BY <1>1, <1>3, JoinedOn
        <4> QED BY <4>1, <4>2
      <3>4. SubSeq(all, 1, n) \o <<x>> = SubSeq(all, 1, n + 1)
        BY <1>7, <2>3, <3>2, OneMore DEF all
      <3>5. Held(t)' = <<x>>
        BY <2>3, <3>2 DEF all
      <3> QED BY <1>2, <1>6, <2>3, <3>1, <3>3, <3>4, <3>5
    <2> QED BY <2>1, <2>2, <2>3
  <1> QED
    BY <1>6, <1>8 DEF Order

\* What every callback finds.
LEMMA CallbackBefore ==
  ASSUME IInv, NEW t \in Peers, NEW kind, AtItem(t, kind)
  PROVE  /\ Started(t) /\ ThreadInv(t) /\ Reader(t) /\ Kept(t) /\ ~receiving_reply[t]
         /\ on_the_way[t] = <<>> /\ arrived[t] = <<>>
         /\ t \in DOMAIN pc /\ t \in DOMAIN dlis
  <1>1. Started(t) /\ ThreadInv(t) /\ pc[t] = "parse"
    BY DEF IInv, Threads, AtItem, Started
  <1>2. ~receiving_reply[t] /\ Exchanges
    BY <1>1 DEF IInv, Exchanges
  <1> QED
    BY <1>1, <1>2, NothingSent DEF IInv, Threads, ThreadInv, Kept

\* jscall.
LEMMA Called ==
  ASSUME IInv, NEW t \in Peers, NEW m, NEW next \in {"reply", "ending"}, jscall(t, m, next),
         on_the_way[t] = <<>>
  PROVE  /\ (\E M : SocketInv(M))' /\ receiving_reply'[t] = TRUE
         /\ on_the_way'[t] = <<m>> /\ InQueue(on_the_way[t])' = Piece(m)
         /\ pc'[t] = next /\ pc' \in [Peers -> Threads_at]
         /\ UNCHANGED <<arrived, sending_reply, current_out>>
         /\ \A o \in Peers : o # t => UNCHANGED <<pc[o], on_the_way[o], receiving_reply[o]>>
  <1>1. PICK M : SocketInv(M)
    BY DEF IInv, Exchanges
  <1>2. SocketInv(M \cup {m})
    <2>1. \A q : q \in Seq(M) => q \in Seq(M \cup {m})
      OBVIOUS
    <2>2. Counters(M) => Counters(M \cup {m})
      BY <2>1 DEF Counters
    <2> QED BY <1>1, <2>2 DEF SocketInv
  <1>3. SocketInv(M \cup {m})'
    BY <1>2, SendHolds DEF jscall
  <1>4. (\E N : SocketInv(N))'
    BY <1>3
  <1>5. receiving_reply \in [Peers -> BOOLEAN] /\ on_the_way \in [Peers -> Seq(M)]
    BY <1>1 DEF SocketInv, Counters
  <1>6. on_the_way'[t] = <<m>> /\ receiving_reply'[t] = TRUE
    BY <1>5 DEF jscall, req_send
  <1>7. InQueue(on_the_way[t])' = Piece(m)
    BY <1>6 DEF InQueue
  <1>8. pc'[t] = next /\ pc' \in [Peers -> Threads_at]
    BY DEF jscall, IInv, Threads, Threads_at
  <1>9. \A o \in Peers : o # t => UNCHANGED <<pc[o], on_the_way[o], receiving_reply[o]>>
    BY <1>5 DEF jscall, req_send, IInv, Threads
  <1>10. UNCHANGED <<arrived, sending_reply, current_out>>
    BY DEF jscall, req_send, rep_vars
  <1> QED
    BY <1>4, <1>6, <1>7, <1>8, <1>9, <1>10

LEMMA NotCalled ==
  ASSUME IInv, NEW t \in Peers, no_jscall, on_the_way[t] = <<>>
  PROVE  /\ (\E M : SocketInv(M))' /\ UNCHANGED <<pc, on_the_way, arrived, receiving_reply>>
         /\ InQueue(on_the_way[t])' = <<>>
         /\ pc' \in [Peers -> Threads_at] /\ UNCHANGED <<sending_reply, current_out>>
  <1>1. PICK M : SocketInv(M)
    BY DEF IInv, Exchanges
  <1>2. SocketInv(M)'
    BY <1>1, SocketsStay DEF no_jscall
  <1>3. UNCHANGED <<pc, on_the_way, arrived, receiving_reply, sending_reply, current_out>>
    BY DEF no_jscall, socket_vars, req_vars, rep_vars
  <1> QED
    BY <1>2, <1>3 DEF IInv, Threads, InQueue

ThreadFrame == ~exited /\ UNCHANGED <<wells_vars, js_vars, script>>

\* A callback reads the next item, and keeps what all of them keep.
ReadsOn(t) ==
  /\ dlis'[t].at = dlis[t].at + 1 /\ dlis'[t].file = dlis[t].file
  /\ dlis'[t].out_dir = dlis[t].out_dir /\ DOMAIN dlis'[t] = DOMAIN dlis_init
  /\ DOMAIN dlis' = Peers /\ \A o \in Peers : o # t => dlis'[o] = dlis[o]

LEMMA CallbackHolds ==
  ASSUME IInv, NEW t \in Peers, NEW kind, AtItem(t, kind), ThreadFrame, UNCHANGED exited,
         ReadsOn(t), Reader(t)', IsSequence(dlis'[t].templt),
         NEW sends \in BOOLEAN, NEW m, IF sends THEN jscall(t, m, "reply") ELSE no_jscall,
         NEW f, f = dlis[t].file, NEW n, n = Read(t).objects,
         NEW l, l = reading(f)[dlis[t].at].objects,
         \/ l = n /\ Held(t)' = Held(t) /\ (sends => Piece(m) = <<>>)
         \/ l = n /\ sends /\ Piece(m) = Held(t) /\ Held(t)' = <<>>
         \/ /\ l = n + 1 /\ n + 1 \in 1 .. Len(Objects[f])
            /\ Held(t) = IF sends THEN Piece(m) ELSE <<>>
            /\ Held(t)' = <<Objects[f][n + 1]>>
  PROVE  IInv'
  <1>1. /\ Started(t) /\ ThreadInv(t) /\ Reader(t) /\ Kept(t) /\ ~receiving_reply[t]
        /\ on_the_way[t] = <<>> /\ arrived[t] = <<>>
    BY CallbackBefore
  <1>2. /\ (\E M : SocketInv(M))' /\ UNCHANGED <<arrived, sending_reply, current_out>>
        /\ pc' \in [Peers -> Threads_at] /\ pc'[t] = IF sends THEN "reply" ELSE "parse"
        /\ receiving_reply'[t] = sends
        /\ InQueue(on_the_way[t])' = IF sends THEN Piece(m) ELSE <<>>
        /\ \A o \in Peers : o # t => UNCHANGED <<pc[o], on_the_way[o], receiving_reply[o]>>
    <2>1. CASE sends
      <3>1. jscall(t, m, "reply")
        BY <2>1
      <3>2. /\ (\E M : SocketInv(M))' /\ receiving_reply'[t] = TRUE
            /\ InQueue(on_the_way[t])' = Piece(m)
            /\ pc'[t] = "reply" /\ pc' \in [Peers -> Threads_at]
            /\ UNCHANGED <<arrived, sending_reply, current_out>>
            /\ \A o \in Peers : o # t => UNCHANGED <<pc[o], on_the_way[o], receiving_reply[o]>>
        BY <1>1, <3>1, Called
      <3> QED BY <2>1, <3>2
    <2>2. CASE ~sends
      <3>1. no_jscall
        BY <2>2
      <3>2. /\ (\E M : SocketInv(M))' /\ UNCHANGED <<pc, on_the_way, arrived, receiving_reply>>
            /\ InQueue(on_the_way[t])' = <<>>
            /\ pc' \in [Peers -> Threads_at] /\ UNCHANGED <<sending_reply, current_out>>
        BY <1>1, <3>1, NotCalled
      <3>3. pc[t] = "parse" /\ receiving_reply[t] = FALSE
        <4>1. receiving_reply[t] \in BOOLEAN
          BY DEF IInv, Exchanges, SocketInv, Counters
        <4> QED BY <1>1, <4>1 DEF AtItem
      <3> QED BY <2>2, <3>2, <3>3
    <2> QED BY <2>1, <2>2
  <1>3. Heard(t)' = Heard(t) /\ handled'[t] = handled[t]
    BY DEF Heard, Listening, ThreadFrame, js_vars
  <1>4. Alone(t)
    BY <1>2 DEF Alone, ThreadFrame, ReadsOn
  <1>5. Started(t)' /\ pc[t] = "parse" /\ pc'[t] \in {"parse", "reply"}
    BY <1>2 DEF Started, AtItem
  <1>6. Kept(t)'
    BY <1>1, <1>3, <1>5 DEF Kept, ReadsOn
  <1>7. f \in DOMAIN Files /\ n \in Nat
    <2>1. Read(t) \in Place /\ f \in DOMAIN Files
      BY <1>1, NextItem
    <2> QED BY <2>1 DEF Place
  <1>8. Read(t)'.objects = l
    <2>1. dlis'[t].at - 1 = dlis[t].at /\ dlis'[t].file = f
      <3>1. dlis[t].at \in 1 .. Len(Items[f]) /\ Len(Items[f]) \in Nat
        BY <1>1, NextItem
      <3>2. dlis[t].at \in Nat
        BY <3>1
      <3> QED BY <3>2 DEF ReadsOn
    <2> QED BY <2>1 DEF Read
  <1>9. Order(t)'
    <2>1. arrived'[t] = <<>> /\ dlis'[t].file = dlis[t].file
      BY <1>1, <1>2 DEF ReadsOn
    <2>2. \/ /\ Read(t)'.objects = n /\ InQueue(on_the_way[t])' = <<>> /\ Held(t)' = Held(t)
          \/ /\ Read(t)'.objects = n /\ InQueue(on_the_way[t])' = Held(t) /\ Held(t)' = <<>>
          \/ /\ Read(t)'.objects = n + 1 /\ n + 1 \in 1 .. Len(Objects[f])
             /\ InQueue(on_the_way[t])' = Held(t) /\ Held(t)' = <<Objects[f][n + 1]>>
      BY <1>2, <1>8
    <2> QED BY <1>1, <1>3, <1>5, <1>7, <2>1, <2>2, OrderNext
  <1>10. ThreadInv(t)'
    BY <1>6, <1>9 DEF ThreadInv
  <1>11. receiving_reply'[t] <=> pc'[t] \in {"reply", "ending"}
    BY <1>2
  <1> QED
    BY <1>1, <1>2, <1>4, <1>5, <1>10, <1>11, ThreadMoved DEF ReadsOn

LEMMA SetHolds ==
  ASSUME IInv, NEW t \in Peers, on_eflr_component_set(t), ThreadFrame
  PROVE  IInv'
  <1> DEFINE f == dlis[t].file
             b == Read(t)
             a == reading(f)[dlis[t].at]
             m == set_message(Item(t).type)
  <1>1. AtItem(t, "SET") /\ jscall(t, m, "reply") /\ UNCHANGED exited
    BY DEF on_eflr_component_set
  <1>2. /\ Started(t) /\ ThreadInv(t) /\ Reader(t) /\ Kept(t) /\ ~receiving_reply[t]
        /\ on_the_way[t] = <<>> /\ arrived[t] = <<>> /\ t \in DOMAIN dlis
    BY <1>1, CallbackBefore
  <1>3. /\ f \in DOMAIN Files /\ a \in Place /\ b \in Place
        /\ Due(f, Item(t), b, a) /\ Item(t).kind = "SET"
        /\ dlis[t].at \in 1 .. Len(Items[f]) /\ Len(Items[f]) \in Nat
    BY <1>1, <1>2, NextItem
  <1>4. SetDue(f, Item(t), b, a)
    BY <1>3 DEF Due, LabelDue, ObjectDue, AttributeDue, ValueDue, RowDue
  <1>5. /\ dlis'[t].at = dlis[t].at + 1 /\ dlis'[t].templt = <<>> /\ dlis'[t].templt_read_idx = -1
        /\ dlis'[t].parsing_set_type = Item(t).type
        /\ dlis'[t].file = f /\ dlis'[t].out_dir = dlis[t].out_dir
        /\ dlis'[t].parsing_obj_binn = dlis[t].parsing_obj_binn
        /\ dlis'[t].attrib_value_cnt = dlis[t].attrib_value_cnt
        /\ DOMAIN dlis'[t] = DOMAIN dlis_init
        /\ DOMAIN dlis' = Peers /\ \A o \in Peers : o # t => dlis'[o] = dlis[o]
    <2>1. dlis'[t] = [dlis[t] EXCEPT !.at = @ + 1, !.templt = <<>>, !.templt_read_idx = -1,
                                     !.parsing_set_type = Item(t).type]
      BY <1>2 DEF on_eflr_component_set
    <2>2. DOMAIN dlis[t] = DOMAIN dlis_init
      BY <1>2 DEF Kept
    <2>3. DOMAIN dlis' = Peers /\ \A o \in Peers : o # t => dlis'[o] = dlis[o]
      BY DEF on_eflr_component_set, IInv, Threads
    <2> QED BY <2>1, <2>2, <2>3 DEF dlis_init
  <1>6. ReadsOn(t)
    BY <1>5 DEF ReadsOn
  <1> HIDE DEF a, b, f
  <1>7. Read(t)' = a
    BY <1>3, <1>5 DEF Read, a, f
  <1>8. IsSequence(<<>>) /\ Len(<<>>) = 0
    BY PiecesAreSequences
  <1>9. Reader(t)'
    <2>1. /\ a.set = b.set + 1 /\ a.labels = 0 /\ a.attribute = -1 /\ a.values = 0
          /\ Item(t).type = SetAt(f, a).type
      BY <1>4 DEF SetDue, SetAt
    <2>2. dlis[t].attrib_value_cnt = b.values /\ b.values = 0
      BY <1>2, <1>4 DEF Reader, SetDue, b
    <2>3. dlis[t].parsing_obj_binn = NoObject \/ IsObject(dlis[t].parsing_obj_binn)
      BY <1>2 DEF Reader
    <2>4. dlis'[t].at \in 1 .. Len(Items[f]) + 1
      BY <1>3, <1>5
    <2> QED BY <1>3, <1>5, <1>7, <1>8, <2>1, <2>2, <2>3, <2>4 DEF Reader
  <1>10. a.objects = b.objects /\ Held(t)' = Held(t) /\ Piece(m) = <<>>
    <2>1. a.objects = b.objects
      BY <1>4 DEF SetDue
    <2> QED BY <1>5, <2>1 DEF Held, Piece, set_message
  <1> HIDE DEF m
  <1>11. IsSequence(dlis'[t].templt)
    BY <1>5, <1>8
  <1> QED
    BY <1>1, <1>6, <1>9, <1>10, <1>11, CallbackHolds DEF a, b, f

LEMMA LabelHolds ==
  ASSUME IInv, NEW t \in Peers, on_template_attrib(t), ThreadFrame
  PROVE  IInv'
  <1> DEFINE f == dlis[t].file
             b == Read(t)
             a == reading(f)[dlis[t].at]
  <1>1. AtItem(t, "ATTRIB") /\ UNCHANGED exited
    BY DEF on_template_attrib
  <1>2. /\ Started(t) /\ Reader(t) /\ Kept(t) /\ t \in DOMAIN dlis
    BY <1>1, CallbackBefore
  <1>3. /\ f \in DOMAIN Files /\ a \in Place /\ b \in Place
        /\ Due(f, Item(t), b, a) /\ Item(t).kind = "ATTRIB"
        /\ dlis[t].at \in 1 .. Len(Items[f]) /\ Len(Items[f]) \in Nat
    BY <1>1, <1>2, NextItem
  <1>4. LabelDue(f, Item(t), b, a)
    <2>1. b.attribute < 0
      BY <1>2 DEF on_template_attrib, Reader, b
    <2>2. ~(b.attribute >= 0)
      BY <1>3, <2>1 DEF Place
    <2> HIDE DEF a, b, f
    <2> QED BY <1>3, <2>2 DEF Due, SetDue, ObjectDue, AttributeDue, ValueDue, RowDue
  <1>5. /\ dlis'[t].at = dlis[t].at + 1 /\ dlis'[t].templt = Append(dlis[t].templt, Item(t).label)
        /\ dlis'[t].templt_read_idx = dlis[t].templt_read_idx
        /\ dlis'[t].parsing_set_type = dlis[t].parsing_set_type
        /\ dlis'[t].file = f /\ dlis'[t].out_dir = dlis[t].out_dir
        /\ dlis'[t].parsing_obj_binn = dlis[t].parsing_obj_binn
        /\ dlis'[t].attrib_value_cnt = dlis[t].attrib_value_cnt
        /\ DOMAIN dlis'[t] = DOMAIN dlis_init
        /\ DOMAIN dlis' = Peers /\ \A o \in Peers : o # t => dlis'[o] = dlis[o]
    <2>1. dlis'[t] = [dlis[t] EXCEPT !.at = @ + 1, !.templt = Append(@, Item(t).label)]
      BY <1>2 DEF on_template_attrib
    <2>2. DOMAIN dlis[t] = DOMAIN dlis_init
      BY <1>2 DEF Kept
    <2>3. DOMAIN dlis' = Peers /\ \A o \in Peers : o # t => dlis'[o] = dlis[o]
      BY DEF on_template_attrib, IInv, Threads
    <2> QED BY <2>1, <2>2, <2>3 DEF dlis_init
  <1>6. ReadsOn(t)
    BY <1>5 DEF ReadsOn
  <1> HIDE DEF a, b, f
  <1>7. Read(t)' = a
    BY <1>3, <1>5 DEF Read, a, f
  <1>8. IsSequence(dlis'[t].templt) /\ Len(dlis'[t].templt) = Len(dlis[t].templt) + 1
    <2> DEFINE X == Range(dlis[t].templt) \cup {Item(t).label}
               q == dlis[t].templt
    <2>1. IsSequence(q)
      BY <1>2 DEF Kept
    <2>2. q \in Seq(X)
      <3>1. Range(q) \subseteq X
        OBVIOUS
      <3> HIDE DEF q, X
      <3> QED BY <2>1, <3>1, SequenceOfMore
    <2>3. Item(t).label \in X
      OBVIOUS
    <2> HIDE DEF X, q
    <2>4. Append(q, Item(t).label) \in Seq(X) /\ Len(Append(q, Item(t).label)) = Len(q) + 1
      BY <2>2, <2>3
    <2> QED BY <1>5, <2>4, SequenceOf DEF q
  <1>9. Reader(t)'
    <2>1. /\ a.set = b.set /\ a.labels = b.labels + 1 /\ a.attribute = -1 /\ a.values = b.values
          /\ SetAt(f, a) = SetAt(f, b)
      BY <1>3, <1>4 DEF LabelDue, SetAt, Place
    <2>2. b.attribute = -1
      BY <1>4 DEF LabelDue
    <2>3. dlis'[t].at \in 1 .. Len(Items[f]) + 1
      BY <1>3, <1>5
    <2>4. /\ dlis[t].templt_read_idx = b.attribute /\ Len(dlis[t].templt) = b.labels
          /\ dlis[t].attrib_value_cnt = b.values
          /\ b.set > 0 => dlis[t].parsing_set_type = SetAt(f, b).type
          /\ dlis[t].parsing_obj_binn = NoObject \/ IsObject(dlis[t].parsing_obj_binn)
      BY <1>2 DEF Reader, b, f
    <2>5. a.labels \in Nat
      BY <1>3 DEF Place
    <2> QED BY <1>3, <1>5, <1>7, <1>8, <2>1, <2>2, <2>3, <2>4, <2>5 DEF Reader
  <1>10. a.objects = b.objects /\ Held(t)' = Held(t)
    <2>1. a.objects = b.objects
      BY <1>3, <1>4 DEF LabelDue, Place
    <2> QED BY <1>5, <2>1 DEF Held
  <1>11. no_jscall
    BY DEF on_template_attrib
  <1>12. FALSE \in BOOLEAN /\ IF FALSE THEN jscall(t, 0, "reply") ELSE no_jscall
    BY <1>11
  <1> QED
    BY <1>1, <1>6, <1>8, <1>9, <1>10, <1>12, CallbackHolds DEF a, b, f

\* What an object changes of what IInv speaks of.
LEMMA ObjectRead ==
  ASSUME IInv, NEW t \in Peers, on_eflr_component_object(t), NEW d, d = dlis[t],
         NEW object, object = new_object(d, Item(t).name)
  PROVE  /\ dlis'[t].at = d.at + 1 /\ dlis'[t].templt = d.templt
         /\ dlis'[t].templt_read_idx = 0
         /\ dlis'[t].parsing_set_type = d.parsing_set_type
         /\ dlis'[t].file = d.file /\ dlis'[t].out_dir = d.out_dir
         /\ dlis'[t].parsing_obj_binn = object
         /\ dlis'[t].attrib_value_cnt = d.attrib_value_cnt
         /\ DOMAIN dlis'[t] = DOMAIN dlis_init
         /\ DOMAIN dlis' = Peers /\ \A o \in Peers : o # t => dlis'[o] = dlis[o]
  <1> DEFINE placed == IF d.parsing_set_type = "FRAME" THEN with_frame(d, Item(t).name) ELSE d
  <1>1. DOMAIN d = DOMAIN dlis_init /\ DOMAIN dlis = Peers
    BY DEF IInv, Threads, ThreadInv, Kept
  <1>2. /\ DOMAIN placed = DOMAIN dlis_init
        /\ placed.at = d.at /\ placed.templt = d.templt /\ placed.file = d.file
        /\ placed.parsing_set_type = d.parsing_set_type /\ placed.out_dir = d.out_dir
        /\ placed.attrib_value_cnt = d.attrib_value_cnt
    <2>1. PICK frames, node : with_frame(d, Item(t).name) =
                                [d EXCEPT !.frames = frames, !.current_frame = node]
      BY DEF with_frame
    <2> QED BY <1>1, <2>1 DEF dlis_init
  <1>3. dlis'[t] = [placed EXCEPT !.at = @ + 1, !.templt_read_idx = 0, !.parsing_obj_binn = object]
    BY <1>1 DEF on_eflr_component_object
  <1>4. DOMAIN dlis' = Peers /\ \A o \in Peers : o # t => dlis'[o] = dlis[o]
    BY <1>1 DEF on_eflr_component_object
  <1> HIDE DEF placed
  <1> QED
    BY <1>2, <1>3, <1>4 DEF dlis_init

LEMMA ObjectHolds ==
  ASSUME IInv, NEW t \in Peers, on_eflr_component_object(t), ThreadFrame
  PROVE  IInv'
  <1> DEFINE f == dlis[t].file
             b == Read(t)
             a == reading(f)[dlis[t].at]
  <1>1. AtItem(t, "OBJECT") /\ UNCHANGED exited
    BY DEF on_eflr_component_object
  <1>2. /\ Started(t) /\ Reader(t) /\ Kept(t) /\ t \in DOMAIN dlis
    BY <1>1, CallbackBefore
  <1>3. /\ f \in DOMAIN Files /\ a \in Place /\ b \in Place
        /\ Due(f, Item(t), b, a) /\ Item(t).kind = "OBJECT"
        /\ dlis[t].at \in 1 .. Len(Items[f]) /\ Len(Items[f]) \in Nat
    BY <1>1, <1>2, NextItem
  <1> DEFINE d == dlis[t]
             object == new_object(d, Item(t).name)
             sends == d.parsing_obj_binn # NoObject
  <1>4. ObjectDue(f, Item(t), b, a)
    BY <1>3 DEF Due, SetDue, LabelDue, AttributeDue, ValueDue, RowDue
  <1>5. /\ dlis'[t].at = dlis[t].at + 1 /\ dlis'[t].templt = dlis[t].templt
        /\ dlis'[t].templt_read_idx = 0
        /\ dlis'[t].parsing_set_type = dlis[t].parsing_set_type
        /\ dlis'[t].file = f /\ dlis'[t].out_dir = dlis[t].out_dir
        /\ dlis'[t].parsing_obj_binn = object
        /\ dlis'[t].attrib_value_cnt = dlis[t].attrib_value_cnt
        /\ DOMAIN dlis'[t] = DOMAIN dlis_init
        /\ DOMAIN dlis' = Peers /\ \A o \in Peers : o # t => dlis'[o] = dlis[o]
    BY ObjectRead
  <1>6. ReadsOn(t)
    BY <1>5 DEF ReadsOn
  <1>7. IsObject(object) /\ object.set = d.parsing_set_type /\ object.name = Item(t).name
        /\ object # NoObject
    BY DEF new_object, IsObject, NoObject
  <1>8. Piece(object) = <<[set |-> d.parsing_set_type, name |-> Item(t).name]>>
    BY <1>7 DEF Piece, IsObject
  <1> HIDE DEF a, b, f, object, d
  <1>9. Read(t)' = a
    BY <1>3, <1>5 DEF Read, a, f
  <1>10. /\ b.values = 0 /\ AllLabels(f, b) /\ b.objects + 1 \in 1 .. Len(Objects[f])
         /\ Objects[f][b.objects + 1] = [set |-> SetAt(f, b).type, name |-> Item(t).name]
         /\ a = [b EXCEPT !.attribute = 0, !.objects = @ + 1]
    BY <1>4 DEF ObjectDue
  <1>11. /\ a.set = b.set /\ a.labels = b.labels /\ a.attribute = 0 /\ a.values = 0
         /\ a.objects = b.objects + 1 /\ SetAt(f, a) = SetAt(f, b) /\ AllLabels(f, a)
    <2>1. a.set = b.set /\ a.labels = b.labels /\ a.attribute = 0 /\ a.values = b.values
      BY <1>3, <1>10 DEF Place
    <2>2. a.objects = b.objects + 1
      BY <1>3, <1>10 DEF Place
    <2> QED BY <1>10, <2>1, <2>2 DEF SetAt, AllLabels
  <1>12. b.set > 0
    <2>1. IsSequence(Files[f]) /\ b.set \in DOMAIN Files[f]
      BY <1>3, <1>10, ContentsAssumption DEF AllLabels
    <2>2. DOMAIN Files[f] = 1 .. Len(Files[f]) /\ Len(Files[f]) \in Nat
      BY <2>1, SequenceOfElements
    <2> QED BY <2>1, <2>2
  <1>13. /\ Len(d.templt) = b.labels /\ d.attrib_value_cnt = b.values
         /\ d.parsing_set_type = SetAt(f, b).type
    BY <1>2, <1>12 DEF Reader, b, f, d
  <1>14. Reader(t)'
    <2>1. dlis'[t].at \in 1 .. Len(Items[f]) + 1
      BY <1>3, <1>5
    <2>2. b.labels \in Nat
      BY <1>3 DEF Place
    <2> QED BY <1>3, <1>5, <1>7, <1>9, <1>10, <1>11, <1>13, <2>1, <2>2 DEF Reader, d
  <1>15. Held(t)' = <<Objects[f][b.objects + 1]>>
    BY <1>5, <1>8, <1>10, <1>13 DEF Held
  <1>16. Held(t) = IF sends THEN Piece(d.parsing_obj_binn) ELSE <<>>
    BY DEF Held, Piece, NoObject, d
  <1>17. IF sends THEN jscall(t, d.parsing_obj_binn, "reply") ELSE no_jscall
    BY DEF on_eflr_component_object, unsent, d
  <1>18. IsSequence(dlis'[t].templt) /\ sends \in BOOLEAN
    BY <1>2, <1>5 DEF Kept
  <1> HIDE DEF sends
  <1>19. PICK m : m = d.parsing_obj_binn
    OBVIOUS
  <1>20. PICK n, l : n = b.objects /\ l = a.objects
    OBVIOUS
  <1>21. /\ l = n + 1 /\ n + 1 \in 1 .. Len(Objects[f])
         /\ Held(t) = IF sends THEN Piece(m) ELSE <<>>
         /\ Held(t)' = <<Objects[f][n + 1]>>
    BY <1>10, <1>11, <1>15, <1>16, <1>19, <1>20
  <1>22. IF sends THEN jscall(t, m, "reply") ELSE no_jscall
    BY <1>17, <1>19
  <1>23. n = Read(t).objects /\ l = reading(f)[dlis[t].at].objects /\ f = dlis[t].file
    BY <1>20 DEF a, b, f
  <1> QED
    BY <1>1, <1>6, <1>14, <1>18, <1>21, <1>22, <1>23, CallbackHolds

LEMMA SamePiece ==
  ASSUME NEW object, IsObject(object), NEW label, NEW values
  PROVE  /\ IsObject(whole(object)) /\ Piece(whole(object)) = Piece(object)
         /\ IsObject(with_attribute(object, label, values))
         /\ Piece(with_attribute(object, label, values)) = Piece(object)
         /\ object # NoObject /\ with_attribute(object, label, values) # NoObject
  <1>1. object # NoObject
    BY DEF IsObject, NoObject
  <1>2. IsObject(whole(object)) /\ Piece(whole(object)) = Piece(object)
    BY <1>1 DEF IsObject, whole, Piece
  <1>3. /\ IsObject(with_attribute(object, label, values))
        /\ Piece(with_attribute(object, label, values)) = Piece(object)
    <2>1. PICK x : with_attribute(object, label, values) = [object EXCEPT !.attributes = x]
      BY DEF with_attribute
    <2> QED BY <2>1 DEF IsObject, Piece
  <1>4. with_attribute(object, label, values) # NoObject
    BY <1>3 DEF IsObject, NoObject
  <1> QED
    BY <1>1, <1>2, <1>3, <1>4

LEMMA AttributeHolds ==
  ASSUME IInv, NEW t \in Peers, on_eflr_component_attrib(t), ThreadFrame
  PROVE  IInv'
  <1> DEFINE f == dlis[t].file
             b == Read(t)
             a == reading(f)[dlis[t].at]
  <1>1. AtItem(t, "ATTRIB") /\ UNCHANGED exited
    BY DEF on_eflr_component_attrib
  <1>2. /\ Started(t) /\ Reader(t) /\ Kept(t) /\ t \in DOMAIN dlis
    BY <1>1, CallbackBefore
  <1>3. /\ f \in DOMAIN Files /\ a \in Place /\ b \in Place
        /\ Due(f, Item(t), b, a) /\ Item(t).kind = "ATTRIB"
        /\ dlis[t].at \in 1 .. Len(Items[f]) /\ Len(Items[f]) \in Nat
    BY <1>1, <1>2, NextItem
  <1> DEFINE d == dlis[t]
             held == d.parsing_obj_binn
             idx == d.templt_read_idx + 1
             sends == Item(t).count = 0 /\ is_last_attr(d, idx)
  <1>4. AttributeDue(f, Item(t), b, a) /\ b.attribute < Len(d.templt)
    <2>1. 0 <= b.attribute /\ b.attribute < Len(d.templt)
      BY <1>2 DEF on_eflr_component_attrib, Reader
    <2>2. b.attribute # -1
      BY <2>1
    <2> HIDE DEF a, b, f
    <2> QED BY <1>3, <2>1, <2>2 DEF Due, SetDue, LabelDue, ObjectDue, ValueDue, RowDue
  <1>5. /\ dlis'[t].at = dlis[t].at + 1 /\ dlis'[t].templt = dlis[t].templt
        /\ dlis'[t].templt_read_idx = idx
        /\ dlis'[t].parsing_set_type = dlis[t].parsing_set_type
        /\ dlis'[t].file = f /\ dlis'[t].out_dir = dlis[t].out_dir
        /\ dlis'[t].parsing_obj_binn = IF sends THEN NoObject ELSE held
        /\ dlis'[t].attrib_value_cnt = Item(t).count
        /\ DOMAIN dlis'[t] = DOMAIN dlis_init
        /\ DOMAIN dlis' = Peers /\ \A o \in Peers : o # t => dlis'[o] = dlis[o]
    <2>1. dlis'[t] = [dlis[t] EXCEPT
             !.at = @ + 1, !.templt_read_idx = idx,
             !.attrib_label = d.templt[idx], !.attrib_value_cnt = Item(t).count,
             !.parsing_obj_binn = IF sends THEN NoObject ELSE @]
      BY <1>2 DEF on_eflr_component_attrib
    <2>2. DOMAIN dlis[t] = DOMAIN dlis_init
      BY <1>2 DEF Kept
    <2>3. DOMAIN dlis' = Peers /\ \A o \in Peers : o # t => dlis'[o] = dlis[o]
      BY DEF on_eflr_component_attrib, IInv, Threads
    <2> HIDE DEF sends, idx
    <2> QED BY <2>1, <2>2, <2>3 DEF dlis_init
  <1>6. ReadsOn(t)
    BY <1>5 DEF ReadsOn
  <1>7. /\ d.templt_read_idx = b.attribute /\ Len(d.templt) = b.labels
        /\ b.set > 0 => d.parsing_set_type = SetAt(f, b).type
        /\ held = NoObject \/ IsObject(held)
        /\ b.attribute >= 0 /\ b.attribute < b.labels => held # NoObject
    BY <1>2 DEF Reader
  <1>8. IF sends THEN jscall(t, whole(held), "reply") ELSE no_jscall
    BY DEF on_eflr_component_attrib
  <1>9. sends <=> Item(t).count = 0 /\ idx >= Len(d.templt)
    BY DEF is_last_attr
  <1> HIDE DEF a, b, f, held, d, idx, sends
  <1>10. Read(t)' = a
    BY <1>3, <1>5 DEF Read, a, f
  <1>11. /\ b.values = 0 /\ AllLabels(f, b) /\ b.attribute >= 0 /\ Item(t).count \in Nat
         /\ a = [b EXCEPT !.attribute = @ + 1, !.values = Item(t).count]
    BY <1>4 DEF AttributeDue
  <1>12. /\ a.set = b.set /\ a.labels = b.labels /\ a.values = Item(t).count
         /\ a.objects = b.objects /\ a.attribute = b.attribute + 1
         /\ b.attribute \in Int /\ b.labels \in Nat
    <2>1. b.attribute \in Int /\ b.labels \in Nat
      BY <1>3 DEF Place
    <2>2. a.set = b.set /\ a.labels = b.labels /\ a.values = Item(t).count /\ a.objects = b.objects
      BY <1>3, <1>11 DEF Place
    <2>3. a.attribute = b.attribute + 1
      BY <1>3, <1>11 DEF Place
    <2> QED BY <2>1, <2>2, <2>3
  <1>13. SetAt(f, a) = SetAt(f, b) /\ AllLabels(f, a)
    BY <1>11, <1>12 DEF SetAt, AllLabels
  <1>14. idx = a.attribute /\ IsObject(held) /\ held # NoObject
    BY <1>4, <1>7, <1>11, <1>12 DEF idx
  <1>15. Reader(t)'
    <2>1. dlis'[t].at \in 1 .. Len(Items[f]) + 1
      BY <1>3, <1>5
    <2>2. a.attribute <= a.labels
      BY <1>4, <1>7, <1>12
    <2>3. (a.attribute < a.labels \/ a.values > 0) => ~sends
      BY <1>7, <1>9, <1>11, <1>12, <1>14
    <2>4. Len(d.templt) = a.labels
      BY <1>7, <1>12
    <2> QED BY <1>3, <1>5, <1>7, <1>10, <1>12, <1>13, <1>14, <2>1, <2>2, <2>3, <2>4 DEF Reader, d
  <1>16. Held(t) = Piece(held) /\ Held(t)' = IF sends THEN <<>> ELSE Piece(held)
    BY <1>5 DEF Held, held, d, Piece, NoObject
  <1>17. Piece(whole(held)) = Held(t)
    BY <1>14, <1>16, SamePiece
  <1>18. IsSequence(dlis'[t].templt) /\ sends \in BOOLEAN
    BY <1>2, <1>5, <1>9 DEF Kept, sends
  <1> QED
    BY <1>1, <1>6, <1>8, <1>12, <1>15, <1>16, <1>17, <1>18, CallbackHolds DEF a, b, f

\* What a value changes of what IInv speaks of.
LEMMA ValueRead ==
  ASSUME IInv, NEW t \in Peers, on_eflr_component_attrib_value(t),
         NEW d, d = dlis[t], NEW held, held = d.parsing_obj_binn,
         NEW left, left = d.attrib_value_cnt - 1,
         NEW object, object = with_attribute(held, d.attrib_label,
                                             Append(d.parsing_obj_values, Item(t).value)),
         NEW sends \in BOOLEAN, sends <=> left <= 0 /\ is_last_attr(d, d.templt_read_idx)
  PROVE  /\ dlis'[t].at = d.at + 1 /\ dlis'[t].templt = d.templt
         /\ dlis'[t].templt_read_idx = d.templt_read_idx
         /\ dlis'[t].parsing_set_type = d.parsing_set_type
         /\ dlis'[t].file = d.file /\ dlis'[t].out_dir = d.out_dir
         /\ dlis'[t].parsing_obj_binn = IF sends THEN NoObject ELSE IF left <= 0 THEN object ELSE held
         /\ dlis'[t].attrib_value_cnt = left
         /\ DOMAIN dlis'[t] = DOMAIN dlis_init
         /\ DOMAIN dlis' = Peers /\ \A o \in Peers : o # t => dlis'[o] = dlis[o]
  <1> DEFINE value == Item(t).value
             values == Append(d.parsing_obj_values, value)
             numbers == d.parsing_set_type = "FILE-HEADER" /\ d.attrib_label = "SEQUENCE-NUMBER"
             follows == numbers /\ value > 1
             nodes == IF follows /\ d.frames = <<>> THEN <<no_frame>> ELSE d.frames
             number == IF numbers THEN value ELSE d.seq_num
             at_node == IF follows THEN Len(nodes) ELSE d.current_frame
             list == IF left <= 0 THEN <<>> ELSE values
             sent == IF sends THEN NoObject ELSE IF left <= 0 THEN object ELSE held
  <1>1. DOMAIN dlis[t] = DOMAIN dlis_init /\ DOMAIN dlis = Peers
    BY DEF IInv, Threads, ThreadInv, Kept
  <1>2. dlis' = [dlis EXCEPT
          ![t].at = @ + 1, ![t].attrib_value_cnt = left, ![t].seq_num = number,
          ![t].frames = nodes, ![t].current_frame = at_node,
          ![t].parsing_obj_values = list, ![t].parsing_obj_binn = sent]
    BY DEF on_eflr_component_attrib_value
  <1> HIDE DEF number, nodes, at_node, list, sent
  <1>3. dlis'[t] = [dlis[t] EXCEPT
          !.at = @ + 1, !.attrib_value_cnt = left, !.seq_num = number,
          !.frames = nodes, !.current_frame = at_node,
          !.parsing_obj_values = list, !.parsing_obj_binn = sent]
    BY <1>1, <1>2
  <1>4. DOMAIN dlis' = Peers /\ \A o \in Peers : o # t => dlis'[o] = dlis[o]
    BY <1>1, <1>2
  <1>5. /\ dlis'[t].at = d.at + 1 /\ dlis'[t].templt = d.templt
        /\ dlis'[t].templt_read_idx = d.templt_read_idx
        /\ dlis'[t].parsing_set_type = d.parsing_set_type
        /\ dlis'[t].file = d.file /\ dlis'[t].out_dir = d.out_dir
        /\ dlis'[t].parsing_obj_binn = sent
        /\ dlis'[t].attrib_value_cnt = left
        /\ DOMAIN dlis'[t] = DOMAIN dlis_init
    BY <1>1, <1>3 DEF dlis_init
  <1> QED
    BY <1>4, <1>5 DEF sent

LEMMA ValueHolds ==
  ASSUME IInv, NEW t \in Peers, on_eflr_component_attrib_value(t), ThreadFrame
  PROVE  IInv'
  <1> DEFINE f == dlis[t].file
             b == Read(t)
             a == reading(f)[dlis[t].at]
  <1>1. AtItem(t, "VALUE") /\ UNCHANGED exited
    BY DEF on_eflr_component_attrib_value
  <1>2. /\ Started(t) /\ Reader(t) /\ Kept(t) /\ t \in DOMAIN dlis
    BY <1>1, CallbackBefore
  <1>3. /\ f \in DOMAIN Files /\ a \in Place /\ b \in Place
        /\ Due(f, Item(t), b, a) /\ Item(t).kind = "VALUE"
        /\ dlis[t].at \in 1 .. Len(Items[f]) /\ Len(Items[f]) \in Nat
    BY <1>1, <1>2, NextItem
  <1> DEFINE d == dlis[t]
             held == d.parsing_obj_binn
             left == d.attrib_value_cnt - 1
             values == Append(d.parsing_obj_values, Item(t).value)
             object == with_attribute(held, d.attrib_label, values)
             sends == left <= 0 /\ is_last_attr(d, d.templt_read_idx)
  <1>4. ValueDue(f, Item(t), b, a)
    BY <1>3 DEF Due, SetDue, LabelDue, AttributeDue, ObjectDue, RowDue
  <1>5. /\ dlis'[t].at = dlis[t].at + 1 /\ dlis'[t].templt = dlis[t].templt
        /\ dlis'[t].templt_read_idx = dlis[t].templt_read_idx
        /\ dlis'[t].parsing_set_type = dlis[t].parsing_set_type
        /\ dlis'[t].file = f /\ dlis'[t].out_dir = dlis[t].out_dir
        /\ dlis'[t].parsing_obj_binn = IF sends THEN NoObject ELSE IF left <= 0 THEN object ELSE held
        /\ dlis'[t].attrib_value_cnt = left
        /\ DOMAIN dlis'[t] = DOMAIN dlis_init
        /\ DOMAIN dlis' = Peers /\ \A o \in Peers : o # t => dlis'[o] = dlis[o]
    <2>1. PICK it \in BOOLEAN : it <=> sends
      OBVIOUS
    <2>2. dlis'[t].parsing_obj_binn = IF it THEN NoObject ELSE IF left <= 0 THEN object ELSE held
      BY <2>1, ValueRead
    <2>3. /\ dlis'[t].at = d.at + 1 /\ dlis'[t].templt = d.templt
          /\ dlis'[t].templt_read_idx = d.templt_read_idx
          /\ dlis'[t].parsing_set_type = d.parsing_set_type
          /\ dlis'[t].file = f /\ dlis'[t].out_dir = d.out_dir
          /\ dlis'[t].attrib_value_cnt = left
          /\ DOMAIN dlis'[t] = DOMAIN dlis_init
          /\ DOMAIN dlis' = Peers /\ \A o \in Peers : o # t => dlis'[o] = dlis[o]
      BY <2>1, ValueRead
    <2> HIDE DEF object, values, sends, left
    <2> QED BY <2>1, <2>2, <2>3
  <1>6. ReadsOn(t)
    BY <1>5 DEF ReadsOn
  <1>7. /\ d.templt_read_idx = b.attribute /\ Len(d.templt) = b.labels
        /\ d.attrib_value_cnt = b.values /\ b.attribute <= b.labels
        /\ b.attribute >= 0 => AllLabels(f, b)
        /\ b.set > 0 => d.parsing_set_type = SetAt(f, b).type
        /\ held = NoObject \/ IsObject(held)
        /\ b.attribute >= 0 /\ b.values > 0 => held # NoObject
    BY <1>2 DEF Reader
  <1>8. IF sends THEN jscall(t, whole(object), "reply") ELSE no_jscall
    BY DEF on_eflr_component_attrib_value
  <1>9. sends <=> left <= 0 /\ d.templt_read_idx >= Len(d.templt)
    BY DEF is_last_attr
  <1>10. left = d.attrib_value_cnt - 1
    OBVIOUS
  <1> HIDE DEF a, b, f, held, d, left, sends, values
  <1>11. Read(t)' = a
    BY <1>3, <1>5 DEF Read, a, f
  <1>12. b.values > 0 /\ b.attribute > 0 /\ a = [b EXCEPT !.values = @ - 1]
    BY <1>4 DEF ValueDue
  <1>13. /\ a.set = b.set /\ a.labels = b.labels /\ a.attribute = b.attribute
         /\ a.objects = b.objects /\ a.values = b.values - 1
         /\ b.attribute \in Int /\ b.labels \in Nat /\ b.values \in Nat
    <2>1. b.attribute \in Int /\ b.labels \in Nat /\ b.values \in Nat
      BY <1>3 DEF Place
    <2>2. a.set = b.set /\ a.labels = b.labels /\ a.attribute = b.attribute /\ a.objects = b.objects
      BY <1>3, <1>12 DEF Place
    <2>3. a.values = b.values - 1
      BY <1>3, <1>12 DEF Place
    <2> QED BY <2>1, <2>2, <2>3
  <1>14. SetAt(f, a) = SetAt(f, b) /\ AllLabels(f, a)
    BY <1>7, <1>12, <1>13 DEF SetAt, AllLabels
  <1>15. left = a.values /\ IsObject(held) /\ held # NoObject
    BY <1>7, <1>10, <1>12, <1>13
  <1>16. /\ IsObject(object) /\ Piece(object) = Piece(held) /\ object # NoObject
         /\ Piece(whole(object)) = Piece(held)
    <2>1. IsObject(object) /\ Piece(object) = Piece(held) /\ object # NoObject
      BY <1>15, SamePiece
    <2> HIDE DEF object
    <2> QED BY <2>1, SamePiece
  <1> HIDE DEF object
  <1>17. Reader(t)'
    <2>1. dlis'[t].at \in 1 .. Len(Items[f]) + 1
      BY <1>3, <1>5
    <2>2. a.attribute <= a.labels
      BY <1>7, <1>13
    <2>3. (a.attribute < a.labels \/ a.values > 0) => ~sends
      BY <1>7, <1>9, <1>13, <1>15
    <2>4. Len(d.templt) = a.labels
      BY <1>7, <1>13
    <2>5. LET h == dlis'[t].parsing_obj_binn
          IN /\ h = NoObject \/ IsObject(h)
             /\ a.attribute >= 0 /\ (a.attribute < a.labels \/ a.values > 0) => h # NoObject
      BY <1>5, <1>15, <1>16, <2>3
    <2>6. a.set > 0 => dlis'[t].parsing_set_type = SetAt(f, a).type
      BY <1>5, <1>7, <1>13, <1>14 DEF d
    <2>7. dlis'[t].templt_read_idx = a.attribute /\ dlis'[t].attrib_value_cnt = a.values
      BY <1>5, <1>7, <1>13, <1>15 DEF d
    <2>8. Len(dlis'[t].templt) = a.labels /\ dlis'[t].file = f
      BY <1>5, <2>4 DEF d
    <2> QED BY <1>3, <1>11, <1>14, <2>1, <2>2, <2>5, <2>6, <2>7, <2>8 DEF Reader
  <1>18. Held(t) = Piece(held) /\ Held(t)' = IF sends THEN <<>> ELSE Piece(held)
    <2>1. Held(t) = Piece(held)
      BY DEF Held, held, d
    <2>2. Piece(NoObject) = <<>>
      BY DEF Piece, NoObject
    <2> QED BY <1>5, <1>16, <2>1, <2>2 DEF Held
  <1>19. IsSequence(dlis'[t].templt) /\ sends \in BOOLEAN
    BY <1>2, <1>5, <1>9 DEF Kept, sends
  <1>20. Piece(whole(object)) = Held(t)
    BY <1>16, <1>18
  <1> QED
    BY <1>1, <1>6, <1>8, <1>13, <1>17, <1>18, <1>19, <1>20, CallbackHolds DEF a, b, f

LEMMA RowHolds ==
  ASSUME IInv, NEW t \in Peers, on_iflr_header(t), ThreadFrame
  PROVE  IInv'
  <1> DEFINE f == dlis[t].file
             b == Read(t)
             a == reading(f)[dlis[t].at]
  <1>1. AtItem(t, "ROW") /\ UNCHANGED exited /\ no_jscall
    BY DEF on_iflr_header
  <1>2. /\ Started(t) /\ Reader(t) /\ Kept(t) /\ t \in DOMAIN dlis
    BY <1>1, CallbackBefore
  <1>3. /\ f \in DOMAIN Files /\ a \in Place /\ b \in Place
        /\ Due(f, Item(t), b, a) /\ Item(t).kind = "ROW"
        /\ dlis[t].at \in 1 .. Len(Items[f]) /\ Len(Items[f]) \in Nat
    BY <1>1, <1>2, NextItem
  <1>4. a = b
    BY <1>3 DEF Due, SetDue, LabelDue, ObjectDue, AttributeDue, ValueDue, RowDue
  <1>5. /\ dlis'[t].at = dlis[t].at + 1 /\ dlis'[t].templt = dlis[t].templt
        /\ dlis'[t].templt_read_idx = dlis[t].templt_read_idx
        /\ dlis'[t].parsing_set_type = dlis[t].parsing_set_type
        /\ dlis'[t].file = f /\ dlis'[t].out_dir = dlis[t].out_dir
        /\ dlis'[t].parsing_obj_binn = dlis[t].parsing_obj_binn
        /\ dlis'[t].attrib_value_cnt = dlis[t].attrib_value_cnt
        /\ DOMAIN dlis'[t] = DOMAIN dlis_init
        /\ DOMAIN dlis' = Peers /\ \A o \in Peers : o # t => dlis'[o] = dlis[o]
    <2>1. PICK i : dlis' = [dlis EXCEPT ![t].at = @ + 1, ![t].current_frame = i]
      BY DEF on_iflr_header
    <2>2. dlis'[t] = [dlis[t] EXCEPT !.at = @ + 1, !.current_frame = i]
      BY <1>2, <2>1
    <2>3. DOMAIN dlis[t] = DOMAIN dlis_init
      BY <1>2 DEF Kept
    <2>4. DOMAIN dlis' = Peers /\ \A o \in Peers : o # t => dlis'[o] = dlis[o]
      BY <2>1 DEF IInv, Threads
    <2> QED BY <2>2, <2>3, <2>4 DEF dlis_init
  <1>6. ReadsOn(t)
    BY <1>5 DEF ReadsOn
  <1> HIDE DEF a, b, f
  <1>7. Read(t)' = b
    BY <1>3, <1>4, <1>5 DEF Read, a, f
  <1>8. Reader(t)'
    <2>1. dlis'[t].at \in 1 .. Len(Items[f]) + 1
      BY <1>3, <1>5
    <2>2. /\ dlis[t].templt_read_idx = b.attribute /\ Len(dlis[t].templt) = b.labels
          /\ b.attribute <= b.labels /\ dlis[t].attrib_value_cnt = b.values
          /\ b.attribute >= 0 => AllLabels(f, b)
          /\ b.set > 0 => dlis[t].parsing_set_type = SetAt(f, b).type
          /\ dlis[t].parsing_obj_binn = NoObject \/ IsObject(dlis[t].parsing_obj_binn)
          /\ b.attribute >= 0 /\ (b.attribute < b.labels \/ b.values > 0)
               => dlis[t].parsing_obj_binn # NoObject
      BY <1>2 DEF Reader, b, f
    <2> QED BY <1>3, <1>5, <1>7, <2>1, <2>2 DEF Reader
  <1>9. a.objects = b.objects /\ Held(t)' = Held(t)
    BY <1>4, <1>5 DEF Held
  <1>10. IsSequence(dlis'[t].templt)
    BY <1>2, <1>5 DEF Kept
  <1>11. FALSE \in BOOLEAN /\ IF FALSE THEN jscall(t, 0, "reply") ELSE no_jscall
    BY <1>1
  <1> QED
    BY <1>1, <1>6, <1>8, <1>9, <1>10, <1>11, CallbackHolds DEF a, b, f

(***************************************************************************)
(* exit(-1): what is read ends the process.                                *)
(***************************************************************************)
AnExit(t) == \/ on_set_without_type(t) \/ on_full_template(t) \/ on_object_without_name(t)
             \/ on_index_out_of_bound(t) \/ on_wrong_repcode(t)
             \/ on_frame_missing(t) \/ on_wrong_channel(t)

\* The object that is read has more attributes than its template.
LEMMA OverrunIsFatal ==
  ASSUME NEW t \in Peers, Reader(t), on_index_out_of_bound(t)
  PROVE  TooLong(Files[dlis[t].file])
  <1> DEFINE f == dlis[t].file
             b == Read(t)
             a == reading(f)[dlis[t].at]
  <1>1. AtItem(t, "ATTRIB")
    BY DEF on_index_out_of_bound
  <1>2. /\ f \in DOMAIN Files /\ a \in Place /\ b \in Place
        /\ Due(f, Item(t), b, a) /\ Item(t).kind = "ATTRIB"
    BY <1>1, NextItem
  <1>3. b.attribute >= Len(dlis[t].templt) /\ Len(dlis[t].templt) = b.labels /\ b.labels \in Nat
    <2>1. b.labels \in Nat
      BY <1>2 DEF Place
    <2> QED BY <2>1 DEF on_index_out_of_bound, Reader
  <1>4. AttributeDue(f, Item(t), b, a)
    <2>1. b.attribute # -1
      BY <1>3
    <2> HIDE DEF a, b, f
    <2> QED BY <1>2, <2>1 DEF Due, SetDue, LabelDue, ObjectDue, ValueDue, RowDue
  <1>5. PICK i \in DOMAIN SetAt(f, b).objects : b.attribute < Len(SetAt(f, b).objects[i].attributes)
    BY <1>4 DEF AttributeDue
  <1>6. b.set \in DOMAIN Files[f] /\ b.labels = Len(SetAt(f, b).labels)
    BY <1>4 DEF AttributeDue, AllLabels
  <1>7. IsSequence(SetAt(f, b).objects[i].attributes)
    BY <1>2, <1>5, <1>6, ContentsAssumption DEF SetAt
  <1>8. Len(SetAt(f, b).objects[i].attributes) \in Nat /\ b.attribute \in Int
    BY <1>2, <1>7 DEF IsSequence, Place
  <1> HIDE DEF b
  <1>9. Len(SetAt(f, b).objects[i].attributes) > Len(SetAt(f, b).labels)
    BY <1>3, <1>5, <1>6, <1>8
  <1> QED
    BY <1>5, <1>6, <1>9 DEF TooLong, SetAt

\* The template that is read has no place left, and one more label.
LEMMA FullTemplateIsFatal ==
  ASSUME NEW t \in Peers, Reader(t), on_full_template(t)
  PROVE  WideTemplate(Files[dlis[t].file])
  <1> DEFINE f == dlis[t].file
             b == Read(t)
             a == reading(f)[dlis[t].at]
  <1>1. AtItem(t, "ATTRIB") /\ Len(dlis[t].templt) >= MAX_TEMPLT_OBJS /\ dlis[t].templt_read_idx < 0
    BY DEF on_full_template
  <1>2. /\ f \in DOMAIN Files /\ a \in Place /\ b \in Place
        /\ Due(f, Item(t), b, a) /\ Item(t).kind = "ATTRIB"
    BY <1>1, NextItem
  <1>3. b.attribute < 0 /\ Len(dlis[t].templt) = b.labels
    BY <1>1 DEF Reader
  <1>4. LabelDue(f, Item(t), b, a)
    <2>1. ~(b.attribute >= 0)
      BY <1>2, <1>3 DEF Place
    <2> HIDE DEF a, b, f
    <2> QED BY <1>2, <2>1 DEF Due, SetDue, ObjectDue, AttributeDue, ValueDue, RowDue
  <1>5. b.set \in DOMAIN Files[f] /\ b.labels < Len(SetAt(f, b).labels)
    BY <1>4 DEF LabelDue
  <1>6. Len(SetAt(f, b).labels) \in Nat /\ b.labels \in Nat
    <2>1. IsSequence(SetAt(f, b).labels)
      BY <1>2, <1>5, ContentsAssumption DEF SetAt
    <2> QED BY <1>2, <2>1 DEF IsSequence, Place
  <1> HIDE DEF b
  <1>7. Len(SetAt(f, b).labels) > MAX_TEMPLT_OBJS
    BY <1>1, <1>3, <1>5, <1>6, RoomForTemplate
  <1> QED
    BY <1>5, <1>7 DEF WideTemplate, SetAt

\* The set has no type, the object no name.
LEMMA UnnamedIsFatal ==
  ASSUME NEW t \in Peers, Reader(t), on_set_without_type(t) \/ on_object_without_name(t)
  PROVE  Unnamed(Files[dlis[t].file])
  <1> DEFINE f == dlis[t].file
             b == Read(t)
             a == reading(f)[dlis[t].at]
  <1>1. CASE on_set_without_type(t)
    <2>1. AtItem(t, "SET") /\ Item(t).type = NoType
      BY <1>1 DEF on_set_without_type
    <2>2. Due(f, Item(t), b, a) /\ Item(t).kind = "SET"
      BY <2>1, NextItem
    <2> HIDE DEF a, b
    <2>3. SetDue(f, Item(t), b, a)
      BY <2>2 DEF Due, LabelDue, ObjectDue, AttributeDue, ValueDue, RowDue
    <2> QED BY <2>1, <2>3 DEF SetDue, Unnamed
  <1>2. CASE on_object_without_name(t)
    <2>1. AtItem(t, "OBJECT") /\ Item(t).name = NoName
      BY <1>2 DEF on_object_without_name
    <2>2. Due(f, Item(t), b, a) /\ Item(t).kind = "OBJECT"
      BY <2>1, NextItem
    <2> HIDE DEF a, b
    <2>3. ObjectDue(f, Item(t), b, a)
      BY <2>2 DEF Due, SetDue, LabelDue, AttributeDue, ValueDue, RowDue
    <2>4. b.set \in DOMAIN Files[f]
      BY <2>3 DEF ObjectDue, AllLabels
    <2>5. \E i \in DOMAIN SetAt(f, b).objects : SetAt(f, b).objects[i].name = NoName
      BY <2>1, <2>3 DEF ObjectDue
    <2> QED BY <2>4, <2>5 DEF SetAt, Unnamed
  <1> QED
    BY <1>1, <1>2

\* A value, or the channel of a sample, has a representation code that no type has.
LEMMA UncodedIsFatal ==
  ASSUME NEW t \in Peers, Reader(t), on_wrong_repcode(t) \/ on_wrong_channel(t)
  PROVE  Uncoded(Files[dlis[t].file])
  <1> DEFINE f == dlis[t].file
             b == Read(t)
             a == reading(f)[dlis[t].at]
  <1>1. CASE on_wrong_repcode(t)
    <2>1. AtItem(t, "VALUE") /\ Item(t).value = WrongCode
      BY <1>1 DEF on_wrong_repcode
    <2>2. Due(f, Item(t), b, a) /\ Item(t).kind = "VALUE"
      BY <2>1, NextItem
    <2> HIDE DEF a, b
    <2>3. ValueDue(f, Item(t), b, a)
      BY <2>2 DEF Due, SetDue, LabelDue, AttributeDue, ObjectDue, RowDue
    <2>4. PICK values : IsGiven(f, b, values) /\ WrongCode \in Range(values)
      BY <2>1, <2>3 DEF ValueDue
    <2> QED BY <2>4 DEF IsGiven, SetAt, Uncoded
  <1>2. CASE on_wrong_channel(t)
    <2>1. AtItem(t, "ROW") /\ ~Item(t).row.coded
      BY <1>2 DEF on_wrong_channel
    <2>2. Due(f, Item(t), b, a) /\ Item(t).kind = "ROW"
      BY <2>1, NextItem
    <2> HIDE DEF a, b
    <2>3. RowDue(f, Item(t), b, a)
      BY <2>2 DEF Due, SetDue, LabelDue, AttributeDue, ObjectDue, ValueDue
    <2>4. \E i \in DOMAIN SetAt(f, b).rows : ~SetAt(f, b).rows[i].coded
      BY <2>1, <2>3 DEF RowDue, Range
    <2> QED BY <2>3, <2>4 DEF RowDue, SetAt, Uncoded
  <1> QED
    BY <1>1, <1>2

LEMMA ExitHolds ==
  ASSUME IInv, NEW t \in Peers, AnExit(t), ThreadFrame
  PROVE  IInv'
  <1>1. exits /\ \E kind : AtItem(t, kind)
    BY DEF AnExit, on_set_without_type, on_full_template, on_object_without_name,
           on_index_out_of_bound, on_wrong_repcode, on_frame_missing, Astray, on_wrong_channel
  <1>2. no_jscall /\ exited' = TRUE /\ UNCHANGED dlis
    BY <1>1 DEF exits
  <1>3. Started(t) /\ Reader(t) /\ Kept(t) /\ on_the_way[t] = <<>>
    BY <1>1, CallbackBefore
  <1>4. (\E M : SocketInv(M))' /\ UNCHANGED <<pc, on_the_way, arrived, receiving_reply>>
        /\ UNCHANGED <<sending_reply, current_out>>
    BY <1>2, <1>3, NotCalled
  <1>5. dlis[t].file # NoFile
    BY <1>3, NamesAssumption DEF Reader
  <1>6. Fatal(Files[dlis[t].file]) \/ Astray(t)
    BY <1>3, OverrunIsFatal, FullTemplateIsFatal, UnnamedIsFatal, UncodedIsFatal
       DEF AnExit, Fatal, on_frame_missing
  <1>7. Astray(t)' <=> Astray(t)
    BY <1>2, <1>4 DEF Astray, AtItem, Item, frames_named
  <1>8. ExitsOnlyFor'
    BY <1>2, <1>5, <1>6, <1>7 DEF ExitsOnlyFor
  <1>10. UNCHANGED <<wells_vars, js_vars, script>>
    BY DEF ThreadFrame
  <1>11. Program'
    BY <1>2, <1>10 DEF IInv, Program, wells_vars, js_vars
  <1>12. Arguments'
    BY <1>2, <1>4, <1>10 DEF IInv, Arguments, Arguing, Started, js_vars
  <1>13. Exchanges'
    BY <1>4, <1>10 DEF IInv, Exchanges, Listening, Started, js_vars
  <1>14. Threads'
    <2>1. ASSUME NEW o \in Peers PROVE ThreadInv(o)'
      <3>1. Heard(o)' = Heard(o)
        BY <1>10 DEF Heard, Listening, js_vars
      <3>2. UNCHANGED <<pc[o], dlis[o], handled[o], arrived[o], on_the_way[o]>>
        BY <1>2, <1>4, <1>10 DEF js_vars
      <3>3. ThreadInv(o)
        BY DEF IInv, Threads
      <3> QED BY <3>1, <3>2, <3>3, OtherThread
    <2> QED BY <1>2, <1>4, <1>10, <2>1 DEF IInv, Threads, js_vars
  <1> QED
    BY <1>8, <1>11, <1>12, <1>13, <1>14 DEF IInv

LEMMA EndHolds ==
  ASSUME IInv, NEW t \in Peers, finish_file(t), ThreadFrame
  PROVE  IInv'
  <1> DEFINE f == dlis[t].file
             m == ended_message(reported_frames(dlis[t]))
  <1>1. pc[t] = "parse" /\ dlis[t].at > Len(Items[f]) /\ jscall(t, m, "ending")
        /\ UNCHANGED <<dlis, exited>>
    BY DEF finish_file
  <1>2. Started(t) /\ ThreadInv(t) /\ ~receiving_reply[t] /\ Exchanges
    BY <1>1 DEF IInv, Threads, Exchanges, Started
  <1>3. on_the_way[t] = <<>> /\ arrived[t] = <<>> /\ Reader(t) /\ Kept(t)
    BY <1>2, NothingSent DEF ThreadInv, Kept
  <1>4. Piece(m) = <<>>
    BY DEF Piece, ended_message
  <1> HIDE DEF m
  <1>5. /\ (\E M : SocketInv(M))' /\ receiving_reply'[t] = TRUE
        /\ on_the_way'[t] = <<m>> /\ InQueue(on_the_way[t])' = Piece(m)
        /\ pc'[t] = "ending" /\ pc' \in [Peers -> Threads_at]
        /\ UNCHANGED <<arrived, sending_reply, current_out>>
        /\ \A o \in Peers : o # t => UNCHANGED <<pc[o], on_the_way[o], receiving_reply[o]>>
    BY <1>1, <1>3, Called
  <1>6. dlis[t].at = Len(Items[f]) + 1
    <2>1. f \in DOMAIN Files /\ dlis[t].at \in 1 .. Len(Items[f]) + 1
      BY <1>3 DEF Reader
    <2>2. Len(Items[f]) \in Nat
      BY <2>1, ReadingHolds
    <2> QED BY <1>1, <2>1, <2>2
  <1>7. Heard(t)' = Heard(t) /\ handled'[t] = handled[t]
    BY DEF Heard, Listening, ThreadFrame, js_vars
  <1>8. Alone(t)
    BY <1>1, <1>5 DEF Alone, ThreadFrame, IInv, Threads
  <1>9. Started(t)' /\ Read(t)' = Read(t) /\ Reader(t)'
    BY <1>1, <1>3, <1>5 DEF Started, Reader, Read
  <1>10. Kept(t)'
    BY <1>1, <1>3, <1>7, <1>9 DEF Kept
  <1>11. Order(t)'
    <2>1. handled[t] \o OnTheirWay(t) \o Held(t) = SubSeq(Objects[f], 1, Read(t).objects)
      BY <1>2 DEF ThreadInv, Order
    <2>2. Held(t)' = Held(t)
      BY <1>1 DEF Held
    <2>3. InQueue(arrived[t])' = InQueue(arrived[t]) /\ InQueue(arrived[t]) = <<>>
          /\ InQueue(on_the_way[t]) = <<>> /\ InQueue(on_the_way[t])' = <<>>
      BY <1>3, <1>4, <1>5 DEF InQueue
    <2>4. OnTheirWay(t)' = OnTheirWay(t)
      BY <1>7, <2>3 DEF OnTheirWay
    <2>5. on_the_way'[t] # <<>>
      <3>1. Len(<<m>>) = 1 /\ Len(<<>>) = 0
        OBVIOUS
      <3> QED BY <1>5, <3>1
    <2> QED BY <1>1, <1>6, <1>7, <1>9, <2>1, <2>2, <2>3, <2>4, <2>5 DEF Order
  <1>12. ThreadInv(t)'
    BY <1>10, <1>11 DEF ThreadInv
  <1> QED
    BY <1>1, <1>2, <1>5, <1>8, <1>9, <1>12, ThreadMoved

LEMMA AnswerHolds ==
  ASSUME IInv, NEW t \in Peers, on_reply(t), ThreadFrame
  PROVE  IInv'
  <1>1. pc[t] \in {"reply", "ending"} /\ req_recv(t) /\ UNCHANGED <<dlis, exited>>
    BY DEF on_reply
  <1>2. pc'[t] = (IF pc[t] = "reply" THEN "parse" ELSE "closed") /\ pc' \in [Peers -> Threads_at]
        /\ \A o \in Peers : o # t => pc'[o] = pc[o]
    BY DEF on_reply, IInv, Threads, Threads_at
  <1>3. PICK M : SocketInv(M)
    BY DEF IInv, Exchanges
  <1>4. SocketInv(M)'
    BY <1>1, <1>3, RecvHolds
  <1>5. receiving_reply'[t] = FALSE
        /\ \A o \in Peers : o # t => receiving_reply'[o] = receiving_reply[o]
    <2>1. receiving_reply \in [Peers -> BOOLEAN]
      BY <1>3 DEF SocketInv, Counters
    <2> QED BY <1>1, <2>1 DEF req_recv
  <1>6. UNCHANGED <<on_the_way, arrived, sending_reply, current_out>>
    BY <1>1 DEF req_recv, rep_vars
  <1>7. Heard(t)' = Heard(t) /\ handled'[t] = handled[t]
    BY DEF Heard, Listening, ThreadFrame, js_vars
  <1>8. Alone(t)
    BY <1>1, <1>2, <1>5, <1>6 DEF Alone, ThreadFrame, IInv, Threads
  <1>9. Started(t) /\ Started(t)' /\ ThreadInv(t)
    BY <1>1, <1>2 DEF Started, IInv, Threads
  <1>10. Read(t)' = Read(t) /\ Reader(t)' /\ Kept(t)'
    <2>1. Read(t)' = Read(t) /\ Reader(t)'
      BY <1>1, <1>9 DEF ThreadInv, Kept, Reader, Read
    <2> QED BY <1>1, <1>7, <1>9, <2>1 DEF ThreadInv, Kept
  <1>11. Order(t)'
    <2>1. Held(t)' = Held(t) /\ OnTheirWay(t)' = OnTheirWay(t)
      BY <1>1, <1>6, <1>7 DEF Held, OnTheirWay, InQueue
    <2>2. UNCHANGED <<arrived[t], on_the_way[t]>> /\ InQueue(arrived[t])' = InQueue(arrived[t])
          /\ InQueue(on_the_way[t])' = InQueue(on_the_way[t])
      BY <1>6 DEF InQueue
    <2>3. Order(t)
      BY <1>9 DEF ThreadInv
    <2>4. pc'[t] \in {"ending", "closed"} => pc[t] \in {"ending", "closed"}
      BY <1>1, <1>2
    <2> QED BY <1>1, <1>7, <1>10, <2>1, <2>2, <2>3, <2>4 DEF Order
  <1>12. ThreadInv(t)'
    BY <1>10, <1>11 DEF ThreadInv
  <1>13. receiving_reply'[t] <=> pc'[t] \in {"reply", "ending"}
    BY <1>2, <1>5
  <1>14. dlis'[t].out_dir = dlis[t].out_dir /\ dlis'[t].file = dlis[t].file /\ (\E N : SocketInv(N))'
    BY <1>1, <1>4
  <1> QED
    BY <1>1, <1>8, <1>9, <1>12, <1>13, <1>14, ThreadMoved

-----------------------------------------------------------------------------
(* The steps of the I/O thread. *)

LEMMA ExitsStill ==
  ASSUME ExitsOnlyFor, UNCHANGED <<thread_vars, calls>>, raced \subseteq raced'
  PROVE  ExitsOnlyFor'
  <1>1. UNCHANGED <<dlis, pc, exited, calls>>
    BY DEF thread_vars
  <1>2. \A t \in Peers : Astray(t)' <=> Astray(t)
    BY <1>1 DEF Astray, AtItem, Item, frames_named
  <1> QED
    BY <1>1, <1>2 DEF ExitsOnlyFor

LEMMA CarriedHolds ==
  ASSUME IInv, UNCHANGED <<thread_vars, wells_vars, js_vars, script>>,
         UNCHANGED <<receiving_reply, sending_reply, current_out>>,
         (\E M : SocketInv(M))', \A o \in Peers : ThreadInv(o)'
  PROVE  IInv'
  <1>1. Program'
    BY DEF IInv, Program, thread_vars, wells_vars, js_vars
  <1>2. Arguments'
    BY DEF IInv, Arguments, Arguing, Started, thread_vars, js_vars
  <1>3. Exchanges'
    BY DEF IInv, Exchanges, Listening, Started, thread_vars, js_vars
  <1>4. Threads'
    BY DEF IInv, Threads, thread_vars, js_vars
  <1>5. ExitsOnlyFor'
    BY ExitsStill DEF IInv, js_vars
  <1> QED
    BY <1>1, <1>2, <1>3, <1>4, <1>5 DEF IInv

LEMMA PipesHold ==
  ASSUME IInv, UNCHANGED <<thread_vars, wells_vars, js_vars, script>>,
         UNCHANGED <<receiving_reply, sending_reply, current_out, arrived, on_the_way>>,
         (\E M : SocketInv(M))'
  PROVE  IInv'
  <1>1. ASSUME NEW o \in Peers PROVE ThreadInv(o)'
    <2>1. Heard(o)' = Heard(o)
      BY DEF Heard, Listening, js_vars
    <2>2. UNCHANGED <<pc[o], dlis[o], handled[o], arrived[o], on_the_way[o]>>
      BY DEF thread_vars, js_vars
    <2>3. ThreadInv(o)
      BY DEF IInv, Threads
    <2> QED BY <2>1, <2>2, <2>3, OtherThread
  <1> QED
    BY <1>1, CarriedHolds

LEMMA ArrivalHolds ==
  ASSUME IInv, UNCHANGED <<thread_vars, wells_vars, js_vars, script>>,
         NEW t \in Peers, Arrive(t)
  PROVE  IInv'
  <1>1. PICK M : SocketInv(M)
    BY DEF IInv, Exchanges
  <1>2. SocketInv(M)'
    BY <1>1, ArriveHolds
  <1>3. on_the_way \in [Peers -> Seq(M)] /\ arrived \in [Peers -> Seq(M)]
    BY <1>1 DEF SocketInv, Counters
  <1>4. on_the_way[t] # <<>> /\ Len(on_the_way[t]) = 1 /\ arrived[t] = <<>>
    <2>1. on_the_way[t] # <<>>
      BY DEF Arrive
    <2>2. /\ arrived[t] = <<>> <=> Len(arrived[t]) = 0
          /\ on_the_way[t] = <<>> <=> Len(on_the_way[t]) = 0
          /\ InOnePlace(t)
      BY <1>1, NoExchange
    <2> QED BY <2>1, <2>2 DEF InOnePlace, Places
  <1>5. /\ arrived'[t] = <<Head(on_the_way[t])>> /\ on_the_way'[t] = <<>>
        /\ \A o \in Peers : o # t => UNCHANGED <<arrived[o], on_the_way[o]>>
    <2>1. arrived'[t] = Append(arrived[t], Head(on_the_way[t])) /\ on_the_way'[t] = Tail(on_the_way[t])
      BY <1>3 DEF Arrive
    <2>2. Tail(on_the_way[t]) = <<>>
      <3>1. PICK q \in Seq(M) : q = on_the_way[t]
        BY <1>3
      <3>2. Len(q) = 1
        BY <1>4, <3>1
      <3>3. Tail(q) \in Seq(M) /\ Len(Tail(q)) = 0
        <4>1. q # <<>>
          BY <1>4, <3>1
        <4> QED BY <3>2, <4>1, HeadTailProperties
      <3>4. Tail(q) = <<>>
        BY <3>3, EmptySeq
      <3> QED BY <3>1, <3>4
    <2>3. \A o \in Peers : o # t => UNCHANGED <<arrived[o], on_the_way[o]>>
      BY <1>3 DEF Arrive
    <2> QED BY <1>4, <2>1, <2>2, <2>3
  <1>6. UNCHANGED <<receiving_reply, sending_reply, current_out>>
    BY DEF Arrive
  <1>7. ASSUME NEW o \in Peers PROVE Heard(o)' = Heard(o)
    BY DEF Heard, Listening, js_vars
  <1>8. ThreadInv(t)'
    <2> DEFINE d == handled[t]
               h == Heard(t)
               w == InQueue(on_the_way[t])
               k == Held(t)
    <2>1. UNCHANGED <<pc[t], dlis[t], handled[t]>> /\ ThreadInv(t)
      BY DEF IInv, Threads, thread_vars, js_vars
    <2>2. Started(t)' <=> Started(t)
      BY <2>1 DEF Started
    <2>3. Read(t)' = Read(t) /\ (Reader(t)' <=> Reader(t))
      BY <2>1 DEF Read, Reader
    <2>4. Kept(t)'
      BY <2>1, <2>2, <2>3 DEF ThreadInv, Kept
    <2>5. InQueue(arrived[t])' = w /\ InQueue(on_the_way[t])' = <<>> /\ InQueue(arrived[t]) = <<>>
      <3>1. on_the_way[t] \in Seq(M)
        BY <1>3
      <3>2. Head(on_the_way[t]) = on_the_way[t][1]
        BY <1>4, <3>1
      <3>3. PICK m : m = Head(on_the_way[t])
        OBVIOUS
      <3>4. <<m>> # <<>> /\ <<m>>[1] = m
        <4>1. Len(<<m>>) = 1 /\ Len(<<>>) = 0 /\ <<m>>[1] = m
          OBVIOUS
        <4> QED BY <4>1
      <3> QED BY <1>4, <1>5, <3>2, <3>3, <3>4 DEF InQueue
    <2>6. OnTheirWay(t) = (h \o <<>>) \o w /\ OnTheirWay(t)' = (h \o w) \o <<>>
      <3>1. OnTheirWay(t)' = (h \o w) \o <<>>
        BY <1>7, <2>5 DEF OnTheirWay
      <3>2. OnTheirWay(t) = (h \o <<>>) \o w
        BY <2>5 DEF OnTheirWay
      <3> QED BY <3>1, <3>2
    <2>7. Held(t)' = k
      BY <2>1 DEF Held
    <2>8. IsSequence(d) /\ IsSequence(h) /\ IsSequence(w) /\ IsSequence(k)
      <3>1. IsSequence(d)
        BY <2>1 DEF ThreadInv, Kept
      <3> QED BY <3>1, PiecesAreSequences DEF Heard, Held
    <2>9. ASSUME Started(t) PROVE Order(t)'
      <3>1. Order(t)
        BY <2>1, <2>9 DEF ThreadInv
      <3> HIDE DEF d, h, w, k
      <3>2. (d \o ((h \o w) \o <<>>)) \o k = (d \o ((h \o <<>>) \o w)) \o k
        BY <2>8, Arrived
      <3>3. handled'[t] \o OnTheirWay(t)' \o Held(t)' = handled[t] \o OnTheirWay(t) \o Held(t)
        BY <2>1, <2>6, <2>7, <3>2 DEF d, k
      <3>4. handled'[t] \o OnTheirWay(t)' \o Held(t)' =
              SubSeq(Objects[dlis'[t].file], 1, Read(t)'.objects)
        BY <2>1, <2>3, <3>1, <3>3 DEF Order
      <3>5. arrived'[t] # <<>>
        <4>1. Len(arrived'[t]) = 1 /\ Len(<<>>) = 0
          BY <1>5
        <4> QED BY <4>1
      <3>6. pc'[t] \in {"ending", "closed"} =>
              dlis'[t].at = Len(Items[dlis'[t].file]) + 1 /\ InQueue(arrived[t])' = <<>>
        BY <2>1, <2>5, <3>1 DEF Order, w
      <3> QED BY <2>5, <3>4, <3>5, <3>6 DEF Order
    <2> QED BY <2>2, <2>4, <2>9 DEF ThreadInv
  <1>9. ASSUME NEW o \in Peers PROVE ThreadInv(o)'
    <2>1. CASE o = t
      BY <1>8, <2>1
    <2>2. CASE o # t
      <3>1. UNCHANGED <<pc[o], dlis[o], handled[o], arrived[o], on_the_way[o]>>
        BY <1>5, <2>2 DEF thread_vars, js_vars
      <3>2. ThreadInv(o)
        BY DEF IInv, Threads
      <3> QED BY <1>7, <3>1, <3>2, OtherThread
    <2> QED BY <2>1, <2>2
  <1> QED
    BY <1>2, <1>6, <1>9, CarriedHolds

LEMMA IoHolds ==
  ASSUME IInv, NEW t \in Peers, io_step(t)
  PROVE  IInv'
  <1>1. PICK M : SocketInv(M)
    BY DEF IInv, Exchanges
  <1>2. UNCHANGED <<thread_vars, wells_vars, js_vars, script>>
    BY DEF io_step
  <1>3. CASE ~Contains(pipes, t) /\ attach(t)
    <2>1. SocketInv(M)'
      BY <1>1, <1>3, AttachHolds
    <2>2. UNCHANGED <<receiving_reply, sending_reply, current_out, arrived, on_the_way>>
      BY <1>3 DEF attach, req_vars
    <2> QED BY <1>2, <2>1, <2>2, PipesHold
  <1>4. CASE Arrive(t)
    BY <1>2, <1>4, ArrivalHolds
  <1>5. CASE pc[t] = "closed" /\ Contains(pipes, t) /\ pipe_terminated(t)
    <2>1. ~receiving_reply[t]
      BY <1>5 DEF IInv, Exchanges
    <2>2. SocketInv(M)'
      BY <1>1, <1>5, <2>1, TerminateHolds
    <2>3. UNCHANGED <<receiving_reply, sending_reply, current_out, arrived, on_the_way>>
      BY <1>5 DEF pipe_terminated, req_vars
    <2> QED BY <1>2, <2>2, <2>3, PipesHold
  <1> QED
    BY <1>3, <1>4, <1>5 DEF io_step

-----------------------------------------------------------------------------
(* The steps of the event loop on a message. *)

LEMMA TakingHolds ==
  ASSUME IInv, js.at = "loop", rep_recv,
         js' = [at |-> "reply", from |-> NextPeer, message |-> Head(arrived[NextPeer])],
         UNCHANGED <<thread_vars, wells_vars, script, calls, args, clock, died, overlapped, raced,
                     handled>>
  PROVE  IInv'
  <1>1. PICK M : SocketInv(M)
    BY DEF IInv, Exchanges
  <1>2. PICK p \in Peers :
           /\ p = NextPeer /\ current_out' = p
           /\ arrived[p] # <<>> /\ receiving_reply[p] /\ Places(p, 0, 1, 0, 0)
           /\ arrived' = [arrived EXCEPT ![p] = <<>>]
           /\ UNCHANGED req_vars
           /\ \A o \in Peers : Contains(pipes', o) <=> Contains(pipes, o)
    BY <1>1, TakenRequest
  <1>3. SocketInv(M)' /\ sending_reply' = TRUE
    <2>1. SocketInv(M)'
      BY <1>1, TakeHolds
    <2> QED BY <2>1 DEF rep_recv
  <1>4. on_the_way \in [Peers -> Seq(M)] /\ arrived \in [Peers -> Seq(M)]
    BY <1>1 DEF SocketInv, Counters
  <1>5. PICK m : m = Head(arrived[p]) /\ m = arrived[p][1]
    BY <1>2, <1>4
  <1>6. js'.at = "reply" /\ js'.from = p /\ js'.message = m /\ DOMAIN js' = {"at", "from", "message"}
    BY <1>2, <1>5
  <1>7. /\ on_the_way[p] = <<>> /\ arrived'[p] = <<>>
        /\ \A o \in Peers : o # p => arrived'[o] = arrived[o]
        /\ UNCHANGED <<on_the_way, receiving_reply>>
    <2>1. on_the_way[p] = <<>> <=> Len(on_the_way[p]) = 0
      BY <1>1, NoExchange
    <2> QED BY <1>2, <1>4, <2>1 DEF Places, req_vars
  <1>8. Started(p)
    BY <1>2 DEF IInv, Exchanges, Started
  <1>9. Program'
    BY <1>6 DEF IInv, Program, Loop, thread_vars, wells_vars
  <1>10. Arguments'
    BY <1>6 DEF IInv, Arguments, Arguing, Started, thread_vars
  <1>11. Exchanges'
    <2>1. Listening' => js'.from \in Peers /\ Started(p)'
      BY <1>6, <1>8 DEF Started, thread_vars
    <2>2. Started(js.from)' <=> Started(p)'
      BY <1>6 DEF Started
    <2> QED BY <1>2, <1>3, <1>6, <1>7, <2>1, <2>2 DEF IInv, Exchanges, thread_vars
  <1>12. ASSUME NEW o \in Peers, o # p PROVE ThreadInv(o)'
    <2>1. Heard(o)' = Heard(o)
      BY <1>6, <1>12 DEF Heard, Listening
    <2>2. UNCHANGED <<pc[o], dlis[o], handled[o], arrived[o], on_the_way[o]>>
      BY <1>7, <1>12 DEF thread_vars
    <2>3. ThreadInv(o)
      BY DEF IInv, Threads
    <2> QED BY <2>1, <2>2, <2>3, OtherThread
  <1>13. ThreadInv(p)'
    <2> DEFINE d == handled[p]
               a == InQueue(arrived[p])
               k == Held(p)
    <2>1. UNCHANGED <<pc[p], dlis[p], handled[p]>> /\ ThreadInv(p)
      BY DEF IInv, Threads, thread_vars
    <2>2. Started(p)' <=> Started(p)
      BY <2>1 DEF Started
    <2>3. Read(p)' = Read(p) /\ (Reader(p)' <=> Reader(p))
      BY <2>1 DEF Read, Reader
    <2>4. Kept(p)'
      BY <2>1, <2>2, <2>3 DEF ThreadInv, Kept
    <2>5. InQueue(arrived[p])' = <<>> /\ InQueue(on_the_way[p]) = <<>> /\ InQueue(on_the_way[p])' = <<>>
      BY <1>7 DEF InQueue
    <2>6. Heard(p) = <<>> /\ Heard(p)' = a
      <3>1. a = Piece(m)
        BY <1>2, <1>5 DEF InQueue
      <3>2. Heard(p)' = Piece(m)
        BY <1>6 DEF Heard, Listening
      <3>3. Heard(p) = <<>>
        BY DEF Heard, Listening
      <3> QED BY <3>1, <3>2, <3>3
    <2>7. OnTheirWay(p) = (<<>> \o a) \o <<>> /\ OnTheirWay(p)' = (a \o <<>>) \o <<>>
      <3>1. OnTheirWay(p)' = (a \o <<>>) \o <<>>
        BY <2>5, <2>6 DEF OnTheirWay
      <3>2. OnTheirWay(p) = (<<>> \o a) \o <<>>
        BY <2>5, <2>6 DEF OnTheirWay
      <3> QED BY <3>1, <3>2
    <2>8. IsSequence(d) /\ IsSequence(a) /\ IsSequence(k) /\ Held(p)' = k
      <3>1. IsSequence(d)
        BY <2>1 DEF ThreadInv, Kept
      <3> QED BY <2>1, <3>1, PiecesAreSequences DEF Held
    <2>9. Order(p)
      BY <1>8, <2>1 DEF ThreadInv
    <2>10. Order(p)'
      <3> HIDE DEF d, a, k
      <3>1. (d \o ((a \o <<>>) \o <<>>)) \o k = (d \o ((<<>> \o a) \o <<>>)) \o k
        BY <2>8, Taken
      <3>2. handled'[p] \o OnTheirWay(p)' \o Held(p)' = handled[p] \o OnTheirWay(p) \o Held(p)
        BY <2>1, <2>7, <2>8, <3>1 DEF d, k
      <3>3. handled'[p] \o OnTheirWay(p)' \o Held(p)' =
              SubSeq(Objects[dlis'[p].file], 1, Read(p)'.objects)
        BY <2>1, <2>3, <2>9, <3>2 DEF Order
      <3>4. pc'[p] \in {"ending", "closed"} =>
              dlis'[p].at = Len(Items[dlis'[p].file]) + 1 /\ Heard(p)' = <<>>
        BY <2>1, <2>6, <2>9 DEF Order, a
      <3> QED BY <2>5, <3>3, <3>4 DEF Order
    <2> QED BY <2>4, <2>10 DEF ThreadInv
  <1>14. Threads'
    BY <1>12, <1>13 DEF IInv, Threads, thread_vars
  <1>15. ExitsOnlyFor'
    BY ExitsStill DEF IInv
  <1> QED
    BY <1>9, <1>10, <1>11, <1>14, <1>15 DEF IInv

\* Steps of the event loop that leave the sockets and the threads alone as far as IInv goes.
LEMMA LoopHolds ==
  ASSUME IInv, Program', Arguments', UNCHANGED <<thread_vars, handled>>, raced \subseteq raced',
         ~exited \/ UNCHANGED calls, UNCHANGED <<receiving_reply, on_the_way, arrived>>,
         (\E M : SocketInv(M))', sending_reply' <=> js'.at = "reply",
         js'.at = "reply" => js'.from = current_out',
         Listening' <=> Listening, Listening => js'.from = js.from /\ js'.message = js.message
  PROVE  IInv'
  <1>1. Exchanges'
    <2>1. Listening' => js'.from = js.from /\ js.from \in Peers /\ Started(js.from)
      BY DEF IInv, Exchanges
    <2>2. Listening' => (js.from \in Peers /\ Started(js.from))'
      BY <2>1 DEF Started, thread_vars
    <2>3. \A o \in Peers : receiving_reply'[o] <=> pc'[o] \in {"reply", "ending"}
      BY DEF IInv, Exchanges, thread_vars
    <2> QED BY <2>2, <2>3 DEF Exchanges
  <1>2. ASSUME NEW o \in Peers PROVE ThreadInv(o)'
    <2>1. Heard(o)' = Heard(o)
      BY DEF Heard
    <2>2. UNCHANGED <<pc[o], dlis[o], handled[o], arrived[o], on_the_way[o]>>
      BY DEF thread_vars
    <2>3. ThreadInv(o)
      BY DEF IInv, Threads
    <2> QED BY <2>1, <2>2, <2>3, OtherThread
  <1>3. Threads'
    BY <1>2 DEF IInv, Threads, thread_vars
  <1>4. ExitsOnlyFor'
    BY ExitsStill DEF IInv, ExitsOnlyFor, thread_vars
  <1> QED
    BY <1>1, <1>3, <1>4 DEF IInv

LEMMA NothingTakenHolds ==
  ASSUME IInv, rep_recv_none, UNCHANGED js,
         UNCHANGED <<thread_vars, wells_vars, script, calls, args, clock, died, overlapped, raced,
                     handled>>
  PROVE  IInv'
  <1>1. PICK M : SocketInv(M)
    BY DEF IInv, Exchanges
  <1>2. SocketInv(M)'
    BY <1>1, TakeNoneHolds
  <1>3. UNCHANGED <<receiving_reply, on_the_way, arrived, sending_reply, current_out>>
    BY DEF rep_recv_none, req_vars
  <1>4. Program'
    BY DEF IInv, Program, thread_vars, wells_vars
  <1>5. Arguments'
    BY DEF IInv, Arguments, Arguing, Started, thread_vars
  <1>6. Listening' <=> Listening
    BY DEF Listening
  <1>7. (sending_reply' <=> js'.at = "reply") /\ (js'.at = "reply" => js'.from = current_out')
    BY <1>3 DEF IInv, Exchanges
  <1>8. (\E N : SocketInv(N))'
    BY <1>2
  <1> QED
    BY <1>3, <1>4, <1>5, <1>6, <1>7, <1>8, LoopHolds

LEMMA ReplyingHolds ==
  ASSUME IInv, on_message_reply
  PROVE  IInv'
  <1> USE DEF on_message_reply
  <1>1. PICK M : SocketInv(M)
    BY DEF IInv, Exchanges
  <1>2. SocketInv(M)'
    BY <1>1, ReplyHolds
  <1>3. UNCHANGED <<receiving_reply, on_the_way, arrived>> /\ sending_reply' = FALSE
    BY DEF rep_send
  <1>4. /\ js.at = "reply" /\ js'.at = "handle" /\ js'.from = js.from /\ js'.message = js.message
        /\ DOMAIN js' = DOMAIN js
    BY DEF IInv, Program, Loop
  <1>5. Program'
    BY <1>4 DEF IInv, Program, thread_vars, wells_vars
  <1>6. Arguments'
    BY <1>4 DEF IInv, Arguments, Arguing, Started, thread_vars
  <1>7. Listening' <=> Listening
    BY <1>4 DEF Listening
  <1>8. (\E N : SocketInv(N))'
    BY <1>2
  <1> QED
    BY <1>3, <1>4, <1>5, <1>6, <1>7, <1>8, LoopHolds

LEMMA ThrowHolds ==
  ASSUME IInv, on_message_throws
  PROVE  IInv'
  <1> USE DEF on_message_throws
  <1>1. PICK M : SocketInv(M)
    BY DEF IInv, Exchanges
  <1>2. SocketInv(M)'
    BY <1>1, SocketsStay
  <1>3. UNCHANGED <<receiving_reply, on_the_way, arrived, sending_reply, current_out>>
    BY DEF socket_vars, req_vars, rep_vars
  <1>4. Program'
    BY DEF IInv, Program, thread_vars, wells_vars
  <1>5. Arguments'
    BY DEF IInv, Arguments, Arguing, Started, thread_vars
  <1>6. Listening' <=> Listening
    BY DEF Listening
  <1>7. (sending_reply' <=> js'.at = "reply") /\ (js'.at = "reply" => js'.from = current_out')
    BY <1>3 DEF IInv, Exchanges
  <1>8. (\E N : SocketInv(N))'
    BY <1>2
  <1> QED
    BY <1>3, <1>4, <1>5, <1>6, <1>7, <1>8, LoopHolds
\* What index.js does with a message leaves onEnd alone; a new logical file is counted.
LEMMA HandlingKeeps ==
  ASSUME NEW m, handle(m), instance.numberOfWell \in Nat,
         {"onEnd", "wells", "numberOfWell", "dataDir"} \subseteq DOMAIN instance
  PROVE  /\ DOMAIN instance' = DOMAIN instance
         /\ instance'.numberOfWell \in Nat /\ instance'.onEnd = instance.onEnd
  <1> DEFINE Same == /\ DOMAIN instance' = DOMAIN instance
                     /\ instance'.numberOfWell \in Nat /\ instance'.onEnd = instance.onEnd
  <1>1. ASSUME NEW w, instance' = [instance EXCEPT !.wells = w] PROVE Same
    BY <1>1
  <1>2. ASSUME NEW new, instance' = with_datasets(new) PROVE Same
    <2>1. PICK w : w = [instance.wells EXCEPT ![instance.numberOfWell].datasets = new]
      OBVIOUS
    <2>2. instance' = [instance EXCEPT !.wells = w]
      BY <1>2, <2>1 DEF with_datasets
    <2> QED BY <1>1, <2>2
  <1>3. ASSUME UNCHANGED instance PROVE Same
    BY <1>3
  <1>4. ASSUME NEW type, on_set(type) PROVE Same
    BY <1>2, <1>3, <1>4 DEF on_set
  <1>5. ASSUME NEW object, on_object(object) PROVE Same
    <2>1. CASE on_file_header(object)
      <3>1. instance' = [instance EXCEPT !.numberOfWell = instance.numberOfWell + 1]
        BY <2>1 DEF on_file_header
      <3> QED BY <3>1
    <2>2. CASE on_origin(object)
      BY <1>1, <1>3, <2>2 DEF on_origin
    <2>3. CASE on_frame(object)
      BY <1>2, <2>3 DEF on_frame
    <2>4. CASE on_channel(object)
      BY <1>2, <2>4 DEF on_channel
    <2>5. CASE on_tool(object)
      BY <1>2, <2>5 DEF on_tool
    <2>6. CASE on_other(object)
      BY <1>3, <2>6 DEF on_other, wells_vars
    <2> QED BY <1>5, <2>1, <2>2, <2>3, <2>4, <2>5, <2>6 DEF on_object
  <1>6. ASSUME NEW frames, on_ended(frames) PROVE Same
    BY <1>1, <1>6 DEF on_ended
  <1> HIDE DEF Same
  <1>7. Same
    BY <1>4, <1>5, <1>6 DEF handle
  <1> QED
    BY <1>7 DEF Same

LEMMA HandlingHolds ==
  ASSUME IInv, on_message
  PROVE  IInv'
  <1>1. PICK M : SocketInv(M)
    BY DEF IInv, Exchanges
  <1>2. PICK m : m = js.message
    OBVIOUS
  <1>3. PICK p : p = js.from
    OBVIOUS
  <1>4. /\ js.at = "handle" /\ js' = Loop /\ handle(m)
        /\ UNCHANGED <<socket_vars, thread_vars, script, args, clock, died, overlapped, raced>>
    BY <1>2 DEF on_message
  <1>5. js'.at = "loop" /\ js.at # "reply" /\ ~Listening' /\ ~Arguing' /\ ~Arguing /\ Listening
    BY <1>4 DEF Loop, Listening, Arguing
  <1>6. p \in Peers /\ Started(p)
    <2>1. js.from \in Peers /\ Started(js.from)
      BY <1>5 DEF IInv, Exchanges
    <2> QED BY <1>3, <2>1 DEF Started
  <1>7. handled' = IF m.sending_data_type = "_OBJECT"
                   THEN [handled EXCEPT ![p] = Append(@, [set |-> m.set, name |-> m.name])]
                   ELSE handled
    BY <1>2, <1>3 DEF on_message
  <1>8. PICK c : c = instance.onEnd
    OBVIOUS
  <1>9. calls' = IF m.sending_data_type = "ended"
                 THEN [calls EXCEPT ![c].status = "answered"] ELSE calls
    BY <1>2, <1>8 DEF on_message
  <1>10. /\ DOMAIN instance' = DOMAIN instance
         /\ instance'.numberOfWell \in Nat /\ instance'.onEnd = instance.onEnd
    BY <1>4, HandlingKeeps DEF IInv, Program
  <1>11. calls \in Seq(Call)
    BY DEF IInv, Program
  <1>12. /\ calls' \in Seq(Call) /\ Len(calls') = Len(calls) /\ DOMAIN calls' = DOMAIN calls
         /\ \A t \in DOMAIN calls : calls'[t].file = calls[t].file /\ calls'[t].dir = calls[t].dir
    <2>1. CASE calls' = calls
      BY <1>11, <2>1
    <2>2. CASE calls' = [calls EXCEPT ![c].status = "answered"]
      <3>1. PICK answered : answered = [calls[c] EXCEPT !.status = "answered"]
        OBVIOUS
      <3>2. calls' = [calls EXCEPT ![c] = answered]
        BY <2>2, <3>1
      <3>3. c \in DOMAIN calls =>
              answered \in Call /\ answered.file = calls[c].file /\ answered.dir = calls[c].dir
        <4> SUFFICES ASSUME c \in DOMAIN calls
                     PROVE  /\ answered \in Call
                            /\ answered.file = calls[c].file /\ answered.dir = calls[c].dir
          OBVIOUS
        <4>1. calls[c] \in Call
          BY <1>11
        <4> QED BY <3>1, <4>1 DEF Call, Statuses
      <3>4. DOMAIN calls = 1 .. Len(calls) /\ Len(calls) \in Nat
        BY <1>11
      <3>5. \A t \in DOMAIN calls : calls'[t] = IF t = c THEN answered ELSE calls[t]
        BY <3>2
      <3>6. calls' \in [1 .. Len(calls) -> Call]
        <4> HIDE DEF Call
        <4>1. \A t \in 1 .. Len(calls) : calls'[t] \in Call
          BY <1>11, <3>3, <3>4, <3>5
        <4>2. DOMAIN calls' = 1 .. Len(calls) /\ calls' = [t \in 1 .. Len(calls) |-> calls'[t]]
          BY <3>2, <3>4
        <4> QED BY <4>1, <4>2
      <3> HIDE DEF Call
      <3>7. calls' \in Seq(Call) /\ Len(calls') = Len(calls) /\ DOMAIN calls' = DOMAIN calls
        BY <3>4, <3>6
      <3> QED BY <3>3, <3>5, <3>7
    <2> QED BY <1>9, <2>1, <2>2
  <1> HIDE DEF Call
  <1>13. Program'
    <2>1. DOMAIN js' = DOMAIN Loop /\ js'.at \in {"loop", "copy", "create", "reply", "handle"}
      BY <1>4, <1>5
    <2>2. instance'.onEnd \in {NoCall} \cup DOMAIN calls'
      BY <1>10, <1>12 DEF IInv, Program
    <2> QED BY <1>4, <1>10, <1>12, <2>1, <2>2 DEF IInv, Program, thread_vars
  <1>14. Arguments'
    <2>1. js'.at # "create"
      BY <1>5
    <2>2. ASSUME NEW o \in Peers
          PROVE  /\ (pc[o] # "none" => o \in DOMAIN calls)'
                 /\ (o \notin raced =>
                      /\ pc[o] \in {"created", "opening"} => ~Arguing /\ args.fname = {calls[o].file}
                      /\ pc[o] = "created" => args.data_dir = {calls[o].dir}
                      /\ pc[o] \notin {"none", "created"} => dlis[o].out_dir = calls[o].dir
                      /\ Started(o) => dlis[o].file = calls[o].file)'
      <3>1. UNCHANGED <<pc[o], dlis[o], raced, args>> /\ (Started(o)' <=> Started(o))
        BY <1>4 DEF thread_vars, Started
      <3>2. o \in DOMAIN calls => calls'[o].file = calls[o].file /\ calls'[o].dir = calls[o].dir
        BY <1>12
      <3>3. pc[o] # "none" => o \in DOMAIN calls
        BY DEF IInv, Arguments
      <3>4. Started(o) => pc[o] # "none"
        BY DEF Started
      <3> QED BY <1>5, <1>12, <3>1, <3>2, <3>3, <3>4 DEF IInv, Arguments
    <2> QED BY <1>5, <2>1, <2>2 DEF Arguments
  <1>15. Exchanges'
    <2>1. SocketInv(M)'
      BY <1>1, <1>4, SocketsStay
    <2>2. UNCHANGED <<receiving_reply, sending_reply, pc>>
      BY <1>4 DEF socket_vars, req_vars, rep_vars, thread_vars
    <2>3. ~sending_reply
      BY <1>5 DEF IInv, Exchanges
    <2> QED BY <1>5, <2>1, <2>2, <2>3 DEF IInv, Exchanges
  <1>16. \A o \in Peers : UNCHANGED <<pc[o], dlis[o], arrived[o], on_the_way[o]>>
    BY <1>4 DEF thread_vars, socket_vars, req_vars, rep_vars
  <1>17. DOMAIN handled = Peers /\ \A o \in Peers : ThreadInv(o)
    BY DEF IInv, Threads
  <1>18. DOMAIN handled' = Peers /\ \A o \in Peers : o # p => handled'[o] = handled[o]
    BY <1>7, <1>17
  <1>19. ASSUME NEW o \in Peers, o # p PROVE ThreadInv(o)'
    <2>1. Heard(o)' = <<>> /\ Heard(o) = <<>>
      BY <1>3, <1>5, <1>19 DEF Heard
    <2>2. UNCHANGED <<pc[o], dlis[o], handled[o], arrived[o], on_the_way[o]>>
      BY <1>16, <1>18, <1>19
    <2> QED BY <1>17, <2>1, <2>2, OtherThread
  <1>20. ThreadInv(p)'
    <2> DEFINE d == handled[p]
               h == Piece(m)
               a == InQueue(arrived[p])
               w == InQueue(on_the_way[p])
               k == Held(p)
    <2>1. UNCHANGED <<pc[p], dlis[p], arrived[p], on_the_way[p]>> /\ ThreadInv(p)
      BY <1>6, <1>16, <1>17
    <2>2. Started(p)' <=> Started(p)
      BY <2>1 DEF Started
    <2>3. Read(p)' = Read(p) /\ (Reader(p)' <=> Reader(p))
      BY <2>1 DEF Read, Reader
    <2>4. IsSequence(d) /\ IsSequence(h) /\ IsSequence(a) /\ IsSequence(w) /\ IsSequence(k)
      <3>1. IsSequence(d)
        BY <2>1 DEF ThreadInv, Kept
      <3> QED BY <3>1, PiecesAreSequences DEF Held
    <2>5. handled'[p] = d \o h
      <3>1. CASE m.sending_data_type = "_OBJECT"
        <4>1. PICK x : x = [set |-> m.set, name |-> m.name]
          OBVIOUS
        <4>2. handled'[p] = Append(d, x) /\ h = <<x>>
          BY <1>6, <1>7, <1>17, <3>1, <4>1 DEF Piece
        <4>3. d \in Seq(Range(d) \cup {x})
          BY <2>4, SequenceOfMore
        <4>4. Append(d, x) = d \o <<x>>
          BY <4>3, AppendIsConcat
        <4> QED BY <4>2, <4>4
      <3>2. CASE m.sending_data_type # "_OBJECT"
        <4>1. handled'[p] = d /\ h = <<>>
          BY <1>7, <3>2 DEF Piece
        <4>2. d \in Seq(Range(d))
          BY <2>4, SequenceOfElements
        <4> QED BY <4>1, <4>2, ConcatEmptySeq
      <3> QED BY <3>1, <3>2
    <2>6. IsSequence(handled'[p])
      <3>1. PICK u : u = d \o h
        OBVIOUS
      <3>2. IsSequence(u)
        <4> HIDE DEF d, h
        <4> QED BY <2>4, <3>1, Concatenation
      <3> QED BY <2>5, <3>1, <3>2
    <2>7. Kept(p)'
      BY <1>6, <2>1, <2>2, <2>3, <2>6 DEF ThreadInv, Kept
    <2>8. Heard(p) = h /\ Heard(p)' = <<>>
      <3>1. Heard(p)' = <<>>
        BY <1>5 DEF Heard
      <3>2. Heard(p) = h
        BY <1>2, <1>3, <1>5 DEF Heard
      <3> QED BY <3>1, <3>2
    <2>9. InQueue(arrived[p])' = a /\ InQueue(on_the_way[p])' = w /\ Held(p)' = k
      BY <2>1 DEF InQueue, Held
    <2>10. OnTheirWay(p) = (h \o a) \o w /\ OnTheirWay(p)' = (<<>> \o a) \o w
      <3>1. OnTheirWay(p)' = (<<>> \o a) \o w
        BY <2>8, <2>9 DEF OnTheirWay
      <3>2. OnTheirWay(p) = (h \o a) \o w
        BY <2>8 DEF OnTheirWay
      <3> QED BY <3>1, <3>2
    <2>11. Order(p)
      BY <1>6, <2>1 DEF ThreadInv
    <2>12. Order(p)'
      <3> HIDE DEF d, h, a, w, k
      <3>1. ((d \o h) \o ((<<>> \o a) \o w)) \o k = (d \o ((h \o a) \o w)) \o k
        <4> DEFINE X == Range(d) \cup Range(h) \cup Range(a) \cup Range(w) \cup Range(k)
        <4>1. d \in Seq(X) /\ h \in Seq(X) /\ a \in Seq(X) /\ w \in Seq(X) /\ k \in Seq(X)
          BY <2>4, SequenceOfMore
        <4> HIDE DEF X
        <4>2. \A s \in Seq(X) : s \o <<>> = s /\ <<>> \o s = s
          BY ConcatEmptySeq
        <4>3. \A s, t, u \in Seq(X) : s \o (t \o u) = (s \o t) \o u
          BY ConcatAssociative
        <4>4. \A s, t \in Seq(X) : s \o t \in Seq(X)
          OBVIOUS
        <4> QED BY <4>1, <4>2, <4>3, <4>4
      <3>2. handled'[p] \o OnTheirWay(p)' \o Held(p)' = handled[p] \o OnTheirWay(p) \o Held(p)
        BY <2>5, <2>9, <2>10, <3>1 DEF d, k
      <3>3. handled'[p] \o OnTheirWay(p)' \o Held(p)' =
              SubSeq(Objects[dlis'[p].file], 1, Read(p)'.objects)
        BY <2>1, <2>3, <2>11, <3>2 DEF Order
      <3>4. pc'[p] \in {"ending", "closed"} =>
              /\ dlis'[p].at = Len(Items[dlis'[p].file]) + 1
              /\ InQueue(arrived[p])' = <<>> /\ InQueue(on_the_way[p])' = <<>> /\ Heard(p)' = <<>>
        BY <2>1, <2>8, <2>9, <2>11 DEF Order, a, w
      <3> QED BY <3>3, <3>4 DEF Order
    <2> QED BY <2>7, <2>12 DEF ThreadInv
  <1>21. Threads'
    <2>1. UNCHANGED <<pc, dlis>>
      BY <1>4 DEF thread_vars
    <2> QED BY <1>18, <1>19, <1>20, <2>1 DEF IInv, Threads
  <1>22. ExitsOnlyFor'
    BY <1>4 DEF on_message, Running, ExitsOnlyFor, thread_vars
  <1> QED
    BY <1>13, <1>14, <1>15, <1>21, <1>22 DEF IInv
-----------------------------------------------------------------------------
(* The steps of a call, and of a thread before it reads its file. *)

LEMMA ScriptFiles ==
  ASSUME IInv, NEW c \in DOMAIN script.files
  PROVE  c \in Peers /\ script.files[c] \in Named
  <1>1. script \in Scripts
    BY DEF IInv, Program
  <1>2. DOMAIN script.files \subseteq Peers
    BY <1>1, ScriptsAssumption
  <1>3. script.files[c] \in Range(script.files)
    BY DEF Range
  <1> QED
    BY <1>1, <1>2, <1>3 DEF Named

\* Every thread that began has a call, so the next call's has not.
LEMMA NextCall ==
  ASSUME IInv, NEW c, c = Len(calls) + 1, c \in DOMAIN script.files,
         NEW new \in Call, calls' = Append(calls, new)
  PROVE  /\ pc[c] = "none" /\ calls \in Seq(Call)
         /\ calls' \in Seq(Call) /\ Len(calls') = c /\ calls' # <<>>
         /\ DOMAIN calls' = DOMAIN calls \cup {c}
         /\ \A d \in DOMAIN calls : calls'[d] = calls[d]
  <1>1. calls \in Seq(Call)
    BY DEF IInv, Program
  <1>2. c \notin DOMAIN calls
    BY <1>1
  <1>3. pc[c] = "none"
    BY <1>2, ScriptFiles DEF IInv, Arguments
  <1> HIDE DEF Call
  <1>4. /\ calls' \in Seq(Call) /\ Len(calls') = c /\ DOMAIN calls' = DOMAIN calls \cup {c}
        /\ \A d \in DOMAIN calls : calls'[d] = calls[d]
    BY <1>1
  <1>5. calls' # <<>>
    BY <1>1, <1>4
  <1> QED
    BY <1>1, <1>3, <1>4, <1>5

\* What a call leaves as it is, for IInv.
LEMMA CallFrame ==
  ASSUME IInv, ~exited, UNCHANGED <<socket_vars, thread_vars, handled>>, js.at = "loop",
         js'.at \in {"loop", "copy"}, raced \subseteq raced', Program', Arguments'
  PROVE  IInv'
  <1>1. PICK M : SocketInv(M)
    BY DEF IInv, Exchanges
  <1>2. SocketInv(M)'
    BY <1>1, SocketsStay
  <1>3. UNCHANGED <<receiving_reply, on_the_way, arrived, sending_reply>>
    BY DEF socket_vars, req_vars, rep_vars
  <1>4. ~Listening /\ ~Listening'
    BY DEF Listening
  <1>5. (sending_reply' <=> js'.at = "reply") /\ js'.at # "reply"
    BY <1>3 DEF IInv, Exchanges
  <1>6. (\E N : SocketInv(N))'
    BY <1>2
  <1> QED
    BY <1>3, <1>4, <1>5, <1>6, LoopHolds

LEMMA ParseFileHolds ==
  ASSUME IInv, parseFile
  PROVE  IInv'
  <1>1. PICK c : c = Len(calls) + 1
    OBVIOUS
  <1>2. PICK new : new = [file |-> script.files[c], dir |-> clock', status |-> "started"]
    OBVIOUS
  <1>3. begin_call(c) /\ calls' = Append(calls, new) /\ clock' = clock + 1
    BY <1>1, <1>2 DEF parseFile
  <1>4. /\ js.at = "loop" /\ c \in DOMAIN script.files
        /\ UNCHANGED <<socket_vars, thread_vars, script, died, handled>>
        /\ overlapped' \in BOOLEAN
    BY <1>3 DEF begin_call
  <1>5. /\ js'.at = "copy" /\ DOMAIN js' = DOMAIN Loop
        /\ DOMAIN args' = DOMAIN args
        /\ raced' = raced \cup { t \in Peers : pc[t] \in {"created", "opening"} }
    BY DEF parseFile, Loop
  <1>6. clock' \in Nat
    BY <1>3 DEF IInv, Program
  <1>7. new \in Call
    BY <1>2, <1>4, <1>6, ScriptFiles DEF Call, Statuses
  <1>8. /\ pc[c] = "none" /\ calls \in Seq(Call)
        /\ calls' \in Seq(Call) /\ Len(calls') = c /\ calls' # <<>>
        /\ DOMAIN calls' = DOMAIN calls \cup {c}
        /\ \A d \in DOMAIN calls : calls'[d] = calls[d]
    BY <1>1, <1>3, <1>4, <1>7, NextCall
  <1>9. Program'
    <2>1. /\ DOMAIN instance' = {"onEnd", "wells", "numberOfWell", "dataDir"}
          /\ instance'.numberOfWell = 0 /\ instance'.onEnd = c
      BY <1>1 DEF parseFile, fresh_instance
    <2>2. c \in DOMAIN calls' /\ DOMAIN calls' \subseteq DOMAIN script.files
      BY <1>4, <1>8 DEF IInv, Program
    <2> HIDE DEF Call
    <2> QED BY <1>4, <1>5, <1>6, <1>8, <2>1, <2>2 DEF IInv, Program, thread_vars
  <1>10. Arguments'
    <2>1. UNCHANGED pc /\ js'.at # "create"
      BY <1>4, <1>5 DEF thread_vars
    <2>2. (calls # <<>> /\ pc[Len(calls)] = "none")'
      BY <1>8, <2>1
    <2>3. ASSUME NEW o \in Peers
          PROVE  /\ (pc[o] # "none" => o \in DOMAIN calls)'
                 /\ (o \notin raced =>
                      /\ pc[o] \in {"created", "opening"} => ~Arguing /\ args.fname = {calls[o].file}
                      /\ pc[o] = "created" => args.data_dir = {calls[o].dir}
                      /\ pc[o] \notin {"none", "created"} => dlis[o].out_dir = calls[o].dir
                      /\ Started(o) => dlis[o].file = calls[o].file)'
      <3>1. UNCHANGED <<pc[o], dlis[o]>> /\ (Started(o)' <=> Started(o))
        BY <1>4 DEF thread_vars, Started
      <3>2. pc[o] # "none" => o \in DOMAIN calls
        BY DEF IInv, Arguments
      <3>3. o \notin raced' => o \notin raced /\ pc[o] \notin {"created", "opening"}
        BY <1>5
      <3>4. Started(o) => pc[o] # "none"
        BY DEF Started
      <3>5. pc[o] # "none" => o \in DOMAIN calls' /\ calls'[o] = calls[o]
        BY <1>8, <3>2
      <3> QED BY <3>1, <3>3, <3>4, <3>5 DEF IInv, Arguments
    <2> QED BY <2>1, <2>2, <2>3 DEF Arguments
  <1>11. raced \subseteq raced' /\ ~exited
    BY <1>3, <1>5 DEF begin_call, Running
  <1> QED
    BY <1>4, <1>5, <1>9, <1>10, <1>11, CallFrame

LEMMA SameMillisecondHolds ==
  ASSUME IInv, parseFile_same_millisecond
  PROVE  IInv'
  <1>1. PICK c : c = Len(calls) + 1
    OBVIOUS
  <1>2. PICK new : new = [file |-> script.files[c], dir |-> clock, status |-> "failed"]
    OBVIOUS
  <1>3. /\ begin_call(c) /\ calls' = Append(calls, new)
        /\ UNCHANGED <<clock, args, raced, js>>
    BY <1>1, <1>2 DEF parseFile_same_millisecond
  <1>4. /\ js.at = "loop" /\ c \in DOMAIN script.files
        /\ UNCHANGED <<socket_vars, thread_vars, script, died, handled>>
        /\ overlapped' \in BOOLEAN
    BY <1>3 DEF begin_call
  <1>5. new \in Call
    BY <1>2, <1>4, ScriptFiles DEF Call, Statuses, IInv, Program
  <1>6. /\ pc[c] = "none" /\ calls \in Seq(Call)
        /\ calls' \in Seq(Call) /\ Len(calls') = c /\ calls' # <<>>
        /\ DOMAIN calls' = DOMAIN calls \cup {c}
        /\ \A d \in DOMAIN calls : calls'[d] = calls[d]
    BY <1>1, <1>3, <1>4, <1>5, NextCall
  <1>7. Program'
    <2>1. /\ DOMAIN instance' = {"onEnd", "wells", "numberOfWell", "dataDir"}
          /\ instance'.numberOfWell = 0 /\ instance'.onEnd = c
      BY <1>1 DEF parseFile_same_millisecond, fresh_instance
    <2>2. c \in DOMAIN calls' /\ DOMAIN calls' \subseteq DOMAIN script.files
      BY <1>4, <1>6 DEF IInv, Program
    <2> HIDE DEF Call
    <2> QED BY <1>3, <1>4, <1>6, <2>1, <2>2 DEF IInv, Program, thread_vars
  <1>8. Arguments'
    <2>1. UNCHANGED pc /\ js'.at # "create" /\ ~Arguing' /\ ~Arguing
      BY <1>3, <1>4 DEF thread_vars, Arguing
    <2>2. ASSUME NEW o \in Peers
          PROVE  /\ (pc[o] # "none" => o \in DOMAIN calls)'
                 /\ (o \notin raced =>
                      /\ pc[o] \in {"created", "opening"} => ~Arguing /\ args.fname = {calls[o].file}
                      /\ pc[o] = "created" => args.data_dir = {calls[o].dir}
                      /\ pc[o] \notin {"none", "created"} => dlis[o].out_dir = calls[o].dir
                      /\ Started(o) => dlis[o].file = calls[o].file)'
      <3>1. UNCHANGED <<pc[o], dlis[o], args, raced>> /\ (Started(o)' <=> Started(o))
        BY <1>3, <1>4 DEF thread_vars, Started
      <3>2. pc[o] # "none" => o \in DOMAIN calls' /\ calls'[o] = calls[o]
        BY <1>6 DEF IInv, Arguments
      <3>3. Started(o) => pc[o] # "none"
        BY DEF Started
      <3> QED BY <2>1, <3>1, <3>2, <3>3 DEF IInv, Arguments
    <2> QED BY <2>1, <2>2 DEF Arguments
  <1>9. ~exited
    BY DEF parseFile_same_millisecond, begin_call, Running
  <1> QED
    BY <1>3, <1>4, <1>7, <1>8, <1>9, CallFrame

LEMMA CopyHolds ==
  ASSUME IInv, copy_data_dir
  PROVE  IInv'
  <1>1. PICK c : c = Len(calls)
    OBVIOUS
  <1>2. /\ js.at = "copy" /\ js' = [js EXCEPT !.at = "create"]
        /\ args' = [fname |-> {calls[c].file}, data_dir |-> args.data_dir \cup {calls[c].dir, TornDir}]
        /\ UNCHANGED <<socket_vars, thread_vars, wells_vars, script, calls, clock, died, overlapped,
                       raced, handled>>
    BY <1>1 DEF copy_data_dir
  <1>3. js'.at = "create" /\ DOMAIN js' = DOMAIN js /\ DOMAIN js = {"at", "from", "message"}
    BY <1>2 DEF IInv, Program, Loop
  <1>4. Arguing /\ Arguing' /\ ~Listening /\ ~Listening'
    BY <1>2, <1>3 DEF Arguing, Listening
  <1>5. Program'
    BY <1>2, <1>3 DEF IInv, Program, thread_vars, wells_vars
  <1>6. Arguments'
    <2>1. (Arguing => calls # <<>> /\ pc[Len(calls)] = "none")'
      BY <1>2, <1>4 DEF IInv, Arguments, thread_vars
    <2>2. (js.at = "create" => args.fname = {calls[Len(calls)].file})'
      BY <1>1, <1>2
    <2>3. ASSUME NEW o \in Peers
          PROVE  /\ (pc[o] # "none" => o \in DOMAIN calls)'
                 /\ (o \notin raced =>
                      /\ pc[o] \in {"created", "opening"} => ~Arguing /\ args.fname = {calls[o].file}
                      /\ pc[o] = "created" => args.data_dir = {calls[o].dir}
                      /\ pc[o] \notin {"none", "created"} => dlis[o].out_dir = calls[o].dir
                      /\ Started(o) => dlis[o].file = calls[o].file)'
      <3>1. UNCHANGED <<pc[o], dlis[o], calls, raced>> /\ (Started(o)' <=> Started(o))
        BY <1>2 DEF thread_vars, Started
      <3>2. o \notin raced => pc[o] \notin {"created", "opening"}
        BY <1>4 DEF IInv, Arguments
      <3> QED BY <3>1, <3>2 DEF IInv, Arguments
    <2> QED BY <2>1, <2>2, <2>3 DEF Arguments
  <1>7. PICK M : SocketInv(M)
    BY DEF IInv, Exchanges
  <1>8. SocketInv(M)'
    BY <1>2, <1>7, SocketsStay
  <1>9. UNCHANGED <<receiving_reply, on_the_way, arrived, sending_reply>>
    BY <1>2 DEF socket_vars, req_vars, rep_vars
  <1>10. (sending_reply' <=> js'.at = "reply") /\ js'.at # "reply"
    BY <1>2, <1>3, <1>9 DEF IInv, Exchanges
  <1>11. (\E N : SocketInv(N))'
    BY <1>8
  <1> QED
    BY <1>2, <1>4, <1>5, <1>6, <1>9, <1>10, <1>11, LoopHolds
\* A step of a thread that has not opened its file, or its creation.
LEMMA BirthHolds ==
  ASSUME IInv, NEW t \in Peers, ~Started(t), Program', Arguments', ThreadInv(t)',
         UNCHANGED <<socket_vars, handled>>, ~exited',
         pc' \in [Peers -> Threads_at], pc'[t] \notin {"reply", "ending"}, DOMAIN dlis' = Peers,
         \A o \in Peers : o # t => UNCHANGED <<pc[o], dlis[o]>>,
         Listening' <=> Listening, Listening => js' = js, js'.at = "reply" <=> js.at = "reply"
  PROVE  IInv'
  <1>1. PICK M : SocketInv(M)
    BY DEF IInv, Exchanges
  <1>2. SocketInv(M)'
    BY <1>1, SocketsStay
  <1>3. UNCHANGED <<receiving_reply, on_the_way, arrived, sending_reply, current_out>>
    BY DEF socket_vars, req_vars, rep_vars
  <1>4. PICK p : p = js.from
    OBVIOUS
  <1>5. Listening => p \in Peers /\ p # t /\ Started(p) /\ Started(p)'
    <2>1. Listening => js.from \in Peers /\ Started(js.from)
      BY DEF IInv, Exchanges
    <2>2. Started(js.from) <=> Started(p)
      BY <1>4 DEF Started
    <2>3. Listening => p \in Peers /\ p # t /\ Started(p)
      BY <1>4, <2>1, <2>2
    <2>4. \A o \in Peers : o # t => (Started(o)' <=> Started(o))
      BY DEF Started
    <2> QED BY <2>3, <2>4
  <1>6. Exchanges'
    <2>1. (Listening => js.from \in Peers /\ Started(js.from))'
      <3>1. Listening' => js'.from = p
        BY <1>4
      <3>2. Listening' => p \in Peers /\ Started(p)'
        BY <1>5
      <3>3. js'.from = p => (Started(p)' <=> Started(js.from)')
        BY DEF Started
      <3> QED BY <3>1, <3>2, <3>3
    <2>2. \A o \in Peers : receiving_reply'[o] <=> pc'[o] \in {"reply", "ending"}
      <3>1. ~receiving_reply[t]
        BY DEF IInv, Exchanges, Started
      <3> QED BY <1>3, <3>1 DEF IInv, Exchanges
    <2>3. js'.at = "reply" => js'.from = current_out'
      BY <1>3 DEF Listening, IInv, Exchanges
    <2>4. sending_reply' <=> js'.at = "reply"
      BY <1>3 DEF IInv, Exchanges
    <2> QED BY <1>2, <2>1, <2>2, <2>3, <2>4 DEF Exchanges
  <1>7. ASSUME NEW o \in Peers, o # t PROVE ThreadInv(o)'
    <2>1. Heard(o)' = Heard(o)
      BY DEF Heard
    <2>2. UNCHANGED <<pc[o], dlis[o], handled[o], arrived[o], on_the_way[o]>>
      BY <1>3, <1>7
    <2>3. ThreadInv(o)
      BY DEF IInv, Threads
    <2> QED BY <2>1, <2>2, <2>3, OtherThread
  <1>8. Threads'
    BY <1>7 DEF IInv, Threads
  <1>9. ExitsOnlyFor'
    BY DEF ExitsOnlyFor
  <1> QED
    BY <1>6, <1>8, <1>9 DEF IInv

LEMMA CreateHolds ==
  ASSUME IInv, create_thread
  PROVE  IInv'
  <1>1. PICK c : c = Len(calls)
    OBVIOUS
  <1>2. /\ Running /\ js.at = "create" /\ js' = Loop
        /\ args' = [args EXCEPT !.data_dir = {calls[c].dir}]
        /\ pc' = [pc EXCEPT ![c] = "created"]
        /\ UNCHANGED <<socket_vars, dlis, exited, wells_vars, script, calls, clock, died, overlapped,
                       raced, handled>>
    BY <1>1 DEF create_thread, args_written
  <1>3. Arguing /\ ~Arguing' /\ ~Listening /\ ~Listening' /\ js'.at = "loop"
    BY <1>2 DEF Arguing, Listening, Loop
  <1>4. calls # <<>> /\ calls \in Seq(Call) /\ pc[c] = "none" /\ args.fname = {calls[c].file}
    BY <1>1, <1>2, <1>3 DEF IInv, Arguments, Program
  <1>5. c \in DOMAIN calls /\ c \in Peers
    <2>1. c \in DOMAIN calls
      BY <1>1, <1>4
    <2> QED BY <2>1, ScriptFiles DEF IInv, Program
  <1>6. /\ DOMAIN args' = DOMAIN args /\ args'.fname = args.fname
        /\ args'.data_dir = {calls[c].dir}
    BY <1>2 DEF IInv, Program
  <1>7. /\ pc' \in [Peers -> Threads_at] /\ pc'[c] = "created"
        /\ \A o \in Peers : o # c => pc'[o] = pc[o]
    BY <1>2, <1>5 DEF IInv, Threads, Threads_at
  <1>8. Program'
    <2>1. DOMAIN js' = DOMAIN Loop
      BY <1>2
    <2> QED BY <1>2, <1>3, <1>6, <2>1 DEF IInv, Program, wells_vars
  <1>9. Arguments'
    <2>1. js'.at # "create"
      BY <1>3
    <2>2. ASSUME NEW o \in Peers
          PROVE  /\ (pc[o] # "none" => o \in DOMAIN calls)'
                 /\ (o \notin raced =>
                      /\ pc[o] \in {"created", "opening"} => ~Arguing /\ args.fname = {calls[o].file}
                      /\ pc[o] = "created" => args.data_dir = {calls[o].dir}
                      /\ pc[o] \notin {"none", "created"} => dlis[o].out_dir = calls[o].dir
                      /\ Started(o) => dlis[o].file = calls[o].file)'
      <3>1. CASE o = c
        BY <1>2, <1>3, <1>4, <1>5, <1>6, <1>7, <3>1 DEF Started
      <3>2. CASE o # c
        <4>1. UNCHANGED <<pc[o], dlis[o], calls, raced>> /\ (Started(o)' <=> Started(o))
          BY <1>2, <1>7, <3>2 DEF Started
        <4>2. o \notin raced => pc[o] \notin {"created", "opening"}
          BY <1>3 DEF IInv, Arguments
        <4> QED BY <4>1, <4>2 DEF IInv, Arguments
      <3> QED BY <3>1, <3>2
    <2> QED BY <1>3, <2>1, <2>2 DEF Arguments
  <1>10. ~Started(c) /\ ~Started(c)'
    BY <1>4, <1>7 DEF Started
  <1>11. ThreadInv(c)'
    <2>1. Kept(c) /\ UNCHANGED <<dlis[c], handled[c]>>
      BY <1>2, <1>5 DEF IInv, Threads, ThreadInv
    <2>2. Kept(c)'
      BY <1>10, <2>1 DEF Kept
    <2> QED BY <1>10, <2>2 DEF ThreadInv
  <1>12. ~exited' /\ pc'[c] \notin {"reply", "ending"} /\ DOMAIN dlis' = Peers
    BY <1>2, <1>7 DEF Running, IInv, Threads
  <1>13. js'.at = "reply" <=> js.at = "reply"
    BY <1>2, <1>3
  <1>14. \A o \in Peers : o # c => UNCHANGED <<pc[o], dlis[o]>>
    BY <1>2, <1>7
  <1>15. UNCHANGED <<socket_vars, handled>>
    BY <1>2
  <1> QED
    BY <1>3, <1>5, <1>7, <1>8, <1>9, <1>10, <1>11, <1>12, <1>13, <1>14, <1>15, BirthHolds

LEMMA BeginHolds ==
  ASSUME IInv, NEW t \in Peers, do_parse_begin(t)
  PROVE  IInv'
  <1>1. PICK dir \in args.data_dir : dlis' = [dlis EXCEPT ![t].out_dir = dir]
    BY DEF do_parse_begin
  <1>2. /\ Running /\ pc[t] = "created" /\ pc' = [pc EXCEPT ![t] = "opening"]
        /\ UNCHANGED <<socket_vars, exited, wells_vars, js_vars, script>>
    BY DEF do_parse_begin
  <1>3. UNCHANGED <<js, calls, args, raced, handled>>
    BY <1>2 DEF js_vars
  <1>4. ~Started(t) /\ Kept(t) /\ DOMAIN dlis = Peers
    BY <1>2 DEF Started, IInv, Threads, ThreadInv
  <1>5. PICK d : d = dlis[t]
    OBVIOUS
  <1>6. d = [dlis_init EXCEPT !.out_dir = d.out_dir] /\ handled[t] = <<>>
    BY <1>4, <1>5 DEF Kept
  <1>7. PICK n : n = [d EXCEPT !.out_dir = dir]
    OBVIOUS
  <1>8. dlis' = [dlis EXCEPT ![t] = n]
    BY <1>1, <1>5, <1>7
  <1>9. /\ dlis'[t] = n /\ DOMAIN dlis' = Peers
        /\ \A o \in Peers : o # t => dlis'[o] = dlis[o]
    BY <1>4, <1>8
  <1>10. n.out_dir = dir /\ n = [dlis_init EXCEPT !.out_dir = dir]
    BY <1>6, <1>7 DEF dlis_init
  <1>11. /\ pc' \in [Peers -> Threads_at] /\ pc'[t] = "opening"
         /\ \A o \in Peers : o # t => pc'[o] = pc[o]
    BY <1>2 DEF IInv, Threads, Threads_at
  <1>12. ~Started(t)' /\ ~exited'
    BY <1>2, <1>11 DEF Started, Running
  <1>13. ThreadInv(t)'
    <2>1. dlis'[t] = [dlis_init EXCEPT !.out_dir = dlis'[t].out_dir]
      BY <1>9, <1>10
    <2>2. DOMAIN dlis'[t] = DOMAIN dlis_init /\ dlis'[t].templt = <<>>
      BY <1>9, <1>10 DEF dlis_init
    <2>3. Kept(t)'
      BY <1>3, <1>6, <1>12, <2>1, <2>2, PiecesAreSequences DEF Kept
    <2> QED BY <1>12, <2>3 DEF ThreadInv
  <1>14. Program'
    BY <1>2 DEF IInv, Program, wells_vars, js_vars
  <1>15. Arguments'
    <2>1. Arguing' <=> Arguing
      BY <1>3 DEF Arguing
    <2>2. ASSUME Arguing PROVE calls # <<>> /\ pc'[Len(calls)] = "none"
      <3>1. PICK c : c = Len(calls)
        OBVIOUS
      <3>2. calls # <<>> /\ pc[c] = "none" /\ calls \in Seq(Call)
        BY <2>2, <3>1 DEF IInv, Program, Arguments
      <3>3. c \in DOMAIN calls
        BY <3>1, <3>2
      <3>4. c \in Peers
        BY <3>3, ScriptFiles DEF IInv, Program
      <3>5. pc'[c] = "none"
        BY <1>2, <1>11, <3>2, <3>4
      <3> QED BY <3>1, <3>2, <3>5
    <2>3. (js.at = "create" => args.fname = {calls[Len(calls)].file})'
      BY <1>3 DEF IInv, Arguments
    <2>4. ASSUME NEW o \in Peers
          PROVE  /\ (pc[o] # "none" => o \in DOMAIN calls)'
                 /\ (o \notin raced =>
                      /\ pc[o] \in {"created", "opening"} => ~Arguing /\ args.fname = {calls[o].file}
                      /\ pc[o] = "created" => args.data_dir = {calls[o].dir}
                      /\ pc[o] \notin {"none", "created"} => dlis[o].out_dir = calls[o].dir
                      /\ Started(o) => dlis[o].file = calls[o].file)'
      <3>1. CASE o = t
        <4>1. t \notin raced => dir = calls[t].dir
          BY <1>1, <1>2 DEF IInv, Arguments
        <4> QED BY <1>2, <1>3, <1>9, <1>10, <1>11, <1>12, <2>1, <3>1, <4>1 DEF IInv, Arguments
      <3>2. CASE o # t
        <4>1. UNCHANGED <<pc[o], dlis[o], calls, raced, args>> /\ (Started(o)' <=> Started(o))
          BY <1>3, <1>9, <1>11, <3>2 DEF Started
        <4> QED BY <2>1, <4>1 DEF IInv, Arguments
      <3> QED BY <3>1, <3>2
    <2> QED BY <1>3, <2>1, <2>2, <2>3, <2>4 DEF Arguments
  <1>16. /\ UNCHANGED <<socket_vars, handled>>
         /\ \A o \in Peers : o # t => UNCHANGED <<pc[o], dlis[o]>>
    BY <1>2, <1>3, <1>9, <1>11
  <1>17. (Listening' <=> Listening) /\ js' = js
    BY <1>3 DEF Listening
  <1> QED
    BY <1>4, <1>9, <1>11, <1>12, <1>13, <1>14, <1>15, <1>16, <1>17, BirthHolds
LEMMA OpenHolds ==
  ASSUME IInv, NEW t \in Peers, do_parse_open(t)
  PROVE  IInv'
  <1>1. PICK fname \in args.fname :
          IF fname \in DOMAIN Files
          THEN /\ dlis' = [dlis EXCEPT ![t].file = fname]
               /\ pc' = [pc EXCEPT ![t] = "parse"]
               /\ UNCHANGED exited
          ELSE exited' = TRUE /\ UNCHANGED <<dlis, pc>>
    BY DEF do_parse_open
  <1>2. /\ Running /\ pc[t] = "opening"
        /\ UNCHANGED <<socket_vars, wells_vars, js_vars, script>>
    BY DEF do_parse_open
  <1>3. UNCHANGED <<js, calls, args, raced, handled>>
    BY <1>2 DEF js_vars
  <1>4. ~Started(t) /\ Kept(t) /\ DOMAIN dlis = Peers /\ t \in DOMAIN calls
    BY <1>2 DEF Started, IInv, Threads, ThreadInv, Arguments
  <1>5. t \notin raced => fname = calls[t].file /\ ~Arguing
    BY <1>1, <1>2 DEF IInv, Arguments
  <1>6. PICK M : SocketInv(M)
    BY DEF IInv, Exchanges
  <1>7. SocketInv(M)' /\ UNCHANGED <<receiving_reply, on_the_way, arrived, sending_reply, current_out>>
    BY <1>2, <1>6, SocketsStay DEF socket_vars, req_vars, rep_vars
  <1>8. Arguing' <=> Arguing
    BY <1>3 DEF Arguing
  <1>9. (Listening' <=> Listening) /\ js' = js
    BY <1>3 DEF Listening
  <1>10. Program'
    BY <1>1, <1>2 DEF IInv, Program, wells_vars, js_vars
  <1>11. CASE fname \notin DOMAIN Files
    <2>1. exited' = TRUE /\ UNCHANGED <<dlis, pc>>
      BY <1>1, <1>11
    <2>2. Arguments'
      BY <1>3, <1>8, <2>1 DEF IInv, Arguments, Started
    <2>3. Exchanges'
      BY <1>3, <1>7, <1>9, <2>1 DEF IInv, Exchanges, Started
    <2>4. ASSUME NEW o \in Peers PROVE ThreadInv(o)'
      <3>1. Heard(o)' = Heard(o)
        BY <1>9 DEF Heard
      <3>2. UNCHANGED <<pc[o], dlis[o], handled[o], arrived[o], on_the_way[o]>>
        BY <1>3, <1>7, <2>1
      <3>3. ThreadInv(o)
        BY DEF IInv, Threads
      <3> QED BY <3>1, <3>2, <3>3, OtherThread
    <2>5. Threads'
      BY <1>3, <2>1, <2>4 DEF IInv, Threads
    <2>6. raced # {} \/ calls[t].file \notin DOMAIN Files
      BY <1>5, <1>11
    <2>7. ExitsOnlyFor'
      BY <1>3, <1>4, <2>6 DEF ExitsOnlyFor
    <2> QED BY <1>10, <2>2, <2>3, <2>5, <2>7 DEF IInv
  <1>12. CASE fname \in DOMAIN Files
    <2>1. dlis' = [dlis EXCEPT ![t].file = fname] /\ pc' = [pc EXCEPT ![t] = "parse"] /\ ~exited'
      BY <1>1, <1>2, <1>12 DEF Running
    <2>2. PICK d : d = dlis[t]
      OBVIOUS
    <2>3. d = [dlis_init EXCEPT !.out_dir = d.out_dir] /\ handled[t] = <<>>
      BY <1>4, <2>2 DEF Kept
    <2>4. PICK n : n = [d EXCEPT !.file = fname]
      OBVIOUS
    <2>5. dlis' = [dlis EXCEPT ![t] = n]
      BY <2>1, <2>2, <2>4
    <2>6. /\ dlis'[t] = n /\ DOMAIN dlis' = Peers
          /\ \A o \in Peers : o # t => dlis'[o] = dlis[o]
      BY <1>4, <2>5
    <2>7. /\ n.file = fname /\ n.at = 1 /\ n.out_dir = d.out_dir /\ n.templt = <<>>
          /\ n.templt_read_idx = -1 /\ n.attrib_value_cnt = 0 /\ n.parsing_obj_binn = NoObject
          /\ DOMAIN n = DOMAIN dlis_init
      BY <2>3, <2>4 DEF dlis_init
    <2>8. /\ pc' \in [Peers -> Threads_at] /\ pc'[t] = "parse"
          /\ \A o \in Peers : o # t => pc'[o] = pc[o]
      BY <1>2, <2>1 DEF IInv, Threads, Threads_at
    <2>9. Started(t)'
      BY <2>8 DEF Started
    <2>10. Arguments'
      <3>1. ASSUME Arguing PROVE calls # <<>> /\ pc'[Len(calls)] = "none"
        <4>1. PICK c : c = Len(calls)
          OBVIOUS
        <4>2. calls # <<>> /\ pc[c] = "none" /\ calls \in Seq(Call)
          BY <3>1, <4>1 DEF IInv, Program, Arguments
        <4>3. c \in DOMAIN calls
          BY <4>1, <4>2
        <4>4. c \in Peers
          BY <4>3, ScriptFiles DEF IInv, Program
        <4>5. pc'[c] = "none"
          BY <1>2, <2>8, <4>2, <4>4
        <4> QED BY <4>1, <4>2, <4>5
      <3>2. (js.at = "create" => args.fname = {calls[Len(calls)].file})'
        BY <1>3 DEF IInv, Arguments
      <3>3. ASSUME NEW o \in Peers
            PROVE  /\ (pc[o] # "none" => o \in DOMAIN calls)'
                   /\ (o \notin raced =>
                        /\ pc[o] \in {"created", "opening"} => ~Arguing /\ args.fname = {calls[o].file}
                        /\ pc[o] = "created" => args.data_dir = {calls[o].dir}
                        /\ pc[o] \notin {"none", "created"} => dlis[o].out_dir = calls[o].dir
                        /\ Started(o) => dlis[o].file = calls[o].file)'
        <4>1. CASE o = t
          <5>1. t \notin raced => dlis[t].out_dir = calls[t].dir
            BY <1>2 DEF IInv, Arguments
          <5> QED BY <1>3, <1>4, <1>5, <2>2, <2>6, <2>7, <2>8, <2>9, <4>1, <5>1
        <4>2. CASE o # t
          <5>1. UNCHANGED <<pc[o], dlis[o], calls, raced, args>> /\ (Started(o)' <=> Started(o))
            BY <1>3, <2>6, <2>8, <4>2 DEF Started
          <5> QED BY <1>8, <5>1 DEF IInv, Arguments
        <4> QED BY <4>1, <4>2
      <3> QED BY <1>3, <1>8, <3>1, <3>2, <3>3 DEF Arguments
    <2>11. (~receiving_reply[t] /\ Heard(t) = <<>>)
      <3>1. Listening => Started(js.from)
        BY DEF IInv, Exchanges
      <3>2. Listening => js.from # t
        BY <1>4, <3>1 DEF Started
      <3> QED BY <1>2, <3>2 DEF Heard, IInv, Exchanges
    <2>12. OnTheirWay(t)' = (<<>> \o <<>>) \o <<>> /\ InQueue(arrived[t])' = <<>>
      <3>1. on_the_way[t] = <<>> /\ arrived[t] = <<>>
        BY <2>11, NothingSent DEF IInv
      <3>2. InQueue(arrived[t])' = <<>> /\ InQueue(on_the_way[t])' = <<>>
        BY <1>7, <3>1 DEF InQueue
      <3>3. Heard(t)' = <<>>
        BY <1>9, <2>11 DEF Heard
      <3> QED BY <3>2, <3>3 DEF OnTheirWay
    <2>13. PICK all : all = Len(Items[fname])
      OBVIOUS
    <2>14. /\ all \in Nat /\ reading(fname)[0] = FirstPlace
      BY <1>12, <2>13, ReadingHolds
    <2>15. Read(t)' = FirstPlace
      <3>1. dlis'[t].file = fname /\ dlis'[t].at - 1 = 0
        BY <2>6, <2>7
      <3> QED BY <2>14, <3>1 DEF Read
    <2>16. Reader(t)'
      <3>1. /\ FirstPlace.set = 0 /\ FirstPlace.labels = 0 /\ FirstPlace.attribute = -1
            /\ FirstPlace.values = 0
        BY DEF FirstPlace
      <3>2. n.at \in 1 .. Len(Items[n.file]) + 1 /\ n.file \in DOMAIN Files
        BY <1>12, <2>7, <2>13, <2>14
      <3>3. Len(n.templt) = 0
        BY <2>7
      <3> HIDE DEF FirstPlace
      <3> QED BY <2>6, <2>7, <2>15, <3>1, <3>2, <3>3 DEF Reader
    <2>17. Kept(t)'
      BY <1>3, <2>3, <2>6, <2>7, <2>9, <2>16, PiecesAreSequences DEF Kept
    <2>18. Order(t)'
      <3>1. Held(t)' = <<>>
        BY <2>6, <2>7 DEF Held, Piece, NoObject
      <3>2. handled'[t] \o OnTheirWay(t)' \o Held(t)' = <<>>
        <4>1. <<>> \in Seq({}) /\ <<>> \o <<>> = <<>>
          OBVIOUS
        <4> QED BY <1>3, <2>3, <2>12, <3>1, <4>1
      <3>3. SubSeq(Objects[dlis'[t].file], 1, Read(t)'.objects) = <<>>
        <4>1. Read(t)'.objects = 0
          BY <2>15 DEF FirstPlace
        <4> QED BY <4>1
      <3> QED BY <2>8, <3>2, <3>3 DEF Order
    <2>19. ThreadInv(t)'
      BY <2>17, <2>18 DEF ThreadInv
    <2>20. /\ UNCHANGED <<socket_vars, handled>> /\ pc'[t] \notin {"reply", "ending"}
           /\ \A o \in Peers : o # t => UNCHANGED <<pc[o], dlis[o]>>
      BY <1>2, <1>3, <2>6, <2>8
    <2> QED
      BY <1>4, <1>9, <1>10, <2>1, <2>6, <2>8, <2>10, <2>19, <2>20, BirthHolds
  <1> QED
    BY <1>11, <1>12

-----------------------------------------------------------------------------
(* The invariant holds at first, and every step keeps it. *)

LEMMA InitHolds == Init => IInv
  <1> SUFFICES ASSUME Init PROVE IInv
    OBVIOUS
  <1> USE DEF Init
  <1>1. SocketInv({})
    BY SocketsStart
  <1>2. js.at = "loop" /\ DOMAIN js = DOMAIN Loop
    BY DEF Loop
  <1>3. /\ pc = [t \in Peers |-> "none"] /\ dlis = [t \in Peers |-> dlis_init] /\ exited = FALSE
    BY DEF ThreadInit
  <1>4. \A t \in Peers : ~Started(t)
    BY <1>3 DEF Started
  <1>5. Program
    <2>1. calls \in Seq(Call) /\ DOMAIN calls \subseteq DOMAIN script.files
      OBVIOUS
    <2>2. DOMAIN args = {"fname", "data_dir"}
      OBVIOUS
    <2>3. /\ {"onEnd", "wells", "numberOfWell", "dataDir"} \subseteq DOMAIN instance
          /\ instance.numberOfWell = 0 /\ instance.onEnd = NoCall
      BY DEF WellsInit
    <2> HIDE DEF Call
    <2>4. js.at \in {"loop", "copy", "create", "reply", "handle"} /\ clock \in Nat
      BY <1>2
    <2>5. exited \in BOOLEAN /\ died \in BOOLEAN /\ overlapped \in BOOLEAN /\ script \in Scripts
      BY <1>3
    <2> HIDE DEF Init
    <2> QED BY <1>2, <2>1, <2>2, <2>3, <2>4, <2>5 DEF Program
  <1>6. Arguments
    BY <1>2, <1>3, <1>4 DEF Arguments, Arguing
  <1>7. Exchanges
    BY <1>1, <1>2, <1>3 DEF Exchanges, SocketInit, Listening
  <1>8. ASSUME NEW t \in Peers PROVE ThreadInv(t)
    <2>1. dlis[t] = dlis_init /\ handled[t] = <<>>
      BY <1>3
    <2>2. dlis_init = [dlis_init EXCEPT !.out_dir = dlis_init.out_dir] /\ dlis_init.templt = <<>>
      BY DEF dlis_init
    <2> QED BY <1>4, <2>1, <2>2, PiecesAreSequences DEF ThreadInv, Kept
  <1>9. Threads
    <2>1. pc \in [Peers -> Threads_at] /\ DOMAIN dlis = Peers /\ DOMAIN handled = Peers
      BY <1>3 DEF Threads_at
    <2> QED BY <1>8, <2>1 DEF Threads
  <1>10. ExitsOnlyFor
    BY <1>3 DEF ExitsOnlyFor
  <1> QED
    BY <1>5, <1>6, <1>7, <1>9, <1>10 DEF IInv

LEMMA StutteringHolds == ASSUME IInv, UNCHANGED vars PROVE IInv'
  <1>1. /\ UNCHANGED <<socket_vars, thread_vars, wells_vars, js_vars, script>>
        /\ UNCHANGED <<receiving_reply, sending_reply, current_out, arrived, on_the_way>>
    BY DEF vars, socket_vars, req_vars, rep_vars
  <1>2. PICK M : SocketInv(M)
    BY DEF IInv, Exchanges
  <1>3. SocketInv(M)'
    BY <1>1, <1>2, SocketsStay
  <1> QED
    BY <1>1, <1>3, PipesHold

LEMMA ThreadStepHolds == ASSUME IInv, NEW t \in Peers, thread_step(t) PROVE IInv'
  <1>1. ThreadStep(t) /\ ThreadFrame
    BY DEF thread_step, ThreadFrame, Running
  <1>2. CASE AnExit(t)
    BY <1>1, <1>2, ExitHolds
  <1>3. CASE ~AnExit(t)
    BY <1>1, <1>3, SetHolds, LabelHolds, ObjectHolds, AttributeHolds, ValueHolds, RowHolds,
       EndHolds, AnswerHolds DEF ThreadStep, AnExit
  <1> QED
    BY <1>2, <1>3

LEMMA JavaScriptHolds == ASSUME IInv, JavaScript PROVE IInv'
  <1>1. CASE on_readable
    <2>1. /\ js.at = "loop"
          /\ UNCHANGED <<thread_vars, wells_vars, script, calls, args, clock, died, overlapped, raced,
                         handled>>
      BY <1>1 DEF on_readable
    <2>2. CASE rep_recv /\ js' = [at |-> "reply", from |-> NextPeer,
                                  message |-> Head(arrived[NextPeer])]
      BY <2>1, <2>2, TakingHolds
    <2>3. CASE rep_recv_none /\ UNCHANGED js
      BY <2>1, <2>3, NothingTakenHolds
    <2> QED BY <1>1, <2>2, <2>3 DEF on_readable
  <1> QED
    BY <1>1, CopyHolds, CreateHolds, ReplyingHolds, HandlingHolds, ThrowHolds DEF JavaScript

LEMMA NextHolds == IInv /\ [Next]_vars => IInv'
  <1> SUFFICES ASSUME IInv, [Next]_vars PROVE IInv'
    OBVIOUS
  <1>1. CASE UNCHANGED vars
    BY <1>1, StutteringHolds
  <1>2. CASE parseFile
    BY <1>2, ParseFileHolds
  <1>3. CASE parseFile_same_millisecond
    BY <1>3, SameMillisecondHolds
  <1>4. CASE JavaScript
    BY <1>4, JavaScriptHolds
  <1>5. ASSUME NEW t \in Peers, Parser(t) PROVE IInv'
    BY <1>5, BeginHolds, OpenHolds, ThreadStepHolds DEF Parser
  <1>6. ASSUME NEW t \in Peers, io_step(t) PROVE IInv'
    BY <1>6, IoHolds
  <1> QED
    BY <1>1, <1>2, <1>3, <1>4, <1>5, <1>6 DEF Next

-----------------------------------------------------------------------------
\* The inductive invariant holds in every reachable state of the add-on.
THEOREM AddonInvariant == Spec => []IInv
  BY InitHolds, NextHolds, PTL DEF Spec
-----------------------------------------------------------------------------
(* What follows from it. *)

LEMMA SameSequence ==
  ASSUME NEW X, NEW s \in Seq(X), NEW t \in Seq(X), Len(s) = Len(t),
         \A i \in 1 .. Len(s) : s[i] = t[i]
  PROVE  s = t
  <1>1. s \in [1 .. Len(s) -> X] /\ t \in [1 .. Len(s) -> X]
    OBVIOUS
  <1> QED
    BY <1>1

LEMMA PrefixOf ==
  ASSUME NEW h, NEW w, NEW k, NEW all,
         IsSequence(h), IsSequence(w), IsSequence(k), IsSequence(all),
         NEW n \in 0 .. Len(all), (h \o w) \o k = SubSeq(all, 1, n)
  PROVE  IsPrefix(h, all)
  <1> DEFINE X == Range(h) \cup Range(w) \cup Range(k) \cup Range(all)
  <1>1. h \in Seq(X) /\ w \in Seq(X) /\ k \in Seq(X) /\ all \in Seq(X)
    BY SequenceOfMore
  <1> HIDE DEF X
  <1>2. PICK u : u = SubSeq(all, 1, n)
    OBVIOUS
  <1>3. /\ Len(u) = n /\ n \in Nat /\ Len(all) \in Nat
        /\ \A i \in 1 .. n : u[i] = all[i]
    BY <1>1, <1>2
  <1>4. PICK v : v = h \o w
    OBVIOUS
  <1>5. /\ v \in Seq(X) /\ Len(v) = Len(h) + Len(w) /\ Len(h) \in Nat /\ Len(w) \in Nat
        /\ \A i \in 1 .. Len(h) : v[i] = h[i]
    BY <1>1, <1>4
  <1>6. u = v \o k
    BY <1>2, <1>4
  <1>7. /\ Len(u) = Len(v) + Len(k) /\ Len(k) \in Nat
        /\ \A i \in 1 .. Len(v) : u[i] = v[i]
    BY <1>1, <1>5, <1>6
  <1>8. Len(h) <= n /\ Len(h) <= Len(all)
    BY <1>3, <1>5, <1>7
  <1>9. \A i \in 1 .. Len(h) : h[i] = all[i]
    BY <1>3, <1>5, <1>7, <1>8
  <1>10. /\ SubSeq(h, 1, Len(h)) \in Seq(X) /\ Len(SubSeq(h, 1, Len(h))) = Len(h)
         /\ \A i \in 1 .. Len(h) : SubSeq(h, 1, Len(h))[i] = h[i]
    BY <1>1
  <1>11. /\ SubSeq(all, 1, Len(h)) \in Seq(X) /\ Len(SubSeq(all, 1, Len(h))) = Len(h)
         /\ \A i \in 1 .. Len(h) : SubSeq(all, 1, Len(h))[i] = all[i]
    <2>1. PICK l \in Nat : l = Len(h) /\ l <= Len(all)
      BY <1>5, <1>8
    <2> QED BY <1>1, <2>1
  <1>12. SubSeq(h, 1, Len(h)) = SubSeq(all, 1, Len(h))
    <2>1. PICK s : s = SubSeq(h, 1, Len(h))
      OBVIOUS
    <2>2. PICK t : t = SubSeq(all, 1, Len(h))
      OBVIOUS
    <2>3. s \in Seq(X) /\ t \in Seq(X) /\ Len(s) = Len(t) /\ \A i \in 1 .. Len(s) : s[i] = t[i]
      BY <1>9, <1>10, <1>11, <2>1, <2>2
    <2> QED BY <2>1, <2>2, <2>3, SameSequence
  <1> QED
    BY <1>8, <1>12 DEF IsPrefix

LEMMA AllHandled ==
  ASSUME NEW h, NEW k, NEW all, IsSequence(h), IsSequence(k), IsSequence(all),
         (h \o <<>>) \o k = SubSeq(all, 1, Len(all))
  PROVE  /\ k = <<>> => h = all
         /\ Len(k) = 1 => h = Front(all)
  <1> DEFINE X == Range(h) \cup Range(k) \cup Range(all)
  <1>1. h \in Seq(X) /\ k \in Seq(X) /\ all \in Seq(X)
    BY SequenceOfMore
  <1> HIDE DEF X
  <1>2. SubSeq(all, 1, Len(all)) = all
    BY <1>1, SubSeqFull
  <1>3. h \o <<>> = h
    BY <1>1, ConcatEmptySeq
  <1>4. all = h \o k
    BY <1>2, <1>3
  <1>5. ASSUME Len(k) = 1 PROVE h = Front(all)
    <2>1. PICK l \in Nat : l = Len(h) /\ l = Len(all) - 1 /\ \A i \in 1 .. l : all[i] = h[i]
      <3>1. Len(h) \in Nat /\ Len(all) = Len(h) + 1
        <4>1. Len(h \o k) = Len(h) + Len(k) /\ Len(h) \in Nat
          BY <1>1
        <4> QED BY <1>4, <1>5, <4>1
      <3>2. \A i \in 1 .. Len(h) : all[i] = h[i]
        BY <1>1, <1>4
      <3> QED BY <3>1, <3>2
    <2>2. PICK s : s = SubSeq(all, 1, l)
      OBVIOUS
    <2>3. s \in Seq(X) /\ Len(s) = l /\ \A i \in 1 .. l : s[i] = all[i]
      BY <1>1, <2>1, <2>2
    <2>4. s = h
      BY <1>1, <2>1, <2>3, SameSequence
    <2>5. Front(all) = SubSeq(all, 1, l)
      BY <2>1 DEF Front
    <2> QED BY <2>2, <2>4, <2>5
  <1>6. k = <<>> => h = all
    BY <1>1, <1>4, ConcatEmptySeq
  <1> QED
    BY <1>5, <1>6

\* A thread has read no more objects than its file has.
LEMMA ReadObjects ==
  ASSUME NEW f \in DOMAIN Files, NEW i \in 0 .. Len(Items[f])
  PROVE  reading(f)[i] \in Place /\ reading(f)[i].objects \in 0 .. Len(Objects[f])
  <1> DEFINE n == Len(Items[f])
             r == reading(f)
             most == Len(Objects[f])
             T == { j \in Nat : j \in 0 .. n => r[j].objects <= most }
  <1>1. n \in Nat
    BY ReadingHolds
  <1>2. r \in [0 .. n -> Place] /\ r[0] = FirstPlace
    BY ReadingHolds
  <1>3. \A j \in 1 .. n : Due(f, Items[f][j], r[j - 1], r[j])
    BY ReadingHolds
  <1>4. most \in Nat
    BY FileLeads
  <1> HIDE DEF n, r, most
  <1>5. 0 \in T
    BY <1>2, <1>4 DEF FirstPlace
  <1>6. ASSUME NEW j \in Nat, j \in T PROVE j + 1 \in T
    <2> SUFFICES ASSUME j + 1 \in 0 .. n PROVE r[j + 1].objects <= most
      OBVIOUS
    <2>1. PICK m : m = j + 1
      OBVIOUS
    <2>2. m \in 1 .. n /\ m - 1 = j /\ j \in 0 .. n
      BY <1>1, <2>1
    <2>3. Due(f, Items[f][m], r[j], r[m])
      BY <1>3, <2>2
    <2>4. PICK b \in Place : b = r[j] /\ b.objects <= most
      BY <1>2, <1>6, <2>2
    <2>5. PICK a \in Place : a = r[m]
      BY <1>2, <2>2
    <2>6. PICK item : item = Items[f][m]
      OBVIOUS
    <2>7. Due(f, item, b, a)
      BY <2>3, <2>4, <2>5, <2>6
    <2>8. a.objects <= most
      <3>1. CASE SetDue(f, item, b, a)
        BY <2>4, <3>1 DEF SetDue
      <3>2. CASE LabelDue(f, item, b, a)
        BY <2>4, <3>2 DEF LabelDue, Place
      <3>3. CASE ObjectDue(f, item, b, a)
        <4>1. PICK o : o = b.objects + 1
          OBVIOUS
        <4>2. o \in 1 .. most /\ a = [b EXCEPT !.attribute = 0, !.objects = o]
          BY <3>3, <4>1 DEF ObjectDue, most
        <4>3. a.objects = o
          BY <4>2 DEF Place
        <4> QED BY <1>4, <4>2, <4>3
      <3>4. CASE AttributeDue(f, item, b, a)
        BY <2>4, <3>4 DEF AttributeDue, Place
      <3>5. CASE ValueDue(f, item, b, a)
        BY <2>4, <3>5 DEF ValueDue, Place
      <3>6. CASE RowDue(f, item, b, a)
        BY <2>4, <3>6 DEF RowDue
      <3> QED BY <2>7, <3>1, <3>2, <3>3, <3>4, <3>5, <3>6 DEF Due
    <2> QED BY <2>1, <2>5, <2>8
  <1>7. i \in T
    <2>1. i \in Nat
      BY <1>1 DEF n
    <2> HIDE DEF T
    <2> QED BY <1>5, <1>6, <2>1, SetInduction
  <1>8. i \in 0 .. n
    BY DEF n
  <1>9. r[i] \in Place /\ r[i].objects <= most
    BY <1>2, <1>7, <1>8
  <1>10. r[i].objects \in Nat
    BY <1>9 DEF Place
  <1> QED
    BY <1>4, <1>9, <1>10 DEF r, most

\* The place of a thread that reads its file.
LEMMA ReadPlace ==
  ASSUME IInv, NEW t \in Peers, Started(t), NEW f, f = dlis[t].file
  PROVE  /\ f \in DOMAIN Files /\ Reader(t) /\ Order(t)
         /\ Read(t) \in Place /\ Read(t).objects \in 0 .. Len(Objects[f])
         /\ IsSequence(Objects[f])
         /\ dlis[t].at = Len(Items[f]) + 1 => Read(t).objects = Len(Objects[f])
  <1>1. ThreadInv(t)
    BY DEF IInv, Threads
  <1>2. Reader(t) /\ Order(t)
    BY <1>1 DEF ThreadInv, Kept
  <1>3. f \in DOMAIN Files /\ dlis[t].at \in 1 .. Len(Items[f]) + 1
    BY <1>2 DEF Reader
  <1>4. PICK n : n = Len(Items[f])
    OBVIOUS
  <1>5. n \in Nat /\ reading(f)[n].objects = Len(Objects[f])
    BY <1>3, <1>4, ReadingHolds
  <1>6. PICK i : i = dlis[t].at - 1
    OBVIOUS
  <1>7. i \in 0 .. n /\ (dlis[t].at = n + 1 => i = n)
    BY <1>3, <1>4, <1>5, <1>6
  <1>8. Read(t) = reading(f)[i]
    BY <1>6 DEF Read
  <1>9. reading(f)[i] \in Place /\ reading(f)[i].objects \in 0 .. Len(Objects[f])
    BY <1>3, <1>4, <1>7, ReadObjects
  <1>10. IsSequence(Objects[f])
    BY <1>3, FileLeads
  <1> QED
    BY <1>2, <1>3, <1>4, <1>5, <1>7, <1>8, <1>9, <1>10

LEMMA FileOfStarted ==
  ASSUME IInv, NEW t \in Peers
  PROVE  /\ dlis[t].file # NoFile <=> Started(t)
         /\ ~Started(t) => dlis[t].templt_read_idx = -1 /\ dlis[t].attrib_value_cnt = 0
                           /\ dlis[t].file = NoFile
  <1>1. ThreadInv(t)
    BY DEF IInv, Threads
  <1>2. CASE Started(t)
    <2>1. dlis[t].file \in DOMAIN Files
      BY <1>1, <1>2 DEF ThreadInv, Kept, Reader
    <2> QED BY <1>2, <2>1, NamesAssumption
  <1>3. CASE ~Started(t)
    <2>1. PICK d : d = dlis[t]
      OBVIOUS
    <2>2. d = [dlis_init EXCEPT !.out_dir = d.out_dir]
      BY <1>1, <1>3, <2>1 DEF ThreadInv, Kept
    <2>3. d.templt_read_idx = -1 /\ d.attrib_value_cnt = 0 /\ d.file = NoFile
      BY <2>2 DEF dlis_init
    <2> QED BY <1>3, <2>1, <2>3
  <1> QED
    BY <1>2, <1>3

LEMMA Typed == IInv => TypeOK
  <1> SUFFICES ASSUME IInv PROVE TypeOK
    OBVIOUS
  <1>1. PICK M : SocketInv(M)
    BY DEF IInv, Exchanges
  <1>2. Program
    BY DEF IInv
  <1>3. ASSUME NEW t \in Peers
        PROVE  /\ pc[t] \in Threads_at
               /\ dlis[t].file \in DOMAIN Files \cup {NoFile}
               /\ dlis[t].templt_read_idx \in -1 .. Len(dlis[t].templt)
               /\ dlis[t].attrib_value_cnt \in Nat
               /\ receiving_reply[t] \in BOOLEAN /\ replies[t] \in 0 .. 1
               /\ passed[t] \in Nat
    <2>1. pc[t] \in Threads_at
      BY DEF IInv, Threads
    <2>2. receiving_reply[t] \in BOOLEAN /\ replies[t] \in 0 .. 1 /\ passed[t] \in Nat
      BY <1>1 DEF SocketInv, Counters
    <2>3. CASE Started(t)
      <3>1. Read(t) \in Place /\ Reader(t)
        BY <2>3, ReadPlace
      <3>2. PICK b \in Place : b = Read(t)
        BY <3>1
      <3>3. /\ dlis[t].file \in DOMAIN Files /\ dlis[t].templt_read_idx = b.attribute
            /\ Len(dlis[t].templt) = b.labels /\ b.attribute <= b.labels
            /\ dlis[t].attrib_value_cnt = b.values
        BY <3>1, <3>2 DEF Reader
      <3>4. b.attribute \in {-1} \cup Nat /\ b.labels \in Nat /\ b.values \in Nat
        BY DEF Place
      <3> QED BY <2>1, <2>2, <3>3, <3>4
    <2>4. CASE ~Started(t)
      <3>1. IsSequence(dlis[t].templt)
        BY DEF IInv, Threads, ThreadInv, Kept
      <3>2. Len(dlis[t].templt) \in Nat
        BY <3>1 DEF IsSequence
      <3> QED BY <2>1, <2>2, <2>4, <3>2, FileOfStarted
    <2> QED BY <2>3, <2>4
  <1>4. /\ pipes \in Seq(Peers) /\ IsInjective(pipes)
        /\ active \in 0 .. Len(pipes) /\ current \in 1 .. IF active = 0 THEN 1 ELSE active
    BY <1>1 DEF SocketInv, Queued, FairQueue
  <1>5. sending_reply = (js.at = "reply") /\ current_out \in {NoPeer} \cup Peers
    <2>1. sending_reply \in BOOLEAN /\ current_out \in {NoPeer} \cup Peers
      BY <1>1 DEF SocketInv, Answering
    <2>2. sending_reply <=> js.at = "reply"
      BY DEF IInv, Exchanges
    <2> QED BY <2>1, <2>2
  <1>6. \A c \in DOMAIN calls : calls[c].status \in Statuses
    <2> SUFFICES ASSUME NEW c \in DOMAIN calls PROVE calls[c].status \in Statuses
      OBVIOUS
    <2>1. calls[c] \in Call
      <3>1. calls \in Seq(Call)
        BY <1>2 DEF Program
      <3> HIDE DEF Call
      <3> QED BY <3>1
    <2> QED BY <2>1 DEF Call
  <1>7. /\ instance.numberOfWell \in Nat /\ instance.onEnd \in {NoCall} \cup DOMAIN calls
        /\ js.at \in {"loop", "copy", "create", "reply", "handle"}
        /\ exited \in BOOLEAN /\ died \in BOOLEAN /\ overlapped \in BOOLEAN
    BY <1>2 DEF Program
  <1> QED
    BY <1>3, <1>4, <1>5, <1>6, <1>7 DEF TypeOK

LEMMA ArgsOfTheCall == IInv => OwnArgs
  <1> SUFFICES ASSUME IInv, NEW t \in DOMAIN calls, t \notin raced
               PROVE  /\ dlis[t].file # NoFile => dlis[t].file = calls[t].file
                      /\ pc[t] \notin {"none", "created"} => dlis[t].out_dir = calls[t].dir
    BY DEF OwnArgs
  <1>1. t \in Peers
    BY ScriptFiles DEF IInv, Program
  <1> QED
    BY <1>1, FileOfStarted DEF IInv, Arguments

LEMMA HandledInOrder == IInv => ObjectsInOrder
  <1> SUFFICES ASSUME IInv, NEW t \in Peers, dlis[t].file # NoFile, NEW all,
                      all = Objects[dlis[t].file]
               PROVE  /\ IsPrefix(handled[t], all)
                      /\ pc[t] = "closed" =>
                           IF dlis[t].parsing_obj_binn = NoObject THEN handled[t] = all
                           ELSE handled[t] = Front(all)
    BY DEF ObjectsInOrder
  <1>1. Started(t)
    BY FileOfStarted
  <1>2. PICK f : f = dlis[t].file
    OBVIOUS
  <1>3. Reader(t) /\ Order(t) /\ IsSequence(all)
    BY <1>1, <1>2, ReadPlace
  <1>4. PICK n : n = Read(t).objects
    OBVIOUS
  <1>5. n \in 0 .. Len(all) /\ (dlis[t].at = Len(Items[f]) + 1 => n = Len(all))
    BY <1>1, <1>2, <1>4, ReadPlace
  <1>6. (handled[t] \o OnTheirWay(t)) \o Held(t) = SubSeq(all, 1, n)
    BY <1>3, <1>4 DEF Order
  <1>7. IsSequence(handled[t]) /\ IsSequence(Held(t))
    <2>1. IsSequence(handled[t])
      BY DEF IInv, Threads, ThreadInv, Kept
    <2> QED BY <2>1, PiecesAreSequences DEF Held
  <1>8. IsPrefix(handled[t], all)
    <2>1. IsSequence(OnTheirWay(t))
      <3>1. PICK h : h = Heard(t)
        OBVIOUS
      <3>2. PICK a : a = InQueue(arrived[t])
        OBVIOUS
      <3>3. PICK w : w = InQueue(on_the_way[t])
        OBVIOUS
      <3>4. IsSequence(h) /\ IsSequence(a) /\ IsSequence(w)
        BY <3>1, <3>2, <3>3, PiecesAreSequences DEF Heard
      <3>5. PICK u : u = h \o a
        OBVIOUS
      <3>6. IsSequence(u)
        BY <3>4, <3>5, Concatenation
      <3>7. PICK v : v = u \o w
        OBVIOUS
      <3>8. IsSequence(v)
        BY <3>4, <3>6, <3>7, Concatenation
      <3>9. OnTheirWay(t) = v
        BY <3>1, <3>2, <3>3, <3>5, <3>7 DEF OnTheirWay
      <3> QED BY <3>8, <3>9
    <2> QED BY <1>3, <1>5, <1>6, <1>7, <2>1, PrefixOf
  <1>9. ASSUME pc[t] = "closed"
        PROVE  IF dlis[t].parsing_obj_binn = NoObject THEN handled[t] = all
               ELSE handled[t] = Front(all)
    <2>1. ~receiving_reply[t]
      BY <1>9 DEF IInv, Exchanges
    <2>2. on_the_way[t] = <<>> /\ arrived[t] = <<>>
      BY <2>1, NothingSent DEF IInv
    <2>3. n = Len(all) /\ Heard(t) = <<>>
      BY <1>2, <1>3, <1>5, <1>9, <2>2 DEF Order
    <2>4. OnTheirWay(t) = <<>>
      <3>1. InQueue(arrived[t]) = <<>> /\ InQueue(on_the_way[t]) = <<>>
        BY <2>2 DEF InQueue
      <3>2. (<<>> \o <<>>) \o <<>> = <<>>
        OBVIOUS
      <3> QED BY <2>3, <3>1, <3>2 DEF OnTheirWay
    <2>5. PICK k : k = Held(t)
      OBVIOUS
    <2>6. (handled[t] \o <<>>) \o k = SubSeq(all, 1, Len(all))
      BY <1>6, <2>3, <2>4, <2>5
    <2>7. /\ k = <<>> => handled[t] = all
          /\ Len(k) = 1 => handled[t] = Front(all)
      BY <1>3, <1>7, <2>5, <2>6, AllHandled
    <2>8. CASE dlis[t].parsing_obj_binn = NoObject
      <3>1. k = <<>>
        BY <2>5, <2>8 DEF Held, Piece, NoObject
      <3> QED BY <2>7, <2>8, <3>1
    <2>9. CASE dlis[t].parsing_obj_binn # NoObject
      <3>1. IsObject(dlis[t].parsing_obj_binn)
        BY <1>3, <2>9 DEF Reader
      <3>2. Len(k) = 1
        BY <2>5, <3>1, OneElement DEF Held, Piece, IsObject
      <3> QED BY <2>7, <2>9, <3>2
    <2> QED BY <2>8, <2>9
  <1> QED
    BY <1>8, <1>9

(***************************************************************************)
(* The types of the add-on's state, for any files, any number of calls     *)
(* and any order in which their threads, the I/O thread and the event loop *)
(* move: the cursor over the template stays inside it, and the sockets'    *)
(* queue of pipes is one of distinct peers.                                *)
(***************************************************************************)
THEOREM AddonTypeOK == Spec => []TypeOK
  BY Typed, AddonInvariant, PTL

(***************************************************************************)
(* A thread parses the file of its own call into that call's directory,    *)
(* unless a later call of parseFile came before it had read _args.         *)
(***************************************************************************)
THEOREM ThreadsOwnArgs == Spec => []OwnArgs
  BY ArgsOfTheCall, AddonInvariant, PTL

(***************************************************************************)
(* eflr_data gets the objects of each file once and in their order, all of *)
(* them by the end of the file but perhaps the last.                       *)
(***************************************************************************)
THEOREM HandledOnce == Spec => []ObjectsInOrder
  BY HandledInOrder, AddonInvariant, PTL

(***************************************************************************)
(* jscall is never refused, and no reply is lost or taken for another, in  *)
(* the program as a whole.                                                 *)
(***************************************************************************)
THEOREM AddonOneExchange == Spec => []OneExchange
  <1>1. IInv => OneExchange
    BY DEF IInv, Exchanges, SocketInv
  <1> QED
    BY <1>1, AddonInvariant, PTL

(***************************************************************************)
(* exit(-1) is called only when a name was read while parseFile wrote it,  *)
(* when a file is missing or not a DLIS file, or when what a thread reads  *)
(* has an object longer than its template, a template with no place left,  *)
(* a set without a type, an object without a name, a value or a channel    *)
(* with an unknown representation code, or, where the thread is, a row     *)
(* whose frame is not in its list.                                         *)
(***************************************************************************)
THEOREM ExitsOnlyForThose == Spec => []ExitsOnlyFor
  <1>1. IInv => ExitsOnlyFor
    BY DEF IInv
  <1> QED
    BY <1>1, AddonInvariant, PTL
(***************************************************************************)
(* No request waits in its pipe while more requests of others are taken    *)
(* than the square of the number of the other threads.                     *)
(***************************************************************************)
THEOREM AddonBoundedBypass == Spec => []BoundedBypass
  <1>1. IInv => BoundedBypass
    BY BypassBounded DEF IInv, Exchanges
  <1> QED
    BY <1>1, AddonInvariant, PTL

-----------------------------------------------------------------------------
(***************************************************************************)
(* Under which type an object is handled.  Between the moment a parser     *)
(* thread notes the type of a set and the moment JavaScript does, the      *)
(* message of the set is carried, waits or is with the listener: the type  *)
(* that JavaScript will note last is that of the message, or setType.      *)
(* That no other thread comes between needs one call at a time.            *)
(***************************************************************************)
IsSet(m) == m.sending_data_type = "_SET"
IsEnd(m) == m.sending_data_type = "ended"
UnderSet(m, type) == m.sending_data_type = "_OBJECT" /\ m.whole => m.set = type

\* The requests of a thread that wait or are carried, and whether the listener has one of it.
FirstOf(messages) == IF messages = <<>> THEN {} ELSE {messages[1]}
Asked(t) == FirstOf(arrived[t]) \cup FirstOf(on_the_way[t])
From(t) == Listening /\ js.from = t
Over(t) == pc[t] \in {"ending", "closed"}

\* setType when the message that the listener has of t is handled.
HeardType(t) == IF From(t) /\ IsSet(js.message) THEN js.message.type ELSE setType

\* The open call is the last one; of a call that is not open nothing is heard any more.
OneCall ==
  /\ \A c \in DOMAIN calls : Open(c) => c = Len(calls) /\ instance.onEnd = c
  /\ Arguing => Open(Len(calls))
  /\ \A t \in Peers :
       /\ ~Open(t) => Asked(t) = {} /\ ~From(t) /\ (pc[t] = "none" \/ Over(t))
       /\ \A m \in Asked(t) : IsEnd(m) => Over(t)
       /\ From(t) /\ IsEnd(js.message) => Over(t) /\ Asked(t) = {}

\* What a thread has of a type, and what JavaScript has of it or will have.
TypeKept(t) ==
  LET d == dlis[t]
  IN /\ From(t) => UnderSet(js.message, setType)
     /\ \A m \in Asked(t) : UnderSet(m, HeardType(t))
     /\ Read(t).set > 0 =>
          /\ \A m \in Asked(t) : IsSet(m) => d.parsing_set_type = m.type
          /\ (\A m \in Asked(t) : ~IsSet(m)) => d.parsing_set_type = HeardType(t)
     /\ d.parsing_obj_binn # NoObject =>
          /\ ~d.parsing_obj_binn.whole
          /\ d.templt_read_idx >= 0 => d.parsing_obj_binn.set = d.parsing_set_type
TypesKept == \A t \in Peers : Open(t) /\ Started(t) => TypeKept(t)

TypesInv == OneCall /\ TypesKept

\* A thread that does not wait for a reply has nothing on its way.
LEMMA NothingAsked ==
  ASSUME Exchanges, NEW t \in Peers, ~receiving_reply[t]
  PROVE  Asked(t) = {}
  BY NothingSent DEF Asked, FirstOf

\* A thread keeps its types where nothing of its own, of its messages and of setType moves.
LEMMA TypeStays ==
  ASSUME NEW t \in Peers, TypeKept(t), UNCHANGED <<dlis[t], setType>>, Asked(t)' = Asked(t),
         From(t)' <=> From(t), From(t) => js'.message = js.message
  PROVE  TypeKept(t)'
  <1>1. HeardType(t)' = HeardType(t)
    BY DEF HeardType
  <1>2. Read(t)' = Read(t)
    BY DEF Read
  <1> QED
    BY <1>1, <1>2 DEF TypeKept

\* A step that is none of a thread's, and leaves the calls and setType as they are.
LEMMA NobodyMoves ==
  ASSUME TypesInv, UNCHANGED <<pc, dlis, calls, setType>>, instance'.onEnd = instance.onEnd,
         Arguing' => Arguing,
         \A o \in Peers : /\ Asked(o)' = Asked(o) /\ (From(o)' <=> From(o))
                          /\ From(o) => js'.message = js.message
  PROVE  TypesInv'
  <1>1. \A c : Open(c)' <=> Open(c)
    BY DEF Open
  <1>2. \A o : (Started(o)' <=> Started(o)) /\ (Over(o)' <=> Over(o))
    BY DEF Started, Over
  <1>3. OneCall'
    <2>1. \A c \in DOMAIN calls' : Open(c)' => c = Len(calls)' /\ instance'.onEnd = c
      BY <1>1 DEF TypesInv, OneCall
    <2>2. Arguing' => Open(Len(calls))'
      BY DEF TypesInv, OneCall, Open
    <2>3. ASSUME NEW o \in Peers
          PROVE  /\ ~Open(o)' => Asked(o)' = {} /\ ~From(o)' /\ (pc'[o] = "none" \/ Over(o)')
                 /\ \A m \in Asked(o)' : IsEnd(m) => Over(o)'
                 /\ From(o)' /\ IsEnd(js'.message) => Over(o)' /\ Asked(o)' = {}
      BY <1>1, <1>2 DEF TypesInv, OneCall
    <2>4. OneCall' <=> /\ \A c \in DOMAIN calls' : Open(c)' => c = Len(calls)' /\ instance'.onEnd = c
                       /\ Arguing' => Open(Len(calls))'
                       /\ \A o \in Peers :
                            /\ ~Open(o)' => Asked(o)' = {} /\ ~From(o)' /\ (pc'[o] = "none" \/ Over(o)')
                            /\ \A m \in Asked(o)' : IsEnd(m) => Over(o)'
                            /\ From(o)' /\ IsEnd(js'.message) => Over(o)' /\ Asked(o)' = {}
      BY DEF OneCall, IsEnd
    <2> QED BY <2>1, <2>2, <2>3, <2>4
  <1>4. ASSUME NEW o \in Peers, Open(o)', Started(o)' PROVE TypeKept(o)'
    <2>1. TypeKept(o)
      BY <1>1, <1>2, <1>4 DEF TypesInv, TypesKept
    <2> QED BY <2>1, TypeStays
  <1> QED
    BY <1>3, <1>4 DEF TypesInv, TypesKept

\* A step of thread t, or its creation.
LEMMA OneMoves ==
  ASSUME TypesInv, NEW t \in Peers, UNCHANGED <<calls, setType>>, instance'.onEnd = instance.onEnd,
         Arguing' => Arguing,
         \A o \in Peers : (From(o)' <=> From(o)) /\ (From(o) => js'.message = js.message),
         \A o \in Peers : o # t => UNCHANGED <<pc[o], dlis[o]>> /\ Asked(o)' = Asked(o),
         Open(t) \/ (Over(t)' /\ Asked(t)' = {}),
         \A m \in Asked(t)' : IsEnd(m) => Over(t)',
         From(t) /\ IsEnd(js.message) => Over(t)' /\ Asked(t)' = {},
         Open(t) /\ Started(t)' => TypeKept(t)'
  PROVE  TypesInv'
  <1>1. \A c : Open(c)' <=> Open(c)
    BY DEF Open
  <1>2. \A o \in Peers : o # t => (Started(o)' <=> Started(o)) /\ (Over(o)' <=> Over(o))
    BY DEF Started, Over
  <1>3. OneCall'
    <2>1. \A c \in DOMAIN calls' : Open(c)' => c = Len(calls)' /\ instance'.onEnd = c
      BY <1>1 DEF TypesInv, OneCall
    <2>2. Arguing' => Open(Len(calls))'
      BY DEF TypesInv, OneCall, Open
    <2>3. ASSUME NEW o \in Peers
          PROVE  /\ ~Open(o)' => Asked(o)' = {} /\ ~From(o)' /\ (pc'[o] = "none" \/ Over(o)')
                 /\ \A m \in Asked(o)' : IsEnd(m) => Over(o)'
                 /\ From(o)' /\ IsEnd(js'.message) => Over(o)' /\ Asked(o)' = {}
      <3>1. CASE o = t
        BY <1>1, <3>1 DEF TypesInv, OneCall
      <3>2. CASE o # t
        BY <1>1, <1>2, <3>2 DEF TypesInv, OneCall
      <3> QED BY <3>1, <3>2
    <2>4. OneCall' <=> /\ \A c \in DOMAIN calls' : Open(c)' => c = Len(calls)' /\ instance'.onEnd = c
                       /\ Arguing' => Open(Len(calls))'
                       /\ \A o \in Peers :
                            /\ ~Open(o)' => Asked(o)' = {} /\ ~From(o)' /\ (pc'[o] = "none" \/ Over(o)')
                            /\ \A m \in Asked(o)' : IsEnd(m) => Over(o)'
                            /\ From(o)' /\ IsEnd(js'.message) => Over(o)' /\ Asked(o)' = {}
      BY DEF OneCall, IsEnd
    <2> QED BY <2>1, <2>2, <2>3, <2>4
  <1>4. ASSUME NEW o \in Peers, Open(o)', Started(o)' PROVE TypeKept(o)'
    <2>1. CASE o = t
      BY <1>1, <1>4, <2>1
    <2>2. CASE o # t
      <3>1. TypeKept(o)
        BY <1>1, <1>2, <1>4, <2>2 DEF TypesInv, TypesKept
      <3> QED BY <2>2, <3>1, TypeStays
    <2> QED BY <2>1, <2>2
  <1> QED
    BY <1>3, <1>4 DEF TypesInv, TypesKept

-----------------------------------------------------------------------------
(* The callbacks. *)

\* What every callback finds: its call is open, nothing of it waits, and setType is, or will be,
\* the type it noted.
LEMMA TypesBefore ==
  ASSUME IInv, TypesInv, NEW t \in Peers, pc[t] = "parse"
  PROVE  /\ Open(t) /\ Started(t) /\ Asked(t) = {} /\ TypeKept(t)
         /\ ~(From(t) /\ IsEnd(js.message)) /\ on_the_way[t] = <<>> /\ arrived[t] = <<>>
         /\ Read(t).set > 0 => dlis[t].parsing_set_type = HeardType(t)
  <1>1. Started(t) /\ ~Over(t) /\ pc[t] # "none"
    BY DEF Started, Over
  <1>2. Open(t) /\ ~(From(t) /\ IsEnd(js.message))
    BY <1>1 DEF TypesInv, OneCall
  <1>3. on_the_way[t] = <<>> /\ arrived[t] = <<>> /\ Asked(t) = {}
    BY NothingSent, NothingAsked DEF IInv, Exchanges
  <1>4. TypeKept(t)
    BY <1>1, <1>2 DEF TypesInv, TypesKept
  <1>5. Read(t).set > 0 => dlis[t].parsing_set_type = HeardType(t)
    BY <1>3, <1>4 DEF TypeKept
  <1> QED
    BY <1>1, <1>2, <1>3, <1>4, <1>5

\* A step of a thread leaves the calls, setType and what the listener has.
LEMMA NothingMoreHeard ==
  ASSUME ThreadFrame
  PROVE  /\ UNCHANGED <<calls, setType, instance>> /\ (Arguing' <=> Arguing)
         /\ \A o : /\ From(o)' <=> From(o)
                   /\ From(o) => js'.message = js.message
                   /\ HeardType(o)' = HeardType(o)
  <1>1. UNCHANGED <<calls, setType, instance, js>>
    BY DEF ThreadFrame, wells_vars, js_vars
  <1>2. (Arguing' <=> Arguing) /\ (Listening' <=> Listening)
    BY <1>1 DEF Arguing, Listening
  <1>3. \A o : From(o)' <=> From(o)
    BY <1>1, <1>2 DEF From
  <1>4. \A o : HeardType(o)' = HeardType(o)
    BY <1>1, <1>3 DEF HeardType
  <1> QED
    BY <1>1, <1>2, <1>3, <1>4

\* A callback: what it sends, what it notes of the type, what it holds afterwards.
LEMMA CallbackKeepsTypes ==
  ASSUME IInv, TypesInv, NEW t \in Peers, pc[t] = "parse", ThreadFrame,
         \A o \in Peers : o # t => dlis'[o] = dlis[o],
         NEW sends \in BOOLEAN, NEW m, NEW next \in {"reply", "ending"},
         IF sends THEN jscall(t, m, next) ELSE no_jscall,
         sends => UnderSet(m, HeardType(t)) /\ (IsEnd(m) => next = "ending"),
         Read(t)'.set > 0 =>
           dlis'[t].parsing_set_type = IF sends /\ IsSet(m) THEN m.type ELSE HeardType(t),
         LET d == dlis'[t]
         IN d.parsing_obj_binn # NoObject =>
              /\ ~d.parsing_obj_binn.whole
              /\ d.templt_read_idx >= 0 => d.parsing_obj_binn.set = d.parsing_set_type
  PROVE  TypesInv'
  <1>1. /\ Open(t) /\ Started(t) /\ Asked(t) = {} /\ TypeKept(t)
        /\ ~(From(t) /\ IsEnd(js.message)) /\ on_the_way[t] = <<>> /\ arrived[t] = <<>>
    BY TypesBefore
  <1>2. /\ UNCHANGED arrived /\ on_the_way'[t] = (IF sends THEN <<m>> ELSE <<>>)
        /\ (sends => pc'[t] = next)
        /\ \A o \in Peers : o # t => UNCHANGED <<pc[o], on_the_way[o]>>
    <2>1. CASE sends
      <3>1. jscall(t, m, next)
        BY <2>1
      <3>2. /\ on_the_way'[t] = <<m>> /\ pc'[t] = next /\ UNCHANGED arrived
            /\ \A o \in Peers : o # t => UNCHANGED <<pc[o], on_the_way[o]>>
        BY <1>1, <3>1, Called
      <3> QED BY <2>1, <3>2
    <2>2. CASE ~sends
      <3>1. no_jscall
        BY <2>2
      <3>2. UNCHANGED <<pc, on_the_way, arrived>>
        BY <1>1, <3>1, NotCalled
      <3> QED BY <1>1, <2>2, <3>2
    <2> QED BY <2>1, <2>2
  <1>3. Asked(t)' = IF sends THEN {m} ELSE {}
    <2>1. <<m>> # <<>> /\ <<m>>[1] = m
      <3>1. Len(<<m>>) = 1 /\ Len(<<>>) = 0 /\ <<m>>[1] = m
        OBVIOUS
      <3> QED BY <3>1
    <2>2. FirstOf(<<m>>) = {m} /\ FirstOf(<<>>) = {}
      BY <2>1 DEF FirstOf
    <2>3. Asked(t)' = FirstOf(arrived'[t]) \cup FirstOf(on_the_way'[t])
      BY DEF Asked, FirstOf
    <2>4. arrived'[t] = <<>>
      BY <1>1, <1>2
    <2> QED BY <1>2, <2>2, <2>3, <2>4
  <1>4. \A o \in Peers : o # t => UNCHANGED <<pc[o], dlis[o]>> /\ Asked(o)' = Asked(o)
    BY <1>2 DEF Asked, FirstOf
  <1>5. /\ UNCHANGED <<calls, setType, instance>> /\ (Arguing' <=> Arguing)
        /\ \A o : /\ From(o)' <=> From(o)
                  /\ From(o) => js'.message = js.message
                  /\ HeardType(o)' = HeardType(o)
    BY NothingMoreHeard
  <1>6. \A x \in Asked(t)' : IsEnd(x) => Over(t)'
    <2>1. sends /\ IsEnd(m) => pc'[t] = "ending"
      BY <1>2
    <2> QED BY <1>3, <2>1 DEF Over
  <1>7. TypeKept(t)'
    <2>1. From(t)' => UnderSet(js'.message, setType')
      <3>1. From(t) => UnderSet(js.message, setType)
        BY <1>1 DEF TypeKept
      <3> QED BY <1>5, <3>1
    <2>2. \A x \in Asked(t)' : UnderSet(x, HeardType(t)')
      BY <1>3, <1>5
    <2>3. Read(t)'.set > 0 =>
            /\ \A x \in Asked(t)' : IsSet(x) => dlis'[t].parsing_set_type = x.type
            /\ (\A x \in Asked(t)' : ~IsSet(x)) => dlis'[t].parsing_set_type = HeardType(t)'
      BY <1>3, <1>5
    <2>4. TypeKept(t)' <=>
            LET d == dlis'[t]
            IN /\ From(t)' => UnderSet(js'.message, setType')
               /\ \A x \in Asked(t)' : UnderSet(x, HeardType(t)')
               /\ Read(t)'.set > 0 =>
                    /\ \A x \in Asked(t)' : IsSet(x) => d.parsing_set_type = x.type
                    /\ (\A x \in Asked(t)' : ~IsSet(x)) => d.parsing_set_type = HeardType(t)'
               /\ d.parsing_obj_binn # NoObject =>
                    /\ ~d.parsing_obj_binn.whole
                    /\ d.templt_read_idx >= 0 => d.parsing_obj_binn.set = d.parsing_set_type
      BY DEF TypeKept, UnderSet, IsSet
    <2> QED BY <2>1, <2>2, <2>3, <2>4
  <1> QED
    BY <1>1, <1>4, <1>5, <1>6, <1>7, OneMoves

\* The place behind the item that is read.
LEMMA NextPlace ==
  ASSUME NEW t \in Peers, Reader(t), NEW kind, AtItem(t, kind), NEW b, b = Read(t),
         NEW f, f = dlis[t].file, NEW a, a = reading(f)[dlis[t].at],
         dlis'[t].at = dlis[t].at + 1, dlis'[t].file = f
  PROVE  /\ Read(t)' = a /\ a \in Place /\ b \in Place /\ Due(f, Item(t), b, a) /\ f \in DOMAIN Files
         /\ Item(t).kind = kind
  <1>1. /\ a \in Place /\ b \in Place /\ Due(f, Item(t), b, a) /\ f \in DOMAIN Files
        /\ dlis[t].at \in 1 .. Len(Items[f]) /\ Len(Items[f]) \in Nat /\ Item(t).kind = kind
    BY NextItem
  <1>2. dlis'[t].at - 1 = dlis[t].at
    BY <1>1
  <1> QED
    BY <1>1, <1>2 DEF Read

\* A SET is noted by the thread and sent to JavaScript with the same type.
LEMMA SetKeepsTypes ==
  ASSUME IInv, TypesInv, NEW t \in Peers, on_eflr_component_set(t), ThreadFrame
  PROVE  TypesInv'
  <1>1. PICK type : type = Item(t).type
    OBVIOUS
  <1>2. PICK m : m = set_message(type)
    OBVIOUS
  <1>3. AtItem(t, "SET") /\ jscall(t, m, "reply") /\ pc[t] = "parse"
    BY <1>1, <1>2 DEF on_eflr_component_set, AtItem
  <1>4. TypeKept(t)
    BY <1>3, TypesBefore
  <1>5. /\ dlis'[t].templt_read_idx = -1 /\ dlis'[t].parsing_set_type = type
        /\ dlis'[t].parsing_obj_binn = dlis[t].parsing_obj_binn
        /\ \A o \in Peers : o # t => dlis'[o] = dlis[o]
    <2>1. DOMAIN dlis[t] = DOMAIN dlis_init /\ DOMAIN dlis = Peers
      BY DEF IInv, Threads, ThreadInv, Kept
    <2>2. dlis'[t] = [dlis[t] EXCEPT !.at = @ + 1, !.templt = <<>>, !.templt_read_idx = -1,
                                     !.parsing_set_type = type]
      BY <1>1, <2>1 DEF on_eflr_component_set
    <2>3. \A o \in Peers : o # t => dlis'[o] = dlis[o]
      BY <2>1 DEF on_eflr_component_set
    <2> QED BY <2>1, <2>2, <2>3 DEF dlis_init
  <1>6. IsSet(m) /\ m.type = type /\ ~IsEnd(m) /\ UnderSet(m, HeardType(t))
    BY <1>2 DEF IsSet, IsEnd, UnderSet, set_message
  <1>7. LET d == dlis'[t]
        IN d.parsing_obj_binn # NoObject =>
             /\ ~d.parsing_obj_binn.whole
             /\ d.templt_read_idx >= 0 => d.parsing_obj_binn.set = d.parsing_set_type
    BY <1>4, <1>5 DEF TypeKept
  <1>8. PICK sends \in BOOLEAN : sends = TRUE
    OBVIOUS
  <1>9. PICK next \in {"reply", "ending"} : next = "reply"
    OBVIOUS
  <1>10. IF sends THEN jscall(t, m, next) ELSE no_jscall
    BY <1>3, <1>8, <1>9
  <1>11. sends => UnderSet(m, HeardType(t)) /\ (IsEnd(m) => next = "ending")
    BY <1>6
  <1>12. Read(t)'.set > 0 =>
           dlis'[t].parsing_set_type = IF sends /\ IsSet(m) THEN m.type ELSE HeardType(t)
    BY <1>5, <1>6, <1>8
  <1> QED
    BY <1>3, <1>5, <1>7, <1>10, <1>11, <1>12, CallbackKeepsTypes

\* Only a SET changes the set that a thread reads; at an object it is in one.
LEMMA SetStays ==
  ASSUME NEW t \in Peers, Reader(t), NEW kind, kind # "SET", AtItem(t, kind), ReadsOn(t)
  PROVE  Read(t)'.set = Read(t).set
  <1>1. PICK f : f = dlis[t].file
    OBVIOUS
  <1>2. PICK b, a : b = Read(t) /\ a = reading(f)[dlis[t].at]
    OBVIOUS
  <1>3. dlis'[t].at = dlis[t].at + 1 /\ dlis'[t].file = f
    BY <1>1 DEF ReadsOn
  <1>4. /\ Read(t)' = a /\ b \in Place /\ Due(f, Item(t), b, a)
        /\ Item(t).kind = kind
    BY <1>1, <1>2, <1>3, NextPlace
  <1>5. DOMAIN b = {"set", "labels", "attribute", "values", "objects"}
    BY <1>4 DEF Place
  <1>6. a.set = b.set
    <2>1. CASE LabelDue(f, Item(t), b, a)
      BY <1>5, <2>1 DEF LabelDue
    <2>2. CASE ObjectDue(f, Item(t), b, a)
      BY <1>5, <2>2 DEF ObjectDue
    <2>3. CASE AttributeDue(f, Item(t), b, a)
      BY <1>5, <2>3 DEF AttributeDue
    <2>4. CASE ValueDue(f, Item(t), b, a)
      BY <1>5, <2>4 DEF ValueDue
    <2> QED BY <1>4, <2>1, <2>2, <2>3, <2>4 DEF Due, SetDue, RowDue
  <1> QED
    BY <1>2, <1>4, <1>6

\* A place within a template or an object is within a set.
LEMMA InASet ==
  ASSUME NEW t \in Peers, Reader(t), Read(t).attribute >= 0
  PROVE  Read(t).set > 0
  <1>1. PICK f, b : f = dlis[t].file /\ b = Read(t)
    OBVIOUS
  <1>2. f \in DOMAIN Files /\ b.set \in DOMAIN Files[f]
    BY <1>1 DEF Reader, AllLabels
  <1>3. IsSequence(Files[f])
    BY <1>2, ContentsAssumption
  <1>4. DOMAIN Files[f] = 1 .. Len(Files[f]) /\ Len(Files[f]) \in Nat
    BY <1>3, SequenceOfElements
  <1> QED
    BY <1>1, <1>2, <1>4

\* A label of the template is kept and nothing is sent.
LEMMA LabelKeepsTypes ==
  ASSUME IInv, TypesInv, NEW t \in Peers, on_template_attrib(t), ThreadFrame
  PROVE  TypesInv'
  <1>1. AtItem(t, "ATTRIB") /\ no_jscall /\ pc[t] = "parse"
    BY DEF on_template_attrib, AtItem
  <1>2. /\ TypeKept(t) /\ Started(t)
        /\ Read(t).set > 0 => dlis[t].parsing_set_type = HeardType(t)
    BY <1>1, TypesBefore
  <1>3. Reader(t)
    BY <1>1, CallbackBefore
  <1>4. /\ dlis'[t].templt_read_idx = dlis[t].templt_read_idx
        /\ dlis'[t].parsing_set_type = dlis[t].parsing_set_type
        /\ dlis'[t].parsing_obj_binn = dlis[t].parsing_obj_binn
        /\ ReadsOn(t)
    <2>1. DOMAIN dlis[t] = DOMAIN dlis_init /\ DOMAIN dlis = Peers
      BY DEF IInv, Threads, ThreadInv, Kept
    <2>2. dlis'[t] = [dlis[t] EXCEPT !.at = @ + 1, !.templt = Append(@, Item(t).label)]
      BY <2>1 DEF on_template_attrib
    <2>3. DOMAIN dlis' = Peers /\ \A o \in Peers : o # t => dlis'[o] = dlis[o]
      BY <2>1 DEF on_template_attrib
    <2> QED BY <2>1, <2>2, <2>3 DEF dlis_init, ReadsOn
  <1>5. Read(t)'.set = Read(t).set
    BY <1>1, <1>3, <1>4, SetStays
  <1>6. LET d == dlis'[t]
        IN d.parsing_obj_binn # NoObject =>
             /\ ~d.parsing_obj_binn.whole
             /\ d.templt_read_idx >= 0 => d.parsing_obj_binn.set = d.parsing_set_type
    BY <1>2, <1>4 DEF TypeKept
  <1>7. PICK sends \in BOOLEAN : sends = FALSE
    OBVIOUS
  <1>8. PICK next \in {"reply", "ending"} : next = "reply"
    OBVIOUS
  <1>9. PICK m : m = NoMessage
    OBVIOUS
  <1>10. IF sends THEN jscall(t, m, next) ELSE no_jscall
    BY <1>1, <1>7
  <1>11. sends => UnderSet(m, HeardType(t)) /\ (IsEnd(m) => next = "ending")
    BY <1>7
  <1>12. Read(t)'.set > 0 =>
           dlis'[t].parsing_set_type = IF sends /\ IsSet(m) THEN m.type ELSE HeardType(t)
    BY <1>2, <1>4, <1>5, <1>7
  <1>13. \A o \in Peers : o # t => dlis'[o] = dlis[o]
    BY <1>4 DEF ReadsOn
  <1> QED
    BY <1>1, <1>6, <1>10, <1>11, <1>12, <1>13, CallbackKeepsTypes

\* A row sends nothing.
LEMMA RowKeepsTypes ==
  ASSUME IInv, TypesInv, NEW t \in Peers, on_iflr_header(t), ThreadFrame
  PROVE  TypesInv'
  <1>1. AtItem(t, "ROW") /\ no_jscall /\ pc[t] = "parse"
    BY DEF on_iflr_header, AtItem
  <1>2. /\ TypeKept(t) /\ Started(t)
        /\ Read(t).set > 0 => dlis[t].parsing_set_type = HeardType(t)
    BY <1>1, TypesBefore
  <1>3. Reader(t)
    BY <1>1, CallbackBefore
  <1>4. /\ dlis'[t].templt_read_idx = dlis[t].templt_read_idx
        /\ dlis'[t].parsing_set_type = dlis[t].parsing_set_type
        /\ dlis'[t].parsing_obj_binn = dlis[t].parsing_obj_binn
        /\ ReadsOn(t)
    <2>1. DOMAIN dlis[t] = DOMAIN dlis_init /\ DOMAIN dlis = Peers
      BY DEF IInv, Threads, ThreadInv, Kept
    <2>2. PICK i : dlis' = [dlis EXCEPT ![t].at = @ + 1, ![t].current_frame = i]
      BY DEF on_iflr_header
    <2>3. dlis'[t] = [dlis[t] EXCEPT !.at = @ + 1, !.current_frame = i]
      BY <2>1, <2>2
    <2>4. DOMAIN dlis' = Peers /\ \A o \in Peers : o # t => dlis'[o] = dlis[o]
      BY <2>1, <2>2
    <2> QED BY <2>1, <2>3, <2>4 DEF dlis_init, ReadsOn
  <1>5. Read(t)'.set = Read(t).set
    BY <1>1, <1>3, <1>4, SetStays
  <1>6. LET d == dlis'[t]
        IN d.parsing_obj_binn # NoObject =>
             /\ ~d.parsing_obj_binn.whole
             /\ d.templt_read_idx >= 0 => d.parsing_obj_binn.set = d.parsing_set_type
    BY <1>2, <1>4 DEF TypeKept
  <1>7. PICK sends \in BOOLEAN : sends = FALSE
    OBVIOUS
  <1>8. PICK next \in {"reply", "ending"} : next = "reply"
    OBVIOUS
  <1>9. PICK m : m = NoMessage
    OBVIOUS
  <1>10. IF sends THEN jscall(t, m, next) ELSE no_jscall
    BY <1>1, <1>7
  <1>11. sends => UnderSet(m, HeardType(t)) /\ (IsEnd(m) => next = "ending")
    BY <1>7
  <1>12. Read(t)'.set > 0 =>
           dlis'[t].parsing_set_type = IF sends /\ IsSet(m) THEN m.type ELSE HeardType(t)
    BY <1>2, <1>4, <1>5, <1>7
  <1>13. \A o \in Peers : o # t => dlis'[o] = dlis[o]
    BY <1>4 DEF ReadsOn
  <1> QED
    BY <1>1, <1>6, <1>10, <1>11, <1>12, <1>13, CallbackKeepsTypes

\* An object that is sent before its last attribute was read is not whole.
LEMMA ObjectKeepsTypes ==
  ASSUME IInv, TypesInv, NEW t \in Peers, on_eflr_component_object(t), ThreadFrame
  PROVE  TypesInv'
  <1>1. PICK d : d = dlis[t]
    OBVIOUS
  <1>2. PICK held : held = d.parsing_obj_binn
    OBVIOUS
  <1>3. PICK object : object = new_object(d, Item(t).name)
    OBVIOUS
  <1>4. PICK sends \in BOOLEAN : sends <=> held # NoObject
    OBVIOUS
  <1>5. /\ AtItem(t, "OBJECT") /\ pc[t] = "parse"
        /\ IF sends THEN jscall(t, held, "reply") ELSE no_jscall
    BY <1>1, <1>2, <1>4 DEF on_eflr_component_object, AtItem, unsent
  <1>6. /\ TypeKept(t) /\ Started(t)
        /\ Read(t).set > 0 => d.parsing_set_type = HeardType(t)
    BY <1>1, <1>5, TypesBefore
  <1>7. Reader(t)
    BY <1>5, CallbackBefore
  <1>8. /\ dlis'[t].parsing_set_type = d.parsing_set_type
        /\ dlis'[t].parsing_obj_binn = object
        /\ ReadsOn(t)
    BY <1>1, <1>3, ObjectRead DEF ReadsOn
  <1>9. Read(t)'.set = Read(t).set
    BY <1>5, <1>7, <1>8, SetStays
  <1>10. ~object.whole /\ object.set = d.parsing_set_type
    BY <1>3 DEF new_object
  <1>11. LET e == dlis'[t]
         IN e.parsing_obj_binn # NoObject =>
              /\ ~e.parsing_obj_binn.whole
              /\ e.templt_read_idx >= 0 => e.parsing_obj_binn.set = e.parsing_set_type
    BY <1>8, <1>10
  <1>12. sends => ~held.whole /\ IsObject(held)
    BY <1>1, <1>2, <1>4, <1>6, <1>7 DEF TypeKept, Reader
  <1>13. sends => UnderSet(held, HeardType(t)) /\ ~IsEnd(held) /\ ~IsSet(held)
    BY <1>12 DEF UnderSet, IsEnd, IsSet, IsObject
  <1>14. PICK next \in {"reply", "ending"} : next = "reply"
    OBVIOUS
  <1>15. IF sends THEN jscall(t, held, next) ELSE no_jscall
    BY <1>5, <1>14
  <1>16. sends => UnderSet(held, HeardType(t)) /\ (IsEnd(held) => next = "ending")
    BY <1>13
  <1>17. Read(t)'.set > 0 =>
           dlis'[t].parsing_set_type = IF sends /\ IsSet(held) THEN held.type ELSE HeardType(t)
    BY <1>6, <1>8, <1>9, <1>13
  <1>18. \A o \in Peers : o # t => dlis'[o] = dlis[o]
    BY <1>8 DEF ReadsOn
  <1> QED
    BY <1>5, <1>11, <1>15, <1>16, <1>17, <1>18, CallbackKeepsTypes

\* An object that is sent whole is of the set that is read, and so of the type heard last.
LEMMA WholeUnderSet ==
  ASSUME NEW t \in Peers, Reader(t), TypeKept(t), dlis[t].templt_read_idx >= 0,
         Read(t).set > 0 => dlis[t].parsing_set_type = HeardType(t),
         NEW held, held = dlis[t].parsing_obj_binn, held # NoObject,
         NEW label, NEW values
  PROVE  /\ ~held.whole /\ held.set = dlis[t].parsing_set_type
         /\ UnderSet(whole(held), HeardType(t)) /\ ~IsEnd(whole(held)) /\ ~IsSet(whole(held))
         /\ LET object == with_attribute(held, label, values)
            IN /\ ~object.whole /\ object.set = dlis[t].parsing_set_type
               /\ UnderSet(whole(object), HeardType(t))
               /\ ~IsEnd(whole(object)) /\ ~IsSet(whole(object))
  <1>1. IsObject(held) /\ ~held.whole /\ held.set = dlis[t].parsing_set_type
    BY DEF Reader, TypeKept
  <1>2. Read(t).set > 0
    BY InASet DEF Reader
  <1>3. held.set = HeardType(t)
    BY <1>1, <1>2
  <1>4. ASSUME NEW object, IsObject(object), object.set = HeardType(t)
        PROVE  UnderSet(whole(object), HeardType(t)) /\ ~IsEnd(whole(object)) /\ ~IsSet(whole(object))
    <2>1. object # NoObject
      BY <1>4 DEF IsObject, NoObject
    <2>2. whole(object) = [object EXCEPT !.whole = TRUE]
      BY <2>1 DEF whole
    <2>3. whole(object).set = HeardType(t) /\ whole(object).sending_data_type = "_OBJECT"
      BY <1>4, <2>2 DEF IsObject
    <2> QED BY <2>3 DEF UnderSet, IsEnd, IsSet
  <1>5. PICK object : object = with_attribute(held, label, values)
    OBVIOUS
  <1>6. IsObject(object) /\ object.set = held.set /\ object.whole = held.whole
    <2>1. PICK x : object = [held EXCEPT !.attributes = x]
      BY <1>5 DEF with_attribute
    <2> QED BY <1>1, <2>1 DEF IsObject
  <1>7. UnderSet(whole(held), HeardType(t)) /\ ~IsEnd(whole(held)) /\ ~IsSet(whole(held))
    BY <1>1, <1>3, <1>4
  <1>8. UnderSet(whole(object), HeardType(t)) /\ ~IsEnd(whole(object)) /\ ~IsSet(whole(object))
    BY <1>3, <1>4, <1>6
  <1>9. ~object.whole /\ object.set = dlis[t].parsing_set_type
    BY <1>1, <1>6
  <1> QED
    BY <1>1, <1>5, <1>7, <1>8, <1>9

\* An attribute without values: the object is sent when it is the last one.
LEMMA AttributeKeepsTypes ==
  ASSUME IInv, TypesInv, NEW t \in Peers, on_eflr_component_attrib(t), ThreadFrame
  PROVE  TypesInv'
  <1>1. PICK d : d = dlis[t]
    OBVIOUS
  <1>2. PICK held : held = d.parsing_obj_binn
    OBVIOUS
  <1>3. PICK idx : idx = d.templt_read_idx + 1
    OBVIOUS
  <1>4. PICK sends \in BOOLEAN : sends <=> Item(t).count = 0 /\ is_last_attr(d, idx)
    OBVIOUS
  <1>5. PICK m : m = whole(held)
    OBVIOUS
  <1>6. /\ AtItem(t, "ATTRIB") /\ pc[t] = "parse"
        /\ 0 <= d.templt_read_idx /\ d.templt_read_idx < Len(d.templt)
        /\ IF sends THEN jscall(t, m, "reply") ELSE no_jscall
    BY <1>1, <1>2, <1>3, <1>4, <1>5 DEF on_eflr_component_attrib, AtItem
  <1>7. /\ TypeKept(t) /\ Started(t)
        /\ Read(t).set > 0 => dlis[t].parsing_set_type = HeardType(t)
    BY <1>6, TypesBefore
  <1>8. Reader(t)
    BY <1>6, CallbackBefore
  <1>9. held # NoObject
    BY <1>1, <1>2, <1>6, <1>8 DEF Reader
  <1>10. /\ ~held.whole /\ held.set = d.parsing_set_type
         /\ UnderSet(m, HeardType(t)) /\ ~IsEnd(m) /\ ~IsSet(m)
    <2>1. dlis[t].templt_read_idx >= 0
      BY <1>1, <1>6
    <2> QED BY <1>1, <1>2, <1>5, <1>7, <1>8, <1>9, <2>1, WholeUnderSet
  <1>11. /\ dlis'[t].parsing_set_type = d.parsing_set_type
         /\ dlis'[t].parsing_obj_binn = (IF sends THEN NoObject ELSE held)
         /\ ReadsOn(t)
    <2>1. DOMAIN dlis[t] = DOMAIN dlis_init /\ DOMAIN dlis = Peers
      BY DEF IInv, Threads, ThreadInv, Kept
    <2>2. PICK label, count :
            dlis'[t] = [dlis[t] EXCEPT
               !.at = @ + 1, !.templt_read_idx = idx, !.attrib_label = label,
               !.attrib_value_cnt = count,
               !.parsing_obj_binn = IF sends THEN NoObject ELSE @]
      BY <1>1, <1>3, <1>4, <2>1 DEF on_eflr_component_attrib
    <2>3. DOMAIN dlis' = Peers /\ \A o \in Peers : o # t => dlis'[o] = dlis[o]
      BY <2>1 DEF on_eflr_component_attrib
    <2> QED BY <1>1, <1>2, <2>1, <2>2, <2>3 DEF dlis_init, ReadsOn
  <1>12. Read(t)'.set = Read(t).set
    BY <1>6, <1>8, <1>11, SetStays
  <1>13. LET e == dlis'[t]
         IN e.parsing_obj_binn # NoObject =>
              /\ ~e.parsing_obj_binn.whole
              /\ e.templt_read_idx >= 0 => e.parsing_obj_binn.set = e.parsing_set_type
    BY <1>10, <1>11
  <1>14. PICK next \in {"reply", "ending"} : next = "reply"
    OBVIOUS
  <1>15. IF sends THEN jscall(t, m, next) ELSE no_jscall
    BY <1>6, <1>14
  <1>16. sends => UnderSet(m, HeardType(t)) /\ (IsEnd(m) => next = "ending")
    BY <1>10
  <1>17. Read(t)'.set > 0 =>
           dlis'[t].parsing_set_type = IF sends /\ IsSet(m) THEN m.type ELSE HeardType(t)
    BY <1>1, <1>7, <1>10, <1>11, <1>12
  <1>18. \A o \in Peers : o # t => dlis'[o] = dlis[o]
    BY <1>11 DEF ReadsOn
  <1> QED
    BY <1>6, <1>13, <1>15, <1>16, <1>17, <1>18, CallbackKeepsTypes

\* A value: the object is sent when it is the last one of the last attribute.
LEMMA ValueKeepsTypes ==
  ASSUME IInv, TypesInv, NEW t \in Peers, on_eflr_component_attrib_value(t), ThreadFrame
  PROVE  TypesInv'
  <1>1. PICK d : d = dlis[t]
    OBVIOUS
  <1>2. PICK held : held = d.parsing_obj_binn
    OBVIOUS
  <1>3. PICK left : left = d.attrib_value_cnt - 1
    OBVIOUS
  <1>4. PICK sends \in BOOLEAN : sends <=> left <= 0 /\ is_last_attr(d, d.templt_read_idx)
    OBVIOUS
  <1>5. PICK values : values = Append(d.parsing_obj_values, Item(t).value)
    OBVIOUS
  <1>6. PICK object : object = with_attribute(held, d.attrib_label, values)
    OBVIOUS
  <1>7. PICK m : m = whole(object)
    OBVIOUS
  <1>8. /\ AtItem(t, "VALUE") /\ pc[t] = "parse"
        /\ IF sends THEN jscall(t, m, "reply") ELSE no_jscall
    BY <1>1, <1>2, <1>3, <1>4, <1>5, <1>6, <1>7 DEF on_eflr_component_attrib_value, AtItem
  <1>9. /\ TypeKept(t) /\ Started(t)
        /\ Read(t).set > 0 => dlis[t].parsing_set_type = HeardType(t)
    BY <1>8, TypesBefore
  <1>10. Reader(t)
    BY <1>8, CallbackBefore
  <1>11. /\ dlis'[t].parsing_set_type = d.parsing_set_type
         /\ dlis'[t].parsing_obj_binn = (IF sends THEN NoObject ELSE IF left <= 0 THEN object ELSE held)
         /\ ReadsOn(t)
    <2>1. object = with_attribute(held, d.attrib_label,
                                  Append(d.parsing_obj_values, Item(t).value))
      BY <1>5, <1>6
    <2>2. /\ dlis'[t].at = d.at + 1 /\ dlis'[t].parsing_set_type = d.parsing_set_type
          /\ dlis'[t].file = d.file /\ dlis'[t].out_dir = d.out_dir
          /\ dlis'[t].parsing_obj_binn = IF sends THEN NoObject ELSE IF left <= 0 THEN object ELSE held
          /\ DOMAIN dlis'[t] = DOMAIN dlis_init
          /\ DOMAIN dlis' = Peers /\ \A o \in Peers : o # t => dlis'[o] = dlis[o]
      BY <1>1, <1>2, <1>3, <1>4, <2>1, ValueRead
    <2> QED BY <1>1, <2>2 DEF ReadsOn
  <1>12. d.templt_read_idx >= 0 /\ held # NoObject
    <2>1. PICK f, b, a : f = dlis[t].file /\ b = Read(t) /\ a = reading(f)[dlis[t].at]
      OBVIOUS
    <2>2. Due(f, Item(t), b, a) /\ Item(t).kind = "VALUE" /\ b \in Place
      BY <1>8, <1>10, <2>1, NextItem
    <2>3. b.values > 0 /\ b.attribute > 0
      BY <2>2 DEF Due, SetDue, LabelDue, ObjectDue, AttributeDue, ValueDue, RowDue
    <2>4. b.attribute >= 0
      BY <2>2, <2>3 DEF Place
    <2> QED BY <1>1, <1>2, <1>10, <2>1, <2>3, <2>4 DEF Reader
  <1>13. /\ ~held.whole /\ held.set = d.parsing_set_type
         /\ ~object.whole /\ object.set = d.parsing_set_type
         /\ UnderSet(m, HeardType(t)) /\ ~IsEnd(m) /\ ~IsSet(m)
    <2>1. dlis[t].templt_read_idx >= 0
      BY <1>1, <1>12
    <2> QED BY <1>1, <1>2, <1>6, <1>7, <1>9, <1>10, <1>12, <2>1, WholeUnderSet
  <1>14. Read(t)'.set = Read(t).set
    BY <1>8, <1>10, <1>11, SetStays
  <1>15. LET e == dlis'[t]
         IN e.parsing_obj_binn # NoObject =>
              /\ ~e.parsing_obj_binn.whole
              /\ e.templt_read_idx >= 0 => e.parsing_obj_binn.set = e.parsing_set_type
    BY <1>11, <1>13
  <1>16. PICK next \in {"reply", "ending"} : next = "reply"
    OBVIOUS
  <1>17. IF sends THEN jscall(t, m, next) ELSE no_jscall
    BY <1>8, <1>16
  <1>18. sends => UnderSet(m, HeardType(t)) /\ (IsEnd(m) => next = "ending")
    BY <1>13
  <1>19. Read(t)'.set > 0 =>
           dlis'[t].parsing_set_type = IF sends /\ IsSet(m) THEN m.type ELSE HeardType(t)
    BY <1>1, <1>9, <1>11, <1>13, <1>14
  <1>20. \A o \in Peers : o # t => dlis'[o] = dlis[o]
    BY <1>11 DEF ReadsOn
  <1> QED
    BY <1>8, <1>15, <1>17, <1>18, <1>19, <1>20, CallbackKeepsTypes

\* The end of the file: "ended" is the last message, and what is held stays there.
LEMMA EndKeepsTypes ==
  ASSUME IInv, TypesInv, NEW t \in Peers, finish_file(t), ThreadFrame
  PROVE  TypesInv'
  <1>1. PICK m : m = ended_message(reported_frames(dlis[t]))
    OBVIOUS
  <1>2. pc[t] = "parse" /\ jscall(t, m, "ending") /\ UNCHANGED dlis
    BY <1>1 DEF finish_file
  <1>3. /\ TypeKept(t)
        /\ Read(t).set > 0 => dlis[t].parsing_set_type = HeardType(t)
    BY <1>2, TypesBefore
  <1>4. IsEnd(m) /\ ~IsSet(m) /\ UnderSet(m, HeardType(t))
    BY <1>1 DEF IsEnd, IsSet, UnderSet, ended_message
  <1>5. Read(t)' = Read(t)
    BY <1>2 DEF Read
  <1>6. PICK sends \in BOOLEAN : sends = TRUE
    OBVIOUS
  <1>7. PICK next \in {"reply", "ending"} : next = "ending"
    OBVIOUS
  <1>8. IF sends THEN jscall(t, m, next) ELSE no_jscall
    BY <1>2, <1>6, <1>7
  <1>9. sends => UnderSet(m, HeardType(t)) /\ (IsEnd(m) => next = "ending")
    BY <1>4, <1>7
  <1>10. Read(t)'.set > 0 =>
           dlis'[t].parsing_set_type = IF sends /\ IsSet(m) THEN m.type ELSE HeardType(t)
    BY <1>2, <1>3, <1>4, <1>5
  <1>11. LET e == dlis'[t]
         IN e.parsing_obj_binn # NoObject =>
              /\ ~e.parsing_obj_binn.whole
              /\ e.templt_read_idx >= 0 => e.parsing_obj_binn.set = e.parsing_set_type
    BY <1>2, <1>3 DEF TypeKept
  <1>12. \A o \in Peers : o # t => dlis'[o] = dlis[o]
    BY <1>2
  <1> QED
    BY <1>2, <1>8, <1>9, <1>10, <1>11, <1>12, CallbackKeepsTypes

\* A reply taken: the thread reads on with the type it has.
LEMMA AnswerKeepsTypes ==
  ASSUME IInv, TypesInv, NEW t \in Peers, on_reply(t), ThreadFrame
  PROVE  TypesInv'
  <1>1. pc[t] \in {"reply", "ending"} /\ req_recv(t) /\ UNCHANGED dlis
    BY DEF on_reply
  <1>2. pc'[t] = (IF pc[t] = "reply" THEN "parse" ELSE "closed")
        /\ \A o \in Peers : o # t => pc'[o] = pc[o]
    BY DEF on_reply, IInv, Threads, Threads_at
  <1>3. \A o \in Peers : Asked(o)' = Asked(o)
    BY <1>1 DEF req_recv, rep_vars, Asked, FirstOf
  <1>4. /\ UNCHANGED <<calls, setType, instance>> /\ (Arguing' <=> Arguing)
        /\ \A o : (From(o)' <=> From(o)) /\ (From(o) => js'.message = js.message)
    BY NothingMoreHeard
  <1>5. Over(t) => Over(t)'
    BY <1>1, <1>2 DEF Over
  <1>6. Open(t) \/ (Over(t)' /\ Asked(t)' = {})
    BY <1>1, <1>3, <1>5 DEF TypesInv, OneCall
  <1>7. \A m \in Asked(t)' : IsEnd(m) => Over(t)'
    BY <1>3, <1>5 DEF TypesInv, OneCall
  <1>8. From(t) /\ IsEnd(js.message) => Over(t)' /\ Asked(t)' = {}
    BY <1>3, <1>5 DEF TypesInv, OneCall
  <1>9. Open(t) => TypeKept(t)'
    <2> SUFFICES ASSUME Open(t) PROVE TypeKept(t)'
      OBVIOUS
    <2>1. TypeKept(t)
      BY <1>1 DEF Started, TypesInv, TypesKept
    <2>2. UNCHANGED <<dlis[t], setType>>
      BY <1>1, <1>4
    <2> QED BY <1>3, <1>4, <2>1, <2>2, TypeStays
  <1>10. \A o \in Peers : o # t => UNCHANGED <<pc[o], dlis[o]>> /\ Asked(o)' = Asked(o)
    BY <1>1, <1>2, <1>3
  <1> QED
    BY <1>4, <1>6, <1>7, <1>8, <1>9, <1>10, OneMoves

\* Any step of a parser thread.
LEMMA ThreadKeepsTypes ==
  ASSUME IInv, TypesInv, NEW t \in Peers, thread_step(t) PROVE TypesInv'
  <1>1. ThreadStep(t) /\ ThreadFrame
    BY DEF thread_step, ThreadFrame, Running
  <1>2. CASE AnExit(t)
    <2>1. exits
      BY <1>2 DEF AnExit, on_set_without_type, on_full_template, on_object_without_name,
                  on_index_out_of_bound, on_wrong_repcode, on_frame_missing, on_wrong_channel
    <2>2. UNCHANGED <<pc, dlis>> /\ \A o \in Peers : Asked(o)' = Asked(o)
      BY <2>1 DEF exits, no_jscall, socket_vars, req_vars, rep_vars, Asked, FirstOf
    <2>3. /\ UNCHANGED <<calls, setType, instance>> /\ (Arguing' <=> Arguing)
          /\ \A o : (From(o)' <=> From(o)) /\ (From(o) => js'.message = js.message)
      BY <1>1, NothingMoreHeard
    <2> QED BY <2>2, <2>3, NobodyMoves
  <1>3. CASE ~AnExit(t)
    BY <1>1, <1>3, SetKeepsTypes, LabelKeepsTypes, ObjectKeepsTypes, AttributeKeepsTypes,
       ValueKeepsTypes, RowKeepsTypes, EndKeepsTypes, AnswerKeepsTypes DEF ThreadStep, AnExit
  <1> QED
    BY <1>2, <1>3

-----------------------------------------------------------------------------
(* The I/O thread and the event loop. *)

\* A request arrives in the pipe: it is still asked.
LEMMA IoKeepsTypes ==
  ASSUME IInv, TypesInv, NEW t \in Peers, io_step(t)
  PROVE  TypesInv'
  <1>1. UNCHANGED <<pc, dlis, calls, setType, instance, js>>
    BY DEF io_step, thread_vars, wells_vars, js_vars
  <1>2. \A o \in Peers : Asked(o)' = Asked(o)
    <2>1. CASE attach(t)
      BY <2>1 DEF attach, req_vars, Asked, FirstOf
    <2>2. CASE pipe_terminated(t)
      BY <2>2 DEF pipe_terminated, req_vars, Asked, FirstOf
    <2>3. CASE Arrive(t)
      <3>1. PICK M : SocketInv(M)
        BY DEF IInv, Exchanges
      <3>2. on_the_way \in [Peers -> Seq(M)] /\ arrived \in [Peers -> Seq(M)]
        BY <3>1 DEF SocketInv, Counters
      <3>3. on_the_way[t] # <<>> /\ Len(on_the_way[t]) = 1 /\ arrived[t] = <<>>
        <4>1. on_the_way[t] # <<>>
          BY <2>3 DEF Arrive
        <4>2. /\ arrived[t] = <<>> <=> Len(arrived[t]) = 0
              /\ on_the_way[t] = <<>> <=> Len(on_the_way[t]) = 0
              /\ InOnePlace(t)
          BY <3>1, NoExchange
        <4> QED BY <4>1, <4>2 DEF InOnePlace, Places
      <3>4. PICK q \in Seq(M) : q = on_the_way[t]
        BY <3>2
      <3>5. PICK m : m = Head(q)
        OBVIOUS
      <3>6. /\ arrived'[t] = Append(arrived[t], m) /\ on_the_way'[t] = Tail(q)
            /\ \A o \in Peers : o # t => UNCHANGED <<arrived[o], on_the_way[o]>>
        BY <2>3, <3>2, <3>4, <3>5 DEF Arrive
      <3>7. Tail(q) = <<>> /\ m = q[1]
        <4>1. q # <<>> /\ Len(q) = 1
          BY <3>3, <3>4
        <4>2. Tail(q) \in Seq(M) /\ Len(Tail(q)) = 0
          BY <4>1, HeadTailProperties
        <4>3. m = q[1]
          BY <3>5, <4>1
        <4> QED BY <4>2, <4>3, EmptySeq
      <3>8. Append(arrived[t], m) = <<m>> /\ <<m>> # <<>> /\ <<m>>[1] = m
        <4>1. Append(<<>>, m) = <<m>> /\ Len(<<m>>) = 1 /\ Len(<<>>) = 0 /\ <<m>>[1] = m
          OBVIOUS
        <4> QED BY <3>3, <4>1
      <3>9. FirstOf(arrived'[t]) = {m} /\ FirstOf(on_the_way'[t]) = {}
        BY <3>6, <3>7, <3>8 DEF FirstOf
      <3>10. FirstOf(arrived[t]) = {} /\ FirstOf(on_the_way[t]) = {m}
        BY <3>3, <3>4, <3>7 DEF FirstOf
      <3>11. Asked(t)' = FirstOf(arrived'[t]) \cup FirstOf(on_the_way'[t])
        BY DEF Asked, FirstOf
      <3>12. Asked(t)' = Asked(t)
        BY <3>9, <3>10, <3>11 DEF Asked
      <3>13. \A o \in Peers : o # t => Asked(o)' = Asked(o)
        BY <3>6 DEF Asked, FirstOf
      <3> QED BY <3>12, <3>13
    <2> QED BY <2>1, <2>2, <2>3 DEF io_step
  <1>3. (Arguing' <=> Arguing) /\ \A o \in Peers : From(o)' <=> From(o)
    BY <1>1 DEF Arguing, From, Listening
  <1> QED
    BY <1>1, <1>2, <1>3, NobodyMoves

\* The listener takes a request: what was asked is now heard.
LEMMA TakingKeepsTypes ==
  ASSUME IInv, TypesInv, js.at = "loop", rep_recv,
         js' = [at |-> "reply", from |-> NextPeer, message |-> Head(arrived[NextPeer])],
         UNCHANGED <<thread_vars, wells_vars, calls>>
  PROVE  TypesInv'
  <1>1. PICK M : SocketInv(M)
    BY DEF IInv, Exchanges
  <1>2. PICK p \in Peers :
           /\ p = NextPeer /\ current_out' = p
           /\ arrived[p] # <<>> /\ receiving_reply[p] /\ Places(p, 0, 1, 0, 0)
           /\ arrived' = [arrived EXCEPT ![p] = <<>>]
           /\ UNCHANGED req_vars
           /\ \A o \in Peers : Contains(pipes', o) <=> Contains(pipes, o)
    BY <1>1, TakenRequest
  <1>3. on_the_way \in [Peers -> Seq(M)] /\ arrived \in [Peers -> Seq(M)]
    BY <1>1 DEF SocketInv, Counters
  <1>4. PICK m : m = Head(arrived[p]) /\ m = arrived[p][1]
    BY <1>2, <1>3
  <1>5. js'.at = "reply" /\ js'.from = p /\ js'.message = m
    BY <1>2, <1>4
  <1>6. ~Listening /\ ~Arguing /\ Listening' /\ ~Arguing'
    BY <1>5 DEF Listening, Arguing
  <1>7. UNCHANGED <<pc, dlis, calls, setType, instance>>
    BY DEF thread_vars, wells_vars
  <1>8. Asked(p) = {m} /\ Asked(p)' = {} /\ \A o \in Peers : o # p => Asked(o)' = Asked(o)
    <2>1. on_the_way[p] = <<>>
      <3>1. on_the_way[p] = <<>> <=> Len(on_the_way[p]) = 0
        BY <1>1, NoExchange
      <3> QED BY <1>2, <3>1 DEF Places
    <2>2. UNCHANGED on_the_way
      BY <1>2 DEF req_vars
    <2>3. Asked(p) = {m}
      BY <1>2, <1>4, <2>1 DEF Asked, FirstOf
    <2>4. arrived'[p] = <<>> /\ \A o \in Peers : o # p => arrived'[o] = arrived[o]
      BY <1>2, <1>3
    <2> QED BY <2>1, <2>2, <2>3, <2>4 DEF Asked, FirstOf
  <1>9. \A o \in Peers : ~From(o) /\ (From(o)' <=> o = p)
    BY <1>5, <1>6 DEF From
  <1>10. Open(p) /\ (IsEnd(m) => Over(p))
    BY <1>8 DEF TypesInv, OneCall
  <1>11. /\ \A c : Open(c)' <=> Open(c)
         /\ \A o : (Over(o)' <=> Over(o)) /\ (Started(o)' <=> Started(o))
    BY <1>7 DEF Open, Over, Started
  <1>12. OneCall'
    <2>1. \A c \in DOMAIN calls' : Open(c)' => c = Len(calls)' /\ instance'.onEnd = c
      BY <1>7, <1>11 DEF TypesInv, OneCall
    <2>2. ASSUME NEW o \in Peers
          PROVE  /\ ~Open(o)' => Asked(o)' = {} /\ ~From(o)' /\ (pc'[o] = "none" \/ Over(o)')
                 /\ \A x \in Asked(o)' : IsEnd(x) => Over(o)'
                 /\ From(o)' /\ IsEnd(js'.message) => Over(o)' /\ Asked(o)' = {}
      <3>1. CASE o = p
        BY <1>5, <1>8, <1>10, <1>11, <3>1
      <3>2. CASE o # p
        BY <1>7, <1>8, <1>9, <1>11, <3>2 DEF TypesInv, OneCall
      <3> QED BY <3>1, <3>2
    <2>3. OneCall' <=> /\ \A c \in DOMAIN calls' : Open(c)' => c = Len(calls)' /\ instance'.onEnd = c
                       /\ Arguing' => Open(Len(calls))'
                       /\ \A o \in Peers :
                            /\ ~Open(o)' => Asked(o)' = {} /\ ~From(o)' /\ (pc'[o] = "none" \/ Over(o)')
                            /\ \A x \in Asked(o)' : IsEnd(x) => Over(o)'
                            /\ From(o)' /\ IsEnd(js'.message) => Over(o)' /\ Asked(o)' = {}
      BY DEF OneCall, IsEnd
    <2> QED BY <1>6, <2>1, <2>2, <2>3
  <1>13. ASSUME NEW o \in Peers, Open(o)', Started(o)' PROVE TypeKept(o)'
    <2>1. TypeKept(o) /\ HeardType(o) = setType
      BY <1>9, <1>11, <1>13 DEF TypesInv, TypesKept, HeardType
    <2>2. CASE o # p
      <3>1. UNCHANGED <<dlis[o], setType>> /\ Asked(o)' = Asked(o) /\ (From(o)' <=> From(o)) /\ ~From(o)
        BY <1>7, <1>8, <1>9, <2>2
      <3> QED BY <2>1, <3>1, TypeStays
    <2>3. CASE o = p
      <3>1. UnderSet(m, setType)
        BY <1>8, <2>1, <2>3 DEF TypeKept
      <3>2. HeardType(p)' = IF IsSet(m) THEN m.type ELSE setType
        <4>1. HeardType(p)' = IF From(p)' /\ IsSet(js'.message) THEN js'.message.type ELSE setType'
          BY DEF HeardType, IsSet
        <4> QED BY <1>5, <1>7, <1>9, <4>1
      <3>3. Read(p).set > 0 => dlis[p].parsing_set_type = HeardType(p)'
        BY <1>8, <2>1, <2>3, <3>2 DEF TypeKept
      <3>4. Read(p)' = Read(p) /\ dlis'[p] = dlis[p]
        BY <1>7 DEF Read
      <3>5. LET d == dlis'[p]
            IN /\ From(p)' => UnderSet(js'.message, setType')
               /\ \A x \in Asked(p)' : UnderSet(x, HeardType(p)')
               /\ Read(p)'.set > 0 =>
                    /\ \A x \in Asked(p)' : IsSet(x) => d.parsing_set_type = x.type
                    /\ (\A x \in Asked(p)' : ~IsSet(x)) => d.parsing_set_type = HeardType(p)'
               /\ d.parsing_obj_binn # NoObject =>
                    /\ ~d.parsing_obj_binn.whole
                    /\ d.templt_read_idx >= 0 => d.parsing_obj_binn.set = d.parsing_set_type
        BY <1>5, <1>7, <1>8, <2>1, <2>3, <3>1, <3>3, <3>4 DEF TypeKept
      <3>6. TypeKept(p)'
        BY <3>5 DEF TypeKept, UnderSet, IsSet
      <3> QED BY <2>3, <3>6
    <2> QED BY <2>2, <2>3
  <1> QED
    BY <1>12, <1>13 DEF TypesInv, TypesKept

\* Of what index.js does only a _SET changes setType.
LEMMA HandlingNotes ==
  ASSUME NEW m, handle(m)
  PROVE  setType' = IF IsSet(m) THEN m.type ELSE setType
  <1>1. CASE m.sending_data_type = "_SET" /\ on_set(m.type)
    BY <1>1 DEF on_set, IsSet
  <1>2. CASE m.sending_data_type = "_OBJECT" /\ on_object(trimmed(m))
    <2>1. PICK object : on_object(object)
      BY <1>2
    <2>2. UNCHANGED setType
      BY <2>1 DEF on_object, on_file_header, on_origin, on_frame, on_channel, on_tool, on_other,
                  wells_vars
    <2> QED BY <1>2, <2>2 DEF IsSet
  <1>3. CASE m.sending_data_type = "ended" /\ on_ended(m.frames)
    BY <1>3 DEF on_ended, IsSet
  <1> QED
    BY <1>1, <1>2, <1>3 DEF handle

\* The listener handles its message: HeardType becomes setType.
LEMMA HandlingKeepsTypes ==
  ASSUME IInv, TypesInv, on_message
  PROVE  TypesInv'
  <1>1. PICK m, p : m = js.message /\ p = js.from
    OBVIOUS
  <1>2. /\ js.at = "handle" /\ js' = Loop /\ handle(m)
        /\ UNCHANGED <<socket_vars, thread_vars>>
    BY <1>1 DEF on_message
  <1>3. Listening /\ ~Arguing /\ ~Listening' /\ ~Arguing'
    BY <1>2 DEF Loop, Listening, Arguing
  <1>4. p \in Peers /\ Started(p) /\ From(p) /\ \A o \in Peers : From(o) => o = p
    <2>1. js.from \in Peers /\ Started(js.from)
      BY <1>3 DEF IInv, Exchanges
    <2> QED BY <1>1, <1>3, <2>1 DEF Started, From
  <1>5. \A o \in Peers : ~From(o)'
    BY <1>3 DEF From
  <1>6. Open(p)
    BY <1>4 DEF TypesInv, OneCall
  <1>7. PICK c : c = instance.onEnd
    OBVIOUS
  <1>8. /\ calls' = IF IsEnd(m) THEN [calls EXCEPT ![c].status = "answered"] ELSE calls
        /\ c = p /\ p = Len(calls) /\ p \in DOMAIN calls /\ instance'.onEnd = c
        /\ \A o \in DOMAIN calls : Open(o) => o = p
    <2>1. calls' = IF IsEnd(m) THEN [calls EXCEPT ![c].status = "answered"] ELSE calls
      BY <1>1, <1>7 DEF on_message, IsEnd
    <2>2. instance'.onEnd = instance.onEnd
      BY <1>2, HandlingKeeps DEF IInv, Program
    <2>3. p \in DOMAIN calls /\ \A o \in DOMAIN calls : Open(o) => o = Len(calls) /\ instance.onEnd = o
      BY <1>6 DEF TypesInv, OneCall, Open
    <2> QED BY <1>6, <1>7, <2>1, <2>2, <2>3
  <1>9. \A o \in Peers : Asked(o)' = Asked(o) /\ UNCHANGED <<pc[o], dlis[o]>>
        /\ (Over(o)' <=> Over(o)) /\ (Started(o)' <=> Started(o))
    BY <1>2 DEF socket_vars, req_vars, rep_vars, thread_vars, Asked, FirstOf, Over, Started
  <1>10. setType' = HeardType(p)
    BY <1>1, <1>2, <1>4, HandlingNotes DEF HeardType
  <1>11. /\ Len(calls') = Len(calls) /\ DOMAIN calls' = DOMAIN calls
         /\ \A o : Open(o)' <=> Open(o) /\ ~IsEnd(m)
    <2>1. CASE ~IsEnd(m)
      BY <1>8, <2>1 DEF Open
    <2>2. CASE IsEnd(m)
      <3>1. PICK answered : answered = [calls[c] EXCEPT !.status = "answered"]
        OBVIOUS
      <3>2. calls' = [calls EXCEPT ![c] = answered]
        BY <1>8, <2>2, <3>1
      <3>3. calls \in Seq(Call)
        BY DEF IInv, Program
      <3>4. DOMAIN calls = 1 .. Len(calls) /\ Len(calls) \in Nat
        BY <3>3
      <3>5. DOMAIN calls' = DOMAIN calls
        BY <3>2
      <3>6. calls' \in Seq(Call \cup {answered}) /\ Len(calls') = Len(calls)
        <4> HIDE DEF Call
        <4>1. \A o \in 1 .. Len(calls) : calls'[o] \in Call \cup {answered}
          BY <3>2, <3>3, <3>4
        <4>2. DOMAIN calls' = 1 .. Len(calls) /\ calls' = [o \in 1 .. Len(calls) |-> calls'[o]]
          BY <3>2, <3>4
        <4>3. calls' \in [1 .. Len(calls) -> Call \cup {answered}]
          BY <4>1, <4>2
        <4> QED BY <3>4, <4>3
      <3>7. answered.status = "answered"
        <4>1. calls[c] \in Call
          <5> HIDE DEF Call
          <5> QED BY <1>8, <3>3
        <4> QED BY <3>1, <4>1 DEF Call
      <3>8. \A o \in DOMAIN calls : calls'[o] = IF o = c THEN answered ELSE calls[o]
        BY <3>2
      <3>9. ASSUME NEW o, Open(o)' PROVE FALSE
        <4>1. o \in DOMAIN calls' /\ calls'[o].status = "started"
          BY <3>9 DEF Open
        <4>2. o # c /\ calls[o].status = "started"
          BY <3>5, <3>7, <3>8, <4>1
        <4>3. Open(o)
          BY <3>5, <4>1, <4>2 DEF Open
        <4> QED BY <1>8, <3>5, <4>1, <4>2, <4>3
      <3> QED BY <2>2, <3>5, <3>6, <3>9
    <2> QED BY <2>1, <2>2
  <1>12. OneCall'
    <2>1. \A o \in DOMAIN calls' : Open(o)' => o = Len(calls)' /\ instance'.onEnd = o
      BY <1>8, <1>11
    <2>2. ASSUME NEW o \in Peers
          PROVE  /\ ~Open(o)' => Asked(o)' = {} /\ ~From(o)' /\ (pc'[o] = "none" \/ Over(o)')
                 /\ \A x \in Asked(o)' : IsEnd(x) => Over(o)'
                 /\ From(o)' /\ IsEnd(js'.message) => Over(o)' /\ Asked(o)' = {}
      <3>1. \A x \in Asked(o)' : IsEnd(x) => Over(o)'
        BY <1>9 DEF TypesInv, OneCall
      <3>2. CASE ~Open(o)
        BY <1>5, <1>9, <3>1, <3>2 DEF TypesInv, OneCall
      <3>3. CASE Open(o)
        <4>1. o = p
          BY <1>8, <3>3 DEF Open
        <4>2. IsEnd(m) => Over(p) /\ Asked(p) = {}
          BY <1>1, <1>4 DEF TypesInv, OneCall
        <4> QED BY <1>5, <1>9, <1>11, <3>1, <3>3, <4>1, <4>2
      <3> QED BY <3>2, <3>3
    <2>3. OneCall' <=> /\ \A o \in DOMAIN calls' : Open(o)' => o = Len(calls)' /\ instance'.onEnd = o
                       /\ Arguing' => Open(Len(calls))'
                       /\ \A o \in Peers :
                            /\ ~Open(o)' => Asked(o)' = {} /\ ~From(o)' /\ (pc'[o] = "none" \/ Over(o)')
                            /\ \A x \in Asked(o)' : IsEnd(x) => Over(o)'
                            /\ From(o)' /\ IsEnd(js'.message) => Over(o)' /\ Asked(o)' = {}
      BY DEF OneCall, IsEnd
    <2> QED BY <1>3, <2>1, <2>2, <2>3
  <1>13. ASSUME NEW o \in Peers, Open(o)', Started(o)' PROVE TypeKept(o)'
    <2>1. Open(o) /\ Started(o) /\ o = p
      BY <1>8, <1>9, <1>11, <1>13 DEF Open
    <2>2. TypeKept(p)
      BY <2>1 DEF TypesInv, TypesKept
    <2>3. HeardType(p)' = HeardType(p)
      <3>1. HeardType(p)' = setType'
        BY <1>4, <1>5 DEF HeardType
      <3> QED BY <1>10, <3>1
    <2>4. Read(p)' = Read(p) /\ dlis'[p] = dlis[p] /\ Asked(p)' = Asked(p) /\ ~From(p)'
      BY <1>4, <1>5, <1>9 DEF Read
    <2> QED BY <2>1, <2>2, <2>3, <2>4 DEF TypeKept
  <1> QED
    BY <1>12, <1>13 DEF TypesInv, TypesKept

-----------------------------------------------------------------------------
(* The steps of a call, and of a thread before it reads its file. *)

\* A call that comes when no other is open.
LEMMA CallKeepsTypes ==
  ASSUME IInv, TypesInv, NEW c, begin_call(c), ~overlapped',
         NEW new, calls' = Append(calls, new), UNCHANGED <<pc, dlis>>,
         js'.at \in {"loop", "copy"},
         js'.at = "copy" => new.status = "started",
         new.status = "started" => instance'.onEnd = c
  PROVE  TypesInv'
  <1>1. /\ js.at = "loop" /\ c = Len(calls) + 1 /\ c \in DOMAIN script.files
        /\ \A d \in DOMAIN calls : ~Open(d)
        /\ UNCHANGED <<socket_vars, setType>>
    BY DEF begin_call
  <1>2. calls \in Seq(Call)
    BY DEF IInv, Program
  <1>3. /\ Len(calls') = c /\ DOMAIN calls' = DOMAIN calls \cup {c} /\ calls'[c] = new
        /\ \A d \in DOMAIN calls : calls'[d] = calls[d]
    <2> DEFINE X == Call \cup {new}
    <2>1. calls \in Seq(X) /\ new \in X
      BY <1>2
    <2> HIDE DEF X
    <2> QED BY <1>1, <2>1
  <1>4. c \in Peers /\ pc[c] = "none"
    <2>1. c \in Peers
      BY <1>1, ScriptFiles
    <2>2. c \notin DOMAIN calls
      BY <1>1, <1>2
    <2> QED BY <2>1, <2>2 DEF IInv, Arguments
  <1>5. \A d : ~Open(d) /\ (Open(d)' => d = c /\ new.status = "started")
    BY <1>1, <1>3 DEF Open
  <1>6. \A o \in Peers : /\ Asked(o)' = Asked(o) /\ (Over(o)' <=> Over(o)) /\ ~From(o)'
                         /\ Asked(o) = {} /\ (pc[o] = "none" \/ Over(o))
    <2>1. \A o \in Peers : Asked(o) = {} /\ (pc[o] = "none" \/ Over(o))
      BY <1>5 DEF TypesInv, OneCall
    <2>2. ~Listening'
      BY DEF Listening
    <2> QED BY <1>1, <2>1, <2>2 DEF socket_vars, req_vars, rep_vars, Asked, FirstOf, Over, From
  <1>7. OneCall'
    <2>1. \A d \in DOMAIN calls' : Open(d)' => d = Len(calls)' /\ instance'.onEnd = d
      BY <1>3, <1>5
    <2>2. Arguing' => Open(Len(calls))'
      <3>1. js'.at = "copy" => Open(c)'
        BY <1>3 DEF Open
      <3>2. Open(Len(calls))' <=> Open(c)'
        BY <1>3 DEF Open
      <3> QED BY <3>1, <3>2 DEF Arguing
    <2>3. OneCall' <=> /\ \A d \in DOMAIN calls' : Open(d)' => d = Len(calls)' /\ instance'.onEnd = d
                       /\ Arguing' => Open(Len(calls))'
                       /\ \A o \in Peers :
                            /\ ~Open(o)' => Asked(o)' = {} /\ ~From(o)' /\ (pc'[o] = "none" \/ Over(o)')
                            /\ \A x \in Asked(o)' : IsEnd(x) => Over(o)'
                            /\ From(o)' /\ IsEnd(js'.message) => Over(o)' /\ Asked(o)' = {}
      BY DEF OneCall, IsEnd
    <2> QED BY <1>6, <2>1, <2>2, <2>3
  <1>8. ASSUME NEW o \in Peers, Open(o)', Started(o)' PROVE FALSE
    <2>1. o = c /\ pc'[o] = pc[o]
      BY <1>5, <1>8
    <2> QED BY <1>4, <1>8, <2>1 DEF Started
  <1> QED
    BY <1>7, <1>8 DEF TypesInv, TypesKept

\* parseFile when no call is open: its thread has said nothing yet.
LEMMA ParseFileKeepsTypes == ASSUME IInv, TypesInv, parseFile, ~overlapped' PROVE TypesInv'
  <1>1. PICK c : c = Len(calls) + 1
    OBVIOUS
  <1>2. PICK new : new = [file |-> script.files[c], dir |-> clock', status |-> "started"]
    OBVIOUS
  <1>3. begin_call(c) /\ calls' = Append(calls, new) /\ js'.at = "copy" /\ instance'.onEnd = c
    BY <1>1, <1>2 DEF parseFile, Loop, fresh_instance
  <1>4. UNCHANGED <<pc, dlis>>
    BY <1>3 DEF begin_call, thread_vars
  <1>5. new.status = "started"
    BY <1>2
  <1> QED
    BY <1>3, <1>4, <1>5, CallKeepsTypes

\* A call that fails for its directory opens nothing.
LEMMA SameMillisecondKeepsTypes ==
  ASSUME IInv, TypesInv, parseFile_same_millisecond, ~overlapped' PROVE TypesInv'
  <1>1. PICK c : c = Len(calls) + 1
    OBVIOUS
  <1>2. PICK new : new = [file |-> script.files[c], dir |-> clock, status |-> "failed"]
    OBVIOUS
  <1>3. begin_call(c) /\ calls' = Append(calls, new) /\ js' = js
    BY <1>1, <1>2 DEF parseFile_same_millisecond
  <1>4. UNCHANGED <<pc, dlis>> /\ js'.at = "loop"
    BY <1>3 DEF begin_call, thread_vars
  <1>5. new.status = "failed"
    BY <1>2
  <1> QED
    BY <1>3, <1>4, <1>5, CallKeepsTypes

\* The call that is argued about is the open one: it gets the thread.
LEMMA CreateKeepsTypes ==
  ASSUME IInv, TypesInv, create_thread
  PROVE  TypesInv'
  <1>1. PICK c : c = Len(calls)
    OBVIOUS
  <1>2. /\ js.at = "create" /\ js' = Loop /\ pc' = [pc EXCEPT ![c] = "created"]
        /\ UNCHANGED <<socket_vars, dlis, wells_vars, calls>>
    BY <1>1 DEF create_thread
  <1>3. Arguing /\ ~Arguing' /\ ~Listening /\ ~Listening'
    BY <1>2 DEF Arguing, Listening, Loop
  <1>4. Open(Len(calls))
    BY <1>3 DEF TypesInv, OneCall
  <1>5. Open(c) /\ c \in Peers
    <2>1. Open(c)
      BY <1>1, <1>4 DEF Open
    <2> QED BY <2>1, ScriptFiles DEF IInv, Program, Open
  <1>6. /\ pc'[c] = "created" /\ \A o \in Peers : o # c => pc'[o] = pc[o]
    BY <1>2, <1>5 DEF IInv, Threads
  <1>7. \A o \in Peers : Asked(o)' = Asked(o) /\ ~From(o) /\ ~From(o)'
    BY <1>2, <1>3 DEF socket_vars, req_vars, rep_vars, Asked, FirstOf, From
  <1>8. \A m \in Asked(c)' : IsEnd(m) => Over(c)'
    <2>1. pc[c] = "none"
      BY <1>1, <1>3 DEF IInv, Arguments
    <2>2. Asked(c) = {}
      BY <1>5, <2>1, NothingAsked DEF IInv, Exchanges
    <2> QED BY <1>5, <1>7, <2>2
  <1>9. ~Started(c)'
    BY <1>6 DEF Started
  <1>10. UNCHANGED <<calls, setType>> /\ instance'.onEnd = instance.onEnd
    BY <1>2 DEF wells_vars
  <1>11. \A o \in Peers : o # c => UNCHANGED <<pc[o], dlis[o]>>
    BY <1>2, <1>6
  <1> QED
    BY <1>3, <1>5, <1>7, <1>8, <1>9, <1>10, <1>11, OneMoves

\* A thread that has no file yet belongs to the open call, and has asked nothing.
LEMMA BirthKeepsTypes ==
  ASSUME IInv, TypesInv, NEW t \in Peers, pc[t] \in {"created", "opening"},
         UNCHANGED <<socket_vars, wells_vars, js_vars>>,
         \A o \in Peers : o # t => UNCHANGED <<pc[o], dlis[o]>>,
         Started(t)' => Read(t)'.set = 0 /\ dlis'[t].parsing_obj_binn = NoObject
  PROVE  TypesInv'
  <1>1. ~Started(t) /\ ~Over(t) /\ pc[t] # "none"
    BY DEF Started, Over
  <1>2. UNCHANGED <<calls, setType, instance, js>>
    BY DEF wells_vars, js_vars
  <1>3. /\ Arguing' <=> Arguing
        /\ \A o \in Peers : (From(o)' <=> From(o)) /\ Asked(o)' = Asked(o)
    BY <1>2 DEF Arguing, From, Listening, socket_vars, req_vars, rep_vars, Asked, FirstOf
  <1>4. Open(t)
    BY <1>1 DEF TypesInv, OneCall
  <1>5. Asked(t) = {} /\ ~From(t)
    <2>1. Asked(t) = {}
      BY NothingAsked DEF IInv, Exchanges
    <2>2. Listening => js.from \in Peers /\ Started(js.from)
      BY DEF IInv, Exchanges
    <2> QED BY <1>1, <2>1, <2>2 DEF From, Started
  <1>6. Started(t)' => TypeKept(t)'
    <2> SUFFICES ASSUME Started(t)' PROVE TypeKept(t)'
      OBVIOUS
    <2>1. ~From(t)' /\ Asked(t)' = {} /\ ~(Read(t)'.set > 0)
      BY <1>3, <1>5
    <2> QED BY <2>1 DEF TypeKept
  <1> QED
    BY <1>2, <1>3, <1>4, <1>5, <1>6, OneMoves

\* A parser thread begins, opens its file or reads on.
LEMMA ParserKeepsTypes ==
  ASSUME IInv, TypesInv, NEW t \in Peers, Parser(t)
  PROVE  TypesInv'
  <1>1. CASE do_parse_begin(t)
    <2>1. /\ pc[t] = "created" /\ UNCHANGED <<socket_vars, wells_vars, js_vars>>
          /\ pc' = [pc EXCEPT ![t] = "opening"]
          /\ \A o \in Peers : o # t => UNCHANGED <<pc[o], dlis[o]>>
      BY <1>1 DEF do_parse_begin, IInv, Threads
    <2>2. ~Started(t)'
      BY <2>1 DEF IInv, Threads, Started
    <2> QED BY <2>1, <2>2, BirthKeepsTypes
  <1>2. CASE do_parse_open(t)
    <2>1. PICK fname \in args.fname :
            IF fname \in DOMAIN Files
            THEN /\ dlis' = [dlis EXCEPT ![t].file = fname]
                 /\ pc' = [pc EXCEPT ![t] = "parse"]
                 /\ UNCHANGED exited
            ELSE exited' = TRUE /\ UNCHANGED <<dlis, pc>>
      BY <1>2 DEF do_parse_open
    <2>2. pc[t] = "opening" /\ UNCHANGED <<socket_vars, wells_vars, js_vars>>
      BY <1>2 DEF do_parse_open
    <2>3. DOMAIN dlis = Peers /\ DOMAIN pc = Peers /\ Kept(t) /\ ~Started(t)
      BY <2>2 DEF IInv, Threads, ThreadInv, Started
    <2>4. \A o \in Peers : o # t => UNCHANGED <<pc[o], dlis[o]>>
      BY <2>1, <2>3
    <2>5. ASSUME Started(t)' PROVE Read(t)'.set = 0 /\ dlis'[t].parsing_obj_binn = NoObject
      <3>1. fname \in DOMAIN Files
        BY <2>1, <2>3, <2>5 DEF Started
      <3>2. PICK d : d = dlis[t]
        OBVIOUS
      <3>3. d = [dlis_init EXCEPT !.out_dir = d.out_dir]
        BY <2>3, <3>2 DEF Kept
      <3>4. dlis'[t] = [d EXCEPT !.file = fname]
        BY <2>1, <2>3, <3>1, <3>2
      <3>5. dlis'[t].file = fname /\ dlis'[t].at = 1 /\ dlis'[t].parsing_obj_binn = NoObject
        BY <3>3, <3>4 DEF dlis_init
      <3>6. PICK n : n = Len(Items[fname])
        OBVIOUS
      <3>7. reading(fname)[0] = FirstPlace
        BY <3>1, <3>6, ReadingHolds
      <3>8. Read(t)' = FirstPlace
        <4>1. dlis'[t].file = fname /\ dlis'[t].at - 1 = 0
          BY <3>5
        <4> QED BY <3>7, <4>1 DEF Read
      <3> QED BY <3>5, <3>8 DEF FirstPlace
    <2> QED BY <2>2, <2>4, <2>5, BirthKeepsTypes
  <1>3. CASE thread_step(t)
    BY <1>3, ThreadKeepsTypes
  <1> QED
    BY <1>1, <1>2, <1>3 DEF Parser

-----------------------------------------------------------------------------
\* Any step of the event loop but a call.
LEMMA JavaScriptKeepsTypes ==
  ASSUME IInv, TypesInv, JavaScript
  PROVE  TypesInv'
  <1>1. CASE copy_data_dir
    <2>1. /\ js.at = "copy" /\ js' = [js EXCEPT !.at = "create"]
          /\ UNCHANGED <<socket_vars, thread_vars, wells_vars, calls>>
      BY <1>1 DEF copy_data_dir
    <2>2. js'.at = "create"
      BY <2>1 DEF IInv, Program, Loop
    <2>3. Arguing /\ ~Listening /\ ~Listening'
      BY <2>1, <2>2 DEF Arguing, Listening
    <2>4. \A o \in Peers : Asked(o)' = Asked(o) /\ ~From(o) /\ ~From(o)'
      BY <2>1, <2>3 DEF socket_vars, req_vars, rep_vars, Asked, FirstOf, From
    <2>5. UNCHANGED <<pc, dlis, calls, setType, instance>>
      BY <2>1 DEF thread_vars, wells_vars
    <2> QED BY <2>3, <2>4, <2>5, NobodyMoves
  <1>2. CASE create_thread
    BY <1>2, CreateKeepsTypes
  <1>3. CASE on_readable
    <2>1. js.at = "loop" /\ UNCHANGED <<thread_vars, wells_vars, calls>>
      BY <1>3 DEF on_readable
    <2>2. CASE rep_recv /\ js' = [at |-> "reply", from |-> NextPeer,
                                  message |-> Head(arrived[NextPeer])]
      BY <2>1, <2>2, TakingKeepsTypes
    <2>3. CASE rep_recv_none /\ UNCHANGED js
      <3>1. UNCHANGED <<pc, dlis, calls, setType, instance, js>>
        BY <2>1, <2>3 DEF thread_vars, wells_vars
      <3>2. /\ Arguing' <=> Arguing
            /\ \A o \in Peers : (From(o)' <=> From(o)) /\ Asked(o)' = Asked(o)
        BY <2>3 DEF rep_recv_none, req_vars, Asked, FirstOf, Arguing, From, Listening
      <3> QED BY <3>1, <3>2, NobodyMoves
    <2> QED BY <1>3, <2>2, <2>3 DEF on_readable
  <1>4. CASE on_message_reply
    <2>1. /\ js.at = "reply" /\ js' = [js EXCEPT !.at = "handle"] /\ rep_send
          /\ UNCHANGED <<thread_vars, wells_vars, calls>>
      BY <1>4 DEF on_message_reply
    <2>2. js'.at = "handle" /\ js'.from = js.from /\ js'.message = js.message
      BY <2>1 DEF IInv, Program, Loop
    <2>3. Listening /\ Listening' /\ ~Arguing'
      BY <2>1, <2>2 DEF Arguing, Listening
    <2>4. \A o \in Peers : Asked(o)' = Asked(o) /\ (From(o)' <=> From(o))
      BY <2>1, <2>2, <2>3 DEF rep_send, Asked, FirstOf, From
    <2>5. UNCHANGED <<pc, dlis, calls, setType, instance>>
      BY <2>1 DEF thread_vars, wells_vars
    <2> QED BY <2>2, <2>3, <2>4, <2>5, NobodyMoves
  <1>5. CASE on_message
    BY <1>5, HandlingKeepsTypes
  <1>6. CASE on_message_throws
    <2>1. UNCHANGED <<pc, dlis, calls, setType, instance, js>>
      BY <1>6 DEF on_message_throws, thread_vars, wells_vars
    <2>2. /\ Arguing' <=> Arguing
          /\ \A o \in Peers : (From(o)' <=> From(o)) /\ Asked(o)' = Asked(o)
      BY <1>6, <2>1 DEF on_message_throws, socket_vars, req_vars, rep_vars, Asked, FirstOf,
                        Arguing, From, Listening
    <2> QED BY <2>1, <2>2, NobodyMoves
  <1> QED
    BY <1>1, <1>2, <1>3, <1>4, <1>5, <1>6 DEF JavaScript

\* As long as calls have not overlapped.
TypesUnlessOverlapped == ~overlapped => TypesInv

\* No call, no type.
LEMMA InitiallyTypes == Init => TypesUnlessOverlapped
  <1> SUFFICES ASSUME Init PROVE TypesInv
    BY DEF TypesUnlessOverlapped
  <1>1. calls = <<>> /\ js.at = "loop"
    BY DEF Init, Loop
  <1>2. \A c : ~Open(c)
    BY <1>1 DEF Open
  <1>3. \A t \in Peers : pc[t] = "none" /\ Asked(t) = {}
    BY DEF Init, ThreadInit, SocketInit, Asked, FirstOf
  <1>4. ~Listening /\ ~Arguing
    BY <1>1 DEF Listening, Arguing
  <1> QED
    BY <1>2, <1>3, <1>4 DEF TypesInv, OneCall, TypesKept, From

\* Every step keeps the types, or makes calls overlap.
LEMMA NextKeepsTypes ==
  IInv /\ TypesUnlessOverlapped /\ [Next]_vars => TypesUnlessOverlapped'
  <1> SUFFICES ASSUME IInv, TypesUnlessOverlapped, [Next]_vars, ~overlapped' PROVE TypesInv'
    BY DEF TypesUnlessOverlapped
  <1>1. CASE UNCHANGED vars
    <2>1. UNCHANGED <<pc, dlis, calls, setType, instance, js, arrived, on_the_way, overlapped>>
      BY <1>1 DEF vars, socket_vars, req_vars, rep_vars, thread_vars, wells_vars, js_vars
    <2>2. /\ Arguing' <=> Arguing
          /\ \A o \in Peers : (From(o)' <=> From(o)) /\ Asked(o)' = Asked(o)
      BY <2>1 DEF Asked, FirstOf, Arguing, From, Listening
    <2>3. TypesInv
      BY <2>1 DEF TypesUnlessOverlapped
    <2> QED BY <2>1, <2>2, <2>3, NobodyMoves
  <1>2. CASE parseFile
    <2>1. TypesInv
      BY <1>2 DEF parseFile, begin_call, TypesUnlessOverlapped
    <2> QED BY <1>2, <2>1, ParseFileKeepsTypes
  <1>3. CASE parseFile_same_millisecond
    <2>1. TypesInv
      BY <1>3 DEF parseFile_same_millisecond, begin_call, TypesUnlessOverlapped
    <2> QED BY <1>3, <2>1, SameMillisecondKeepsTypes
  <1>4. CASE JavaScript
    <2>1. UNCHANGED overlapped
      BY <1>4 DEF JavaScript, copy_data_dir, create_thread, on_readable, on_message_reply,
                  on_message, on_message_throws
    <2> QED BY <1>4, <2>1, JavaScriptKeepsTypes DEF TypesUnlessOverlapped
  <1>5. ASSUME NEW t \in Peers, Parser(t) PROVE TypesInv'
    <2>1. UNCHANGED overlapped
      BY <1>5 DEF Parser, do_parse_begin, do_parse_open, thread_step, js_vars
    <2> QED BY <1>5, <2>1, ParserKeepsTypes DEF TypesUnlessOverlapped
  <1>6. ASSUME NEW t \in Peers, io_step(t) PROVE TypesInv'
    <2>1. UNCHANGED overlapped
      BY <1>6 DEF io_step, js_vars
    <2> QED BY <1>6, <2>1, IoKeepsTypes DEF TypesUnlessOverlapped
  <1> QED
    BY <1>1, <1>2, <1>3, <1>4, <1>5, <1>6 DEF Next

\* What the listener has is under setType, since TypesInv speaks of the thread it is of.
LEMMA HandledUnderSet == IInv /\ TypesUnlessOverlapped => ObjectsUnderTheirSet
  <1> SUFFICES ASSUME IInv, TypesInv, js.at = "handle", js.message.sending_data_type = "_OBJECT",
                      js.message.whole
               PROVE  js.message.set = setType
    BY DEF ObjectsUnderTheirSet, TypesUnlessOverlapped
  <1>1. PICK p : p = js.from
    OBVIOUS
  <1>2. p \in Peers /\ Started(p) /\ From(p)
    <2>1. Listening /\ js.from \in Peers /\ Started(js.from)
      BY DEF IInv, Exchanges, Listening
    <2> QED BY <1>1, <2>1 DEF Started, From
  <1>3. TypeKept(p)
    BY <1>2 DEF TypesInv, OneCall, TypesKept
  <1> QED
    BY <1>2, <1>3 DEF TypeKept, UnderSet

(***************************************************************************)
(* As long as calls do not overlap, an object that was sent when the last  *)
(* attribute of its template was read is handled while setType of index.js *)
(* is the type of its own set, though the two travel in messages of their  *)
(* own and the thread parses on as soon as it has its reply.               *)
(***************************************************************************)
THEOREM HandledUnderTheirSet == Spec => []ObjectsUnderTheirSet
  <1>1. Spec => []TypesUnlessOverlapped
    BY AddonInvariant, InitiallyTypes, NextKeepsTypes, PTL DEF Spec
  <1> QED
    BY <1>1, AddonInvariant, HandledUnderSet, PTL
=============================================================================
