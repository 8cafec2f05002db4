---------------------------- MODULE LanesProofs ----------------------------
(***************************************************************************)
(* What Lane returns when its queue grows, loses its head or changes, and  *)
(* the induction on bounded natural numbers that these facts rest on.  The *)
(* induction theorems of the library take an operator as a parameter; with *)
(* the set of the numbers for which a fact holds in its place, induction   *)
(* follows from the well-ordering of the natural numbers.                  *)
(***************************************************************************)
EXTENDS Lanes, WellFoundedInduction, SequenceTheorems, TLAPS

-----------------------------------------------------------------------------
(* Induction and recursion.                                                *)

\* A set of numbers that is not empty has a least one.
LEMMA Least ==
  ASSUME NEW S, S \subseteq Nat, S # {}
  PROVE  \E n \in S : \A m \in S : n <= m
<1>1. PICK n \in S : \A m \in S : <<m, n>> \notin OpToRel(<, Nat)
  BY NatLessThanWellFounded, WFMin
<1>2. \A m \in S : ~(m < n)
  <2> SUFFICES ASSUME NEW m \in S, m < n
               PROVE  FALSE
    OBVIOUS
  <2>1. m \in Nat /\ n \in Nat
    OBVIOUS
  <2>2. QED
    BY <1>1, <2>1, Zenon DEF OpToRel
<1>3. QED
  BY <1>2

\* Induction up to a bound.
LEMMA Induction ==
  ASSUME NEW n \in Nat, NEW S, 0 \in S, \A i \in 1..n : i - 1 \in S => i \in S
  PROVE  0..n \subseteq S
<1> DEFINE T == {i \in 0..n : i \notin S}
<1>1. ASSUME T # {}
      PROVE  FALSE
  <2>0. T \subseteq Nat
    OBVIOUS
  <2>1. PICK i \in T : \A j \in T : i <= j
    <3> HIDE DEF T
    <3>1. QED
      BY <1>1, <2>0, Least
  <2>2. i \in 1..n /\ i \notin S
    OBVIOUS
  <2>3. i - 1 \in 0..n /\ ~(i <= i - 1)
    BY <2>2
  <2>4. i - 1 \in S
    BY <2>1, <2>3
  <2>5. QED
    BY <2>2, <2>4
<1>2. QED
  BY <1>1

\* The functions that are computed in n steps, each from the value before.
Computed(V, base, n, step) ==
  {f \in [0..n -> V] : f[0] = base /\ \A i \in 1..n : f[i] = step[i][f[i - 1]]}

\* There is one if the steps stay in V.
LEMMA Recursion ==
  ASSUME NEW V, NEW base \in V, NEW n \in Nat, NEW step,
         \A i \in 1..n : \A v \in V : step[i][v] \in V
  PROVE  Computed(V, base, n, step) # {}
<1> DEFINE Upto(m, f) == f \in [0..m -> V] /\ f[0] = base /\ \A i \in 1..m : f[i] = step[i][f[i - 1]]
           S == {m \in 0..n : \E f : Upto(m, f)}
<1>1. 0 \in S
  <2>1. Upto(0, [i \in 0..0 |-> base])
    OBVIOUS
  <2>2. 0 \in 0..n
    OBVIOUS
  <2> HIDE DEF Upto
  <2>3. QED
    BY <2>1, <2>2
<1>2. ASSUME NEW m \in 1..n, m - 1 \in S
      PROVE  m \in S
  <2>1. PICK f : Upto(m - 1, f)
    BY <1>2
  <2>2. m - 1 \in 0..m - 1 /\ m - 1 \in Nat
    OBVIOUS
  <2>3. f[m - 1] \in V
    BY <2>1, <2>2
  <2>4. step[m][f[m - 1]] \in V
    BY <2>3
  <2> DEFINE g == [i \in 0..m |-> IF i = m THEN step[m][f[m - 1]] ELSE f[i]]
  <2>5. g \in [0..m -> V]
    <3>1. \A i \in 0..m : i = m \/ i \in 0..m - 1
      OBVIOUS
    <3>2. QED
      BY <2>1, <2>4, <3>1
  <2>6. g[0] = base
    BY <2>1
  <2>7. \A i \in 1..m : g[i] = step[i][g[i - 1]]
    <3> SUFFICES ASSUME NEW i \in 1..m
                 PROVE  g[i] = step[i][g[i - 1]]
      OBVIOUS
    <3>1. i - 1 \in 0..m /\ i - 1 # m /\ i \in 0..m
      OBVIOUS
    <3>2. g[i - 1] = f[i - 1]
      BY <3>1
    <3>3. CASE i = m
      BY <3>1, <3>2, <3>3
    <3>4. CASE i # m
      <4>1. i \in 1..m - 1
        BY <3>4
      <4>2. QED
        BY <2>1, <3>1, <3>2, <3>4, <4>1
    <3>5. QED
      BY <3>3, <3>4
  <2>8. Upto(m, g)
    BY <2>5, <2>6, <2>7
  <2> HIDE DEF g, Upto
  <2>9. QED
    BY <2>8
<1>3. n \in S
  <2> HIDE DEF S
  <2>1. 0..n \subseteq S
    BY <1>1, <1>2, Induction
  <2>2. QED
    BY <2>1
<1>4. PICK f : Upto(n, f)
  <2> HIDE DEF Upto
  <2>1. QED
    BY <1>3
<1>5. f \in Computed(V, base, n, step)
  BY <1>4 DEF Computed
<1>6. QED
  BY <1>5

-----------------------------------------------------------------------------
(* Sequences that lose their head.                                         *)

\* The length of a queue that lost its head.
LEMMA TailShorter ==
  ASSUME NEW S, NEW q \in Seq(S), q # <<>>
  PROVE  /\ Tail(q) \in Seq(S)
         /\ Len(Tail(q)) = Len(q) - 1
         /\ Len(q) \in Nat \ {0}
         /\ Head(q) \in S
BY HeadTailProperties, LenProperties, EmptySeq

\* The head of what comes first is the head of the whole.
LosesHead(s, t) ==
  /\ s \o t # <<>>
  /\ Head(s \o t) = Head(s)
  /\ Tail(s \o t) = Tail(s) \o t

LEMMA TailConcat ==
  ASSUME NEW S, NEW s \in Seq(S), NEW t \in Seq(S), s # <<>>
  PROVE  LosesHead(s, t)
<1> DEFINE st == s \o t
           rest == Tail(s) \o t
<1>1. /\ Tail(s) \in Seq(S) /\ Len(Tail(s)) = Len(s) - 1 /\ Len(s) \in Nat \ {0}
      /\ Len(t) \in Nat /\ \A i \in 1..Len(Tail(s)) : Tail(s)[i] = s[i + 1]
  BY TailShorter, HeadTailProperties, LenProperties
<1>2. /\ st \in Seq(S) /\ Len(st) = Len(s) + Len(t)
      /\ \A i \in 1..Len(s) + Len(t) : st[i] = IF i <= Len(s) THEN s[i] ELSE t[i - Len(s)]
  BY ConcatProperties
<1>3. /\ rest \in Seq(S) /\ Len(rest) = Len(Tail(s)) + Len(t)
      /\ \A i \in 1..Len(Tail(s)) + Len(t) :
           rest[i] = IF i <= Len(Tail(s)) THEN Tail(s)[i] ELSE t[i - Len(Tail(s))]
  BY <1>1, ConcatProperties
<1> DEFINE n == Len(s)
           m == Len(t)
<1> HIDE DEF st, rest, n, m
<1>4. st # <<>>
  BY <1>1, <1>2, EmptySeq
<1>5. /\ Tail(st) \in Seq(S) /\ Len(Tail(st)) = n + m - 1
      /\ \A i \in 1..n + m - 1 : Tail(st)[i] = st[i + 1]
  BY <1>1, <1>2, <1>4, HeadTailProperties DEF n, m
<1>6. n \in Nat \ {0} /\ m \in Nat /\ Len(rest) = n + m - 1
  BY <1>1, <1>3 DEF n, m
<1>7. ASSUME NEW i \in 1..n + m - 1
      PROVE  Tail(st)[i] = rest[i]
  <2>1. /\ i + 1 \in 1..n + m /\ i \in 1..(n - 1) + m
        /\ i + 1 <= n <=> i <= n - 1
        /\ (i + 1) - n = i - (n - 1)
        /\ i <= n - 1 => i \in 1..n - 1
    BY <1>6
  <2>2. Tail(st)[i] = IF i + 1 <= n THEN s[i + 1] ELSE t[(i + 1) - n]
    BY <1>2, <1>5, <2>1 DEF n, m
  <2>3. rest[i] = IF i <= n - 1 THEN Tail(s)[i] ELSE t[i - (n - 1)]
    BY <1>1, <1>3, <2>1 DEF n, m
  <2>4. i <= n - 1 => Tail(s)[i] = s[i + 1]
    BY <1>1, <2>1 DEF n
  <2>5. QED
    BY <2>1, <2>2, <2>3, <2>4
<1>8. Tail(st) = rest
  BY <1>3, <1>5, <1>6, <1>7, SeqEqual
<1>9. Head(st) = Head(s)
  <2>1. 1 \in 1..n + m /\ 1 <= n
    BY <1>6
  <2>2. st[1] = s[1]
    BY <1>2, <2>1 DEF n, m
  <2>3. QED
    BY <1>4, <2>2
<1>10. QED
  BY <1>4, <1>8, <1>9 DEF LosesHead, st, rest

\* An element between two sequences belongs to either.
Regroups(s, e, t) == Append(s, e) \o t = s \o (<<e>> \o t)

LEMMA AppendConcat ==
  ASSUME NEW S, NEW s \in Seq(S), NEW t \in Seq(S), NEW e \in S
  PROVE  Regroups(s, e, t)
<1>1. <<e>> \in Seq(S)
  OBVIOUS
<1>2. Append(s, e) = s \o <<e>>
  BY AppendIsConcat
<1>3. QED
  BY <1>1, <1>2, ConcatAssociative DEF Regroups

-----------------------------------------------------------------------------
(* A sequence whose elements are mapped one by one.                        *)

Mapped(q, f) == [i \in DOMAIN q |-> f[q[i]]]

IsImage(image, q, f, V) ==
  /\ image \in Seq(V)
  /\ Len(image) = Len(q)
  /\ \A i \in 1..Len(q) : image[i] = f[q[i]]

LEMMA MappedType ==
  ASSUME NEW T, NEW V, NEW f \in [T -> V], NEW q \in Seq(T)
  PROVE  IsImage(Mapped(q, f), q, f, V)
<1>1. Len(q) \in Nat /\ DOMAIN q = 1..Len(q)
  BY LenProperties
<1>2. ASSUME NEW i \in 1..Len(q)
      PROVE  f[q[i]] \in V
  <2>1. q[i] \in T
    BY ElementOfSeq
  <2>2. QED
    BY <2>1
<1>3. QED
  BY <1>1, <1>2 DEF Mapped, IsImage

\* The image of a sequence with one element more.
MapsAppend(q, e, f) == Mapped(Append(q, e), f) = Append(Mapped(q, f), f[e])

LEMMA MappedAppend ==
  ASSUME NEW T, NEW V, NEW f \in [T -> V], NEW q \in Seq(T), NEW e \in T
  PROVE  MapsAppend(q, e, f)
<1> DEFINE longer == Append(q, e)
           image == Mapped(q, f)
           both == Append(image, f[e])
           n == Len(q)
<1>1. /\ n \in Nat /\ longer \in Seq(T) /\ Len(longer) = n + 1
      /\ longer[n + 1] = e /\ \A i \in 1..n : longer[i] = q[i]
  BY AppendProperties, LenProperties
<1>2. image \in Seq(V) /\ Len(image) = n /\ \A i \in 1..n : image[i] = f[q[i]]
  <2>1. IsImage(Mapped(q, f), q, f, V)
    BY MappedType
  <2>2. QED
    BY <2>1 DEF IsImage
<1> HIDE DEF longer, image
<1>3. /\ Mapped(longer, f) \in Seq(V) /\ Len(Mapped(longer, f)) = n + 1
      /\ \A i \in 1..n + 1 : Mapped(longer, f)[i] = f[longer[i]]
  <2>1. IsImage(Mapped(longer, f), longer, f, V)
    BY <1>1, MappedType
  <2>2. QED
    BY <1>1, <2>1 DEF IsImage
<1>4. /\ both \in Seq(V) /\ Len(both) = n + 1
      /\ both[n + 1] = f[e] /\ \A i \in 1..n : both[i] = image[i]
  BY <1>2, AppendProperties
<1> HIDE DEF n, both
<1>5. \A i \in 1..n + 1 : Mapped(longer, f)[i] = both[i]
  <2>1. \A i \in 1..n + 1 : i = n + 1 \/ i \in 1..n
    BY <1>1
  <2>2. QED
    BY <1>1, <1>2, <1>3, <1>4, <2>1
<1>6. QED
  BY <1>3, <1>4, <1>5, SeqEqual DEF MapsAppend, longer, both, image

\* The image of a sequence that loses its head.
MapsTail(q, f) ==
  /\ Mapped(q, f) # <<>>
  /\ Head(Mapped(q, f)) = f[Head(q)]
  /\ Mapped(Tail(q), f) = Tail(Mapped(q, f))

LEMMA MappedTail ==
  ASSUME NEW T, NEW V, NEW f \in [T -> V], NEW q \in Seq(T), q # <<>>
  PROVE  MapsTail(q, f)
<1> DEFINE rest == Tail(q)
           image == Mapped(q, f)
           n == Len(q)
<1>1. /\ n \in Nat \ {0} /\ rest \in Seq(T) /\ Len(rest) = n - 1
      /\ \A i \in 1..n - 1 : rest[i] = q[i + 1]
  BY TailShorter, HeadTailProperties
<1>2. image \in Seq(V) /\ Len(image) = n /\ \A i \in 1..n : image[i] = f[q[i]]
  <2>1. IsImage(Mapped(q, f), q, f, V)
    BY MappedType
  <2>2. QED
    BY <2>1 DEF IsImage
<1> HIDE DEF rest, image, n
<1>3. /\ Mapped(rest, f) \in Seq(V) /\ Len(Mapped(rest, f)) = n - 1
      /\ \A i \in 1..n - 1 : Mapped(rest, f)[i] = f[rest[i]]
  <2>1. IsImage(Mapped(rest, f), rest, f, V)
    BY <1>1, MappedType
  <2>2. QED
    BY <1>1, <2>1 DEF IsImage
<1>4. image # <<>>
  BY <1>1, <1>2, EmptySeq
<1>5. /\ Tail(image) \in Seq(V) /\ Len(Tail(image)) = n - 1
      /\ \A i \in 1..n - 1 : Tail(image)[i] = image[i + 1]
  BY <1>2, <1>4, HeadTailProperties
<1>6. \A i \in 1..n - 1 : Mapped(rest, f)[i] = Tail(image)[i]
  <2>1. \A i \in 1..n - 1 : i + 1 \in 1..n
    BY <1>1
  <2>2. QED
    BY <1>1, <1>2, <1>3, <1>5, <2>1
<1>7. Mapped(rest, f) = Tail(image)
  BY <1>3, <1>5, <1>6, SeqEqual
<1>8. Head(image) = f[Head(q)]
  <2>1. 1 \in 1..n
    BY <1>1
  <2>2. image[1] = f[q[1]]
    BY <1>2, <2>1
  <2>3. QED
    BY <1>4, <2>2
<1>9. QED
  BY <1>4, <1>7, <1>8 DEF MapsTail, rest, image

-----------------------------------------------------------------------------
(* Lanes.                                                                  *)

\* The lane after each element of the queue, the last one the lane itself.
IsLaneOf(lane, queue, K) ==
  /\ lane \in [0..Len(queue) -> Seq(K)]
  /\ lane[0] = <<>>
  /\ \A i \in 1..Len(queue) :
       lane[i] = IF queue[i] \in K THEN Append(lane[i - 1], queue[i]) ELSE lane[i - 1]
  /\ Lane(queue, K) = lane[Len(queue)]

LEMMA LaneTable ==
  ASSUME NEW K, NEW T, NEW queue \in Seq(T)
  PROVE  \E lane : IsLaneOf(lane, queue, K)
<1> DEFINE n == Len(queue)
           V == Seq(K)
           none == <<>>
           next(i, v) == IF queue[i] \in K THEN Append(v, queue[i]) ELSE v
           step == [i \in 1..n |-> [v \in V |-> next(i, v)]]
           IsLane(f) == f = [i \in 0..n |-> IF i = 0 THEN none ELSE next(i, f[i - 1])]
           lane == CHOOSE f : IsLane(f)
<1>1. n \in Nat
  BY LenProperties
<1>2. \A i \in 1..n : \A v \in V : next(i, v) \in V
  BY AppendProperties
<1>3. none \in V
  BY EmptySeq
<1>4. Lane(queue, K) = lane[n]
  BY DEF Lane
<1>5. SUFFICES /\ lane \in [0..n -> V]
               /\ lane[0] = none
               /\ \A i \in 1..n : lane[i] = next(i, lane[i - 1])
  <2> HIDE DEF lane
  <2>1. IsLaneOf(lane, queue, K)
    BY <1>4 DEF IsLaneOf
  <2>2. QED
    BY <2>1
<1> HIDE DEF n, V, none, next, lane
<1>6. \A i \in 1..n : \A v \in V : step[i][v] = next(i, v)
  OBVIOUS
<1>7. PICK f \in [0..n -> V] : f[0] = none /\ \A i \in 1..n : f[i] = step[i][f[i - 1]]
  <2> HIDE DEF step
  <2>1. \A i \in 1..n : \A v \in V : step[i][v] \in V
    BY <1>2, <1>6
  <2>2. Computed(V, none, n, step) # {}
    BY <1>1, <1>3, <2>1, Recursion
  <2>3. QED
    BY <2>2 DEF Computed
<1>8. \A i \in 0..n : i = 0 \/ (i \in 1..n /\ i - 1 \in 0..n)
  BY <1>1
<1>9. IsLane(f)
  <2> HIDE DEF step
  <2>1. \A i \in 0..n : f[i] = IF i = 0 THEN none ELSE next(i, f[i - 1])
    BY <1>6, <1>7, <1>8
  <2>2. QED
    BY <2>1
<1>10. IsLane(lane)
  <2> HIDE DEF IsLane
  <2>1. QED
    BY <1>9 DEF lane
<1>11. lane[0] = none /\ \A i \in 1..n : lane[i] = next(i, lane[i - 1])
  BY <1>1, <1>10
<1>12. \A i \in 0..n : lane[i] \in V
  <2> DEFINE S == {i \in 0..n : lane[i] \in V}
  <2>1. 0 \in S
    BY <1>1, <1>3, <1>11
  <2>2. \A i \in 1..n : i - 1 \in S => i \in S
    BY <1>2, <1>11
  <2>3. 0..n \subseteq S
    <3> HIDE DEF S
    <3>1. QED
      BY <1>1, <2>1, <2>2, Induction
  <2>4. QED
    BY <2>3
<1>13. lane \in [0..n -> V]
  BY <1>10, <1>12
<1>14. QED
  BY <1>11, <1>13

\* A queue with one element more.
LEMMA LaneAppend ==
  ASSUME NEW K, NEW T, NEW queue \in Seq(T), NEW e \in T
  PROVE  Lane(Append(queue, e), K) =
           IF e \in K THEN Append(Lane(queue, K), e) ELSE Lane(queue, K)
<1> DEFINE n == Len(queue)
           longer == Append(queue, e)
<1>1. /\ n \in Nat /\ Len(longer) = n + 1 /\ longer \in Seq(T)
      /\ longer[n + 1] = e /\ \A i \in 1..n : longer[i] = queue[i]
  BY AppendProperties, LenProperties
<1> HIDE DEF longer
<1>2. PICK f : IsLaneOf(f, queue, K)
  BY LaneTable
<1>3. PICK g : IsLaneOf(g, longer, K)
  BY <1>1, LaneTable
<1>4. f[n] = g[n]
  <2> DEFINE S == {i \in 0..n : f[i] = g[i]}
  <2>1. 0 \in S
    BY <1>1, <1>2, <1>3 DEF IsLaneOf
  <2>2. ASSUME NEW i \in 1..n, i - 1 \in S
        PROVE  i \in S
    <3>1. i \in 1..n + 1 /\ longer[i] = queue[i] /\ i \in 0..n
      BY <1>1
    <3>2. f[i - 1] = g[i - 1]
      BY <2>2
    <3>3. f[i] = g[i]
      BY <1>1, <1>2, <1>3, <3>1, <3>2 DEF IsLaneOf
    <3>4. QED
      BY <3>1, <3>3
  <2>3. 0..n \subseteq S
    <3> HIDE DEF S
    <3>1. QED
      BY <1>1, <2>1, <2>2, Induction
  <2>4. QED
    BY <1>1, <2>3
<1>5. g[n + 1] = IF e \in K THEN Append(g[n], e) ELSE g[n]
  BY <1>1, <1>3 DEF IsLaneOf
<1>6. QED
  BY <1>1, <1>2, <1>3, <1>4, <1>5 DEF IsLaneOf, longer

\* A lane is a sequence of its kind, and that of an empty queue is empty.
LEMMA LaneType ==
  ASSUME NEW K, NEW T, NEW queue \in Seq(T)
  PROVE  /\ Lane(queue, K) \in Seq(K)
         /\ queue = <<>> => Lane(queue, K) = <<>>
<1>1. PICK f : IsLaneOf(f, queue, K)
  BY LaneTable
<1>2. Len(queue) \in Nat /\ (queue = <<>> => Len(queue) = 0)
  BY LenProperties, EmptySeq
<1>3. QED
  BY <1>1, <1>2 DEF IsLaneOf

\* Appending does not care for what comes before.
AppendsLast(s, t, e) == Append(s \o t, e) = s \o Append(t, e)

LEMMA ConcatAppend ==
  ASSUME NEW S, NEW s \in Seq(S), NEW t \in Seq(S), NEW e \in S
  PROVE  AppendsLast(s, t, e)
<1>1. <<e>> \in Seq(S)
  OBVIOUS
<1>2. Append(s \o t, e) = (s \o t) \o <<e>> /\ Append(t, e) = t \o <<e>>
  BY ConcatProperties, AppendIsConcat
<1>3. QED
  BY <1>1, <1>2, ConcatAssociative DEF AppendsLast

\* A queue that loses its head.
LEMMA LaneTail ==
  ASSUME NEW K, NEW T, NEW queue \in Seq(T), queue # <<>>
  PROVE  Lane(queue, K) =
           IF Head(queue) \in K THEN <<Head(queue)>> \o Lane(Tail(queue), K)
           ELSE Lane(Tail(queue), K)
<1> DEFINE rest == Tail(queue)
           n == Len(rest)
           head == IF Head(queue) \in K THEN <<Head(queue)>> ELSE <<>>
<1>1. /\ rest \in Seq(T) /\ n \in Nat /\ Len(queue) = n + 1
      /\ queue[1] = Head(queue) /\ \A i \in 1..n : rest[i] = queue[i + 1]
  <2>1. Tail(queue) \in Seq(T) /\ Len(Tail(queue)) = Len(queue) - 1 /\ Len(queue) \in Nat
        /\ \A i \in 1..Len(Tail(queue)) : Tail(queue)[i] = queue[i + 1]
    BY HeadTailProperties, LenProperties
  <2>2. queue[1] = Head(queue) /\ Len(Tail(queue)) \in Nat
    BY <2>1, LenProperties
  <2>3. QED
    BY <2>1, <2>2
<1>2. head \in Seq(K)
  OBVIOUS
<1> HIDE DEF rest, n, head
<1>3. PICK f : IsLaneOf(f, queue, K)
  BY LaneTable
<1>4. PICK g : IsLaneOf(g, rest, K)
  BY <1>1, LaneTable
<1>5. /\ \A i \in 1..n + 1 : f[i] = IF queue[i] \in K THEN Append(f[i - 1], queue[i]) ELSE f[i - 1]
      /\ \A i \in 1..n : g[i] = IF rest[i] \in K THEN Append(g[i - 1], rest[i]) ELSE g[i - 1]
      /\ f[0] = <<>> /\ g[0] = <<>>
      /\ \A i \in 0..n : g[i] \in Seq(K)
      /\ Lane(queue, K) = f[n + 1] /\ Lane(rest, K) = g[n]
  BY <1>1, <1>3, <1>4 DEF IsLaneOf, n
<1> DEFINE S == {i \in 0..n : f[i + 1] = head \o g[i]}
<1>6. 0 \in S
  <2>1. f[1] = IF queue[1] \in K THEN Append(<<>>, queue[1]) ELSE <<>>
    <3>1. 1 \in 1..n + 1 /\ 1 - 1 = 0
      BY <1>1
    <3>2. f[1] = IF queue[1] \in K THEN Append(f[1 - 1], queue[1]) ELSE f[1 - 1]
      BY <1>5, <3>1, Zenon
    <3>3. QED
      BY <1>5, <3>1, <3>2, Zenon
  <2>2. f[1] = head
    BY <1>1, <2>1 DEF head
  <2>3. head \o <<>> = head
    BY <1>2, ConcatEmptySeq
  <2>4. 0 + 1 = 1 /\ 0 \in 0..n
    BY <1>1
  <2>5. QED
    BY <1>5, <2>2, <2>3, <2>4
<1>7. ASSUME NEW i \in 1..n, i - 1 \in S
      PROVE  i \in S
  <2>1. i + 1 \in 1..n + 1 /\ (i + 1) - 1 = i /\ (i - 1) + 1 = i /\ i - 1 \in 0..n /\ i \in 0..n
    BY <1>1
  <2>2. f[i] = head \o g[i - 1]
    BY <1>7, <2>1
  <2>3. rest[i] = queue[i + 1]
    BY <1>1
  <2>4. CASE rest[i] \in K
    <3>1. f[i + 1] = Append(f[i], rest[i]) /\ g[i] = Append(g[i - 1], rest[i])
      BY <1>5, <2>1, <2>3, <2>4
    <3>2. Append(head \o g[i - 1], rest[i]) = head \o Append(g[i - 1], rest[i])
      <4>1. g[i - 1] \in Seq(K)
        BY <1>5, <2>1
      <4>2. AppendsLast(head, g[i - 1], rest[i])
        BY <1>2, <2>4, <4>1, ConcatAppend
      <4>3. QED
        BY <4>2, Zenon DEF AppendsLast
    <3>3. QED
      BY <2>1, <2>2, <3>1, <3>2
  <2>5. CASE rest[i] \notin K
    <3>1. f[i + 1] = f[i] /\ g[i] = g[i - 1]
      BY <1>5, <2>1, <2>3, <2>5
    <3>2. QED
      BY <2>1, <2>2, <3>1
  <2>6. QED
    BY <2>4, <2>5
<1>8. n \in S
  <2> HIDE DEF S
  <2>1. 0..n \subseteq S
    BY <1>1, <1>6, <1>7, Induction
  <2>2. QED
    BY <1>1, <2>1
<1>9. Lane(queue, K) = head \o Lane(rest, K)
  BY <1>5, <1>8
<1>10. Lane(rest, K) \in Seq(K)
  BY <1>1, LaneType
<1>11. QED
  BY <1>9, <1>10, ConcatEmptySeq DEF head, rest

\* A queue in which one element changes and joins the lane, where none of the
\* elements from there on was in it.
LEMMA LaneFilled ==
  ASSUME NEW K, NEW T, NEW queue \in Seq(T), NEW k \in 1..Len(queue), NEW e \in T, e \in K,
         \A j \in k..Len(queue) : queue[j] \notin K
  PROVE  Lane([queue EXCEPT ![k] = e], K) = Append(Lane(queue, K), e)
<1> DEFINE new == [queue EXCEPT ![k] = e]
           n == Len(queue)
<1>1. /\ n \in Nat /\ new \in Seq(T) /\ Len(new) = n
      /\ \A j \in 1..n : new[j] = IF j = k THEN e ELSE queue[j]
  BY ExceptSeq, LenProperties
<1> HIDE DEF new
<1>2. PICK f : IsLaneOf(f, queue, K)
  BY LaneTable
<1>3. PICK g : IsLaneOf(g, new, K)
  BY <1>1, LaneTable
<1>4. /\ \A i \in 1..n : f[i] = IF queue[i] \in K THEN Append(f[i - 1], queue[i]) ELSE f[i - 1]
      /\ \A i \in 1..n : g[i] = IF new[i] \in K THEN Append(g[i - 1], new[i]) ELSE g[i - 1]
      /\ f[0] = <<>> /\ g[0] = <<>>
      /\ Lane(queue, K) = f[n] /\ Lane(new, K) = g[n]
  BY <1>1, <1>2, <1>3 DEF IsLaneOf
<1> DEFINE S == {i \in 0..n : g[i] = IF i < k THEN f[i] ELSE Append(f[i], e)}
<1>5. 0 \in S
  BY <1>1, <1>4
<1>6. ASSUME NEW i \in 1..n, i - 1 \in S
      PROVE  i \in S
  <2>1. i \in 0..n /\ k \in Nat
    BY <1>1
  <2>2. g[i - 1] = IF i - 1 < k THEN f[i - 1] ELSE Append(f[i - 1], e)
    BY <1>6
  <2> HIDE DEF n
  <2>3. /\ f[i] = IF queue[i] \in K THEN Append(f[i - 1], queue[i]) ELSE f[i - 1]
        /\ g[i] = IF new[i] \in K THEN Append(g[i - 1], new[i]) ELSE g[i - 1]
    BY <1>4
  <2>4. CASE i < k
    <3>1. i - 1 < k /\ new[i] = queue[i]
      BY <1>1, <2>1, <2>4
    <3>2. g[i] = f[i]
      BY <2>2, <2>3, <3>1
    <3>3. QED
      BY <2>1, <2>4, <3>2
  <2>5. CASE i = k
    <3>1. i - 1 < k /\ ~(i < k) /\ new[i] = e /\ queue[i] \notin K
      BY <1>1, <2>1, <2>5 DEF n
    <3>2. g[i] = Append(f[i], e)
      BY <2>2, <2>3, <3>1
    <3>3. QED
      BY <2>1, <3>1, <3>2
  <2>6. CASE i > k
    <3>1. ~(i - 1 < k) /\ ~(i < k) /\ new[i] = queue[i] /\ queue[i] \notin K
      BY <1>1, <2>1, <2>6 DEF n
    <3>2. g[i] = Append(f[i], e)
      BY <2>2, <2>3, <3>1
    <3>3. QED
      BY <2>1, <3>1, <3>2
  <2>7. QED
    BY <2>1, <2>4, <2>5, <2>6
<1>7. n \in S
  <2> HIDE DEF S, n
  <2>1. 0..n \subseteq S
    BY <1>1, <1>5, <1>6, Induction
  <2>2. QED
    BY <1>1, <2>1
<1>8. ~(n < k)
  BY <1>1
<1>9. QED
  BY <1>4, <1>7, <1>8 DEF new

\* One in which elements change that are not in the lane and do not join it.
LEMMA LaneSame ==
  ASSUME NEW K, NEW T, NEW queue \in Seq(T), NEW new \in Seq(T), Len(new) = Len(queue),
         \A j \in 1..Len(queue) : new[j] = queue[j] \/ (new[j] \notin K /\ queue[j] \notin K)
  PROVE  Lane(new, K) = Lane(queue, K)
<1> DEFINE n == Len(queue)
<1>1. n \in Nat
  BY LenProperties
<1>2. PICK f : IsLaneOf(f, queue, K)
  BY LaneTable
<1>3. PICK g : IsLaneOf(g, new, K)
  BY LaneTable
<1>4. /\ \A i \in 1..n : f[i] = IF queue[i] \in K THEN Append(f[i - 1], queue[i]) ELSE f[i - 1]
      /\ \A i \in 1..n : g[i] = IF new[i] \in K THEN Append(g[i - 1], new[i]) ELSE g[i - 1]
      /\ f[0] = <<>> /\ g[0] = <<>>
      /\ Lane(queue, K) = f[n] /\ Lane(new, K) = g[n]
  BY <1>2, <1>3 DEF IsLaneOf
<1> DEFINE S == {i \in 0..n : g[i] = f[i]}
<1>5. 0 \in S
  BY <1>1, <1>4
<1>6. ASSUME NEW i \in 1..n, i - 1 \in S
      PROVE  i \in S
  <2>1. i \in 0..n /\ g[i - 1] = f[i - 1]
    BY <1>1, <1>6
  <2>2. new[i] = queue[i] \/ (new[i] \notin K /\ queue[i] \notin K)
    OBVIOUS
  <2> HIDE DEF n
  <2>3. /\ f[i] = IF queue[i] \in K THEN Append(f[i - 1], queue[i]) ELSE f[i - 1]
        /\ g[i] = IF new[i] \in K THEN Append(g[i - 1], new[i]) ELSE g[i - 1]
    BY <1>4
  <2>4. g[i] = f[i]
    BY <2>1, <2>2, <2>3
  <2>5. QED
    BY <2>1, <2>4
<1>7. n \in S
  <2> HIDE DEF S, n
  <2>1. 0..n \subseteq S
    BY <1>1, <1>5, <1>6, Induction
  <2>2. QED
    BY <1>1, <2>1
<1>8. QED
  BY <1>4, <1>7

\* A queue without a single element of the kind.
LEMMA LaneNone ==
  ASSUME NEW K, NEW T, NEW queue \in Seq(T), \A j \in 1..Len(queue) : queue[j] \notin K
  PROVE  Lane(queue, K) = <<>>
<1> DEFINE n == Len(queue)
<1>1. n \in Nat
  BY LenProperties
<1>2. PICK f : IsLaneOf(f, queue, K)
  BY LaneTable
<1> DEFINE S == {i \in 0..n : f[i] = <<>>}
<1>3. 0 \in S
  BY <1>1, <1>2 DEF IsLaneOf
<1>4. ASSUME NEW i \in 1..n, i - 1 \in S
      PROVE  i \in S
  <2>1. i \in 0..n /\ f[i - 1] = <<>>
    BY <1>1, <1>4
  <2>2. f[i] = f[i - 1]
    BY <1>2 DEF IsLaneOf
  <2>3. QED
    BY <2>1, <2>2
<1>5. n \in S
  <2> HIDE DEF S, n
  <2>1. 0..n \subseteq S
    BY <1>1, <1>3, <1>4, Induction
  <2>2. QED
    BY <1>1, <2>1
<1>6. QED
  BY <1>2, <1>5 DEF IsLaneOf

\* Two lanes have no more in them than the queue.
LEMMA LaneLengths ==
  ASSUME NEW K, NEW L, K \cap L = {}, NEW T, NEW queue \in Seq(T)
  PROVE  Len(Lane(queue, K)) + Len(Lane(queue, L)) <= Len(queue)
<1> DEFINE n == Len(queue)
<1>1. n \in Nat
  BY LenProperties
<1>2. PICK f : IsLaneOf(f, queue, K)
  BY LaneTable
<1>3. PICK g : IsLaneOf(g, queue, L)
  BY LaneTable
<1> DEFINE total(i) == Len(f[i]) + Len(g[i])
           S == {i \in 0..n : total(i) <= i}
<1>4. 0 \in S
  BY <1>1, <1>2, <1>3 DEF IsLaneOf
<1> HIDE DEF total
<1>5. ASSUME NEW i \in 1..n, i - 1 \in S
      PROVE  i \in S
  <2>1. i \in 0..n /\ i - 1 \in 0..n /\ total(i - 1) <= i - 1
    BY <1>1, <1>5
  <2>2. /\ f[i - 1] \in Seq(K) /\ g[i - 1] \in Seq(L)
        /\ f[i] = IF queue[i] \in K THEN Append(f[i - 1], queue[i]) ELSE f[i - 1]
        /\ g[i] = IF queue[i] \in L THEN Append(g[i - 1], queue[i]) ELSE g[i - 1]
    BY <1>2, <1>3, <2>1 DEF IsLaneOf
  <2>3. /\ Len(f[i - 1]) \in Nat /\ Len(g[i - 1]) \in Nat
        /\ Len(f[i]) = IF queue[i] \in K THEN Len(f[i - 1]) + 1 ELSE Len(f[i - 1])
        /\ Len(g[i]) = IF queue[i] \in L THEN Len(g[i - 1]) + 1 ELSE Len(g[i - 1])
    BY <2>2, AppendProperties, LenProperties
  <2>4. ~(queue[i] \in K /\ queue[i] \in L)
    OBVIOUS
  <2>5. total(i) \in {total(i - 1), total(i - 1) + 1} /\ total(i - 1) \in Nat
    <3> DEFINE a == Len(f[i - 1])
               b == Len(g[i - 1])
    <3>1. a \in Nat /\ b \in Nat /\ total(i - 1) = a + b
      BY <2>3 DEF total
    <3>2. total(i) \in {a + b, (a + 1) + b, a + (b + 1)}
      BY <2>3, <2>4 DEF total
    <3> HIDE DEF a, b
    <3>3. QED
      BY <3>1, <3>2
  <2>6. total(i) <= i
    BY <2>1, <2>5
  <2>7. QED
    BY <2>1, <2>6
<1>6. n \in S
  <2> HIDE DEF S, n
  <2>1. 0..n \subseteq S
    BY <1>1, <1>4, <1>5, Induction
  <2>2. QED
    BY <1>1, <2>1
<1>7. QED
  BY <1>2, <1>3, <1>6 DEF IsLaneOf, total
=============================================================================
