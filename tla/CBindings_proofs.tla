--------------------------- MODULE CBindings_proofs ---------------------------
(***************************************************************************)
(* Safety of the enumeration and of the C bindings for any adapters,        *)
(* configurations, addresses and handles, any changes and failures.         *)
(***************************************************************************)
EXTENDS CBindings, FiniteSetTheorems, TLAPS

-----------------------------------------------------------------------------
(* Loops.  A fold is what its loop has come to after the last element; what *)
(* a loop computes is shown by looking for the first element after which it *)
(* does not.                                                                *)

LEMMA WellOrdered ==
    ASSUME NEW S \in SUBSET Nat, S # {}
    PROVE  \E n \in S : \A m \in S : n <= m
<1>1. PICK n \in S : \A m \in S : ~(<<m, n>> \in OpToRel(<, Nat))
  BY WFMin, NatLessThanWellFounded
<1>2. \A m \in S : ~(m < n)
  BY <1>1 DEF OpToRel
<1> QED BY <1>2

\* The first number of a set that is empty unless it has one.
LEMMA First ==
    ASSUME NEW S \in SUBSET Nat, 0 \notin S, S # {}
    PROVE  \E k \in Nat : k + 1 \in S /\ \A m \in S : k < m
<1>1. PICK n \in S : \A m \in S : n <= m
  BY WellOrdered
<1>2. n \in Nat /\ n # 0
  BY <1>1
<1>3. n - 1 \in Nat /\ (n - 1) + 1 = n
  BY <1>2
<1>4. \A m \in S : n - 1 < m
  BY <1>1, <1>2
<1> QED BY <1>1, <1>3, <1>4

LEMMA MaxIs ==
    ASSUME NEW n \in Nat, NEW S \in SUBSET (1 .. n), S # {}
    PROVE  Max(S) \in S /\ \A x \in S : x <= Max(S)
<1> DEFINE Bounds == {m \in Nat : \A x \in S : x <= m}
<1>1. n \in Bounds
  OBVIOUS
<1>2. PICK b \in Bounds : \A m \in Bounds : b <= m
  BY <1>1, WellOrdered
<1>3. b \in S
  <2>1. SUFFICES ASSUME b \notin S PROVE FALSE
    OBVIOUS
  <2>2. b \in Nat /\ \A x \in S : x \in Nat /\ x <= b /\ x # b /\ x # 0
    BY <1>2, <2>1
  <2>3. b - 1 \in Nat /\ \A x \in S : x <= b - 1
    <3>1. PICK x \in S : TRUE
      OBVIOUS
    <3>2. b # 0
      BY <2>2, <3>1
    <3>3. \A y \in S : y <= b - 1
      BY <2>2
    <3> QED BY <2>2, <3>2, <3>3
  <2>4. b - 1 \in Bounds
    BY <2>3
  <2>5. b <= b - 1
    <3> HIDE DEF Bounds
    <3> QED BY <1>2, <2>4
  <2> QED BY <2>2, <2>5
<1>4. b \in S /\ \A x \in S : b >= x
  BY <1>2, <1>3
<1>5. PICK c \in S : c = Max(S) /\ \A x \in S : c >= x
  BY <1>4 DEF Max
<1> QED BY <1>5

LEMMA MinIs ==
    ASSUME NEW S \in SUBSET Nat, S # {}
    PROVE  Min(S) \in S /\ \A x \in S : Min(S) <= x
BY WellOrdered DEF Min

LEMMA MaxOfPrefix ==
    ASSUME NEW k \in Nat, k # 0
    PROVE  Max(1 .. k) = k /\ (1 .. k) \ {k} = 1 .. k - 1
<1>1. k \in 1 .. k /\ 1 .. k \in SUBSET (1 .. k) /\ 1 .. k # {}
  OBVIOUS
<1>2. Max(1 .. k) \in 1 .. k /\ k <= Max(1 .. k)
  BY <1>1, MaxIs
<1> QED BY <1>2

\* What a loop over n elements has come to after those that are in a set.
IsLoop(f, V, base, step, n) ==
    /\ f \in [SUBSET (1 .. n) -> V]
    /\ \A t \in SUBSET (1 .. n) :
           f[t] = IF t = {} THEN base ELSE step[Max(t)][f[t \ {Max(t)}]]

LEMMA LoopExists ==
    ASSUME NEW V, NEW base \in V, NEW n \in Nat, NEW step \in [1 .. n -> [V -> V]]
    PROVE  \E f : IsLoop(f, V, base, step, n)
<1> DEFINE Failing == {k \in 0 .. n : ~ \E f : IsLoop(f, V, base, step, k)}
<1>1. SUFFICES ASSUME Failing # {} PROVE FALSE
  BY n \in 0 .. n
<1>2. 0 \notin Failing
  <2> DEFINE f == [t \in SUBSET (1 .. 0) |-> base]
  <2>1. SUBSET (1 .. 0) = {{}}
    OBVIOUS
  <2>2. IsLoop(f, V, base, step, 0)
    BY <2>1 DEF IsLoop
  <2> QED BY <2>2
<1>3. PICK k \in Nat : k + 1 \in Failing /\ \A m \in Failing : k < m
  <2>1. Failing \in SUBSET Nat
    OBVIOUS
  <2> HIDE DEF Failing
  <2> QED BY <1>1, <1>2, <2>1, First
<1>4. k \in 0 .. n /\ k \notin Failing /\ k + 1 \in 1 .. n
  BY <1>3
<1>5. PICK f : IsLoop(f, V, base, step, k)
  BY <1>4
<1> DEFINE g == [t \in SUBSET (1 .. k + 1) |->
                    IF k + 1 \in t THEN step[k + 1][f[t \ {k + 1}]] ELSE f[t]]
<1>6. ASSUME NEW t \in SUBSET (1 .. k + 1), k + 1 \in t
      PROVE  /\ Max(t) = k + 1
             /\ t \ {k + 1} \in SUBSET (1 .. k)
             /\ g[t] \in V
             /\ g[t] = step[Max(t)][g[t \ {Max(t)}]]
  <2>1. Max(t) \in t /\ k + 1 <= Max(t)
    BY <1>3, <1>6, MaxIs, k + 1 \in Nat
  <2>2. Max(t) = k + 1
    <3>1. Max(t) \in 1 .. k + 1 /\ k \in Nat
      BY <2>1
    <3> HIDE DEF Failing, g
    <3> QED BY <2>1, <3>1
  <2>3. t \ {k + 1} \in SUBSET (1 .. k)
    OBVIOUS
  <2>4. t \ {k + 1} \in SUBSET (1 .. k + 1)
    OBVIOUS
  <2>5. f[t \ {k + 1}] \in V /\ g[t \ {k + 1}] = f[t \ {k + 1}]
    BY <1>5, <2>3, <2>4 DEF IsLoop
  <2>6. g[t] = step[k + 1][f[t \ {k + 1}]]
    BY <1>6
  <2>7. g[t] \in V
    BY <1>4, <2>5, <2>6
  <2> HIDE DEF g
  <2> QED BY <2>2, <2>3, <2>5, <2>6, <2>7
<1>7. ASSUME NEW t \in SUBSET (1 .. k + 1), k + 1 \notin t
      PROVE  /\ g[t] \in V
             /\ g[t] = IF t = {} THEN base ELSE step[Max(t)][g[t \ {Max(t)}]]
  <2>1. t \in SUBSET (1 .. k)
    BY <1>7
  <2>2. g[t] = f[t]
    BY <1>7
  <2>3. f[t] \in V /\ f[t] = IF t = {} THEN base ELSE step[Max(t)][f[t \ {Max(t)}]]
    BY <1>5, <2>1 DEF IsLoop
  <2>4. g[t \ {Max(t)}] = f[t \ {Max(t)}]
    BY <1>7
  <2> HIDE DEF g
  <2> QED BY <2>2, <2>3, <2>4
<1>8. IsLoop(g, V, base, step, k + 1)
  <2>1. \A t \in SUBSET (1 .. k + 1) :
            /\ g[t] \in V
            /\ g[t] = IF t = {} THEN base ELSE step[Max(t)][g[t \ {Max(t)}]]
    <3> TAKE t \in SUBSET (1 .. k + 1)
    <3>1. CASE k + 1 \in t
      <4> HIDE DEF g
      <4> QED BY <1>6, <3>1
    <3>2. CASE k + 1 \notin t
      <4> HIDE DEF g
      <4> QED BY <1>7, <3>2
    <3> QED BY <3>1, <3>2
  <2>2. g = [t \in SUBSET (1 .. k + 1) |-> g[t]]
    OBVIOUS
  <2> HIDE DEF g
  <2> QED BY <2>1, <2>2 DEF IsLoop
<1>9. k + 1 \notin Failing
  BY <1>8
<1> QED BY <1>3, <1>9

-----------------------------------------------------------------------------
(* Two loops, by what they have come to after each element.                  *)

Lists == UNION {[names -> Interfaces] : names \in SUBSET Adapters}
AnyAddress == UNION {Range(s) : s \in Addresses}

\* What getifaddrs may return of an adapter.
Entries ==
    [name : Adapters, family : {"link"}, data : BOOLEAN]
        \cup [name : Adapters, family : {"inet"}, address : AnyAddress]

LEMMA ListsAreLists ==
    ASSUME NEW list
    PROVE  IsList(list) <=> list \in Lists
BY DEF IsList, Lists

LEMMA NoInterfacesIsList == NoInterfaces \in Lists
<1>1. NoInterfaces \in [{} -> Interfaces]
  BY DEF NoInterfaces
<1> QED BY <1>1 DEF Lists

LEMMA ExtendType ==
    ASSUME NEW list \in Lists, NEW a \in Adapters, NEW interface \in Interfaces
    PROVE  Extend(list, a, interface) \in Lists
<1>1. PICK names \in SUBSET Adapters : list \in [names -> Interfaces]
  BY DEF Lists
<1>2. Extend(list, a, interface) \in [names \cup {a} -> Interfaces]
  BY <1>1 DEF Extend
<1> QED BY <1>2 DEF Lists

LEMMA RecordType ==
    ASSUME NEW list \in Lists, NEW ifa \in Entries
    PROVE  Record(list, ifa) \in Lists
<1>1. PICK names \in SUBSET Adapters : list \in [names -> Interfaces]
  BY DEF Lists
<1>2. CASE IsLink(ifa)
  <2>1. [pass |-> "link", addresses |-> <<>>] \in Interfaces
    BY DEF Interfaces, Passes
  <2>2. ifa.name \in Adapters
    BY DEF Entries
  <2> QED BY <1>2, <2>1, <2>2, ExtendType DEF Record
<1>3. CASE ~IsLink(ifa) /\ ifa.family = "inet" /\ ifa.name \in DOMAIN list /\ ~Throws(ifa)
  <2>1. ifa.address \in AnyAddress
    BY <1>3 DEF Entries
  <2>2. list[ifa.name] \in [pass : Passes, addresses : Seq(AnyAddress)]
    BY <1>1, <1>3 DEF Interfaces, AnyAddress
  <2>3. list[ifa.name].addresses \o <<ifa.address>> \in Seq(AnyAddress)
    BY <2>1, <2>2
  <2>4. [list[ifa.name] EXCEPT !.addresses = @ \o <<ifa.address>>]
            \in [pass : Passes, addresses : Seq(AnyAddress)]
    BY <2>2, <2>3
  <2>5. [list EXCEPT ![ifa.name].addresses = @ \o <<ifa.address>>] \in [names -> Interfaces]
    BY <1>1, <1>3, <2>4 DEF Interfaces, AnyAddress
  <2>6. Record(list, ifa) = [list EXCEPT ![ifa.name].addresses = @ \o <<ifa.address>>]
    BY <1>3 DEF Record
  <2> QED BY <2>5, <2>6 DEF Lists
<1>4. CASE ~IsLink(ifa) /\ ~(ifa.family = "inet" /\ ifa.name \in DOMAIN list /\ ~Throws(ifa))
  BY <1>4 DEF Record
<1> QED BY <1>2, <1>3, <1>4

LEMMA RecordLoop ==
    ASSUME NEW s \in Seq(Entries)
    PROVE  \E r \in [0 .. Len(s) -> Lists] :
               /\ r[0] = NoInterfaces
               /\ \A k \in 1 .. Len(s) : r[k] = Record(r[k - 1], s[k])
               /\ FoldLeft(Record, NoInterfaces, s) = r[Len(s)]
<1> DEFINE n == Len(s)
           step == [i \in 1 .. n |-> [list \in Lists |-> Record(list, s[i])]]
           Value(f) == [t \in SUBSET (1 .. n) |->
                           IF t = {} THEN NoInterfaces
                           ELSE Record(f[t \ {Max(t)}], s[Max(t)])]
           F == CHOOSE f : f = Value(f)
           r == [k \in 0 .. n |-> F[1 .. k]]
<1>1. n \in Nat /\ DOMAIN s = 1 .. n /\ \A i \in 1 .. n : s[i] \in Entries
  OBVIOUS
<1>2. step \in [1 .. n -> [Lists -> Lists]]
  BY <1>1, RecordType
<1>3. PICK f : IsLoop(f, Lists, NoInterfaces, step, n)
  <2> HIDE DEF step, n
  <2> QED BY <1>1, <1>2, NoInterfacesIsList, LoopExists
<1>4. f = Value(f)
  <2>1. ASSUME NEW t \in SUBSET (1 .. n), t # {}
        PROVE  f[t] = Record(f[t \ {Max(t)}], s[Max(t)])
    <3>1. Max(t) \in 1 .. n
      <4> HIDE DEF n
      <4> QED BY <1>1, <2>1, MaxIs
    <3>2. f[t \ {Max(t)}] \in Lists /\ f[t] = step[Max(t)][f[t \ {Max(t)}]]
      <4> HIDE DEF step
      <4> QED BY <1>3, <2>1 DEF IsLoop
    <3> QED BY <3>1, <3>2
  <2>2. f \in [SUBSET (1 .. n) -> Lists] /\ f[{}] = NoInterfaces
    BY <1>3 DEF IsLoop
  <2> HIDE DEF n
  <2> QED BY <2>1, <2>2
<1>5. F = Value(F)
  <2> HIDE DEF Value
  <2> QED BY <1>4
<1>6. FoldLeft(Record, NoInterfaces, s) = F[1 .. n]
  BY <1>1 DEF FoldLeft, MapThenFoldSet
<1> HIDE DEF F, n
<1>7. F[1 .. 0] = NoInterfaces
  <2>1. 1 .. 0 = {} /\ {} \in SUBSET (1 .. n)
    OBVIOUS
  <2> QED BY <1>5, <2>1
<1>8. ASSUME NEW k \in 1 .. n
      PROVE  F[1 .. k] = Record(F[1 .. k - 1], s[k])
  <2>1. 1 .. k \in SUBSET (1 .. n) /\ 1 .. k # {} /\ k \in Nat /\ k # 0
    BY <1>1
  <2>2. Max(1 .. k) = k /\ (1 .. k) \ {k} = 1 .. k - 1
    BY <2>1, MaxOfPrefix
  <2>3. F[1 .. k] = Value(F)[1 .. k]
    BY <1>5
  <2>4. F[1 .. k] = Record(F[(1 .. k) \ {Max(1 .. k)}], s[Max(1 .. k)])
    BY <2>1, <2>3
  <2> QED BY <2>2, <2>4
<1>9. \A k \in 0 .. n : F[1 .. k] \in Lists
  <2> DEFINE Failing == {k \in 0 .. n : F[1 .. k] \notin Lists}
  <2>1. SUFFICES ASSUME Failing # {} PROVE FALSE
    OBVIOUS
  <2>2. 0 \notin Failing
    BY <1>7, NoInterfacesIsList
  <2>3. PICK k \in Nat : k + 1 \in Failing /\ \A m \in Failing : k < m
    <3>1. Failing \in SUBSET Nat
      BY <1>1
    <3> HIDE DEF Failing
    <3> QED BY <2>1, <2>2, <3>1, First
  <2>4. k + 1 \in 1 .. n /\ k \in 0 .. n /\ k \notin Failing
    BY <1>1, <2>3
  <2>5. F[1 .. k] \in Lists /\ (k + 1) - 1 = k
    BY <2>4
  <2>6. F[1 .. k + 1] \in Lists
    BY <1>1, <1>8, <2>4, <2>5, RecordType
  <2> QED BY <2>3, <2>6
<1>10. /\ r \in [0 .. n -> Lists]
       /\ r[0] = NoInterfaces
       /\ \A k \in 1 .. n : r[k] = Record(r[k - 1], s[k])
       /\ FoldLeft(Record, NoInterfaces, s) = r[n]
  <2>1. r \in [0 .. n -> Lists]
    BY <1>9
  <2>2. r[0] = NoInterfaces /\ r[n] = F[1 .. n]
    BY <1>1, <1>7
  <2>3. ASSUME NEW k \in 1 .. n
        PROVE  r[k] = Record(r[k - 1], s[k])
    <3>1. k \in 0 .. n /\ k - 1 \in 0 .. n
      BY <1>1
    <3>2. r[k] = F[1 .. k] /\ r[k - 1] = F[1 .. k - 1]
      BY <3>1
    <3> QED BY <1>8, <3>2
  <2> QED BY <1>6, <2>1, <2>2, <2>3
<1> QED BY <1>10 DEF n

LEMMA FlattenLoop ==
    ASSUME NEW X, NEW n \in Nat, NEW q \in [1 .. n -> Seq(X)]
    PROVE  \E f \in [0 .. n -> Seq(X)] :
               /\ f[0] = <<>>
               /\ \A k \in 1 .. n : f[k] = f[k - 1] \o q[k]
               /\ FlattenSeq(q) = f[n]
<1> DEFINE step == [i \in 1 .. n |-> [v \in Seq(X) |-> v \o q[i]]]
           Value(f) == [i \in 1 .. n |-> IF i = 1 THEN q[i] ELSE f[i - 1] \o q[i]]
           F == CHOOSE f : f = Value(f)
<1>1. step \in [1 .. n -> [Seq(X) -> Seq(X)]]
  OBVIOUS
<1>2. PICK h : IsLoop(h, Seq(X), <<>>, step, n)
  <2> HIDE DEF step
  <2> QED BY <1>1, LoopExists, <<>> \in Seq(X)
<1> DEFINE f == [k \in 0 .. n |-> h[1 .. k]]
<1>3. f \in [0 .. n -> Seq(X)] /\ f[0] = <<>>
  <2>1. \A k \in 0 .. n : 1 .. k \in SUBSET (1 .. n) /\ h[1 .. k] \in Seq(X)
    BY <1>2 DEF IsLoop
  <2>2. 1 .. 0 = {} /\ {} \in SUBSET (1 .. n)
    OBVIOUS
  <2>3. h[1 .. 0] = <<>>
    <3> HIDE DEF step, F, f
    <3> QED BY <1>2, <2>2 DEF IsLoop
  <2> QED BY <2>1, <2>3
<1>4. ASSUME NEW k \in 1 .. n
      PROVE  f[k] = f[k - 1] \o q[k] /\ f[k - 1] \in Seq(X)
  <2>1. 1 .. k \in SUBSET (1 .. n) /\ 1 .. k # {} /\ k \in Nat /\ k # 0
    <3> HIDE DEF step, Value, F, f
    <3>1. k \in Nat /\ k # 0 /\ k <= n
      OBVIOUS
    <3>2. k \in 1 .. k /\ \A i \in 1 .. k : i \in 1 .. n
      BY <3>1
    <3> QED BY <3>1, <3>2
  <2>2. Max(1 .. k) = k /\ (1 .. k) \ {k} = 1 .. k - 1
    BY <2>1, MaxOfPrefix
  <2>3. h[1 .. k] = step[k][h[1 .. k - 1]]
    <3> HIDE DEF step
    <3> QED BY <1>2, <2>1, <2>2 DEF IsLoop
  <2>4. k - 1 \in 0 .. n /\ k \in 0 .. n
    OBVIOUS
  <2>5. f[k] = h[1 .. k] /\ f[k - 1] = h[1 .. k - 1] /\ f[k - 1] \in Seq(X)
    BY <1>3, <2>4
  <2> QED BY <2>3, <2>5
<1> HIDE DEF f
<1>5. CASE n = 0
  <2>1. q = <<>> /\ Len(q) = 0
    BY <1>5
  <2>2. FlattenSeq(q) = f[n]
    BY <1>3, <1>5, <2>1 DEF FlattenSeq
  <2> QED BY <1>3, <1>4, <2>2
<1>6. CASE n # 0
  <2> DEFINE g == [i \in 1 .. n |-> f[i]]
  <2>1. g = Value(g)
    <3>1. ASSUME NEW i \in 1 .. n, i = 1
          PROVE  f[i] = q[i]
      <4>1. f[i] = f[i - 1] \o q[i] /\ i - 1 = 0
        BY <1>4, <3>1
      <4>2. q[i] \in Seq(X) /\ f[i - 1] = <<>>
        BY <1>3, <4>1
      <4> HIDE DEF step, Value, F, g
      <4> QED BY <4>1, <4>2
    <3>2. ASSUME NEW i \in 1 .. n, i # 1
          PROVE  g[i] = g[i - 1] \o q[i]
      <4>1. i - 1 \in 1 .. n
        BY <3>2
      <4> QED BY <1>4, <4>1
    <3> QED BY <3>1, <3>2
  <2>2. F = Value(F)
    <3> HIDE DEF Value
    <3> QED BY <2>1
  <2>3. Len(q) = n /\ Len(q) # 0
    BY <1>6
  <2>4. FlattenSeq(q) = F[n]
    BY <2>3 DEF FlattenSeq
  <2> HIDE DEF F
  <2>5. \A i \in 1 .. n : F[i] = f[i]
    <3> DEFINE Failing == {i \in 1 .. n : F[i] # f[i]}
    <3>1. SUFFICES ASSUME Failing # {} PROVE FALSE
      OBVIOUS
    <3>2. PICK i \in Nat : i + 1 \in Failing /\ \A m \in Failing : i < m
      <4>1. Failing \in SUBSET Nat /\ 0 \notin Failing
        OBVIOUS
      <4> HIDE DEF Failing
      <4> QED BY <3>1, <4>1, First
    <3>3. i + 1 \in 1 .. n /\ F[i + 1] # f[i + 1]
      BY <3>2
    <3>4. F[i + 1] = IF i + 1 = 1 THEN q[i + 1] ELSE F[(i + 1) - 1] \o q[i + 1]
      BY <2>2, <3>3
    <3>5. f[i + 1] = f[i] \o q[i + 1]
      BY <1>4, <3>3, (i + 1) - 1 = i
    <3> HIDE DEF g, Value, step
    <3>6. CASE i = 0
      <4>1. f[i + 1] = q[i + 1]
        <5>1. q[i + 1] \in Seq(X) /\ f[i] = <<>>
          BY <1>3, <3>3, <3>6
        <5> QED BY <3>5, <5>1
      <4> QED BY <3>3, <3>4, <3>6, <4>1
    <3>7. CASE i # 0
      <4>1. i \in 1 .. n /\ i \notin Failing
        BY <3>2, <3>3, <3>7
      <4>2. F[i] = f[i]
        BY <4>1
      <4>3. i + 1 # 1 /\ (i + 1) - 1 = i
        BY <3>7
      <4> QED BY <3>3, <3>4, <3>5, <4>2, <4>3
    <3> QED BY <3>6, <3>7
  <2>6. FlattenSeq(q) = f[n]
    BY <1>6, <2>4, <2>5, n \in 1 .. n
  <2> QED BY <1>3, <1>4, <2>6
<1> QED BY <1>5, <1>6

-----------------------------------------------------------------------------
(* What refreshInterfaces makes of the entries of getifaddrs.               *)

LEMMA SetToSeqOrders ==
    ASSUME NEW S, IsFiniteSet(S)
    PROVE  /\ Cardinality(S) \in Nat
           /\ SetToSeq(S) \in [1 .. Cardinality(S) -> S]
           /\ \A i, j \in 1 .. Cardinality(S) : SetToSeq(S)[i] = SetToSeq(S)[j] => i = j
           /\ \A a \in S : \E i \in 1 .. Cardinality(S) : SetToSeq(S)[i] = a
<1> DEFINE n == Cardinality(S)
<1>1. n \in Nat /\ ExistsBijection(1 .. n, S)
  BY FS_CardinalityType
<1>2. \E f \in [1 .. n -> S] : IsInjective(f)
  BY <1>1 DEF ExistsBijection, Bijection, Injection
<1>3. SetToSeq(S) \in [1 .. n -> S] /\ IsInjective(SetToSeq(S))
  BY <1>2 DEF SetToSeq
<1>4. SetToSeq(S) \in Injection(1 .. n, S)
  BY <1>3 DEF Injection
<1>5. Cardinality(1 .. n) = n
  BY <1>1, FS_Interval
<1> HIDE DEF n
<1>6. SetToSeq(S) \in Surjection(1 .. n, S)
  BY <1>4, <1>5, FS_Injection DEF n
<1> QED BY <1>1, <1>3, <1>6 DEF Surjection, IsInjective, n

\* The addresses of an adapter that IPAddress accepts.
Selection(a) ==
    [i \in DOMAIN system[a].addresses |->
        IF Readable(system[a].addresses[i]) THEN <<system[a].addresses[i]>> ELSE <<>>]
Selected(a) == FlattenSeq(Selection(a))

LEMMA SelectedLoop ==
    ASSUME NEW a, system[a].addresses \in Seq(AnyAddress)
    PROVE  \E g \in [0 .. Len(system[a].addresses) -> Seq(AnyAddress)] :
               /\ g[0] = <<>>
               /\ \A j \in 1 .. Len(system[a].addresses) :
                      g[j] = IF Readable(system[a].addresses[j])
                             THEN g[j - 1] \o <<system[a].addresses[j]>> ELSE g[j - 1]
               /\ Selected(a) = g[Len(system[a].addresses)]
<1> DEFINE n == Len(system[a].addresses)
<1>1. n \in Nat /\ DOMAIN system[a].addresses = 1 .. n
  OBVIOUS
<1>2. Selection(a) \in [1 .. n -> Seq(AnyAddress)]
  BY <1>1 DEF Selection
<1>3. PICK g \in [0 .. n -> Seq(AnyAddress)] :
          /\ g[0] = <<>>
          /\ \A k \in 1 .. n : g[k] = g[k - 1] \o Selection(a)[k]
          /\ FlattenSeq(Selection(a)) = g[n]
  <2> HIDE DEF n
  <2> QED BY <1>1, <1>2, FlattenLoop
<1>4. ASSUME NEW j \in 1 .. n
      PROVE  g[j] = IF Readable(system[a].addresses[j])
                    THEN g[j - 1] \o <<system[a].addresses[j]>> ELSE g[j - 1]
  <2>1. g[j] = g[j - 1] \o Selection(a)[j] /\ g[j - 1] \in Seq(AnyAddress)
    <3>1. j - 1 \in 0 .. n
      BY <1>1
    <3> HIDE DEF n
    <3> QED BY <1>3, <3>1
  <2>2. Selection(a)[j] = IF Readable(system[a].addresses[j])
                          THEN <<system[a].addresses[j]>> ELSE <<>>
    BY <1>1 DEF Selection
  <2>3. g[j - 1] \o <<>> = g[j - 1]
    BY <2>1
  <2> QED BY <2>1, <2>2, <2>3
<1> QED BY <1>3, <1>4 DEF Selected

\* One element each.
LEMMA Singles ==
    ASSUME NEW X, NEW x \in Seq(X)
    PROVE  FlattenSeq([i \in DOMAIN x |-> <<x[i]>>]) = x
<1> DEFINE n == Len(x)
           q == [i \in DOMAIN x |-> <<x[i]>>]
<1>1. n \in Nat /\ DOMAIN x = 1 .. n
  OBVIOUS
<1>2. q \in [1 .. n -> Seq(X)]
  BY <1>1
<1> HIDE DEF q
<1>3. PICK g \in [0 .. n -> Seq(X)] :
          /\ g[0] = <<>>
          /\ \A k \in 1 .. n : g[k] = g[k - 1] \o q[k]
          /\ FlattenSeq(q) = g[n]
  BY <1>1, <1>2, FlattenLoop
<1>4. \A j \in 1 .. n : g[j] = g[j - 1] \o <<x[j]>>
  BY <1>1, <1>3 DEF q
<1> DEFINE Copied(j) == Len(g[j]) = j /\ \A i \in 1 .. j : g[j][i] = x[i]
           Failing == {j \in 0 .. n : ~Copied(j)}
<1>5. Failing = {}
  <2>1. SUFFICES ASSUME Failing # {} PROVE FALSE
    OBVIOUS
  <2>2. 0 \notin Failing
    BY <1>3
  <2>3. PICK j \in Nat : j + 1 \in Failing /\ \A m \in Failing : j < m
    <3>1. Failing \in SUBSET Nat
      OBVIOUS
    <3> HIDE DEF Failing
    <3> QED BY <2>1, <2>2, <3>1, First
  <2>4. j + 1 \in 1 .. n /\ j \in 0 .. n /\ j \notin Failing /\ (j + 1) - 1 = j
    BY <1>1, <2>3
  <2>5. Copied(j) /\ g[j] \in Seq(X) /\ x[j + 1] \in X
    BY <1>1, <2>4
  <2>6. g[j + 1] = g[j] \o <<x[j + 1]>>
    BY <1>4, <2>4
  <2>7. Copied(j + 1)
    <3> DEFINE p == g[j]
               t == g[j + 1]
    <3>1. p \in Seq(X) /\ Len(p) = j /\ t = p \o <<x[j + 1]>> /\ x[j + 1] \in X
      BY <2>5, <2>6
    <3>2. \A i \in 1 .. j : p[i] = x[i]
      BY <2>5
    <3> HIDE DEF p, t
    <3>3. Len(t) = j + 1 /\ t[j + 1] = x[j + 1] /\ \A i \in 1 .. j : t[i] = p[i]
      BY <3>1
    <3>4. \A i \in 1 .. j + 1 : i \in 1 .. j \/ i = j + 1
      OBVIOUS
    <3>5. \A i \in 1 .. j + 1 : t[i] = x[i]
      BY <3>2, <3>3, <3>4
    <3> QED BY <3>3, <3>5 DEF t
  <2> QED BY <2>3, <2>7
<1>6. Copied(n) /\ g[n] \in Seq(X)
  BY <1>1, <1>5
<1>7. g[n] = x
  BY <1>1, <1>6
<1> QED BY <1>3, <1>7 DEF q

\* Elsewhere than on Unix, IPAddress accepts them all.
LEMMA SelectedWhole ==
    ASSUME NEW a, system[a].addresses \in Seq(AnyAddress), platform # "Unix"
    PROVE  Selected(a) = system[a].addresses
<1> DEFINE x == system[a].addresses
<1>1. Selected(a) = FlattenSeq([i \in DOMAIN x |-> <<x[i]>>])
  BY DEF Selected, Selection, Readable
<1>2. x \in Seq(AnyAddress)
  OBVIOUS
<1> HIDE DEF x
<1>3. FlattenSeq([i \in DOMAIN x |-> <<x[i]>>]) = x
  BY <1>2, Singles
<1> QED BY <1>1, <1>3 DEF x

Link(a) == [name |-> a, family |-> "link", data |-> a \notin Hidden]
Inets(a) == [i \in 1 .. Len(system[a].addresses) |->
                [name |-> a, family |-> "inet", address |-> system[a].addresses[i]]]

LEMMA RecordLink ==
    ASSUME NEW list, NEW a
    PROVE  Record(list, Link(a)) =
               IF platform = "iOS" \/ a \notin Hidden
               THEN Extend(list, a, [pass |-> "link", addresses |-> <<>>]) ELSE list
BY DEF Record, IsLink, Link

LEMMA RecordInet ==
    ASSUME NEW list, NEW a, NEW i \in 1 .. Len(system[a].addresses)
    PROVE  Record(list, Inets(a)[i]) =
               IF a \in DOMAIN list /\ Readable(system[a].addresses[i])
               THEN [list EXCEPT ![a].addresses = @ \o <<system[a].addresses[i]>>] ELSE list
<1> DEFINE ifa == [name |-> a, family |-> "inet", address |-> system[a].addresses[i]]
<1>1. Inets(a)[i] = ifa
  BY DEF Inets
<1>2. ~IsLink(ifa)
  BY DEF IsLink
<1>3. ~Throws(ifa) <=> Readable(system[a].addresses[i])
  BY DEF Throws, Readable
<1>4. ifa.family = "inet" /\ ifa.name = a /\ ifa.address = system[a].addresses[i]
  OBVIOUS
<1> HIDE DEF ifa
<1> QED BY <1>1, <1>2, <1>3, <1>4 DEF Record

\* The interfaces that are listed on Unix and iOS.
Shown == {a \in DOMAIN system : platform = "iOS" \/ a \notin Hidden}
Bare(some) == [a \in some |-> [pass |-> "link", addresses |-> <<>>]]
Full(some) == [a \in Shown |-> [pass |-> "link",
                                addresses |-> IF a \in some THEN Selected(a) ELSE <<>>]]

LEMMA IfaddrsRecorded ==
    ASSUME EnumTypeOK
    PROVE  /\ FoldLeft(Record, NoInterfaces, Ifaddrs) \in Lists
           /\ FoldLeft(Record, NoInterfaces, Ifaddrs) = Full(DOMAIN system)
<1> DEFINE S == DOMAIN system
           n == Cardinality(S)
           names == SetToSeq(S)
           links == [i \in 1 .. n |-> Link(names[i])]
           q == [i \in 1 .. n |-> Inets(names[i])]
<1>1. S \subseteq Adapters /\ \A a \in S : system[a].addresses \in Seq(AnyAddress)
  <2>1. \A s \in Addresses : s \in Seq(AnyAddress)
    <3> TAKE x \in Addresses
    <3>1. x \in Seq(Range(x)) /\ Range(x) \subseteq AnyAddress
      BY AddressesAssumption DEF AnyAddress
    <3> QED BY <3>1
  <2> QED BY <2>1 DEF EnumTypeOK, Configurations
<1>2. IsFiniteSet(S)
  BY <1>1, AdaptersAssumption, FS_Subset
<1>3. /\ n \in Nat
      /\ names \in [1 .. n -> S]
      /\ \A i, j \in 1 .. n : names[i] = names[j] => i = j
      /\ \A a \in S : \E i \in 1 .. n : names[i] = a
  BY <1>2, SetToSeqOrders
<1>4. Ifaddrs = links \o FlattenSeq(q)
  <2>1. DOMAIN names = 1 .. n
    BY <1>3
  <2>2. Ifaddrs = [i \in DOMAIN names |-> Link(names[i])]
                      \o FlattenSeq([i \in DOMAIN names |-> Inets(names[i])])
    BY DEF Ifaddrs, Link, Inets
  <2> QED BY <2>1, <2>2
<1> HIDE DEF n, names
<1>5. links \in Seq(Entries) /\ Len(links) = n
  <2>1. \A a \in S : Link(a) \in Entries
    BY <1>1 DEF Link, Entries
  <2> QED BY <1>3, <2>1
<1>6. q \in [1 .. n -> Seq(Entries)]
  <2>1. ASSUME NEW a \in S
        PROVE  Inets(a) \in Seq(Entries)
    <3>1. Len(system[a].addresses) \in Nat
      BY <1>1
    <3>2. \A i \in 1 .. Len(system[a].addresses) : system[a].addresses[i] \in AnyAddress
      BY <1>1
    <3>3. \A i \in 1 .. Len(system[a].addresses) : Inets(a)[i] \in Entries
      BY <1>1, <3>2 DEF Inets, Entries
    <3>4. Inets(a) \in [1 .. Len(system[a].addresses) -> Entries]
      BY <3>3 DEF Inets
    <3> QED BY <3>1, <3>4
  <2> QED BY <1>3, <2>1
<1>7. PICK F \in [0 .. n -> Seq(Entries)] :
          /\ F[0] = <<>>
          /\ \A k \in 1 .. n : F[k] = F[k - 1] \o q[k]
          /\ FlattenSeq(q) = F[n]
  <2>1. n \in Nat
    BY <1>3
  <2> HIDE DEF q, links
  <2> QED BY <2>1, <1>6, FlattenLoop
<1> DEFINE s == Ifaddrs
<1>8. s \in Seq(Entries) /\ s = links \o F[n] /\ F[n] \in Seq(Entries)
  <2>1. F[n] \in Seq(Entries)
    BY <1>3, <1>7
  <2> HIDE DEF links, q
  <2> QED BY <1>4, <1>5, <1>7, <2>1
<1> HIDE DEF s
<1>9. PICK r \in [0 .. Len(s) -> Lists] :
          /\ r[0] = NoInterfaces
          /\ \A k \in 1 .. Len(s) : r[k] = Record(r[k - 1], s[k])
          /\ FoldLeft(Record, NoInterfaces, s) = r[Len(s)]
  BY <1>8, RecordLoop
<1>10. /\ \A i \in 1 .. n : s[i] = links[i]
       /\ \A i \in 1 .. Len(F[n]) : s[n + i] = F[n][i]
       /\ Len(s) = n + Len(F[n])
       /\ Len(F[n]) \in Nat
  <2> HIDE DEF links
  <2> QED BY <1>3, <1>5, <1>8
\* After the links ...
<1>11. r[n] = Bare(Shown)
  <2> DEFINE Seen(k) == {a \in Shown : \E i \in 1 .. k : names[i] = a}
             Failing == {k \in 0 .. n : r[k] # Bare(Seen(k))}
  <2>1. Failing = {}
    <3>1. SUFFICES ASSUME Failing # {} PROVE FALSE
      OBVIOUS
    <3>2. 0 \notin Failing
      <4>1. Seen(0) = {}
        OBVIOUS
      <4> QED BY <1>9, <4>1 DEF Bare, NoInterfaces
    <3>3. PICK k \in Nat : k + 1 \in Failing /\ \A m \in Failing : k < m
      <4>1. Failing \in SUBSET Nat
        BY <1>3
      <4> HIDE DEF Failing
      <4> QED BY <3>1, <3>2, <4>1, First
    <3>4. k + 1 \in 1 .. n /\ k \in 0 .. n /\ r[k] = Bare(Seen(k)) /\ (k + 1) - 1 = k
      <4>1. k + 1 \in 0 .. n /\ k < k + 1 /\ k \notin Failing
        BY <3>3
      <4>2. k + 1 \in 1 .. n /\ k \in 0 .. n /\ (k + 1) - 1 = k
        <5> HIDE DEF Failing, links, q
        <5> QED BY <1>3, <4>1
      <4> HIDE DEF Seen
      <4> QED BY <4>1, <4>2
    <3> DEFINE a == names[k + 1]
    <3>5. a \in S /\ s[k + 1] = Link(a)
      BY <1>3, <1>10, <3>4
    <3>6. r[k + 1] = Record(r[k], s[k + 1])
      BY <1>3, <1>9, <1>10, <3>4
    <3> HIDE DEF Failing
    <3>7. \A b : (\E i \in 1 .. k + 1 : names[i] = b) <=> b = a \/ \E i \in 1 .. k : names[i] = b
      BY <3>4
    <3> HIDE DEF a
    <3>8. CASE a \in Shown
      <4>1. Seen(k + 1) = Seen(k) \cup {a}
        BY <3>7, <3>8
      <4>2. r[k + 1] = Extend(Bare(Seen(k)), a, [pass |-> "link", addresses |-> <<>>])
        BY <3>4, <3>5, <3>6, <3>8, RecordLink DEF Shown
      <4>3. r[k + 1] = Bare(Seen(k + 1))
        <5> HIDE DEF Seen
        <5> QED BY <4>1, <4>2 DEF Extend, Bare
      <4> QED BY <3>3, <4>3 DEF Failing
    <3>9. CASE a \notin Shown
      <4>1. Seen(k + 1) = Seen(k)
        BY <3>7, <3>9
      <4>2. r[k + 1] = Bare(Seen(k))
        BY <3>4, <3>5, <3>6, <3>9, RecordLink DEF Shown
      <4> QED BY <3>3, <4>1, <4>2 DEF Failing
    <3> QED BY <3>8, <3>9
  <2>2. r[n] = Bare(Seen(n))
    <3>1. n \in 0 .. n
      BY <1>3
    <3> HIDE DEF Seen
    <3> QED BY <2>1, <3>1
  <2>3. Seen(n) = Shown
    BY <1>3 DEF Shown
  <2> QED BY <2>2, <2>3
<1>12. \A i \in 1 .. n :
           /\ Len(F[i - 1]) \in Nat /\ Len(system[names[i]].addresses) \in Nat
           /\ Len(F[i]) = Len(F[i - 1]) + Len(system[names[i]].addresses)
           /\ Len(F[i - 1]) <= Len(F[i])
           /\ \A j \in 1 .. Len(F[i - 1]) : j \in 1 .. Len(F[i]) /\ F[i][j] = F[i - 1][j]
           /\ \A j \in 1 .. Len(system[names[i]].addresses) :
                  F[i][Len(F[i - 1]) + j] = Inets(names[i])[j]
  <2> TAKE i \in 1 .. n
  <2>1. names[i] \in S /\ system[names[i]].addresses \in Seq(AnyAddress)
    BY <1>1, <1>3
  <2>2. Len(system[names[i]].addresses) \in Nat
    BY <2>1
  <2>3. q[i] = Inets(names[i]) /\ q[i] \in Seq(Entries)
    BY <1>6
  <2>4. Len(Inets(names[i])) = Len(system[names[i]].addresses)
    BY <2>2 DEF Inets
  <2>5. i - 1 \in 0 .. n /\ i \in 0 .. n
    BY <1>3
  <2> HIDE DEF links, q
  <2>6. F[i - 1] \in Seq(Entries) /\ F[i] = F[i - 1] \o q[i]
    BY <1>7, <2>5
  <2> DEFINE u == F[i - 1]
             v == q[i]
  <2> HIDE DEF u, v, S
  <2>7. u \in Seq(Entries) /\ v \in Seq(Entries) /\ F[i] = u \o v
    BY <2>3, <2>6 DEF u, v
  <2>8. /\ Len(u) \in Nat
        /\ Len(F[i]) = Len(u) + Len(v)
        /\ Len(u) <= Len(F[i])
        /\ \A j \in 1 .. Len(u) : j \in 1 .. Len(F[i]) /\ F[i][j] = u[j]
        /\ \A j \in 1 .. Len(v) : F[i][Len(u) + j] = v[j]
    BY <2>7
  <2>9. Len(v) = Len(system[names[i]].addresses) /\ v = Inets(names[i])
    BY <2>3, <2>4 DEF v
  <2> QED BY <2>2, <2>8, <2>9 DEF u
<1>13. \A i \in 0 .. n : /\ Len(F[i]) \in Nat /\ Len(F[i]) <= Len(F[n])
                         /\ \A j \in 1 .. Len(F[i]) : F[n][j] = F[i][j]
  <2> DEFINE Begins(i) == /\ Len(F[i]) \in Nat /\ Len(F[i]) <= Len(F[n])
                          /\ \A j \in 1 .. Len(F[i]) : F[n][j] = F[i][j]
             Failing == {d \in 0 .. n : ~Begins(n - d)}
  <2>1. Failing = {}
    <3>1. SUFFICES ASSUME Failing # {} PROVE FALSE
      OBVIOUS
    <3>2. 0 \notin Failing
      <4>1. n - 0 = n
        BY <1>3
      <4>2. Begins(n)
        BY <1>10
      <4> QED BY <4>1, <4>2
    <3>3. PICK d \in Nat : d + 1 \in Failing /\ \A m \in Failing : d < m
      <4>1. Failing \in SUBSET Nat
        BY <1>3
      <4> HIDE DEF Failing
      <4> QED BY <3>1, <3>2, <4>1, First
    <3>4. d + 1 \in 0 .. n /\ ~Begins(n - (d + 1)) /\ d \notin Failing
      BY <3>3
    <3> HIDE DEF links, q
    <3>5. d \in 0 .. n /\ n - d \in 1 .. n /\ (n - d) - 1 = n - (d + 1)
      BY <1>3, <3>4
    <3>6. Begins(n - d)
      BY <3>4, <3>5
    <3> DEFINE i == n - d
    <3> HIDE DEF i
    <3>7. i \in 1 .. n /\ i - 1 = n - (d + 1) /\ Begins(i)
      BY <3>5, <3>6 DEF i
    <3>8. /\ Len(F[i - 1]) \in Nat /\ Len(F[i - 1]) <= Len(F[i])
          /\ \A j \in 1 .. Len(F[i - 1]) : j \in 1 .. Len(F[i]) /\ F[i][j] = F[i - 1][j]
      BY <1>12, <3>7
    <3>9. /\ Len(F[i]) \in Nat /\ Len(F[n]) \in Nat /\ Len(F[i]) <= Len(F[n])
          /\ \A j \in 1 .. Len(F[i]) : F[n][j] = F[i][j]
      BY <1>10, <3>7
    <3>10. Len(F[i - 1]) <= Len(F[n])
      <4>1. \A l, m, o \in Nat : l <= m /\ m <= o => l <= o
        OBVIOUS
      <4> HIDE DEF Failing, Begins, S
      <4> QED BY <3>8, <3>9, <4>1
    <3>11. Begins(i - 1)
      BY <3>8, <3>9, <3>10
    <3> QED BY <3>4, <3>7, <3>11
  <2> TAKE i \in 0 .. n
  <2>2. n - i \in 0 .. n /\ n - (n - i) = i
    BY <1>3
  <2>3. Begins(n - (n - i))
    <3> HIDE DEF Begins
    <3> QED BY <2>1, <2>2
  <2> QED BY <2>2, <2>3
\* ... and after the addresses of each adapter.
<1>14. \A i \in 0 .. n : r[n + Len(F[i])] = Full({names[m] : m \in 1 .. i})
  <2> HIDE DEF links, q
  <2> DEFINE Before(i) == {names[m] : m \in 1 .. i}
             Failing == {i \in 0 .. n : r[n + Len(F[i])] # Full(Before(i))}
  <2>1. SUFFICES ASSUME Failing # {} PROVE FALSE
    OBVIOUS
  <2>2. 0 \notin Failing
    <3>1. n + Len(F[0]) = n
      BY <1>3, <1>7
    <3>2. Before(0) = {}
      OBVIOUS
    <3> HIDE DEF Before
    <3> QED BY <1>11, <3>1, <3>2 DEF Bare, Full
  <2>3. PICK k \in Nat : k + 1 \in Failing /\ \A m \in Failing : k < m
    <3>1. Failing \in SUBSET Nat
      BY <1>3
    <3> HIDE DEF Failing
    <3> QED BY <2>1, <2>2, <3>1, First
  <2> HIDE DEF Before
  <2>4. /\ k + 1 \in 1 .. n /\ k \in 0 .. n /\ (k + 1) - 1 = k
        /\ r[n + Len(F[k])] = Full(Before(k))
    <3>1. k + 1 \in 0 .. n /\ k \notin Failing
      BY <2>3
    <3>2. k \in 0 .. n /\ k + 1 \in 1 .. n /\ (k + 1) - 1 = k
      <4> HIDE DEF Failing
      <4> QED BY <1>3, <3>1
    <3> QED BY <3>1, <3>2
  <2> DEFINE a == names[k + 1]
             x == system[a].addresses
             p == n + Len(F[k])
  <2>5. a \in S /\ a \notin Before(k) /\ Before(k + 1) = Before(k) \cup {a}
    <3>1. a \in S
      BY <1>3, <2>4
    <3>2. \A m \in 1 .. k : m \in 1 .. n /\ m # k + 1
      BY <1>3, <2>4
    <3>3. a \notin Before(k)
      BY <1>3, <2>4, <3>2 DEF Before
    <3>4. 1 .. k + 1 = (1 .. k) \cup {k + 1}
      BY <2>4
    <3>5. Before(k + 1) = Before(k) \cup {a}
      BY <3>4 DEF Before
    <3> QED BY <3>1, <3>3, <3>5
  <2>6. x \in Seq(AnyAddress) /\ Len(x) \in Nat
    BY <1>1, <2>5
  <2>7. /\ p \in Nat /\ n + Len(F[k + 1]) = p + Len(x) /\ p + Len(x) <= Len(s)
        /\ \A j \in 1 .. Len(x) : s[p + j] = Inets(a)[j]
    <3>1. Len(F[k]) \in Nat /\ Len(F[k + 1]) = Len(F[k]) + Len(x)
      BY <1>12, <2>4
    <3>2. \A j \in 1 .. Len(x) : F[k + 1][Len(F[k]) + j] = Inets(a)[j]
      BY <1>12, <2>4
    <3>3. k + 1 \in 0 .. n
      BY <2>4
    <3> HIDE DEF S, Failing
    <3>4. /\ Len(F[k + 1]) \in Nat /\ Len(F[k + 1]) <= Len(F[n])
          /\ \A j \in 1 .. Len(F[k + 1]) : F[n][j] = F[k + 1][j]
      BY <1>13, <3>3
    <3> HIDE DEF x, a
    <3>6. /\ p \in Nat /\ n + Len(F[k + 1]) = p + Len(x) /\ p + Len(x) <= Len(s)
      <4>1. n \in Nat /\ Len(F[n]) \in Nat /\ Len(x) \in Nat
        BY <1>3, <1>10, <2>6
      <4>2. Len(s) = n + Len(F[n]) /\ Len(F[k + 1]) = Len(F[k]) + Len(x)
        BY <1>10, <3>1
      <4> QED BY <3>1, <3>4, <4>1, <4>2
    <3>7. ASSUME NEW j \in 1 .. Len(x)
          PROVE  s[p + j] = Inets(a)[j]
      <4>1. Len(F[k]) + j \in 1 .. Len(F[k + 1]) /\ Len(F[k]) + j \in 1 .. Len(F[n])
        BY <1>10, <2>6, <3>1, <3>4
      <4>2. s[n + (Len(F[k]) + j)] = F[n][Len(F[k]) + j]
        BY <1>10, <4>1
      <4>3. n + (Len(F[k]) + j) = p + j
        BY <1>3, <2>6, <3>1
      <4> QED BY <3>2, <3>4, <4>1, <4>2, <4>3
    <3> QED BY <3>6, <3>7
  <2>8. PICK g \in [0 .. Len(x) -> Seq(AnyAddress)] :
            /\ g[0] = <<>>
            /\ \A j \in 1 .. Len(x) : g[j] = IF Readable(x[j])
                                            THEN g[j - 1] \o <<x[j]>> ELSE g[j - 1]
            /\ Selected(a) = g[Len(x)]
    BY <2>6, SelectedLoop
  <2> DEFINE Partial(j) ==
                 [b \in Shown |-> [pass |-> "link",
                                   addresses |-> IF b = a THEN g[j]
                                                 ELSE IF b \in Before(k) THEN Selected(b)
                                                 ELSE <<>>]]
  <2> HIDE DEF x, a, p, Failing
  <2>9. r[p + 0] = Partial(0)
    <3>1. p + 0 = p /\ r[p] = Full(Before(k))
      BY <2>4, <2>7 DEF p
    <3> QED BY <2>5, <2>8, <3>1 DEF Full
  <2>10. ASSUME NEW j \in Nat, j + 1 \in 1 .. Len(x), r[p + j] = Partial(j)
         PROVE  r[p + (j + 1)] = Partial(j + 1)
    <3>1. p + (j + 1) \in 1 .. Len(s) /\ (p + (j + 1)) - 1 = p + j
      BY <2>6, <2>7, <2>10
    <3>2. r[p + (j + 1)] = Record(Partial(j), Inets(a)[j + 1])
      BY <1>9, <2>7, <2>10, <3>1
    <3>9. j + 1 \in 1 .. Len(system[a].addresses) /\ DOMAIN Partial(j) = Shown
      BY <2>10 DEF x
    <3>3. r[p + (j + 1)] = IF a \in Shown /\ Readable(x[j + 1])
                           THEN [Partial(j) EXCEPT ![a].addresses = @ \o <<x[j + 1]>>]
                           ELSE Partial(j)
      <4> DEFINE list == Partial(j)
      <4> HIDE DEF list
      <4>1. Record(list, Inets(a)[j + 1]) =
                IF a \in DOMAIN list /\ Readable(x[j + 1])
                THEN [list EXCEPT ![a].addresses = @ \o <<x[j + 1]>>] ELSE list
        BY <3>9, RecordInet DEF x
      <4> QED BY <3>2, <3>9, <4>1 DEF list
    <3>4. (j + 1) - 1 = j
      OBVIOUS
    <3>5. g[j + 1] = IF Readable(x[j + 1]) THEN g[j] \o <<x[j + 1]>> ELSE g[j]
      BY <2>8, <2>10, <3>4
    <3>6. CASE a \in Shown /\ Readable(x[j + 1])
      BY <3>3, <3>5, <3>6
    <3>7. CASE a \notin Shown
      BY <3>3, <3>7
    <3>8. CASE ~Readable(x[j + 1])
      BY <3>3, <3>5, <3>8
    <3> QED BY <3>6, <3>7, <3>8
  <2>11. \A j \in 0 .. Len(x) : r[p + j] = Partial(j)
    <3> HIDE DEF Partial
    <3> DEFINE Wrong == {j \in 0 .. Len(x) : r[p + j] # Partial(j)}
    <3>1. SUFFICES ASSUME Wrong # {} PROVE FALSE
      OBVIOUS
    <3>2. Wrong \in SUBSET Nat /\ 0 \notin Wrong
      BY <2>6, <2>9
    <3>3. PICK j \in Nat : j + 1 \in Wrong /\ \A m \in Wrong : j < m
      <4> HIDE DEF Wrong
      <4> QED BY <3>1, <3>2, First
    <3>4. j + 1 \in 0 .. Len(x) /\ j \notin Wrong /\ r[p + (j + 1)] # Partial(j + 1)
      BY <3>3
    <3>5. j \in 0 .. Len(x) /\ j + 1 \in 1 .. Len(x)
      <4> HIDE DEF Wrong
      <4> QED BY <2>6, <3>4
    <3>6. r[p + j] = Partial(j)
      BY <3>4, <3>5
    <3> QED BY <2>10, <3>4, <3>5, <3>6
  <2>12. r[p + Len(x)] = Full(Before(k + 1))
    <3>1. Len(x) \in 0 .. Len(x)
      BY <2>6
    <3>2. r[p + Len(x)] = Partial(Len(x))
      <4> HIDE DEF Partial
      <4> QED BY <2>11, <3>1
    <3> QED BY <2>5, <2>8, <3>2 DEF Full
  <2> QED BY <2>3, <2>7, <2>12 DEF Failing
<1>15. r[Len(s)] = Full(S)
  <2> DEFINE All == {names[m] : m \in 1 .. n}
  <2>1. All \subseteq S /\ S \subseteq All
    <3> HIDE DEF S, links, q
    <3> QED BY <1>3
  <2>2. n \in 0 .. n
    BY <1>3
  <2>3. r[n + Len(F[n])] = Full(All)
    BY <1>14, <2>2
  <2> HIDE DEF All
  <2> QED BY <1>10, <2>1, <2>3
<1>16. Len(s) \in 0 .. Len(s)
  BY <1>3, <1>10
<1> QED BY <1>9, <1>15, <1>16 DEF s

-----------------------------------------------------------------------------
(* The enumeration.                                                         *)

LEMMA AddressesAreSequences ==
    ASSUME EnumTypeOK, NEW a \in DOMAIN system
    PROVE  a \in Adapters /\ system[a].active \in BOOLEAN /\ system[a].addresses \in Seq(AnyAddress)
<1>1. \A s \in Addresses : s \in Seq(AnyAddress)
  <2> TAKE x \in Addresses
  <2>1. x \in Seq(Range(x)) /\ Range(x) \subseteq AnyAddress
    BY AddressesAssumption DEF AnyAddress
  <2> QED BY <2>1
<1> QED BY <1>1 DEF EnumTypeOK, Configurations

LEMMA SizeType ==
    ASSUME EnumTypeOK
    PROVE  Size \in Nat
<1> DEFINE units(a) == {a} \X (0 .. Len(system[a].addresses))
           S == {units(a) : a \in Reported}
<1>1. Reported \subseteq Adapters
  BY DEF EnumTypeOK, Reported
<1>2. IsFiniteSet(Reported)
  BY <1>1, AdaptersAssumption, FS_Subset
<1>3. ASSUME NEW a \in Reported
      PROVE  IsFiniteSet(units(a))
  <2>1. Len(system[a].addresses) \in Nat
    BY AddressesAreSequences DEF Reported
  <2>2. IsFiniteSet(0 .. Len(system[a].addresses))
    BY <2>1, FS_Interval
  <2>3. IsFiniteSet({a})
    BY FS_Singleton
  <2> QED BY <2>2, <2>3, FS_Product
<1>4. IsFiniteSet(S)
  <2> HIDE DEF units
  <2>1. [a \in Reported |-> units(a)] \in Surjection(Reported, S)
    BY DEF Surjection
  <2> HIDE DEF S
  <2> QED BY <1>2, <2>1, FS_Surjection
<1>5. IsFiniteSet(UNION S)
  <2>1. \A T \in S : IsFiniteSet(T)
    BY <1>3
  <2> HIDE DEF S
  <2> QED BY <1>4, <2>1, FS_UNION
<1> QED BY <1>5, FS_CardinalityType DEF Size

LEMMA EnumTypeStep ==
    ASSUME EnumTypeOK, EnumNext
    PROVE  EnumTypeOK'
<1> USE BoundsAssumption
<1> DEFINE Stages == {"idle", "query", "next", "size", "read", "giveUp", "sizeAPI",
                      "readAPI", "publish"}
           Rest == /\ platform' \in Platforms
                   /\ DOMAIN system' \subseteq Adapters /\ system' \in [DOMAIN system' -> Configurations]
                   /\ changes' \in 0 .. MaxChanges
                   /\ failures' \in 0 .. MaxFailures
<1>1. interfaces \in Lists /\ table \in Lists /\ at \in Stages
  BY ListsAreLists DEF EnumTypeOK
<1>2. SUFFICES /\ Rest
               /\ comGuard' \in BOOLEAN
               /\ at' \in Stages
               /\ waiting' \subseteq Adapters
               /\ ulSize' \in Nat
               /\ interfaces' \in Lists /\ table' \in Lists
               /\ steady' \subseteq Adapters
               /\ cut' \in BOOLEAN
  BY DEF EnumTypeOK, IsList, Lists
<1>3. UNCHANGED environment => Rest
  BY DEF EnumTypeOK, environment
<1>4. Fails => Rest
  BY DEF EnumTypeOK, Fails
<1>5. Size \in Nat
  BY SizeType
<1>6. Reported \subseteq Adapters /\ \A a \in Reported : system[a].addresses \in Seq(AnyAddress)
  BY AddressesAreSequences DEF Reported
<1>7. CASE SystemChanges
  <2>1. PICK a \in Adapters :
            /\ \/ system' = [b \in DOMAIN system \ {a} |-> system[b]]
               \/ \E c \in Configurations :
                      system' = [b \in DOMAIN system \cup {a} |->
                                    IF b = a THEN c ELSE system[b]]
            /\ steady' = steady \ {a}
    BY <1>7 DEF SystemChanges
  <2>2. Rest
    BY <1>7, <2>1 DEF SystemChanges, EnumTypeOK
  <2> HIDE DEF Rest
  <2> QED BY <1>1, <1>7, <2>1, <2>2 DEF SystemChanges, EnumTypeOK
<1> HIDE DEF Rest
<1>8. CASE InitialiseCom
  BY <1>1, <1>3, <1>8 DEF InitialiseCom, Go, EnumTypeOK, history
<1>9. CASE RefreshIfaddrs
  BY <1>1, <1>3, <1>9, IfaddrsRecorded DEF RefreshIfaddrs, Go, EnumTypeOK
<1>10. CASE IfaddrsFail
  BY <1>1, <1>4, <1>10, NoInterfacesIsList DEF IfaddrsFail, Go, EnumTypeOK
<1>11. CASE Refresh
  BY <1>1, <1>3, <1>11, NoInterfacesIsList DEF Refresh, Go, EnumTypeOK
<1>12. CASE Query
  BY <1>1, <1>3, <1>12 DEF Query, Go, EnumTypeOK, history
<1>13. CASE QueryFails
  BY <1>1, <1>4, <1>13 DEF QueryFails, Go, EnumTypeOK, history
<1>14. CASE NextAdapter
  <2>1. PICK a \in waiting :
            /\ Go("next", "next")
            /\ waiting' = waiting \ {a}
            /\ interfaces' = IF a \notin Hidden /\ Supported(a)
                             THEN Extend(interfaces, a, [pass |-> "WMI", addresses |-> <<>>])
                             ELSE interfaces
            /\ UNCHANGED <<environment, comGuard, ulSize, table, history>>
    BY <1>14 DEF NextAdapter
  <2>2. [pass |-> "WMI", addresses |-> <<>>] \in Interfaces /\ a \in Adapters
    BY DEF Interfaces, Passes, EnumTypeOK
  <2>3. interfaces' \in Lists
    BY <1>1, <2>1, <2>2, ExtendType
  <2> QED BY <1>1, <1>3, <2>1, <2>3 DEF Go, EnumTypeOK, history
<1>15. CASE AdapterFails
  BY <1>1, <1>4, <1>15 DEF AdapterFails, Go, EnumTypeOK
<1>16. CASE NoMoreAdapters
  BY <1>1, <1>3, <1>16 DEF NoMoreAdapters, Go, EnumTypeOK, history
<1>17. CASE NextFails
  BY <1>1, <1>4, <1>17 DEF NextFails, Go, EnumTypeOK
<1>18. CASE AskSize
  BY <1>1, <1>3, <1>5, <1>18 DEF AskSize, Go, EnumTypeOK, history
<1>19. CASE ReadAddresses
  <2> DEFINE names == DOMAIN interfaces \cup {l \in Reported : Type[l] = "Loopback"}
  <2>1. names \subseteq Adapters
    BY <1>6 DEF EnumTypeOK, IsList
  <2>2. interfaces' = [a \in names |->
            [pass |-> IF a \in DOMAIN interfaces THEN "WMI" ELSE "addresses",
             addresses |-> IF a \in Reported THEN system[a].addresses ELSE <<>>]]
    BY <1>19 DEF ReadAddresses
  <2> HIDE DEF names
  <2>3. interfaces' \in [names -> Interfaces]
    BY <1>6, <2>2 DEF Interfaces, Passes, AnyAddress
  <2>4. interfaces' \in Lists
    BY <2>1, <2>3 DEF Lists
  <2> QED BY <1>1, <1>3, <1>19, <2>4 DEF ReadAddresses, Go, EnumTypeOK, history
<1>20. CASE ReadAddressesFails
  BY <1>1, <1>3, <1>4, <1>20 DEF ReadAddressesFails, DoesNotFit, Go, EnumTypeOK, history
<1>21. CASE GiveUpWMI
  BY <1>1, <1>3, <1>21, NoInterfacesIsList DEF GiveUpWMI, Go, EnumTypeOK, history
<1>22. CASE ReadWinAPI
  <2> DEFINE names == DOMAIN interfaces \cup {l \in Reported : Supported(l)}
  <2>1. names \subseteq Adapters
    BY <1>6 DEF EnumTypeOK, IsList
  <2>2. interfaces' = [a \in names |->
            IF a \in DOMAIN interfaces THEN interfaces[a]
            ELSE [pass |-> "WinAPI", addresses |-> system[a].addresses]]
    BY <1>22 DEF ReadWinAPI
  <2>3. interfaces \in [DOMAIN interfaces -> Interfaces]
    BY DEF EnumTypeOK, IsList
  <2>4. \A a \in names : a \notin DOMAIN interfaces => a \in Reported
    OBVIOUS
  <2> HIDE DEF names
  <2>5. interfaces' \in [names -> Interfaces]
    BY <1>6, <2>2, <2>3, <2>4 DEF Interfaces, Passes, AnyAddress
  <2>6. interfaces' \in Lists
    BY <2>1, <2>5 DEF Lists
  <2> QED BY <1>1, <1>3, <1>22, <2>6 DEF ReadWinAPI, Go, EnumTypeOK, history
<1>23. CASE ReadWinAPIFails
  BY <1>1, <1>3, <1>4, <1>23 DEF ReadWinAPIFails, DoesNotFit, Go, EnumTypeOK, history
<1>24. CASE Publish
  BY <1>1, <1>3, <1>24, NoInterfacesIsList DEF Publish, Go, EnumTypeOK, history
<1> QED BY <1>7, <1>8, <1>9, <1>10, <1>11, <1>12, <1>13, <1>14, <1>15, <1>16, <1>17, <1>18,
           <1>19, <1>20, <1>21, <1>22, <1>23, <1>24 DEF EnumNext, Enumerate

\* COM is what the first pass on Windows needs, and there is no other pass
\* elsewhere.  The second is entered with a list that is empty.
Passing ==
    /\ platform # "Windows" => at \in {"idle", "publish"} /\ ~comGuard
    /\ at \in {"query", "next", "size", "read", "giveUp"} => comGuard
    /\ at \in {"query", "sizeAPI", "readAPI"} => interfaces = NoInterfaces
    /\ at \in {"sizeAPI", "readAPI"} => ~comGuard

\* The adapters that WMI lists, of those that do not change.
ByWMI(a) == a \in DOMAIN system /\ Type[a] # "Loopback" /\ Supported(a) /\ a \notin Hidden

\* What WMI has returned so far, unless a call has failed.
Returned ==
    ~cut =>
        /\ at = "next" =>
               \A a \in steady :
                   /\ a \in waiting => a \in DOMAIN system /\ Type[a] # "Loopback"
                   /\ a \in DOMAIN interfaces <=> ByWMI(a) /\ a \notin waiting
        /\ at \in {"size", "read"} =>
               \A a \in steady : a \in DOMAIN interfaces <=> ByWMI(a)

EnumInv == EnumTypeOK /\ Passing /\ Returned /\ NeverMixed /\ SteadyAdaptersListed

LEMMA ListedIs ==
    ASSUME EnumTypeOK, Passing, NEW a
    PROVE  /\ platform # "Windows" => (Listed(a) <=> a \in Shown)
           /\ platform = "Windows" /\ comGuard =>
                  (Listed(a) <=> /\ a \in DOMAIN system
                                 /\ IF Type[a] = "Loopback" THEN system[a].active
                                    ELSE Supported(a) /\ a \notin Hidden)
           /\ platform = "Windows" /\ ~comGuard =>
                  (Listed(a) <=> a \in DOMAIN system /\ Supported(a) /\ system[a].active)
<1>1. platform \in {"Unix", "iOS", "Windows"}
  BY PlatformsAssumption DEF EnumTypeOK
<1> QED BY <1>1 DEF Listed, Shown

LEMMA ListedAddressesIs ==
    ASSUME EnumTypeOK, NEW a \in DOMAIN system
    PROVE  /\ platform # "Windows" => ListedAddresses(a) = Selected(a)
           /\ platform = "Windows" =>
                  ListedAddresses(a) = IF system[a].active THEN system[a].addresses ELSE <<>>
<1>1. platform = "Windows" => Selected(a) = system[a].addresses
  BY AddressesAreSequences, SelectedWhole
<1> QED BY <1>1 DEF ListedAddresses, Selected, Selection

\* What the properties say of an adapter depends on that adapter only.
LEMMA OthersChange ==
    ASSUME SystemChanges, NEW a \in steady'
    PROVE  /\ a \in steady
           /\ a \in DOMAIN system' <=> a \in DOMAIN system
           /\ Listed(a)' <=> Listed(a)
           /\ Listed(a) => ListedAddresses(a)' = ListedAddresses(a)
           /\ ByWMI(a)' <=> ByWMI(a)
<1>1. PICK b \in Adapters :
          /\ \/ system' = [c \in DOMAIN system \ {b} |-> system[c]]
             \/ \E c \in Configurations :
                    system' = [d \in DOMAIN system \cup {b} |-> IF d = b THEN c ELSE system[d]]
          /\ steady' = steady \ {b}
  BY DEF SystemChanges
<1>2. a \in steady /\ a # b
  BY <1>1
<1>3. a \in DOMAIN system' <=> a \in DOMAIN system
  BY <1>1, <1>2
<1>4. a \in DOMAIN system => system'[a] = system[a]
  BY <1>1, <1>2
<1>5. platform' = platform /\ comGuard' = comGuard
  BY DEF SystemChanges
<1>6. Listed(a)' <=> Listed(a)
  BY <1>3, <1>4, <1>5 DEF Listed, Supported
<1>7. ASSUME a \in DOMAIN system
      PROVE  ListedAddresses(a)' = ListedAddresses(a)
  <2>1. \A x : Readable(x)' <=> Readable(x)
    BY <1>5 DEF Readable
  <2> DEFINE selection(s) == [i \in DOMAIN s |-> IF Readable(s[i]) THEN <<s[i]>> ELSE <<>>]
  <2>2. ListedAddresses(a) = IF platform = "Windows" /\ ~system[a].active THEN <<>>
                             ELSE FlattenSeq(selection(system[a].addresses))
    BY DEF ListedAddresses
  <2>3. ListedAddresses(a)' = IF platform' = "Windows" /\ ~system'[a].active THEN <<>>
                              ELSE FlattenSeq([i \in DOMAIN system'[a].addresses |->
                                      IF Readable(system[a].addresses[i])'
                                      THEN <<system'[a].addresses[i]>> ELSE <<>>])
    BY DEF ListedAddresses
  <2> QED BY <1>4, <1>5, <1>7, <2>1, <2>2, <2>3
<1>8. ByWMI(a)' <=> ByWMI(a)
  BY <1>3 DEF ByWMI, Supported
<1> QED BY <1>2, <1>3, <1>6, <1>7, <1>8 DEF Listed

LEMMA EnumInit_Inv ==
    ASSUME Init
    PROVE  EnumInv
<1>1. NoInterfaces \in Lists
  BY NoInterfacesIsList
<1>2. IsList(NoInterfaces)
  BY <1>1, ListsAreLists
<1>3. EnumTypeOK
  <2>1. DOMAIN system \subseteq Adapters /\ system \in [DOMAIN system -> Configurations]
    BY SystemsAssumption DEF Init, EnumInit
  <2>2. IsList(interfaces) /\ IsList(table)
    BY <1>2 DEF Init, EnumInit
  <2>3. 0 \in 0 .. MaxChanges /\ 0 \in 0 .. MaxFailures
    BY BoundsAssumption
  <2> QED BY <2>1, <2>2, <2>3 DEF Init, EnumInit, EnumTypeOK
<1> QED BY <1>3 DEF Init, EnumInit, EnumInv, Passing, Returned, NeverMixed, SteadyAdaptersListed

LEMMA PassingStep ==
    ASSUME EnumInv, EnumNext
    PROVE  Passing'
<1> USE DEF EnumInv, Passing, Go, environment
<1>1. CASE SystemChanges
  BY <1>1 DEF SystemChanges
<1>2. CASE InitialiseCom
  BY <1>2 DEF InitialiseCom
<1>3. CASE RefreshIfaddrs \/ IfaddrsFail
  BY <1>3 DEF RefreshIfaddrs, IfaddrsFail, Fails
<1>4. CASE Refresh
  BY <1>4 DEF Refresh
<1>5. CASE Query \/ QueryFails
  BY <1>5 DEF Query, QueryFails, Fails
<1>6. CASE NextAdapter \/ AdapterFails
  BY <1>6 DEF NextAdapter, AdapterFails, Fails
<1>7. CASE NoMoreAdapters \/ NextFails
  BY <1>7 DEF NoMoreAdapters, NextFails, Fails
<1>8. CASE AskSize
  BY <1>8 DEF AskSize
<1>9. CASE ReadAddresses \/ ReadAddressesFails
  BY <1>9 DEF ReadAddresses, ReadAddressesFails, DoesNotFit, Fails
<1>10. CASE GiveUpWMI
  BY <1>10 DEF GiveUpWMI
<1>11. CASE ReadWinAPI \/ ReadWinAPIFails
  BY <1>11 DEF ReadWinAPI, ReadWinAPIFails, DoesNotFit, Fails
<1>12. CASE Publish
  BY <1>12 DEF Publish
<1> QED BY <1>1, <1>2, <1>3, <1>4, <1>5, <1>6, <1>7, <1>8, <1>9, <1>10, <1>11, <1>12
        DEF EnumNext, Enumerate

LEMMA ReturnedStep ==
    ASSUME EnumInv, EnumNext
    PROVE  Returned'
<1> USE DEF Go, environment, history
<1>0. EnumTypeOK /\ Passing /\ Returned
  BY DEF EnumInv
<1>1. CASE SystemChanges
  <2>1. /\ at' = at /\ cut' = cut /\ waiting' = waiting /\ interfaces' = interfaces
    BY <1>1 DEF SystemChanges
  <2>2. \A a \in steady' : /\ a \in steady
                           /\ a \in DOMAIN system' <=> a \in DOMAIN system
                           /\ ByWMI(a)' <=> ByWMI(a)
    BY <1>1, OthersChange
  <2> QED BY <1>0, <2>1, <2>2 DEF Returned
<1>2. ASSUME UNCHANGED system, NEW a
      PROVE  ByWMI(a)' <=> ByWMI(a)
  BY <1>2 DEF ByWMI, Supported
<1>3. CASE at' \notin {"next", "size", "read"}
  BY <1>3 DEF Returned
<1>4. CASE Query
  <2>1. interfaces = NoInterfaces /\ DOMAIN interfaces = {}
    BY <1>0, <1>4 DEF Query, Passing, NoInterfaces
  <2>2. \A a \in steady : /\ a \in waiting' <=> a \in DOMAIN system /\ Type[a] # "Loopback"
                          /\ ByWMI(a) => a \in waiting'
    BY <1>4 DEF Query, ByWMI
  <2>3. at' = "next" /\ UNCHANGED <<system, interfaces, steady, cut>>
    BY <1>4 DEF Query
  <2> QED BY <1>2, <2>1, <2>2, <2>3 DEF Returned
<1>5. CASE NextAdapter
  <2>1. PICK b \in waiting :
            /\ at = "next" /\ at' = "next"
            /\ waiting' = waiting \ {b}
            /\ interfaces' = IF b \notin Hidden /\ Supported(b)
                             THEN Extend(interfaces, b, [pass |-> "WMI", addresses |-> <<>>])
                             ELSE interfaces
            /\ UNCHANGED <<system, steady, cut>>
    BY <1>5 DEF NextAdapter
  <2>2. DOMAIN interfaces' = DOMAIN interfaces
                                 \cup (IF b \notin Hidden /\ Supported(b) THEN {b} ELSE {})
    BY <2>1 DEF Extend
  <2>3. SUFFICES ASSUME ~cut, NEW a \in steady
                 PROVE  /\ a \in waiting' => a \in DOMAIN system' /\ Type[a] # "Loopback"
                        /\ a \in DOMAIN interfaces' <=> ByWMI(a)' /\ a \notin waiting'
    BY <2>1 DEF Returned
  <2>4. /\ a \in waiting => a \in DOMAIN system /\ Type[a] # "Loopback"
        /\ a \in DOMAIN interfaces <=> ByWMI(a) /\ a \notin waiting
    BY <1>0, <2>1, <2>3 DEF Returned
  <2>5. ByWMI(a)' <=> ByWMI(a)
    BY <1>2, <2>1
  <2>6. CASE a = b
    BY <2>1, <2>2, <2>4, <2>5, <2>6 DEF ByWMI
  <2>7. CASE a # b
    BY <2>1, <2>2, <2>4, <2>5, <2>7
  <2> QED BY <2>6, <2>7
<1>6. CASE AdapterFails \/ NextFails
  BY <1>6 DEF AdapterFails, NextFails, Returned
<1>7. CASE NoMoreAdapters
  BY <1>0, <1>2, <1>7 DEF NoMoreAdapters, Returned
<1>8. CASE AskSize
  BY <1>0, <1>2, <1>8 DEF AskSize, Returned
<1> QED BY <1>1, <1>3, <1>4, <1>5, <1>6, <1>7, <1>8
        DEF EnumNext, Enumerate, InitialiseCom, RefreshIfaddrs, IfaddrsFail, Refresh, QueryFails,
            ReadAddresses, ReadAddressesFails, GiveUpWMI, ReadWinAPI, ReadWinAPIFails, Publish

LEMMA PublicationStep ==
    ASSUME EnumInv, EnumNext
    PROVE  NeverMixed' /\ SteadyAdaptersListed'
<1> USE DEF Go, environment, history
<1>0. EnumTypeOK /\ Passing /\ Returned /\ NeverMixed /\ SteadyAdaptersListed /\ Passing'
      /\ EnumTypeOK'
  BY EnumTypeStep, PassingStep DEF EnumInv
<1>1. CASE SystemChanges
  <2>1. at' = at /\ cut' = cut /\ interfaces' = interfaces /\ comGuard' = comGuard
    BY <1>1 DEF SystemChanges
  <2>2. \A a \in steady' : /\ a \in steady
                           /\ Listed(a)' <=> Listed(a)
                           /\ Listed(a) => ListedAddresses(a)' = ListedAddresses(a)
    BY <1>1, OthersChange
  <2> QED BY <1>0, <2>1, <2>2 DEF NeverMixed, SteadyAdaptersListed
<1>2. CASE at' # "publish"
  BY <1>2 DEF NeverMixed, SteadyAdaptersListed
<1>3. ASSUME UNCHANGED <<platform, system, comGuard>>, NEW a
      PROVE  /\ Listed(a)' <=> Listed(a)
             /\ ListedAddresses(a)' = ListedAddresses(a)
  <2>1. Listed(a)' <=> Listed(a)
    BY <1>3 DEF Listed, Supported
  <2>2. ListedAddresses(a)' = ListedAddresses(a)
    BY <1>3 DEF ListedAddresses, Readable
  <2> QED BY <2>1, <2>2
<1>4. CASE RefreshIfaddrs
  <2>1. /\ platform # "Windows" /\ ~comGuard
        /\ interfaces' = Full(DOMAIN system)
        /\ UNCHANGED <<platform, system, comGuard>>
    BY <1>0, <1>4, IfaddrsRecorded DEF RefreshIfaddrs, Passing
  <2>2. NeverMixed'
    BY <2>1 DEF NeverMixed, Full
  <2>3. \A a : Listed(a) <=> a \in Shown
    BY <1>0, <2>1, ListedIs
  <2>4. \A a \in Shown : interfaces'[a].addresses = ListedAddresses(a)
    BY <1>0, <2>1, ListedAddressesIs DEF Full, Shown
  <2>5. DOMAIN interfaces' = Shown
    BY <2>1 DEF Full
  <2> QED BY <1>3, <2>1, <2>2, <2>3, <2>4, <2>5 DEF SteadyAdaptersListed
<1>5. CASE IfaddrsFail \/ ReadWinAPIFails
  <2>1. cut' = TRUE /\ at' = "publish" /\ interfaces' = NoInterfaces
    BY <1>0, <1>5 DEF IfaddrsFail, ReadWinAPIFails, Passing
  <2> QED BY <2>1 DEF NeverMixed, SteadyAdaptersListed, NoInterfaces
<1>6. CASE ReadAddresses
  <2>1. /\ platform = "Windows" /\ comGuard
        /\ UNCHANGED <<platform, system, comGuard, steady, cut>>
        /\ interfaces' = [a \in DOMAIN interfaces
                                    \cup {l \in Reported : Type[l] = "Loopback"} |->
               [pass |-> IF a \in DOMAIN interfaces THEN "WMI" ELSE "addresses",
                addresses |-> IF a \in Reported THEN system[a].addresses ELSE <<>>]]
    BY <1>0, <1>6 DEF ReadAddresses, Passing
  <2>2. NeverMixed'
    BY <2>1 DEF NeverMixed
  <2>3. ASSUME ~cut, NEW a \in steady
        PROVE  /\ a \in DOMAIN interfaces' <=> Listed(a)
               /\ Listed(a) => interfaces'[a].addresses = ListedAddresses(a)
    <3>1. a \in DOMAIN interfaces <=> ByWMI(a)
      BY <1>0, <1>6, <2>3 DEF ReadAddresses, Returned
    <3>2. Listed(a) <=> /\ a \in DOMAIN system
                        /\ IF Type[a] = "Loopback" THEN system[a].active
                           ELSE Supported(a) /\ a \notin Hidden
      BY <1>0, <2>1, ListedIs
    <3>3. a \in DOMAIN interfaces' <=>
              a \in DOMAIN interfaces \/ (a \in Reported /\ Type[a] = "Loopback")
      BY <2>1
    <3>4. a \in DOMAIN interfaces' <=> Listed(a)
      BY <3>1, <3>2, <3>3 DEF ByWMI, Reported
    <3>5. ASSUME Listed(a)
          PROVE  interfaces'[a].addresses = ListedAddresses(a)
      <4>1. a \in DOMAIN system /\ a \in DOMAIN interfaces'
        BY <3>2, <3>4, <3>5
      <4>2. interfaces'[a].addresses = IF a \in Reported THEN system[a].addresses ELSE <<>>
        BY <2>1, <3>3, <4>1
      <4> QED BY <1>0, <2>1, <4>1, <4>2, ListedAddressesIs DEF Reported
    <3> QED BY <3>4, <3>5
  <2> QED BY <1>3, <2>1, <2>2, <2>3 DEF SteadyAdaptersListed
<1>7. CASE ReadWinAPI
  <2>1. /\ platform = "Windows" /\ ~comGuard
        /\ UNCHANGED <<platform, system, comGuard, steady, cut>>
        /\ interfaces' = [a \in {r \in Reported : Supported(r)} |->
                             [pass |-> "WinAPI", addresses |-> system[a].addresses]]
    BY <1>0, <1>7 DEF ReadWinAPI, Passing, NoInterfaces
  <2>2. NeverMixed'
    BY <2>1 DEF NeverMixed
  <2>3. ASSUME NEW a
        PROVE  /\ a \in DOMAIN interfaces' <=> Listed(a)
               /\ Listed(a) => interfaces'[a].addresses = ListedAddresses(a)
    <3>1. Listed(a) <=> a \in DOMAIN system /\ Supported(a) /\ system[a].active
      BY <1>0, <2>1, ListedIs
    <3>2. a \in DOMAIN interfaces' <=> Listed(a)
      BY <2>1, <3>1 DEF Reported
    <3>3. Listed(a) => interfaces'[a].addresses = system[a].addresses
      BY <2>1, <3>1 DEF Reported
    <3> QED BY <1>0, <2>1, <3>1, <3>2, <3>3, ListedAddressesIs
  <2> QED BY <1>3, <2>1, <2>2, <2>3 DEF SteadyAdaptersListed
<1> QED BY <1>1, <1>2, <1>4, <1>5, <1>6, <1>7
        DEF EnumNext, Enumerate, InitialiseCom, Refresh, Query, QueryFails, NextAdapter,
            AdapterFails, NoMoreAdapters, NextFails, AskSize, ReadAddressesFails, GiveUpWMI,
            Publish

LEMMA EnumStep ==
    ASSUME EnumInv, [Next]_vars
    PROVE  EnumInv'
<1>1. CASE EnumNext
  BY <1>1, EnumTypeStep, PassingStep, ReturnedStep, PublicationStep DEF EnumInv
<1>2. CASE UNCHANGED enumVars
  BY <1>2 DEF enumVars, environment, history, EnumInv, EnumTypeOK, IsList, Passing, Returned, ByWMI,
              Supported, NeverMixed, SteadyAdaptersListed, Listed, ListedAddresses, Readable
<1>3. Program => UNCHANGED enumVars
  BY DEF Program, LA_NIH_getInterfaceByName, LA_NIH_enumerateInterfaces, HandOut,
         LA_NIH_freeNetworkInterface, LA_NIH_macAddressToString, ProgramFreesString
<1> QED BY <1>1, <1>2, <1>3 DEF Next, vars

\* However often the system changes or a call of it fails between two passes of
\* the Windows delegate: a list that is published was read by WMI and filled in
\* by GetAdaptersAddresses, or read by the latter alone, and never both.
THEOREM PassesNeverMixed == Spec => []NeverMixed
<1>1. Init => EnumInv
  BY EnumInit_Inv
<1>2. EnumInv /\ [Next]_vars => EnumInv'
  BY EnumStep
<1>3. EnumInv => NeverMixed
  BY DEF EnumInv
<1> QED BY <1>1, <1>2, <1>3, PTL DEF Spec

\* Whatever else comes, goes and changes while refreshInterfaces reads the
\* system in several calls: a list that no failing call has cut short has
\* exactly those adapters of the ones that stayed as they were that the
\* platform lists, each with the addresses IPAddress accepts, in their order.
THEOREM ListsWhatIsSteady == Spec => []SteadyAdaptersListed
<1>1. Init => EnumInv
  BY EnumInit_Inv
<1>2. EnumInv /\ [Next]_vars => EnumInv'
  BY EnumStep
<1>3. EnumInv => SteadyAdaptersListed
  BY DEF EnumInv
<1> QED BY <1>1, <1>2, <1>3, PTL DEF Spec

-----------------------------------------------------------------------------
(* The copies of the C bindings.                                            *)

Strings == AnyAddress \cup UNION {Range(Gateways[a]) : a \in Adapters}

LEMMA ContentType ==
    ASSUME EnumTypeOK, NEW a \in DOMAIN table, NEW f \in Fields
    PROVE  Content(a, f) \in Seq(Strings)
<1>1. a \in Adapters /\ table[a].addresses \in Seq(AnyAddress)
  BY DEF EnumTypeOK, IsList, Interfaces, AnyAddress
<1>2. Gateways[a] \in Seq(Strings)
  BY <1>1, GatewaysAssumption DEF Strings
<1>3. table[a].addresses \in Seq(Strings) /\ <<>> \in Seq(Strings)
  BY <1>1 DEF Strings
<1> QED BY <1>2, <1>3 DEF Content, Fields

LEMMA DuplicatesAreFinite ==
    ASSUME EnumTypeOK, NEW a \in DOMAIN table, NEW h
    PROVE  IsFiniteSet(Duplicates(h, a))
<1> DEFINE strings(f) == {<<h, f, i>> : i \in DOMAIN Content(a, f)}
<1>1. ASSUME NEW f \in Fields
      PROVE  IsFiniteSet(strings(f))
  <2>1. DOMAIN Content(a, f) = 1 .. Len(Content(a, f)) /\ Len(Content(a, f)) \in Nat
    BY ContentType
  <2>2. IsFiniteSet(DOMAIN Content(a, f))
    BY <2>1, FS_Interval
  <2>3. [i \in DOMAIN Content(a, f) |-> <<h, f, i>>] \in Surjection(DOMAIN Content(a, f), strings(f))
    BY DEF Surjection
  <2> HIDE DEF strings
  <2> QED BY <2>2, <2>3, FS_Surjection
<1>2. IsFiniteSet({<<h, f, 0>> : f \in Names})
  <2> DEFINE two == {<<h, "id", 0>>} \cup {<<h, "description", 0>>}
  <2>1. {<<h, f, 0>> : f \in Names} = two \cup {<<h, "alias", 0>>}
    BY DEF Names
  <2>2. /\ IsFiniteSet({<<h, "id", 0>>}) /\ IsFiniteSet({<<h, "description", 0>>})
        /\ IsFiniteSet({<<h, "alias", 0>>})
    BY FS_Singleton
  <2>3. IsFiniteSet(two)
    BY <2>2, FS_Union
  <2> HIDE DEF two
  <2>4. IsFiniteSet(two \cup {<<h, "alias", 0>>})
    BY <2>2, <2>3, FS_Union
  <2> QED BY <2>1, <2>4
<1>3. Duplicates(h, a) = ({<<h, f, 0>> : f \in Names} \cup strings("ip_addresses"))
                             \cup strings("gateways")
  BY DEF Duplicates, Fields
<1>4. IsFiniteSet(strings("ip_addresses")) /\ IsFiniteSet(strings("gateways"))
  BY <1>1 DEF Fields
<1> HIDE DEF strings
<1>5. IsFiniteSet({<<h, f, 0>> : f \in Names} \cup strings("ip_addresses"))
  BY <1>2, <1>4, FS_Union
<1> QED BY <1>3, <1>4, <1>5, FS_Union

\* What make_nih_network_interface leaves behind.
LEMMA Makes ==
    ASSUME EnumTypeOK, BindingTypeOK, NEW a \in DOMAIN table, NEW h \in Handles, Make(h, a)
    PROVE  \E made \in SUBSET Duplicates(h, a), n \in Nat :
               /\ exhausted' = exhausted + n /\ exhausted' \in 0 .. MaxExhausted
               /\ n = 0 => made = Duplicates(h, a)
               /\ DOMAIN heap' = DOMAIN heap \cup made \cup News(h, a)
               /\ \A b \in DOMAIN heap : heap'[b] = heap[b]
               /\ \A b \in made : b \notin DOMAIN heap => heap'[b] = In(a, b)
               /\ DOMAIN copy' = DOMAIN copy \cup {h}
               /\ \A k \in DOMAIN copy : copy'[k] = copy[k]
               /\ \A f \in Names : copy'[h][f] = IF <<h, f, 0>> \in made THEN <<h, f, 0>> ELSE Null
               /\ \A f \in Fields : copy'[h][f] = Array(h, a, f, Duplicates(h, a) \ made)
               /\ DOMAIN original' = DOMAIN original \cup {h}
               /\ \A k \in DOMAIN original : original'[k] = original[k]
               /\ \A f \in Fields : original'[h][f] = Content(a, f)
               /\ copy'[h].mac_address = Mac[a] /\ original'[h].name = a
<1> DEFINE record(made, short) ==
               [f \in Names \cup Fields \cup {"mac_address"} |->
                   CASE f \in Names -> IF <<h, f, 0>> \in made THEN <<h, f, 0>> ELSE Null
                     [] f \in Fields -> Array(h, a, f, short)
                     [] f = "mac_address" -> Mac[a]]
           blocks(made) == [b \in DOMAIN heap \cup made \cup News(h, a) |->
                               IF b \in DOMAIN heap THEN heap[b]
                               ELSE IF b \in made THEN In(a, b) ELSE Null]
<1>0. PICK n \in 0 .. MaxExhausted - exhausted : \E short \in kSubset(n, Duplicates(h, a)) :
          LET made == Duplicates(h, a) \ short
          IN  /\ exhausted' = exhausted + n
              /\ heap' = blocks(made)
              /\ copy' = Extend(copy, h, record(made, short))
  BY DEF Make
<1>1. PICK short \in kSubset(n, Duplicates(h, a)) :
          LET made == Duplicates(h, a) \ short
          IN  /\ exhausted' = exhausted + n
              /\ heap' = blocks(made)
              /\ copy' = Extend(copy, h, record(made, short))
  BY <1>0
<1> DEFINE made == Duplicates(h, a) \ short
<1>2. short \subseteq Duplicates(h, a) /\ Cardinality(short) = n
  BY DEF kSubset
<1>3. made \in SUBSET Duplicates(h, a) /\ short = Duplicates(h, a) \ made
  BY <1>2
<1>4. n = 0 => made = Duplicates(h, a)
  <2>1. IsFiniteSet(short)
    BY <1>2, DuplicatesAreFinite, FS_Subset
  <2> QED BY <1>2, <2>1, FS_EmptySet
<1>5. n \in Nat /\ exhausted' = exhausted + n /\ exhausted' \in 0 .. MaxExhausted
  BY <1>1, ExhaustedAssumption DEF BindingTypeOK
<1>6. heap' = blocks(made) /\ copy' = Extend(copy, h, record(made, short))
  BY <1>1
<1>7. h \notin DOMAIN copy /\ DOMAIN original = DOMAIN copy
  BY DEF Make, BindingTypeOK
<1> HIDE DEF made
<1>8. /\ DOMAIN heap' = DOMAIN heap \cup made \cup News(h, a)
      /\ \A b \in DOMAIN heap : heap'[b] = heap[b]
      /\ \A b \in made : b \notin DOMAIN heap => heap'[b] = In(a, b)
  BY <1>6
<1>9. /\ \A f \in Names : record(made, short)[f] = IF <<h, f, 0>> \in made THEN <<h, f, 0>> ELSE Null
      /\ \A f \in Fields : record(made, short)[f] = Array(h, a, f, short)
      /\ record(made, short).mac_address = Mac[a]
  BY DEF Names, Fields
<1> HIDE DEF record
<1>10. /\ DOMAIN copy' = DOMAIN copy \cup {h}
       /\ \A k \in DOMAIN copy : copy'[k] = copy[k]
       /\ copy'[h] = record(made, short)
  BY <1>6, <1>7 DEF Extend
<1> DEFINE source == [f \in Fields \cup {"name"} |-> IF f = "name" THEN a ELSE Content(a, f)]
<1>11. source.name = a /\ \A f \in Fields : source[f] = Content(a, f)
  BY DEF Fields
<1>12. original' = Extend(original, h, source)
  BY DEF Make
<1> HIDE DEF source
<1>13. /\ DOMAIN original' = DOMAIN original \cup {h}
       /\ \A k \in DOMAIN original : original'[k] = original[k]
       /\ original'[h] = source
  BY <1>7, <1>12 DEF Extend
<1>14. copy'[h].mac_address = Mac[a] /\ original'[h].name = a
  BY <1>9, <1>10, <1>11, <1>13
<1>15. /\ \A f \in Names : copy'[h][f] = IF <<h, f, 0>> \in made THEN <<h, f, 0>> ELSE Null
       /\ \A f \in Fields : copy'[h][f] = Array(h, a, f, Duplicates(h, a) \ made)
       /\ \A f \in Fields : original'[h][f] = Content(a, f)
  BY <1>3, <1>9, <1>10, <1>11, <1>13
<1> QED BY <1>3, <1>4, <1>5, <1>8, <1>10, <1>13, <1>14, <1>15

\* What is in a field that is an array.  Strings that could not be made are
\* missing in it.
Kept(h, f) ==
    LET listed == original[h][f]
        array == copy[h][f]
    IN  IF listed = <<>> THEN array = Null
        ELSE /\ array \in [1 .. Len(listed) + 1 -> Blocks \cup {Null}]
             /\ array[Len(listed) + 1] = Null
             /\ \A i \in 1 .. Len(listed) :
                    \/ array[i] = Null /\ exhausted # 0
                    \/ /\ array[i] = <<h, f, i>>
                       /\ array[i] \in DOMAIN heap /\ heap[array[i]] = listed[i]
             /\ <<h, f, 0>> \in DOMAIN heap

\* The blocks that are found from a copy.
Owns(h, b) ==
    \/ b = Structure(h)
    \/ \E f \in Names \cup Fields : b = <<h, f, 0>> /\ copy[h][f] # Null
    \/ \E f \in Fields : \E i \in 1 .. Len(original[h][f]) :
           b = <<h, f, i>> /\ copy[h][f] # Null /\ copy[h][f][i] = b

Whole(h) ==
    /\ Structure(h) \in DOMAIN heap
    /\ \A f \in Names : copy[h][f] # Null => copy[h][f] = <<h, f, 0>> /\ <<h, f, 0>> \in DOMAIN heap
    /\ \A f \in Fields : original[h][f] \in Seq(Strings) /\ Kept(h, f)
    /\ \A b \in DOMAIN heap : b[1] = h => Owns(h, b)

CopyInv == BindingTypeOK /\ \A h \in DOMAIN copy : Whole(h)

\* What is read of an array, and freed: what is in front of the first NULL.
LEMMA ReadIs ==
    ASSUME NEW n \in Nat, NEW array \in [1 .. n -> Blocks \cup {Null}], Null \in Range(array)
    PROVE  \E m \in 1 .. n :
               /\ array[m] = Null
               /\ Read(array) \in Seq(Blocks \cup {Null}) /\ Len(Read(array)) = m - 1
               /\ \A i \in 1 .. m - 1 : i \in 1 .. n /\ array[i] # Null /\ Read(array)[i] = array[i]
<1> DEFINE nulls == {i \in DOMAIN array : array[i] = Null}
           m == Min(nulls)
<1>1. array \in Seq(Blocks \cup {Null})
  OBVIOUS
<1>2. array # Null
  BY <1>1, NullAssumption
<1>3. nulls \in SUBSET Nat /\ nulls # {}
  BY DEF Range
<1>4. m \in nulls /\ \A i \in nulls : m <= i
  <2> HIDE DEF nulls
  <2> QED BY <1>3, MinIs
<1>5. Read(array) = SubSeq(array, 1, m - 1)
  BY <1>2 DEF Read
<1> HIDE DEF m
<1>6. m \in 1 .. n /\ array[m] = Null
  BY <1>4
<1>7. Read(array) \in Seq(Blocks \cup {Null}) /\ Len(Read(array)) = m - 1
  BY <1>1, <1>5, <1>6
<1>8. \A i \in 1 .. m - 1 : i \in 1 .. n /\ array[i] # Null /\ Read(array)[i] = array[i]
  BY <1>1, <1>4, <1>5, <1>6
<1> QED BY <1>6, <1>7, <1>8

LEMMA CopiesInit ==
    ASSUME Init
    PROVE  CopyInv
BY ExhaustedAssumption, BoundsAssumption
   DEF Init, EnumInit, Nothing, NoInterfaces, CopyInv, BindingTypeOK

\* A step that leaves the copy and the blocks of a structure alone.
LEMMA StaysWhole ==
    ASSUME NEW h \in DOMAIN copy, Whole(h), copy'[h] = copy[h], original'[h] = original[h],
           exhausted # 0 => exhausted' # 0,
           \A b \in DOMAIN heap : b[1] = h => b \in DOMAIN heap' /\ heap'[b] = heap[b],
           \A b \in DOMAIN heap' : b[1] = h => b \in DOMAIN heap
    PROVE  Whole(h)'
<1>1. Structure(h) \in DOMAIN heap'
  BY DEF Whole, Structure
<1>2. \A f \in Names :
          copy'[h][f] # Null => copy'[h][f] = <<h, f, 0>> /\ <<h, f, 0>> \in DOMAIN heap'
  BY DEF Whole
<1>3. ASSUME NEW f \in Fields
      PROVE  original'[h][f] \in Seq(Strings) /\ Kept(h, f)'
  BY DEF Whole, Kept
<1>4. \A b \in DOMAIN heap' : b[1] = h => Owns(h, b)'
  BY DEF Whole, Owns, Structure
<1> QED BY <1>1, <1>2, <1>3, <1>4 DEF Whole, Structure

LEMMA MadeWhole ==
    ASSUME EnumTypeOK, CopyInv, NEW a \in DOMAIN table, NEW h \in Handles, Make(h, a)
    PROVE  /\ DOMAIN heap' \subseteq Blocks
           /\ DOMAIN copy' \subseteq Handles /\ DOMAIN original' = DOMAIN copy'
           /\ exhausted' \in 0 .. MaxExhausted
           /\ DOMAIN copy \subseteq DOMAIN copy'
           /\ \A k \in DOMAIN copy' : Whole(k)'
<1>1. /\ BindingTypeOK /\ \A k \in DOMAIN copy : Whole(k)
      /\ h \notin DOMAIN copy /\ \A b \in DOMAIN heap : b[1] # h
  BY DEF CopyInv, Make
<1>2. PICK made \in SUBSET Duplicates(h, a), n \in Nat :
          /\ exhausted' = exhausted + n /\ exhausted' \in 0 .. MaxExhausted
          /\ n = 0 => made = Duplicates(h, a)
          /\ DOMAIN heap' = DOMAIN heap \cup made \cup News(h, a)
          /\ \A b \in DOMAIN heap : heap'[b] = heap[b]
          /\ \A b \in made : b \notin DOMAIN heap => heap'[b] = In(a, b)
          /\ DOMAIN copy' = DOMAIN copy \cup {h}
          /\ \A k \in DOMAIN copy : copy'[k] = copy[k]
          /\ \A f \in Names : copy'[h][f] = IF <<h, f, 0>> \in made THEN <<h, f, 0>> ELSE Null
          /\ \A f \in Fields : copy'[h][f] = Array(h, a, f, Duplicates(h, a) \ made)
          /\ DOMAIN original' = DOMAIN original \cup {h}
          /\ \A k \in DOMAIN original : original'[k] = original[k]
          /\ \A f \in Fields : original'[h][f] = Content(a, f)
          /\ copy'[h].mac_address = Mac[a] /\ original'[h].name = a
  BY <1>1, Makes
<1>3. \A f \in Fields : Content(a, f) \in Seq(Strings)
  BY ContentType
<1>4. \A b \in Duplicates(h, a) :
          /\ b[1] = h
          /\ b \in Blocks
          /\ \/ \E f \in Names : b = <<h, f, 0>>
             \/ \E f \in Fields : \E i \in 1 .. Len(Content(a, f)) : b = <<h, f, i>>
  <2>1. \A f \in Fields : DOMAIN Content(a, f) = 1 .. Len(Content(a, f)) /\ Len(Content(a, f)) \in Nat
    BY <1>3
  <2> QED BY <2>1 DEF Duplicates, Blocks
<1>5. \A b \in News(h, a) :
          /\ b[1] = h
          /\ b \in Blocks
          /\ b = Structure(h) \/ \E f \in Fields : b = <<h, f, 0>> /\ Content(a, f) # <<>>
  BY DEF News, Structure, Blocks
<1>6. DOMAIN heap' \subseteq Blocks /\ DOMAIN copy' \subseteq Handles /\ DOMAIN original' = DOMAIN copy'
  BY <1>1, <1>2, <1>4, <1>5 DEF BindingTypeOK
<1>7. ASSUME NEW k \in DOMAIN copy
      PROVE  Whole(k)'
  <2>1. Whole(k) /\ copy'[k] = copy[k] /\ original'[k] = original[k] /\ k # h
    BY <1>1, <1>2 DEF BindingTypeOK
  <2>2. exhausted # 0 => exhausted' # 0
    BY <1>1, <1>2, ExhaustedAssumption DEF BindingTypeOK
  <2>3. /\ \A b \in DOMAIN heap : b \in DOMAIN heap' /\ heap'[b] = heap[b]
        /\ \A b \in DOMAIN heap' : b[1] = k => b \in DOMAIN heap
    BY <1>2, <1>4, <1>5, <2>1
  <2> QED BY <2>1, <2>2, <2>3, StaysWhole
<1>8. Whole(h)'
  <2>1. Structure(h) \in DOMAIN heap'
    BY <1>2 DEF News
  <2>2. \A f \in Names :
            copy'[h][f] # Null => copy'[h][f] = <<h, f, 0>> /\ <<h, f, 0>> \in DOMAIN heap'
    BY <1>2
  <2>3. ASSUME NEW f \in Fields
        PROVE  /\ original'[h][f] \in Seq(Strings)
               /\ copy'[h][f] # Null <=> Content(a, f) # <<>>
               /\ \A i \in 1 .. Len(Content(a, f)) :
                      <<h, f, i>> \in made => copy'[h][f][i] = <<h, f, i>>
               /\ Kept(h, f)'
    <3> DEFINE c == Content(a, f)
               short == Duplicates(h, a) \ made
    <3>1. original'[h][f] = c /\ copy'[h][f] = Array(h, a, f, short) /\ c \in Seq(Strings)
      BY <1>2, <1>3
    <3>2. DOMAIN c = 1 .. Len(c) /\ Len(c) \in Nat
      BY <3>1
    <3>3. \A i \in 1 .. Len(c) : <<h, f, i>> \in Duplicates(h, a) /\ <<h, f, i>> \in Blocks
      BY <1>4, <3>2 DEF Duplicates
    <3>4. \A i \in 1 .. Len(c) : In(a, <<h, f, i>>) = c[i]
      BY DEF In, Names, Fields
    <3> HIDE DEF c
    <3>5. CASE c = <<>>
      <4>1. copy'[h][f] = Null
        BY <3>1, <3>5 DEF Array, c
      <4> QED BY <3>1, <3>2, <3>5, <4>1 DEF Kept, c
    <3>6. CASE c # <<>>
      <4> DEFINE string(i) == IF <<h, f, i>> \in short THEN Null ELSE <<h, f, i>>
                 array == [i \in 1 .. Len(c) |-> string(i)] \o <<Null>>
      <4>1. copy'[h][f] = array
        BY <3>1, <3>2, <3>6 DEF Array, c
      <4>2. \A i \in 1 .. Len(c) : string(i) \in Blocks \cup {Null}
        BY <3>3
      <4> HIDE DEF string
      <4>3. [i \in 1 .. Len(c) |-> string(i)] \in Seq(Blocks \cup {Null})
        BY <3>2, <4>2
      <4>4. /\ array \in Seq(Blocks \cup {Null}) /\ Len(array) = Len(c) + 1
            /\ array[Len(c) + 1] = Null
            /\ \A i \in 1 .. Len(c) : array[i] = string(i)
        BY <3>2, <4>3
      <4>5. array \in [1 .. Len(c) + 1 -> Blocks \cup {Null}] /\ array # Null
        <5> HIDE DEF array
        <5> QED BY <3>2, <4>4, NullAssumption
      <4> HIDE DEF array
      <4>6. ASSUME NEW i \in 1 .. Len(c)
            PROVE  \/ array[i] = Null /\ exhausted' # 0 /\ <<h, f, i>> \notin made
                   \/ /\ array[i] = <<h, f, i>>
                      /\ array[i] \in DOMAIN heap' /\ heap'[array[i]] = c[i]
        <5>1. CASE <<h, f, i>> \in made
          <6>1. array[i] = <<h, f, i>>
            BY <4>4, <5>1 DEF string
          <6>2. <<h, f, i>> \notin DOMAIN heap /\ <<h, f, i>> \in DOMAIN heap'
            BY <1>1, <1>2, <5>1
          <6>3. heap'[<<h, f, i>>] = c[i]
            BY <1>2, <3>4, <5>1, <6>2
          <6> QED BY <6>1, <6>2, <6>3
        <5>2. CASE <<h, f, i>> \notin made
          <6>1. array[i] = Null
            BY <3>3, <4>4, <5>2 DEF string
          <6>2. n # 0
            BY <1>2, <3>3, <5>2
          <6>3. exhausted' # 0
            BY <1>1, <1>2, <6>2, ExhaustedAssumption DEF BindingTypeOK
          <6> QED BY <5>2, <6>1, <6>3
        <5> QED BY <5>1, <5>2
      <4>7. <<h, f, 0>> \in DOMAIN heap'
        BY <1>2, <3>6 DEF News, c
      <4>8. Kept(h, f)'
        BY <3>1, <3>6, <4>1, <4>4, <4>5, <4>6, <4>7 DEF Kept
      <4>9. \A i \in 1 .. Len(c) : <<h, f, i>> \in made => copy'[h][f][i] = <<h, f, i>>
        BY <4>1, <4>6
      <4> QED BY <3>1, <3>6, <4>1, <4>5, <4>8, <4>9 DEF c
    <3> QED BY <3>5, <3>6
  <2>4. ASSUME NEW b \in DOMAIN heap', b[1] = h
        PROVE  Owns(h, b)'
    <3>1. b \in made \/ b \in News(h, a)
      BY <1>1, <1>2, <2>4
    <3>2. CASE b \in News(h, a)
      BY <1>5, <2>3, <3>2 DEF Owns, Structure
    <3>3. CASE b \in made
      <4>1. CASE \E f \in Names : b = <<h, f, 0>>
        <5>1. PICK f \in Names : b = <<h, f, 0>>
          BY <4>1
        <5>2. copy'[h][f] = b
          BY <1>2, <3>3, <5>1
        <5>3. b # Null
          BY <1>6, NullAssumption
        <5> QED BY <5>1, <5>2, <5>3 DEF Owns
      <4>2. CASE \E f \in Fields : \E i \in 1 .. Len(Content(a, f)) : b = <<h, f, i>>
        <5>1. PICK f \in Fields : \E i \in 1 .. Len(Content(a, f)) : b = <<h, f, i>>
          BY <4>2
        <5>2. PICK i \in 1 .. Len(Content(a, f)) : b = <<h, f, i>>
          BY <5>1
        <5>3. Content(a, f) # <<>>
          BY <1>3, <5>2
        <5>4. copy'[h][f] # Null /\ copy'[h][f][i] = b /\ original'[h][f] = Content(a, f)
          BY <1>2, <2>3, <3>3, <5>2, <5>3
        <5> QED BY <5>2, <5>4 DEF Owns
      <4> QED BY <1>4, <3>3, <4>1, <4>2
    <3> QED BY <3>1, <3>2, <3>3
  <2> QED BY <2>1, <2>2, <2>3, <2>4 DEF Whole, Structure
<1> QED BY <1>2, <1>6, <1>7, <1>8

\* The walk through an array ends with its m-th element.
Ends(h, f, m) ==
    /\ copy[h][f][m] = Null
    /\ exhausted = 0 => m = Len(original[h][f]) + 1
    /\ Read(copy[h][f]) \in Seq(Blocks \cup {Null}) /\ Len(Read(copy[h][f])) = m - 1
    /\ \A i \in 1 .. m - 1 :
           /\ i \in 1 .. Len(original[h][f])
           /\ copy[h][f][i] = <<h, f, i>> /\ Read(copy[h][f])[i] = <<h, f, i>>
           /\ <<h, f, i>> \in DOMAIN heap /\ heap[<<h, f, i>>] = original[h][f][i]

LEMMA FieldRead ==
    ASSUME CopyInv, NEW h \in DOMAIN copy, NEW f \in Fields, copy[h][f] # Null
    PROVE  /\ original[h][f] \in Seq(Strings) /\ original[h][f] # <<>>
           /\ <<h, f, 0>> \in DOMAIN heap
           /\ Null \in Range(copy[h][f])
           /\ \E m \in 1 .. Len(original[h][f]) + 1 : Ends(h, f, m)
<1> DEFINE listed == original[h][f]
           array == copy[h][f]
           n == Len(listed) + 1
<1>1. listed \in Seq(Strings) /\ Kept(h, f)
  BY DEF CopyInv, Whole
<1>2. /\ listed # <<>>
      /\ array \in [1 .. n -> Blocks \cup {Null}]
      /\ array[n] = Null
      /\ \A i \in 1 .. Len(listed) :
             \/ array[i] = Null /\ exhausted # 0
             \/ /\ array[i] = <<h, f, i>>
                /\ array[i] \in DOMAIN heap /\ heap[array[i]] = listed[i]
      /\ <<h, f, 0>> \in DOMAIN heap
  BY <1>1 DEF Kept
<1>3. Len(listed) \in Nat /\ n \in Nat /\ n \in 1 .. n
  BY <1>1
<1> HIDE DEF listed, array
<1>4. Null \in Range(array)
  <2> HIDE DEF n
  <2> QED BY <1>2, <1>3 DEF Range
<1>5. PICK m \in 1 .. n :
          /\ array[m] = Null
          /\ Read(array) \in Seq(Blocks \cup {Null}) /\ Len(Read(array)) = m - 1
          /\ \A i \in 1 .. m - 1 : i \in 1 .. n /\ array[i] # Null /\ Read(array)[i] = array[i]
  <2> HIDE DEF n
  <2> QED BY <1>2, <1>3, <1>4, ReadIs
<1>6. \A i \in 1 .. m - 1 : i \in 1 .. Len(listed)
  BY <1>3
<1>7. exhausted = 0 => m = n
  <2>1. ASSUME exhausted = 0, m # n
        PROVE  FALSE
    <3>1. m \in 1 .. Len(listed)
      BY <1>3, <2>1
    <3>2. array[m] = <<h, f, m>> /\ array[m] \in DOMAIN heap
      BY <1>2, <2>1, <3>1
    <3>3. array[m] # Null
      BY <3>2, NullAssumption DEF CopyInv, BindingTypeOK
    <3> QED BY <1>5, <3>3
  <2> QED BY <2>1
<1>8. \A i \in 1 .. m - 1 :
          /\ i \in 1 .. Len(listed)
          /\ array[i] = <<h, f, i>> /\ Read(array)[i] = <<h, f, i>>
          /\ <<h, f, i>> \in DOMAIN heap /\ heap[<<h, f, i>>] = listed[i]
  BY <1>2, <1>5, <1>6
<1>9. Ends(h, f, m)
  BY <1>5, <1>7, <1>8 DEF Ends, listed, array
<1> QED BY <1>1, <1>2, <1>4, <1>9 DEF listed, array

LEMMA ReleasedIs ==
    ASSUME CopyInv, NEW h \in DOMAIN copy
    PROVE  /\ Released(h) \subseteq DOMAIN heap
           /\ \A b \in Released(h) : b[1] = h
           /\ \A b \in DOMAIN heap \ Released(h) :
                  b[1] = h => /\ b[2] \in Fields
                              /\ \E i \in 1 .. b[3] - 1 : copy[h][b[2]][i] = Null
<1>1. Whole(h)
  BY DEF CopyInv
<1>2. ASSUME NEW f \in Fields, copy[h][f] # Null
      PROVE  \A b \in Range(Read(copy[h][f])) :
                 b \in DOMAIN heap /\ \E i \in 1 .. Len(original[h][f]) : b = <<h, f, i>>
  <2>1. PICK m \in 1 .. Len(original[h][f]) + 1 : Ends(h, f, m)
    BY <1>2, FieldRead
  <2>2. DOMAIN Read(copy[h][f]) = 1 .. m - 1
    BY <2>1 DEF Ends
  <2> QED BY <2>1, <2>2 DEF Ends, Range
<1>3. ASSUME NEW b \in Released(h)
      PROVE  b \in DOMAIN heap /\ b[1] = h
  <2>1. CASE b = Structure(h)
    BY <1>1, <2>1 DEF Whole, Structure
  <2>2. CASE \E f \in Names : b = copy[h][f] /\ b # Null
    <3>1. PICK f \in Names : b = copy[h][f] /\ b # Null
      BY <2>2
    <3>2. b = <<h, f, 0>> /\ b \in DOMAIN heap
      BY <1>1, <3>1 DEF Whole
    <3> QED BY <3>2
  <2>3. CASE \E f \in Fields : copy[h][f] # Null /\ b = <<h, f, 0>>
    BY <2>3, FieldRead
  <2>4. CASE \E f \in Fields : copy[h][f] # Null /\ b \in Range(Read(copy[h][f]))
    BY <1>2, <2>4
  <2> QED BY <2>1, <2>2, <2>3, <2>4 DEF Released
<1>4. ASSUME NEW b \in DOMAIN heap \ Released(h), b[1] = h
      PROVE  /\ b[2] \in Fields
             /\ \E i \in 1 .. b[3] - 1 : copy[h][b[2]][i] = Null
  <2>1. Owns(h, b)
    BY <1>1, <1>4 DEF Whole
  <2>2. b # Structure(h)
    BY DEF Released
  <2>3. ~ \E f \in Names \cup Fields : b = <<h, f, 0>> /\ copy[h][f] # Null
    BY <1>1 DEF Released, Whole
  <2>4. PICK f \in Fields : \E i \in 1 .. Len(original[h][f]) :
                                b = <<h, f, i>> /\ copy[h][f] # Null /\ copy[h][f][i] = b
    BY <2>1, <2>2, <2>3 DEF Owns
  <2>5. PICK i \in 1 .. Len(original[h][f]) :
                 b = <<h, f, i>> /\ copy[h][f] # Null /\ copy[h][f][i] = b
    BY <2>4
  <2>6. PICK m \in 1 .. Len(original[h][f]) + 1 : Ends(h, f, m)
    BY <2>5, FieldRead
  <2>7. Len(original[h][f]) \in Nat /\ m \in Nat /\ i \in Nat
    BY <2>5, FieldRead
  <2>8. b \notin Range(Read(copy[h][f]))
    BY <2>5 DEF Released
  <2>9. ~(i \in 1 .. m - 1)
    BY <2>5, <2>6, <2>8 DEF Range, Ends
  <2>10. m # i
    BY <2>5, <2>6, NullAssumption DEF Ends, CopyInv, BindingTypeOK
  <2>11. m \in 1 .. i - 1
    BY <2>7, <2>9, <2>10
  <2> QED BY <2>5, <2>6, <2>11 DEF Ends
<1> QED BY <1>3, <1>4

LEMMA FreedKeepsWhole ==
    ASSUME CopyInv, NEW h \in DOMAIN copy, LA_NIH_freeNetworkInterface(h)
    PROVE  CopyInv'
<1>1. /\ heap' = [b \in DOMAIN heap \ Released(h) |-> heap[b]]
      /\ copy' = [i \in DOMAIN copy \ {h} |-> copy[i]]
      /\ original' = [i \in DOMAIN copy \ {h} |-> original[i]]
      /\ UNCHANGED <<table, exhausted, listing>>
  BY DEF LA_NIH_freeNetworkInterface, enumVars
<1>2. BindingTypeOK'
  BY <1>1 DEF CopyInv, BindingTypeOK
<1>3. ASSUME NEW k \in DOMAIN copy'
      PROVE  Whole(k)'
  <2>1. k \in DOMAIN copy /\ k # h /\ Whole(k) /\ copy'[k] = copy[k] /\ original'[k] = original[k]
    BY <1>1 DEF CopyInv
  <2>2. \A b \in DOMAIN heap : b[1] = k => b \notin Released(h)
    BY <2>1, ReleasedIs
  <2> QED BY <1>1, <2>1, <2>2, StaysWhole
<1> QED BY <1>2, <1>3 DEF CopyInv

LEMMA CopiesStep ==
    ASSUME EnumInv, CopyInv, [Next]_vars
    PROVE  CopyInv'
<1>1. CASE UNCHANGED bindingVars /\ (table' # table => listing = {})
  <2>1. UNCHANGED <<heap, copy, exhausted, listing, original>>
    BY <1>1 DEF bindingVars
  <2>2. listing' \subseteq DOMAIN table'
    BY <1>1, <2>1 DEF CopyInv, BindingTypeOK
  <2> QED BY <2>1, <2>2, StaysWhole DEF CopyInv, BindingTypeOK
<1>2. ASSUME NEW a \in DOMAIN table, NEW h \in Handles, Make(h, a), table' = table,
             listing' \subseteq listing
      PROVE  CopyInv'
  <2>1. /\ DOMAIN heap' \subseteq Blocks
        /\ DOMAIN copy' \subseteq Handles /\ DOMAIN original' = DOMAIN copy'
        /\ exhausted' \in 0 .. MaxExhausted
        /\ \A k \in DOMAIN copy' : Whole(k)'
    BY <1>2, MadeWhole DEF EnumInv
  <2> QED BY <1>2, <2>1 DEF CopyInv, BindingTypeOK
<1>3. CASE \E a \in Adapters : LA_NIH_getInterfaceByName(a)
  BY <1>2, <1>3 DEF LA_NIH_getInterfaceByName, enumVars
<1>4. CASE LA_NIH_enumerateInterfaces
  <2>1. UNCHANGED <<heap, copy, exhausted, original, table>> /\ listing' = DOMAIN table
    BY <1>4 DEF LA_NIH_enumerateInterfaces, enumVars
  <2> QED BY <2>1, StaysWhole DEF CopyInv, BindingTypeOK
<1>5. CASE HandOut
  BY <1>2, <1>5 DEF HandOut, enumVars, CopyInv, BindingTypeOK
<1>6. CASE \E h \in Handles : LA_NIH_freeNetworkInterface(h)
  BY <1>6, FreedKeepsWhole DEF LA_NIH_freeNetworkInterface
<1>7. CASE ProgramFreesString \/ \E h \in Handles : LA_NIH_macAddressToString(h)
  <2>1. UNCHANGED <<heap, copy, exhausted, listing, original, table>>
    BY <1>7 DEF ProgramFreesString, LA_NIH_macAddressToString, enumVars
  <2> QED BY <2>1, StaysWhole DEF CopyInv, BindingTypeOK
<1>8. CASE EnumNext /\ Apart
  BY <1>1, <1>8 DEF Apart
<1>9. CASE UNCHANGED vars
  BY <1>1, <1>9 DEF vars, enumVars
<1> QED BY <1>3, <1>4, <1>5, <1>6, <1>7, <1>8, <1>9 DEF Next, Program

LEMMA WholeCopies ==
    ASSUME CopyInv
    PROVE  CopiesAreWhole
<1>1. SUFFICES ASSUME NEW h \in DOMAIN copy, NEW f \in Fields
               PROVE  /\ copy[h][f] # Null => Null \in Range(copy[h][f])
                      /\ Range(Read(copy[h][f])) \subseteq DOMAIN heap
                      /\ IsPrefix(Contents(copy[h][f]), original[h][f])
                      /\ exhausted = 0 => Contents(copy[h][f]) = original[h][f]
  BY DEF CopiesAreWhole
<1> DEFINE listed == original[h][f]
           strings == Read(copy[h][f])
           contents == Contents(copy[h][f])
<1>2. listed \in Seq(Strings) /\ Kept(h, f)
  BY DEF CopyInv, Whole
<1>3. contents = [i \in DOMAIN strings |-> heap[strings[i]]]
  BY DEF Contents
<1>4. CASE copy[h][f] = Null
  <2>1. strings = <<>>
    BY <1>4 DEF Read
  <2>2. contents = <<>>
    BY <1>3, <2>1
  <2>3. listed = <<>>
    <3>1. CASE listed # <<>>
      <4>1. copy[h][f] \in [1 .. Len(listed) + 1 -> Blocks \cup {Null}]
        BY <1>2, <3>1 DEF Kept
      <4>2. Len(listed) + 1 \in Nat
        BY <1>2
      <4>3. copy[h][f] \in Seq(Blocks \cup {Null})
        BY <4>1, <4>2
      <4> QED BY <1>4, <4>3, NullAssumption
    <3> QED BY <3>1
  <2> QED BY <1>4, <2>1, <2>2, <2>3 DEF Range, IsPrefix
<1>5. CASE copy[h][f] # Null
  <2>1. Null \in Range(copy[h][f])
    BY <1>5, FieldRead
  <2>2. PICK m \in 1 .. Len(listed) + 1 : Ends(h, f, m)
    BY <1>5, FieldRead
  <2>3. DOMAIN strings = 1 .. m - 1 /\ Len(listed) \in Nat /\ m - 1 \in 0 .. Len(listed)
    BY <1>2, <2>2 DEF Ends
  <2>4. \A i \in 1 .. m - 1 : /\ i \in 1 .. Len(listed)
                              /\ strings[i] \in DOMAIN heap /\ heap[strings[i]] = listed[i]
    BY <2>2 DEF Ends
  <2>5. contents = [i \in 1 .. m - 1 |-> listed[i]]
    BY <1>3, <2>3, <2>4
  <2>6. exhausted = 0 => m - 1 = Len(listed)
    BY <2>2, <2>3 DEF Ends
  <2> HIDE DEF listed, contents, strings
  <2>7. contents = SubSeq(listed, 1, m - 1) /\ Len(contents) = m - 1
    BY <1>2, <2>3, <2>4, <2>5
  <2>8. IsPrefix(contents, listed)
    BY <1>2, <2>3, <2>5, <2>7 DEF IsPrefix
  <2>9. exhausted = 0 => contents = listed
    BY <1>2, <2>3, <2>6, <2>7
  <2>10. Range(strings) \subseteq DOMAIN heap
    BY <2>3, <2>4 DEF Range
  <2> QED BY <2>1, <2>8, <2>9, <2>10 DEF listed, contents, strings
<1> QED BY <1>4, <1>5

BindingInv == EnumInv /\ CopyInv

LEMMA BindingStep == BindingInv /\ [Next]_vars => BindingInv'
BY EnumStep, CopiesStep DEF BindingInv

LEMMA Inductive == Spec => []BindingInv
<1>1. Init => BindingInv
  BY EnumInit_Inv, CopiesInit DEF BindingInv
<1> QED BY <1>1, BindingStep, PTL DEF Spec

\* Every variable of the enumeration and of the bindings keeps its type, for
\* any sets of adapters, addresses and handles.
THEOREM TypeCorrect == Spec => []TypeOK
<1>1. BindingInv => TypeOK
  BY DEF BindingInv, EnumInv, CopyInv, TypeOK
<1> QED BY <1>1, Inductive, PTL

\* What make_nih_network_interface has made for a C program stays what was
\* copied until the program frees it, whatever is published, handed out or
\* freed meanwhile, and every array can be walked to its NULL.
THEOREM CopiesStayWhole == Spec => []CopiesAreWhole
<1>1. BindingInv => CopiesAreWhole
  BY WholeCopies DEF BindingInv
<1> QED BY <1>1, Inductive, PTL

LEMMA FreeStep ==
    ASSUME BindingInv, [Next]_vars, NEW h \in DOMAIN copy \ DOMAIN copy'
    PROVE  /\ Released(h) \subseteq DOMAIN heap
           /\ \A b \in DOMAIN heap' :
                  b[1] = h => /\ b[2] \in Fields
                              /\ \E i \in 1 .. b[3] - 1 : copy[h][b[2]][i] = Null
<1>1. EnumInv /\ CopyInv /\ EnumTypeOK
  BY DEF BindingInv, EnumInv
<1>2. CASE \E k \in Handles : LA_NIH_freeNetworkInterface(k)
  <2>1. PICK k \in Handles : LA_NIH_freeNetworkInterface(k)
    BY <1>2
  <2>2. k = h /\ DOMAIN heap' = DOMAIN heap \ Released(h)
    BY <2>1 DEF LA_NIH_freeNetworkInterface
  <2> QED BY <1>1, <2>2, ReleasedIs
<1>3. ASSUME NEW a \in DOMAIN table, NEW k \in Handles, Make(k, a)
      PROVE  FALSE
  <2>1. DOMAIN copy \subseteq DOMAIN copy'
    BY <1>1, <1>3, MadeWhole
  <2> QED BY <2>1
<1>4. CASE (\E a \in Adapters : LA_NIH_getInterfaceByName(a)) \/ HandOut
  BY <1>1, <1>3, <1>4 DEF LA_NIH_getInterfaceByName, HandOut, CopyInv, BindingTypeOK
<1>5. UNCHANGED copy => FALSE
  OBVIOUS
<1> QED BY <1>2, <1>4, <1>5
        DEF Next, Program, vars, bindingVars, Apart, LA_NIH_enumerateInterfaces,
            LA_NIH_macAddressToString, ProgramFreesString

\* delete_nih_network_interface gives back blocks that are allocated and no
\* others, and leaves nothing of the structure but strings that lie behind one
\* for which strdup found no memory.
THEOREM FreedWhole == Spec => FreedAsAWhole
<1>1. BindingInv /\ [Next]_vars =>
          [\A h \in DOMAIN copy \ DOMAIN copy' :
               /\ Released(h) \subseteq DOMAIN heap
               /\ \A b \in DOMAIN heap' :
                      b[1] = h => /\ b[2] \in Fields
                                  /\ \E i \in 1 .. b[3] - 1 : copy[h][b[2]][i] = Null]_vars
  BY FreeStep
<1> QED BY <1>1, Inductive, PTL DEF Spec, FreedAsAWhole

-----------------------------------------------------------------------------
(* MAC addresses and their strings. *)

Macs == [1 .. 6 -> 0 .. 255]
Characters == 0 .. 16

\* A sequence of digits spells a number of bytes, two digits for each.
Spells(number, mac, k) ==
    /\ number \in Seq(Characters) /\ Len(number) = 2 * k
    /\ \A j \in 1 .. k : number[2 * j - 1] = mac[j] \div 16 /\ number[2 * j] = mac[j] % 16

LEMMA ThreeInARow ==
    ASSUME NEW X, NEW c \in X, NEW d \in X, NEW e \in X
    PROVE  <<c>> \o <<d, e>> = <<c, d, e>>
<1> DEFINE w == <<c>> \o <<d, e>>
<1>1. w \in Seq(X)
  OBVIOUS
<1>2. Len(w) = 3 /\ w[1] = c /\ w[2] = d /\ w[3] = e
  OBVIOUS
<1> HIDE DEF w
<1>3. w = <<w[1], w[2], w[3]>>
  BY <1>1, <1>2
<1> QED BY <1>2, <1>3 DEF w

LEMMA Digits ==
    ASSUME NEW mac \in Macs, NEW j \in 1 .. 6
    PROVE  /\ mac[j] \in 0 .. 255 /\ mac[j] \div 16 \in Hex /\ mac[j] % 16 \in Hex
           /\ 16 * (mac[j] \div 16) + (mac[j] % 16) = mac[j]
<1>1. mac[j] \in 0 .. 255
  BY DEF Macs
<1>2. ASSUME NEW b \in 0 .. 255
      PROVE  b \div 16 \in 0 .. 15 /\ b % 16 \in 0 .. 15 /\ 16 * (b \div 16) + (b % 16) = b
  <2>1. b \in Int /\ 0 <= b /\ b <= 255
    BY <1>2
  <2>2. b \div 16 \in Int /\ 0 <= b \div 16 /\ b \div 16 <= 15
    BY <2>1
  <2>3. b % 16 \in Int /\ 0 <= b % 16 /\ b % 16 <= 15
    BY <2>1
  <2>4. b % 16 = b - 16 * (b \div 16)
    BY <2>1
  <2>5. ASSUME NEW d \in Int, NEW m \in Int, m = b - 16 * d
        PROVE  16 * d + m = b
    BY <2>1, <2>5
  <2>6. 16 * (b \div 16) + (b % 16) = b
    BY <2>2, <2>3, <2>4, <2>5
  <2>7. \A d \in Int : 0 <= d /\ d <= 15 => d \in 0 .. 15
    OBVIOUS
  <2> QED BY <2>2, <2>3, <2>6, <2>7
<1> QED BY <1>1, <1>2 DEF Hex

\* Two more digits spell one more byte.
LEMMA SpellsOneMore ==
    ASSUME NEW mac \in Macs, NEW k \in 1 .. 6, NEW number, Spells(number, mac, k - 1)
    PROVE  Spells(number \o <<mac[k] \div 16, mac[k] % 16>>, mac, k)
<1> DEFINE hi == mac[k] \div 16
           lo == mac[k] % 16
           more == number \o <<hi, lo>>
<1>1. hi \in Characters /\ lo \in Characters
  BY Digits DEF Hex, Characters
<1> HIDE DEF hi, lo
<1>2. number \in Seq(Characters) /\ Len(number) = 2 * (k - 1) /\ <<hi, lo>> \in Seq(Characters)
  BY <1>1 DEF Spells
<1>3. /\ more \in Seq(Characters) /\ Len(more) = 2 * k
      /\ \A i \in 1 .. 2 * (k - 1) : more[i] = number[i]
      /\ more[2 * k - 1] = hi /\ more[2 * k] = lo
  BY <1>2
<1> HIDE DEF more
<1>4. ASSUME NEW j \in 1 .. k, j # k
      PROVE  more[2 * j - 1] = mac[j] \div 16 /\ more[2 * j] = mac[j] % 16
  <2>1. j \in 1 .. k - 1 /\ 2 * j - 1 \in 1 .. 2 * (k - 1) /\ 2 * j \in 1 .. 2 * (k - 1)
    BY <1>4
  <2> QED BY <1>3, <2>1 DEF Spells
<1>5. Spells(more, mac, k)
  BY <1>3, <1>4 DEF Spells, hi, lo
<1> QED BY <1>5 DEF more, hi, lo

LEMMA SpelledOneByOne ==
    ASSUME NEW mac \in Macs, NEW k \in 1 .. 6, NEW number \in Seq(Characters)
    PROVE  (number \o <<mac[k] \div 16>>) \o <<mac[k] % 16>>
               = number \o <<mac[k] \div 16, mac[k] % 16>>
<1>1. mac[k] \div 16 \in Characters /\ mac[k] % 16 \in Characters
  BY Digits DEF Hex, Characters
<1>2. ASSUME NEW hi \in Characters, NEW lo \in Characters
      PROVE  (number \o <<hi>>) \o <<lo>> = number \o <<hi, lo>>
  <2> DEFINE left == (number \o <<hi>>) \o <<lo>>
             right == number \o <<hi, lo>>
  <2>1. left \in Seq(Characters) /\ right \in Seq(Characters)
    OBVIOUS
  <2>2. Len(left) = Len(number) + 2 /\ Len(right) = Len(number) + 2
    OBVIOUS
  <2>3. ASSUME NEW i \in 1 .. Len(number) + 2
        PROVE  left[i] = right[i]
    <3>1. Len(number) \in Nat
      OBVIOUS
    <3>2. CASE i <= Len(number)
      BY <3>1, <3>2
    <3>3. CASE i = Len(number) + 1
      BY <3>1, <3>3
    <3>4. CASE i = Len(number) + 2
      BY <3>1, <3>4
    <3> QED BY <2>3, <3>1, <3>2, <3>3, <3>4
  <2> HIDE DEF left, right
  <2>4. left = right
    BY <2>1, <2>2, <2>3
  <2> QED BY <2>4 DEF left, right
<1> QED BY <1>1, <1>2

LEMMA SpelledTogether ==
    ASSUME NEW mac \in Macs
    PROVE  Spells(macAddressToString(mac, <<>>), mac, 6)
<1> DEFINE digits(i) == <<mac[i] \div 16, mac[i] % 16>>
           q == [i \in 1 .. 6 |-> (IF i = 1 THEN <<>> ELSE <<>>) \o digits(i)]
<1>1. \A i \in 1 .. 6 : digits(i) \in Seq(Characters)
  BY Digits DEF Hex, Characters
<1>2. \A i \in 1 .. 6 : q[i] = digits(i)
  <2> HIDE DEF digits
  <2> QED BY <1>1
<1>3. q \in [1 .. 6 -> Seq(Characters)]
  BY <1>1, <1>2
<1> DEFINE n == 6
<1>0. n \in Nat /\ q \in [1 .. n -> Seq(Characters)]
  BY <1>3
<1> HIDE DEF n, q
<1>4. PICK f \in [0 .. n -> Seq(Characters)] :
          /\ f[0] = <<>>
          /\ \A k \in 1 .. n : f[k] = f[k - 1] \o q[k]
          /\ FlattenSeq(q) = f[n]
  BY <1>0, FlattenLoop
<1>5. Spells(f[0], mac, 0)
  BY <1>4 DEF Spells
<1>6. \A k \in 1 .. 6 : Spells(f[k - 1], mac, k - 1) => Spells(f[k], mac, k)
  <2> SUFFICES ASSUME NEW k \in 1 .. 6, Spells(f[k - 1], mac, k - 1)
               PROVE  Spells(f[k], mac, k)
    OBVIOUS
  <2>1. f[k] = f[k - 1] \o digits(k)
    <3> HIDE DEF digits
    <3> QED BY <1>2, <1>4 DEF n
  <2> QED BY <2>1, SpellsOneMore
<1>7. Spells(f[1], mac, 1) /\ Spells(f[2], mac, 2)
  BY <1>5, <1>6, 1 - 1 = 0, 2 - 1 = 1
<1>8. Spells(f[3], mac, 3) /\ Spells(f[4], mac, 4)
  BY <1>6, <1>7, 3 - 1 = 2, 4 - 1 = 3
<1>9. Spells(f[5], mac, 5) /\ Spells(f[6], mac, 6)
  BY <1>6, <1>8, 5 - 1 = 4, 6 - 1 = 5
<1> QED BY <1>4, <1>9 DEF macAddressToString, n, q

\* With colons between the bytes.
Separates(string, mac, k) ==
    /\ string \in Seq(Characters) /\ Len(string) = 3 * k - 1
    /\ \A j \in 1 .. k : string[3 * j - 2] = mac[j] \div 16 /\ string[3 * j - 1] = mac[j] % 16
    /\ \A j \in 1 .. k - 1 : string[3 * j] = Colon

LEMMA SeparatesOneMore ==
    ASSUME NEW mac \in Macs, NEW k \in 2 .. 6, NEW string, Separates(string, mac, k - 1)
    PROVE  Separates(string \o (<<Colon>> \o <<mac[k] \div 16, mac[k] % 16>>), mac, k)
<1> DEFINE hi == mac[k] \div 16
           lo == mac[k] % 16
           more == string \o (<<Colon>> \o <<hi, lo>>)
<1>1. hi \in Characters /\ lo \in Characters /\ Colon \in Characters
  BY Digits DEF Hex, Characters, Colon
<1> HIDE DEF hi, lo
<1>2. /\ string \in Seq(Characters) /\ Len(string) = 3 * k - 4
      /\ <<Colon, hi, lo>> \in Seq(Characters)
  BY <1>1, 3 * (k - 1) - 1 = 3 * k - 4 DEF Separates
<1>0. <<Colon>> \o <<hi, lo>> = <<Colon, hi, lo>>
  BY <1>1, ThreeInARow
<1>3. /\ more \in Seq(Characters) /\ Len(more) = 3 * k - 1
      /\ \A i \in 1 .. 3 * k - 4 : more[i] = string[i]
      /\ more[3 * k - 3] = Colon /\ more[3 * k - 2] = hi /\ more[3 * k - 1] = lo
  BY <1>0, <1>2
<1> HIDE DEF more
<1>4. ASSUME NEW j \in 1 .. k, j # k
      PROVE  more[3 * j - 2] = mac[j] \div 16 /\ more[3 * j - 1] = mac[j] % 16
  <2>1. j \in 1 .. k - 1 /\ 3 * j - 2 \in 1 .. 3 * k - 4 /\ 3 * j - 1 \in 1 .. 3 * k - 4
    BY <1>4
  <2> QED BY <1>3, <2>1 DEF Separates
<1>5. ASSUME NEW j \in 1 .. k - 1
      PROVE  more[3 * j] = Colon
  <2>1. CASE j = k - 1
    BY <1>3, <2>1, 3 * (k - 1) = 3 * k - 3
  <2>2. CASE j # k - 1
    <3>1. j \in 1 .. (k - 1) - 1 /\ 3 * j \in 1 .. 3 * k - 4
      BY <2>2
    <3> QED BY <1>3, <3>1 DEF Separates
  <2> QED BY <2>1, <2>2
<1>6. Separates(more, mac, k)
  BY <1>3, <1>4, <1>5 DEF Separates, hi, lo
<1> QED BY <1>6 DEF more, hi, lo

LEMMA SpelledApart ==
    ASSUME NEW mac \in Macs
    PROVE  Separates(macAddressToString(mac, <<Colon>>), mac, 6)
<1> DEFINE digits(i) == <<mac[i] \div 16, mac[i] % 16>>
           q == [i \in 1 .. 6 |-> (IF i = 1 THEN <<>> ELSE <<Colon>>) \o digits(i)]
<1>1. /\ \A i \in 1 .. 6 : digits(i) \in Seq(Characters)
      /\ <<>> \in Seq(Characters) /\ <<Colon>> \in Seq(Characters)
  BY Digits DEF Hex, Characters, Colon
<1>2. q \in [1 .. 6 -> Seq(Characters)]
  <2> HIDE DEF digits
  <2> QED BY <1>1
<1>3. q[1] = digits(1) /\ \A i \in 2 .. 6 : q[i] = <<Colon>> \o digits(i)
  <2> HIDE DEF digits
  <2> QED BY <1>1
<1> DEFINE n == 6
<1>0. n \in Nat /\ q \in [1 .. n -> Seq(Characters)]
  BY <1>2
<1> HIDE DEF n, q
<1>4. PICK f \in [0 .. n -> Seq(Characters)] :
          /\ f[0] = <<>>
          /\ \A k \in 1 .. n : f[k] = f[k - 1] \o q[k]
          /\ FlattenSeq(q) = f[n]
  BY <1>0, FlattenLoop
<1>5. Separates(f[1], mac, 1)
  <2>1. f[1] = <<>> \o q[1]
    <3>1. 1 \in 1 .. n /\ 1 - 1 = 0
      BY DEF n
    <3> QED BY <1>4, <3>1
  <2>2. f[1] = digits(1)
    <3> HIDE DEF digits
    <3> QED BY <1>1, <1>3, <2>1
  <2>3. f[1] \in Seq(Characters)
    BY <1>1, <2>2
  <2>4. Len(f[1]) = 3 * 1 - 1 /\ f[1][1] = mac[1] \div 16 /\ f[1][2] = mac[1] % 16
    BY <2>2
  <2>5. \A j \in 1 .. 1 : j = 1 /\ 3 * j - 2 = 1 /\ 3 * j - 1 = 2
    OBVIOUS
  <2>6. 1 .. 1 - 1 = {}
    OBVIOUS
  <2> QED BY <2>3, <2>4, <2>5, <2>6 DEF Separates
<1>6. \A k \in 2 .. 6 : Separates(f[k - 1], mac, k - 1) => Separates(f[k], mac, k)
  <2> SUFFICES ASSUME NEW k \in 2 .. 6, Separates(f[k - 1], mac, k - 1)
               PROVE  Separates(f[k], mac, k)
    OBVIOUS
  <2>1. f[k] = f[k - 1] \o (<<Colon>> \o digits(k))
    <3> HIDE DEF digits
    <3>1. k \in 1 .. n
      BY DEF n
    <3> QED BY <1>3, <1>4, <3>1
  <2> QED BY <2>1, SeparatesOneMore
<1>7. Separates(f[2], mac, 2) /\ Separates(f[3], mac, 3)
  BY <1>5, <1>6, 2 - 1 = 1, 3 - 1 = 2
<1>8. Separates(f[4], mac, 4) /\ Separates(f[5], mac, 5)
  BY <1>6, <1>7, 4 - 1 = 3, 5 - 1 = 4
<1>9. Separates(f[6], mac, 6)
  BY <1>6, <1>8, 6 - 1 = 5
<1> QED BY <1>4, <1>9 DEF macAddressToString, n, q

\* The string without the separators.
Erased(string, separator) ==
    FlattenSeq([i \in DOMAIN string |-> IF Contains(separator, string[i]) THEN <<>>
                                        ELSE <<string[i]>>])


LEMMA NothingErased ==
    ASSUME NEW string \in Seq(Characters)
    PROVE  Erased(string, <<>>) = string
<1>1. \A i \in DOMAIN string : ~Contains(<<>>, string[i])
  BY DEF Contains
<1>2. Erased(string, <<>>) = FlattenSeq([i \in DOMAIN string |-> <<string[i]>>])
  BY <1>1 DEF Erased
<1> QED BY <1>2, Singles

LEMMA ColonsErased ==
    ASSUME NEW mac \in Macs, NEW string, Separates(string, mac, 6)
    PROVE  Spells(Erased(string, <<Colon>>), mac, 6)
<1> DEFINE n == 17
           q == [i \in DOMAIN string |-> IF Contains(<<Colon>>, string[i]) THEN <<>>
                                         ELSE <<string[i]>>]
<1>1. string \in Seq(Characters) /\ DOMAIN string = 1 .. n /\ n \in Nat
  BY DEF Separates
<1>2. \A c : Contains(<<Colon>>, c) <=> c = Colon
  BY DEF Contains
<1>3. \A i \in 1 .. n : q[i] = IF string[i] = Colon THEN <<>> ELSE <<string[i]>>
  BY <1>1, <1>2
<1>4. q \in [1 .. n -> Seq(Characters)]
  <2> HIDE DEF n
  <2>1. \A i \in 1 .. n : q[i] \in Seq(Characters)
    <3>1. \A i \in 1 .. n : string[i] \in Characters
      BY <1>1
    <3>2. <<>> \in Seq(Characters) /\ \A c \in Characters : <<c>> \in Seq(Characters)
      OBVIOUS
    <3> HIDE DEF q
    <3> QED BY <1>3, <3>1, <3>2
  <2> QED BY <1>1, <2>1
<1> HIDE DEF q, n
<1>5. PICK f \in [0 .. n -> Seq(Characters)] :
          /\ f[0] = <<>>
          /\ \A k \in 1 .. n : f[k] = f[k - 1] \o q[k]
          /\ FlattenSeq(q) = f[n]
  BY <1>1, <1>4, FlattenLoop
<1>6. ASSUME NEW k \in 1 .. 6
      PROVE  f[3 * k - 1] = (f[3 * k - 3] \o <<mac[k] \div 16>>) \o <<mac[k] % 16>>
  <2>1. /\ 3 * k - 2 \in 1 .. n /\ 3 * k - 1 \in 1 .. n
        /\ (3 * k - 2) - 1 = 3 * k - 3 /\ (3 * k - 1) - 1 = 3 * k - 2
    BY DEF n
  <2>2. string[3 * k - 2] = mac[k] \div 16 /\ string[3 * k - 1] = mac[k] % 16
    BY DEF Separates
  <2>3. mac[k] \div 16 # Colon /\ mac[k] % 16 # Colon
    <3>1. Colon \notin Hex
      BY DEF Hex, Colon
    <3> QED BY <3>1, Digits
  <2>4. q[3 * k - 2] = <<mac[k] \div 16>> /\ q[3 * k - 1] = <<mac[k] % 16>>
    BY <1>3, <2>1, <2>2, <2>3
  <2>5. f[3 * k - 2] = f[3 * k - 3] \o q[3 * k - 2] /\ f[3 * k - 1] = f[3 * k - 2] \o q[3 * k - 1]
    BY <1>5, <2>1
  <2> QED BY <2>4, <2>5
<1>7. ASSUME NEW k \in 1 .. 5
      PROVE  f[3 * k] = f[3 * k - 1]
  <2>1. 3 * k \in 1 .. n /\ 3 * k - 1 \in 0 .. n /\ string[3 * k] = Colon
    <3>1. k \in 1 .. 6 - 1 /\ 3 * k \in 1 .. n /\ 3 * k - 1 \in 0 .. n
      BY DEF n
    <3>2. string[3 * k] = Colon
      BY <3>1 DEF Separates
    <3> QED BY <3>1, <3>2
  <2>2. f[3 * k] = f[3 * k - 1] \o <<>> /\ f[3 * k - 1] \in Seq(Characters)
    BY <1>3, <1>5, <2>1
  <2> QED BY <2>2
<1>8. Spells(f[0], mac, 0)
  BY <1>5 DEF Spells
<1>9. ASSUME NEW k \in 1 .. 6, Spells(f[3 * k - 3], mac, k - 1)
      PROVE  Spells(f[3 * k - 1], mac, k)
  <2>1. f[3 * k - 3] \in Seq(Characters)
    BY <1>9 DEF Spells
  <2> QED BY <1>6, <1>9, <2>1, SpellsOneMore, SpelledOneByOne
<1>10. \A k \in 1 .. 5 : Spells(f[3 * k - 1], mac, k) => Spells(f[3 * (k + 1) - 1], mac, k + 1)
  <2> SUFFICES ASSUME NEW k \in 1 .. 5, Spells(f[3 * k - 1], mac, k)
               PROVE  Spells(f[3 * (k + 1) - 1], mac, k + 1)
    OBVIOUS
  <2>1. k + 1 \in 1 .. 6 /\ (k + 1) - 1 = k /\ 3 * (k + 1) - 3 = 3 * k
    OBVIOUS
  <2>2. Spells(f[3 * k], mac, k)
    BY <1>7
  <2> QED BY <1>9, <2>1, <2>2
<1>11. Spells(f[3 * 1 - 1], mac, 1)
  BY <1>8, <1>9, 3 * 1 - 3 = 0, 1 - 1 = 0
<1>12. Spells(f[3 * 2 - 1], mac, 2) /\ Spells(f[3 * 3 - 1], mac, 3)
  BY <1>10, <1>11, 1 + 1 = 2, 2 + 1 = 3
<1>13. Spells(f[3 * 4 - 1], mac, 4) /\ Spells(f[3 * 5 - 1], mac, 5)
  BY <1>10, <1>12, 3 + 1 = 4, 4 + 1 = 5
<1>14. Spells(f[n], mac, 6)
  BY <1>10, <1>13, 5 + 1 = 6, 3 * 6 - 1 = 17 DEF n
<1> QED BY <1>5, <1>14 DEF Erased, q

\* The number that stringToMacAddress cuts into bytes.
LEMMA Cut ==
    ASSUME NEW mac \in Macs, NEW string, NEW s, Spells(Erased(string, s), mac, 6)
    PROVE  stringToMacAddress(string, s) = mac
<1> DEFINE erased == Erased(string, s)
           number == Leading(erased)
           zeros == [i \in 1 .. 12 |-> 0]
           padded == zeros \o number
           digit(i) == padded[Len(padded) - 12 + i]
<1>1. stringToMacAddress(string, s) = [i \in 1 .. 6 |-> 16 * digit(2 * i - 1) + digit(2 * i)]
  BY DEF stringToMacAddress, Erased
<1>2. erased \in Seq(Characters) /\ Len(erased) = 12
  BY DEF Spells
<1>3. \A j \in 1 .. 6 : erased[2 * j - 1] = mac[j] \div 16 /\ erased[2 * j] = mac[j] % 16
  BY DEF Spells
<1> HIDE DEF erased
<1>4. ASSUME NEW i \in DOMAIN erased
      PROVE  erased[i] \in Hex
  <2>1. i \in 1 .. 12
    BY <1>2
  <2>2. PICK j \in 1 .. 6 : i = 2 * j - 1 \/ i = 2 * j
    <3>1. CASE i % 2 = 0
      <4>1. i \div 2 \in 1 .. 6 /\ i = 2 * (i \div 2)
        BY <2>1, <3>1
      <4> QED BY <4>1
    <3>2. CASE i % 2 # 0
      <4>1. (i + 1) \div 2 \in 1 .. 6 /\ i = 2 * ((i + 1) \div 2) - 1
        BY <2>1, <3>2
      <4> QED BY <4>1
    <3> QED BY <3>1, <3>2
  <2> QED BY <1>3, <2>2, Digits
<1>5. number = erased
  <2>1. {i \in DOMAIN erased : erased[i] \notin Hex} = {}
    BY <1>4
  <2>2. number = SubSeq(erased, 1, Len(erased))
    BY <2>1 DEF Leading
  <2> QED BY <1>2, <2>2
<1> HIDE DEF number
<1>6. zeros \in Seq(Characters) /\ Len(zeros) = 12
  BY DEF Characters
<1> HIDE DEF zeros
<1>7. Len(padded) = 24 /\ \A i \in 1 .. 12 : padded[12 + i] = erased[i]
  <2>1. number \in Seq(Characters) /\ Len(number) = 12
    BY <1>2, <1>5
  <2>2. zeros \in Seq(Characters)
    BY <1>6
  <2>3. number \in Seq(Characters)
    BY <2>1
  <2>4. Len(zeros) \in Nat /\ Len(number) \in Nat /\ Len(padded) = Len(zeros) + Len(number)
    BY <2>2, <2>3
  <2>5. ASSUME NEW i \in 1 .. Len(number)
        PROVE  padded[Len(zeros) + i] = number[i]
    <3>1. /\ Len(zeros) + i \in 1 .. Len(zeros) + Len(number)
          /\ ~(Len(zeros) + i <= Len(zeros)) /\ (Len(zeros) + i) - Len(zeros) = i
      BY <2>4
    <3> QED BY <2>2, <2>3, <3>1
  <2> HIDE DEF padded
  <2> QED BY <1>5, <1>6, <2>1, <2>4, <2>5
<1> HIDE DEF padded
<1>8. \A j \in 1 .. 6 : digit(2 * j - 1) = mac[j] \div 16 /\ digit(2 * j) = mac[j] % 16
  <2> TAKE j \in 1 .. 6
  <2>1. 2 * j - 1 \in 1 .. 12 /\ 2 * j \in 1 .. 12 /\ Len(padded) - 12 = 12
    BY <1>7
  <2> QED BY <1>3, <1>7, <2>1
<1> HIDE DEF digit
<1>9. \A j \in 1 .. 6 : 16 * digit(2 * j - 1) + digit(2 * j) = mac[j]
  <2> TAKE j \in 1 .. 6
  <2> QED BY <1>8, Digits
<1> QED BY <1>1, <1>9 DEF Macs

LEMMA ReadBack ==
    ASSUME NEW mac \in Macs, NEW s \in Separators
    PROVE  stringToMacAddress(macAddressToString(mac, s), s) = mac
<1>1. CASE s = <<>>
  <2>1. Spells(macAddressToString(mac, <<>>), mac, 6)
    BY SpelledTogether
  <2>2. Erased(macAddressToString(mac, <<>>), <<>>) = macAddressToString(mac, <<>>)
    BY <2>1, NothingErased DEF Spells
  <2> QED BY <1>1, <2>1, <2>2, Cut
<1>2. CASE s = <<Colon>>
  BY <1>2, SpelledApart, ColonsErased, Cut
<1> QED BY <1>1, <1>2 DEF Separators

\* What a copy has of its interface, and what a string is the display of.
Copied(h) == original[h].name \in Adapters /\ copy[h].mac_address = Mac[original[h].name]
Displayed == text # Null => \E a \in Adapters : text = macAddressToString(Mac[a], <<Colon>>)
MacInv == Displayed /\ \A h \in DOMAIN copy : Copied(h)

LEMMA MacStep ==
    ASSUME BindingInv, MacInv, [Next]_vars
    PROVE  MacInv'
<1>0. EnumTypeOK /\ BindingTypeOK /\ DOMAIN table \subseteq Adapters
  BY DEF BindingInv, EnumInv, CopyInv, EnumTypeOK, IsList
<1>1. ASSUME NEW a \in DOMAIN table, NEW h \in Handles, Make(h, a), text' = text
      PROVE  MacInv'
  <2>1. /\ DOMAIN copy' = DOMAIN copy \cup {h}
        /\ \A k \in DOMAIN copy : copy'[k] = copy[k]
        /\ \A k \in DOMAIN original : original'[k] = original[k]
        /\ copy'[h].mac_address = Mac[a] /\ original'[h].name = a
    BY <1>0, <1>1, Makes
  <2>2. DOMAIN original = DOMAIN copy
    BY <1>0 DEF BindingTypeOK
  <2>3. a \in Adapters /\ \A k \in DOMAIN copy' \ {h} : k \in DOMAIN copy
    BY <1>0, <2>1
  <2> QED BY <1>1, <2>1, <2>2, <2>3 DEF MacInv, Copied, Displayed
<1>2. CASE \E a \in Adapters : LA_NIH_getInterfaceByName(a)
  BY <1>1, <1>2 DEF LA_NIH_getInterfaceByName
<1>3. CASE HandOut
  BY <1>0, <1>1, <1>3 DEF HandOut, BindingTypeOK
<1>4. CASE \E h \in Handles : LA_NIH_freeNetworkInterface(h)
  BY <1>4 DEF LA_NIH_freeNetworkInterface, MacInv, Copied, Displayed
<1>5. CASE \E h \in Handles : LA_NIH_macAddressToString(h)
  BY <1>5 DEF LA_NIH_macAddressToString, MacInv, Copied, Displayed
<1>6. CASE ProgramFreesString
  BY <1>6 DEF ProgramFreesString, MacInv, Copied, Displayed
<1>7. CASE UNCHANGED <<text, copy, original>>
  BY <1>7 DEF MacInv, Copied, Displayed
<1> QED BY <1>2, <1>3, <1>4, <1>5, <1>6, <1>7
        DEF Next, Program, Apart, vars, bindingVars, LA_NIH_enumerateInterfaces

\* hpp:377: whatever the six bytes, the string that macAddressToString makes of
\* them, with colons or without, is read back as the same bytes; so is a string
\* a C program still holds when the copy it was made from is gone.
THEOREM MacAddressesAreReadBack == Spec => []MacAddressesReadBack
<1>1. Init => MacInv
  BY DEF Init, MacInv, Copied, Displayed, Nothing
<1>2. BindingInv /\ MacInv /\ [Next]_vars => MacInv'
  BY MacStep
<1>3. MacInv => MacAddressesReadBack
  <2>1. \A a \in Adapters : Mac[a] \in Macs
    BY MacAssumption DEF Macs
  <2>2. <<Colon>> \in Separators
    BY DEF Separators
  <2> QED BY <2>1, <2>2, ReadBack DEF MacInv, Copied, Displayed, MacAddressesReadBack
<1> QED BY <1>1, <1>2, <1>3, Inductive, PTL DEF Spec

=============================================================================
