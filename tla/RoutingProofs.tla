--------------------------- MODULE RoutingProofs ---------------------------
(***************************************************************************)
(* Routing for any number of reactors and members, any weights and any     *)
(* width of the counter: types, that the weighted pick runs under the      *)
(* mutex, that nil is only returned when nobody stayed eligible, that no   *)
(* index is out of range before Half picks, that each weighted pick takes  *)
(* back what it gave out, and that the picks follow the weights.           *)
(***************************************************************************)
EXTENDS Routing, TLAPS, FiniteSetTheorems, WellFoundedInduction

(* Go's remainder of an int that is not negative is a member; of any int   *)
(* it is an int.                                                           *)
LEMMA RemMember ==
  \A a \in Int : GoRem(a, N) \in Int /\ (a >= 0 => GoRem(a, N) \in Members)
  BY RoutingAssumption DEF GoRem, Members

LEMMA SmallRem == \A b \in Nat \ {0} : b % b = 0 /\ \A a \in 0 .. b - 1 : a % b = a
  OBVIOUS

LEMMA WeightPositive == \A i \in Members : W(i) \in Nat \ {0}
  BY RoutingAssumption DEF W, Members

(* From any start the walk reaches each member within N steps.             *)
LEMMA WalkReaches ==
  ASSUME NEW s \in Members, NEW m \in Members
  PROVE  \E j \in 0 .. N - 1 : (s + j) % N = m
<1>1. CASE m >= s
  <2>1. m - s \in 0 .. N - 1 /\ (s + (m - s)) % N = m
    BY <1>1, RoutingAssumption DEF Members
  <2>. QED  BY <2>1
<1>2. CASE m < s
  <2>1. m - s + N \in 0 .. N - 1 /\ (s + (m - s + N)) % N = m
    BY <1>2, RoutingAssumption DEF Members
  <2>. QED  BY <2>1
<1>. QED  BY <1>1, <1>2, RoutingAssumption DEF Members

----------------------------------------------------------------------------
(* Sums over the members.  The induction they need is that a set of        *)
(* naturals that is not empty has a least element.                         *)

LEMMA LeastNat ==
  ASSUME NEW T \in SUBSET Nat, T # {}
  PROVE  \E x \in T : \A y \in T : x <= y
<1>. DEFINE R == OpToRel(<, Nat)
<1>1. IsWellFoundedOn(R, Nat)
  BY NatLessThanWellFounded
<1>2. \A x, y \in Nat : y < x => <<y, x>> \in R
  BY DEF OpToRel
<1>. HIDE DEF R
<1>3. PICK x \in T : \A y \in T : ~ (<<y, x>> \in R)
  BY <1>1, WFMin
<1>4. \A y \in T : y \in Nat /\ ~ (y < x)
  BY <1>2, <1>3
<1>. QED  BY <1>4

LEMMA MembersFinite == IsFiniteSet(Members)
  BY RoutingAssumption, FS_Interval DEF Members

(* A set of members that is not empty loses one element of its choice.     *)
Elem(s) == CHOOSE x \in s : TRUE
LEMMA SizesNat == \A s \in SUBSET Members : Cardinality(s) \in Nat
  BY MembersFinite, FS_Subset, FS_CardinalityType

LEMMA ElemDrops ==
  ASSUME NEW s \in SUBSET Members, s # {}
  PROVE  /\ Elem(s) \in s /\ s \ {Elem(s)} \in SUBSET Members
         /\ Cardinality(s) \in Nat \ {0}
         /\ Cardinality(s \ {Elem(s)}) = Cardinality(s) - 1
<1>1. Elem(s) \in s
  BY DEF Elem
<1>2. IsFiniteSet(s)
  BY MembersFinite, FS_Subset
<1>3. Cardinality(s) \in Nat /\ Cardinality(s) # 0
  BY <1>2, FS_CardinalityType, FS_EmptySet
<1>4. Cardinality(s \ {Elem(s)}) = Cardinality(s) - 1
  BY <1>1, <1>2, FS_RemoveElement
<1>. QED  BY <1>1, <1>3, <1>4

(* Induction over sets of members: the sets that lack what every set gets  *)
(* from a smaller one do not exist.                                        *)
LEMMA MemberSets ==
  ASSUME NEW B \in SUBSET (SUBSET Members),
         \A s \in B : s # {} /\ s \ {Elem(s)} \in B
  PROVE  B = {}
<1>. SUFFICES ASSUME B # {} PROVE FALSE
  OBVIOUS
<1>. DEFINE T == {Cardinality(s) : s \in B}
<1>1. T \in SUBSET Nat /\ T # {}
  BY SizesNat
<1>2. PICK s \in B : \A r \in B : Cardinality(s) <= Cardinality(r)
  <2>1. PICK k \in T : \A j \in T : k <= j
    <3>. HIDE DEF T
    <3>. QED  BY <1>1, LeastNat
  <2>. QED  BY <2>1
<1>3. Cardinality(s \ {Elem(s)}) = Cardinality(s) - 1 /\ Cardinality(s) \in Nat
  BY ElemDrops
<1>. QED  BY <1>2, <1>3

(* The function that the sum is a value of.                                *)
Sums(f, g) ==
    g = [s \in SUBSET Members |->
            IF s = {} THEN 0 ELSE f[Elem(s)] + g[s \ {Elem(s)}]]

LEMMA SumsUnique ==
  ASSUME NEW f, NEW g, NEW h, Sums(f, g), Sums(f, h)
  PROVE  g = h
<1>. DEFINE B == {s \in SUBSET Members : g[s] # h[s]}
<1>1. ASSUME NEW s \in B PROVE s # {} /\ s \ {Elem(s)} \in B
  <2>1. s # {}
    BY DEF Sums
  <2>2. g[s] = f[Elem(s)] + g[s \ {Elem(s)}] /\ h[s] = f[Elem(s)] + h[s \ {Elem(s)}]
    BY <2>1 DEF Sums
  <2>. QED  BY <2>1, <2>2, ElemDrops
<1>2. B = {}
  BY <1>1, MemberSets
<1>3. \A s \in SUBSET Members : g[s] = h[s]
  BY <1>2
<1>4. DOMAIN g = SUBSET Members /\ DOMAIN h = SUBSET Members
  BY DEF Sums
<1>. QED  BY <1>3, <1>4 DEF Sums

LEMMA SumsExist ==
  ASSUME NEW f \in [Members -> Int]
  PROVE  \E g \in [SUBSET Members -> Int] : Sums(f, g)
<1>. DEFINE Small(k) == {s \in SUBSET Members : Cardinality(s) <= k}
            Part(k, g) ==
              \A s \in Small(k) :
                 g[s] = IF s = {} THEN 0 ELSE f[Elem(s)] + g[s \ {Elem(s)}]
            Fails == {k \in Nat : ~ \E g \in [Small(k) -> Int] : Part(k, g)}
<1>1. ASSUME NEW k \in Fails PROVE \E j \in Fails : j < k
  <2>1. CASE k = 0
    <3>1. \A s \in Small(0) : s = {}
      <4>. SUFFICES ASSUME NEW s \in Small(0), s # {} PROVE FALSE
        OBVIOUS
      <4>1. Cardinality(s) \in Nat \ {0} /\ Cardinality(s) <= 0
        BY ElemDrops
      <4>. QED  BY <4>1
    <3>. DEFINE g == [s \in Small(0) |-> 0]
    <3>2. g \in [Small(0) -> Int] /\ Part(0, g)
      BY <3>1
    <3>. QED  BY <2>1, <3>2
  <2>2. CASE k # 0 /\ k - 1 \notin Fails
    <3>1. k - 1 \in Nat
      BY <2>2
    <3>2. PICK g \in [Small(k - 1) -> Int] : Part(k - 1, g)
      BY <2>2, <3>1
    <3>. DEFINE h == [s \in Small(k) |->
                        IF s = {} THEN 0 ELSE f[Elem(s)] + g[s \ {Elem(s)}]]
    <3>3. ASSUME NEW s \in Small(k), s # {}
          PROVE  s \ {Elem(s)} \in Small(k - 1) /\ s \ {Elem(s)} \in Small(k)
      BY <3>1, <3>3, ElemDrops
    <3>4. \A s \in Small(k - 1) : h[s] = g[s]
      <4>1. \A s \in Small(k - 1) : s \in Small(k)
        BY <3>1, SizesNat
      <4>. QED  BY <3>2, <4>1
    <3>5. h \in [Small(k) -> Int]
      <4>1. ASSUME NEW s \in Small(k), s # {}
            PROVE  f[Elem(s)] + g[s \ {Elem(s)}] \in Int
        <5>1. f[Elem(s)] \in Int
          BY <4>1, ElemDrops
        <5>2. g[s \ {Elem(s)}] \in Int
          BY <3>3, <4>1
        <5>. QED  BY <5>1, <5>2
      <4>. QED  BY <4>1
    <3>6. Part(k, h)
      <4>. SUFFICES ASSUME NEW s \in Small(k), s # {}
                    PROVE  h[s] = f[Elem(s)] + h[s \ {Elem(s)}]
        OBVIOUS
      <4>1. h[s \ {Elem(s)}] = g[s \ {Elem(s)}]
        BY <3>3, <3>4
      <4>. QED  BY <4>1
    <3>. HIDE DEF h
    <3>. QED  BY <3>5, <3>6
  <2>3. k - 1 \in Nat \/ k = 0
    OBVIOUS
  <2>4. CASE k # 0 /\ k - 1 \in Fails
    <3>1. k - 1 < k
      BY <2>3, <2>4
    <3>. HIDE DEF Fails
    <3>. QED  BY <2>4, <3>1
  <2>. QED  BY <2>1, <2>2, <2>4
<1>2. Fails = {}
  <2>. HIDE DEF Fails
  <2>1. Fails \in SUBSET Nat
    BY DEF Fails
  <2>. QED  BY <1>1, <2>1, LeastNat
<1>. DEFINE n0 == Cardinality(Members)
<1>3. n0 \in Nat /\ Small(n0) = SUBSET Members
  BY MembersFinite, FS_CardinalityType, FS_Subset
<1>4. PICK g \in [SUBSET Members -> Int] : Part(n0, g)
  BY <1>2, <1>3
<1>5. Sums(f, g)
  BY <1>3, <1>4 DEF Sums
<1>. QED  BY <1>5

(* The sum is well defined, and an integer.                                *)
LEMMA SumDefined ==
  ASSUME NEW f \in [Members -> Int]
  PROVE  \E g \in [SUBSET Members -> Int] : Sums(f, g) /\ SumOver(f) = g[Members]
<1>1. PICK g \in [SUBSET Members -> Int] : Sums(f, g)
  BY SumsExist
<1>2. \A h : Sums(f, h) => h = g
  BY <1>1, SumsUnique
<1>3. SumOver(f) = g[Members]
  BY <1>1, <1>2 DEF SumOver, MapThenSumSet, MapThenFoldSet, Sums, Elem
<1>. QED  BY <1>1, <1>3

(* What the function behind the sum knows of each set.                     *)
LEMMA SumsAt ==
  ASSUME NEW f \in [Members -> Int], NEW g \in [SUBSET Members -> Int], Sums(f, g)
  PROVE  /\ g[{}] = 0
         /\ \A s \in SUBSET Members : s # {} =>
               /\ Elem(s) \in s /\ s \ {Elem(s)} \in SUBSET Members
               /\ g[s] = f[Elem(s)] + g[s \ {Elem(s)}]
               /\ f[Elem(s)] \in Int /\ g[s \ {Elem(s)}] \in Int
<1>1. {} \in SUBSET Members /\ g[{}] = 0
  BY DEF Sums
<1>2. ASSUME NEW s \in SUBSET Members, s # {}
      PROVE  /\ Elem(s) \in s /\ s \ {Elem(s)} \in SUBSET Members
             /\ g[s] = f[Elem(s)] + g[s \ {Elem(s)}]
             /\ f[Elem(s)] \in Int /\ g[s \ {Elem(s)}] \in Int
  <2>1. Elem(s) \in s /\ Elem(s) \in Members /\ s \ {Elem(s)} \in SUBSET Members
    BY <1>2, ElemDrops
  <2>2. g[s] = f[Elem(s)] + g[s \ {Elem(s)}]
    BY <1>2 DEF Sums
  <2>. QED  BY <2>1, <2>2
<1>. QED  BY <1>1, <1>2

LEMMA SumType == \A f \in [Members -> Int] : SumOver(f) \in Int
  BY SumDefined

(* Changing one member's value changes the sum by as much.                 *)
LEMMA SumUpdate ==
  ASSUME NEW f \in [Members -> Int], NEW i \in Members, NEW d \in Int
  PROVE  SumOver([f EXCEPT ![i] = f[i] + d]) = SumOver(f) + d
<1>. DEFINE e == [f EXCEPT ![i] = f[i] + d]
<1>1. e \in [Members -> Int] /\ e[i] = f[i] + d /\ \A j \in Members \ {i} : e[j] = f[j]
  OBVIOUS
<1>. HIDE DEF e
<1>2. PICK g \in [SUBSET Members -> Int] : Sums(f, g) /\ SumOver(f) = g[Members]
  BY SumDefined
<1>3. PICK h \in [SUBSET Members -> Int] : Sums(e, h) /\ SumOver(e) = h[Members]
  BY <1>1, SumDefined
<1>. DEFINE B == {s \in SUBSET Members : h[s] # g[s] + (IF i \in s THEN d ELSE 0)}
<1>4. ASSUME NEW s \in B PROVE s # {} /\ s \ {Elem(s)} \in B
  <2>1. s # {}
    <3>. SUFFICES ASSUME s = {} PROVE FALSE
      OBVIOUS
    <3>1. g[{}] = 0 /\ h[{}] = 0
      BY <1>1, <1>2, <1>3, SumsAt
    <3>2. h[{}] # g[{}] + 0
      OBVIOUS
    <3>. QED  BY <3>1, <3>2
  <2>2. /\ Elem(s) \in s /\ s \ {Elem(s)} \in SUBSET Members
        /\ g[s] = f[Elem(s)] + g[s \ {Elem(s)}]
        /\ f[Elem(s)] \in Int /\ g[s \ {Elem(s)}] \in Int
    BY <1>2, <2>1, SumsAt
  <2>3. /\ h[s] = e[Elem(s)] + h[s \ {Elem(s)}]
        /\ e[Elem(s)] \in Int /\ h[s \ {Elem(s)}] \in Int
    BY <1>1, <1>3, <2>1, SumsAt
  <2>4. CASE Elem(s) = i
    BY <1>1, <2>1, <2>2, <2>3, <2>4
  <2>5. CASE Elem(s) # i
    <3>1. e[Elem(s)] = f[Elem(s)]
      BY <1>1, <2>2, <2>5
    <3>2. i \in s <=> i \in s \ {Elem(s)}
      BY <2>5
    <3>. QED  BY <2>1, <2>2, <2>3, <3>1, <3>2
  <2>. QED  BY <2>4, <2>5
<1>5. B = {}
  BY <1>4, MemberSets
<1>6. h[Members] = g[Members] + d
  BY <1>5
<1>. QED  BY <1>2, <1>3, <1>6 DEF e

LEMMA SumZero == SumOver([i \in Members |-> 0]) = 0
<1>. DEFINE f == [i \in Members |-> 0]
<1>1. f \in [Members -> Int] /\ \A i \in Members : f[i] = 0
  OBVIOUS
<1>. HIDE DEF f
<1>2. PICK g \in [SUBSET Members -> Int] : Sums(f, g) /\ SumOver(f) = g[Members]
  BY <1>1, SumDefined
<1>. DEFINE B == {s \in SUBSET Members : g[s] # 0}
<1>3. ASSUME NEW s \in B PROVE s # {} /\ s \ {Elem(s)} \in B
  <2>1. s # {}
    BY <1>1, <1>2, SumsAt
  <2>2. /\ Elem(s) \in s /\ s \ {Elem(s)} \in SUBSET Members
        /\ g[s] = f[Elem(s)] + g[s \ {Elem(s)}] /\ g[s \ {Elem(s)}] \in Int
    BY <1>1, <1>2, <2>1, SumsAt
  <2>. QED  BY <1>1, <2>1, <2>2
<1>4. B = {}
  BY <1>3, MemberSets
<1>. QED  BY <1>2, <1>4 DEF f

(* If nobody is below -c, a member is above the sum by at most c for each  *)
(* other member.                                                           *)
LEMMA SumBelow ==
  ASSUME NEW f \in [Members -> Int], NEW i \in Members, NEW c \in Nat,
         \A j \in Members : f[j] >= -c
  PROVE  f[i] <= SumOver(f) + (N - 1) * c
<1>1. PICK g \in [SUBSET Members -> Int] : Sums(f, g) /\ SumOver(f) = g[Members]
  BY SumDefined
<1>. DEFINE Low(s) == (IF i \in s THEN f[i] + c ELSE 0) - Cardinality(s) * c
            B == {s \in SUBSET Members : ~ (g[s] >= Low(s))}
<1>2. ASSUME NEW s \in B PROVE s # {} /\ s \ {Elem(s)} \in B
  <2>1. s # {}
    <3>. SUFFICES ASSUME s = {} PROVE FALSE
      OBVIOUS
    <3>1. g[{}] = 0
      BY <1>1, SumsAt
    <3>2. Cardinality({}) = 0
      BY FS_EmptySet
    <3>3. ~ (g[{}] >= 0 - Cardinality({}) * c)
      OBVIOUS
    <3>. HIDE DEF B, Low
    <3>. QED  BY <3>1, <3>2, <3>3
  <2>2. /\ Elem(s) \in s /\ s \ {Elem(s)} \in SUBSET Members
        /\ g[s] = f[Elem(s)] + g[s \ {Elem(s)}]
        /\ f[Elem(s)] \in Int /\ g[s \ {Elem(s)}] \in Int
    BY <1>1, <2>1, SumsAt
  <2>. DEFINE k == Cardinality(s)
  <2>3. k \in Nat /\ Cardinality(s \ {Elem(s)}) = k - 1 /\ f[Elem(s)] >= -c /\ f[i] \in Int
    BY <2>1, <2>2, ElemDrops
  <2>4. (k - 1) * c = k * c - c /\ k * c \in Int
    BY <2>3
  <2>. HIDE DEF k
  <2>5. Low(s \ {Elem(s)}) = (IF i \in s \ {Elem(s)} THEN f[i] + c ELSE 0) - (k * c - c)
    BY <2>3, <2>4
  <2>6. Low(s) = (IF i \in s THEN f[i] + c ELSE 0) - k * c
    BY DEF k
  <2>7. CASE Elem(s) = i
    <3>1. Low(s) = f[i] + c - k * c /\ Low(s \ {Elem(s)}) = c - k * c
      BY <2>2, <2>3, <2>4, <2>5, <2>6, <2>7
    <3>. HIDE DEF Low
    <3>. QED  BY <2>1, <2>2, <2>3, <2>4, <2>7, <3>1
  <2>8. CASE Elem(s) # i
    <3>1. Low(s \ {Elem(s)}) = Low(s) + c /\ Low(s) \in Int
      BY <2>2, <2>3, <2>4, <2>5, <2>6, <2>8
    <3>. HIDE DEF Low
    <3>. QED  BY <2>1, <2>2, <2>3, <3>1
  <2>. QED  BY <2>7, <2>8
<1>3. B = {}
  <2>. HIDE DEF B
  <2>1. B \in SUBSET (SUBSET Members)
    BY DEF B
  <2>. QED  BY <1>2, <2>1, MemberSets
<1>4. Cardinality(Members) = N
  BY RoutingAssumption, FS_Interval DEF Members
<1>5. g[Members] >= f[i] + c - N * c
  <2>1. Members \in SUBSET Members /\ Members \notin B
    BY <1>3
  <2>2. g[Members] >= Low(Members)
    BY <2>1
  <2>3. Low(Members) = f[i] + c - N * c
    <3>. DEFINE fi == f[i] + c
                k == Cardinality(Members) * c
    <3>. HIDE DEF fi, k
    <3>1. Low(Members) = fi - k
      BY Zenon DEF fi, k
    <3>2. k = N * c
      BY <1>4 DEF k
    <3>. HIDE DEF Low
    <3>. QED  BY <3>1, <3>2 DEF fi
  <2>. QED  BY <2>2, <2>3
<1>6. (N - 1) * c = N * c - c /\ N * c \in Int /\ g[Members] \in Int /\ f[i] \in Int
  BY RoutingAssumption
<1>. QED  BY <1>1, <1>5, <1>6

(* A sum above zero has a member above zero.                               *)
LEMMA SumPositive ==
  ASSUME NEW f \in [Members -> Int], SumOver(f) > 0
  PROVE  \E i \in Members : f[i] > 0
<1>. SUFFICES ASSUME \A i \in Members : f[i] <= 0 PROVE FALSE
  OBVIOUS
<1>1. PICK g \in [SUBSET Members -> Int] : Sums(f, g) /\ SumOver(f) = g[Members]
  BY SumDefined
<1>. DEFINE B == {s \in SUBSET Members : g[s] > 0}
<1>2. ASSUME NEW s \in B PROVE s # {} /\ s \ {Elem(s)} \in B
  <2>1. s # {}
    <3>. SUFFICES ASSUME s = {} PROVE FALSE
      OBVIOUS
    <3>1. g[{}] = 0 /\ g[{}] > 0
      BY <1>1, SumsAt
    <3>. QED  BY <3>1
  <2>2. /\ Elem(s) \in s /\ s \ {Elem(s)} \in SUBSET Members
        /\ g[s] = f[Elem(s)] + g[s \ {Elem(s)}]
        /\ f[Elem(s)] \in Int /\ g[s \ {Elem(s)}] \in Int
    BY <1>1, <2>1, SumsAt
  <2>3. f[Elem(s)] <= 0
    BY <2>2
  <2>. QED  BY <2>1, <2>2, <2>3
<1>3. B = {}
  BY <1>2, MemberSets
<1>. QED  BY <1>1, <1>3

(* One more is the next remainder, or 0 after the last.                    *)
LEMMA DivideBack ==
  ASSUME NEW b \in Int, b > 0, NEW a \in Int
  PROVE  a = (a % b) + b * (a \div b) /\ a % b \in 0 .. b - 1 /\ a \div b \in Int
<1>1. a = (a % b) + b * (a \div b)
  BY Z3
<1>2. a % b \in 0 .. b - 1 /\ a \div b \in Int
  OBVIOUS
<1>. QED  BY <1>1, <1>2

LEMMA QuotientUnique ==
  ASSUME NEW b \in Nat \ {0}, NEW q \in Int, NEW r \in 0 .. b - 1,
         NEW p \in Int, NEW s \in 0 .. b - 1, r + b * q = s + b * p
  PROVE  r = s
<1>1. ASSUME NEW x \in Int, NEW y \in Int, x < y PROVE b * y >= b * x + b
  <2>1. b * y >= b * (x + 1)
    BY <1>1
  <2>. QED  BY <2>1
<1>2. b * q \in Int /\ b * p \in Int
  OBVIOUS
<1>3. CASE q < p
  BY <1>1, <1>2, <1>3
<1>4. CASE p < q
  BY <1>1, <1>2, <1>4
<1>. QED  BY <1>3, <1>4

LEMMA NextRem ==
  ASSUME NEW b \in Nat \ {0}, NEW a \in Nat
  PROVE  (a + 1) % b = IF a % b = b - 1 THEN 0 ELSE (a % b) + 1
<1>. DEFINE q == a \div b
            r == a % b
            p == (a + 1) \div b
            s == (a + 1) % b
<1>1. /\ a = r + b * q /\ r \in 0 .. b - 1 /\ q \in Int
      /\ a + 1 = s + b * p /\ s \in 0 .. b - 1 /\ p \in Int
  BY DivideBack
<1>. HIDE DEF q, r, p, s
<1>2. CASE r = b - 1
  <2>1. b * (q + 1) = b * q + b
    BY <1>1
  <2>2. 0 + b * (q + 1) = s + b * p /\ q + 1 \in Int /\ 0 \in 0 .. b - 1
    BY <1>1, <1>2, <2>1
  <2>3. s = 0
    BY <1>1, <2>2, QuotientUnique
  <2>. QED  BY <1>2, <2>3 DEF r, s
<1>3. CASE r # b - 1
  <2>1. (r + 1) + b * q = s + b * p /\ r + 1 \in 0 .. b - 1
    BY <1>1, <1>3
  <2>2. s = r + 1
    BY <1>1, <2>1, QuotientUnique
  <2>. QED  BY <1>3, <2>2 DEF r, s
<1>. QED  BY <1>2, <1>3

----------------------------------------------------------------------------
(* The invariant: the scan is the mutex holder's, a walk has passed only   *)
(* members that were not eligible at some time since it started, and a     *)
(* panic follows an index computed from the upper half of the counter.     *)

Scanning == \A p \in Picker : pc[p] = "scan" <=> holder = p

Walked == \A p \in Picker : pc[p] = "walk" =>
    /\ start[p] \in Members
    /\ \A j \in 0 .. at[p] - 1 : (start[p] + j) % N \notin steady[p]

SteadyUp == \A p \in Picker : steady[p] \subseteq up

IInv == TypeOK /\ Scanning /\ Walked /\ SteadyUp /\ InRangeBeforeHalf

LEMMA InitIInv == Init => IInv
<1>. SUFFICES ASSUME Init PROVE IInv
  OBVIOUS
<1>. USE RoutingAssumption DEF Init
<1>1. TypeOK
  BY DEF TypeOK, Steps, Members
<1>2. Scanning
  BY DEF Scanning
<1>3. Walked /\ SteadyUp /\ InRangeBeforeHalf
  BY DEF Walked, SteadyUp, InRangeBeforeHalf, Alive
<1>. QED  BY <1>1, <1>2, <1>3 DEF IInv

(* What the helpers of a step do, in the terms of the invariant.           *)
LEMMA GotoTyped ==
  ASSUME TypeOK, NEW p \in Picker, NEW s \in Steps, NEW i \in 0 .. N, Goto(p, s, i)
  PROVE  /\ pc' \in [Picker -> Steps] /\ at' \in [Picker -> 0 .. N]
         /\ pc'[p] = s /\ at'[p] = i
         /\ \A q \in Picker \ {p} : pc'[q] = pc[q] /\ at'[q] = at[q]
  BY DEF TypeOK, Goto

LEMMA ReturnTyped ==
  ASSUME TypeOK, NEW p \in Picker, Return(p)
  PROVE  /\ pc' \in [Picker -> Steps] /\ at' \in [Picker -> 0 .. N]
         /\ start' \in [Picker -> Int] /\ steady' \in [Picker -> SUBSET Members]
         /\ pc'[p] = "idle" /\ steady'[p] = {}
         /\ \A q \in Picker \ {p} : /\ pc'[q] = pc[q] /\ at'[q] = at[q]
                                    /\ start'[q] = start[q] /\ steady'[q] = steady[q]
<1>1. Goto(p, "idle", 0) /\ "idle" \in Steps /\ 0 \in 0 .. N
  BY RoutingAssumption DEF Return, Steps
<1>2. /\ pc' \in [Picker -> Steps] /\ at' \in [Picker -> 0 .. N] /\ pc'[p] = "idle"
      /\ \A q \in Picker \ {p} : pc'[q] = pc[q] /\ at'[q] = at[q]
  BY <1>1, GotoTyped
<1>3. /\ start' = [start EXCEPT ![p] = 0] /\ start' \in [Picker -> Int]
      /\ \A q \in Picker \ {p} : start'[q] = start[q]
  BY DEF Return, TypeOK
<1>4. /\ steady' = [steady EXCEPT ![p] = {}] /\ steady'[p] = {}
      /\ \A q \in Picker \ {p} : steady'[q] = steady[q]
  BY DEF Return, TypeOK
<1>5. steady' \in [Picker -> SUBSET Members]
  BY <1>4 DEF TypeOK
<1>. QED  BY <1>2, <1>3, <1>4, <1>5

LEMMA ServedTyped ==
  ASSUME TypeOK, NEW i \in Members, Served(i)
  PROVE  served' \in [Members -> Nat] /\ quiet' \in BOOLEAN
  BY DEF TypeOK, Served

(* A step that leaves the walks, the scan and the counter of the others    *)
(* alone, and does not end in a walk, keeps the invariant.                 *)
LEMMA Framed ==
  ASSUME IInv, TypeOK', NEW p \in Picker,
         \A q \in Picker \ {p} : /\ pc'[q] = pc[q] /\ at'[q] = at[q]
                                 /\ start'[q] = start[q] /\ steady'[q] = steady[q],
         pc'[p] \notin {"walk", "panic"}, steady'[p] \subseteq up, up' = up, n' = n,
         Alive,
         \A q \in Picker \ {p} : holder' = q <=> holder = q,
         pc'[p] = "scan" <=> holder' = p
  PROVE  IInv'
<1>. USE DEF IInv
<1>1. Scanning'
  BY DEF Scanning
<1>2. Walked'
  BY DEF Walked
<1>3. SteadyUp'
  BY DEF SteadyUp
<1>4. InRangeBeforeHalf'
  BY DEF InRangeBeforeHalf, Alive
<1>. QED  BY <1>1, <1>2, <1>3, <1>4

LEMMA CallStep ==
  ASSUME IInv, NEW p \in Picker, Call(p)
  PROVE  IInv'
<1>. DEFINE s == IF algo = "swrr" THEN "lock" ELSE "next"
<1>1. s \in Steps /\ s \notin {"walk", "panic", "scan"} /\ 0 \in 0 .. N /\ Goto(p, s, 0)
  BY RoutingAssumption DEF Steps, Call
<1>. HIDE DEF s
<1>2. /\ pc' \in [Picker -> Steps] /\ at' \in [Picker -> 0 .. N] /\ pc'[p] = s
      /\ \A q \in Picker \ {p} : pc'[q] = pc[q] /\ at'[q] = at[q]
  BY <1>1, GotoTyped DEF IInv
<1>3. TypeOK'
  BY <1>2 DEF Call, IInv, TypeOK, weighted, counts
<1>4. holder' = holder /\ holder # p
  BY DEF Call, weighted, IInv, Scanning
<1>. QED  BY <1>1, <1>2, <1>3, <1>4, Framed DEF Call, IInv, SteadyUp

LEMMA LockStep ==
  ASSUME IInv, NEW p \in Picker, Lock(p)
  PROVE  IInv'
<1>1. "scan" \in Steps /\ 0 \in 0 .. N /\ Goto(p, "scan", 0)
  BY RoutingAssumption DEF Steps, Lock
<1>2. /\ pc' \in [Picker -> Steps] /\ at' \in [Picker -> 0 .. N] /\ pc'[p] = "scan"
      /\ \A q \in Picker \ {p} : pc'[q] = pc[q] /\ at'[q] = at[q]
  BY <1>1, GotoTyped DEF IInv
<1>3. TypeOK'
  BY <1>2 DEF Lock, IInv, TypeOK, counts
<1>4. \A q \in Picker \ {p} : holder' = q <=> holder = q
  BY RoutingAssumption DEF Lock
<1>. QED  BY <1>2, <1>3, <1>4, Framed DEF Lock, IInv, SteadyUp

LEMMA ScanStep ==
  ASSUME IInv, NEW p \in Picker, Scan(p)
  PROVE  IInv'
<1>1. "scan" \in Steps /\ at[p] + 1 \in 0 .. N /\ Goto(p, "scan", at[p] + 1)
  BY RoutingAssumption DEF Steps, Scan, IInv, TypeOK
<1>2. /\ pc' \in [Picker -> Steps] /\ at' \in [Picker -> 0 .. N] /\ pc'[p] = "scan"
      /\ \A q \in Picker \ {p} : pc'[q] = pc[q] /\ at'[q] = at[q]
  BY <1>1, GotoTyped DEF IInv
<1>3. at[p] \in Members /\ W(at[p]) \in Nat
  BY WeightPositive, RoutingAssumption DEF Scan, IInv, TypeOK, Members
<1>4. /\ current' \in [Members -> Int] /\ total' \in Nat /\ best' \in Members \cup {-1}
  BY <1>3 DEF Scan, IInv, TypeOK
<1>5. TypeOK'
  BY <1>2, <1>4 DEF Scan, IInv, TypeOK, counts
<1>. QED  BY <1>2, <1>5, Framed DEF Scan, IInv, SteadyUp, Scanning

LEMMA ChooseStep ==
  ASSUME IInv, NEW p \in Picker, Choose(p)
  PROVE  IInv'
<1>1. best \in Members
  BY DEF Choose, IInv, TypeOK
<1>2. served' \in [Members -> Nat] /\ quiet' \in BOOLEAN
  BY <1>1, ServedTyped DEF Choose, IInv
<1>3. /\ pc' \in [Picker -> Steps] /\ at' \in [Picker -> 0 .. N]
      /\ start' \in [Picker -> Int] /\ steady' \in [Picker -> SUBSET Members]
      /\ pc'[p] = "idle" /\ steady'[p] = {}
      /\ \A q \in Picker \ {p} : /\ pc'[q] = pc[q] /\ at'[q] = at[q]
                                 /\ start'[q] = start[q] /\ steady'[q] = steady[q]
  BY ReturnTyped DEF Choose, IInv
<1>6. current' \in [Members -> Int]
  BY <1>1 DEF Choose, IInv, TypeOK
<1>4. TypeOK'
  BY <1>2, <1>3, <1>6 DEF Choose, IInv, TypeOK
<1>5. holder = p /\ holder' = Nobody
  BY DEF Choose, IInv, Scanning
<1>. QED  BY <1>3, <1>4, <1>5, Framed, RoutingAssumption DEF Choose

LEMMA NoneEligibleStep ==
  ASSUME IInv, NEW p \in Picker, NoneEligible(p)
  PROVE  IInv'
<1>1. "next" \in Steps /\ 0 \in 0 .. N /\ Goto(p, "next", 0)
  BY RoutingAssumption DEF Steps, NoneEligible
<1>2. /\ pc' \in [Picker -> Steps] /\ at' \in [Picker -> 0 .. N] /\ pc'[p] = "next"
      /\ \A q \in Picker \ {p} : pc'[q] = pc[q] /\ at'[q] = at[q]
  BY <1>1, GotoTyped DEF IInv
<1>3. TypeOK'
  BY <1>2 DEF NoneEligible, IInv, TypeOK, counts
<1>4. holder = p /\ holder' = Nobody
  BY DEF NoneEligible, IInv, Scanning
<1>. QED  BY <1>2, <1>3, <1>4, Framed, RoutingAssumption DEF NoneEligible, IInv, SteadyUp

LEMMA Next1Step ==
  ASSUME IInv, NEW p \in Picker, Next1(p)
  PROVE  IInv'
<1>. USE DEF IInv
<1>. DEFINE s == GoRem(AsInt(n), N)
            w == IF s < 0 THEN "panic" ELSE "walk"
<1>1. /\ n \in Nat /\ AsInt(n) \in Int /\ (n < Half => AsInt(n) >= 0)
  BY RoutingAssumption DEF AsInt, TypeOK
<1>2. s \in Int /\ (s >= 0 => s \in Members) /\ (n < Half => s >= 0)
  <2>1. s \in Int /\ (AsInt(n) >= 0 => s \in Members)
    BY <1>1, RemMember
  <2>2. s >= 0 => s \in Members
    <3>1. CASE AsInt(n) >= 0
      BY <2>1, <3>1
    <3>2. CASE ~(AsInt(n) >= 0)
      BY <1>1, <3>2, RoutingAssumption DEF GoRem, Members
    <3>. QED  BY <3>1, <3>2
  <2>. QED  BY <1>1, <2>1, <2>2, RoutingAssumption DEF Members
<1>. HIDE DEF s
<1>3. /\ start' = [start EXCEPT ![p] = s] /\ Goto(p, w, 0) /\ w \in Steps
      /\ steady' = [steady EXCEPT ![p] = up] /\ n' = (n + 1) % (2 * Half)
  <2>1. start' = [start EXCEPT ![p] = s] /\ start'[p] = s
    BY DEF Next1, TypeOK, s
  <2>. QED  BY <2>1 DEF Next1, Steps
<1>4. /\ pc' \in [Picker -> Steps] /\ at' \in [Picker -> 0 .. N]
      /\ pc'[p] = w /\ at'[p] = 0
      /\ \A q \in Picker \ {p} : pc'[q] = pc[q] /\ at'[q] = at[q]
  <2>1. 0 \in 0 .. N
    BY RoutingAssumption
  <2>. HIDE DEF w
  <2>. QED  BY <1>3, <2>1, GotoTyped
<1>5. n' = (IF n + 1 = 2 * Half THEN 0 ELSE n + 1) /\ n' \in 0 .. 2 * Half - 1
  <2>. DEFINE m == 2 * Half
  <2>1. n \in 0 .. m - 1 /\ n' = (n + 1) % m /\ m \in Nat \ {0}
    BY <1>3, RoutingAssumption DEF TypeOK
  <2>. HIDE DEF m
  <2>2. n' = (IF n + 1 = m THEN 0 ELSE n + 1) /\ n' \in 0 .. m - 1
    BY <2>1, SmallRem
  <2>. QED  BY <2>2 DEF m
<1>6. TypeOK'
  BY <1>2, <1>3, <1>4, <1>5 DEF Next1, TypeOK, weighted, counts
<1>7. Scanning'
  BY <1>4 DEF Next1, Scanning, weighted
<1>8. Walked'
  BY <1>2, <1>3, <1>4 DEF Walked, TypeOK
<1>9. SteadyUp'
  BY <1>3 DEF SteadyUp, Next1, TypeOK
<1>10. InRangeBeforeHalf'
  <2>. SUFFICES ASSUME ~Alive' PROVE n' > Half \/ n' = 0
    BY DEF InRangeBeforeHalf
  <2>1. pc'[p] = "panic"
    BY <1>4 DEF Alive, Next1
  <2>2. s < 0
    BY <1>4, <2>1
  <2>. QED  BY <1>1, <1>2, <1>5, <2>2, RoutingAssumption
<1>. QED  BY <1>6, <1>7, <1>8, <1>9, <1>10

LEMMA FoundStep ==
  ASSUME IInv, NEW p \in Picker, Found(p)
  PROVE  IInv'
<1>1. Index(p) \in Members
  BY DEF Found, IInv, TypeOK
<1>2. served' \in [Members -> Nat] /\ quiet' \in BOOLEAN
  BY <1>1, ServedTyped DEF Found, IInv
<1>3. /\ pc' \in [Picker -> Steps] /\ at' \in [Picker -> 0 .. N]
      /\ start' \in [Picker -> Int] /\ steady' \in [Picker -> SUBSET Members]
      /\ pc'[p] = "idle" /\ steady'[p] = {}
      /\ \A q \in Picker \ {p} : /\ pc'[q] = pc[q] /\ at'[q] = at[q]
                                 /\ start'[q] = start[q] /\ steady'[q] = steady[q]
  BY ReturnTyped DEF Found, IInv
<1>4. TypeOK'
  BY <1>2, <1>3 DEF Found, IInv, TypeOK, weighted
<1>5. holder' = holder /\ holder # p
  BY DEF Found, weighted, IInv, Scanning
<1>. QED  BY <1>3, <1>4, <1>5, Framed DEF Found

LEMMA MissedStep ==
  ASSUME IInv, NEW p \in Picker, Missed(p)
  PROVE  IInv'
<1>3. /\ pc' \in [Picker -> Steps] /\ at' \in [Picker -> 0 .. N]
      /\ start' \in [Picker -> Int] /\ steady' \in [Picker -> SUBSET Members]
      /\ pc'[p] = "idle" /\ steady'[p] = {}
      /\ \A q \in Picker \ {p} : /\ pc'[q] = pc[q] /\ at'[q] = at[q]
                                 /\ start'[q] = start[q] /\ steady'[q] = steady[q]
  BY ReturnTyped DEF Missed, IInv
<1>4. TypeOK'
  BY <1>3 DEF Missed, IInv, TypeOK, weighted, counts
<1>5. holder' = holder /\ holder # p
  BY DEF Missed, weighted, IInv, Scanning
<1>. QED  BY <1>3, <1>4, <1>5, Framed DEF Missed

LEMMA WalkOnStep ==
  ASSUME IInv, NEW p \in Picker, WalkOn(p)
  PROVE  IInv'
<1>. USE DEF IInv
<1>1. "walk" \in Steps /\ at[p] + 1 \in 0 .. N /\ Goto(p, "walk", at[p] + 1)
  BY RoutingAssumption DEF Steps, WalkOn, TypeOK
<1>2. /\ pc' \in [Picker -> Steps] /\ at' \in [Picker -> 0 .. N]
      /\ pc'[p] = "walk" /\ at'[p] = at[p] + 1
      /\ \A q \in Picker \ {p} : pc'[q] = pc[q] /\ at'[q] = at[q]
  BY <1>1, GotoTyped
<1>3. TypeOK'
  BY <1>2 DEF WalkOn, TypeOK, weighted, counts
<1>4. Scanning'
  BY <1>2 DEF WalkOn, Scanning, weighted
<1>5. Walked'
  <2>1. /\ start' = start /\ steady' = steady /\ start[p] \in Members
        /\ (start[p] + at[p]) % N \notin steady[p]
    BY DEF WalkOn, Walked, SteadyUp, Index
  <2>2. \A j \in 0 .. at[p] : j \in 0 .. at[p] - 1 \/ j = at[p]
    BY DEF TypeOK
  <2>3. \A j \in 0 .. at'[p] - 1 : (start[p] + j) % N \notin steady[p]
    <3>1. 0 .. at'[p] - 1 = 0 .. at[p]
      BY <1>2 DEF TypeOK
    <3>2. \A j \in 0 .. at[p] - 1 : (start[p] + j) % N \notin steady[p]
      BY DEF WalkOn, Walked
    <3>. QED  BY <2>1, <2>2, <3>1, <3>2
  <2>. QED  BY <1>2, <2>1, <2>3 DEF Walked
<1>6. SteadyUp' /\ InRangeBeforeHalf'
  BY <1>2 DEF WalkOn, SteadyUp, InRangeBeforeHalf, Alive
<1>. QED  BY <1>3, <1>4, <1>5, <1>6

LEMMA FlipStep ==
  ASSUME IInv, NEW i \in Members, Flip(i)
  PROVE  IInv'
<1>. USE DEF IInv
<1>1. TypeOK'
  BY DEF Flip, TypeOK, weighted
<1>2. \A p \in Picker : steady'[p] \subseteq steady[p] /\ steady'[p] \subseteq up'
  BY DEF Flip, SteadyUp, TypeOK
<1>3. Scanning' /\ InRangeBeforeHalf'
  BY DEF Flip, Scanning, InRangeBeforeHalf, Alive, weighted
<1>4. Walked' /\ SteadyUp'
  BY <1>2 DEF Flip, Walked, SteadyUp
<1>. QED  BY <1>1, <1>3, <1>4

LEMMA NextIInv == IInv /\ [Next]_vars => IInv'
<1>. SUFFICES ASSUME IInv, [Next]_vars PROVE IInv'
  OBVIOUS
<1>1. CASE UNCHANGED vars
  BY <1>1 DEF vars, weighted, calls, counts, IInv, TypeOK, Scanning, Walked, SteadyUp,
              InRangeBeforeHalf, Alive
<1>2. ASSUME NEW p \in Picker, Call(p) \/ Step(p) PROVE IInv'
  BY <1>2, CallStep, LockStep, ScanStep, ChooseStep, NoneEligibleStep, Next1Step,
     FoundStep, WalkOnStep, MissedStep DEF Step
<1>3. ASSUME NEW i \in Members, Flip(i) PROVE IInv'
  BY <1>3, FlipStep
<1>. QED  BY <1>1, <1>2, <1>3 DEF Next

LEMMA Invariance == Spec => []IInv
  BY InitIInv, NextIInv, PTL DEF Spec

(* Every variable keeps its type, for any weights and any counter width.   *)
THEOREM Typed == Spec => []TypeOK
  BY Invariance, PTL DEF IInv

(* One reactor at a time is inside SWRR.Pick.                              *)
THEOREM OneScans == Spec => []Scanning
  BY Invariance, PTL DEF IInv

(* The round robin stays in range for its first Half picks, 2^63 of them.  *)
THEOREM InRange == Spec => []InRangeBeforeHalf
  BY Invariance, PTL DEF IInv

(* A member that stays eligible is found, by a pick of any algorithm.      *)
THEOREM NilIsSound == Spec => []NilSound
<1>1. IInv => NilSound
  <2>. SUFFICES ASSUME IInv, NEW p \in Picker, pc[p] = "walk", at[p] = N
                PROVE  steady[p] = {}
    BY DEF NilSound
  <2>1. /\ start[p] \in Members /\ steady[p] \subseteq Members
        /\ \A j \in 0 .. N - 1 : (start[p] + j) % N \notin steady[p]
    BY DEF IInv, Walked, TypeOK
  <2>. QED  BY <2>1, WalkReaches
<1>. QED  BY <1>1, Invariance, PTL

----------------------------------------------------------------------------
(* What the current weights add up to: what the pick in progress has given *)
(* out, nothing between two picks.                                         *)

Balanced ==
    /\ holder = Nobody => SumOver(current) = 0
    /\ holder # Nobody => SumOver(current) = total /\ (best = -1 => total = 0)

LEMMA BalancedScan ==
  ASSUME IInv, Balanced, NEW p \in Picker, Scan(p)
  PROVE  Balanced'
<1>1. holder = p /\ holder' = p /\ p # Nobody /\ at[p] \in Members
  BY RoutingAssumption DEF IInv, TypeOK, Scanning, Scan, Members
<1>2. SumOver(current) = total /\ (best = -1 => total = 0)
  BY <1>1 DEF Balanced
<1>3. CASE at[p] \notin up
  <2>1. UNCHANGED <<current, total, best>>
    BY <1>3 DEF Scan
  <2>. QED  BY <1>1, <1>2, <2>1 DEF Balanced
<1>4. CASE at[p] \in up
  <2>. DEFINE i == at[p]
  <2>1. /\ current' = [current EXCEPT ![i] = current[i] + W(i)]
        /\ total' = total + W(i) /\ (best' = i \/ (best' = best /\ ~(best < 0)))
    BY <1>4 DEF Scan
  <2>2. current \in [Members -> Int] /\ W(i) \in Int /\ best \in Members \cup {-1}
    BY <1>1, WeightPositive DEF IInv, TypeOK
  <2>3. SumOver(current') = SumOver(current) + W(i)
    BY <1>1, <2>1, <2>2, SumUpdate
  <2>4. best' # -1
    BY <1>1, <2>1, <2>2 DEF Members
  <2>. QED  BY <1>1, <1>2, <2>1, <2>3, <2>4 DEF Balanced
<1>. QED  BY <1>3, <1>4

LEMMA BalancedChoose ==
  ASSUME IInv, Balanced, NEW p \in Picker, Choose(p)
  PROVE  Balanced'
<1>1. holder = p /\ holder' = Nobody /\ p # Nobody /\ best \in Members
  BY RoutingAssumption DEF IInv, TypeOK, Scanning, Choose
<1>2. current \in [Members -> Int] /\ total \in Nat /\ -total \in Int
  BY DEF IInv, TypeOK
<1>3. current' = [current EXCEPT ![best] = current[best] + (-total)]
  BY <1>1, <1>2 DEF Choose
<1>4. SumOver(current') = SumOver(current) + (-total)
  BY <1>1, <1>2, <1>3, SumUpdate
<1>. QED  BY <1>1, <1>2, <1>4 DEF Balanced

LEMMA NextBalanced == IInv /\ Balanced /\ [Next]_vars => Balanced'
<1>. SUFFICES ASSUME IInv, Balanced, [Next]_vars PROVE Balanced'
  OBVIOUS
<1>1. ASSUME UNCHANGED weighted PROVE Balanced'
  BY <1>1 DEF weighted, Balanced
<1>2. ASSUME NEW p \in Picker, Lock(p) PROVE Balanced'
  BY <1>2, RoutingAssumption DEF Lock, Balanced
<1>3. ASSUME NEW p \in Picker, NoneEligible(p) PROVE Balanced'
  <2>1. holder = p /\ p # Nobody /\ best = -1 /\ holder' = Nobody /\ current' = current
    BY <1>3, RoutingAssumption DEF NoneEligible, IInv, TypeOK, Scanning, Members
  <2>. QED  BY <2>1 DEF Balanced
<1>4. ASSUME NEW p \in Picker, Call(p) \/ Step(p) PROVE Balanced'
  BY <1>1, <1>2, <1>3, <1>4, BalancedScan, BalancedChoose
     DEF Step, Call, Next1, Found, WalkOn, Missed
<1>5. ASSUME NEW i \in Members, Flip(i) PROVE Balanced'
  BY <1>1, <1>5 DEF Flip
<1>6. CASE UNCHANGED vars
  BY <1>1, <1>6 DEF vars
<1>. QED  BY <1>4, <1>5, <1>6 DEF Next

LEMMA InitBalanced == Init => Balanced
  BY SumZero DEF Init, Balanced

LEMMA BalancedAlways == Spec => []Balanced
  BY InitIInv, NextIInv, InitBalanced, NextBalanced, PTL DEF Spec

(* Whatever flips while a pick loads the states of the members one by one, *)
(* it takes back exactly the weights it gave out, for any weights.         *)
THEOREM PicksBalance == Spec => []WeightsBalanced
<1>1. Balanced => WeightsBalanced
  BY DEF Balanced, WeightsBalanced
<1>. QED  BY <1>1, BalancedAlways, PTL

----------------------------------------------------------------------------
(* Shares of the weighted picks.  While nothing flips, the current weight  *)
(* of a member between two picks is its share of the picks so far less     *)
(* what it has paid for its own; a scan has added the weights up to where  *)
(* it stands.                                                              *)

Wt == [i \in Members |-> W(i)]
Upto(k) == [i \in Members |-> IF i < k THEN W(i) ELSE 0]
Due(i) == SumOver(served) * W(i) - served[i] * Total

(* The first k members have been scanned, and b is the best of them.       *)
BestOf(c, b, k) ==
    /\ k = 0 => b = -1
    /\ k > 0 => b \in 0 .. k - 1 /\ \A i \in 0 .. k - 1 : c[i] <= c[b]

Shares ==
  quiet /\ algo = "swrr" =>
    /\ up = Members /\ \A p \in Picker : pc[p] \in {"idle", "lock", "scan"}
    /\ \A i \in Members : -Due(i) < Total
    /\ SumOver([i \in Members |-> Due(i)]) = 0
    /\ holder = Nobody => \A i \in Members : current[i] = Due(i)
    /\ \A p \in Picker : pc[p] = "scan" =>
          /\ total = SumOver(Upto(at[p]))
          /\ \A i \in Members : current[i] = Due(i) + Upto(at[p])[i]
          /\ BestOf(current, best, at[p])

LEMMA TotalPositive == Total \in Nat \ {0} /\ Wt \in [Members -> Int]
<1>1. Wt \in [Members -> Int] /\ 0 \in Members /\ \A i \in Members : Wt[i] >= 1
  BY WeightPositive, RoutingAssumption DEF Wt, Members
<1>2. Total = SumOver(Wt)
  BY DEF Total, Wt
<1>. HIDE DEF Wt
<1>3. Wt[0] <= SumOver(Wt) + (N - 1) * 0
  BY <1>1, SumBelow
<1>4. SumOver(Wt) \in Int /\ (N - 1) * 0 = 0 /\ Wt[0] \in Int
  BY <1>1, SumType, RoutingAssumption
<1>. QED  BY <1>1, <1>2, <1>3, <1>4

LEMMA DueType ==
  ASSUME TypeOK
  PROVE  /\ SumOver(served) \in Int
         /\ \A i \in Members : Due(i) \in Int /\ served[i] \in Nat /\ W(i) \in Nat \ {0}
<1>1. served \in [Members -> Int]
  BY DEF TypeOK
<1>2. SumOver(served) \in Int
  BY <1>1, SumType
<1>3. ASSUME NEW i \in Members PROVE Due(i) \in Int /\ served[i] \in Nat /\ W(i) \in Nat \ {0}
  <2>1. served[i] \in Nat /\ W(i) \in Nat \ {0}
    BY WeightPositive DEF TypeOK
  <2>. QED  BY <1>2, <2>1, TotalPositive DEF Due
<1>. QED  BY <1>2, <1>3

LEMMA SharesStay ==
  ASSUME IInv, Shares, quiet', algo' = "swrr", UNCHANGED <<algo, up, counts>>
  PROVE  /\ quiet /\ algo = "swrr" /\ up' = Members
         /\ \A p \in Picker : pc[p] \in {"idle", "lock", "scan"}
         /\ \A i \in Members : Due(i)' = Due(i) /\ -Due(i)' < Total
         /\ SumOver([i \in Members |-> Due(i)']) = 0
<1>1. served' = served
  BY DEF counts
<1>2. \A i : Due(i)' = Due(i)
  BY <1>1 DEF Due
<1>3. [i \in Members |-> Due(i)'] = [i \in Members |-> Due(i)]
  BY <1>2
<1>. QED  BY <1>2, <1>3 DEF Shares, counts

LEMMA SharesCall ==
  ASSUME IInv, Shares, NEW p \in Picker, Call(p)
  PROVE  Shares'
<1>. SUFFICES ASSUME quiet', algo' = "swrr" PROVE Shares'
  BY DEF Shares
<1>1. UNCHANGED <<algo, up, counts>> /\ UNCHANGED weighted
  BY DEF Call
<1>2. /\ quiet /\ algo = "swrr" /\ up' = Members
      /\ \A q \in Picker : pc[q] \in {"idle", "lock", "scan"}
      /\ \A i \in Members : Due(i)' = Due(i) /\ -Due(i)' < Total
      /\ SumOver([i \in Members |-> Due(i)']) = 0
  BY <1>1, SharesStay
<1>3. /\ pc'[p] = "lock" /\ at'[p] = 0
      /\ \A q \in Picker \ {p} : pc'[q] = pc[q] /\ at'[q] = at[q]
  BY <1>2 DEF Call, Goto, IInv, TypeOK
<1>4. \A q \in Picker : pc'[q] = "scan" => q # p /\ pc[q] = "scan" /\ at'[q] = at[q]
  BY <1>3
<1>5. /\ holder' = Nobody => \A i \in Members : current'[i] = Due(i)'
      /\ \A q \in Picker : pc'[q] = "scan" =>
          /\ total' = SumOver(Upto(at'[q]))
          /\ \A i \in Members : current'[i] = Due(i)' + Upto(at'[q])[i]
          /\ BestOf(current', best', at'[q])
  BY <1>1, <1>2, <1>4 DEF Shares, weighted
<1>6. \A q \in Picker : pc'[q] \in {"idle", "lock", "scan"}
  BY <1>2, <1>3
<1>. QED  BY <1>2, <1>5, <1>6 DEF Shares

LEMMA SharesLock ==
  ASSUME IInv, Shares, NEW p \in Picker, Lock(p)
  PROVE  Shares'
<1>. SUFFICES ASSUME quiet', algo' = "swrr" PROVE Shares'
  BY DEF Shares
<1>1. UNCHANGED <<algo, up, counts>> /\ current' = current /\ holder' = p /\ total' = 0 /\ best' = -1
  BY DEF Lock
<1>2. /\ quiet /\ algo = "swrr" /\ up' = Members
      /\ \A q \in Picker : pc[q] \in {"idle", "lock", "scan"}
      /\ \A i \in Members : Due(i)' = Due(i) /\ -Due(i)' < Total
      /\ SumOver([i \in Members |-> Due(i)']) = 0
  BY <1>1, SharesStay
<1>3. /\ pc'[p] = "scan" /\ at'[p] = 0
      /\ \A q \in Picker \ {p} : pc'[q] = pc[q] /\ at'[q] = at[q]
  BY DEF Lock, Goto, IInv, TypeOK
<1>4. \A q \in Picker : pc'[q] = "scan" => q = p
  BY <1>3, RoutingAssumption DEF Lock, IInv, Scanning
<1>5. Upto(0) = [i \in Members |-> 0] /\ SumOver(Upto(0)) = 0
  <2>1. Upto(0) = [i \in Members |-> 0]
    BY RoutingAssumption DEF Upto, Members
  <2>. QED  BY <2>1, SumZero
<1>6. \A i \in Members : current'[i] = Due(i)' + Upto(0)[i]
  <2>1. \A i \in Members : Upto(0)[i] = 0 /\ current[i] = Due(i) /\ Due(i) \in Int
    BY <1>2, <1>5, DueType DEF Shares, Lock, IInv
  <2>. QED  BY <1>1, <1>2, <2>1
<1>7. \A q \in Picker : pc'[q] \in {"idle", "lock", "scan"}
  BY <1>2, <1>3
<1>8. holder' # Nobody /\ BestOf(current', -1, 0)
  BY <1>1, RoutingAssumption DEF BestOf
<1>. QED  BY <1>1, <1>2, <1>3, <1>4, <1>5, <1>6, <1>7, <1>8 DEF Shares

LEMMA UptoNext ==
  ASSUME NEW k \in Members
  PROVE  /\ Upto(k) \in [Members -> Int] /\ Upto(k)[k] = 0
         /\ Upto(k + 1) = [Upto(k) EXCEPT ![k] = Upto(k)[k] + W(k)]
         /\ SumOver(Upto(k + 1)) = SumOver(Upto(k)) + W(k)
<1>1. Upto(k) \in [Members -> Int] /\ Upto(k)[k] = 0 /\ W(k) \in Int
  BY WeightPositive, RoutingAssumption DEF Upto, Members
<1>2. ASSUME NEW i \in Members
      PROVE  (IF i < k + 1 THEN W(i) ELSE 0) = IF i = k THEN W(k) ELSE Upto(k)[i]
  BY RoutingAssumption DEF Upto, Members
<1>3. Upto(k + 1) = [Upto(k) EXCEPT ![k] = Upto(k)[k] + W(k)]
  <2>. DEFINE e == [i \in Members |-> IF i = k THEN W(k) ELSE Upto(k)[i]]
  <2>1. Upto(k + 1) = e
    BY <1>2 DEF Upto
  <2>2. e = [Upto(k) EXCEPT ![k] = 0 + W(k)]
    <3>1. 0 + W(k) = W(k) /\ DOMAIN Upto(k) = Members
      BY <1>1
    <3>. QED  BY <3>1
  <2>. HIDE DEF e
  <2>. QED  BY <1>1, <2>1, <2>2
<1>. DEFINE u == Upto(k)
<1>4. u \in [Members -> Int] /\ W(k) \in Int
  BY <1>1
<1>. HIDE DEF u
<1>5. SumOver([u EXCEPT ![k] = u[k] + W(k)]) = SumOver(u) + W(k)
  BY <1>4, SumUpdate
<1>. QED  BY <1>1, <1>3, <1>5 DEF u

LEMMA BestSoFar ==
  ASSUME NEW c \in [Members -> Int], NEW k \in Members, NEW w \in Int,
         NEW b \in Members \cup {-1}, BestOf(c, b, k)
  PROVE  BestOf([c EXCEPT ![k] = c[k] + w],
                IF b < 0 \/ c[k] + w > c[b] THEN k ELSE b, k + 1)
<1>. DEFINE c2 == [c EXCEPT ![k] = c[k] + w]
            b2 == IF b < 0 \/ c[k] + w > c[b] THEN k ELSE b
<1>0. /\ c2 = [c EXCEPT ![k] = c[k] + w]
      /\ b < 0 \/ c[k] + w > c[b] => b2 = k
      /\ ~ (b < 0 \/ c[k] + w > c[b]) => b2 = b
      /\ k = 0 => b = -1
      /\ k > 0 => b \in 0 .. k - 1 /\ \A i \in 0 .. k - 1 : c[i] <= c[b]
  BY DEF BestOf
<1>. HIDE DEF c2, b2
<1>1. k \in Nat /\ \A i \in 0 .. k : i \in Members
  BY RoutingAssumption DEF Members
<1>2. c2[k] = c[k] + w /\ \A i \in 0 .. k : i # k => c2[i] = c[i]
  BY <1>0, <1>1
<1>3. \A i \in 0 .. k : c[i] \in Int
  BY <1>1
<1>4. \A i \in 0 .. k : i = k \/ i \in 0 .. k - 1
  BY <1>1
<1>9. SUFFICES b2 \in 0 .. k /\ \A i \in 0 .. k : c2[i] <= c2[b2]
  <2>1. k + 1 # 0 /\ (k + 1) - 1 = k
    BY <1>1
  <2>2. b2 \in 0 .. k /\ (\A i \in 0 .. k : c2[i] <= c2[b2]) => BestOf(c2, b2, k + 1)
    BY <2>1 DEF BestOf
  <2>. QED  BY <2>2 DEF c2, b2
<1>5. CASE k = 0
  <2>1. b2 = k
    BY <1>0, <1>5
  <2>. QED  BY <1>1, <1>2, <1>3, <1>5, <2>1
<1>6. CASE k > 0 /\ c[k] + w > c[b]
  <2>1. b2 = k /\ b \in 0 .. k /\ b # k
    BY <1>0, <1>1, <1>6
  <2>2. ASSUME NEW i \in 0 .. k - 1 PROVE c2[i] <= c2[k]
    <3>1. i \in 0 .. k /\ i # k /\ c[i] <= c[b]
      BY <1>0, <1>1, <1>6
    <3>. QED  BY <1>1, <1>2, <1>3, <1>6, <2>1, <3>1
  <2>3. c2[k] <= c2[k]
    BY <1>1, <1>2, <1>3
  <2>. QED  BY <1>1, <1>4, <2>1, <2>2, <2>3
<1>7. CASE k > 0 /\ ~ (c[k] + w > c[b])
  <2>1. b2 = b /\ b \in 0 .. k /\ b # k
    BY <1>0, <1>1, <1>7
  <2>2. ASSUME NEW i \in 0 .. k - 1 PROVE c2[i] <= c2[b]
    <3>1. i \in 0 .. k /\ i # k /\ c[i] <= c[b]
      BY <1>0, <1>1, <1>7
    <3>. QED  BY <1>2, <2>1, <3>1
  <2>3. c2[k] <= c2[b]
    BY <1>1, <1>2, <1>3, <1>7, <2>1
  <2>. QED  BY <1>1, <1>4, <2>1, <2>2, <2>3
<1>. QED  BY <1>1, <1>5, <1>6, <1>7

LEMMA SharesScan ==
  ASSUME IInv, Shares, NEW p \in Picker, Scan(p)
  PROVE  Shares'
<1>. SUFFICES ASSUME quiet', algo' = "swrr" PROVE Shares'
  BY DEF Shares
<1>1. UNCHANGED <<algo, up, counts>> /\ holder' = holder
  BY DEF Scan
<1>2. /\ quiet /\ algo = "swrr" /\ up' = Members
      /\ \A q \in Picker : pc[q] \in {"idle", "lock", "scan"}
      /\ \A i \in Members : Due(i)' = Due(i) /\ -Due(i)' < Total
      /\ SumOver([i \in Members |-> Due(i)']) = 0
  BY <1>1, SharesStay
<1>. DEFINE k == at[p]
<1>3. /\ pc'[p] = "scan" /\ at'[p] = k + 1 /\ k \in Members
      /\ \A q \in Picker \ {p} : pc'[q] = pc[q] /\ at'[q] = at[q]
  BY RoutingAssumption DEF Scan, Goto, IInv, TypeOK, Members
<1>4. /\ holder = p /\ holder' # Nobody
      /\ \A q \in Picker : pc'[q] = "scan" => q = p
  BY <1>3, RoutingAssumption DEF Scan, IInv, Scanning
<1>5. /\ current' = [current EXCEPT ![k] = current[k] + W(k)]
      /\ total' = total + W(k)
      /\ best' = IF best < 0 \/ current[k] + W(k) > current[best] THEN k ELSE best
  BY <1>1, <1>2, <1>3 DEF Scan
<1>6. /\ total = SumOver(Upto(k))
      /\ \A i \in Members : current[i] = Due(i) + Upto(k)[i]
      /\ BestOf(current, best, k)
  BY <1>2 DEF Shares, Scan
<1>7. current \in [Members -> Int] /\ W(k) \in Nat \ {0} /\ best \in Members \cup {-1}
  BY <1>3, WeightPositive DEF IInv, TypeOK
<1>. HIDE DEF k
<1>8. /\ SumOver(Upto(k + 1)) = total' /\ \A i \in Members : Due(i) \in Int
      /\ Upto(k + 1) = [Upto(k) EXCEPT ![k] = Upto(k)[k] + W(k)]
      /\ Upto(k) \in [Members -> Int] /\ Upto(k)[k] = 0
  BY <1>3, <1>5, <1>6, UptoNext, DueType DEF IInv
<1>9. ASSUME NEW i \in Members PROVE current'[i] = Due(i)' + Upto(k + 1)[i]
  <2>1. current[i] = Due(i) + Upto(k)[i] /\ Due(i)' = Due(i) /\ Due(i) \in Int
    BY <1>2, <1>6, <1>8
  <2>2. CASE i = k
    <3>1. current'[k] = current[k] + W(k)
      BY <1>3, <1>5, <1>7
    <3>2. Upto(k + 1)[k] = 0 + W(k)
      BY <1>3, <1>8
    <3>. QED  BY <1>7, <1>8, <2>1, <2>2, <3>1, <3>2
  <2>3. CASE i # k
    <3>1. current'[i] = current[i] /\ Upto(k + 1)[i] = Upto(k)[i]
      BY <1>5, <1>7, <1>8, <2>3
    <3>. QED  BY <2>1, <3>1
  <2>. QED  BY <2>2, <2>3
<1>10. BestOf(current', best', k + 1)
  <2>1. W(k) \in Int
    BY <1>7
  <2>2. BestOf([current EXCEPT ![k] = current[k] + W(k)],
               IF best < 0 \/ current[k] + W(k) > current[best] THEN k ELSE best, k + 1)
    BY <1>3, <1>6, <1>7, <2>1, BestSoFar
  <2>. QED  BY <1>5, <2>2
<1>11. \A q \in Picker : pc'[q] \in {"idle", "lock", "scan"}
  BY <1>2, <1>3
<1>. HIDE DEF k
<1>12. ASSUME NEW q \in Picker, pc'[q] = "scan"
       PROVE  /\ total' = SumOver(Upto(at'[q]))
              /\ \A i \in Members : current'[i] = Due(i)' + Upto(at'[q])[i]
              /\ BestOf(current', best', at'[q])
  <2>1. at'[q] = k + 1
    BY <1>3, <1>4, <1>12
  <2>. QED  BY <1>8, <1>9, <1>10, <2>1
<1>. QED  BY <1>2, <1>4, <1>11, <1>12 DEF Shares

LEMMA SharesChoose ==
  ASSUME IInv, Balanced, Shares, NEW p \in Picker, Choose(p)
  PROVE  Shares'
<1>. SUFFICES ASSUME quiet', algo' = "swrr" PROVE Shares'
  BY DEF Shares
<1>1. /\ quiet /\ algo = "swrr" /\ up' = up /\ holder' = Nobody
      /\ served' = [served EXCEPT ![best] = served[best] + 1]
      /\ current' = [current EXCEPT ![best] = current[best] - total]
      /\ at[p] = N /\ pc[p] = "scan" /\ best \in Members /\ holder = p /\ p # Nobody
  <2>1. /\ algo = "swrr" /\ up' = up /\ holder' = Nobody /\ Served(best)
        /\ current' = [current EXCEPT ![best] = current[best] - total]
        /\ at[p] = N /\ pc[p] = "scan" /\ best \in Members /\ holder = p /\ p # Nobody
    BY RoutingAssumption DEF Choose, IInv, TypeOK, Scanning
  <2>2. quiet /\ SumOver(served) < MaxPicks
    BY <2>1, Zenon DEF Served
  <2>3. served' = [served EXCEPT ![best] = served[best] + 1]
    BY <2>1, <2>2, Zenon DEF Served
  <2>. QED  BY <2>1, <2>2, <2>3
<1>2. /\ up = Members /\ \A q \in Picker : pc[q] \in {"idle", "lock", "scan"}
      /\ \A i \in Members : -Due(i) < Total
      /\ total = SumOver(Upto(N)) /\ BestOf(current, best, N)
      /\ \A i \in Members : current[i] = Due(i) + Upto(N)[i]
  BY <1>1 DEF Shares
<1>3. /\ current \in [Members -> Int] /\ served \in [Members -> Int]
      /\ SumOver(served) \in Int /\ Total \in Nat \ {0}
      /\ \A i \in Members : Due(i) \in Int /\ served[i] \in Nat /\ W(i) \in Nat \ {0}
  BY DueType, TotalPositive DEF IInv, TypeOK
<1>4. Upto(N) = Wt /\ total = Total
  <2>1. Upto(N) = Wt
    BY RoutingAssumption DEF Upto, Wt, Members
  <2>. QED  BY <1>2, <2>1 DEF Total, Wt
<1>5. \A i \in Members : current[i] = Due(i) + W(i)
  BY <1>2, <1>4 DEF Wt
<1>6. current[best] > 0
  <2>1. SumOver(current) = total
    BY <1>1 DEF Balanced
  <2>2. SumOver(current) > 0
    BY <1>3, <1>4, <2>1
  <2>3. PICK j \in Members : current[j] > 0
    BY <1>3, <2>2, SumPositive
  <2>4. current[j] <= current[best]
    BY <1>2, RoutingAssumption DEF BestOf, Members
  <2>. QED  BY <1>1, <1>3, <2>3, <2>4
<1>7. SumOver(served') = SumOver(served) + 1
  <2>. DEFINE one == 1
  <2>1. one \in Int
    OBVIOUS
  <2>. HIDE DEF one
  <2>2. SumOver([served EXCEPT ![best] = served[best] + one]) = SumOver(served) + one
    BY <1>1, <1>3, <2>1, SumUpdate
  <2>. QED  BY <1>1, <2>2 DEF one
<1>8. ASSUME NEW i \in Members PROVE Due(i)' = current'[i] /\ -Due(i)' < Total
  <2>. DEFINE s == SumOver(served)
              v == served[i]
              w == W(i)
  <2>1. /\ s \in Int /\ v \in Int /\ w \in Nat \ {0} /\ Total \in Nat \ {0}
        /\ Due(i) = s * w - v * Total /\ Due(i) \in Int /\ -Due(i) < Total
        /\ current[i] = Due(i) + w /\ current[i] \in Int
    BY <1>2, <1>3, <1>5 DEF Due
  <2>2. Due(i)' = (s + 1) * w - served'[i] * Total
    BY <1>7 DEF Due
  <2>. HIDE DEF s, v, w
  <2>3. (s + 1) * w = s * w + w /\ (v + 1) * Total = v * Total + Total
        /\ s * w \in Int /\ v * Total \in Int
    BY <2>1
  <2>4. CASE i = best
    <3>1. served'[i] = v + 1 /\ current'[i] = current[i] - Total
      BY <1>1, <1>3, <1>4, <2>4 DEF v
    <3>2. Due(i)' = current'[i]
      BY <2>1, <2>2, <2>3, <3>1
    <3>. QED  BY <1>6, <2>1, <2>4, <3>1, <3>2
  <2>5. CASE i # best
    <3>1. served'[i] = v /\ current'[i] = current[i]
      BY <1>1, <1>3, <2>5 DEF v
    <3>2. Due(i)' = current'[i]
      BY <2>1, <2>2, <2>3, <3>1
    <3>. QED  BY <2>1, <3>1, <3>2
  <2>. QED  BY <2>4, <2>5
<1>9. SumOver([i \in Members |-> Due(i)']) = 0
  <2>1. SumOver(current') = 0
    BY <1>1, BalancedChoose DEF Balanced
  <2>2. [i \in Members |-> Due(i)'] = current'
    <3>1. current' = [i \in Members |-> current'[i]]
      BY <1>1, <1>3
    <3>. QED  BY <1>8, <3>1
  <2>. QED  BY <2>1, <2>2
<1>10. \A q \in Picker : pc'[q] \in {"idle", "lock"}
  <2>1. \A q \in Picker : q # p => pc[q] # "scan"
    BY <1>1 DEF IInv, Scanning
  <2>2. pc'[p] = "idle" /\ \A q \in Picker \ {p} : pc'[q] = pc[q]
    BY DEF Choose, Return, Goto, IInv, TypeOK
  <2>. QED  BY <1>2, <2>1, <2>2
<1>. QED  BY <1>1, <1>2, <1>8, <1>9, <1>10 DEF Shares

LEMMA NextShares == IInv /\ Balanced /\ Shares /\ [Next]_vars => Shares'
<1>. SUFFICES ASSUME IInv, Balanced, Shares, [Next]_vars PROVE Shares'
  OBVIOUS
<1>1. ASSUME NEW p \in Picker, NoneEligible(p) PROVE Shares'
  <2>. SUFFICES ASSUME quiet', algo' = "swrr" PROVE FALSE
    BY DEF Shares
  <2>1. quiet /\ algo = "swrr" /\ pc[p] = "scan" /\ at[p] = N /\ best < 0
    BY <1>1 DEF NoneEligible, counts
  <2>2. BestOf(current, best, N)
    BY <2>1 DEF Shares
  <2>. QED  BY <2>1, <2>2, RoutingAssumption DEF BestOf
<1>2. ASSUME NEW p \in Picker, Next1(p) \/ Found(p) \/ WalkOn(p) \/ Missed(p) PROVE Shares'
  <2>. SUFFICES ASSUME quiet', algo' = "swrr" PROVE FALSE
    BY DEF Shares
  <2>1. quiet /\ algo = "swrr" /\ pc[p] \in {"next", "walk"}
    <3>1. algo = "swrr" /\ pc[p] \in {"next", "walk"}
      BY <1>2 DEF Next1, Found, WalkOn, Missed
    <3>2. quiet
      BY <1>2, Zenon DEF Next1, Found, WalkOn, Missed, Served, counts
    <3>. QED  BY <3>1, <3>2
  <2>. QED  BY <2>1 DEF Shares
<1>3. ASSUME NEW p \in Picker, Call(p) \/ Step(p) PROVE Shares'
  BY <1>1, <1>2, <1>3, SharesCall, SharesLock, SharesScan, SharesChoose DEF Step
<1>4. ASSUME NEW i \in Members, Flip(i) PROVE Shares'
  BY <1>4 DEF Flip, Shares
<1>5. CASE UNCHANGED vars
  <2>1. /\ UNCHANGED <<algo, up, holder, current, total, best, pc, at, served, quiet>>
    BY <1>5 DEF vars, weighted, calls, counts
  <2>2. \A i : Due(i)' = Due(i)
    BY <2>1 DEF Due
  <2>3. [i \in Members |-> Due(i)'] = [i \in Members |-> Due(i)]
    BY <2>2
  <2>. QED  BY <2>1, <2>2, <2>3 DEF Shares
<1>. QED  BY <1>3, <1>4, <1>5 DEF Next

LEMMA InitShares == Init => Shares
<1>. SUFFICES ASSUME Init PROVE Shares
  OBVIOUS
<1>1. served = [i \in Members |-> 0] /\ SumOver(served) = 0
  BY SumZero DEF Init
<1>2. \A i \in Members : Due(i) = 0
  <2>1. \A i \in Members : W(i) \in Int /\ served[i] = 0
    BY <1>1, WeightPositive
  <2>. QED  BY <1>1, <2>1, TotalPositive DEF Due
<1>3. [i \in Members |-> Due(i)] = [i \in Members |-> 0]
  BY <1>2
<1>4. SumOver([i \in Members |-> Due(i)]) = 0
  BY <1>3, SumZero
<1>5. \A i \in Members : -Due(i) < Total /\ current[i] = Due(i)
  BY <1>2, TotalPositive DEF Init
<1>. QED  BY <1>4, <1>5 DEF Init, Shares

LEMMA SharesAlways == Spec => []Shares
  BY InitIInv, NextIInv, InitBalanced, NextBalanced, InitShares, NextShares, PTL DEF Spec

(* What Shares says of the picks so far.                                   *)
LEMMA SharesFair ==
  ASSUME IInv, Shares, quiet, algo = "swrr", NEW i \in Members
  PROVE  /\ served[i] * Total - SumOver(served) * W(i) < Total
         /\ -(served[i] * Total - SumOver(served) * W(i)) <= (N - 1) * (Total - 1)
<1>. DEFINE d == [j \in Members |-> Due(j)]
<1>1. /\ SumOver(d) = 0 /\ \A j \in Members : Due(j) \in Int /\ -Due(j) < Total
      /\ SumOver(served) \in Int /\ served[i] \in Int /\ W(i) \in Int /\ Total \in Nat \ {0}
  BY DueType, TotalPositive DEF IInv, Shares
<1>2. d \in [Members -> Int] /\ Total - 1 \in Nat
  BY <1>1
<1>3. \A j \in Members : d[j] >= -(Total - 1)
  BY <1>1
<1>4. d[i] = Due(i)
  OBVIOUS
<1>. HIDE DEF d
<1>5. d[i] <= SumOver(d) + (N - 1) * (Total - 1)
  <2>. DEFINE c == Total - 1
  <2>1. c \in Nat /\ \A j \in Members : d[j] >= -c
    BY <1>2, <1>3
  <2>. HIDE DEF c
  <2>2. d[i] <= SumOver(d) + (N - 1) * c
    BY <1>2, <2>1, SumBelow
  <2>. QED  BY <2>2 DEF c
<1>6. (N - 1) * (Total - 1) \in Int
  BY <1>1, RoutingAssumption
<1>7. Due(i) = SumOver(served) * W(i) - served[i] * Total
  BY DEF Due
<1>8. SumOver(served) * W(i) \in Int /\ served[i] * Total \in Int
  BY <1>1
<1>. QED  BY <1>1, <1>4, <1>5, <1>6, <1>7, <1>8

----------------------------------------------------------------------------
(* The round robin.  A call that walks has a member reserved; counting it  *)
(* as served, the members before the one whose turn is next are one ahead  *)
(* of the others.                                                          *)

Waiting(i) == {p \in Picker : pc[p] = "walk" /\ start[p] = i}
Turns(i) == served[i] + Cardinality(Waiting(i))
Turn == GoRem(AsInt(n), N)
Rounds(q, s) == \A i \in Members : Turns(i) = q + (IF i < s THEN 1 ELSE 0)

Level ==
  quiet /\ algo = "rr" =>
    /\ up = Members
    /\ \A p \in Picker : /\ pc[p] \in {"idle", "next", "walk", "panic"}
                         /\ pc[p] = "walk" => at[p] = 0
    /\ \E q \in Int, s \in Members :
          Rounds(q, s) /\ (Alive /\ Turn >= 0 => s = Turn)

(* The next turn is the next member's, even when the counter comes to the  *)
(* values that an int takes for negative ones: an index of 0 or more is    *)
(* right, or it is below 0.                                                *)
LEMMA NextTurn ==
  ASSUME NEW k \in 0 .. 2 * Half - 1, NEW m, m = (IF k + 1 = 2 * Half THEN 0 ELSE k + 1),
         GoRem(AsInt(k), N) >= 0, GoRem(AsInt(m), N) >= 0
  PROVE  /\ GoRem(AsInt(k), N) \in Members
         /\ GoRem(AsInt(m), N) = IF GoRem(AsInt(k), N) = N - 1 THEN 0
                                 ELSE GoRem(AsInt(k), N) + 1
<1>. DEFINE a == GoRem(AsInt(k), N)
            b == GoRem(AsInt(m), N)
<1>0. N \in Nat \ {0} /\ Half \in Nat \ {0} /\ k \in Nat
  BY RoutingAssumption
<1>. SUFFICES a \in 0 .. N - 1 /\ b = IF a = N - 1 THEN 0 ELSE a + 1
  BY DEF Members
<1>1. \A x \in Nat : x % N \in 0 .. N - 1
  BY <1>0
<1>2. \A x \in Nat : GoRem(x, N) = x % N
  BY DEF GoRem
<1>3. \A x \in Nat : x > 0 => GoRem(-x, N) = -(x % N)
  BY <1>0 DEF GoRem
<1>4. CASE k + 1 < Half
  <2>1. AsInt(k) = k /\ AsInt(m) = k + 1
    BY <1>0, <1>4 DEF AsInt
  <2>2. a = k % N /\ b = (k + 1) % N
    BY <1>0, <1>2, <2>1
  <2>. HIDE DEF a, b
  <2>. QED  BY <1>0, <1>1, <2>2, NextRem
<1>5. CASE k + 1 = Half
  <2>. DEFINE d == k + 1
  <2>1. d \in Nat \ {0} /\ AsInt(k) = k /\ AsInt(m) = -d
    BY <1>0, <1>5 DEF AsInt
  <2>2. d % N = (IF k % N = N - 1 THEN 0 ELSE (k % N) + 1)
    BY <1>0, NextRem
  <2>. HIDE DEF d
  <2>3. a = k % N /\ b = -(d % N) /\ b >= 0
    BY <1>0, <1>2, <1>3, <2>1
  <2>. HIDE DEF a, b
  <2>. QED  BY <1>0, <1>1, <2>1, <2>2, <2>3
<1>6. CASE Half <= k /\ k + 1 < 2 * Half
  <2>. DEFINE d == 2 * Half - k - 1
              e == d + 1
  <2>1. d \in Nat \ {0} /\ e \in Nat \ {0} /\ AsInt(k) = -e /\ AsInt(m) = -d
    BY <1>0, <1>6 DEF AsInt
  <2>2. e % N = (IF d % N = N - 1 THEN 0 ELSE (d % N) + 1)
    BY <1>0, <2>1, NextRem
  <2>. HIDE DEF d, e
  <2>3. GoRem(-e, N) = -(e % N) /\ GoRem(-d, N) = -(d % N)
    <3>1. e \in Nat /\ e > 0 /\ d \in Nat /\ d > 0
      BY <2>1
    <3>. QED  BY <1>3, <3>1
  <2>4. a = -(e % N) /\ b = -(d % N) /\ a >= 0 /\ b >= 0
    BY <2>1, <2>3
  <2>. HIDE DEF a, b
  <2>. QED  BY <1>0, <1>1, <2>1, <2>2, <2>3, <2>4
<1>7. CASE k + 1 = 2 * Half
  <2>1. AsInt(k) = -(0 + 1) /\ AsInt(m) = 0
    BY <1>0, <1>7 DEF AsInt
  <2>2. a = -((0 + 1) % N) /\ b = 0 % N /\ a >= 0 /\ b >= 0
    BY <1>0, <1>2, <1>3, <2>1
  <2>. HIDE DEF a, b
  <2>3. (0 + 1) % N = (IF 0 % N = N - 1 THEN 0 ELSE (0 % N) + 1)
    BY <1>0, NextRem
  <2>. QED  BY <1>0, <1>1, <2>2, <2>3, SmallRem
<1>. QED  BY <1>0, <1>4, <1>5, <1>6, <1>7

LEMMA WaitingFinite ==
  \A i : IsFiniteSet(Waiting(i)) /\ Cardinality(Waiting(i)) \in Nat
<1>1. \A i : Waiting(i) \subseteq Picker
  BY DEF Waiting
<1>. QED  BY <1>1, RoutingAssumption, FS_Subset, FS_CardinalityType

(* A call that does not walk, before or after the step, waits for nobody.  *)
LEMMA WaitingSame ==
  ASSUME NEW p \in Picker, pc[p] # "walk", pc'[p] # "walk",
         \A q \in Picker \ {p} : pc'[q] = pc[q] /\ start'[q] = start[q]
  PROVE  \A i : Waiting(i)' = Waiting(i)
  BY DEF Waiting

LEMMA LevelCall ==
  ASSUME IInv, Level, NEW p \in Picker, Call(p)
  PROVE  Level'
<1>. SUFFICES ASSUME quiet', algo' = "rr" PROVE Level'
  BY DEF Level
<1>1. /\ quiet /\ algo = "rr" /\ up' = up /\ served' = served /\ n' = n /\ start' = start
      /\ Alive /\ pc[p] = "idle" /\ pc'[p] = "next" /\ at'[p] = 0
      /\ \A q \in Picker \ {p} : pc'[q] = pc[q] /\ at'[q] = at[q]
  <2>1. quiet
    BY DEF Call, counts
  <2>. QED  BY <2>1 DEF Call, Goto, IInv, TypeOK, counts
<1>2. \A i : Turns(i)' = Turns(i)
  BY <1>1, WaitingSame DEF Turns
<1>3. Turn' = Turn
  BY <1>1 DEF Turn
<1>4. PICK q \in Int, s \in Members : Rounds(q, s) /\ (Alive /\ Turn >= 0 => s = Turn)
  BY <1>1 DEF Level
<1>5. Rounds(q, s)' /\ (Alive' /\ Turn' >= 0 => s = Turn')
  BY <1>1, <1>2, <1>3, <1>4 DEF Rounds
<1>6. \A r \in Picker : /\ pc'[r] \in {"idle", "next", "walk", "panic"}
                        /\ pc'[r] = "walk" => at'[r] = 0
  BY <1>1 DEF Level
<1>. QED  BY <1>1, <1>5, <1>6 DEF Level

LEMMA LevelNext1 ==
  ASSUME IInv, Level, NEW p \in Picker, Next1(p)
  PROVE  Level'
<1>. SUFFICES ASSUME quiet', algo' = "rr" PROVE Level'
  BY DEF Level
<1>1. /\ quiet /\ algo = "rr" /\ up' = up /\ served' = served
      /\ Alive /\ pc[p] = "next" /\ n' = (n + 1) % (2 * Half) /\ n \in 0 .. 2 * Half - 1
      /\ start' = [start EXCEPT ![p] = Turn]
      /\ Goto(p, IF start'[p] < 0 THEN "panic" ELSE "walk", 0)
  <2>1. quiet
    BY DEF Next1, counts
  <2>. QED  BY <2>1 DEF Next1, IInv, TypeOK, counts, Turn
<1>2. /\ start'[p] = Turn /\ pc'[p] = (IF Turn < 0 THEN "panic" ELSE "walk") /\ at'[p] = 0
      /\ \A q \in Picker \ {p} : pc'[q] = pc[q] /\ at'[q] = at[q] /\ start'[q] = start[q]
  <2>1. start'[p] = Turn /\ \A q \in Picker \ {p} : start'[q] = start[q]
    BY <1>1 DEF IInv, TypeOK
  <2>. QED  BY <1>1, <2>1 DEF Goto, IInv, TypeOK
<1>3. n' = (IF n + 1 = 2 * Half THEN 0 ELSE n + 1)
  <2>. DEFINE m == 2 * Half
  <2>1. n \in 0 .. m - 1 /\ n' = (n + 1) % m /\ m \in Nat \ {0}
    BY <1>1, RoutingAssumption
  <2>. HIDE DEF m
  <2>2. n' = IF n + 1 = m THEN 0 ELSE n + 1
    BY <2>1, SmallRem
  <2>. QED  BY <2>2 DEF m
<1>4. PICK q \in Int, s \in Members : Rounds(q, s) /\ (Alive /\ Turn >= 0 => s = Turn)
  BY <1>1 DEF Level
<1>5. \A r \in Picker : /\ pc'[r] \in {"idle", "next", "walk", "panic"}
                        /\ pc'[r] = "walk" => at'[r] = 0
  BY <1>1, <1>2 DEF Level
<1>6. Turn \in Int
  BY RemMember, RoutingAssumption DEF Turn, GoRem, AsInt, IInv, TypeOK
<1>7. CASE Turn < 0
  <2>1. pc'[p] = "panic" /\ ~Alive'
    BY <1>2, <1>7 DEF Alive
  <2>2. \A i : Turns(i)' = Turns(i)
    BY <1>1, <1>2, <2>1, WaitingSame DEF Turns
  <2>3. Rounds(q, s)'
    BY <1>4, <2>2 DEF Rounds
  <2>. QED  BY <1>1, <1>5, <2>1, <2>3 DEF Level
<1>8. CASE Turn >= 0
  <2>1. s = Turn /\ pc'[p] = "walk" /\ start'[p] = s
    BY <1>1, <1>2, <1>4, <1>6, <1>8
  <2>2. \A i \in Members \ {s} : Waiting(i)' = Waiting(i)
    BY <1>1, <1>2, <2>1 DEF Waiting
  <2>3. Waiting(s)' = Waiting(s) \cup {p} /\ p \notin Waiting(s)
    BY <1>1, <1>2, <2>1 DEF Waiting
  <2>4. Cardinality(Waiting(s)') = Cardinality(Waiting(s)) + 1
    BY <2>3, WaitingFinite, FS_AddElement
  <2>5. /\ Turns(s)' = Turns(s) + 1
        /\ \A i \in Members \ {s} : Turns(i)' = Turns(i)
    <3>1. \A i : Turns(i)' = served[i] + Cardinality(Waiting(i)')
      BY <1>1 DEF Turns
    <3>2. served[s] \in Nat /\ Cardinality(Waiting(s)) \in Nat
      BY WaitingFinite DEF IInv, TypeOK
    <3>. QED  BY <2>2, <2>4, <3>1, <3>2 DEF Turns
  <2>. DEFINE q2 == IF s = N - 1 THEN q + 1 ELSE q
              s2 == IF s = N - 1 THEN 0 ELSE s + 1
  <2>6. q2 \in Int /\ s2 \in Members
    BY RoutingAssumption DEF Members
  <2>7. Rounds(q2, s2)'
    <3>1. \A i \in Members : Turns(i) = q + (IF i < s THEN 1 ELSE 0)
      BY <1>4 DEF Rounds
    <3>2. ASSUME NEW i \in Members PROVE Turns(i)' = q2 + (IF i < s2 THEN 1 ELSE 0)
      <4>1. i \in 0 .. N - 1 /\ s \in 0 .. N - 1 /\ N \in Nat
        BY RoutingAssumption DEF Members
      <4>2. CASE i = s
        BY <2>5, <3>1, <4>1, <4>2
      <4>3. CASE i # s
        <5>1. Turns(i)' = q + (IF i < s THEN 1 ELSE 0)
          BY <2>5, <3>1, <4>3
        <5>. QED  BY <4>1, <4>3, <5>1
      <4>. QED  BY <4>2, <4>3
    <3>. HIDE DEF q2, s2
    <3>. QED  BY <3>2 DEF Rounds
  <2>8. Turn' >= 0 => s2 = Turn'
    <3>. SUFFICES ASSUME Turn' >= 0 PROVE s2 = Turn'
      OBVIOUS
    <3>1. GoRem(AsInt(n), N) >= 0 /\ GoRem(AsInt(n'), N) >= 0 /\ s = GoRem(AsInt(n), N)
      BY <1>8, <2>1 DEF Turn
    <3>2. GoRem(AsInt(n'), N) = IF s = N - 1 THEN 0 ELSE s + 1
      BY <1>1, <1>3, <3>1, NextTurn
    <3>. QED  BY <3>2 DEF Turn
  <2>. HIDE DEF q2, s2
  <2>9. \E q3 \in Int, s3 \in Members : Rounds(q3, s3)' /\ (Alive' /\ Turn' >= 0 => s3 = Turn')
    BY <2>6, <2>7, <2>8
  <2>10. up' = Members
    BY <1>1 DEF Level
  <2>. QED  BY <1>1, <1>5, <2>9, <2>10 DEF Level
<1>. QED  BY <1>6, <1>7, <1>8

LEMMA LevelFound ==
  ASSUME IInv, Level, NEW p \in Picker, Found(p)
  PROVE  Level'
<1>. SUFFICES ASSUME quiet', algo' = "rr" PROVE Level'
  BY DEF Level
<1>0. PICK f \in Members : f = start[p]
  BY DEF Found, IInv, Walked
<1>1. /\ quiet /\ algo = "rr" /\ up' = up /\ n' = n /\ Alive /\ pc[p] = "walk"
      /\ Served(Index(p)) /\ Return(p)
  <2>1. quiet
    BY Zenon DEF Found, Served
  <2>. QED  BY <2>1 DEF Found
<1>2. Index(p) = f
  <2>1. at[p] = 0
    BY <1>1 DEF Level
  <2>2. f \in 0 .. N - 1 /\ N \in Nat \ {0} /\ f + 0 = f
    BY RoutingAssumption DEF Members
  <2>3. f % N = f
    BY <2>2, SmallRem
  <2>. QED  BY <1>0, <2>1, <2>2, <2>3 DEF Index
<1>3. served' = [served EXCEPT ![f] = served[f] + 1]
  <2>1. SumOver(served) < MaxPicks
    BY <1>1, Zenon DEF Served
  <2>. QED  BY <1>1, <1>2, <2>1, Zenon DEF Served
<1>4. /\ pc'[p] = "idle" /\ at'[p] = 0 /\ start'[p] = 0
      /\ \A q \in Picker \ {p} : pc'[q] = pc[q] /\ at'[q] = at[q] /\ start'[q] = start[q]
  BY <1>1, ReturnTyped DEF IInv, TypeOK, Return, Goto
<1>5. \A i \in Members \ {f} : Waiting(i)' = Waiting(i)
  BY <1>0, <1>1, <1>4 DEF Waiting
<1>6. Waiting(f)' = Waiting(f) \ {p} /\ p \in Waiting(f)
  BY <1>0, <1>1, <1>4 DEF Waiting
<1>7. Cardinality(Waiting(f)') = Cardinality(Waiting(f)) - 1
  BY <1>6, WaitingFinite, FS_RemoveElement
<1>8. \A i \in Members : Turns(i)' = Turns(i)
  <2>1. served \in [Members -> Nat] /\ Cardinality(Waiting(f)) \in Nat
    BY WaitingFinite DEF IInv, TypeOK
  <2>2. \A i : Turns(i)' = served'[i] + Cardinality(Waiting(i)')
    BY DEF Turns
  <2>3. served'[f] = served[f] + 1 /\ \A i \in Members \ {f} : served'[i] = served[i]
    BY <1>1, <1>3, <2>1
  <2>4. Turns(f)' = Turns(f)
    BY <1>1, <1>7, <2>1, <2>2, <2>3 DEF Turns
  <2>5. \A i \in Members \ {f} : Turns(i)' = Turns(i)
    BY <1>5, <2>2, <2>3 DEF Turns
  <2>. QED  BY <2>4, <2>5
<1>9. PICK q \in Int, s \in Members : Rounds(q, s) /\ (Alive /\ Turn >= 0 => s = Turn)
  BY <1>1 DEF Level
<1>10. Rounds(q, s)' /\ (Alive' /\ Turn' >= 0 => s = Turn')
  BY <1>1, <1>8, <1>9 DEF Rounds, Turn
<1>11. \A r \in Picker : /\ pc'[r] \in {"idle", "next", "walk", "panic"}
                         /\ pc'[r] = "walk" => at'[r] = 0
  BY <1>1, <1>4 DEF Level
<1>12. up' = Members
  BY <1>1 DEF Level
<1>. QED  BY <1>10, <1>11, <1>12 DEF Level

LEMMA NextLevel == IInv /\ Level /\ [Next]_vars => Level'
<1>. SUFFICES ASSUME IInv, Level, [Next]_vars PROVE Level'
  OBVIOUS
<1>1. ASSUME NEW p \in Picker, Lock(p) \/ Scan(p) \/ Choose(p) \/ NoneEligible(p) PROVE Level'
  <2>. SUFFICES ASSUME quiet', algo' = "rr" PROVE FALSE
    BY DEF Level
  <2>1. algo = "rr" /\ pc[p] \in {"lock", "scan"}
    BY <1>1 DEF Lock, Scan, Choose, NoneEligible
  <2>2. quiet
    BY <1>1, Zenon DEF Lock, Scan, Choose, NoneEligible, Served, counts
  <2>. QED  BY <2>1, <2>2 DEF Level
<1>2. ASSUME NEW p \in Picker, WalkOn(p) \/ Missed(p) PROVE Level'
  <2>. SUFFICES ASSUME quiet', algo' = "rr" PROVE FALSE
    BY DEF Level
  <2>1. algo = "rr" /\ quiet /\ pc[p] = "walk" /\ (at[p] = N \/ Index(p) \notin up)
    BY <1>2 DEF WalkOn, Missed, counts
  <2>2. at[p] = 0 /\ up = Members
    BY <2>1 DEF Level
  <2>3. Index(p) \in Members
    <3>1. start[p] \in Members
      BY <2>1 DEF IInv, Walked
    <3>2. start[p] + 0 \in Int /\ N \in Nat \ {0}
      BY <3>1, RoutingAssumption DEF Members
    <3>. QED  BY <2>2, <3>2 DEF Index, Members
  <2>. QED  BY <2>1, <2>2, <2>3, RoutingAssumption
<1>3. ASSUME NEW p \in Picker, Call(p) \/ Step(p) PROVE Level'
  BY <1>1, <1>2, <1>3, LevelCall, LevelNext1, LevelFound DEF Step
<1>4. ASSUME NEW i \in Members, Flip(i) PROVE Level'
  BY <1>4 DEF Flip, Level
<1>5. CASE UNCHANGED vars
  <2>1. UNCHANGED <<algo, up, n, pc, at, start, served, quiet>>
    BY <1>5 DEF vars, weighted, calls, counts
  <2>2. \A i : Turns(i)' = Turns(i)
    BY <2>1 DEF Turns, Waiting
  <2>3. \A q, s : Rounds(q, s)' = Rounds(q, s)
    BY <2>2 DEF Rounds
  <2>4. Turn' = Turn /\ Alive' = Alive
    BY <2>1 DEF Turn, Alive
  <2>. QED  BY <2>1, <2>3, <2>4 DEF Level
<1>. QED  BY <1>3, <1>4, <1>5 DEF Next

LEMMA InitLevel == Init => Level
<1>. SUFFICES ASSUME Init PROVE Level
  OBVIOUS
<1>1. \A i : Waiting(i) = {}
  BY DEF Init, Waiting
<1>2. \A i \in Members : Turns(i) = 0
  BY <1>1, FS_EmptySet DEF Init, Turns
<1>3. 0 \in Members /\ Turn = 0
  <2>1. 0 \in 0 .. N - 1 /\ N \in Nat \ {0} /\ 0 < Half
    BY RoutingAssumption
  <2>2. 0 % N = 0
    BY <2>1, SmallRem
  <2>. QED  BY <2>1, <2>2 DEF Init, Turn, AsInt, GoRem, Members
<1>4. Rounds(0, 0)
  BY <1>2 DEF Rounds, Members
<1>. QED  BY <1>3, <1>4 DEF Init, Level

LEMMA LevelAlways == Spec => []Level
  BY InitIInv, NextIInv, InitLevel, NextLevel, PTL DEF Spec

LEMMA LevelFair ==
  ASSUME IInv, Level, quiet, algo = "rr", NEW i \in Members, NEW j \in Members
  PROVE  served[i] - served[j] <= 1 + Cardinality({p \in Picker : pc[p] = "walk"})
<1>1. PICK q \in Int, s \in Members : Rounds(q, s)
  BY DEF Level
<1>2. /\ served[i] + Cardinality(Waiting(i)) <= q + 1
      /\ served[j] + Cardinality(Waiting(j)) >= q
  BY <1>1 DEF Rounds, Turns, Members
<1>. DEFINE walking == {p \in Picker : pc[p] = "walk"}
<1>3. IsFiniteSet(walking) /\ Waiting(j) \subseteq walking
  BY RoutingAssumption, FS_Subset DEF Waiting
<1>4. Cardinality(walking) \in Nat /\ Cardinality(Waiting(j)) <= Cardinality(walking)
  BY <1>3, FS_Subset, FS_CardinalityType
<1>5. served[i] \in Nat /\ served[j] \in Nat /\ Cardinality(Waiting(i)) \in Nat
      /\ Cardinality(Waiting(j)) \in Nat
  BY WaitingFinite DEF IInv, TypeOK
<1>. HIDE DEF walking
<1>6. served[i] - served[j] <= 1 + Cardinality(walking)
  BY <1>2, <1>4, <1>5
<1>. QED  BY <1>6 DEF walking

(* While nothing flips the picks follow the weights, and the round robin   *)
(* serves everybody in turn, whatever the number of reactors and members,  *)
(* the weights and the width of the counter.                               *)
THEOREM PicksAreFair == Spec => []FairShare
<1>1. ASSUME IInv, Shares, Level PROVE FairShare
  <2>. SUFFICES ASSUME quiet PROVE FairShare
    BY DEF FairShare
  <2>1. CASE algo = "swrr"
    BY <1>1, <2>1, SharesFair DEF FairShare
  <2>2. CASE algo = "rr"
    BY <1>1, <2>2, LevelFair DEF FairShare
  <2>. QED  BY <1>1, <2>1, <2>2 DEF IInv, TypeOK
<1>. QED  BY <1>1, Invariance, SharesAlways, LevelAlways, PTL
============================================================================
