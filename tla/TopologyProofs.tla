---------------------------- MODULE TopologyProofs ----------------------------
(***************************************************************************)
(* What the loops of module Topology compute, for every inventory: the     *)
(* tags that GetZoneRegion reads are the nearest ones, and the datastores  *)
(* that GetSharedDatastoresForVMs finds are those all nodes can access.    *)
(* Induction is over the naturals, by the least number at which a claim    *)
(* would fail.                                                             *)
(***************************************************************************)
EXTENDS Topology, FiniteSetTheorems, WellFoundedInduction, TLAPS

(* A set of naturals that is not empty has a least element.                *)
LEMMA LeastNat ==
    ASSUME NEW A, A \subseteq Nat, A # {}
    PROVE  \E i \in A : \A j \in A : i <= j
<1> DEFINE R == {p \in Nat \X Nat : p[1] < p[2]}
<1>1. IsWellFoundedOn(R, Nat)
  BY NatLessThanWellFounded, Zenon DEF OpToRel
<1>2. PICK i \in A : \A j \in A : ~ (<<j, i>> \in R)
  <2> HIDE DEF R
  <2> QED
    BY <1>1, WFMin, Zenon
<1>3. ASSUME NEW j \in A
      PROVE  i <= j
  <2>1. ~ (<<j, i>> \in R) /\ <<j, i>> \in Nat \X Nat
    BY <1>2
  <2>2. ~ (<<j, i>>[1] < <<j, i>>[2])
    BY <2>1, Zenon
  <2> QED
    BY <2>2
<1> QED
  BY <1>3

(* So what holds of 0, and of i if it holds of i - 1, holds up to n.       *)
LEMMA Induction ==
    ASSUME NEW n \in Nat, NEW A, 0 \in A, \A i \in 1..n : i - 1 \in A => i \in A
    PROVE  \A i \in 0..n : i \in A
<1> DEFINE B == {i \in 0..n : i \notin A}
<1> SUFFICES ASSUME B # {} PROVE FALSE
  OBVIOUS
<1>1. PICK i \in B : \A j \in B : i <= j
  <2>1. B \subseteq Nat
    OBVIOUS
  <2> HIDE DEF B
  <2> QED
    BY <2>1, LeastNat, Zenon
<1>2. i \in 1..n /\ i \notin A
  BY <1>1
<1>3. i - 1 \in A
  BY <1>1, <1>2
<1> QED
  BY <1>2, <1>3

(* The largest and the smallest element of a set are what Max and Min choose. *)
LEMMA MaxIs ==
    ASSUME NEW A, A \subseteq Nat, NEW i \in A, \A k \in A : k <= i
    PROVE  Max(A) = i
  <1>1. \E x \in A : \A y \in A : x >= y
    BY SMT
  <1>2. PICK m : m = Max(A)
    OBVIOUS
  <1>3. m \in A /\ \A y \in A : m >= y
    BY <1>1, <1>2, Zenon DEF Max
  <1> QED
    BY <1>2, <1>3, SMT

LEMMA MinIs ==
    ASSUME NEW A, A \subseteq Nat, NEW i \in A, \A k \in A : i <= k
    PROVE  Min(A) = i
  <1>1. \E x \in A : \A y \in A : x <= y
    BY SMT
  <1>2. PICK m : m = Min(A)
    OBVIOUS
  <1>3. m \in A /\ \A y \in A : m <= y
    BY <1>1, <1>2, Zenon DEF Min
  <1> QED
    BY <1>2, <1>3, SMT

-----------------------------------------------------------------------------
(* The first tag of a category *)

(* It is at i: no tag before is of the category. *)
FirstAt(tags, category, i) ==
    /\ i \in 1..Len(tags) /\ tags[i].category = category
    /\ \A j \in 1..Len(tags) : j < i => tags[j].category # category

Lacks(tags, category) == \A j \in 1..Len(tags) : tags[j].category # category

LEMMA FirstTagIs ==
    ASSUME NEW tags \in Seq(TagSet), NEW category, NEW i, FirstAt(tags, category, i)
    PROVE  FirstTag(tags, category) = tags[i].name
<1> DEFINE those == {j \in DOMAIN tags : tags[j].category = category}
<1>1. those \subseteq Nat /\ i \in those /\ \A k \in those : i <= k
  BY DEF FirstAt
<1>2. Min(those) = i
  <2> HIDE DEF those
  <2> QED
    BY <1>1, MinIs, Zenon
<1>3. those # {}
  BY <1>1
<1> QED
  BY <1>2, <1>3, Zenon DEF FirstTag

LEMMA NoFirstTag ==
    ASSUME NEW tags \in Seq(TagSet), NEW category, Lacks(tags, category)
    PROVE  FirstTag(tags, category) = ""
<1>1. {j \in DOMAIN tags : tags[j].category = category} = {}
  BY DEF Lacks
<1> QED
  BY <1>1, Zenon DEF FirstTag

LEMMA FirstOrNone ==
    ASSUME NEW tags \in Seq(TagSet), NEW category
    PROVE  Lacks(tags, category) \/ \E i : FirstAt(tags, category, i)
<1> DEFINE those == {j \in 1..Len(tags) : tags[j].category = category}
<1> SUFFICES ASSUME those # {} PROVE \E i : FirstAt(tags, category, i)
  BY DEF Lacks
<1>1. PICK i \in those : \A j \in those : i <= j
  <2>1. those \subseteq Nat
    OBVIOUS
  <2> HIDE DEF those
  <2> QED
    BY <2>1, LeastNat, Zenon
<1>2. FirstAt(tags, category, i)
  <2>1. i \in 1..Len(tags) /\ tags[i].category = category
    BY <1>1
  <2>2. ASSUME NEW j \in 1..Len(tags), j < i, tags[j].category = category
        PROVE  FALSE
    <3>1. j \in those
      BY <2>2
    <3>2. i <= j
      BY <1>1, <3>1, Zenon
    <3> QED
      BY <2>1, <2>2, <3>2
  <2> QED
    BY <2>1, <2>2, Zenon DEF FirstAt
<1> QED
  BY <1>2, Zenon

LEMMA FirstTagNamed ==
    ASSUME NEW tags \in Seq(TagSet), NEW category, NEW i, FirstAt(tags, category, i)
    PROVE  FirstTag(tags, category) # "" /\ FirstTag(tags, category) = tags[i].name
<1>1. tags[i] \in TagSet
  BY DEF FirstAt
<1>2. tags[i].name # ""
  BY <1>1 DEF TagSet
<1> QED
  BY <1>2, FirstTagIs, Zenon

OrElse(name, other) == IF name # "" THEN name ELSE other

(* The tags of two objects, one after the other. *)
LEMMA FirstOfBoth ==
    ASSUME NEW a \in Seq(TagSet), NEW b \in Seq(TagSet), NEW category
    PROVE  FirstTag(a \o b, category) = OrElse(FirstTag(a, category), FirstTag(b, category))
<1> SUFFICES FirstTag(a \o b, category) = IF FirstTag(a, category) # ""
                                          THEN FirstTag(a, category)
                                          ELSE FirstTag(b, category)
  BY Zenon DEF OrElse
<1> DEFINE c == a \o b
<1>1. c \in Seq(TagSet) /\ Len(c) = Len(a) + Len(b)
  OBVIOUS
<1>2. \A j \in 1..Len(a) : c[j] = a[j]
  OBVIOUS
<1>3. \A j \in 1..Len(b) : c[Len(a) + j] = b[j]
  OBVIOUS
<1>n. Len(a) \in Nat /\ Len(b) \in Nat
  OBVIOUS
<1> HIDE DEF c
<1>4. CASE \E i : FirstAt(a, category, i)
  <2>1. PICK i : FirstAt(a, category, i)
    BY <1>4
  <2>2. FirstAt(c, category, i)
    <3>1. i \in 1..Len(a) /\ i \in 1..Len(c)
      BY <1>1, <1>n, <2>1, SMT DEF FirstAt
    <3>2. ASSUME NEW j \in 1..Len(c), j < i
          PROVE  j \in 1..Len(a)
      BY <1>1, <1>n, <3>1, <3>2, SMT
    <3> QED
      BY <1>2, <2>1, <3>1, <3>2, Zenon DEF FirstAt
  <2>3. c[i] = a[i]
    BY <1>2, <2>1, Zenon DEF FirstAt
  <2>4. FirstTag(c, category) = c[i].name
    BY <1>1, <2>2, FirstTagIs, Zenon
  <2>5. FirstTag(a, category) # "" /\ FirstTag(a, category) = a[i].name
    BY <2>1, FirstTagNamed, Zenon
  <2> QED
    BY <2>3, <2>4, <2>5, Zenon DEF c
<1>5. CASE Lacks(a, category)
  <2>1. FirstTag(a, category) = ""
    BY <1>5, NoFirstTag, Zenon
  <2>2. CASE Lacks(b, category)
    <3>1. FirstTag(b, category) = ""
      BY <2>2, NoFirstTag, Zenon
    <3>2. Lacks(c, category)
      <4> SUFFICES ASSUME NEW j \in 1..Len(c) PROVE c[j].category # category
        BY Zenon DEF Lacks
      <4>1. CASE j \in 1..Len(a)
        BY <1>2, <1>5, <4>1, Zenon DEF Lacks
      <4>2. CASE j \notin 1..Len(a)
        <5>1. j - Len(a) \in 1..Len(b) /\ Len(a) + (j - Len(a)) = j
          BY <1>1, <1>n, <4>2, SMT
        <5>2. PICK k \in 1..Len(b) : Len(a) + k = j
          BY <5>1, Zenon
        <5> QED
          BY <1>3, <2>2, <5>2, Zenon DEF Lacks
      <4> QED
        BY <4>1, <4>2, Zenon
    <3>3. FirstTag(c, category) = ""
      BY <1>1, <3>2, NoFirstTag, Zenon
    <3> QED
      BY <2>1, <3>1, <3>3, Zenon DEF c
  <2>3. CASE \E i : FirstAt(b, category, i)
    <3>1. PICK i : FirstAt(b, category, i)
      BY <2>3
    <3>2. FirstTag(b, category) = b[i].name
      BY <3>1, FirstTagIs, Zenon
    <3>3. c[Len(a) + i] = b[i] /\ i \in 1..Len(b)
      BY <1>3, <3>1, Zenon DEF FirstAt
    <3>4. FirstAt(c, category, Len(a) + i)
      <4>1. Len(a) + i \in 1..Len(c)
        BY <1>1, <1>n, <3>3, SMT
      <4>2. c[Len(a) + i].category = category
        BY <3>1, <3>3, Zenon DEF FirstAt
      <4>3. ASSUME NEW j \in 1..Len(c), j < Len(a) + i
            PROVE  c[j].category # category
        <5>1. CASE j \in 1..Len(a)
          BY <1>2, <1>5, <5>1, Zenon DEF Lacks
        <5>2. CASE j \notin 1..Len(a)
          <6>1. j - Len(a) \in 1..Len(b) /\ Len(a) + (j - Len(a)) = j /\ j - Len(a) < i
            BY <1>1, <1>n, <3>3, <4>3, <5>2, SMT
          <6>2. PICK k \in 1..Len(b) : Len(a) + k = j /\ k < i
            BY <6>1, Zenon
          <6> QED
            BY <1>3, <3>1, <6>2, Zenon DEF FirstAt
        <5> QED
          BY <5>1, <5>2, Zenon
      <4> QED
        BY <4>1, <4>2, <4>3, Zenon DEF FirstAt
    <3>5. FirstTag(c, category) = c[Len(a) + i].name
      BY <1>1, <3>4, FirstTagIs, Zenon
    <3> QED
      BY <2>1, <3>2, <3>3, <3>5, Zenon DEF c
  <2> QED
    BY <2>2, <2>3, FirstOrNone, Zenon
<1> QED
  BY <1>4, <1>5, FirstOrNone, Zenon
-----------------------------------------------------------------------------
(* GetZoneRegion *)

(* The tags that count among the first i, for one category: the first.     *)
Reads(tags, category, i, name) ==
    \/ name = "" /\ \A j \in 1..Len(tags) : j <= i => tags[j].category # category
    \/ \E k : FirstAt(tags, category, k) /\ k <= i /\ name = tags[k].name

ReadLoop(f, tags, n) ==
    f = [i \in 0..n |-> IF i = 0 THEN NoTopology ELSE ReadTag(f[i - 1], tags[i])]

(* The loop over the tags is well defined. *)
LEMMA ReadExists ==
    ASSUME NEW tags, NEW n \in Nat
    PROVE  \E f : ReadLoop(f, tags, n)
<1> DEFINE A == {m \in 0..n : \E f : f = [i \in 0..m |->
                    IF i = 0 THEN NoTopology ELSE ReadTag(f[i - 1], tags[i])]}
<1>1. 0 \in A
  <2> DEFINE f == [i \in 0..0 |-> NoTopology]
  <2>1. f = [i \in 0..0 |-> IF i = 0 THEN NoTopology ELSE ReadTag(f[i - 1], tags[i])]
    OBVIOUS
  <2>2. \E h : h = [i \in 0..0 |-> IF i = 0 THEN NoTopology ELSE ReadTag(h[i - 1], tags[i])]
    BY <2>1, Zenon
  <2>3. 0 \in 0..n
    OBVIOUS
  <2> QED
    BY <2>2, <2>3, Zenon
<1>2. ASSUME NEW m \in 1..n, m - 1 \in A
      PROVE  m \in A
  <2>1. PICK f : f = [i \in 0..(m - 1) |-> IF i = 0 THEN NoTopology
                                          ELSE ReadTag(f[i - 1], tags[i])]
    BY <1>2
  <2> DEFINE g == [i \in 0..m |-> IF i = m THEN ReadTag(f[m - 1], tags[m]) ELSE f[i]]
  <2>2. ASSUME NEW i \in 0..m
        PROVE  g[i] = IF i = 0 THEN NoTopology ELSE ReadTag(g[i - 1], tags[i])
    BY <2>1
  <2>3. g = [i \in 0..m |-> IF i = 0 THEN NoTopology ELSE ReadTag(g[i - 1], tags[i])]
    BY <2>2
  <2>4. \E h : h = [i \in 0..m |-> IF i = 0 THEN NoTopology ELSE ReadTag(h[i - 1], tags[i])]
    <3> HIDE DEF g
    <3> QED
      BY <2>3, Zenon
  <2>5. m \in 0..n
    OBVIOUS
  <2> QED
    BY <2>4, <2>5, Zenon
<1> HIDE DEF A
<1>3. \A i \in 0..n : i \in A
  BY <1>1, <1>2, Induction
<1>4. n \in A
  BY <1>3
<1> QED
  BY <1>4, Zenon DEF A, ReadLoop

(* One tag more. *)
LEMMA ReadsNext ==
    ASSUME NEW tags \in Seq(TagSet), NEW category, NEW i \in 1..Len(tags), NEW name,
           Reads(tags, category, i - 1, name)
    PROVE  Reads(tags, category, i,
                 IF tags[i].category = category /\ name = "" THEN tags[i].name ELSE name)
<1>1. CASE \E k : FirstAt(tags, category, k) /\ k <= i - 1 /\ name = tags[k].name
  <2>1. PICK k : FirstAt(tags, category, k) /\ k <= i - 1 /\ name = tags[k].name
    BY <1>1
  <2>2. name # ""
    BY <2>1, FirstTagNamed, Zenon
  <2>3. k <= i
    BY <2>1 DEF FirstAt
  <2> QED
    BY <2>1, <2>2, <2>3, Zenon DEF Reads
<1>2. CASE name = "" /\ \A j \in 1..Len(tags) : j <= i - 1 => tags[j].category # category
  <2>1. CASE tags[i].category = category
    <3>1. \A j \in 1..Len(tags) : j < i => j <= i - 1
      OBVIOUS
    <3>2. FirstAt(tags, category, i) /\ i <= i
      <4>1. i <= i
        OBVIOUS
      <4> QED
        BY <1>2, <2>1, <3>1, <4>1, Zenon DEF FirstAt
    <3> QED
      BY <1>2, <2>1, <3>2, Zenon DEF Reads
  <2>2. CASE tags[i].category # category
    <3>1. \A j \in 1..Len(tags) : j <= i => j <= i - 1 \/ j = i
      OBVIOUS
    <3> QED
      BY <1>2, <2>2, <3>1, Zenon DEF Reads
  <2> QED
    BY <2>1, <2>2
<1> QED
  BY <1>1, <1>2, Zenon DEF Reads

(* All tags read. *)
LEMMA ReadsAll ==
    ASSUME NEW tags \in Seq(TagSet), NEW category, NEW name,
           Reads(tags, category, Len(tags), name)
    PROVE  name = FirstTag(tags, category)
<1>1. CASE \E k : FirstAt(tags, category, k) /\ name = tags[k].name
  BY <1>1, FirstTagIs, Zenon
<1>2. CASE name = "" /\ \A j \in 1..Len(tags) : j <= Len(tags) => tags[j].category # category
  <2>1. Lacks(tags, category)
    <3>1. \A j \in 1..Len(tags) : j <= Len(tags)
      OBVIOUS
    <3> QED
      BY <1>2, <3>1, Zenon DEF Lacks
  <2> QED
    BY <1>2, <2>1, NoFirstTag, Zenon
<1> QED
  BY <1>1, <1>2, Zenon DEF Reads

(* One round of the loop. *)
LEMMA ReadTagIs ==
    ASSUME NEW zr, NEW tag, NEW now, now = ReadTag(zr, tag)
    PROVE  /\ now.zone   = IF tag.category = "zone" /\ zr.zone = "" THEN tag.name ELSE zr.zone
           /\ now.region = IF tag.category = "region" /\ zr.region = ""
                           THEN tag.name ELSE zr.region
           /\ now = [zone |-> now.zone, region |-> now.region]
BY DEF ReadTag

(* The loop keeps the first tag of each category. *)
LEMMA LoopReadsFirst ==
    ASSUME NEW tags \in Seq(TagSet), NEW f,
           f = [i \in 0..Len(tags) |->
                  IF i = 0 THEN NoTopology ELSE ReadTag(f[i - 1], tags[i])]
    PROVE  f[Len(tags)] = [zone   |-> FirstTag(tags, "zone"),
                           region |-> FirstTag(tags, "region")]
<1> DEFINE Good(i) == /\ f[i] = [zone |-> f[i].zone, region |-> f[i].region]
                      /\ Reads(tags, "zone", i, f[i].zone)
                      /\ Reads(tags, "region", i, f[i].region)
           A == {i \in 0..Len(tags) : Good(i)}
<1>n. Len(tags) \in Nat
  OBVIOUS
<1>1. 0 \in A
  <2>1. 0 \in 0..Len(tags)
    BY <1>n
  <2>2. f[0] = NoTopology
    BY <2>1
  <2>4. /\ NoTopology.zone = "" /\ NoTopology.region = ""
        /\ NoTopology = [zone |-> NoTopology.zone, region |-> NoTopology.region]
    BY DEF NoTopology
  <2>3. \A j \in 1..Len(tags) : ~ (j <= 0)
    OBVIOUS
  <2> QED
    BY <2>1, <2>2, <2>3, <2>4, Zenon DEF Reads
<1>2. ASSUME NEW i \in 1..Len(tags), i - 1 \in A
      PROVE  i \in A
  <2>1. i \in 0..Len(tags) /\ f[i] = ReadTag(f[i - 1], tags[i])
    BY <1>n
  <2>3. /\ f[i].zone   = IF tags[i].category = "zone" /\ f[i - 1].zone = ""
                         THEN tags[i].name ELSE f[i - 1].zone
        /\ f[i].region = IF tags[i].category = "region" /\ f[i - 1].region = ""
                         THEN tags[i].name ELSE f[i - 1].region
        /\ f[i] = [zone |-> f[i].zone, region |-> f[i].region]
    <3>1. PICK zr, tag, now : zr = f[i - 1] /\ tag = tags[i] /\ now = f[i]
      OBVIOUS
    <3>2. now = ReadTag(zr, tag)
      BY <2>1, <3>1, Zenon
    <3>3. /\ now.zone   = IF tag.category = "zone" /\ zr.zone = "" THEN tag.name ELSE zr.zone
          /\ now.region = IF tag.category = "region" /\ zr.region = ""
                          THEN tag.name ELSE zr.region
          /\ now = [zone |-> now.zone, region |-> now.region]
      BY ONLY <3>2, ReadTagIs, Zenon
    <3> QED
      BY <3>1, <3>3, Zenon
  <2>4. Reads(tags, "zone", i - 1, f[i - 1].zone) /\ Reads(tags, "region", i - 1, f[i - 1].region)
    BY <1>2, Zenon
  <2>5. Reads(tags, "zone", i, f[i].zone)
    BY <2>3, <2>4, ReadsNext, Zenon
  <2>6. Reads(tags, "region", i, f[i].region)
    BY <2>3, <2>4, ReadsNext, Zenon
  <2> QED
    BY <2>1, <2>3, <2>5, <2>6, Zenon
<1>3. Len(tags) \in A
  <2> HIDE DEF A
  <2>1. \A i \in 0..Len(tags) : i \in A
    BY <1>n, <1>1, <1>2, Induction
  <2> QED
    BY <1>n, <2>1
<1>4. Good(Len(tags))
  BY <1>3, Zenon
<1> QED
  BY <1>4, ReadsAll, Zenon
TagLoop(f, tags, path, n) ==
    f = [i \in 0..n |-> IF i = 0 THEN << >> ELSE tags[path[i]] \o f[i - 1]]

(* The loop over the ancestors is well defined. *)
LEMMA TagsExist ==
    ASSUME NEW tags, NEW path, NEW n \in Nat
    PROVE  \E f : TagLoop(f, tags, path, n)
<1> DEFINE A == {m \in 0..n : \E f : f = [i \in 0..m |->
                    IF i = 0 THEN << >> ELSE tags[path[i]] \o f[i - 1]]}
<1>1. 0 \in A
  <2> DEFINE f == [i \in 0..0 |-> << >>]
  <2>1. f = [i \in 0..0 |-> IF i = 0 THEN << >> ELSE tags[path[i]] \o f[i - 1]]
    OBVIOUS
  <2>2. \E h : h = [i \in 0..0 |-> IF i = 0 THEN << >> ELSE tags[path[i]] \o h[i - 1]]
    BY <2>1, Zenon
  <2>3. 0 \in 0..n
    OBVIOUS
  <2> QED
    BY <2>2, <2>3, Zenon
<1>2. ASSUME NEW m \in 1..n, m - 1 \in A
      PROVE  m \in A
  <2>1. PICK f : f = [i \in 0..(m - 1) |-> IF i = 0 THEN << >>
                                          ELSE tags[path[i]] \o f[i - 1]]
    BY <1>2
  <2> DEFINE g == [i \in 0..m |-> IF i = m THEN tags[path[m]] \o f[m - 1] ELSE f[i]]
  <2>2. ASSUME NEW i \in 0..m
        PROVE  g[i] = IF i = 0 THEN << >> ELSE tags[path[i]] \o g[i - 1]
    BY <2>1
  <2>3. g = [i \in 0..m |-> IF i = 0 THEN << >> ELSE tags[path[i]] \o g[i - 1]]
    BY <2>2
  <2>4. \E h : h = [i \in 0..m |-> IF i = 0 THEN << >> ELSE tags[path[i]] \o h[i - 1]]
    <3> HIDE DEF g
    <3> QED
      BY <2>3, Zenon
  <2>5. m \in 0..n
    OBVIOUS
  <2> QED
    BY <2>4, <2>5, Zenon
<1> HIDE DEF A
<1>3. \A i \in 0..n : i \in A
  BY <1>1, <1>2, Induction
<1>4. n \in A
  BY <1>3
<1> QED
  BY <1>4, Zenon DEF A, TagLoop

(* The nearest tag of a category among the first i ancestors of a path.    *)
Near(tags, path, category, i, name) ==
    \/ name = "" /\ \A j \in 1..Len(path) : j <= i => FirstTag(tags[path[j]], category) = ""
    \/ \E k \in 1..Len(path) :
          /\ k <= i /\ name = FirstTag(tags[path[k]], category) /\ name # ""
          /\ \A j \in 1..Len(path) :
                k < j /\ j <= i => FirstTag(tags[path[j]], category) = ""

(* One ancestor more, which is nearer than the ones before. *)
LEMMA NearNext ==
    ASSUME NEW tags, NEW path, NEW category, Len(path) \in Nat, NEW i \in 1..Len(path),
           NEW name, Near(tags, path, category, i - 1, name)
    PROVE  Near(tags, path, category, i,
                IF FirstTag(tags[path[i]], category) # ""
                THEN FirstTag(tags[path[i]], category) ELSE name)
<1> DEFINE F(j) == FirstTag(tags[path[j]], category)
<1>n. /\ i <= i /\ \A j \in 1..Len(path) : j <= i => j <= i - 1 \/ j = i
      /\ \A j \in 1..Len(path) : ~ (i < j /\ j <= i)
      /\ \A k \in 1..Len(path) : k <= i - 1 => k <= i
  OBVIOUS
<1> HIDE DEF F
<1>1. CASE F(i) # ""
  <2>1. \E k \in 1..Len(path) : /\ k <= i /\ F(i) = F(k) /\ F(i) # ""
                                /\ \A j \in 1..Len(path) : k < j /\ j <= i => F(j) = ""
    BY <1>n, <1>1, Zenon
  <2> QED
    BY <1>1, <2>1, Zenon DEF Near, F
<1>2. CASE F(i) = ""
  <2>1. CASE name = "" /\ \A j \in 1..Len(path) : j <= i - 1 => F(j) = ""
    <3>1. \A j \in 1..Len(path) : j <= i => F(j) = ""
      BY <1>n, <1>2, <2>1, Zenon
    <3> QED
      BY <1>2, <2>1, <3>1, Zenon DEF Near, F
  <2>2. CASE \E k \in 1..Len(path) :
               /\ k <= i - 1 /\ name = F(k) /\ name # ""
               /\ \A j \in 1..Len(path) : k < j /\ j <= i - 1 => F(j) = ""
    <3>1. PICK k \in 1..Len(path) :
               /\ k <= i - 1 /\ name = F(k) /\ name # ""
               /\ \A j \in 1..Len(path) : k < j /\ j <= i - 1 => F(j) = ""
      BY <2>2
    <3>2. \A j \in 1..Len(path) : k < j /\ j <= i => F(j) = ""
      BY <1>n, <1>2, <3>1, Zenon
    <3> QED
      BY <1>n, <1>2, <3>1, <3>2, Zenon DEF Near, F
  <2> QED
    BY <2>1, <2>2, Zenon DEF Near, F
<1> QED
  BY <1>1, <1>2, Zenon

(* All ancestors. *)
LEMMA NearAll ==
    ASSUME NEW inv, NEW n, NEW category, NEW S, inv.path[n] \in Seq(S), NEW name,
           Near(inv.tags, inv.path[n], category, Len(inv.path[n]), name)
    PROVE  name = NearestTag(inv, n, category)
<1> DEFINE path   == inv.path[n]
           F(i)   == FirstTag(inv.tags[path[i]], category)
           tagged == {i \in DOMAIN path : F(i) # ""}
<1>n. /\ DOMAIN path = 1..Len(path) /\ Len(path) \in Nat
      /\ \A j \in 1..Len(path) : j <= Len(path)
      /\ \A x, y \in Nat : ~ (x < y) => y <= x
  OBVIOUS
<1> HIDE DEF F, path
<1>1. CASE name = "" /\ \A j \in 1..Len(path) : j <= Len(path) => F(j) = ""
  <2>1. tagged = {}
    BY <1>n, <1>1, Zenon
  <2> QED
    BY <1>1, <2>1, Zenon DEF NearestTag, F, path
<1>2. CASE \E k \in 1..Len(path) :
             /\ k <= Len(path) /\ name = F(k) /\ name # ""
             /\ \A j \in 1..Len(path) : k < j /\ j <= Len(path) => F(j) = ""
  <2>1. PICK k \in 1..Len(path) :
             /\ name = F(k) /\ name # ""
             /\ \A j \in 1..Len(path) : k < j /\ j <= Len(path) => F(j) = ""
    BY <1>2
  <2>2. tagged \subseteq Nat /\ k \in tagged /\ k \in Nat
    <3>1. 1..Len(path) \subseteq Nat
      BY <1>n
    <3> QED
      BY <1>n, <2>1, <3>1, Zenon
  <2>3. ASSUME NEW j \in tagged
        PROVE  j <= k
    <3>1. ~ (k < j)
      BY <1>n, <2>1, <2>3, Zenon
    <3>2. j \in Nat
      BY <2>2, <2>3, Zenon
    <3>3. k \in Nat
      BY <2>2, Zenon
    <3> QED
      BY <1>n, <3>1, <3>2, <3>3, Zenon
  <2>4. Max(tagged) = k
    <3> HIDE DEF tagged
    <3> QED
      BY <2>2, <2>3, MaxIs, Zenon
  <2>5. tagged # {}
    BY <2>2
  <2> QED
    BY <2>1, <2>4, <2>5, Zenon DEF NearestTag, F, path
<1> QED
  BY <1>1, <1>2, Zenon DEF Near, F, path

(* The loop puts the tags of nearer ancestors first. *)
LEMMA UpwardsNearest ==
    ASSUME NEW inv, NEW n, Inventory(inv, n)
    PROVE  /\ TagsUpwards(inv, n) \in Seq(TagSet)
           /\ \A category \in {"zone", "region"} :
                 FirstTag(TagsUpwards(inv, n), category) = NearestTag(inv, n, category)
<1> DEFINE path == inv.path[n]
           from[i \in 0..Len(path)] ==
               IF i = 0 THEN << >> ELSE inv.tags[path[i]] \o from[i - 1]
           Good(i) == /\ from[i] \in Seq(TagSet)
                      /\ \A category \in {"zone", "region"} :
                            Near(inv.tags, path, category, i, FirstTag(from[i], category))
           A == {i \in 0..Len(path) : Good(i)}
<1>n. path \in Seq(DOMAIN inv.tags) /\ Len(path) \in Nat
  BY DEF Inventory
<1>0. from = [i \in 0..Len(path) |->
                IF i = 0 THEN << >> ELSE inv.tags[path[i]] \o from[i - 1]]
  <2>1. \E h : TagLoop(h, inv.tags, path, Len(path))
    BY <1>n, TagsExist, Zenon
  <2> QED
    BY <2>1, Zenon DEF TagLoop
<1>u. TagsUpwards(inv, n) = from[Len(path)]
  BY Zenon DEF TagsUpwards
<1> HIDE DEF from, path
<1>1. 0 \in A
  <2>1. 0 \in 0..Len(path) /\ from[0] = << >>
    BY <1>n, <1>0
  <2>2. << >> \in Seq(TagSet) /\ \A category : Lacks(<< >>, category)
    BY DEF Lacks
  <2>3. \A category : FirstTag(<< >>, category) = ""
    BY <2>2, NoFirstTag, Zenon
  <2>4. \A j \in 1..Len(path) : ~ (j <= 0)
    BY <1>n
  <2> QED
    BY <2>1, <2>2, <2>3, <2>4, Zenon DEF Near
<1>2. ASSUME NEW i \in 1..Len(path), i - 1 \in A
      PROVE  i \in A
  <2>1. i \in 0..Len(path) /\ from[i] = inv.tags[path[i]] \o from[i - 1]
    <3>1. i \in 0..Len(path) /\ i # 0
      BY <1>n
    <3> QED
      BY <1>0, <3>1, Zenon
  <2>2. inv.tags[path[i]] \in Seq(TagSet)
    <3>1. path[i] \in DOMAIN inv.tags
      BY <1>n
    <3> QED
      BY <3>1, Zenon DEF Inventory
  <2>3. from[i - 1] \in Seq(TagSet)
    BY <1>2, Zenon
  <2>4. from[i] \in Seq(TagSet)
    BY <2>1, <2>2, <2>3
  <2>5. ASSUME NEW category \in {"zone", "region"}
        PROVE  Near(inv.tags, path, category, i, FirstTag(from[i], category))
    <3>1. FirstTag(from[i], category) = IF FirstTag(inv.tags[path[i]], category) # ""
                                        THEN FirstTag(inv.tags[path[i]], category)
                                        ELSE FirstTag(from[i - 1], category)
      <4>1. PICK a, b : a = inv.tags[path[i]] /\ b = from[i - 1]
        BY Zenon
      <4>2. a \in Seq(TagSet) /\ b \in Seq(TagSet)
        BY <2>2, <2>3, <4>1, Zenon
      <4>3. FirstTag(a \o b, category) = OrElse(FirstTag(a, category), FirstTag(b, category))
        BY ONLY <4>2, FirstOfBoth, Zenon
      <4> QED
        BY <2>1, <4>1, <4>3, Zenon DEF OrElse
    <3>2. Near(inv.tags, path, category, i - 1, FirstTag(from[i - 1], category))
      BY <1>2, <2>5, Zenon
    <3> QED
      BY <1>n, <3>1, <3>2, NearNext, Zenon
  <2> QED
    BY <2>1, <2>4, <2>5, Zenon
<1>3. Len(path) \in A
  <2> HIDE DEF A
  <2>1. \A i \in 0..Len(path) : i \in A
    BY <1>n, <1>1, <1>2, Induction
  <2> QED
    BY <1>n, <2>1
<1>4. Good(Len(path))
  BY <1>3, Zenon
<1> QED
  BY <1>n, <1>u, <1>4, NearAll, Zenon DEF path

(* virtualmachine.go, GetZoneRegion: the zone and the region of a node VM  *)
(* are the tags nearest to it, whatever else is tagged and however often.  *)
THEOREM ZoneRegionNearest ==
    ASSUME NEW inv, NEW n, Inventory(inv, n)
    PROVE  GetZoneRegion(inv, n) = [zone   |-> NearestTag(inv, n, "zone"),
                                    region |-> NearestTag(inv, n, "region")]
<1> DEFINE tags == TagsUpwards(inv, n)
           read[i \in 0..Len(tags)] ==
               IF i = 0 THEN NoTopology ELSE ReadTag(read[i - 1], tags[i])
<1>1. tags \in Seq(TagSet) /\ Len(tags) \in Nat
  <2>1. tags \in Seq(TagSet)
    BY UpwardsNearest, Zenon
  <2> QED
    BY <2>1
<1>2. read = [i \in 0..Len(tags) |->
                IF i = 0 THEN NoTopology ELSE ReadTag(read[i - 1], tags[i])]
  <2>1. \E h : ReadLoop(h, tags, Len(tags))
    BY <1>1, ReadExists, Zenon
  <2> QED
    BY <2>1, Zenon DEF ReadLoop
<1>3. GetZoneRegion(inv, n) = read[Len(tags)]
  BY Zenon DEF GetZoneRegion
<1> HIDE DEF read
<1>4. read[Len(tags)] = [zone |-> FirstTag(tags, "zone"), region |-> FirstTag(tags, "region")]
  <2> HIDE DEF tags
  <2> QED
    BY <1>1, <1>2, LoopReadsFirst, Zenon
<1> QED
  BY <1>3, <1>4, UpwardsNearest, Zenon
-----------------------------------------------------------------------------
(* GetSharedDatastoresForVMs *)

(* What it should return. *)
Shared(inv, vms) ==
    IF vms = {} THEN Found({})
    ELSE IF Common(inv, vms) = {} THEN Failed ELSE Found(Common(inv, vms))

(* One round of the loop, for the node x. *)
LEMMA IntersectStep ==
    ASSUME NEW inv, NEW vms, NEW x \in vms
    PROVE  Intersect(Shared(inv, vms \ {x}), inv.access[x]) = Shared(inv, vms)
<1> DEFINE rest   == vms \ {x}
           access == inv.access
<1>0. /\ \A ds : Found(ds).ds = ds /\ Found(ds).err = FALSE
      /\ Failed.ds = {} /\ Failed.err = TRUE
  BY DEF Found, Failed
<1>1. vms # {}
  OBVIOUS
<1>2. CASE rest = {}
  <2>1. vms = {x}
    BY <1>2
  <2>2. Common(inv, vms) = access[x]
    BY <2>1, Zenon DEF Common
  <2>3. Shared(inv, rest) = Found({})
    BY <1>2, Zenon DEF Shared
  <2> QED
    BY <1>0, <1>1, <2>2, <2>3, Zenon DEF Shared, Intersect
<1>3. CASE rest # {}
  <2>1. Common(inv, vms) = Common(inv, rest) \cap access[x]
    <3>1. ASSUME NEW d \in Common(inv, vms)
          PROVE  d \in Common(inv, rest) \cap access[x]
      <4>1. \A n \in vms : d \in access[n]
        BY Zenon DEF Common
      <4>2. PICK n : n \in rest
        BY <1>3
      <4>3. d \in UNION {access[m] : m \in rest}
        BY <4>1, <4>2, Zenon
      <4> QED
        BY <4>1, <4>3, Zenon DEF Common
    <3>2. ASSUME NEW d \in Common(inv, rest), d \in access[x]
          PROVE  d \in Common(inv, vms)
      <4>1. \A n \in vms : d \in access[n]
        BY <3>2, Zenon DEF Common
      <4>2. d \in UNION {access[m] : m \in vms}
        BY <3>2, Zenon
      <4> QED
        BY <4>1, <4>2, Zenon DEF Common
    <3> QED
      BY <3>1, <3>2, Zenon
  <2>2. CASE Common(inv, rest) = {}
    <3>1. Common(inv, vms) = {}
      BY <2>1, <2>2, Zenon
    <3>2. Shared(inv, rest) = Failed /\ Shared(inv, vms) = Failed
      BY <1>1, <1>3, <2>2, <3>1, Zenon DEF Shared
    <3> QED
      BY <1>0, <3>2, Zenon DEF Intersect
  <2>3. CASE Common(inv, rest) # {}
    <3>1. Shared(inv, rest) = Found(Common(inv, rest))
      BY <1>3, <2>3, Zenon DEF Shared
    <3>2. Intersect(Found(Common(inv, rest)), access[x]) =
              IF Common(inv, rest) \cap access[x] = {} THEN Failed
              ELSE Found(Common(inv, rest) \cap access[x])
      BY <1>0, <2>3, Zenon DEF Intersect
    <3> QED
      BY <1>1, <2>1, <3>1, <3>2, Zenon DEF Shared
  <2> QED
    BY <2>2, <2>3, Zenon
<1> QED
  BY <1>2, <1>3, Zenon

(* The loop, for every order in which the nodes may come. *)
FoldLoop(f, inv, vms) ==
    f = [s \in SUBSET vms |->
           IF s = {} THEN Found({})
           ELSE Intersect(f[s \ {CHOOSE x \in s : TRUE}], inv.access[CHOOSE x \in s : TRUE])]

LEMMA FoldExists ==
    ASSUME NEW inv, NEW vms
    PROVE  \E f : FoldLoop(f, inv, vms)
<1> DEFINE f == [s \in SUBSET vms |-> Shared(inv, s)]
<1>1. ASSUME NEW s \in SUBSET vms
      PROVE  f[s] = IF s = {} THEN Found({})
                    ELSE Intersect(f[s \ {CHOOSE x \in s : TRUE}],
                                   inv.access[CHOOSE x \in s : TRUE])
  <2>1. CASE s = {}
    BY <2>1, Zenon DEF Shared
  <2>2. CASE s # {}
    <3>1. PICK x : x = CHOOSE y \in s : TRUE
      BY Zenon
    <3>2. x \in s
      BY <2>2, <3>1, Zenon
    <3>3. s \ {x} \in SUBSET vms
      BY Zenon
    <3>4. f[s \ {x}] = Shared(inv, s \ {x}) /\ f[s] = Shared(inv, s)
      BY <3>3, Zenon
    <3> HIDE DEF f
    <3>5. f[s] = Intersect(f[s \ {x}], inv.access[x])
      BY <3>2, <3>4, IntersectStep, Zenon
    <3> QED
      BY <2>2, <3>1, <3>5, Zenon
  <2> QED
    BY <2>1, <2>2, Zenon
<1>2. FoldLoop(f, inv, vms)
  <2>1. f = [s \in SUBSET vms |-> f[s]]
    BY Zenon
  <2> HIDE DEF f
  <2> QED
    BY <1>1, <2>1, Zenon DEF FoldLoop
<1> QED
  BY <1>2, Zenon

LEMMA FoldIsShared ==
    ASSUME NEW inv, NEW vms, IsFiniteSet(vms), NEW f, FoldLoop(f, inv, vms)
    PROVE  f[vms] = Shared(inv, vms)
<1> DEFINE Bad   == {s \in SUBSET vms : f[s] # Shared(inv, s)}
           Sizes == {Cardinality(s) : s \in Bad}
<1> SUFFICES ASSUME Bad # {} PROVE FALSE
  BY Zenon
<1>1. \A s \in SUBSET vms : IsFiniteSet(s) /\ Cardinality(s) \in Nat
  BY FS_Subset, FS_CardinalityType, Zenon
<1>2. PICK s \in Bad : \A t \in Bad : Cardinality(s) <= Cardinality(t)
  <2>1. Sizes \subseteq Nat /\ Sizes # {}
    BY <1>1, Zenon
  <2>2. PICK m \in Sizes : \A k \in Sizes : m <= k
    <3> HIDE DEF Sizes
    <3> QED
      BY <2>1, LeastNat, Zenon
  <2> QED
    BY <2>2, Zenon
<1>3. f[s] = IF s = {} THEN Found({})
             ELSE Intersect(f[s \ {CHOOSE x \in s : TRUE}],
                            inv.access[CHOOSE x \in s : TRUE])
  BY Zenon DEF FoldLoop
<1>4. s # {}
  BY <1>3, Zenon DEF Shared
<1>5. PICK x : x = CHOOSE y \in s : TRUE
  BY Zenon
<1>6. x \in s /\ s \ {x} \in SUBSET vms
  BY <1>4, <1>5, Zenon
<1>7. Cardinality(s \ {x}) = Cardinality(s) - 1 /\ Cardinality(s) \in Nat
  BY <1>1, <1>6, FS_RemoveElement, Zenon
<1>8. ~ (Cardinality(s) <= Cardinality(s \ {x}))
  BY <1>7
<1>9. f[s \ {x}] = Shared(inv, s \ {x})
  BY <1>2, <1>6, <1>8, Zenon
<1>10. f[s] = Intersect(f[s \ {x}], inv.access[x])
  <2> HIDE DEF Bad
  <2> QED
    BY <1>3, <1>4, <1>5, Zenon
<1>11. Intersect(Shared(inv, s \ {x}), inv.access[x]) = Shared(inv, s)
  <2> HIDE DEF Bad
  <2> QED
    BY <1>6, IntersectStep, Zenon
<1>12. f[s] = Shared(inv, s)
  <2> HIDE DEF Bad
  <2> QED
    BY <1>9, <1>10, <1>11, Zenon
<1> QED
  BY <1>12, Zenon

(* nodes.go, getSharedDatastoresForVMs: whatever the order of the nodes,   *)
(* the result is what all of them can access; without a node it is empty,  *)
(* and it is an error if they have no datastore in common.                 *)
THEOREM SharedAreCommon ==
    ASSUME NEW inv, NEW vms, IsFiniteSet(vms)
    PROVE  GetSharedDatastoresForVMs(inv, vms) = Shared(inv, vms)
<1> DEFINE iter[s \in SUBSET vms] ==
               IF s = {} THEN Found({})
               ELSE Intersect(iter[s \ {CHOOSE x \in s : TRUE}],
                              inv.access[CHOOSE x \in s : TRUE])
<1>1. FoldLoop(iter, inv, vms)
  <2>1. \E h : FoldLoop(h, inv, vms)
    BY FoldExists, Zenon
  <2> QED
    BY <2>1, Zenon DEF FoldLoop
<1>2. GetSharedDatastoresForVMs(inv, vms) = iter[vms]
  BY Zenon DEF GetSharedDatastoresForVMs, FoldSet, MapThenFoldSet
<1> QED
  <2> HIDE DEF iter
  <2> QED
    BY <1>1, <1>2, FoldIsShared, Zenon

-----------------------------------------------------------------------------
(* The search per topology. *)

(* A topology selects the nodes whose nearest tags have its segments. *)
LEMMA InZoneRegionIs ==
    ASSUME NEW inv, NEW n, Inventory(inv, n), NEW t \in Topologies
    PROVE  IsInZoneRegion(inv, n, t) <=>
              /\ t # NoTopology
              /\ t.zone \in {"", NearestTag(inv, n, "zone")}
              /\ t.region \in {"", NearestTag(inv, n, "region")}
<1> DEFINE vm == GetZoneRegion(inv, n)
           z  == NearestTag(inv, n, "zone")
           r  == NearestTag(inv, n, "region")
<1>1. vm = [zone |-> z, region |-> r]
  BY ZoneRegionNearest, Zenon
<1>2. t = [zone |-> t.zone, region |-> t.region]
  BY DEF Topologies
<1>3. IsInZoneRegion(inv, n, t) <=>
          \/ t.region = "" /\ t.zone # "" /\ vm.zone = t.zone
          \/ t.zone = "" /\ t.region # "" /\ vm.region = t.region
          \/ vm.zone # "" /\ vm.region # "" /\ vm = t
  BY Zenon DEF IsInZoneRegion
<1> HIDE DEF vm, z, r
<1>4. vm.zone = z /\ vm.region = r /\ (vm = t <=> z = t.zone /\ r = t.region)
  BY <1>1, <1>2
<1>5. t = NoTopology <=> t.zone = "" /\ t.region = ""
  <2>1. NoTopology.zone = "" /\ NoTopology.region = ""
    BY DEF NoTopology
  <2> QED
    BY <1>2, <2>1, Zenon DEF NoTopology
<1>6. IsInZoneRegion(inv, n, t) <=>
          /\ t # NoTopology /\ t.zone \in {"", z} /\ t.region \in {"", r}
  BY <1>3, <1>4, <1>5, Zenon
<1> QED
  BY <1>6, Zenon DEF z, r

(* A node whose labels satisfy a topology is one that the topology selects. *)
LEMMA MatchesSelects ==
    ASSUME NEW inv, NEW n, Inventory(inv, n), NEW t \in Topologies, t # NoTopology,
           Matches(NodeLabels(inv, n), t)
    PROVE  IsInZoneRegion(inv, n, t)
<1> DEFINE vm == GetZoneRegion(inv, n)
           l  == NodeLabels(inv, n)
<1>1. /\ vm.zone = NearestTag(inv, n, "zone")
      /\ vm.region = NearestTag(inv, n, "region")
  BY ZoneRegionNearest
<1>2. l = vm \/ (l.zone = "" /\ l.region = "")
  BY DEF NodeLabels, NoTopology
<1>3. t.zone \in {"", l.zone} /\ t.region \in {"", l.region}
  BY Zenon DEF Matches
<1> HIDE DEF vm, l
<1>4. t.zone \in {"", vm.zone} /\ t.region \in {"", vm.region}
  BY <1>2, <1>3, Zenon
<1> QED
  BY <1>1, <1>4, InZoneRegionIs, Zenon

(* What the nodes that a topology selects can all access. *)
CommonIn(inv, nodes, t) == Common(inv, getNodesInZoneRegion(inv, nodes, t))

(* The result r of a search for the topologies arr: the datastores that    *)
(* all nodes of one of the topologies can access, and for each of them the *)
(* topologies with which this is so.  The nodes of every topology that has *)
(* any have a datastore in common.                                         *)
PerTopology(r, inv, nodes, arr) ==
    /\ r.ds = UNION {CommonIn(inv, nodes, t) : t \in Range(arr)}
    /\ DOMAIN r.map = r.ds
    /\ \A d \in r.ds : r.map[d] = {t \in Range(arr) : d \in CommonIn(inv, nodes, t)}
    /\ \A t \in Range(arr) :
          getNodesInZoneRegion(inv, nodes, t) # {} => CommonIn(inv, nodes, t) # {}

(* nodes.go, getSharedDatastoresInTopology: if it does not fail, its result *)
(* is that of the definition above.                                         *)
THEOREM SharedPerTopology ==
    ASSUME NEW inv, NEW nodes, IsFiniteSet(nodes), NEW arr,
           ~ getSharedDatastoresInTopology(inv, nodes, arr).err
    PROVE  PerTopology(getSharedDatastoresInTopology(inv, nodes, arr), inv, nodes, arr)
<1> DEFINE In(t) == getNodesInZoneRegion(inv, nodes, t)
           T == Range(arr)
           shared == [t \in T |-> GetSharedDatastoresForVMs(inv, In(t))]
           ds == UNION {shared[t].ds : t \in DOMAIN shared}
           map == [d \in ds |-> {t \in DOMAIN shared : d \in shared[t].ds}]
           r == getSharedDatastoresInTopology(inv, nodes, arr)
<1>1. r = IF \E t \in DOMAIN shared : shared[t].err
          THEN With(Failed, << >>) ELSE With(Found(ds), map)
  BY Zenon DEF getSharedDatastoresInTopology
<1>2. /\ With(Failed, << >>).err = TRUE
      /\ \A D, M : With(Found(D), M).ds = D /\ With(Found(D), M).map = M
  BY DEF With, Failed, Found
<1>3. /\ Failed.err = TRUE /\ \A D : Found(D).ds = D
  BY DEF Failed, Found
<1>4. ~ \E t \in DOMAIN shared : shared[t].err
  BY <1>1, <1>2, Zenon
<1>5. r.ds = ds /\ r.map = map
  <2> HIDE DEF ds, map, shared
  <2>1. r = With(Found(ds), map)
    BY <1>1, <1>4, Zenon
  <2>2. With(Found(ds), map).ds = ds /\ With(Found(ds), map).map = map
    BY <1>2, Zenon
  <2> HIDE DEF r
  <2> QED
    BY <2>1, <2>2, Zenon
<1>6. ASSUME NEW t \in T
      PROVE  /\ shared[t].ds = CommonIn(inv, nodes, t)
             /\ In(t) # {} => CommonIn(inv, nodes, t) # {}
  <2>1. IsFiniteSet(In(t))
    BY FS_Subset, Zenon DEF getNodesInZoneRegion
  <2>2. shared[t] = Shared(inv, In(t))
    BY <2>1, SharedAreCommon, Zenon
  <2>3. ~ Shared(inv, In(t)).err
    BY <1>4, <2>2, Zenon
  <2>4. CASE In(t) = {}
    <3>1. Common(inv, {}) = {}
      BY Zenon DEF Common
    <3> QED
      BY <1>3, <2>2, <2>4, <3>1, Zenon DEF Shared, CommonIn
  <2>5. CASE In(t) # {}
    <3>1. Common(inv, In(t)) # {}
      BY <1>3, <2>3, <2>5, Zenon DEF Shared
    <3> QED
      BY <1>3, <2>2, <2>5, <3>1, Zenon DEF Shared, CommonIn
  <2> QED
    BY <2>4, <2>5, Zenon
<1>7. ds = UNION {CommonIn(inv, nodes, t) : t \in T}
  BY <1>6, Zenon
<1>8. \A d : {t \in DOMAIN shared : d \in shared[t].ds} = {t \in T : d \in CommonIn(inv, nodes, t)}
  BY <1>6, Zenon
<1>9. /\ DOMAIN map = ds
      /\ \A d \in ds : map[d] = {t \in T : d \in CommonIn(inv, nodes, t)}
  BY <1>8, Zenon
<1>10. \A t \in T : In(t) # {} => CommonIn(inv, nodes, t) # {}
  BY <1>6, Zenon
<1>11. /\ r.ds = UNION {CommonIn(inv, nodes, t) : t \in T} /\ DOMAIN r.map = r.ds
       /\ \A d \in r.ds : r.map[d] = {t \in T : d \in CommonIn(inv, nodes, t)}
  <2> HIDE DEF r, ds, map
  <2> QED
    BY <1>5, <1>7, <1>9, Zenon
<1> QED
  <2> HIDE DEF r
  <2>1. PerTopology(r, inv, nodes, arr)
    BY <1>10, <1>11, Zenon DEF PerTopology
  <2> QED
    BY <2>1, Zenon DEF r

(* A volume on a datastore found for a topology can be used wherever the   *)
(* topology lets a pod run.                                                *)
LEMMA ServesMatching ==
    ASSUME NEW inv, NEW nodes, NEW n \in nodes, Inventory(inv, n), NEW t \in Topologies,
           NEW d \in CommonIn(inv, nodes, t), Matches(NodeLabels(inv, n), t)
    PROVE  d \in inv.access[n]
<1>2. t # NoTopology
  <2> SUFFICES ASSUME t = NoTopology PROVE FALSE
    BY Zenon
  <2>1. \A m : ~ IsInZoneRegion(inv, m, NoTopology)
    <3>1. NoTopology.zone = "" /\ NoTopology.region = ""
      BY DEF NoTopology
    <3> QED
      BY <3>1, Zenon DEF IsInZoneRegion
  <2> QED
    BY <2>1, Zenon DEF CommonIn, Common, getNodesInZoneRegion
<1>3. IsInZoneRegion(inv, n, t)
  BY <1>2, MatchesSelects, Zenon
<1> QED
  BY <1>3, Zenon DEF CommonIn, Common, getNodesInZoneRegion
===============================================================================
