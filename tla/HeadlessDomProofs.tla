-------------------------- MODULE HeadlessDomProofs --------------------------
(***************************************************************************)
(* Proofs about HeadlessDom, for any elements, fragments, texts, callbacks *)
(* and any number of edits: the two directions of the tree agree whatever  *)
(* is put, moved, replaced and removed; the calls for an event keep to the *)
(* path it had when it began; and every listener on it is called once.     *)
(*                                                                         *)
(* The tree's invariant, TreeInv, adds that it is rooted: what is computed *)
(* by going up from a node is only known of a tree where every way up      *)
(* ends.  The dispatch's, Dispatching, says how far the visits that were   *)
(* planned when the event began have been made.                            *)
(***************************************************************************)
EXTENDS HeadlessDom, FiniteSetTheorems, SequenceTheorems, WellFoundedInduction,
        TLAPS

-----------------------------------------------------------------------------
(* The elements of a sequence at some of its positions.  The modules that  *)
(* use Pick repeat these lemmas: none of them extends another.             *)

(* A set of natural numbers that is not empty has a smallest member.       *)
LEMMA SmallestOf ==
  ASSUME NEW T \in SUBSET Nat, T # {}
  PROVE  \E t \in T : \A u \in T : t <= u
<1> DEFINE Less == {p \in Nat \X Nat : p[1] < p[2]}
<1>1. IsWellFoundedOn(Less, Nat)
  BY NatLessThanWellFounded DEF OpToRel
<1>2. PICK t \in T : \A u \in T : ~ (<<u, t>> \in Less)
  <2> HIDE DEF Less
  <2> QED BY <1>1, WFMin
<1>3. ASSUME NEW u \in T PROVE t <= u
  <2>1. t \in Nat /\ u \in Nat
    OBVIOUS
  <2>2. <<u, t>> \notin Less
    BY <1>2
  <2>3. ~ (u < t)
    BY <2>1, <2>2
  <2> QED BY <2>1, <2>3
<1> QED BY <1>3

(* Positions can be enumerated in increasing order: the last one after the *)
(* others.                                                                 *)
LEMMA EnumerationFacts ==
  ASSUME NEW N \in Nat, NEW I \in SUBSET (1..N)
  PROVE  /\ Cardinality(I) \in 0..N
         /\ Enumeration(I) \in [1..Cardinality(I) -> I] /\ Increasing(Enumeration(I))
         /\ \A i \in I : \E n \in 1..Cardinality(I) : Enumeration(I)[n] = i
<1> DEFINE Listed(J) == \E at \in [1..Cardinality(J) -> J] : Increasing(at)
           Bad == {k \in Nat : \E J \in SUBSET (1..k) : ~Listed(J)}
<1>1. ASSUME NEW k \in Nat, NEW J \in SUBSET (1..k)
      PROVE  IsFiniteSet(J) /\ Cardinality(J) \in 0..k
  <2>1. IsFiniteSet(1..k) /\ Cardinality(1..k) = k
    BY FS_Interval
  <2>2. IsFiniteSet(J) /\ Cardinality(J) <= k
    BY <2>1, FS_Subset
  <2> QED BY <2>2, FS_CardinalityType
<1>2. Bad = {}
  <2>1. SUFFICES ASSUME Bad # {} PROVE FALSE
    OBVIOUS
  <2>2. PICK k \in Bad : \A m \in Bad : k <= m
    <3> HIDE DEF Bad
    <3>1. Bad \in SUBSET Nat
      BY DEF Bad
    <3> QED BY <2>1, <3>1, SmallestOf
  <2>3. PICK J \in SUBSET (1..k) : ~Listed(J)
    OBVIOUS
  <2>4. k \in Nat /\ k # 0
    <3>1. CASE k = 0
      <4>1. J = {}
        BY <3>1
      <4>2. Cardinality(J) = 0
        BY <4>1, FS_EmptySet
      <4>3. <<>> \in [1..Cardinality(J) -> J] /\ Increasing(<<>>)
        BY <4>2 DEF Increasing
      <4> QED BY <2>3, <4>3
    <3> QED BY <3>1
  <2>5. \A K \in SUBSET (1..(k - 1)) : Listed(K)
    <3>1. k - 1 \in Nat /\ k - 1 \notin Bad
      <4> HIDE DEF Bad
      <4> QED BY <2>2, <2>4
    <3> QED BY <3>1
  <2> HIDE DEF Bad, Listed
  <2>6. k \in J
    BY <2>3, <2>4, <2>5
  <2> DEFINE K == J \ {k}
             c == Cardinality(K)
  <2>7. K \in SUBSET (1..(k - 1))
    BY <2>4
  <2>8. c \in Nat /\ Cardinality(J) = c + 1
    <3>1. IsFiniteSet(J) /\ IsFiniteSet(K)
      BY <1>1, <2>4, <2>7
    <3>2. Cardinality(J) \in Nat /\ c = Cardinality(J) - 1 /\ c \in Nat
      BY <2>6, <3>1, FS_RemoveElement, FS_CardinalityType
    <3> QED BY <3>2
  <2>9. PICK at \in [1..c -> K] : Increasing(at)
    BY <2>5, <2>7 DEF Listed
  <2> DEFINE next == [n \in 1..(c + 1) |-> IF n = c + 1 THEN k ELSE at[n]]
  <2> HIDE DEF c
  <2>10. next \in [1..(c + 1) -> J]
    BY <2>6, <2>8
  <2>11. Increasing(next)
    <3>1. \A n \in 1..c : at[n] \in 1..(k - 1)
      BY <2>7
    <3>2. ASSUME NEW m \in 1..(c + 1), NEW n \in 1..(c + 1), m < n
          PROVE  next[m] < next[n]
      <4>1. m \in 1..c /\ next[m] = at[m]
        BY <2>8, <3>2
      <4>2. CASE n = c + 1
        BY <2>4, <3>1, <4>1, <4>2
      <4>3. CASE n # c + 1
        BY <2>8, <2>9, <3>2, <4>1, <4>3 DEF Increasing
      <4> QED BY <4>2, <4>3
    <3> QED BY <3>2 DEF Increasing
  <2> HIDE DEF next
  <2> QED BY <2>3, <2>8, <2>10, <2>11 DEF Listed
<1> DEFINE at == Enumeration(I)
<1>3. at \in [1..Cardinality(I) -> I] /\ Increasing(at)
  <2>1. Listed(I)
    BY <1>2
  <2> QED BY <2>1 DEF Enumeration
<1>4. IsFiniteSet(I) /\ Cardinality(I) \in 0..N
  BY <1>1
<1> HIDE DEF at
<1>5. at \in Surjection(1..Cardinality(I), I)
  <2>1. ASSUME NEW m \in 1..Cardinality(I), NEW n \in 1..Cardinality(I), at[m] = at[n]
        PROVE  m = n
    <3>1. at[m] \in 1..N /\ at[n] \in 1..N
      BY <1>3
    <3>2. ~(m < n) /\ ~(n < m)
      BY <1>3, <2>1, <3>1 DEF Increasing
    <3> QED BY <1>4, <3>2
  <2>2. at \in Injection(1..Cardinality(I), I)
    BY <1>3, <2>1 DEF Injection, IsInjective
  <2>3. Cardinality(1..Cardinality(I)) = Cardinality(I)
    BY <1>4, FS_Interval
  <2> QED BY <1>4, <2>2, <2>3, FS_Injection
<1> QED BY <1>3, <1>4, <1>5 DEF Surjection, at

(* The elements of p stand in q at the positions I, where at places them.  *)
Places(at, p, q, I) ==
  /\ at \in [1..Len(p) -> 1..Len(q)]
  /\ \A n \in 1..Len(p) : p[n] = q[at[n]] /\ at[n] \in I
  /\ \A m, n \in 1..Len(p) : m < n => at[m] < at[n]
  /\ \A i \in I : \E n \in 1..Len(p) : at[n] = i

(* What Pick returns: a sequence of elements of q, placed by an increasing *)
(* map whose values are exactly the positions picked.                      *)
LEMMA PickFacts ==
  ASSUME NEW S, NEW q \in Seq(S), NEW I \in SUBSET DOMAIN q
  PROVE  /\ Pick(q, I) \in Seq(S)
         /\ Len(Pick(q, I)) \in 0..Len(q)
         /\ \E at : Places(at, Pick(q, I), q, I)
<1> DEFINE c == Cardinality(I)
           at == Enumeration(I)
<1>1. Len(q) \in Nat /\ I \in SUBSET (1..Len(q)) /\ \A i \in 1..Len(q) : q[i] \in S
  BY LenProperties, ElementOfSeq
<1>2. /\ c \in 0..Len(q) /\ at \in [1..c -> I] /\ Increasing(at)
      /\ \A i \in I : \E n \in 1..c : at[n] = i
  BY <1>1, EnumerationFacts
<1>3. Pick(q, I) = [n \in DOMAIN at |-> q[at[n]]]
  BY DEF Pick
<1> HIDE DEF c, at
<1>4. Pick(q, I) \in [1..c -> S] /\ \A n \in 1..c : Pick(q, I)[n] = q[at[n]]
  BY <1>1, <1>2, <1>3
<1>5. Pick(q, I) \in Seq(S) /\ Len(Pick(q, I)) = c
  BY <1>2, <1>4
<1>6. Places(at, Pick(q, I), q, I)
  BY <1>1, <1>2, <1>4, <1>5 DEF Places, Increasing
<1> QED BY <1>2, <1>5, <1>6

-----------------------------------------------------------------------------
(* The inductive invariant.                                                *)

Trees == [parent : [Node -> Inner \cup {None}], children : [Node -> Seq(Node)]]

Holds(s, e) == \E i \in DOMAIN s : s[i] = e

(* A node is a child of its parent, once, and of no one else.              *)
Sound(t) ==
  /\ \A p \in Node : Distinct(t.children[p])
  /\ \A p \in Node, n \in Node : Holds(t.children[p], n) <=> t.parent[n] = p

(* No node is above itself, and every way up ends.                         *)
Rooted(t) ==
  \E K \in Nat : \E depth \in [Node -> 0..K] :
    \A n \in Node : t.parent[n] # None => depth[t.parent[n]] < depth[n]

WellFormed(t) == t \in Trees /\ Sound(t) /\ Rooted(t) /\ t.parent[Document] = None

TreeInv == WellFormed(tree) /\ active \in Element \cup {None}

-----------------------------------------------------------------------------
(* The three ways to change a list of children.                            *)

LEMMA RemovedFacts ==
  ASSUME NEW S, NEW s \in Seq(S), Distinct(s), NEW e, Holds(s, e)
  PROVE  /\ RemoveFirst(s, e) \in Seq(S)
         /\ Distinct(RemoveFirst(s, e))
         /\ \A x : Holds(RemoveFirst(s, e), x) <=> Holds(s, x) /\ x # e
<1>1. Len(s) \in Nat /\ DOMAIN s = 1..Len(s) /\ \A i \in 1..Len(s) : s[i] \in S
  BY LenProperties, ElementOfSeq
<1>2. PICK k \in 1..Len(s) : s[k] = e
  BY <1>1 DEF Holds
<1>3. SelectInSeq(s, LAMBDA v : v = e) = k
  <2>1. {i \in 1..Len(s) : s[i] = e} = {k}
    BY <1>1, <1>2 DEF Distinct
  <2>2. Min({k}) = k
    BY <1>1 DEF Min
  <2> QED BY <2>1, <2>2 DEF SelectInSeq
<1> DEFINE r == [i \in 1..(Len(s) - 1) |-> IF i < k THEN s[i] ELSE s[i + 1]]
<1>4. RemoveFirst(s, e) = SubSeq(s, 1, k - 1) \o SubSeq(s, k + 1, Len(s))
  BY <1>2, <1>3 DEF RemoveFirst, RemoveAt
<1>6. r \in Seq(S) /\ DOMAIN r = 1..(Len(s) - 1) /\ Len(r) = Len(s) - 1
  BY <1>1
<1>5. SubSeq(s, 1, k - 1) \o SubSeq(s, k + 1, Len(s)) = r
  <2> DEFINE a == SubSeq(s, 1, k - 1)
             b == SubSeq(s, k + 1, Len(s))
  <2>1. a \in Seq(S) /\ Len(a) = k - 1 /\ \A i \in 1..(k - 1) : a[i] = s[i]
    BY <1>1, SubSeqProperties
  <2>2. /\ b \in Seq(S) /\ Len(b) = Len(s) - k
        /\ \A i \in 1..(Len(s) - k) : b[i] = s[k + 1 + i - 1]
    <3> HIDE DEF r
    <3>1. k \in Int /\ k >= 1 /\ k <= Len(s) /\ Len(s) \in Int
      BY <1>1
    <3>2. \A i \in (k + 1)..Len(s) : s[i] \in S
      BY <1>1, <3>1
    <3>3. /\ b \in Seq(S)
          /\ Len(b) = IF k + 1 <= Len(s) THEN Len(s) - (k + 1) + 1 ELSE 0
          /\ \A i \in 1..(Len(s) - (k + 1) + 1) : b[i] = s[k + 1 + i - 1]
      BY <3>1, <3>2, SubSeqProperties
    <3>4. Len(s) - (k + 1) + 1 = Len(s) - k
      BY <3>1
    <3> HIDE DEF b
    <3>5. Len(b) = Len(s) - k
      BY <3>1, <3>3
    <3>6. \A i \in 1..(Len(s) - k) : b[i] = s[k + 1 + i - 1]
      BY <3>3, <3>4
    <3> QED BY <3>3, <3>5, <3>6
  <2> HIDE DEF a, b
  <2>3. /\ a \o b \in Seq(S) /\ Len(a \o b) = Len(s) - 1
        /\ \A i \in 1..(Len(s) - 1) :
             (a \o b)[i] = IF i <= k - 1 THEN a[i] ELSE b[i - (k - 1)]
    <3>1. Len(a) + Len(b) = Len(s) - 1
      BY <1>1, <2>1, <2>2
    <3>2. /\ a \o b \in Seq(S) /\ Len(a \o b) = Len(a) + Len(b)
          /\ \A i \in 1..(Len(a) + Len(b)) :
               (a \o b)[i] = IF i <= Len(a) THEN a[i] ELSE b[i - Len(a)]
      BY <2>1, <2>2, ConcatProperties
    <3> HIDE DEF r
    <3> QED BY <2>1, <3>1, <3>2
  <2>4. ASSUME NEW i \in 1..(Len(s) - 1) PROVE (a \o b)[i] = r[i]
    <3>1. CASE i <= k - 1
      BY <1>1, <2>1, <2>3, <3>1
    <3>2. CASE ~(i <= k - 1)
      <4>1. i - (k - 1) \in 1..(Len(s) - k) /\ k + 1 + (i - (k - 1)) - 1 = i + 1
        BY <1>1, <3>2
      <4> QED BY <1>1, <2>2, <2>3, <3>2, <4>1
    <3> QED BY <3>1, <3>2
  <2>5. a \o b = r
    <3> HIDE DEF r
    <3> QED BY <1>6, <2>3, <2>4, SeqEqual
  <2> QED BY <2>5 DEF a, b
<1>7. Distinct(r)
  BY <1>1, <1>6 DEF Distinct
<1>8. ASSUME NEW x PROVE Holds(r, x) <=> Holds(s, x) /\ x # e
  <2>1. ASSUME Holds(r, x) PROVE Holds(s, x) /\ x # e
    BY <1>1, <1>2, <1>6, <2>1 DEF Holds, Distinct
  <2>2. ASSUME Holds(s, x), x # e PROVE Holds(r, x)
    <3>1. PICK i \in 1..Len(s) : s[i] = x
      BY <1>1, <2>2 DEF Holds
    <3>2. CASE i < k
      BY <1>1, <1>2, <1>6, <3>1, <3>2 DEF Holds
    <3>3. CASE i > k
      <4>1. i - 1 \in 1..(Len(s) - 1) /\ ~(i - 1 < k) /\ i - 1 + 1 = i
        BY <1>1, <3>3
      <4>2. r[i - 1] = x
        BY <4>1, <3>1
      <4> QED BY <4>1, <4>2, <1>6 DEF Holds
    <3>4. i # k
      BY <1>2, <3>1, <2>2
    <3> QED BY <1>1, <3>2, <3>3, <3>4
  <2> QED BY <2>1, <2>2
<1> HIDE DEF r
<1> QED BY <1>4, <1>5, <1>6, <1>7, <1>8

LEMMA InsertedFacts ==
  ASSUME NEW S, NEW s \in Seq(S), Distinct(s), NEW e \in S, ~Holds(s, e),
         NEW k \in 1..(Len(s) + 1)
  PROVE  /\ InsertAt(s, k, e) \in Seq(S)
         /\ Distinct(InsertAt(s, k, e))
         /\ \A x : Holds(InsertAt(s, k, e), x) <=> Holds(s, x) \/ x = e
<1>1. Len(s) \in Nat /\ DOMAIN s = 1..Len(s) /\ \A i \in 1..Len(s) : s[i] \in S
  BY LenProperties, ElementOfSeq
<1> DEFINE r == [i \in 1..(Len(s) + 1) |->
                   IF i < k THEN s[i] ELSE IF i = k THEN e ELSE s[i - 1]]
<1>3. r \in Seq(S) /\ DOMAIN r = 1..(Len(s) + 1) /\ Len(r) = Len(s) + 1
  BY <1>1
<1>2. InsertAt(s, k, e) = r
  <2> DEFINE a == SubSeq(s, 1, k - 1)
             b == SubSeq(s, k, Len(s))
             m == a \o <<e>>
  <2>1. a \in Seq(S) /\ Len(a) = k - 1 /\ \A i \in 1..(k - 1) : a[i] = s[i]
    BY <1>1, SubSeqProperties
  <2>2. /\ b \in Seq(S) /\ Len(b) = Len(s) - k + 1
        /\ \A i \in 1..(Len(s) - k + 1) : b[i] = s[k + i - 1]
    BY <1>1, SubSeqProperties
  <2> HIDE DEF a, b
  <2>3. /\ m \in Seq(S) /\ Len(m) = k
        /\ \A i \in 1..k : m[i] = IF i <= k - 1 THEN a[i] ELSE <<e>>[i - (k - 1)]
    <3>1. <<e>> \in Seq(S) /\ Len(<<e>>) = 1
      OBVIOUS
    <3> QED BY <1>1, <2>1, <3>1, ConcatProperties
  <2> HIDE DEF m
  <2>4. /\ m \o b \in Seq(S) /\ Len(m \o b) = Len(s) + 1
        /\ \A i \in 1..(Len(s) + 1) : (m \o b)[i] = IF i <= k THEN m[i] ELSE b[i - k]
    <3>1. Len(m) + Len(b) = Len(s) + 1
      BY <1>1, <2>2, <2>3
    <3>2. /\ m \o b \in Seq(S) /\ Len(m \o b) = Len(m) + Len(b)
          /\ \A i \in 1..(Len(m) + Len(b)) :
               (m \o b)[i] = IF i <= Len(m) THEN m[i] ELSE b[i - Len(m)]
      BY <2>2, <2>3, ConcatProperties
    <3> HIDE DEF r
    <3> QED BY <2>3, <3>1, <3>2
  <2>5. ASSUME NEW i \in 1..(Len(s) + 1) PROVE (m \o b)[i] = r[i]
    <3>1. CASE i < k
      BY <1>1, <2>1, <2>3, <2>4, <3>1
    <3>2. CASE i = k
      BY <1>1, <2>3, <2>4, <3>2
    <3>3. CASE i > k
      <4>1. i - k \in 1..(Len(s) - k + 1) /\ k + (i - k) - 1 = i - 1
        BY <1>1, <3>3
      <4> QED BY <1>1, <2>2, <2>4, <3>3, <4>1
    <3>4. i < k \/ i = k \/ i > k
      BY <1>1
    <3> QED BY <3>1, <3>2, <3>3, <3>4
  <2>6. m \o b = r
    <3> HIDE DEF r
    <3> QED BY <1>3, <2>4, <2>5, SeqEqual
  <2> QED BY <2>6 DEF a, b, m, InsertAt
<1>4. \A i \in 1..Len(s) : s[i] # e
  BY <1>1 DEF Holds
<1>5. Distinct(r)
  <2>1. SUFFICES ASSUME NEW i \in 1..(Len(s) + 1), NEW j \in 1..(Len(s) + 1), i < j
                 PROVE  r[i] # r[j]
    <3>1. ASSUME NEW i \in 1..(Len(s) + 1), NEW j \in 1..(Len(s) + 1), r[i] = r[j]
          PROVE  i = j
      <4> HIDE DEF r
      <4> QED BY <1>1, <2>1, <3>1
    <3> HIDE DEF r
    <3> QED BY <1>3, <3>1 DEF Distinct
  <2>2. \A a, b \in 1..Len(s) : a # b => s[a] # s[b]
    BY <1>1 DEF Distinct
  <2>3. CASE i = k \/ j = k
    BY <1>1, <1>4, <2>1, <2>3
  <2>4. CASE i # k /\ j # k
    BY <1>1, <2>1, <2>2, <2>4
  <2> QED BY <2>3, <2>4
<1>6. ASSUME NEW x PROVE Holds(r, x) <=> Holds(s, x) \/ x = e
  <2>1. ASSUME Holds(r, x) PROVE Holds(s, x) \/ x = e
    BY <1>1, <1>3, <2>1 DEF Holds
  <2>2. ASSUME Holds(s, x) PROVE Holds(r, x)
    <3>1. PICK i \in 1..Len(s) : s[i] = x
      BY <1>1, <2>2 DEF Holds
    <3>2. CASE i < k
      <4>1. r[i] = x /\ i \in DOMAIN r
        BY <1>1, <1>3, <3>1, <3>2
      <4> QED BY <4>1 DEF Holds
    <3>3. CASE i >= k
      <4>1. i + 1 \in 1..(Len(s) + 1) /\ ~(i + 1 < k) /\ i + 1 # k /\ i + 1 - 1 = i
        BY <1>1, <3>3
      <4>2. r[i + 1] = x
        BY <4>1, <3>1
      <4> QED BY <4>1, <4>2, <1>3 DEF Holds
    <3> QED BY <1>1, <3>2, <3>3
  <2>3. ASSUME x = e PROVE Holds(r, x)
    <3>1. r[k] = e /\ k \in DOMAIN r
      BY <1>1, <1>3
    <3> QED BY <3>1, <2>3 DEF Holds
  <2> QED BY <2>1, <2>2, <2>3
<1> HIDE DEF r
<1> QED BY <1>2, <1>3, <1>5, <1>6

LEMMA ReplacedFacts ==
  ASSUME NEW S, NEW s \in Seq(S), Distinct(s), NEW e \in S, ~Holds(s, e),
         NEW k \in 1..Len(s)
  PROVE  /\ ReplaceAt(s, k, e) \in Seq(S)
         /\ Distinct(ReplaceAt(s, k, e))
         /\ \A x : Holds(ReplaceAt(s, k, e), x) <=> (Holds(s, x) /\ x # s[k]) \/ x = e
<1>1. Len(s) \in Nat /\ DOMAIN s = 1..Len(s) /\ \A i \in 1..Len(s) : s[i] \in S
  BY LenProperties, ElementOfSeq
<1> DEFINE r == [i \in 1..Len(s) |-> IF i = k THEN e ELSE s[i]]
<1>2. ReplaceAt(s, k, e) = r
  BY <1>1 DEF ReplaceAt
<1>3. r \in Seq(S) /\ DOMAIN r = 1..Len(s)
  BY <1>1
<1>4. \A i \in 1..Len(s) : s[i] # e
  BY <1>1 DEF Holds
<1>5. Distinct(r)
  BY <1>1, <1>3, <1>4 DEF Distinct
<1>6. ASSUME NEW x PROVE Holds(r, x) <=> (Holds(s, x) /\ x # s[k]) \/ x = e
  <2>1. ASSUME Holds(r, x) PROVE (Holds(s, x) /\ x # s[k]) \/ x = e
    BY <1>1, <1>3, <2>1 DEF Holds, Distinct
  <2>2. ASSUME Holds(s, x), x # s[k] PROVE Holds(r, x)
    BY <1>1, <1>3, <2>2 DEF Holds
  <2>3. ASSUME x = e PROVE Holds(r, x)
    BY <1>1, <1>3, <2>3 DEF Holds
  <2> QED BY <2>1, <2>2, <2>3
<1> HIDE DEF r
<1> QED BY <1>2, <1>3, <1>5, <1>6

(* The place of an element in a list.                                      *)
LEMMA IndexFacts ==
  ASSUME NEW S, NEW s \in Seq(S), NEW e
  PROVE  /\ IndexOf(s, e) \in 0..Len(s)
         /\ Holds(s, e) => IndexOf(s, e) \in 1..Len(s) /\ s[IndexOf(s, e)] = e
<1>1. Len(s) \in Nat /\ DOMAIN s = 1..Len(s)
  BY LenProperties
<1> DEFINE I == {i \in 1..Len(s) : s[i] = e}
<1>2. IndexOf(s, e) = IF I # {} THEN Min(I) ELSE 0
  BY DEF IndexOf, SelectInSeq
<1>3. ASSUME I # {} PROVE Min(I) \in I
  <2>1. I \in SUBSET Nat
    BY <1>1
  <2>2. PICK m \in I : \A i \in I : m <= i
    <3> HIDE DEF I
    <3> QED BY <1>3, <2>1, SmallestOf
  <2> QED BY <2>2 DEF Min
<1>4. Holds(s, e) => I # {}
  BY <1>1 DEF Holds
<1> QED BY <1>1, <1>2, <1>3, <1>4

LEMMA NodeFacts == None \notin Node /\ Inner \subseteq Node /\ Text \cap Inner = {}
  BY NodeAssumption DEF Target, Node

LEMMA TreeFacts ==
  ASSUME NEW t \in Trees
  PROVE  /\ t = [parent |-> t.parent, children |-> t.children]
         /\ t.parent \in [Node -> Inner \cup {None}]
         /\ t.children \in [Node -> Seq(Node)]
  BY DEF Trees

-----------------------------------------------------------------------------
(* The way up from a node.                                                 *)

(* Induction from the top: among some nodes is one whose parent is not.    *)
LEMMA Topmost ==
  ASSUME NEW t \in Trees, Rooted(t), NEW B \in SUBSET Node, B # {}
  PROVE  \E n \in B : t.parent[n] \notin B
<1>0. PICK K \in Nat : \E d \in [Node -> 0..K] :
        \A n \in Node : t.parent[n] # None => d[t.parent[n]] < d[n]
  BY DEF Rooted
<1>1. PICK depth \in [Node -> 0..K] :
        \A n \in Node : t.parent[n] # None => depth[t.parent[n]] < depth[n]
  BY <1>0
<1> DEFINE D == {depth[n] : n \in B}
<1>2. D \in SUBSET Nat /\ D # {}
  OBVIOUS
<1>3. PICK k \in D : \A d \in D : k <= d
  <2> HIDE DEF D
  <2> QED BY <1>2, SmallestOf
<1>4. PICK n \in B : depth[n] = k
  OBVIOUS
<1>5. ASSUME t.parent[n] \in B PROVE FALSE
  <2>1. depth[t.parent[n]] \in D
    BY <1>5
  <2>2. depth[t.parent[n]] < depth[n] /\ depth[n] \in Nat /\ depth[t.parent[n]] \in Nat
    BY <1>1, <1>5, NodeFacts
  <2>3. k <= depth[t.parent[n]]
    BY <1>3, <2>1
  <2> HIDE DEF D
  <2> QED BY <1>4, <2>2, <2>3
<1> QED BY <1>5

LEMMA AncestorsFacts ==
  ASSUME NEW t \in Trees, Rooted(t), NEW n \in Node
  PROVE  /\ Ancestors(t, n) \in Seq(Inner)
         /\ Ancestors(t, n) = IF t.parent[n] = None THEN <<>>
                              ELSE <<t.parent[n]>> \o Ancestors(t, t.parent[n])
<1> DEFINE Step(g, m) == IF t.parent[m] = None THEN <<>>
                         ELSE <<t.parent[m]>> \o g[t.parent[m]]
           Up(g) == [m \in Node |-> Step(g, m)]
           up == CHOOSE g : g = Up(g)
<1>0. \A m \in Node : t.parent[m] = None \/ (t.parent[m] \in Inner /\ t.parent[m] \in Node)
  BY TreeFacts, NodeFacts
<1>8. PICK K \in Nat : \E d \in [Node -> 0..K] :
        \A m \in Node : t.parent[m] # None => d[t.parent[m]] < d[m]
  BY DEF Rooted
<1>1. PICK depth \in [Node -> 0..K] :
        \A m \in Node : t.parent[m] # None => depth[t.parent[m]] < depth[m]
  BY <1>8
<1>2. ASSUME NEW g, NEW h, NEW m \in Node, t.parent[m] # None => g[t.parent[m]] = h[t.parent[m]]
      PROVE  Step(g, m) = Step(h, m)
  BY <1>2
<1> DEFINE Upto(g, k) == \A m \in Node : depth[m] < k => g[m] = Step(g, m)
<1> HIDE DEF Step
<1>3. \A k \in Nat : \E g : Upto(g, k)
  <2> DEFINE Bad == {k \in Nat : ~\E g : Upto(g, k)}
  <2>1. SUFFICES ASSUME Bad # {} PROVE FALSE
    OBVIOUS
  <2>2. PICK k \in Bad : \A m \in Bad : k <= m
    <3> HIDE DEF Bad
    <3>1. Bad \in SUBSET Nat
      BY DEF Bad
    <3> QED BY <2>1, <3>1, SmallestOf
  <2>3. k \in Nat /\ k # 0
    <3>1. Upto([m \in Node |-> <<>>], 0)
      OBVIOUS
    <3> QED BY <3>1
  <2>4. k - 1 \in Nat /\ k - 1 \notin Bad
    <3> HIDE DEF Bad
    <3> QED BY <2>2, <2>3
  <2>5. PICK g : Upto(g, k - 1)
    BY <2>4
  <2> DEFINE h == [m \in Node |-> IF depth[m] < k - 1 THEN g[m] ELSE Step(g, m)]
  <2>6. ASSUME NEW m \in Node, depth[m] < k PROVE h[m] = Step(h, m)
    <3>1. h[m] = Step(g, m)
      BY <2>5
    <3>2. ASSUME t.parent[m] # None PROVE h[t.parent[m]] = g[t.parent[m]]
      <4>1. t.parent[m] \in Node /\ depth[t.parent[m]] < k - 1
        BY <1>0, <1>1, <2>3, <2>6, <3>2
      <4> QED BY <4>1
    <3> HIDE DEF h
    <3> QED BY <1>2, <3>1, <3>2
  <2>7. Upto(h, k)
    <3> HIDE DEF h
    <3> QED BY <2>6
  <2> QED BY <2>2, <2>7
<1>4. up = Up(up)
  <2>1. PICK g : Upto(g, K + 1)
    BY <1>3
  <2> DEFINE h == [m \in Node |-> g[m]]
  <2>2. ASSUME NEW m \in Node PROVE h[m] = Step(h, m)
    <3>1. h[m] = Step(g, m)
      BY <2>1
    <3>2. t.parent[m] # None => h[t.parent[m]] = g[t.parent[m]]
      BY <1>0
    <3> HIDE DEF h
    <3> QED BY <1>2, <3>1, <3>2
  <2>3. h = Up(h)
    BY <2>2
  <2> HIDE DEF h, Up
  <2> QED BY <2>3
<1>5. \A m \in Node : Ancestors(t, m) = up[m]
  BY DEF Ancestors, Step
<1> HIDE DEF up
<1>6. \A m \in Node : Ancestors(t, m) = IF t.parent[m] = None THEN <<>>
                        ELSE <<t.parent[m]>> \o Ancestors(t, t.parent[m])
  <2>1. ASSUME NEW m \in Node
        PROVE Ancestors(t, m) = IF t.parent[m] = None THEN <<>>
                        ELSE <<t.parent[m]>> \o Ancestors(t, t.parent[m])
    <3>1. up[m] = Step(up, m)
      BY <1>4
    <3> QED BY <1>0, <1>5, <3>1 DEF Step
  <2> QED BY <2>1
<1>7. \A m \in Node : Ancestors(t, m) \in Seq(Inner)
  <2> DEFINE Bad == {m \in Node : Ancestors(t, m) \notin Seq(Inner)}
  <2>1. SUFFICES ASSUME Bad # {} PROVE FALSE
    OBVIOUS
  <2>2. PICK m \in Bad : t.parent[m] \notin Bad
    <3> HIDE DEF Bad
    <3>1. Bad \in SUBSET Node
      BY DEF Bad
    <3> QED BY <2>1, <3>1, Topmost
  <2>3. t.parent[m] # None
    BY <1>6, EmptySeq
  <2>4. t.parent[m] \in Inner /\ Ancestors(t, t.parent[m]) \in Seq(Inner)
    BY <1>0, <2>2, <2>3
  <2>5. <<t.parent[m]>> \in Seq(Inner)
    BY <2>4
  <2>6. <<t.parent[m]>> \o Ancestors(t, t.parent[m]) \in Seq(Inner)
    BY <2>4, <2>5, ConcatProperties
  <2> QED BY <1>6, <2>3, <2>6
<1> QED BY <1>6, <1>7

(* The inner nodes above a node, and how two of them lie.                  *)
LEMMA AboveFacts ==
  ASSUME NEW t \in Trees, Rooted(t), NEW n \in Node
  PROVE  /\ Above(t, n) \in SUBSET Inner
         /\ Above(t, n) = IF t.parent[n] = None THEN {}
                          ELSE {t.parent[n]} \cup Above(t, t.parent[n])
<1> DEFINE p == t.parent[n]
           s == Ancestors(t, n)
           r == Ancestors(t, p)
<1>1. s \in Seq(Inner) /\ DOMAIN s = 1..Len(s) /\ Len(s) \in Nat
  BY AncestorsFacts, LenProperties
<1>2. ToSet(s) \in SUBSET Inner
  BY <1>1, ElementOfSeq DEF ToSet
<1>3. CASE p = None
  <2>1. s = <<>>
    BY <1>3, AncestorsFacts
  <2>2. ToSet(s) = {}
    BY <2>1 DEF ToSet
  <2> QED BY <1>2, <1>3, <2>2 DEF Above
<1>4. CASE p # None
  <2>1. p \in Node /\ p \in Inner
    BY <1>4, TreeFacts, NodeFacts
  <2>2. s = <<p>> \o r /\ r \in Seq(Inner) /\ DOMAIN r = 1..Len(r) /\ Len(r) \in Nat
    BY <1>4, <2>1, AncestorsFacts, LenProperties
  <2> HIDE DEF s, r, p
  <2>3. /\ <<p>> \in Seq(Inner) /\ Len(<<p>>) = 1
        /\ \A i \in 1..1 : <<p>>[i] = p
    BY <2>1
  <2>4. /\ Len(s) = Len(r) + 1
        /\ \A i \in 1..(Len(r) + 1) : s[i] = IF i <= 1 THEN <<p>>[i] ELSE r[i - 1]
    BY <2>2, <2>3, ConcatProperties
  <2>5. ASSUME NEW x \in ToSet(s) PROVE x \in {p} \cup ToSet(r)
    <3>1. PICK i \in 1..(Len(r) + 1) : s[i] = x
      BY <1>1, <2>4 DEF ToSet
    <3>2. CASE i = 1
      BY <2>3, <2>4, <3>1, <3>2
    <3>3. CASE i # 1
      <4>1. i - 1 \in DOMAIN r /\ r[i - 1] = x
        BY <2>2, <2>4, <3>1, <3>3
      <4> QED BY <4>1 DEF ToSet
    <3> QED BY <3>2, <3>3
  <2>6. p \in ToSet(s)
    <3>1. 1 \in DOMAIN s /\ s[1] = p
      BY <1>1, <2>2, <2>3, <2>4
    <3> QED BY <3>1 DEF ToSet
  <2>7. ASSUME NEW x \in ToSet(r) PROVE x \in ToSet(s)
    <3>1. PICK i \in 1..Len(r) : r[i] = x
      BY <2>2 DEF ToSet
    <3>2. i + 1 \in 1..(Len(r) + 1) /\ i + 1 - 1 = i /\ ~(i + 1 <= 1)
      BY <2>2
    <3>3. i + 1 \in DOMAIN s /\ s[i + 1] = x
      BY <1>1, <2>2, <2>4, <3>1, <3>2
    <3> QED BY <3>3 DEF ToSet
  <2> QED BY <1>2, <1>4, <2>5, <2>6, <2>7 DEF Above, s, r, p
<1> QED BY <1>3, <1>4

LEMMA AboveIsTransitive ==
  ASSUME NEW t \in Trees, Rooted(t), NEW c \in Node, NEW b \in Above(t, c),
         NEW a \in Above(t, b)
  PROVE  a \in Above(t, c)
<1> DEFINE Bad == {m \in Node : b \in Above(t, m) /\ a \notin Above(t, m)}
<1>1. SUFFICES ASSUME Bad # {} PROVE FALSE
  OBVIOUS
<1>2. PICK m \in Bad : t.parent[m] \notin Bad
  <2> HIDE DEF Bad
  <2>1. Bad \in SUBSET Node
    BY DEF Bad
  <2> QED BY <1>1, <2>1, Topmost
<1>3. /\ m \in Node /\ b \in Above(t, m) /\ a \notin Above(t, m)
      /\ t.parent[m] \in Node => (b \in Above(t, t.parent[m]) => a \in Above(t, t.parent[m]))
  BY <1>2
<1> HIDE DEF Bad
<1>4. t.parent[m] # None /\ Above(t, m) = {t.parent[m]} \cup Above(t, t.parent[m])
  BY <1>3, AboveFacts
<1>5. t.parent[m] \in Node
  BY <1>3, <1>4, TreeFacts, NodeFacts
<1> QED BY <1>3, <1>4, <1>5

LEMMA NotAboveItself ==
  ASSUME NEW t \in Trees, Rooted(t), NEW n \in Node
  PROVE  n \notin Above(t, n)
<1>0. PICK K \in Nat : \E d \in [Node -> 0..K] :
        \A m \in Node : t.parent[m] # None => d[t.parent[m]] < d[m]
  BY DEF Rooted
<1>1. PICK depth \in [Node -> 0..K] :
        \A m \in Node : t.parent[m] # None => depth[t.parent[m]] < depth[m]
  BY <1>0
<1> DEFINE Bad == {m \in Node : \E a \in Above(t, m) : ~(depth[a] < depth[m])}
<1>2. Bad = {}
  <2>1. SUFFICES ASSUME Bad # {} PROVE FALSE
    OBVIOUS
  <2>2. PICK m \in Bad : t.parent[m] \notin Bad
    <3> HIDE DEF Bad
    <3>1. Bad \in SUBSET Node
      BY DEF Bad
    <3> QED BY <2>1, <3>1, Topmost
  <2>3. m \in Node
    BY <2>2
  <2>4. PICK a \in Above(t, m) : ~(depth[a] < depth[m])
    BY <2>2
  <2>5. t.parent[m] # None /\ Above(t, m) = {t.parent[m]} \cup Above(t, t.parent[m])
    BY <2>3, <2>4, AboveFacts
  <2>6. t.parent[m] \in Node
    BY <2>3, <2>5, TreeFacts, NodeFacts
  <2>7. depth[t.parent[m]] < depth[m]
    BY <1>1, <2>3, <2>5
  <2>8. a \in Above(t, t.parent[m]) => depth[a] < depth[t.parent[m]]
    BY <2>2, <2>6
  <2>9. a \in Node
    BY <2>3, <2>4, AboveFacts, NodeFacts
  <2>10. depth[a] \in Nat /\ depth[m] \in Nat /\ depth[t.parent[m]] \in Nat
    BY <2>3, <2>6, <2>9
  <2> HIDE DEF Bad
  <2> QED BY <2>4, <2>5, <2>7, <2>8, <2>10
<1>3. \A a \in Above(t, n) : depth[a] < depth[n]
  BY <1>2
<1> QED BY <1>3

(* On the way up each node is above those passed before.                   *)
LEMMA AncestorsInOrder ==
  ASSUME NEW t \in Trees, Rooted(t), NEW n \in Node,
         NEW i \in DOMAIN Ancestors(t, n), NEW j \in DOMAIN Ancestors(t, n), i < j
  PROVE  Ancestors(t, n)[j] \in Above(t, Ancestors(t, n)[i])
<1> DEFINE Good(m, k, l) == Ancestors(t, m)[l] \in Above(t, Ancestors(t, m)[k])
           Bad == {m \in Node : \E k, l \in DOMAIN Ancestors(t, m) : k < l /\ ~Good(m, k, l)}
<1>1. SUFFICES ASSUME Bad # {} PROVE FALSE
  OBVIOUS
<1>2. PICK m \in Bad : t.parent[m] \notin Bad
  <2> HIDE DEF Bad
  <2>1. Bad \in SUBSET Node
    BY DEF Bad
  <2> QED BY <1>1, <2>1, Topmost
<1>3. m \in Node
  BY <1>2
<1>4. PICK k \in DOMAIN Ancestors(t, m), l \in DOMAIN Ancestors(t, m) :
        k < l /\ ~Good(m, k, l)
  BY <1>2
<1> DEFINE p == t.parent[m]
           s == Ancestors(t, m)
           r == Ancestors(t, p)
<1>5. s \in Seq(Inner) /\ DOMAIN s = 1..Len(s) /\ Len(s) \in Nat
  BY <1>3, AncestorsFacts, LenProperties
<1>6. p # None
  <2>1. ASSUME p = None PROVE FALSE
    <3>1. s = <<>>
      BY <1>3, <2>1, AncestorsFacts
    <3>2. Len(s) = 0
      BY <3>1
    <3>3. DOMAIN s = {}
      BY <1>5, <3>2
    <3> QED BY <1>4, <3>3
  <2> QED BY <2>1
<1>7. p \in Node /\ p \in Inner
  BY <1>3, <1>6, TreeFacts, NodeFacts
<1>8. s = <<p>> \o r /\ r \in Seq(Inner) /\ DOMAIN r = 1..Len(r) /\ Len(r) \in Nat
  BY <1>3, <1>6, <1>7, AncestorsFacts, LenProperties
<1>9. \A a, b \in DOMAIN r : a < b => r[b] \in Above(t, r[a])
  BY <1>2, <1>7
<1>10. k \in DOMAIN s /\ l \in DOMAIN s /\ k < l /\ s[l] \notin Above(t, s[k])
  BY <1>4
<1>11. Above(t, p) = ToSet(r)
  BY DEF Above
<1> HIDE DEF Bad, Good, s, r, p
<1>12. /\ <<p>> \in Seq(Inner) /\ Len(<<p>>) = 1
       /\ \A a \in 1..1 : <<p>>[a] = p
  BY <1>7
<1>13. /\ Len(s) = Len(r) + 1
       /\ \A a \in 1..(Len(r) + 1) : s[a] = IF a <= 1 THEN <<p>>[a] ELSE r[a - 1]
  BY <1>8, <1>12, ConcatProperties
<1>14. l - 1 \in DOMAIN r /\ s[l] = r[l - 1]
  BY <1>5, <1>8, <1>10, <1>13
<1>15. CASE k = 1
  <2>1. s[k] = p
    BY <1>8, <1>12, <1>13, <1>15
  <2>2. r[l - 1] \in ToSet(r)
    BY <1>14 DEF ToSet
  <2> QED BY <1>10, <1>11, <1>14, <2>1, <2>2
<1>16. CASE k # 1
  <2>1. k - 1 \in DOMAIN r /\ s[k] = r[k - 1] /\ k - 1 < l - 1
    BY <1>5, <1>8, <1>10, <1>13, <1>16
  <2> QED BY <1>9, <1>10, <1>14, <2>1
<1> QED BY <1>15, <1>16

(* Nodes that are not above p, nor p, are put there; others stay or lose   *)
(* their parent: the tree stays rooted.                                    *)
LEMMA GraftedIsRooted ==
  ASSUME NEW t \in Trees, Rooted(t), NEW u \in Trees, NEW p \in Node, NEW B \in SUBSET Node,
         p \notin B, Above(t, p) \cap B = {},
         \A m \in Node : IF m \in B THEN u.parent[m] = p
                         ELSE u.parent[m] \in {t.parent[m], None}
  PROVE  Rooted(u)
<1>0. PICK K \in Nat : \E d \in [Node -> 0..K] :
        \A m \in Node : t.parent[m] # None => d[t.parent[m]] < d[m]
  BY DEF Rooted
<1>1. PICK depth \in [Node -> 0..K] :
        \A m \in Node : t.parent[m] # None => depth[t.parent[m]] < depth[m]
  BY <1>0
<1> DEFINE Below == {m \in Node : m \in B \/ Above(t, m) \cap B # {}}
           deep == [m \in Node |-> IF m \in Below THEN depth[m] + K + 1 ELSE depth[m]]
<1>2. deep \in [Node -> 0..(2 * K + 1)]
  <2> HIDE DEF Below
  <2> QED OBVIOUS
<1>3. p \notin Below /\ \A m \in B : m \in Below
  OBVIOUS
<1>4. ASSUME NEW m \in Node, m \notin B, t.parent[m] # None
      PROVE  t.parent[m] \in Node /\ (m \in Below <=> t.parent[m] \in Below)
  <2>1. Above(t, m) = {t.parent[m]} \cup Above(t, t.parent[m])
    BY <1>4, AboveFacts
  <2>2. t.parent[m] \in Node
    BY <1>4, TreeFacts, NodeFacts
  <2> QED BY <1>4, <2>1, <2>2
<1>5. ASSUME NEW m \in Node, u.parent[m] # None
      PROVE  deep[u.parent[m]] < deep[m]
  <2>1. CASE m \in B
    <3>1. u.parent[m] = p
      BY <2>1
    <3>2. deep[p] = depth[p] /\ deep[m] = depth[m] + K + 1
      <4> HIDE DEF Below
      <4> QED BY <1>3, <2>1
    <3>3. depth[p] \in 0..K /\ depth[m] \in 0..K
      OBVIOUS
    <3> HIDE DEF deep
    <3> QED BY <3>1, <3>2, <3>3
  <2>2. CASE m \notin B
    <3>1. u.parent[m] = t.parent[m] /\ t.parent[m] # None
      BY <1>5, <2>2
    <3>2. t.parent[m] \in Node /\ (m \in Below <=> t.parent[m] \in Below)
      BY <1>4, <2>2, <3>1
    <3>3. depth[t.parent[m]] < depth[m] /\ depth[m] \in 0..K /\ depth[t.parent[m]] \in 0..K
      BY <1>1, <3>1, <3>2
    <3> HIDE DEF Below
    <3> QED BY <3>1, <3>2, <3>3
  <2> QED BY <2>1, <2>2
<1>6. 2 * K + 1 \in Nat
  OBVIOUS
<1> HIDE DEF deep
<1> QED BY <1>2, <1>5, <1>6 DEF Rooted

-----------------------------------------------------------------------------
(* The edits of the tree keep its two directions together.                 *)

LEMMA DetachedFacts ==
  ASSUME NEW t \in Trees, Sound(t), NEW n \in Node
  PROVE  /\ Detached(t, n) \in Trees
         /\ Sound(Detached(t, n))
         /\ Detached(t, n).parent = [t.parent EXCEPT ![n] = None]
         /\ \A q \in Node : t.parent[n] # q => Detached(t, n).children[q] = t.children[q]
<1>1. CASE t.parent[n] = None
  <2>1. [t.parent EXCEPT ![n] = None] = t.parent
    BY <1>1, TreeFacts
  <2> QED BY <1>1, <2>1 DEF Detached
<1>2. CASE t.parent[n] # None
  <2> DEFINE p == t.parent[n]
             c == RemoveFirst(t.children[p], n)
             u == [parent   |-> [t.parent EXCEPT ![n] = None],
                   children |-> [t.children EXCEPT ![p] = c]]
  <2>1. p \in Inner /\ p \in Node
    BY <1>2, TreeFacts, NodeFacts
  <2>2. t.children[p] \in Seq(Node) /\ Distinct(t.children[p]) /\ Holds(t.children[p], n)
    BY <2>1, TreeFacts DEF Sound
  <2>3. /\ c \in Seq(Node) /\ Distinct(c)
        /\ \A x : Holds(c, x) <=> Holds(t.children[p], x) /\ x # n
    BY <2>2, RemovedFacts
  <2>4. Detached(t, n) = u
    BY <1>2, TreeFacts DEF Detached
  <2> HIDE DEF c
  <2>5. u \in Trees
    BY <2>1, <2>3, TreeFacts, NodeFacts DEF Trees
  <2>6. /\ \A q \in Node : u.children[q] = IF q = p THEN c ELSE t.children[q]
        /\ \A m \in Node : u.parent[m] = IF m = n THEN None ELSE t.parent[m]
    BY <2>1, TreeFacts
  <2> HIDE DEF u
  <2>7. ASSUME NEW q \in Node PROVE Distinct(u.children[q])
    BY <2>3, <2>6 DEF Sound
  <2>8. ASSUME NEW q \in Node, NEW m \in Node
        PROVE  Holds(u.children[q], m) <=> u.parent[m] = q
    <3>1. Holds(t.children[q], m) <=> t.parent[m] = q
      BY DEF Sound
    <3>2. CASE q = p
      BY <2>3, <2>6, <3>1, <3>2, NodeFacts
    <3>3. CASE q # p
      BY <2>6, <3>1, <3>3, NodeFacts
    <3> QED BY <3>2, <3>3
  <2>9. Sound(u)
    BY <2>7, <2>8 DEF Sound
  <2>10. u.parent = [t.parent EXCEPT ![n] = None]
    BY DEF u
  <2> QED BY <2>4, <2>5, <2>6, <2>9, <2>10
<1> QED BY <1>1, <1>2

LEMMA PutOneFacts ==
  ASSUME NEW t \in Trees, Sound(t), NEW p \in Inner, NEW n \in Node, NEW before,
         before # n, before = None \/ Holds(t.children[p], before)
  PROVE  /\ PutOne(t, p, n, before) \in Trees
         /\ Sound(PutOne(t, p, n, before))
         /\ PutOne(t, p, n, before).parent = [t.parent EXCEPT ![n] = p]
<1> DEFINE u   == Detached(t, n)
           end == Len(u.children[p]) + 1
           at  == IF before = None \/ IndexOf(t.children[p], before) > end
                  THEN end ELSE IndexOf(t.children[p], before)
           c   == InsertAt(u.children[p], at, n)
           v   == [parent   |-> [u.parent EXCEPT ![n] = p],
                   children |-> [u.children EXCEPT ![p] = c]]
<1>1. p \in Node
  BY NodeFacts
<1>2. u \in Trees /\ Sound(u) /\ u.parent = [t.parent EXCEPT ![n] = None]
  BY DetachedFacts
<1>3. u.parent[n] = None /\ u.children[p] \in Seq(Node) /\ Distinct(u.children[p])
  BY <1>1, <1>2, TreeFacts DEF Sound
<1>4. PutOne(t, p, n, before) = v
  BY <1>2, TreeFacts DEF PutOne
<1>5. at \in 1..(Len(u.children[p]) + 1)
  <2> HIDE DEF u
  <2>1. Len(u.children[p]) \in Nat
    BY <1>3, LenProperties
  <2>2. t.children[p] \in Seq(Node)
    BY <1>1, TreeFacts
  <2>3. /\ IndexOf(t.children[p], before) \in Nat
        /\ before # None => IndexOf(t.children[p], before) >= 1
    BY <2>2, IndexFacts, LenProperties
  <2> QED BY <2>1, <2>3
<1>6. ~Holds(u.children[p], n)
  BY <1>1, <1>2, <1>3, NodeFacts DEF Sound
<1> HIDE DEF u, at
<1>7. /\ c \in Seq(Node) /\ Distinct(c)
      /\ \A x : Holds(c, x) <=> Holds(u.children[p], x) \/ x = n
  BY <1>3, <1>5, <1>6, InsertedFacts
<1> HIDE DEF c
<1>8. v \in Trees
  BY <1>1, <1>2, <1>7, TreeFacts DEF Trees
<1>9. /\ \A q \in Node : v.children[q] = IF q = p THEN c ELSE u.children[q]
      /\ \A m \in Node : v.parent[m] = IF m = n THEN p ELSE u.parent[m]
  BY <1>1, <1>2, TreeFacts
<1>10. v.parent = [t.parent EXCEPT ![n] = p]
  BY <1>2, TreeFacts
<1> HIDE DEF v
<1>11. ASSUME NEW q \in Node PROVE Distinct(v.children[q])
  BY <1>2, <1>7, <1>9 DEF Sound
<1>12. ASSUME NEW q \in Node, NEW m \in Node
       PROVE  Holds(v.children[q], m) <=> v.parent[m] = q
  <2>1. Holds(u.children[q], m) <=> u.parent[m] = q
    BY <1>2 DEF Sound
  <2>2. CASE q = p
    BY <1>7, <1>9, <2>1, <2>2
  <2>3. CASE q # p
    BY <1>3, <1>9, <2>1, <2>3, NodeFacts
  <2> QED BY <2>2, <2>3
<1>13. Sound(v)
  BY <1>11, <1>12 DEF Sound
<1> QED BY <1>4, <1>8, <1>10, <1>13

(* The nodes that are brought are put one after the other.                 *)
AreStages(after, t, p, n, before) ==
  /\ after[0] = t
  /\ \A i \in 1..Len(Brought(t, n)) :
       after[i] = PutOne(after[i - 1], p, Brought(t, n)[i], before)
  /\ Put(t, p, n, before) = after[Len(Brought(t, n))]

LEMMA PutStages ==
  ASSUME NEW t, NEW p, NEW n, NEW before, Len(Brought(t, n)) \in Nat
  PROVE  \E after : AreStages(after, t, p, n, before)
<1> DEFINE nodes == Brought(t, n)
           One(u, i) == PutOne(u, p, nodes[i], before)
           Stages(g) == [i \in 0..Len(nodes) |-> IF i = 0 THEN t ELSE One(g[i - 1], i)]
           Upto(g, k) == g[0] = t /\ \A i \in 1..k : g[i] = One(g[i - 1], i)
           after == CHOOSE g : g = Stages(g)
<1>1. Put(t, p, n, before) = after[Len(nodes)]
  BY DEF Put
<1> HIDE DEF nodes, One
<1>0. Len(nodes) \in Nat
  BY DEF nodes
<1>2. \A k \in Nat : \E g : Upto(g, k)
  <2> DEFINE Bad == {k \in Nat : ~\E g : Upto(g, k)}
  <2>1. SUFFICES ASSUME Bad # {} PROVE FALSE
    OBVIOUS
  <2>2. PICK k \in Bad : \A m \in Bad : k <= m
    <3> HIDE DEF Bad
    <3>1. Bad \in SUBSET Nat
      BY DEF Bad
    <3> QED BY <2>1, <3>1, SmallestOf
  <2>3. k # 0
    <3>1. Upto([i \in 0..0 |-> t], 0)
      OBVIOUS
    <3> QED BY <3>1
  <2>4. k - 1 \in Nat /\ k - 1 \notin Bad
    <3>1. k \in Nat
      BY <2>2
    <3> HIDE DEF Bad
    <3> QED BY <2>2, <2>3, <3>1
  <2>5. PICK g : Upto(g, k - 1)
    BY <2>4
  <2> DEFINE h == [i \in 0..k |-> IF i = k THEN One(g[k - 1], k) ELSE g[i]]
  <2>6. h[0] = t
    BY <2>3, <2>5
  <2>7. ASSUME NEW i \in 1..k PROVE h[i] = One(h[i - 1], i)
    <3>1. i - 1 \in 0..k /\ i - 1 # k /\ h[i - 1] = g[i - 1]
      OBVIOUS
    <3>2. CASE i = k
      BY <3>1, <3>2
    <3>3. CASE i # k
      <4>1. i \in 1..(k - 1) /\ h[i] = g[i]
        BY <3>3
      <4> QED BY <2>5, <3>1, <4>1
    <3> QED BY <3>2, <3>3
  <2>8. Upto(h, k)
    <3> HIDE DEF h
    <3> QED BY <2>6, <2>7
  <2> QED BY <2>2, <2>8
<1>3. after = Stages(after)
  <2>1. PICK g : Upto(g, Len(nodes))
    BY <1>0, <1>2
  <2> DEFINE h == Stages(g)
  <2>2. ASSUME NEW i \in 0..Len(nodes) PROVE h[i] = g[i]
    <3>1. CASE i = 0
      BY <2>1, <3>1
    <3>2. CASE i # 0
      BY <2>1, <3>2
    <3> QED BY <3>1, <3>2
  <2>3. ASSUME NEW i \in 0..Len(nodes), i # 0 PROVE One(h[i - 1], i) = One(g[i - 1], i)
    <3>1. i - 1 \in 0..Len(nodes)
      BY <1>0, <2>3
    <3>2. h[i - 1] = g[i - 1]
      BY <2>2, <3>1
    <3> QED BY <3>2
  <2>4. h = Stages(h)
    <3>1. \A i \in 0..Len(nodes) : (IF i = 0 THEN t ELSE One(h[i - 1], i))
                                     = (IF i = 0 THEN t ELSE One(g[i - 1], i))
      <4> HIDE DEF h
      <4> QED BY <2>3
    <3> QED BY <3>1
  <2> HIDE DEF h, Stages
  <2> QED BY <2>4
<1> HIDE DEF after
<1>4. after[0] = t /\ \A i \in 1..Len(nodes) : after[i] = One(after[i - 1], i)
  BY <1>0, <1>3
<1>5. AreStages(after, t, p, n, before)
  BY <1>1, <1>4 DEF AreStages, nodes, One
<1> QED BY <1>5

(* Whatever is put, a fragment with its children or a node, before a child *)
(* that stays or at the end.                                               *)
LEMMA PutFacts ==
  ASSUME NEW t \in Trees, Sound(t), NEW p \in Inner, NEW n \in Node, NEW before,
         n # p, before # n, before = None \/ Holds(t.children[p], before)
  PROVE  /\ Put(t, p, n, before) \in Trees /\ Sound(Put(t, p, n, before))
         /\ \A m \in Node : Put(t, p, n, before).parent[m]
                             = IF Holds(Brought(t, n), m) THEN p ELSE t.parent[m]
<1> DEFINE nodes == Brought(t, n)
<1>1. p \in Node /\ t.children[n] \in Seq(Node) /\ None \notin Node
  BY NodeFacts, TreeFacts
<1>2. nodes \in Seq(Node) /\ Len(nodes) \in Nat /\ \A i \in 1..Len(nodes) : nodes[i] \in Node
  <2>1. nodes \in Seq(Node)
    BY <1>1 DEF Brought
  <2> QED BY <2>1, LenProperties, ElementOfSeq
<1>3. before = None \/ (before \in Node /\ t.parent[before] = p)
  <2>1. t.children[p] \in Seq(Node)
    BY <1>1, TreeFacts
  <2>2. ASSUME Holds(t.children[p], before) PROVE before \in Node
    BY <2>1, <2>2, LenProperties, ElementOfSeq DEF Holds
  <2> QED BY <1>1, <2>2 DEF Sound
<1>4. ASSUME NEW i \in 1..Len(nodes) PROVE nodes[i] # before
  <2>1. CASE n \in Fragment
    <3>1. nodes = t.children[n]
      BY <2>1 DEF Brought
    <3>2. Holds(t.children[n], nodes[i])
      BY <1>2, <3>1, LenProperties DEF Holds
    <3>3. t.parent[nodes[i]] = n
      BY <1>2, <3>2 DEF Sound
    <3> QED BY <1>1, <1>2, <1>3, <3>3
  <2>2. CASE n \notin Fragment
    <3>1. nodes = <<n>>
      BY <2>2 DEF Brought
    <3> QED BY <3>1
  <2> QED BY <2>1, <2>2
<1>5. PICK after : /\ after[0] = t
                   /\ \A i \in 1..Len(nodes) :
                        after[i] = PutOne(after[i - 1], p, nodes[i], before)
                   /\ Put(t, p, n, before) = after[Len(nodes)]
  <2> HIDE DEF nodes
  <2>1. \E after : AreStages(after, t, p, n, before)
    BY <1>2, PutStages DEF nodes
  <2> QED BY <2>1 DEF AreStages, nodes
<1> HIDE DEF nodes
<1> DEFINE Good(u, i) == /\ u \in Trees /\ Sound(u)
                         /\ before = None \/ u.parent[before] = p
                         /\ \A m \in Node : u.parent[m] =
                              IF \E j \in 1..i : nodes[j] = m THEN p ELSE t.parent[m]
           Bad == {i \in 0..Len(nodes) : ~Good(after[i], i)}
<1>6. Good(after[0], 0)
  BY <1>3, <1>5
<1>7. ASSUME NEW i \in 1..Len(nodes), Good(after[i - 1], i - 1) PROVE Good(after[i], i)
  <2> DEFINE u == after[i - 1]
             x == nodes[i]
  <2>1. u \in Trees /\ Sound(u) /\ x \in Node /\ before # x
    BY <1>2, <1>4, <1>7
  <2>2. before = None \/ Holds(u.children[p], before)
    BY <1>1, <1>3, <1>7 DEF Sound
  <2>4. after[i] = PutOne(u, p, x, before)
    BY <1>5
  <2> HIDE DEF u, x
  <2>3. /\ PutOne(u, p, x, before) \in Trees
        /\ Sound(PutOne(u, p, x, before))
        /\ PutOne(u, p, x, before).parent = [u.parent EXCEPT ![x] = p]
    BY <2>1, <2>2, PutOneFacts
  <2>5. u.parent \in [Node -> Inner \cup {None}]
    BY <2>1, TreeFacts
  <2>6. before = None \/ u.parent[before] = p
    BY <1>7 DEF u
  <2>7. before = None \/ after[i].parent[before] = p
    BY <1>3, <2>1, <2>3, <2>4, <2>5, <2>6
  <2>8. ASSUME NEW m \in Node
        PROVE  after[i].parent[m] = IF \E j \in 1..i : nodes[j] = m THEN p ELSE t.parent[m]
    <3>1. u.parent[m] = IF \E j \in 1..(i - 1) : nodes[j] = m THEN p ELSE t.parent[m]
      BY <1>7 DEF u
    <3>2. after[i].parent[m] = IF m = x THEN p ELSE u.parent[m]
      BY <2>1, <2>3, <2>4, <2>5
    <3>3. (\E j \in 1..i : nodes[j] = m) <=> m = x \/ \E j \in 1..(i - 1) : nodes[j] = m
      <4>1. i \in Nat /\ i >= 1
        BY <1>2
      <4>2. \A j \in 1..i : j = i \/ j \in 1..(i - 1)
        BY <4>1
      <4>3. i \in 1..i /\ \A j \in 1..(i - 1) : j \in 1..i
        BY <4>1
      <4> QED BY <4>2, <4>3 DEF x
    <3> QED BY <3>1, <3>2, <3>3
  <2> QED BY <2>3, <2>4, <2>7, <2>8
<1>8. Bad = {}
  <2>1. SUFFICES ASSUME Bad # {} PROVE FALSE
    OBVIOUS
  <2>2. Bad \in SUBSET Nat
    BY <1>2
  <2>3. PICK k \in Bad : \A m \in Bad : k <= m
    <3> HIDE DEF Bad
    <3> QED BY <2>1, <2>2, SmallestOf
  <2>4. k \in 0..Len(nodes) /\ ~Good(after[k], k)
    BY <2>3
  <2> HIDE DEF Good
  <2>5. k \in 1..Len(nodes)
    BY <1>2, <1>6, <2>4
  <2>6. k - 1 \in 0..Len(nodes) /\ k - 1 < k
    BY <1>2, <2>5
  <2>7. k - 1 \notin Bad
    <3> HIDE DEF Bad
    <3> QED BY <2>3, <2>5, <2>6
  <2>8. Good(after[k - 1], k - 1)
    BY <2>6, <2>7
  <2> QED BY <1>7, <2>4, <2>5, <2>8
<1>9. Good(after[Len(nodes)], Len(nodes))
  <2> HIDE DEF Good
  <2> QED BY <1>2, <1>8
<1>10. ASSUME NEW m PROVE Holds(nodes, m) <=> \E j \in 1..Len(nodes) : nodes[j] = m
  BY <1>2, LenProperties DEF Holds
<1> QED BY <1>5, <1>9, <1>10 DEF nodes

LEMMA PutIsRooted ==
  ASSUME NEW t \in Trees, Sound(t), Rooted(t), NEW p \in Inner, NEW n \in Node, NEW before,
         n \notin {p} \cup Above(t, p), before # n,
         before = None \/ Holds(t.children[p], before)
  PROVE  Rooted(Put(t, p, n, before))
<1> DEFINE u == Put(t, p, n, before)
           B == {m \in Node : Holds(Brought(t, n), m)}
<1>1. p \in Node /\ None \notin Node
  BY NodeFacts
<1>2. u \in Trees /\ \A m \in Node : u.parent[m] = IF m \in B THEN p ELSE t.parent[m]
  BY PutFacts
<1> HIDE DEF u
<1>3. ASSUME NEW m \in B PROVE m # p /\ m \notin Above(t, p)
  <2>1. CASE n \in Fragment
    <3>1. Holds(t.children[n], m)
      BY <2>1 DEF Brought
    <3>2. t.parent[m] = n
      BY <3>1 DEF Sound
    <3>3. n \in Above(t, m)
      BY <1>1, <3>2, AboveFacts
    <3> QED BY <1>1, <3>3, AboveIsTransitive
  <2>2. CASE n \notin Fragment
    <3>1. Holds(<<n>>, m)
      BY <2>2 DEF Brought
    <3>2. m = n
      BY <3>1 DEF Holds
    <3> QED BY <3>2
  <2> QED BY <2>1, <2>2
<1> HIDE DEF B
<1>4. B \in SUBSET Node
  BY DEF B
<1>5. p \notin B /\ Above(t, p) \cap B = {}
  BY <1>3
<1>6. Rooted(u)
  BY <1>1, <1>2, <1>4, <1>5, GraftedIsRooted
<1> QED BY <1>6 DEF u

LEMMA ReplacedTree ==
  ASSUME NEW t \in Trees, Sound(t), NEW p \in Inner, NEW n \in Node, NEW old \in Node,
         t.parent[n] # p, n # old, Holds(t.children[p], old)
  PROVE  /\ ReplaceChild(t, p, n, old) \in Trees /\ Sound(ReplaceChild(t, p, n, old))
         /\ \A m \in Node : ReplaceChild(t, p, n, old).parent[m]
              = IF m = old THEN None ELSE IF m = n THEN p ELSE t.parent[m]
<1> DEFINE u     == Detached(t, n)
           index == IndexOf(t.children[p], old)
           c     == ReplaceAt(u.children[p], index, n)
           v     == [parent   |-> [u.parent EXCEPT ![n] = p, ![old] = None],
                     children |-> [u.children EXCEPT ![p] = c]]
<1>1. p \in Node /\ None \notin Node
  BY NodeFacts
<1>2. /\ u \in Trees /\ Sound(u) /\ u.parent = [t.parent EXCEPT ![n] = None]
      /\ u.children[p] = t.children[p]
  BY <1>1, DetachedFacts
<1>3. u.children[p] \in Seq(Node) /\ Distinct(u.children[p])
  BY <1>1, <1>2, TreeFacts DEF Sound
<1>4. index \in 1..Len(u.children[p]) /\ u.children[p][index] = old
  BY <1>2, <1>3, IndexFacts
<1>5. ReplaceChild(t, p, n, old) = v
  <2>1. Len(u.children[p]) \in Nat
    BY <1>3, LenProperties
  <2>2. ~(index > Len(u.children[p]))
    <3> HIDE DEF u, index
    <3> QED BY <1>4, <2>1
  <2> QED BY <2>2 DEF ReplaceChild
<1>6. ~Holds(u.children[p], n)
  <2>1. u.parent[n] # p
    BY <1>1, <1>2, TreeFacts
  <2> QED BY <1>1, <1>2, <2>1 DEF Sound
<1> HIDE DEF u, index
<1>7. /\ c \in Seq(Node) /\ Distinct(c)
      /\ \A x : Holds(c, x) <=> (Holds(u.children[p], x) /\ x # old) \/ x = n
  BY <1>3, <1>4, <1>6, ReplacedFacts
<1> HIDE DEF c
<1>8. v \in Trees
  BY <1>1, <1>2, <1>7, TreeFacts DEF Trees
<1>9. /\ \A q \in Node : v.children[q] = IF q = p THEN c ELSE u.children[q]
      /\ \A m \in Node : v.parent[m] = IF m = old THEN None ELSE IF m = n THEN p
                                       ELSE u.parent[m]
  BY <1>1, <1>2, TreeFacts
<1>10. u.parent[n] = None /\ u.parent[old] = p
  <2>1. u.parent[n] = None
    BY <1>2, TreeFacts
  <2>2. Holds(u.children[p], old)
    BY <1>2
  <2> QED BY <1>1, <1>2, <2>1, <2>2 DEF Sound
<1> HIDE DEF v
<1>11. ASSUME NEW q \in Node PROVE Distinct(v.children[q])
  BY <1>2, <1>7, <1>9 DEF Sound
<1>12. ASSUME NEW q \in Node, NEW m \in Node
       PROVE  Holds(v.children[q], m) <=> v.parent[m] = q
  <2>1. Holds(u.children[q], m) <=> u.parent[m] = q
    BY <1>2 DEF Sound
  <2>2. CASE q = p
    <3>1. Holds(v.children[q], m) <=> (Holds(u.children[p], m) /\ m # old) \/ m = n
      BY <1>7, <1>9, <2>2
    <3> QED BY <1>1, <1>9, <2>1, <2>2, <3>1
  <2>3. CASE q # p
    <3>1. v.children[q] = u.children[q]
      BY <1>9, <2>3
    <3> QED BY <1>1, <1>9, <1>10, <2>1, <2>3, <3>1
  <2> QED BY <2>2, <2>3
<1>13. Sound(v)
  BY <1>11, <1>12 DEF Sound
<1>14. \A m \in Node : m # n => u.parent[m] = t.parent[m]
  BY <1>2, TreeFacts
<1> QED BY <1>5, <1>8, <1>9, <1>13, <1>14

LEMMA EmptyFacts ==
  ASSUME NEW S
  PROVE  <<>> \in Seq(S) /\ Distinct(<<>>) /\ \A x : ~Holds(<<>>, x)
  BY EmptySeq DEF Distinct, Holds

LEMMA TextTree ==
  ASSUME NEW t \in Trees, Sound(t), NEW p \in Inner, NEW texts \in Seq(Node)
  PROVE  /\ SetText(t, p, texts) \in Trees /\ Sound(SetText(t, p, texts))
         /\ \A m \in Node :
              IF texts # <<>> /\ m = texts[1] THEN SetText(t, p, texts).parent[m] = p
              ELSE SetText(t, p, texts).parent[m] \in {t.parent[m], None}
<1> DEFINE u == [parent   |-> [n \in Node |-> IF t.parent[n] = p THEN None ELSE t.parent[n]],
                 children |-> [t.children EXCEPT ![p] = <<>>]]
<1>1. p \in Node /\ None \notin Node
  BY NodeFacts
<1>2. u \in Trees
  BY <1>1, EmptyFacts, TreeFacts DEF Trees
<1>3. /\ \A q \in Node : u.children[q] = IF q = p THEN <<>> ELSE t.children[q]
      /\ \A m \in Node : u.parent[m] = IF t.parent[m] = p THEN None ELSE t.parent[m]
  BY <1>1, TreeFacts
<1>4. SetText(t, p, texts) = IF texts = <<>> THEN u ELSE PutOne(u, p, texts[1], None)
  BY DEF SetText
<1> HIDE DEF u
<1>5. ASSUME NEW q \in Node PROVE Distinct(u.children[q])
  BY <1>3, EmptyFacts DEF Sound
<1>6. ASSUME NEW q \in Node, NEW m \in Node
      PROVE  Holds(u.children[q], m) <=> u.parent[m] = q
  <2>1. Holds(t.children[q], m) <=> t.parent[m] = q
    BY DEF Sound
  <2> QED BY <1>1, <1>3, <2>1, EmptyFacts
<1>7. Sound(u)
  BY <1>5, <1>6 DEF Sound
<1>8. CASE texts = <<>>
  BY <1>2, <1>3, <1>4, <1>7, <1>8
<1>9. CASE texts # <<>>
  <2> DEFINE x == texts[1]
             v == PutOne(u, p, x, None)
  <2>1. x \in Node
    BY <1>9, EmptySeq, LenProperties, ElementOfSeq
  <2>2. v \in Trees /\ Sound(v) /\ v.parent = [u.parent EXCEPT ![x] = p]
    <3> HIDE DEF x
    <3> QED BY <1>1, <1>2, <1>7, <2>1, PutOneFacts
  <2>3. \A m \in Node : v.parent[m] = IF m = x THEN p ELSE u.parent[m]
    <3> HIDE DEF v, x
    <3> QED BY <1>2, <2>1, <2>2, TreeFacts
  <2>4. SetText(t, p, texts) = v
    BY <1>4, <1>9
  <2> HIDE DEF v
  <2> QED BY <1>3, <1>9, <2>2, <2>3, <2>4
<1> QED BY <1>8, <1>9

LEMMA BareFacts ==
  /\ Bare \in Trees /\ Sound(Bare)
  /\ Rooted(Bare) /\ Bare.parent[Document] = None /\ Above(Bare, Root) = {Body, Document}
<1>1. /\ Root \in Node /\ Body \in Node /\ Document \in Node /\ None \notin Node
      /\ Root # Body /\ Root # Document /\ Body # Document
      /\ {Body, Document} \subseteq Inner
  BY NodeFacts, NodeAssumption DEF Node, Inner, Element
<1>2. Bare.parent \in [Node -> Inner \cup {None}]
  BY <1>1 DEF Bare
<1>3. <<Root>> \in Seq(Node) /\ <<Body>> \in Seq(Node) /\ <<>> \in Seq(Node)
  BY <1>1
<1>4. Bare.children \in [Node -> Seq(Node)]
  BY <1>3 DEF Bare
<1>5. Bare \in Trees
  BY <1>2, <1>4 DEF Bare, Trees
<1>6. ASSUME NEW x PROVE Distinct(<<x>>) /\ \A e : Holds(<<x>>, e) <=> e = x
  BY DEF Distinct, Holds
<1>7. ASSUME NEW q \in Node PROVE Distinct(Bare.children[q])
  BY <1>6, EmptyFacts DEF Bare
<1>8. ASSUME NEW q \in Node, NEW m \in Node
      PROVE  Holds(Bare.children[q], m) <=> Bare.parent[m] = q
  <2>1. Bare.parent[m] = IF m = Root THEN Body ELSE IF m = Body THEN Document ELSE None
    BY DEF Bare
  <2>2. Bare.children[q] = IF q = Body THEN <<Root>>
                           ELSE IF q = Document THEN <<Body>> ELSE <<>>
    BY DEF Bare
  <2>3. CASE q = Body
    BY <1>1, <1>6, <2>1, <2>2, <2>3
  <2>4. CASE q = Document
    BY <1>1, <1>6, <2>1, <2>2, <2>4
  <2>5. CASE q # Body /\ q # Document
    BY <1>1, <2>1, <2>2, <2>5, EmptyFacts
  <2> QED BY <2>3, <2>4, <2>5
<1>9. Sound(Bare)
  BY <1>7, <1>8 DEF Sound
<1>10. Rooted(Bare)
  <2> DEFINE depth == [m \in Node |-> IF m = Root THEN 2 ELSE IF m = Body THEN 1 ELSE 0]
  <2>1. depth \in [Node -> 0..2]
    OBVIOUS
  <2>2. \A m \in Node : Bare.parent[m] # None => depth[Bare.parent[m]] < depth[m]
    BY <1>1 DEF Bare
  <2> HIDE DEF depth
  <2> QED BY <2>1, <2>2 DEF Rooted
<1>11. /\ Bare.parent[Document] = None /\ Bare.parent[Body] = Document
       /\ Bare.parent[Root] = Body
  BY <1>1 DEF Bare
<1>12. Above(Bare, Document) = {} /\ Above(Bare, Body) = {Document}
  BY <1>1, <1>5, <1>10, <1>11, AboveFacts
<1>13. Above(Bare, Root) = {Body, Document}
  BY <1>1, <1>5, <1>10, <1>11, <1>12, AboveFacts
<1> QED BY <1>5, <1>9, <1>10, <1>11, <1>13

LEMMA InitInv == Init => TreeInv
<1> SUFFICES ASSUME Init PROVE TreeInv
  OBVIOUS
<1>1. /\ tree \in {Bare, AppendChild(Bare, Root, Canvas)}
      /\ active = None
  BY DEF Init
<1>2. Root \in Inner /\ Canvas \in Node /\ Canvas # Root /\ None # Canvas
  BY NodeFacts, NodeAssumption DEF Node, Inner, Element
<1>3. AppendChild(Bare, Root, Canvas) \in Trees /\ Sound(AppendChild(Bare, Root, Canvas))
  BY <1>2, BareFacts, PutFacts DEF AppendChild
<1>4. /\ Canvas # Document /\ Document \in Node
      /\ Canvas \notin {Body, Document} /\ Canvas \notin Fragment
  BY <1>2, NodeFacts, NodeAssumption DEF Node, Inner, Element
<1>5. Rooted(AppendChild(Bare, Root, Canvas))
  BY <1>2, <1>4, BareFacts, PutIsRooted DEF AppendChild
<1>6. AppendChild(Bare, Root, Canvas).parent[Document] = None
  <2>1. ~Holds(Brought(Bare, Canvas), Document)
    BY <1>4 DEF Brought, Holds
  <2> QED BY <1>2, <1>4, <2>1, BareFacts, PutFacts DEF AppendChild
<1> QED BY <1>1, <1>3, <1>5, <1>6, BareFacts DEF TreeInv, WellFormed

LEMMA PutKeeps ==
  ASSUME NEW t, WellFormed(t), NEW p \in Inner, NEW n \in Node, NEW before,
         n \notin {Document, p} \cup Above(t, p), before # n,
         before = None \/ Holds(t.children[p], before)
  PROVE  WellFormed(Put(t, p, n, before))
<1> USE DEF WellFormed
<1>1. Put(t, p, n, before) \in Trees /\ Sound(Put(t, p, n, before))
  BY PutFacts
<1>2. Rooted(Put(t, p, n, before))
  BY PutIsRooted
<1>3. Document \in Node /\ None \notin Node
  BY NodeFacts DEF Inner
<1>4. ~Holds(Brought(t, n), Document)
  <2>1. CASE n \in Fragment
    BY <1>3, <2>1 DEF Brought, Sound
  <2>2. CASE n \notin Fragment
    BY <2>2 DEF Brought, Holds
  <2> QED BY <2>1, <2>2
<1>5. Put(t, p, n, before).parent[Document] = None
  BY <1>3, <1>4, PutFacts
<1> QED BY <1>1, <1>2, <1>5

LEMMA RemoveKeeps ==
  ASSUME NEW t, WellFormed(t), NEW p, NEW n \in Node
  PROVE  WellFormed(RemoveChild(t, p, n))
<1> DEFINE u == Detached(t, n)
<1>1. t \in Trees /\ Rooted(t) /\ u \in Trees /\ Sound(u) /\ Document \in Node
  BY DetachedFacts, NodeFacts DEF WellFormed, Inner
<1>2. \A m \in Node : u.parent[m] \in {t.parent[m], None}
  <2>1. u.parent = [t.parent EXCEPT ![n] = None] /\ t.parent \in [Node -> Inner \cup {None}]
    BY DetachedFacts, TreeFacts DEF WellFormed
  <2> HIDE DEF u
  <2> QED BY <2>1
<1> HIDE DEF u
<1>3. Rooted(u)
  <2> DEFINE B == {}
  <2>1. /\ B \in SUBSET Node /\ Document \notin B /\ Above(t, Document) \cap B = {}
        /\ \A m \in Node : IF m \in B THEN u.parent[m] = Document
                            ELSE u.parent[m] \in {t.parent[m], None}
    BY <1>2
  <2> HIDE DEF B
  <2> QED BY <1>1, <2>1, GraftedIsRooted
<1>4. u.parent[Document] = None
  BY <1>1, <1>2 DEF WellFormed
<1> QED BY <1>1, <1>3, <1>4 DEF WellFormed, RemoveChild, u

LEMMA ReplaceKeeps ==
  ASSUME NEW t, WellFormed(t), NEW p \in Inner, NEW n \in Node, NEW old \in Node,
         n \notin {Document, p} \cup Above(t, p), t.parent[n] # p, n # old,
         Holds(t.children[p], old)
  PROVE  WellFormed(ReplaceChild(t, p, n, old))
<1> DEFINE u == ReplaceChild(t, p, n, old)
<1>1. /\ t \in Trees /\ Sound(t) /\ Rooted(t) /\ Document \in Node /\ p \in Node
      /\ t.parent[Document] = None
  BY NodeFacts DEF WellFormed, Inner
<1>2. /\ u \in Trees /\ Sound(u)
      /\ \A m \in Node : u.parent[m]
              = IF m = old THEN None ELSE IF m = n THEN p ELSE t.parent[m]
  BY <1>1, ReplacedTree
<1> HIDE DEF u
<1>3. Rooted(u)
  <2> DEFINE B == {n}
  <2>1. B \in SUBSET Node /\ p \notin B /\ Above(t, p) \cap B = {}
    OBVIOUS
  <2>2. \A m \in Node : IF m \in B THEN u.parent[m] = p
                         ELSE u.parent[m] \in {t.parent[m], None}
    BY <1>2
  <2> HIDE DEF B
  <2> QED BY <1>1, <1>2, <2>1, <2>2, GraftedIsRooted
<1>4. u.parent[Document] = None
  BY <1>1, <1>2
<1> QED BY <1>2, <1>3, <1>4 DEF WellFormed, u

LEMMA TextKeeps ==
  ASSUME NEW t, WellFormed(t), NEW p \in Inner, NEW texts \in Seq(Text), Len(texts) <= 1
  PROVE  WellFormed(SetText(t, p, texts))
<1> DEFINE u == SetText(t, p, texts)
           B == IF texts = <<>> THEN {} ELSE {texts[1]}
<1>1. /\ t \in Trees /\ Sound(t) /\ Rooted(t) /\ Document \in Node /\ p \in Node
      /\ t.parent[Document] = None
  BY NodeFacts DEF WellFormed, Inner
<1>2. texts \in Seq(Node) /\ B \in SUBSET Text
  <2>1. Text \subseteq Node
    BY DEF Node
  <2> QED BY <2>1, EmptySeq, LenProperties, ElementOfSeq
<1>3. /\ u \in Trees /\ Sound(u)
      /\ \A m \in Node : IF m \in B THEN u.parent[m] = p
                          ELSE u.parent[m] \in {t.parent[m], None}
  BY <1>1, <1>2, TextTree
<1> HIDE DEF u, B
<1>4. B \in SUBSET Node /\ p \notin B /\ Document \notin B
  BY <1>2, NodeFacts DEF Node, Inner
<1>5. Above(t, p) \cap B = {}
  BY <1>1, <1>2, AboveFacts, NodeFacts
<1>6. Rooted(u)
  BY <1>1, <1>3, <1>4, <1>5, GraftedIsRooted
<1>7. u.parent[Document] = None
  BY <1>1, <1>3, <1>4
<1> QED BY <1>3, <1>6, <1>7 DEF WellFormed, u

(* Every edit of the tree.                                                 *)
LEMMA EditInv ==
  ASSUME Moves = FALSE, TreeInv, Edit
  PROVE  WellFormed(tree')
<1>1. WellFormed(tree) /\ tree \in Trees /\ None \notin Node
  BY NodeFacts DEF TreeInv, WellFormed
<1>2. PICK p \in Inner :
        \/ \E n \in Node : MayPut(p, n) /\ tree' = AppendChild(tree, p, n)
        \/ \E n \in Node, b \in ToSet(tree.children[p]) :
             MayMove(p, n) /\ n # b /\ tree' = InsertBefore(tree, p, n, b)
        \/ \E n \in ToSet(tree.children[p]) \ {Body} : tree' = RemoveChild(tree, p, n)
        \/ \E n \in Node \ Fragment, old \in ToSet(tree.children[p]) \ {Body} :
             MayMove(p, n) /\ n # old /\ tree' = ReplaceChild(tree, p, n, old)
        \/ tree' = SetText(tree, p, <<>>)
        \/ \E x \in Text : tree' = SetText(tree, p, <<x>>)
  BY DEF Edit
<1>3. tree.children[p] \in Seq(Node)
  BY <1>1, NodeFacts, TreeFacts
<1>4. ASSUME NEW e \in ToSet(tree.children[p])
      PROVE  e \in Node /\ e # None /\ Holds(tree.children[p], e)
  <2>1. PICK i \in DOMAIN tree.children[p] : tree.children[p][i] = e
    BY <1>3, LenProperties DEF ToSet
  <2> QED BY <1>1, <1>3, <2>1, LenProperties, ElementOfSeq DEF Holds
<1>5. ASSUME NEW n \in Node, MayPut(p, n), tree' = AppendChild(tree, p, n)
      PROVE  WellFormed(tree')
  BY <1>1, <1>5, PutKeeps DEF MayPut, AppendChild
<1>6. ASSUME NEW n \in Node, NEW b \in ToSet(tree.children[p]), MayMove(p, n), n # b,
             tree' = InsertBefore(tree, p, n, b)
      PROVE  WellFormed(tree')
  BY <1>1, <1>4, <1>6, PutKeeps DEF MayMove, MayPut, InsertBefore
<1>7. ASSUME NEW n \in ToSet(tree.children[p]) \ {Body}, tree' = RemoveChild(tree, p, n)
      PROVE  WellFormed(tree')
  BY <1>1, <1>4, <1>7, RemoveKeeps
<1>8. ASSUME NEW n \in Node \ Fragment, NEW old \in ToSet(tree.children[p]) \ {Body},
             MayMove(p, n), n # old, tree' = ReplaceChild(tree, p, n, old)
      PROVE  WellFormed(tree')
  BY <1>1, <1>4, <1>8, ReplaceKeeps DEF MayMove, MayPut
<1>9. ASSUME tree' = SetText(tree, p, <<>>) PROVE WellFormed(tree')
  <2>1. <<>> \in Seq(Text) /\ Len(<<>>) <= 1
    OBVIOUS
  <2> QED BY <1>1, <1>9, <2>1, TextKeeps
<1>10. ASSUME NEW x \in Text, tree' = SetText(tree, p, <<x>>)
       PROVE  WellFormed(tree')
  <2>1. <<x>> \in Seq(Text) /\ Len(<<x>>) <= 1
    OBVIOUS
  <2> QED BY <1>1, <1>10, <2>1, TextKeeps
<1> QED BY <1>2, <1>5, <1>6, <1>7, <1>8, <1>9, <1>10

LEMMA NextInv ==
  ASSUME Moves = FALSE, TreeInv, [Next]_vars
  PROVE  TreeInv'
<1>1. CASE Edit
  BY <1>1, EditInv DEF TreeInv, Edit
<1>2. CASE UNCHANGED vars
  BY <1>2 DEF TreeInv, vars
<1>3. ASSUME NEW n \in Hears, NEW l \in Listener,
             AddEventListener(n, l) \/ RemoveEventListener(n, l)
      PROVE  TreeInv'
  BY <1>3 DEF TreeInv, AddEventListener, RemoveEventListener
<1>4. ASSUME NEW n \in Element, Focus(n) \/ Blur(n) PROVE TreeInv'
  BY <1>4 DEF TreeInv, Focus, Blur
<1>5. CASE DispatchPointer \/ DispatchKey \/ DispatchResize
  BY <1>5 DEF TreeInv, DispatchPointer, DispatchKey, DispatchResize, Dispatch
<1>6. CASE \/ CallListener \/ StopPropagation \/ StopImmediatePropagation
           \/ ListenerReturns \/ ListenerThrows \/ NextVisit
  BY <1>6 DEF TreeInv, CallListener, StopPropagation, StopImmediatePropagation,
              ListenerReturns, ListenerThrows, NextVisit
<1> QED BY <1>1, <1>2, <1>3, <1>4, <1>5, <1>6 DEF Next

(* Among distinct elements there is one with a value or none.              *)
LEMMA CountOfOne ==
  ASSUME NEW s, Distinct(s), NEW n
  PROVE  Cardinality({i \in DOMAIN s : s[i] = n}) = IF Holds(s, n) THEN 1 ELSE 0
<1>1. CASE Holds(s, n)
  <2>1. PICK i \in DOMAIN s : s[i] = n
    BY <1>1 DEF Holds
  <2>2. {j \in DOMAIN s : s[j] = n} = {i}
    BY <2>1 DEF Distinct
  <2> QED BY <1>1, <2>2, FS_Singleton
<1>2. CASE ~Holds(s, n)
  <2>1. {j \in DOMAIN s : s[j] = n} = {}
    BY <1>2 DEF Holds
  <2> QED BY <1>2, <2>1, FS_EmptySet
<1> QED BY <1>1, <1>2

(* The two directions of the tree agree, for every set of elements, texts  *)
(* and fragments and however many edits are made, as long as the program   *)
(* takes a node out of its parent before it puts it elsewhere in the same  *)
(* parent by insertBefore or replaceChild (headless_dom.js:87-134).        *)
THEOREM TreeStaysSound == ASSUME Moves = FALSE PROVE Spec => []TreeIsSound
<1>1. Init => TreeInv
  BY InitInv
<1>2. TreeInv /\ [Next]_vars => TreeInv'
  BY NextInv
<1>3. TreeInv => TreeIsSound
  <2> SUFFICES ASSUME TreeInv PROVE TreeIsSound
    OBVIOUS
  <2>1. tree \in Trees /\ Sound(tree) /\ active \in Element \cup {None}
    BY DEF TreeInv, WellFormed
  <2>2. ASSUME NEW n \in Node, NEW p \in Inner
        PROVE  Cardinality({i \in DOMAIN tree.children[p] : tree.children[p][i] = n})
                 = IF tree.parent[n] = p THEN 1 ELSE 0
    <3>1. Distinct(tree.children[p]) /\ (Holds(tree.children[p], n) <=> tree.parent[n] = p)
      BY <2>1, NodeFacts DEF Sound
    <3> QED BY <3>1, CountOfOne
  <2> QED BY <2>1, <2>2, TreeFacts DEF TreeIsSound
<1> QED BY <1>1, <1>2, <1>3, PTL DEF Spec

-----------------------------------------------------------------------------
(* The path of an event and the visits on it.                              *)

(* b is passed before a on the way up from a target.                       *)
Passes(t, a, b) ==
  \/ a = Window /\ b # Window
  \/ a = Document /\ b \notin {Document, Window}
  \/ b \notin {Document, Window} /\ a \in Above(t, b)

LEMMA TargetFacts ==
  /\ Window \notin Node /\ Document \in Node /\ Document \in Inner
  /\ Target = Node \cup {Window} /\ None \notin Target
  BY NodeAssumption DEF Target, Node, Inner

LEMMA WayUp ==
  ASSUME NEW t, WellFormed(t), NEW n \in Target
  PROVE  LET up == AboveTarget(t, n)
         IN /\ up \in Seq(Node)
            /\ ToSet(up) = IF n = Window THEN {} ELSE Above(t, n)
            /\ n \notin ToSet(up)
            /\ \A i, j \in DOMAIN up : i < j =>
                 up[i] # Document /\ up[i] # Window /\ up[j] \in Above(t, up[i])
<1> DEFINE up == AboveTarget(t, n)
<1>1. CASE n = Window
  <2>1. up = <<>> /\ ToSet(up) = {} /\ DOMAIN up = {} /\ up \in Seq(Node)
    BY <1>1 DEF AboveTarget, ToSet
  <2> HIDE DEF up
  <2>2. \A i, j \in DOMAIN up : i < j =>
                 up[i] # Document /\ up[i] # Window /\ up[j] \in Above(t, up[i])
    BY <2>1
  <2> QED BY <1>1, <2>1, <2>2 DEF up
<1>2. CASE n # Window
  <2>1. /\ t \in Trees /\ Rooted(t) /\ n \in Node /\ t.parent[Document] = None
    BY <1>2, TargetFacts DEF WellFormed
  <2>2. up = Ancestors(t, n)
    BY <1>2 DEF AboveTarget
  <2>3. up \in Seq(Inner) /\ DOMAIN up = 1..Len(up) /\ \A i \in 1..Len(up) : up[i] \in Inner
    BY <2>1, <2>2, AncestorsFacts, LenProperties, ElementOfSeq
  <2>4. ToSet(up) = Above(t, n)
    BY <2>2 DEF Above
  <2>5. n \notin Above(t, n)
    BY <2>1, NotAboveItself
  <2>6. ASSUME NEW i \in DOMAIN up, NEW j \in DOMAIN up, i < j
        PROVE  up[i] # Document /\ up[i] # Window /\ up[j] \in Above(t, up[i])
    <3>1. up[j] \in Above(t, up[i])
      BY <2>1, <2>2, <2>6, AncestorsInOrder
    <3>2. up[i] \in Node
      BY <2>3, NodeFacts
    <3>3. Above(t, Document) = {}
      BY <2>1, TargetFacts, AboveFacts
    <3> QED BY <3>1, <3>2, <3>3, TargetFacts
  <2>7. up \in Seq(Node)
    <3> HIDE DEF up
    <3>1. up \in [1..Len(up) -> Node] /\ Len(up) \in Nat
      BY <2>3, NodeFacts, LenProperties
    <3> QED BY <3>1
  <2> HIDE DEF up
  <2> QED BY <1>2, <2>4, <2>5, <2>6, <2>7 DEF up
<1> QED BY <1>1, <1>2

(* The path: what is above the target, the document and the window, each   *)
(* once, from the inside out.                                              *)
LEMMA PathFacts ==
  ASSUME NEW t, WellFormed(t), NEW n \in Target
  PROVE  LET path == PathOf(t, n)
             all  == {Document, Window} \cup IF n = Window THEN {} ELSE Above(t, n)
         IN /\ path \in Seq(Target)
            /\ ToSet(path) = all \ {n}
            /\ \A i, j \in DOMAIN path : i < j =>
                 path[i] # path[j] /\ Passes(t, path[j], path[i])
<1> DEFINE up   == AboveTarget(t, n)
           addD == n # Document /\ Document \notin ToSet(up)
           doc  == IF addD THEN Append(up, Document) ELSE up
           path == PathOf(t, n)
           all  == {Document, Window} \cup IF n = Window THEN {} ELSE Above(t, n)
<1>1. /\ up \in Seq(Node)
      /\ ToSet(up) = IF n = Window THEN {} ELSE Above(t, n)
      /\ n \notin ToSet(up)
      /\ \A i, j \in DOMAIN up : i < j =>
           up[i] # Document /\ up[i] # Window /\ up[j] \in Above(t, up[i])
  BY WayUp
<1>2. path = IF n # Window THEN Append(doc, Window) ELSE doc
  BY DEF PathOf
<1> HIDE DEF up, path
<1>3. up \in Seq(Target) /\ Len(up) \in Nat /\ DOMAIN up = 1..Len(up)
      /\ \A i \in 1..Len(up) : up[i] \in Node /\ up[i] \in ToSet(up)
  <2>1. Len(up) \in Nat /\ DOMAIN up = 1..Len(up) /\ \A i \in 1..Len(up) : up[i] \in Node
    BY <1>1, LenProperties, ElementOfSeq
  <2>2. up \in [1..Len(up) -> Target]
    BY <1>1, <2>1, TargetFacts
  <2> QED BY <2>1, <2>2 DEF ToSet
<1>4. \A i, j \in DOMAIN up : i < j => up[i] # up[j]
  <2>1. ASSUME NEW i \in DOMAIN up, NEW j \in DOMAIN up, i < j PROVE up[i] # up[j]
    <3>1. up[j] \in Above(t, up[i]) /\ up[i] \in Node
      BY <1>1, <1>3, <2>1
    <3> QED BY <3>1, NotAboveItself DEF WellFormed
  <2> QED BY <2>1
<1>5. /\ doc \in Seq(Target) /\ Len(doc) \in Nat /\ DOMAIN doc = 1..Len(doc)
      /\ ToSet(doc) = (ToSet(up) \cup {Document}) \ {n}
      /\ \A i \in 1..Len(doc) : doc[i] \in Node
      /\ \A i, j \in DOMAIN doc : i < j => doc[i] # doc[j] /\ Passes(t, doc[j], doc[i])
  <2>1. CASE ~addD
    <3>1. doc = up
      BY <2>1
    <3>2. ToSet(up) = (ToSet(up) \cup {Document}) \ {n}
      BY <1>1, <2>1
    <3>3. \A i, j \in DOMAIN up : i < j => up[i] # up[j] /\ Passes(t, up[j], up[i])
      BY <1>1, <1>4 DEF Passes
    <3> HIDE DEF doc
    <3> QED BY <1>3, <3>1, <3>2, <3>3
  <2>2. CASE addD
    <3>1. /\ doc \in Seq(Target) /\ Len(doc) = Len(up) + 1
          /\ \A i \in 1..Len(up) : doc[i] = up[i]
          /\ doc[Len(up) + 1] = Document
      BY <1>3, <2>2, TargetFacts, AppendProperties
    <3> HIDE DEF doc
    <3>2. Len(doc) \in Nat /\ DOMAIN doc = 1..Len(doc)
      BY <3>1, LenProperties
    <3>3. \A i \in 1..Len(doc) : i \in 1..Len(up) \/ i = Len(up) + 1
      BY <1>3, <3>1
    <3>4. ToSet(doc) = ToSet(up) \cup {Document}
      <4>1. \A i \in 1..Len(up) : i \in 1..Len(doc)
        BY <1>3, <3>1
      <4>2. Len(up) + 1 \in 1..Len(doc)
        BY <1>3, <3>1
      <4> QED BY <1>3, <3>1, <3>2, <3>3, <4>1, <4>2 DEF ToSet
    <3>5. \A i \in 1..Len(doc) : doc[i] \in Node
      BY <1>3, <3>1, <3>3, TargetFacts
    <3>6. ASSUME NEW i \in DOMAIN doc, NEW j \in DOMAIN doc, i < j
          PROVE  doc[i] # doc[j] /\ Passes(t, doc[j], doc[i])
      <4>1. i \in 1..Len(up) /\ doc[i] = up[i]
        BY <1>3, <3>1, <3>2, <3>6
      <4>2. CASE j \in 1..Len(up)
        BY <1>1, <1>3, <1>4, <3>1, <3>6, <4>1, <4>2 DEF Passes
      <4>3. CASE j = Len(up) + 1
        <5>1. doc[i] \in ToSet(up) /\ doc[i] \in Node
          BY <1>3, <4>1
        <5> QED BY <2>2, <3>1, <4>3, <5>1, TargetFacts DEF Passes
      <4> QED BY <3>2, <3>3, <4>2, <4>3
    <3> QED BY <1>1, <2>2, <3>1, <3>2, <3>4, <3>5, <3>6
  <2> QED BY <2>1, <2>2
<1> HIDE DEF doc
<1>6. CASE n = Window
  <2>1. ToSet(doc) = all \ {n}
    BY <1>1, <1>5, <1>6, TargetFacts
  <2>2. path = doc
    BY <1>2, <1>6
  <2> QED BY <1>5, <2>1, <2>2 DEF path
<1>7. CASE n # Window
  <2>1. /\ path \in Seq(Target) /\ Len(path) = Len(doc) + 1
        /\ \A i \in 1..Len(doc) : path[i] = doc[i]
        /\ path[Len(doc) + 1] = Window
    BY <1>2, <1>5, <1>7, TargetFacts, AppendProperties
  <2>2. Len(path) \in Nat /\ DOMAIN path = 1..Len(path)
    BY <2>1, LenProperties
  <2>3. \A i \in 1..Len(path) : i \in 1..Len(doc) \/ i = Len(doc) + 1
    BY <1>5, <2>1
  <2>4. ToSet(path) = ToSet(doc) \cup {Window}
    <3>1. \A i \in 1..Len(doc) : i \in 1..Len(path)
      BY <1>5, <2>1
    <3>2. Len(doc) + 1 \in 1..Len(path)
      BY <1>5, <2>1
    <3> QED BY <1>5, <2>1, <2>2, <2>3, <3>1, <3>2 DEF ToSet
  <2>5. ToSet(path) = all \ {n}
    BY <1>1, <1>5, <1>7, <2>4
  <2>6. ASSUME NEW i \in DOMAIN path, NEW j \in DOMAIN path, i < j
        PROVE  path[i] # path[j] /\ Passes(t, path[j], path[i])
    <3>1. i \in 1..Len(doc) /\ path[i] = doc[i] /\ doc[i] \in Node
      BY <1>5, <2>1, <2>2, <2>6
    <3>2. CASE j \in 1..Len(doc)
      BY <1>5, <2>1, <2>6, <3>1, <3>2
    <3>3. CASE j = Len(doc) + 1
      BY <2>1, <3>1, <3>3, TargetFacts DEF Passes
    <3> QED BY <2>2, <2>3, <3>2, <3>3
  <2> QED BY <2>1, <2>5, <2>6 DEF path
<1> QED BY <1>6, <1>7

AVisit == [node : Target, capture : BOOLEAN, phase : 1..3]

(* The four kinds of visits.                                               *)
DownTo(m)   == Visit(m, TRUE, 1)
AtFirst(m)  == Visit(m, TRUE, 2)
AtSecond(m) == Visit(m, FALSE, 2)
UpTo(m)     == Visit(m, FALSE, 3)

LEMMA VisitFields ==
  ASSUME NEW m
  PROVE  /\ DownTo(m).node = m /\ DownTo(m).capture /\ DownTo(m).phase = 1
         /\ AtFirst(m).node = m /\ AtFirst(m).capture /\ AtFirst(m).phase = 2
         /\ AtSecond(m).node = m /\ ~AtSecond(m).capture /\ AtSecond(m).phase = 2
         /\ UpTo(m).node = m /\ ~UpTo(m).capture /\ UpTo(m).phase = 3
  BY DEF Visit, DownTo, AtFirst, AtSecond, UpTo

(* Where the visits stand: down, at the target twice, and up.              *)
LEMMA VisitPlaces ==
  ASSUME NEW n \in Target, NEW path \in Seq(Target), NEW bubbles \in BOOLEAN
  PROVE  LET k  == Len(path)
             vs == Visits(n, path, bubbles)
         IN /\ vs \in Seq(AVisit) /\ DOMAIN vs = 1..Len(vs)
            /\ Len(vs) = IF bubbles THEN k + 2 + k ELSE k + 2
            /\ \A i \in 1..k : vs[i] = DownTo(path[k + 1 - i])
            /\ vs[k + 1] = AtFirst(n) /\ vs[k + 2] = AtSecond(n)
            /\ bubbles => \A i \in 1..k : vs[k + 2 + i] = UpTo(path[i])
<1> DEFINE k    == Len(path)
           vs   == Visits(n, path, bubbles)
           cap  == [i \in DOMAIN path |-> DownTo(path[i])]
           down == [i \in 1..k |-> DownTo(path[k + 1 - i])]
           at   == <<AtFirst(n), AtSecond(n)>>
           up   == IF bubbles THEN [i \in DOMAIN path |-> UpTo(path[i])] ELSE <<>>
<1>1. k \in Nat /\ DOMAIN path = 1..k /\ \A i \in 1..k : path[i] \in Target
  BY LenProperties, ElementOfSeq
<1>2. /\ \A m \in Target : DownTo(m) \in AVisit /\ UpTo(m) \in AVisit
      /\ AtFirst(n) \in AVisit /\ AtSecond(n) \in AVisit
  BY DEF Visit, AVisit, DownTo, AtFirst, AtSecond, UpTo
<1>18. vs = (Reverse(cap) \o at) \o up
  BY DEF Visits, DownTo, AtFirst, AtSecond, UpTo
<1> HIDE DEF vs
<1>3. Reverse(cap) = down
  <2>1. Len(cap) = k
    BY <1>1
  <2>2. \A i \in 1..k : k - i + 1 \in 1..k /\ k - i + 1 = k + 1 - i
    BY <1>1
  <2>3. \A i \in 1..k : cap[k - i + 1] = DownTo(path[k + 1 - i])
    BY <1>1, <2>2
  <2> HIDE DEF cap
  <2> QED BY <2>1, <2>3 DEF Reverse
<1>4. down \in Seq(AVisit) /\ Len(down) = k
  <2>1. \A i \in 1..k : k + 1 - i \in 1..k
    BY <1>1
  <2>2. \A i \in 1..k : DownTo(path[k + 1 - i]) \in AVisit
    BY <1>1, <1>2, <2>1
  <2> QED BY <1>1, <2>2
<1>5. at \in Seq(AVisit) /\ Len(at) = 2 /\ at[1] = AtFirst(n) /\ at[2] = AtSecond(n)
  BY <1>2
<1>6. up \in Seq(AVisit) /\ Len(up) = IF bubbles THEN k ELSE 0
  BY <1>1, <1>2
<1>7. vs = (down \o at) \o up
  BY <1>3, <1>18
<1> DEFINE da == down \o at
<1>8. \A i \in 1..k : down[i] = DownTo(path[k + 1 - i])
  OBVIOUS
<1>9. bubbles => \A i \in 1..k : up[i] = UpTo(path[i])
  BY <1>1
<1> HIDE DEF down, at, up
<1>10. /\ da \in Seq(AVisit) /\ Len(da) = k + 2
       /\ \A i \in 1..(k + 2) : da[i] = IF i <= k THEN down[i] ELSE at[i - k]
  <2>1. /\ da \in Seq(AVisit) /\ Len(da) = Len(down) + Len(at)
        /\ \A i \in 1..(Len(down) + Len(at)) :
             da[i] = IF i <= Len(down) THEN down[i] ELSE at[i - Len(down)]
    <3> HIDE DEF k
    <3> QED BY <1>4, <1>5, ConcatProperties
  <2> HIDE DEF da
  <2> QED BY <1>4, <1>5, <2>1
<1>17. vs = da \o up
  BY <1>7
<1> HIDE DEF da
<1>11. /\ vs \in Seq(AVisit) /\ Len(vs) = k + 2 + Len(up)
       /\ \A i \in 1..(k + 2 + Len(up)) :
            vs[i] = IF i <= k + 2 THEN da[i] ELSE up[i - (k + 2)]
  <2>1. /\ vs \in Seq(AVisit) /\ Len(vs) = Len(da) + Len(up)
        /\ \A i \in 1..(Len(da) + Len(up)) :
             vs[i] = IF i <= Len(da) THEN da[i] ELSE up[i - Len(da)]
    BY <1>6, <1>10, <1>17, ConcatProperties
  <2> QED BY <1>10, <2>1
<1> HIDE DEF k
<1>12. Len(up) \in Nat
  BY <1>1, <1>6
<1>13. \A i \in 1..k : vs[i] = DownTo(path[k + 1 - i])
  <2>1. ASSUME NEW i \in 1..k PROVE vs[i] = down[i]
    <3>1. i \in 1..(k + 2 + Len(up)) /\ i <= k + 2 /\ i \in 1..(k + 2) /\ i <= k
      BY <1>1, <1>12
    <3> QED BY <1>10, <1>11, <3>1
  <2> QED BY <1>8, <2>1
<1>14. vs[k + 1] = AtFirst(n) /\ vs[k + 2] = AtSecond(n)
  <2>1. ASSUME NEW j \in 1..2 PROVE vs[k + j] = at[j]
    <3>1. PICK i : i = k + j
      OBVIOUS
    <3>2. /\ i \in 1..(k + 2 + Len(up)) /\ i \in 1..(k + 2) /\ ~(i <= k) /\ i - k = j
          /\ i <= k + 2
      BY <1>1, <1>12, <3>1
    <3>3. vs[i] = at[i - k]
      BY <1>10, <1>11, <3>2
    <3> QED BY <3>1, <3>2, <3>3
  <2> QED BY <1>5, <2>1
<1>15. bubbles => \A i \in 1..k : vs[k + 2 + i] = UpTo(path[i])
  <2>1. ASSUME bubbles, NEW i \in 1..k PROVE vs[k + 2 + i] = up[i]
    <3>1. PICK j : j = k + 2 + i
      OBVIOUS
    <3>2. /\ j \in 1..(k + 2 + Len(up)) /\ ~(j <= k + 2) /\ j - (k + 2) = i
      BY <1>1, <1>6, <2>1, <3>1
    <3>3. vs[j] = up[j - (k + 2)]
      BY <1>11, <3>2
    <3> QED BY <3>1, <3>2, <3>3
  <2> QED BY <1>9, <2>1
<1>16. DOMAIN vs = 1..Len(vs) /\ Len(vs) = IF bubbles THEN k + 2 + k ELSE k + 2
  BY <1>1, <1>6, <1>11, LenProperties
<1> QED BY <1>11, <1>13, <1>14, <1>15, <1>16 DEF k, vs

(* What an event passes, from the window to its target.                    *)
Passed(t, n) == {Document, Window} \cup IF n = Window THEN {} ELSE Above(t, n)

AreVisits(t, n, bubbles, vs) ==
  /\ vs \in Seq(AVisit) /\ DOMAIN vs = 1..Len(vs) /\ Len(vs) >= 2
  /\ \A i \in DOMAIN vs :
       /\ IF vs[i].node = n THEN vs[i].phase = 2
          ELSE vs[i].node \in Passed(t, n) /\ vs[i].phase # 2
       /\ vs[i].phase = 1 => vs[i].capture
       /\ vs[i].phase = 3 => ~vs[i].capture /\ bubbles
       /\ vs[i].phase = 2 /\ ~vs[i].capture => i > 1 /\ vs[i - 1].node = n
  /\ \A i, j \in DOMAIN vs : i < j =>
       /\ vs[i].phase <= vs[j].phase
       /\ vs[i].phase = vs[j].phase /\ vs[i].node # vs[j].node =>
            IF vs[j].phase = 1 THEN Passes(t, vs[i].node, vs[j].node)
            ELSE Passes(t, vs[j].node, vs[i].node)
       /\ ~(vs[i].node = vs[j].node /\ vs[i].capture = vs[j].capture)
  /\ \A m \in {n} \cup Passed(t, n) :
       /\ \E i \in DOMAIN vs : vs[i].node = m /\ vs[i].capture
       /\ m = n \/ bubbles => \E i \in DOMAIN vs : vs[i].node = m /\ ~vs[i].capture

LEMMA VisitFacts ==
  ASSUME NEW t, WellFormed(t), NEW n \in Target, NEW bubbles \in BOOLEAN
  PROVE  AreVisits(t, n, bubbles, Visits(n, PathOf(t, n), bubbles))
<1> DEFINE path == PathOf(t, n)
           k    == Len(path)
           vs   == Visits(n, path, bubbles)
<1>1. /\ path \in Seq(Target) /\ ToSet(path) = Passed(t, n) \ {n}
      /\ \A i, j \in DOMAIN path : i < j =>
           path[i] # path[j] /\ Passes(t, path[j], path[i])
  BY PathFacts DEF Passed
<1> HIDE DEF path
<1>2. k \in Nat /\ DOMAIN path = 1..k
  BY <1>1, LenProperties
<1>3. /\ vs \in Seq(AVisit) /\ DOMAIN vs = 1..Len(vs)
      /\ Len(vs) = IF bubbles THEN k + 2 + k ELSE k + 2
      /\ \A i \in 1..k : vs[i] = DownTo(path[k + 1 - i])
      /\ vs[k + 1] = AtFirst(n) /\ vs[k + 2] = AtSecond(n)
      /\ bubbles => \A i \in 1..k : vs[k + 2 + i] = UpTo(path[i])
  BY <1>1, VisitPlaces
<1>4. \A i \in 1..k : path[i] \in Passed(t, n) /\ path[i] # n
  BY <1>1, <1>2 DEF ToSet
<1> HIDE DEF k, vs
(* The four stretches of the visits.                                       *)
<1> DEFINE Dn(i)  == /\ i \in 1..k /\ vs[i].node = path[k + 1 - i] /\ vs[i].capture
                     /\ vs[i].phase = 1
           T1(i)  == i = k + 1 /\ vs[i].node = n /\ vs[i].capture /\ vs[i].phase = 2
           T2(i)  == i = k + 2 /\ vs[i].node = n /\ ~vs[i].capture /\ vs[i].phase = 2
           Up(i)  == /\ bubbles /\ i - (k + 2) \in 1..k /\ i > k + 2
                     /\ vs[i].node = path[i - (k + 2)]
                     /\ ~vs[i].capture /\ vs[i].phase = 3
<1>5. ASSUME NEW i \in DOMAIN vs PROVE i \in Nat /\ (Dn(i) \/ T1(i) \/ T2(i) \/ Up(i))
  <2>1. i \in Nat /\ (i \in 1..k \/ i = k + 1 \/ i = k + 2 \/ (bubbles /\ i - (k + 2) \in 1..k))
    BY <1>2, <1>3
  <2>2. CASE i \in 1..k
    <3>1. vs[i] = DownTo(path[k + 1 - i])
      BY <1>3, <2>2
    <3>2. Dn(i)
      BY <2>2, <3>1, VisitFields
    <3> QED BY <2>1, <3>2
  <2>3. CASE i = k + 1
    <3>1. T1(i)
      BY <1>3, <2>3, VisitFields
    <3> QED BY <2>1, <3>1
  <2>4. CASE i = k + 2
    <3>1. T2(i)
      BY <1>3, <2>4, VisitFields
    <3> QED BY <2>1, <3>1
  <2>5. CASE bubbles /\ i - (k + 2) \in 1..k
    <3>1. PICK j \in 1..k : j = i - (k + 2)
      BY <2>5
    <3>2. i = k + 2 + j /\ i > k + 2
      BY <1>2, <2>1, <3>1
    <3>3. vs[k + 2 + j] = UpTo(path[j])
      BY <1>3, <2>5
    <3>4. vs[i] = UpTo(path[j])
      BY <3>2, <3>3
    <3>5. vs[i].node = path[j] /\ ~vs[i].capture /\ vs[i].phase = 3
      BY <3>4, VisitFields
    <3>6. Up(i)
      BY <2>5, <3>1, <3>2, <3>5
    <3> QED BY <2>1, <3>6
  <2> QED BY <2>1, <2>2, <2>3, <2>4, <2>5
<1>6. /\ \A i \in 1..k : i \in DOMAIN vs /\ Dn(i)
      /\ k + 1 \in DOMAIN vs /\ T1(k + 1) /\ k + 2 \in DOMAIN vs /\ T2(k + 2)
      /\ bubbles => \A i \in 1..k : k + 2 + i \in DOMAIN vs /\ vs[k + 2 + i].node = path[i]
                                    /\ ~vs[k + 2 + i].capture
  <2>1. /\ \A i \in 1..k : i \in DOMAIN vs
        /\ k + 1 \in DOMAIN vs /\ k + 2 \in DOMAIN vs
        /\ bubbles => \A i \in 1..k : k + 2 + i \in DOMAIN vs
    BY <1>2, <1>3
  <2>2. \A i \in 1..k : Dn(i)
    BY <1>3, VisitFields
  <2>3. T1(k + 1) /\ T2(k + 2)
    BY <1>3, VisitFields
  <2>4. bubbles => \A i \in 1..k : vs[k + 2 + i].node = path[i] /\ ~vs[k + 2 + i].capture
    BY <1>3, VisitFields
  <2> HIDE DEF Dn, T1, T2
  <2> QED BY <2>1, <2>2, <2>3, <2>4
<1>7. \A i \in 1..k : k + 1 - i \in 1..k
  BY <1>2
<1>8. ASSUME NEW i \in DOMAIN vs
      PROVE  /\ IF vs[i].node = n THEN vs[i].phase = 2
                ELSE vs[i].node \in Passed(t, n) /\ vs[i].phase # 2
             /\ vs[i].phase = 1 => vs[i].capture
             /\ vs[i].phase = 3 => ~vs[i].capture /\ bubbles
             /\ vs[i].phase = 2 /\ ~vs[i].capture => i > 1 /\ vs[i - 1].node = n
  <2>1. CASE Dn(i)
    BY <1>4, <1>7, <2>1
  <2>2. CASE T1(i)
    BY <2>2
  <2>3. CASE T2(i)
    <3>1. i > 1 /\ i - 1 = k + 1
      BY <1>2, <2>3
    <3>2. vs[i - 1].node = n
      BY <1>6, <3>1
    <3> QED BY <2>3, <3>1, <3>2
  <2>4. CASE Up(i)
    BY <1>4, <2>4
  <2> QED BY <1>5, <2>1, <2>2, <2>3, <2>4
<1>13. ASSUME NEW i \in DOMAIN vs PROVE vs[i].capture \in BOOLEAN
  <2>1. vs[i] \in AVisit
    BY <1>3, ElementOfSeq
  <2> QED BY <2>1 DEF AVisit
<1>14. ASSUME NEW i \in DOMAIN vs
       PROVE  /\ Dn(i) => i <= k
              /\ T1(i) => i = k + 1
              /\ T2(i) => i = k + 2
              /\ Up(i) => i > k + 2
  BY <1>2
<1>9. ASSUME NEW i \in DOMAIN vs, NEW j \in DOMAIN vs, i < j
      PROVE  /\ vs[i].phase <= vs[j].phase
             /\ vs[i].phase = vs[j].phase /\ vs[i].node # vs[j].node =>
                  IF vs[j].phase = 1 THEN Passes(t, vs[i].node, vs[j].node)
                  ELSE Passes(t, vs[j].node, vs[i].node)
             /\ ~(vs[i].node = vs[j].node /\ vs[i].capture = vs[j].capture)
  <2>0. i \in Nat /\ j \in Nat
    BY <1>5
  <2>1. CASE Dn(j)
    <3>1. Dn(i)
      <4>1. j <= k
        BY <1>14, <2>1
      <4> HIDE DEF Dn, T1, T2, Up
      <4> QED BY <1>2, <1>5, <1>9, <1>14, <2>0, <4>1
    <3>2. PICK a \in 1..k, b \in 1..k : a = k + 1 - j /\ b = k + 1 - i
      BY <1>7, <2>1, <3>1
    <3>3. a < b
      BY <1>2, <1>9, <2>0, <3>2
    <3>4. path[a] # path[b] /\ Passes(t, path[b], path[a])
      BY <1>1, <1>2, <3>3
    <3>5. vs[i].node = path[b] /\ vs[j].node = path[a] /\ vs[i].phase = 1 /\ vs[j].phase = 1
      BY <2>1, <3>1, <3>2
    <3> QED BY <3>4, <3>5
  <2>2. CASE T1(j)
    <3>1. Dn(i)
      <4>1. j = k + 1
        BY <2>2
      <4> HIDE DEF Dn, T1, T2, Up
      <4> QED BY <1>2, <1>5, <1>9, <1>14, <2>0, <4>1
    <3>2. vs[i].node # n
      BY <1>4, <1>7, <3>1
    <3> QED BY <2>2, <3>1, <3>2
  <2>3. CASE T2(j)
    <3>1. Dn(i) \/ T1(i)
      <4>1. j = k + 2
        BY <2>3
      <4> HIDE DEF Dn, T1, T2, Up
      <4> QED BY <1>2, <1>5, <1>9, <1>14, <2>0, <4>1
    <3> QED BY <2>3, <3>1
  <2>4. CASE Up(j)
    <3>1. CASE Up(i)
      <4>1. PICK a \in 1..k, b \in 1..k : a = i - (k + 2) /\ b = j - (k + 2)
        BY <2>4, <3>1
      <4>2. a < b
        BY <1>2, <1>9, <2>0, <4>1
      <4>3. path[a] # path[b] /\ Passes(t, path[b], path[a])
        BY <1>1, <1>2, <4>2
      <4>4. vs[i].node = path[a] /\ vs[j].node = path[b] /\ vs[i].phase = 3 /\ vs[j].phase = 3
        BY <2>4, <3>1, <4>1
      <4> QED BY <4>3, <4>4
    <3>2. CASE Dn(i)
      <4>1. vs[i].capture /\ vs[i].phase = 1 /\ ~vs[j].capture /\ vs[j].phase = 3
        BY <2>4, <3>2
      <4>2. vs[i].capture # vs[j].capture
        BY <4>1
      <4>3. vs[i].phase <= vs[j].phase /\ vs[i].phase # vs[j].phase
        BY <4>1
      <4>4. ~(vs[i].node = vs[j].node /\ vs[i].capture = vs[j].capture)
        BY <4>2, Zenon
      <4> QED BY ONLY <4>3, <4>4
    <3>3. CASE T1(i)
      <4>1. vs[i].capture /\ vs[i].phase = 2 /\ ~vs[j].capture /\ vs[j].phase = 3
        BY <2>4, <3>3
      <4>2. vs[i].capture # vs[j].capture
        BY <4>1
      <4>3. vs[i].phase <= vs[j].phase /\ vs[i].phase # vs[j].phase
        BY <4>1
      <4>4. ~(vs[i].node = vs[j].node /\ vs[i].capture = vs[j].capture)
        BY <4>2, Zenon
      <4> QED BY ONLY <4>3, <4>4
    <3>4. CASE T2(i)
      <4>1. vs[j].node # n
        BY <1>4, <2>4
      <4> QED BY <2>4, <3>4, <4>1
    <3> QED BY <1>5, <3>1, <3>2, <3>3, <3>4
  <2> QED BY <1>5, <2>1, <2>2, <2>3, <2>4
<1>10. ASSUME NEW m \in {n} \cup Passed(t, n)
       PROVE  /\ \E i \in DOMAIN vs : vs[i].node = m /\ vs[i].capture
              /\ m = n \/ bubbles => \E i \in DOMAIN vs : vs[i].node = m /\ ~vs[i].capture
  <2>1. CASE m = n
    <3>1. k + 1 \in DOMAIN vs /\ vs[k + 1].node = n /\ vs[k + 1].capture
      BY <1>6
    <3>2. k + 2 \in DOMAIN vs /\ vs[k + 2].node = n /\ ~vs[k + 2].capture
      BY <1>6
    <3> QED BY <2>1, <3>1, <3>2
  <2>2. CASE m # n
    <3>1. PICK a \in 1..k : path[a] = m
      BY <1>1, <1>2, <2>2 DEF ToSet
    <3>2. PICK i \in 1..k : i = k + 1 - a
      BY <1>7
    <3>3. k + 1 - i = a
      BY <1>2, <3>2
    <3>4. i \in DOMAIN vs /\ vs[i].node = path[k + 1 - i] /\ vs[i].capture
      BY <1>6
    <3>5. bubbles => /\ k + 2 + a \in DOMAIN vs /\ vs[k + 2 + a].node = m
                     /\ ~vs[k + 2 + a].capture
      BY <1>6, <3>1
    <3> QED BY <2>2, <3>1, <3>3, <3>4, <3>5
  <2> QED BY <2>1, <2>2
<1>11. Len(vs) >= 2
  BY <1>2, <1>3
<1> HIDE DEF Dn, T1, T2, Up
<1>12. AreVisits(t, n, bubbles, vs)
  BY <1>3, <1>8, <1>9, <1>10, <1>11 DEF AreVisits
<1> QED BY <1>12 DEF vs, path

-----------------------------------------------------------------------------
(* The inductive invariant of the dispatch.                                *)

AnEvent ==
  [on : {TRUE}, target : Target, visits : Seq(AVisit), at : Nat, rest : Seq(Listener),
   calling : BOOLEAN, stop : BOOLEAN, stopNow : BOOLEAN]
ABeginning ==
  [on : {TRUE}, target : Target, bubbles : BOOLEAN, tree : Trees,
   listeners : [Target -> SUBSET Listener], stoppedBy : Target \cup {None}, atOnce : BOOLEAN]
ACall ==
  [node : Target, capture : BOOLEAN, phase : 1..3, callback : Callback,
   stoppedBy : Target \cup {None}, atOnce : BOOLEAN]

ListenersTyped ==
  listeners \in [Target -> Seq(Listener)] /\ \A n \in Target : Distinct(listeners[n])

EventTyped ==
  /\ event \in AnEvent \cup {NoEvent}
  /\ began \in ABeginning \cup {NoEvent}
  /\ heard \in Seq(ACall)
  /\ event.on => began.on
  /\ ~began.on => heard = <<>>

(* The visits of the last event, as planned when it began.                 *)
Planned == Visits(began.target, PathOf(began.tree, began.target), began.bubbles)
Here == Planned[event.at]

Matches(c, v) == c.node = v.node /\ c.capture = v.capture /\ c.phase = v.phase

(* The event in hand follows the plan; who stopped it is where it is, and  *)
(* the listeners that have been kept are still there.                      *)
OnPlan == event.on =>
  /\ event.visits = Planned /\ event.at \in DOMAIN Planned
  /\ Distinct(event.rest) /\ \A i \in DOMAIN event.rest : event.rest[i].capture = Here.capture
  /\ event.calling => event.rest # <<>>
  /\ event.stop <=> began.stoppedBy # None
  /\ event.stopNow => event.stop
  /\ began.stoppedBy \in {None, Here.node}
  /\ \A n \in Target : began.listeners[n] \subseteq ToSet(listeners[n])

(* The listeners that the visit has yet to call.                           *)
Waiting == IF event.calling THEN Tail(event.rest) ELSE event.rest

CallsInOrder == began.on =>
  /\ WellFormed(began.tree)
  /\ \A i \in DOMAIN heard :
       /\ heard[i].stoppedBy \in {None, heard[i].node}
       /\ \E k \in DOMAIN Planned :
            Matches(heard[i], Planned[k]) /\ (event.on => k <= event.at)
  /\ \A i, j \in DOMAIN heard : i < j =>
       \E k, l \in DOMAIN Planned :
         k <= l /\ Matches(heard[i], Planned[k]) /\ Matches(heard[j], Planned[l])

IsCall(c, v, callback) ==
  c.node = v.node /\ c.capture = v.capture /\ c.callback = callback

CallsOnce == began.on =>
  /\ \A i, j \in DOMAIN heard : i < j => ~IsCall(heard[i], heard[j], heard[j].callback)
  /\ event.on => \A i \in DOMAIN heard, j \in DOMAIN Waiting :
       ~IsCall(heard[i], Here, Waiting[j].callback)

CallsAll == began.on /\ began.stoppedBy = None =>
  \A k \in DOMAIN Planned : (event.on => k <= event.at) =>
    \A l \in began.listeners[Planned[k].node] : l.capture = Planned[k].capture =>
      \/ \E i \in DOMAIN heard : IsCall(heard[i], Planned[k], l.callback)
      \/ event.on /\ k = event.at /\ l \in ToSet(Waiting)

EInv == TreeInv /\ ListenersTyped /\ EventTyped /\ OnPlan /\ CallsInOrder /\ CallsOnce /\ CallsAll

LEMMA PlannedFacts ==
  ASSUME EventTyped, CallsInOrder, began.on
  PROVE  /\ began \in ABeginning
         /\ AreVisits(began.tree, began.target, began.bubbles, Planned)
<1>1. began \in ABeginning
  BY DEF EventTyped, NoEvent
<1>2. began.target \in Target /\ began.bubbles \in BOOLEAN
  BY <1>1 DEF ABeginning
<1>3. WellFormed(began.tree)
  BY DEF CallsInOrder
<1> QED BY <1>1, <1>2, <1>3, VisitFacts DEF Planned

LEMMA OrderIsPath == EventTyped /\ CallsInOrder => EventsFollowThePath
<1> SUFFICES ASSUME EventTyped, CallsInOrder, NEW j \in DOMAIN heard
             PROVE  LET h == heard[j]
                    IN /\ IF h.node = began.target THEN h.phase = 2
                          ELSE h.node \in OnPath /\ h.phase # 2
                       /\ h.phase = 1 => h.capture
                       /\ h.phase = 3 => ~h.capture /\ began.bubbles
                       /\ h.stoppedBy \in {None, h.node}
                       /\ \A i \in 1 .. j - 1 :
                            /\ heard[i].phase <= h.phase
                            /\ heard[i].phase = h.phase /\ heard[i].node # h.node =>
                                 IF h.phase = 1 THEN Outside(heard[i].node, h.node)
                                 ELSE Outside(h.node, heard[i].node)
  BY DEF EventsFollowThePath
<1>1. began.on
  BY DEF EventTyped
<1>2. heard \in Seq(ACall) /\ DOMAIN heard = 1..Len(heard) /\ Len(heard) \in Nat
  BY LenProperties DEF EventTyped
<1> DEFINE t == began.tree
           n == began.target
<1>3. AreVisits(t, n, began.bubbles, Planned)
  BY <1>1, PlannedFacts
<1>4. OnPath = Passed(t, n)
  BY DEF OnPath, Passed
<1>5. \A a, b : Outside(a, b) <=> Passes(t, a, b)
  BY DEF Outside, Passes
<1>6. PICK k \in DOMAIN Planned : Matches(heard[j], Planned[k])
  BY <1>1 DEF CallsInOrder
<1>7. heard[j].stoppedBy \in {None, heard[j].node}
  BY <1>1 DEF CallsInOrder
<1> HIDE DEF t, n
<1>8. /\ IF heard[j].node = n THEN heard[j].phase = 2
         ELSE heard[j].node \in OnPath /\ heard[j].phase # 2
      /\ heard[j].phase = 1 => heard[j].capture
      /\ heard[j].phase = 3 => ~heard[j].capture /\ began.bubbles
  <2>1. /\ IF Planned[k].node = n THEN Planned[k].phase = 2
           ELSE Planned[k].node \in Passed(t, n) /\ Planned[k].phase # 2
        /\ Planned[k].phase = 1 => Planned[k].capture
        /\ Planned[k].phase = 3 => ~Planned[k].capture /\ began.bubbles
    BY <1>3 DEF AreVisits
  <2>2. /\ heard[j].node = Planned[k].node /\ heard[j].phase = Planned[k].phase
        /\ heard[j].capture = Planned[k].capture
    BY <1>6 DEF Matches
  <2> QED BY <1>4, <2>1, <2>2
<1>9. ASSUME NEW i \in 1 .. j - 1
      PROVE  /\ heard[i].phase <= heard[j].phase
             /\ heard[i].phase = heard[j].phase /\ heard[i].node # heard[j].node =>
                  IF heard[j].phase = 1 THEN Outside(heard[i].node, heard[j].node)
                  ELSE Outside(heard[j].node, heard[i].node)
  <2>1. i \in DOMAIN heard /\ i < j
    BY <1>2
  <2>2. PICK a \in DOMAIN Planned, b \in DOMAIN Planned :
          a <= b /\ Matches(heard[i], Planned[a]) /\ Matches(heard[j], Planned[b])
    BY <1>1, <2>1 DEF CallsInOrder
  <2>3. /\ heard[i].node = Planned[a].node /\ heard[i].phase = Planned[a].phase
        /\ heard[j].node = Planned[b].node /\ heard[j].phase = Planned[b].phase
    BY <2>2 DEF Matches
  <2>4. a \in Int /\ b \in Int /\ Planned[a] \in AVisit
    BY <1>3, ElementOfSeq DEF AreVisits
  <2>5. Planned[a].phase \in Int
    BY <2>4 DEF AVisit
  <2>6. CASE a = b
    BY <2>3, <2>5, <2>6
  <2>7. CASE a # b
    <3>1. a < b
      BY <2>2, <2>4, <2>7
    <3>2. /\ Planned[a].phase <= Planned[b].phase
          /\ Planned[a].phase = Planned[b].phase /\ Planned[a].node # Planned[b].node =>
               IF Planned[b].phase = 1 THEN Passes(t, Planned[a].node, Planned[b].node)
               ELSE Passes(t, Planned[b].node, Planned[a].node)
      BY <1>3, <3>1 DEF AreVisits
    <3> QED BY <1>5, <2>3, <3>2
  <2> QED BY <2>6, <2>7
<1> QED BY <1>7, <1>8, <1>9 DEF n

LEMMA PlanIsHeard ==
  EventTyped /\ CallsInOrder /\ CallsOnce /\ CallsAll => ListenersHearEvents
<1> SUFFICES ASSUME EventTyped, CallsInOrder, CallsOnce, CallsAll, began.on, ~event.on,
                    NEW n \in {began.target} \cup OnPath, NEW l \in began.listeners[n]
             PROVE  LET calls == {i \in DOMAIN heard :
                                    /\ heard[i].node = n /\ heard[i].capture = l.capture
                                    /\ heard[i].callback = l.callback}
                    IN /\ Cardinality(calls) <= 1
                       /\ /\ began.stoppedBy = None
                          /\ (l.capture \/ n = began.target \/ began.bubbles)
                          => Cardinality(calls) = 1
  BY DEF ListenersHearEvents
<1> DEFINE calls == {i \in DOMAIN heard : /\ heard[i].node = n /\ heard[i].capture = l.capture
                                         /\ heard[i].callback = l.callback}
<1>1. DOMAIN heard = 1..Len(heard) /\ Len(heard) \in Nat
  BY LenProperties DEF EventTyped
<1>2. ASSUME NEW i \in calls, NEW j \in calls PROVE i = j
  <2>1. i \in Nat /\ j \in Nat /\ i \in DOMAIN heard /\ j \in DOMAIN heard
    BY <1>1
  <2>2. ASSUME NEW a \in calls, NEW b \in calls, a < b PROVE FALSE
    <3>1. IsCall(heard[a], heard[b], heard[b].callback)
      BY DEF IsCall
    <3> QED BY <2>2, <3>1 DEF CallsOnce
  <2> HIDE DEF calls
  <2> QED BY <2>1, <2>2
<1>3. calls # {} => \E i : calls = {i}
  <2> HIDE DEF calls
  <2> QED BY <1>2
<1>4. Cardinality(calls) <= 1 /\ (calls # {} => Cardinality(calls) = 1)
  <2> HIDE DEF calls
  <2>1. CASE calls = {}
    BY <2>1, FS_EmptySet
  <2>2. CASE calls # {}
    BY <1>3, <2>2, FS_Singleton
  <2> QED BY <2>1, <2>2
<1>5. ASSUME began.stoppedBy = None, l.capture \/ n = began.target \/ began.bubbles
      PROVE  calls # {}
  <2>1. began \in ABeginning /\ AreVisits(began.tree, began.target, began.bubbles, Planned)
    BY PlannedFacts
  <2>2. n \in {began.target} \cup Passed(began.tree, began.target)
    BY DEF OnPath, Passed
  <2>3. l \in Listener
    <3>1. began.target \in Target /\ began.listeners \in [Target -> SUBSET Listener]
      BY <2>1 DEF ABeginning
    <3>2. Passed(began.tree, began.target) \subseteq Target
      <4>1. ASSUME began.target # Window
            PROVE  Above(began.tree, began.target) \subseteq Inner
        <5>1. began.target \in Node /\ began.tree \in Trees /\ Rooted(began.tree)
          BY <3>1, <4>1, TargetFacts DEF CallsInOrder, WellFormed
        <5> QED BY <5>1, AboveFacts
      <4> QED BY <4>1, TargetFacts, NodeFacts DEF Passed
    <3> QED BY <2>2, <3>1, <3>2
  <2>4. l.capture \in BOOLEAN
    BY <2>3 DEF Listener
  <2>5. PICK k \in DOMAIN Planned : Planned[k].node = n /\ Planned[k].capture = l.capture
    <3>1. \A k \in DOMAIN Planned : Planned[k].capture \in BOOLEAN
      <4>1. \A k \in DOMAIN Planned : Planned[k] \in AVisit
        BY <2>1, ElementOfSeq DEF AreVisits
      <4> QED BY <4>1 DEF AVisit
    <3>2. CASE l.capture
      <4>1. PICK k \in DOMAIN Planned : Planned[k].node = n /\ Planned[k].capture
        BY <2>1, <2>2 DEF AreVisits
      <4> QED BY <2>4, <3>1, <3>2, <4>1
    <3>3. CASE ~l.capture
      <4>1. PICK k \in DOMAIN Planned : Planned[k].node = n /\ ~Planned[k].capture
        BY <1>5, <2>1, <2>2, <3>3 DEF AreVisits
      <4> QED BY <2>4, <3>1, <3>3, <4>1
    <3> QED BY <3>2, <3>3
  <2>6. PICK i \in DOMAIN heard : IsCall(heard[i], Planned[k], l.callback)
    BY <1>5, <2>5 DEF CallsAll
  <2>7. i \in calls
    BY <2>5, <2>6 DEF IsCall
  <2> QED BY <2>7
<1> QED BY <1>4, <1>5

-----------------------------------------------------------------------------
(* The lists of listeners.                                                 *)

LEMMA PickedFacts ==
  ASSUME NEW S, NEW q \in Seq(S), Distinct(q), NEW I \in SUBSET DOMAIN q
  PROVE  /\ Pick(q, I) \in Seq(S) /\ Distinct(Pick(q, I))
         /\ ToSet(Pick(q, I)) = {q[i] : i \in I}
<1> DEFINE p == Pick(q, I)
<1>1. p \in Seq(S) /\ DOMAIN p = 1..Len(p) /\ DOMAIN q = 1..Len(q)
  BY PickFacts, LenProperties
<1>2. PICK at : Places(at, p, q, I)
  BY PickFacts
<1> HIDE DEF p
<1>3. /\ \A n \in 1..Len(p) : p[n] = q[at[n]] /\ at[n] \in I
      /\ \A i \in I : \E n \in 1..Len(p) : at[n] = i
      /\ \A m, n \in 1..Len(p) : m < n => at[m] < at[n]
      /\ \A n \in 1..Len(p) : at[n] \in 1..Len(q)
  BY <1>2 DEF Places
<1>4. ToSet(p) = {q[i] : i \in I}
  <2>1. ASSUME NEW n \in 1..Len(p) PROVE p[n] \in {q[i] : i \in I}
    BY <1>3
  <2>2. ASSUME NEW i \in I PROVE \E n \in 1..Len(p) : p[n] = q[i]
    BY <1>3
  <2>3. ToSet(p) = {p[n] : n \in 1..Len(p)}
    BY <1>1 DEF ToSet
  <2> QED BY <2>1, <2>2, <2>3
<1>5. Distinct(p)
  <2>1. ASSUME NEW m \in 1..Len(p), NEW n \in 1..Len(p), m < n PROVE p[m] # p[n]
    <3>1. at[m] < at[n] /\ at[m] \in 1..Len(q) /\ at[n] \in 1..Len(q)
      BY <1>3, <2>1
    <3>2. at[m] # at[n]
      BY <3>1
    <3>3. q[at[m]] # q[at[n]]
      BY <1>1, <3>1, <3>2 DEF Distinct
    <3> QED BY <1>3, <3>3
  <2>2. ASSUME NEW m \in 1..Len(p), NEW n \in 1..Len(p), p[m] = p[n] PROVE m = n
    BY <2>1, <2>2
  <2> QED BY <1>1, <2>2 DEF Distinct
<1> QED BY <1>1, <1>4, <1>5 DEF p

LEMMA WithoutFacts ==
  ASSUME NEW list \in Seq(Listener), Distinct(list), NEW l
  PROVE  /\ Without(list, l) \in Seq(Listener) /\ Distinct(Without(list, l))
         /\ ToSet(Without(list, l)) = ToSet(list) \ {l}
<1> DEFINE I == {i \in DOMAIN list : list[i] # l}
<1>1. I \in SUBSET DOMAIN list /\ Without(list, l) = Pick(list, I)
  BY DEF Without
<1>2. {list[i] : i \in I} = ToSet(list) \ {l}
  BY DEF ToSet
<1> HIDE DEF I
<1> QED BY <1>1, <1>2, PickedFacts

LEMMA CalledFacts ==
  ASSUME NEW list \in Seq(Listener), Distinct(list), NEW c
  PROVE  /\ Called(list, c) \in Seq(Listener) /\ Distinct(Called(list, c))
         /\ ToSet(Called(list, c)) = {l \in ToSet(list) : l.capture = c}
<1> DEFINE I == {i \in DOMAIN list : list[i].capture = c}
<1>1. I \in SUBSET DOMAIN list /\ Called(list, c) = Pick(list, I)
  BY DEF Called
<1>2. {list[i] : i \in I} = {l \in ToSet(list) : l.capture = c}
  BY DEF ToSet
<1> HIDE DEF I
<1> QED BY <1>1, <1>2, PickedFacts

LEMMA AddedFacts ==
  ASSUME NEW list \in Seq(Listener), Distinct(list), NEW l \in Listener, l \notin ToSet(list)
  PROVE  /\ Append(list, l) \in Seq(Listener) /\ Distinct(Append(list, l))
         /\ ToSet(Append(list, l)) = ToSet(list) \cup {l}
<1> DEFINE a == Append(list, l)
<1>1. /\ a \in Seq(Listener) /\ Len(a) = Len(list) + 1
      /\ \A i \in 1..Len(list) : a[i] = list[i]
      /\ a[Len(list) + 1] = l
  BY AppendProperties
<1> HIDE DEF a
<1>2. /\ Len(list) \in Nat /\ DOMAIN list = 1..Len(list) /\ DOMAIN a = 1..(Len(list) + 1)
  BY <1>1, LenProperties
<1>3. \A i \in 1..(Len(list) + 1) : i \in 1..Len(list) \/ i = Len(list) + 1
  BY <1>2
<1>4. \A i \in 1..Len(list) : i \in 1..(Len(list) + 1) /\ list[i] # l
  BY <1>2 DEF ToSet
<1>5. Len(list) + 1 \in 1..(Len(list) + 1)
  BY <1>2
<1>6. ToSet(a) = ToSet(list) \cup {l}
  BY <1>1, <1>2, <1>3, <1>4, <1>5 DEF ToSet
<1>7. Distinct(a)
  BY <1>1, <1>2, <1>3, <1>4 DEF Distinct
<1> QED BY <1>1, <1>6, <1>7 DEF a

(* The listeners keep their shape, and only what is removed is lost.       *)
LEMMA ListenersKept ==
  ASSUME ListenersTyped, [Next]_vars
  PROVE  ListenersTyped'
<1>0. /\ listeners \in [Target -> Seq(Listener)]
      /\ \A n \in Target : listeners[n] \in Seq(Listener) /\ Distinct(listeners[n])
  BY DEF ListenersTyped
<1>1. Hears \subseteq Target
  BY TargetFacts DEF Hears, Node, Inner
<1>2. ASSUME NEW n \in Hears, NEW l \in Listener, AddEventListener(n, l)
      PROVE  ListenersTyped'
  <2>1. /\ listeners' = [listeners EXCEPT ![n] = Append(listeners[n], l)]
        /\ l \notin ToSet(listeners[n])
    BY <1>2 DEF AddEventListener
  <2>2. Append(listeners[n], l) \in Seq(Listener) /\ Distinct(Append(listeners[n], l))
    BY <1>0, <1>1, <2>1, AddedFacts
  <2> QED BY <1>0, <1>1, <2>1, <2>2 DEF ListenersTyped
<1>3. ASSUME NEW n \in Hears, NEW l \in Listener, RemoveEventListener(n, l)
      PROVE  ListenersTyped'
  <2>1. listeners' = [listeners EXCEPT ![n] = Without(listeners[n], l)]
    BY <1>3 DEF RemoveEventListener
  <2>2. Without(listeners[n], l) \in Seq(Listener) /\ Distinct(Without(listeners[n], l))
    BY <1>0, <1>1, WithoutFacts
  <2> QED BY <1>0, <1>1, <2>1, <2>2 DEF ListenersTyped
<1>4. CASE listeners' = listeners
  BY <1>4 DEF ListenersTyped
<1>5. CASE \/ Edit \/ UNCHANGED vars
           \/ \E n \in Element : Focus(n) \/ Blur(n)
           \/ DispatchPointer \/ DispatchKey \/ DispatchResize
           \/ CallListener \/ StopPropagation \/ StopImmediatePropagation
           \/ ListenerReturns \/ ListenerThrows \/ NextVisit
  BY <1>4, <1>5 DEF Edit, Focus, Blur, vars, DispatchPointer, DispatchKey, DispatchResize,
     Dispatch, CallListener, StopPropagation, StopImmediatePropagation, ListenerReturns,
     ListenerThrows, NextVisit
<1> QED BY <1>2, <1>3, <1>5 DEF Next

-----------------------------------------------------------------------------
(* The steps of the dispatch.                                              *)

Dispatching == EventTyped /\ OnPlan /\ CallsInOrder /\ CallsOnce /\ CallsAll

LEMMA NoEventIsOff == NoEvent.on = FALSE
  BY DEF NoEvent

(* Between events, or when a listener has thrown, nothing is remembered.   *)
LEMMA QuietStep ==
  ASSUME event' = NoEvent, heard' = <<>>, began' = NoEvent
  PROVE  Dispatching'
<1>1. ~event'.on /\ ~began'.on
  BY NoEventIsOff
<1>2. EventTyped'
  BY <1>1 DEF EventTyped
<1> QED BY <1>1, <1>2 DEF Dispatching, OnPlan, CallsInOrder, CallsOnce, CallsAll

(* A call the program makes while a listener is called: what was kept so   *)
(* far may be lost, and what is still kept is there.                       *)
LEMMA DuringStep ==
  ASSUME Dispatching, event.on, event' = event, heard' = heard,
         began' \in ABeginning,
         began'.target = began.target, began'.bubbles = began.bubbles,
         began'.tree = began.tree, began'.stoppedBy = began.stoppedBy,
         \A n \in Target : began'.listeners[n] \subseteq began.listeners[n]
                           /\ began'.listeners[n] \subseteq ToSet(listeners'[n])
  PROVE  Dispatching'
<1>1. began.on /\ began'.on
  BY DEF Dispatching, EventTyped, ABeginning
<1>2. Planned' = Planned
  BY DEF Planned
<1>3. Here' = Here /\ Waiting' = Waiting
  BY <1>2 DEF Here, Waiting
<1>4. EventTyped'
  BY <1>1 DEF Dispatching, EventTyped
<1>5. OnPlan'
  BY <1>2, <1>3 DEF Dispatching, OnPlan
<1>6. CallsInOrder'
  BY <1>1, <1>2 DEF Dispatching, CallsInOrder
<1>7. CallsOnce'
  BY <1>1, <1>3 DEF Dispatching, CallsOnce
<1>8. CallsAll'
  <2>1. \A k \in DOMAIN Planned : Planned[k].node \in Target
    <3>1. AreVisits(began.tree, began.target, began.bubbles, Planned)
      BY <1>1, PlannedFacts DEF Dispatching
    <3>2. \A k \in DOMAIN Planned : Planned[k] \in AVisit
      BY <3>1, ElementOfSeq DEF AreVisits
    <3> QED BY <3>2 DEF AVisit
  <2> QED BY <1>1, <1>2, <1>3, <2>1 DEF Dispatching, CallsAll
<1> QED BY <1>4, <1>5, <1>6, <1>7, <1>8 DEF Dispatching

(* Every call the program makes.                                           *)
LEMMA ProgramStep ==
  ASSUME Dispatching, ListenersTyped, Program(began),
         \A n \in Target : ToSet(listeners[n]) \subseteq ToSet(listeners'[n])
  PROVE  Dispatching'
<1>1. CASE ~event.on
  <2>1. event = NoEvent
    BY <1>1 DEF Dispatching, EventTyped, AnEvent
  <2> QED BY <1>1, <2>1, QuietStep DEF Program
<1>2. CASE event.on
  <2>1. event' = event /\ heard' = heard /\ began' = began
    BY <1>2 DEF Program
  <2>2. began \in ABeginning
    BY <1>2 DEF Dispatching, EventTyped, NoEvent
  <2>3. \A n \in Target : began.listeners[n] \subseteq ToSet(listeners[n])
    BY <1>2 DEF Dispatching, OnPlan
  <2> QED BY <1>2, <2>1, <2>2, <2>3, DuringStep
<1> QED BY <1>1, <1>2

LEMMA AddStep ==
  ASSUME Dispatching, ListenersTyped, NEW n \in Target, NEW l \in Listener,
         AddEventListener(n, l)
  PROVE  Dispatching'
<1>1. /\ listeners \in [Target -> Seq(Listener)] /\ Distinct(listeners[n])
      /\ listeners[n] \in Seq(Listener)
  BY DEF ListenersTyped
<1>2. /\ listeners' = [listeners EXCEPT ![n] = Append(listeners[n], l)]
      /\ l \notin ToSet(listeners[n]) /\ Program(began)
  BY DEF AddEventListener
<1>3. ToSet(Append(listeners[n], l)) = ToSet(listeners[n]) \cup {l}
  BY <1>1, <1>2, AddedFacts
<1>4. \A m \in Target : ToSet(listeners[m]) \subseteq ToSet(listeners'[m])
  BY <1>1, <1>2, <1>3
<1> QED BY <1>2, <1>4, ProgramStep

LEMMA RemoveStep ==
  ASSUME Dispatching, ListenersTyped, NEW n \in Target, NEW l \in Listener,
         RemoveEventListener(n, l)
  PROVE  Dispatching'
<1> DEFINE kept == [began EXCEPT !.listeners = KeptWithout(n, l)]
<1>1. /\ listeners \in [Target -> Seq(Listener)] /\ Distinct(listeners[n])
      /\ listeners[n] \in Seq(Listener)
  BY DEF ListenersTyped
<1>2. listeners' = [listeners EXCEPT ![n] = Without(listeners[n], l)] /\ Program(kept)
  BY DEF RemoveEventListener
<1>3. ToSet(Without(listeners[n], l)) = ToSet(listeners[n]) \ {l}
  BY <1>1, WithoutFacts
<1>4. CASE ~event.on
  <2>1. event = NoEvent
    BY <1>4 DEF Dispatching, EventTyped, AnEvent
  <2> HIDE DEF kept
  <2> QED BY <1>2, <1>4, <2>1, QuietStep DEF Program
<1>5. CASE event.on
  <2>1. event' = event /\ heard' = heard /\ began' = kept
    <3> HIDE DEF kept
    <3> QED BY <1>2, <1>5 DEF Program
  <2>2. began \in ABeginning
    BY <1>5 DEF Dispatching, EventTyped, NoEvent
  <2>3. \A m \in Target : began.listeners[m] \subseteq ToSet(listeners[m])
    BY <1>5 DEF Dispatching, OnPlan
  <2>4. /\ kept.target = began.target /\ kept.bubbles = began.bubbles
        /\ kept.tree = began.tree /\ kept.stoppedBy = began.stoppedBy
        /\ kept.listeners = KeptWithout(n, l)
        /\ kept \in ABeginning
    <3>1. KeptWithout(n, l) \in [Target -> SUBSET Listener]
      BY <2>2 DEF ABeginning, KeptWithout
    <3>2. /\ kept.target = began.target /\ kept.bubbles = began.bubbles
          /\ kept.tree = began.tree /\ kept.stoppedBy = began.stoppedBy
          /\ kept.listeners = KeptWithout(n, l)
      BY <2>2 DEF ABeginning
    <3>3. kept \in ABeginning
      BY <2>2, <3>1 DEF ABeginning
    <3> HIDE DEF kept
    <3> QED BY <3>2, <3>3
  <2>5. \A m \in Target : kept.listeners[m] = IF m = n THEN began.listeners[m] \ {l}
                                              ELSE began.listeners[m]
    <3>1. began.listeners \in [Target -> SUBSET Listener]
      BY <2>2 DEF ABeginning
    <3> HIDE DEF kept
    <3> QED BY <2>4, <3>1 DEF KeptWithout
  <2>6. \A m \in Target : ToSet(listeners'[m]) = IF m = n THEN ToSet(listeners[m]) \ {l}
                                                 ELSE ToSet(listeners[m])
    BY <1>1, <1>2, <1>3
  <2>7. \A m \in Target : kept.listeners[m] \subseteq began.listeners[m]
                          /\ kept.listeners[m] \subseteq ToSet(listeners'[m])
    <3> HIDE DEF kept
    <3> QED BY <2>3, <2>5, <2>6
  <2> HIDE DEF kept
  <2> QED BY <1>5, <2>1, <2>4, <2>7, DuringStep
<1> QED BY <1>4, <1>5

(* A visit begins with a copy of the node's listeners.                     *)
LEMMA EnterStep ==
  ASSUME ListenersTyped, listeners' = listeners,
         EventTyped', event'.on, WellFormed(began'.tree),
         event'.visits = Planned', event'.at \in DOMAIN Planned',
         event'.rest = Called(listeners[Here'.node], Here'.capture), ~event'.calling,
         event'.stop <=> began'.stoppedBy # None, event'.stopNow => event'.stop,
         began'.stoppedBy \in {None, Here'.node},
         \A n \in Target : began'.listeners[n] \subseteq ToSet(listeners[n]),
         \A i \in DOMAIN heard' :
           /\ heard'[i].stoppedBy \in {None, heard'[i].node}
           /\ \E k \in DOMAIN Planned' : Matches(heard'[i], Planned'[k]) /\ k < event'.at,
         \A i, j \in DOMAIN heard' : i < j =>
           /\ \E k, l \in DOMAIN Planned' :
                k <= l /\ Matches(heard'[i], Planned'[k]) /\ Matches(heard'[j], Planned'[l])
           /\ ~IsCall(heard'[i], heard'[j], heard'[j].callback),
         began'.stoppedBy = None =>
           \A k \in DOMAIN Planned' : k < event'.at =>
             \A l \in began'.listeners[Planned'[k].node] : l.capture = Planned'[k].capture =>
               \E i \in DOMAIN heard' : IsCall(heard'[i], Planned'[k], l.callback)
  PROVE  Dispatching'
<1> DEFINE at == event'.at
           rest == event'.rest
<1>0. began'.on
  BY DEF EventTyped
<1>1. began' \in ABeginning
  BY <1>0 DEF EventTyped, NoEvent
<1>2. AreVisits(began'.tree, began'.target, began'.bubbles, Planned')
  <2>1. began'.target \in Target /\ began'.bubbles \in BOOLEAN
    BY <1>1 DEF ABeginning
  <2> QED BY <2>1, VisitFacts DEF Planned
<1>3. /\ DOMAIN Planned' \subseteq Nat
      /\ \A k \in DOMAIN Planned' : Planned'[k] \in AVisit /\ Planned'[k].node \in Target
  <2>1. DOMAIN Planned' = 1..Len(Planned') /\ \A k \in DOMAIN Planned' : Planned'[k] \in AVisit
    BY <1>2, ElementOfSeq DEF AreVisits
  <2> QED BY <2>1 DEF AVisit
<1>4. Here' = Planned'[at] /\ Here'.node \in Target
  BY <1>3 DEF Here
<1>5. /\ rest \in Seq(Listener) /\ Distinct(rest)
      /\ ToSet(rest) = {l \in ToSet(listeners[Here'.node]) : l.capture = Here'.capture}
  <2>1. listeners[Here'.node] \in Seq(Listener) /\ Distinct(listeners[Here'.node])
    BY <1>4 DEF ListenersTyped
  <2> QED BY <2>1, CalledFacts
<1>6. Waiting' = rest
  BY DEF Waiting
<1>7. OnPlan'
  <2>1. \A i \in DOMAIN rest : rest[i].capture = Here'.capture
    BY <1>5 DEF ToSet
  <2>2. event'.on => /\ event'.visits = Planned' /\ event'.at \in DOMAIN Planned'
                     /\ Distinct(event'.rest)
                     /\ \A i \in DOMAIN event'.rest : event'.rest[i].capture = Here'.capture
                     /\ event'.calling => event'.rest # <<>>
                     /\ event'.stop <=> began'.stoppedBy # None
                     /\ event'.stopNow => event'.stop
                     /\ began'.stoppedBy \in {None, Here'.node}
                     /\ \A n \in Target : began'.listeners[n] \subseteq ToSet(listeners'[n])
    BY <1>5, <2>1
  <2> QED BY <2>2 DEF OnPlan
<1>8. CallsInOrder'
  <2>1. \A i \in DOMAIN heard' :
          \E k \in DOMAIN Planned' : Matches(heard'[i], Planned'[k]) /\ k <= at
    BY <1>3
  <2> QED BY <2>1 DEF CallsInOrder
<1>9. CallsOnce'
  <2>1. ASSUME NEW i \in DOMAIN heard', NEW j \in DOMAIN rest
        PROVE  ~IsCall(heard'[i], Here', rest[j].callback)
    <3>1. PICK k \in DOMAIN Planned' : Matches(heard'[i], Planned'[k]) /\ k < at
      OBVIOUS
    <3>2. ~(Planned'[k].node = Planned'[at].node /\ Planned'[k].capture = Planned'[at].capture)
      BY <1>2, <3>1 DEF AreVisits
    <3> QED BY <1>4, <3>1, <3>2 DEF Matches, IsCall
  <2> QED BY <1>6, <2>1 DEF CallsOnce
<1>10. CallsAll'
  <2>1. ASSUME began'.stoppedBy = None, NEW k \in DOMAIN Planned', k <= at,
               NEW l \in began'.listeners[Planned'[k].node], l.capture = Planned'[k].capture
        PROVE  \/ \E i \in DOMAIN heard' : IsCall(heard'[i], Planned'[k], l.callback)
               \/ event'.on /\ k = event'.at /\ l \in ToSet(Waiting')
    <3>1. CASE k < at
      BY <2>1, <3>1
    <3>2. CASE k = at
      <4>1. l \in ToSet(listeners[Here'.node])
        BY <1>4, <3>2
      <4> QED BY <1>4, <1>5, <1>6, <2>1, <3>2, <4>1
    <3>3. k < at \/ k = at
      BY <1>3, <2>1
    <3> QED BY <3>1, <3>2, <3>3
  <2> QED BY <2>1 DEF CallsAll
<1> QED BY <1>7, <1>8, <1>9, <1>10 DEF Dispatching

LEMMA EnteredFacts ==
  ASSUME ListenersTyped, NEW e \in AnEvent, NEW i \in DOMAIN e.visits
  PROVE  /\ Entered(e, i) \in AnEvent /\ Entered(e, i).at = i
         /\ Entered(e, i).rest = Called(listeners[e.visits[i].node], e.visits[i].capture)
         /\ Entered(e, i).visits = e.visits /\ Entered(e, i).calling = e.calling
         /\ Entered(e, i).stop = e.stop /\ Entered(e, i).stopNow = e.stopNow
<1> DEFINE rest == Called(listeners[e.visits[i].node], e.visits[i].capture)
<1>1. e.visits \in Seq(AVisit)
  BY DEF AnEvent
<1>2. i \in Nat /\ e.visits[i] \in AVisit
  BY <1>1, LenProperties, ElementOfSeq
<1>3. e.visits[i].node \in Target
  BY <1>2 DEF AVisit
<1>4. listeners[e.visits[i].node] \in Seq(Listener) /\ Distinct(listeners[e.visits[i].node])
  BY <1>3 DEF ListenersTyped
<1>5. rest \in Seq(Listener)
  BY <1>4, CalledFacts
<1>6. Entered(e, i) = [e EXCEPT !.at = i, !.rest = rest]
  BY DEF Entered
<1> HIDE DEF rest
<1>7. Entered(e, i) \in AnEvent
  BY <1>2, <1>5, <1>6 DEF AnEvent
<1>8. /\ Entered(e, i).at = i /\ Entered(e, i).rest = rest
      /\ Entered(e, i).visits = e.visits /\ Entered(e, i).calling = e.calling
      /\ Entered(e, i).stop = e.stop /\ Entered(e, i).stopNow = e.stopNow
  BY <1>6 DEF AnEvent
<1> QED BY <1>7, <1>8 DEF rest

LEMMA DispatchStep ==
  ASSUME TreeInv, ListenersTyped, NEW n \in Target, NEW bubbles \in BOOLEAN,
         Dispatch(n, bubbles)
  PROVE  Dispatching'
<1> DEFINE vs == Visits(n, PathOf(tree, n), bubbles)
           e == [on |-> TRUE, target |-> n, visits |-> vs, at |-> 1,
                 rest |-> <<>>, calling |-> FALSE, stop |-> FALSE, stopNow |-> FALSE]
           b == [on |-> TRUE, target |-> n, bubbles |-> bubbles, tree |-> tree,
                 listeners |-> [m \in Target |-> ToSet(listeners[m])],
                 stoppedBy |-> None, atOnce |-> FALSE]
<1>1. event' = Entered(e, 1) /\ heard' = <<>> /\ began' = b /\ listeners' = listeners
  BY DEF Dispatch
<1>2. WellFormed(tree) /\ tree \in Trees
  BY DEF TreeInv, WellFormed
<1>3. /\ vs \in Seq(AVisit) /\ 1 \in DOMAIN vs /\ DOMAIN vs = 1..Len(vs)
  <2>1. AreVisits(tree, n, bubbles, vs)
    BY <1>2, VisitFacts
  <2> HIDE DEF vs
  <2> QED BY <2>1 DEF AreVisits
<1>4. b.target = n /\ b.bubbles = bubbles /\ b.tree = tree /\ b.stoppedBy = None /\ b.on
  OBVIOUS
<1>5. \A m \in Target : b.listeners[m] = ToSet(listeners[m])
  OBVIOUS
<1>6. b \in ABeginning
  <2>1. \A m \in Target : ToSet(listeners[m]) \in SUBSET Listener
    <3>1. ASSUME NEW m \in Target PROVE ToSet(listeners[m]) \in SUBSET Listener
      <4>1. listeners[m] \in Seq(Listener)
        BY DEF ListenersTyped
      <4> QED BY <4>1, LenProperties, ElementOfSeq DEF ToSet
    <3> QED BY <3>1
  <2>2. [m \in Target |-> ToSet(listeners[m])] \in [Target -> SUBSET Listener]
    BY <2>1
  <2> QED BY <1>2, <2>2 DEF ABeginning
<1>7. Planned' = vs
  BY <1>1, <1>4 DEF Planned
<1> HIDE DEF b, vs
<1>8. /\ e \in AnEvent /\ e.visits = vs /\ ~e.calling /\ ~e.stop /\ ~e.stopNow
  BY <1>3 DEF AnEvent
<1> HIDE DEF e
<1>9. /\ event' \in AnEvent /\ event'.at = 1 /\ event'.visits = vs
      /\ event'.rest = Called(listeners[vs[1].node], vs[1].capture)
      /\ ~event'.calling /\ ~event'.stop /\ ~event'.stopNow
  BY <1>1, <1>3, <1>8, EnteredFacts
<1>10. event'.on /\ began'.on
  BY <1>1, <1>4, <1>9 DEF AnEvent
<1>11. EventTyped'
  BY <1>1, <1>6, <1>9, <1>10 DEF EventTyped
<1>12. Here' = vs[1]
  BY <1>7, <1>9 DEF Here
<1>13. DOMAIN heard' = {}
  BY <1>1
<1>14. ~ \E k \in DOMAIN vs : k < 1
  BY <1>3
<1> QED BY <1>1, <1>2, <1>3, <1>4, <1>5, <1>7, <1>9, <1>10, <1>11, <1>12, <1>13, <1>14,
           EnterStep

(* The next visit is made if no one has stopped the event, or if it is the *)
(* second one of the target: otherwise the event is over.                  *)
LEMMA NextVisitStep ==
  ASSUME ListenersTyped, Dispatching, NextVisit
  PROVE  Dispatching'
<1> DEFINE e == [event EXCEPT !.stopNow = FALSE]
           at == event.at
<1>1. /\ event.on /\ ~event.calling /\ event.rest = <<>>
      /\ event' = IF e.at < Len(e.visits) /\ MayVisit(e, e.visits[e.at + 1])
                  THEN Entered(e, e.at + 1) ELSE NoEvent
      /\ listeners' = listeners /\ heard' = heard /\ began' = began
  BY DEF NextVisit
<1>2. event \in AnEvent /\ began.on /\ EventTyped
  BY <1>1, NoEventIsOff DEF Dispatching, EventTyped
<1>3. /\ e \in AnEvent /\ e.visits = event.visits /\ e.at = at /\ e.calling = event.calling
      /\ e.stop = event.stop /\ ~e.stopNow
  BY <1>2 DEF AnEvent
<1> HIDE DEF e
<1>4. /\ event.visits = Planned /\ at \in DOMAIN Planned
      /\ event.stop <=> began.stoppedBy # None
      /\ began.stoppedBy \in {None, Here.node}
      /\ \A n \in Target : began.listeners[n] \subseteq ToSet(listeners[n])
  BY <1>1 DEF Dispatching, OnPlan
<1>5. AreVisits(began.tree, began.target, began.bubbles, Planned) /\ WellFormed(began.tree)
  BY <1>2, PlannedFacts DEF Dispatching, CallsInOrder
<1>6. Planned' = Planned
  BY <1>1 DEF Planned
<1>7. DOMAIN Planned = 1..Len(Planned) /\ at \in Nat /\ at <= Len(Planned)
  BY <1>4, <1>5 DEF AreVisits
<1>8. Waiting = <<>> /\ ToSet(Waiting) = {}
  BY <1>1 DEF Waiting, ToSet
<1>9. \A i \in DOMAIN heard :
        /\ heard[i].stoppedBy \in {None, heard[i].node}
        /\ \E k \in DOMAIN Planned : Matches(heard[i], Planned[k]) /\ k <= at
  BY <1>1, <1>2 DEF Dispatching, CallsInOrder
<1>10. \A i, j \in DOMAIN heard : i < j =>
        /\ \E k, l \in DOMAIN Planned :
             k <= l /\ Matches(heard[i], Planned[k]) /\ Matches(heard[j], Planned[l])
        /\ ~IsCall(heard[i], heard[j], heard[j].callback)
  BY <1>2 DEF Dispatching, CallsInOrder, CallsOnce
<1>11. began.stoppedBy = None =>
         \A k \in DOMAIN Planned : k <= at =>
           \A l \in began.listeners[Planned[k].node] : l.capture = Planned[k].capture =>
             \E i \in DOMAIN heard : IsCall(heard[i], Planned[k], l.callback)
  BY <1>2, <1>8 DEF Dispatching, CallsAll
<1>12. CASE at < Len(Planned) /\ MayVisit(e, Planned[at + 1])
  <2>1. at + 1 \in DOMAIN Planned
    BY <1>7, <1>12
  <2>2. event' = Entered(e, at + 1)
    BY <1>1, <1>3, <1>4, <1>12
  <2>3. /\ event' \in AnEvent /\ event'.at = at + 1 /\ event'.visits = Planned
        /\ event'.rest = Called(listeners[Planned[at + 1].node], Planned[at + 1].capture)
        /\ ~event'.calling /\ event'.stop = event.stop /\ ~event'.stopNow
    BY <1>1, <1>3, <1>4, <2>1, <2>2, EnteredFacts
  <2>4. event'.on /\ began'.on
    BY <1>1, <1>2, <2>3 DEF AnEvent
  <2>5. EventTyped'
    BY <1>1, <1>2, <2>3, <2>4 DEF EventTyped
  <2>6. Here' = Planned[at + 1]
    BY <1>6, <2>3 DEF Here
  <2>7. began.stoppedBy \in {None, Planned[at + 1].node}
    <3>1. CASE Planned[at + 1].phase = 2 /\ ~Planned[at + 1].capture
      <4>1. PICK j \in DOMAIN Planned : j = at + 1
        BY <2>1
      <4>2. j - 1 = at
        BY <1>7, <4>1
      <4>3. Planned[j].node = began.target /\ Planned[j - 1].node = began.target
        BY <1>5, <3>1, <4>1 DEF AreVisits
      <4> QED BY <1>4, <4>1, <4>2, <4>3 DEF Here
    <3>2. CASE ~(Planned[at + 1].phase = 2 /\ ~Planned[at + 1].capture)
      <4>1. ~e.stop
        BY <1>12, <3>2 DEF MayVisit
      <4> QED BY <1>3, <1>4, <4>1
    <3> QED BY <3>1, <3>2
  <2>8. \A k \in DOMAIN Planned : k <= at <=> k < at + 1
    BY <1>7
  <2>9. \A i \in DOMAIN heard :
          /\ heard[i].stoppedBy \in {None, heard[i].node}
          /\ \E k \in DOMAIN Planned : Matches(heard[i], Planned[k]) /\ k < at + 1
    BY <1>9, <2>8
  <2>10. began.stoppedBy = None =>
           \A k \in DOMAIN Planned : k < at + 1 =>
             \A l \in began.listeners[Planned[k].node] : l.capture = Planned[k].capture =>
               \E i \in DOMAIN heard : IsCall(heard[i], Planned[k], l.callback)
    BY <1>11, <2>8
  <2> QED BY <1>1, <1>4, <1>5, <1>6, <1>10, <2>1, <2>3, <2>4, <2>5, <2>6, <2>7, <2>9, <2>10,
             EnterStep
<1>13. CASE ~(at < Len(Planned) /\ MayVisit(e, Planned[at + 1]))
  <2>1. event' = NoEvent /\ ~event'.on
    BY <1>1, <1>3, <1>4, <1>13, NoEventIsOff
  <2>2. EventTyped'
    BY <1>1, <1>2, <2>1 DEF EventTyped
  <2>3. OnPlan'
    BY <2>1 DEF OnPlan
  <2>4. CallsInOrder'
    BY <1>1, <1>5, <1>6, <1>9, <1>10, <2>1 DEF CallsInOrder
  <2>5. CallsOnce'
    BY <1>1, <1>10, <2>1 DEF CallsOnce
  <2>6. CallsAll'
    <3>1. ASSUME began.stoppedBy = None PROVE at = Len(Planned)
      <4>1. ~e.stop /\ ~e.stopNow
        BY <1>3, <1>4, <3>1
      <4>2. MayVisit(e, Planned[at + 1])
        BY <4>1 DEF MayVisit
      <4> QED BY <1>7, <1>13, <4>2
    <3>2. ASSUME began.stoppedBy = None, NEW k \in DOMAIN Planned PROVE k <= at
      BY <1>7, <3>1, <3>2
    <3> QED BY <1>1, <1>6, <1>11, <2>1, <3>2 DEF CallsAll
  <2> QED BY <2>2, <2>3, <2>4, <2>5, <2>6 DEF Dispatching
<1> QED BY <1>12, <1>13

-----------------------------------------------------------------------------
(* A step of the event in hand that stays in its visit.                    *)
LEMMA SameVisit ==
  ASSUME EventTyped, OnPlan, event.on, event' \in AnEvent, event'.at = event.at,
         began'.target = began.target, began'.bubbles = began.bubbles,
         began'.tree = began.tree
  PROVE  /\ Planned' = Planned /\ Here' = Here
         /\ event \in AnEvent /\ began \in ABeginning /\ event.visits = Planned
         /\ event.rest \in Seq(Listener) /\ event'.on
<1>1. Planned' = Planned
  BY DEF Planned
<1>2. event \in AnEvent /\ began \in ABeginning
  BY NoEventIsOff DEF EventTyped
<1> QED BY <1>1, <1>2 DEF Here, OnPlan, AnEvent

(* What is left of a list of listeners once its head has been called.      *)
LEMMA TailFacts ==
  ASSUME NEW rest \in Seq(Listener), rest # <<>>, Distinct(rest)
  PROVE  /\ Tail(rest) \in Seq(Listener) /\ Distinct(Tail(rest))
         /\ Head(rest) = rest[1] /\ 1 \in DOMAIN rest /\ Head(rest) \in Listener
         /\ \A i \in DOMAIN Tail(rest) : i + 1 \in DOMAIN rest /\ Tail(rest)[i] = rest[i + 1]
         /\ \A i \in DOMAIN Tail(rest) : Tail(rest)[i] # Head(rest)
         /\ \A l \in ToSet(rest) : l = Head(rest) \/ l \in ToSet(Tail(rest))
<1>1. /\ Len(rest) \in Nat /\ Len(rest) > 0 /\ DOMAIN rest = 1..Len(rest)
  BY LenProperties, EmptySeq
<1>2. /\ Tail(rest) \in Seq(Listener) /\ Len(Tail(rest)) = Len(rest) - 1
      /\ \A i \in 1 .. Len(rest) - 1 : Tail(rest)[i] = rest[i + 1]
  BY <1>1, HeadTailProperties
<1>3. DOMAIN Tail(rest) = 1 .. Len(rest) - 1
  BY <1>2, LenProperties
<1>4. Head(rest) = rest[1] /\ 1 \in DOMAIN rest /\ Head(rest) \in Listener
  BY <1>1, HeadTailProperties, ElementOfSeq
<1>5. \A i \in DOMAIN Tail(rest) : i + 1 \in DOMAIN rest /\ i + 1 # 1
  BY <1>1, <1>3
<1>6. \A i \in DOMAIN Tail(rest) : Tail(rest)[i] = rest[i + 1]
  BY <1>2, <1>3
<1>7. \A i \in DOMAIN Tail(rest) : Tail(rest)[i] # Head(rest)
  BY <1>4, <1>5, <1>6 DEF Distinct
<1>8. Distinct(Tail(rest))
  <2>1. ASSUME NEW i \in DOMAIN Tail(rest), NEW j \in DOMAIN Tail(rest),
               Tail(rest)[i] = Tail(rest)[j]
        PROVE  i = j
    <3>1. i + 1 = j + 1
      BY <1>5, <1>6, <2>1 DEF Distinct
    <3> QED BY <1>3, <3>1
  <2> QED BY <2>1 DEF Distinct
<1>9. ASSUME NEW l \in ToSet(rest), l # Head(rest)
      PROVE  l \in ToSet(Tail(rest))
  <2>1. PICK j \in DOMAIN rest : rest[j] = l
    BY DEF ToSet
  <2>2. j - 1 \in DOMAIN Tail(rest) /\ (j - 1) + 1 = j
    BY <1>1, <1>3, <1>4, <1>9, <2>1
  <2>3. Tail(rest)[j - 1] = l
    BY <1>6, <2>1, <2>2
  <2> QED BY <2>2, <2>3 DEF ToSet
<1> QED BY <1>2, <1>4, <1>5, <1>6, <1>7, <1>8, <1>9

(* A listener is called: the next of those copied for this visit.          *)
LEMMA CallStep ==
  ASSUME ListenersTyped, Dispatching, CallListener
  PROVE  Dispatching'
<1> DEFINE v    == event.visits[event.at]
           rest == event.rest
           c    == [node |-> v.node, capture |-> v.capture, phase |-> v.phase,
                    callback  |-> Head(rest).callback,
                    stoppedBy |-> began.stoppedBy, atOnce |-> began.atOnce]
           n    == Len(heard) + 1
<1>1. /\ event.on /\ ~event.calling /\ rest # <<>>
      /\ event' = [event EXCEPT !.calling = TRUE]
      /\ heard' = Append(heard, c)
      /\ listeners' = listeners /\ began' = began
  BY DEF CallListener
<1>2. /\ EventTyped /\ OnPlan /\ CallsInOrder /\ CallsOnce /\ CallsAll
      /\ event \in AnEvent /\ began \in ABeginning /\ began.on /\ heard \in Seq(ACall)
  BY <1>1, NoEventIsOff DEF Dispatching, EventTyped
<1>3. /\ event' \in AnEvent /\ event'.on /\ event'.visits = event.visits
      /\ event'.at = event.at /\ event'.rest = rest /\ event'.calling
      /\ event'.stop = event.stop /\ event'.stopNow = event.stopNow
  BY <1>1, <1>2 DEF AnEvent
<1>4. Planned' = Planned /\ Here' = Here /\ event.visits = Planned /\ rest \in Seq(Listener)
  BY <1>1, <1>2, <1>3, SameVisit
<1>5. /\ event.at \in DOMAIN Planned /\ v = Here /\ Distinct(rest)
      /\ \A i \in DOMAIN rest : rest[i].capture = Here.capture
      /\ began.stoppedBy \in {None, Here.node}
  BY <1>1, <1>2, <1>4 DEF OnPlan, Here
<1>6. AreVisits(began.tree, began.target, began.bubbles, Planned)
  BY <1>2, PlannedFacts
<1>7. Here \in AVisit
  BY <1>5, <1>6, ElementOfSeq DEF AreVisits, Here
<1>8. /\ Tail(rest) \in Seq(Listener)
      /\ Head(rest) = rest[1] /\ 1 \in DOMAIN rest /\ Head(rest) \in Listener
      /\ \A i \in DOMAIN Tail(rest) : i + 1 \in DOMAIN rest /\ Tail(rest)[i] = rest[i + 1]
      /\ \A i \in DOMAIN Tail(rest) : Tail(rest)[i] # Head(rest)
      /\ \A l \in ToSet(rest) : l = Head(rest) \/ l \in ToSet(Tail(rest))
  BY <1>1, <1>4, <1>5, TailFacts
<1>9. Waiting = rest /\ Waiting' = Tail(rest)
  BY <1>1, <1>3 DEF Waiting
<1>10. /\ c.node = Here.node /\ c.capture = Here.capture /\ c.phase = Here.phase
       /\ c.callback = Head(rest).callback /\ c.stoppedBy = began.stoppedBy
  BY <1>5
<1>11. c \in ACall
  <2>1. Head(rest).callback \in Callback
    BY <1>8 DEF Listener
  <2>2. /\ v.node \in Target /\ v.capture \in BOOLEAN /\ v.phase \in 1..3
    BY <1>5, <1>7 DEF AVisit
  <2>3. /\ began.stoppedBy \in Target \cup {None} /\ began.atOnce \in BOOLEAN
    BY <1>2 DEF ABeginning
  <2> HIDE DEF v
  <2> QED BY <2>1, <2>2, <2>3 DEF ACall
<1> HIDE DEF c
<1>12. /\ heard' \in Seq(ACall) /\ DOMAIN heard' = 1..n /\ DOMAIN heard = 1..Len(heard)
       /\ \A i \in DOMAIN heard : heard'[i] = heard[i]
       /\ heard'[n] = c
  <2>1. /\ Append(heard, c) \in Seq(ACall) /\ Len(Append(heard, c)) = Len(heard) + 1
        /\ \A i \in 1..Len(heard) : Append(heard, c)[i] = heard[i]
        /\ Append(heard, c)[Len(heard) + 1] = c
    BY <1>2, <1>11, AppendProperties
  <2> QED BY <1>1, <1>2, <2>1, LenProperties
<1>13. /\ DOMAIN heard \subseteq DOMAIN heard' /\ n \in DOMAIN heard'
       /\ \A i \in DOMAIN heard' : i \in DOMAIN heard \/ i = n
       /\ \A i, j \in DOMAIN heard' : i < j => i \in DOMAIN heard
  BY <1>2, <1>12, LenProperties
<1> HIDE DEF n
<1>14. EventTyped'
  BY <1>1, <1>2, <1>3, <1>12 DEF EventTyped
<1>15. OnPlan'
  BY <1>1, <1>2, <1>3, <1>4 DEF OnPlan
<1>16. Matches(c, Here)
  BY <1>10 DEF Matches
<1>17. CallsInOrder'
  <2>1. WellFormed(began.tree)
    BY <1>2 DEF CallsInOrder
  <2>2. \A i \in DOMAIN heard :
          /\ heard[i].stoppedBy \in {None, heard[i].node}
          /\ \E k \in DOMAIN Planned : Matches(heard[i], Planned[k]) /\ k <= event.at
    BY <1>1, <1>2 DEF CallsInOrder
  <2>3. event.at \in Nat
    BY <1>2 DEF AnEvent
  <2>4. ASSUME NEW i \in DOMAIN heard'
        PROVE  /\ heard'[i].stoppedBy \in {None, heard'[i].node}
               /\ \E k \in DOMAIN Planned : Matches(heard'[i], Planned[k]) /\ k <= event.at
    <3>1. CASE i \in DOMAIN heard
      BY <1>12, <2>2, <3>1
    <3>2. CASE i = n
      BY <1>5, <1>10, <1>12, <1>16, <2>3, <3>2 DEF Here
    <3> QED BY <1>13, <3>1, <3>2
  <2>5. ASSUME NEW i \in DOMAIN heard', NEW j \in DOMAIN heard', i < j
        PROVE  \E k, l \in DOMAIN Planned :
                 k <= l /\ Matches(heard'[i], Planned[k]) /\ Matches(heard'[j], Planned[l])
    <3>1. i \in DOMAIN heard
      BY <1>13, <2>5
    <3>2. CASE j \in DOMAIN heard
      BY <1>2, <1>12, <2>5, <3>1, <3>2 DEF CallsInOrder
    <3>3. CASE j = n
      <4>1. PICK k \in DOMAIN Planned : Matches(heard[i], Planned[k]) /\ k <= event.at
        BY <2>2, <3>1
      <4> QED BY <1>5, <1>12, <1>16, <3>1, <3>3, <4>1 DEF Here
    <3> QED BY <1>13, <3>2, <3>3
  <2> QED BY <1>1, <1>3, <1>4, <2>1, <2>4, <2>5 DEF CallsInOrder
<1>18. CallsOnce'
  <2>1. \A i \in DOMAIN heard, j \in DOMAIN rest : ~IsCall(heard[i], Here, rest[j].callback)
    BY <1>1, <1>2, <1>9 DEF CallsOnce
  <2>2. ASSUME NEW i \in DOMAIN heard', NEW j \in DOMAIN heard', i < j
        PROVE  ~IsCall(heard'[i], heard'[j], heard'[j].callback)
    <3>1. i \in DOMAIN heard
      BY <1>13, <2>2
    <3>2. CASE j \in DOMAIN heard
      BY <1>2, <1>12, <2>2, <3>1, <3>2 DEF CallsOnce
    <3>3. CASE j = n
      <4>1. ~IsCall(heard[i], Here, rest[1].callback)
        BY <1>8, <2>1, <3>1
      <4> QED BY <1>8, <1>10, <1>12, <3>1, <3>3, <4>1 DEF IsCall
    <3> QED BY <1>13, <3>2, <3>3
  <2>3. ASSUME NEW i \in DOMAIN heard', NEW j \in DOMAIN Tail(rest)
        PROVE  ~IsCall(heard'[i], Here, Tail(rest)[j].callback)
    <3>1. CASE i \in DOMAIN heard
      BY <1>8, <1>12, <2>1, <3>1
    <3>2. CASE i = n
      <4>1. j + 1 \in DOMAIN rest /\ Tail(rest)[j] = rest[j + 1] /\ Tail(rest)[j] # Head(rest)
        BY <1>8
      <4>2. Tail(rest)[j].capture = Here.capture /\ Head(rest).capture = Here.capture
        BY <1>5, <1>8, <4>1
      <4>3. Tail(rest)[j] \in Listener
        BY <1>8, ElementOfSeq
      <4>4. Tail(rest)[j].callback # Head(rest).callback
        BY <1>8, <4>1, <4>2, <4>3 DEF Listener
      <4> QED BY <1>10, <1>12, <3>2, <4>4 DEF IsCall
    <3> QED BY <1>13, <3>1, <3>2
  <2> QED BY <1>1, <1>4, <1>9, <2>2, <2>3 DEF CallsOnce
<1>19. CallsAll'
  <2>1. ASSUME began.stoppedBy = None, NEW k \in DOMAIN Planned, k <= event.at,
               NEW l \in began.listeners[Planned[k].node], l.capture = Planned[k].capture
        PROVE  \/ \E i \in DOMAIN heard' : IsCall(heard'[i], Planned[k], l.callback)
               \/ k = event.at /\ l \in ToSet(Tail(rest))
    <3>1. \/ \E i \in DOMAIN heard : IsCall(heard[i], Planned[k], l.callback)
          \/ k = event.at /\ l \in ToSet(rest)
      BY <1>1, <1>2, <1>9, <2>1 DEF CallsAll
    <3>2. CASE \E i \in DOMAIN heard : IsCall(heard[i], Planned[k], l.callback)
      BY <1>12, <1>13, <3>2
    <3>3. CASE k = event.at /\ l = Head(rest)
      BY <1>10, <1>12, <1>13, <3>3 DEF IsCall, Here
    <3>4. CASE k = event.at /\ l \in ToSet(Tail(rest))
      BY <3>4
    <3> QED BY <1>8, <3>1, <3>2, <3>3, <3>4
  <2> QED BY <1>1, <1>3, <1>4, <1>9, <2>1 DEF CallsAll
<1> QED BY <1>14, <1>15, <1>17, <1>18, <1>19 DEF Dispatching

(* The event is stopped, or its listener returns: no call is made, and     *)
(* what is still to be called may be dropped once the event is stopped.    *)
LEMMA StayStep ==
  ASSUME Dispatching, event.on, event' \in AnEvent, event'.at = event.at,
         event'.visits = event.visits,
         listeners' = listeners, heard' = heard, began' \in ABeginning,
         began'.target = began.target, began'.bubbles = began.bubbles,
         began'.tree = began.tree, began'.listeners = began.listeners,
         began'.stoppedBy \in {None, Here.node},
         began'.stoppedBy = None => began.stoppedBy = None,
         event'.stop <=> began'.stoppedBy # None,
         event'.stopNow => event'.stop,
         event'.calling => event'.rest # <<>>,
         \/ event'.rest = event.rest /\ event'.calling = event.calling
         \/ event'.rest = Waiting /\ ~event'.calling
         \/ event'.rest = <<>> /\ ~event'.calling /\ event'.stop
  PROVE  Dispatching'
<1>1. EventTyped /\ OnPlan /\ CallsInOrder /\ CallsOnce /\ CallsAll
  BY DEF Dispatching
<1>2. /\ Planned' = Planned /\ Here' = Here
      /\ event \in AnEvent /\ began \in ABeginning /\ event.visits = Planned
      /\ event.rest \in Seq(Listener) /\ event'.on
  BY <1>1, SameVisit
<1>3. began.on /\ began'.on
  BY <1>2 DEF ABeginning
<1>4. EventTyped'
  BY <1>1, <1>2, <1>3 DEF EventTyped
<1>5. /\ Distinct(event.rest) /\ \A i \in DOMAIN event.rest : event.rest[i].capture = Here.capture
      /\ event.at \in DOMAIN Planned
      /\ \A n \in Target : began.listeners[n] \subseteq ToSet(listeners[n])
      /\ event.calling => event.rest # <<>>
  BY <1>1 DEF OnPlan
<1>6. Distinct(Waiting) /\ \A i \in DOMAIN Waiting : Waiting[i].capture = Here.capture
  <2>1. CASE event.calling
    <3>1. event.rest # <<>> /\ Waiting = Tail(event.rest)
      BY <1>5, <2>1 DEF Waiting
    <3> QED BY <1>2, <1>5, <3>1, TailFacts
  <2>2. CASE ~event.calling
    BY <1>5, <2>2 DEF Waiting
  <2> QED BY <2>1, <2>2
<1>7. Waiting' = Waiting \/ (Waiting' = <<>> /\ event'.stop)
  BY DEF Waiting
<1>8. OnPlan'
  <2>1. /\ Distinct(event'.rest)
        /\ \A i \in DOMAIN event'.rest : event'.rest[i].capture = Here.capture
    <3>1. CASE event'.rest = <<>>
      BY <3>1 DEF Distinct
    <3>2. CASE event'.rest = event.rest
      BY <1>5, <3>2
    <3>3. CASE event'.rest = Waiting
      BY <1>6, <3>3
    <3> QED BY <3>1, <3>2, <3>3
  <2> QED BY <1>2, <1>5, <2>1 DEF OnPlan
<1>9. CallsInOrder'
  BY <1>1, <1>2, <1>3 DEF CallsInOrder
<1>10. CallsOnce'
  <2>1. \A i \in DOMAIN heard, j \in DOMAIN Waiting' : ~IsCall(heard[i], Here, Waiting'[j].callback)
    <3>1. CASE Waiting' = Waiting
      BY <1>1, <1>3, <3>1 DEF CallsOnce
    <3>2. CASE Waiting' = <<>>
      BY <3>2
    <3> QED BY <1>7, <3>1, <3>2
  <2> QED BY <1>1, <1>2, <1>3, <2>1 DEF CallsOnce
<1>11. CallsAll'
  <2>1. ASSUME began'.stoppedBy = None PROVE Waiting' = Waiting /\ began.stoppedBy = None
    BY <1>7, <2>1
  <2> QED BY <1>1, <1>2, <1>3, <2>1 DEF CallsAll
<1> QED BY <1>4, <1>8, <1>9, <1>10, <1>11 DEF Dispatching

LEMMA StopStep ==
  ASSUME Dispatching, StopPropagation \/ StopImmediatePropagation
  PROVE  Dispatching'
<1>1. /\ event.on /\ event.calling /\ EventTyped /\ OnPlan
      /\ listeners' = listeners /\ heard' = heard
  BY DEF Dispatching, StopPropagation, StopImmediatePropagation
<1>2. event \in AnEvent /\ began \in ABeginning /\ event.visits = Planned
  BY <1>1, NoEventIsOff DEF EventTyped, OnPlan
<1>3. /\ \/ event' = [event EXCEPT !.stop = TRUE]
         \/ event' = [event EXCEPT !.stop = TRUE, !.stopNow = TRUE]
      /\ \/ began' = [began EXCEPT !.stoppedBy = Here.node]
         \/ began' = [began EXCEPT !.stoppedBy = Here.node, !.atOnce = TRUE]
  BY <1>2 DEF StopPropagation, StopImmediatePropagation, Here
<1>4. Here.node \in Target
  <2>1. event.at \in DOMAIN Planned /\ began.on /\ CallsInOrder
    BY <1>1, <1>2 DEF OnPlan, EventTyped, Dispatching
  <2>2. AreVisits(began.tree, began.target, began.bubbles, Planned)
    BY <1>1, <2>1, PlannedFacts
  <2>3. Here \in AVisit
    BY <2>1, <2>2, ElementOfSeq DEF AreVisits, Here
  <2> QED BY <2>3 DEF AVisit
<1>5. Here.node # None
  BY <1>4, NodeAssumption
<1>6. /\ event' \in AnEvent /\ event'.at = event.at /\ event'.visits = event.visits
      /\ event'.rest = event.rest /\ event'.calling = event.calling /\ event'.stop
  BY <1>2, <1>3 DEF AnEvent
<1>7. /\ began' \in ABeginning /\ began'.target = began.target
      /\ began'.bubbles = began.bubbles /\ began'.tree = began.tree
      /\ began'.listeners = began.listeners /\ began'.stoppedBy = Here.node
  BY <1>2, <1>3, <1>4 DEF ABeginning
<1>8. event.rest # <<>>
  BY <1>1 DEF OnPlan
<1> QED BY <1>1, <1>5, <1>6, <1>7, <1>8, StayStep

LEMMA ReturnsStep ==
  ASSUME Dispatching, ListenerReturns
  PROVE  Dispatching'
<1>1. /\ event.on /\ event.calling /\ EventTyped /\ OnPlan
      /\ event' = [event EXCEPT !.calling = FALSE,
                                !.rest = IF event.stopNow THEN <<>> ELSE Tail(event.rest)]
      /\ listeners' = listeners /\ heard' = heard /\ began' = began
  BY DEF Dispatching, ListenerReturns
<1>2. event \in AnEvent /\ began \in ABeginning
  BY <1>1, NoEventIsOff DEF EventTyped
<1>3. /\ event.rest # <<>> /\ Distinct(event.rest) /\ began.stoppedBy \in {None, Here.node}
      /\ event.stop <=> began.stoppedBy # None
      /\ event.stopNow => event.stop
  BY <1>1 DEF OnPlan
<1>4. event.rest \in Seq(Listener) /\ event.stopNow \in BOOLEAN
  BY <1>2 DEF AnEvent
<1>5. Tail(event.rest) \in Seq(Listener)
  BY <1>3, <1>4, TailFacts
<1> DEFINE rest == IF event.stopNow THEN <<>> ELSE Tail(event.rest)
<1>6. rest \in Seq(Listener) /\ event' = [event EXCEPT !.calling = FALSE, !.rest = rest]
  BY <1>1, <1>5
<1>7. rest = Waiting \/ (rest = <<>> /\ event.stop)
  BY <1>1, <1>3 DEF Waiting
<1> HIDE DEF rest
<1>8. /\ event' \in AnEvent /\ event'.at = event.at /\ event'.visits = event.visits
      /\ event'.rest = rest /\ ~event'.calling /\ event'.stop = event.stop
      /\ event'.stopNow = event.stopNow
  BY <1>2, <1>6 DEF AnEvent
<1> QED BY <1>1, <1>2, <1>3, <1>7, <1>8, StayStep

-----------------------------------------------------------------------------
(* The invariant of the dispatch.                                          *)

LEMMA InitDispatching == Init => ListenersTyped /\ Dispatching
<1> SUFFICES ASSUME Init PROVE ListenersTyped /\ Dispatching
  OBVIOUS
<1>1. listeners = Listening /\ event = NoEvent /\ heard = <<>> /\ began = NoEvent
  BY DEF Init
<1>2. ListenersTyped
  BY <1>1, ListenerAssumption DEF ListenersTyped
<1>3. ~event.on /\ ~began.on
  BY <1>1, NoEventIsOff
<1>4. EventTyped
  BY <1>1, <1>3 DEF EventTyped
<1> QED BY <1>2, <1>3, <1>4 DEF Dispatching, OnPlan, CallsInOrder, CallsOnce, CallsAll

LEMMA NextDispatching ==
  ASSUME TreeInv, ListenersTyped, Dispatching, [Next]_vars
  PROVE  Dispatching'
<1>1. Hears \subseteq Target /\ Element \subseteq Target /\ Window \in Target
  BY TargetFacts DEF Hears, Node, Inner, Target
<1>2. CASE Edit \/ \E n \in Element : Focus(n) \/ Blur(n)
  <2>1. Program(began) /\ listeners' = listeners
    BY <1>2 DEF Edit, Focus, Blur
  <2> QED BY <2>1, ProgramStep
<1>3. ASSUME NEW n \in Hears, NEW l \in Listener,
             AddEventListener(n, l) \/ RemoveEventListener(n, l)
      PROVE  Dispatching'
  BY <1>1, <1>3, AddStep, RemoveStep
<1>4. CASE DispatchPointer \/ DispatchKey \/ DispatchResize
  <2>1. active \in Element \cup {None}
    BY DEF TreeInv
  <2>2. PointerTarget \in Element
    BY DEF PointerTarget, Element
  <2>3. PICK n \in Target, bubbles \in BOOLEAN : Dispatch(n, bubbles)
    BY <1>1, <1>4, <2>1, <2>2 DEF DispatchPointer, DispatchKey, DispatchResize
  <2> QED BY <2>3, DispatchStep
<1>5. CASE CallListener
  BY <1>5, CallStep
<1>6. CASE StopPropagation \/ StopImmediatePropagation
  BY <1>6, StopStep
<1>7. CASE ListenerReturns
  BY <1>7, ReturnsStep
<1>8. CASE ListenerThrows
  BY <1>8, QuietStep DEF ListenerThrows
<1>9. CASE NextVisit
  BY <1>9, NextVisitStep
<1>10. CASE UNCHANGED vars
  <2>1. event' = event /\ heard' = heard /\ began' = began /\ listeners' = listeners
    BY <1>10 DEF vars
  <2>2. Planned' = Planned /\ Here' = Here /\ Waiting' = Waiting
    BY <2>1 DEF Planned, Here, Waiting
  <2>3. EventTyped'
    BY <2>1 DEF Dispatching, EventTyped
  <2>4. OnPlan'
    BY <2>1, <2>2 DEF Dispatching, OnPlan
  <2>5. CallsInOrder'
    BY <2>1, <2>2 DEF Dispatching, CallsInOrder
  <2>6. CallsOnce' /\ CallsAll'
    BY <2>1, <2>2 DEF Dispatching, CallsOnce, CallsAll
  <2> QED BY <2>3, <2>4, <2>5, <2>6 DEF Dispatching
<1> QED BY <1>2, <1>3, <1>4, <1>5, <1>6, <1>7, <1>8, <1>9, <1>10 DEF Next

(* The tree stays rooted, and each event is dispatched as it was planned   *)
(* when it began, while its listeners edit the tree and the listeners      *)
(* (headless_dom.js:45-77).                                                *)
THEOREM DispatchIsPlanned ==
  ASSUME Moves = FALSE
  PROVE  Spec => [](TreeInv /\ ListenersTyped /\ Dispatching)
<1>1. Init => TreeInv /\ ListenersTyped /\ Dispatching
  BY InitInv, InitDispatching
<1>2. TreeInv /\ ListenersTyped /\ Dispatching /\ [Next]_vars =>
        (TreeInv /\ ListenersTyped /\ Dispatching)'
  BY NextInv, ListenersKept, NextDispatching
<1> QED BY <1>1, <1>2, PTL DEF Spec

(* Calls go down from the window, to the target, and up, along the path    *)
(* the target had when the event began, whatever its listeners do to the   *)
(* tree; once the event is stopped, only further listeners of that node    *)
(* are called (headless_dom.js:57-77).                                     *)
THEOREM EventsKeepToThePath ==
  ASSUME Moves = FALSE
  PROVE  Spec => []EventsFollowThePath
<1>1. Dispatching => EventsFollowThePath
  BY OrderIsPath DEF Dispatching
<1> QED BY <1>1, DispatchIsPlanned, PTL

(* When an event that no one stopped is over, every listener of its path   *)
(* that was there all the time has been called exactly once, and none was  *)
(* called twice if it was stopped (headless_dom.js:45-77, 243-247).        *)
THEOREM EveryListenerIsCalled ==
  ASSUME Moves = FALSE
  PROVE  Spec => []ListenersHearEvents
<1>1. Dispatching => ListenersHearEvents
  BY PlanIsHeard DEF Dispatching
<1> QED BY <1>1, DispatchIsPlanned, PTL
=============================================================================
