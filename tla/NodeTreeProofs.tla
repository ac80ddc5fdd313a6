--------------------------- MODULE NodeTreeProofs ---------------------------
(***************************************************************************)
(* Theorems about NodeTree, for any elements and any numbers of loads and  *)
(* changes: its types, and that a client at rest has the page's own tree.  *)
(*                                                                         *)
(* The argument for the tree has four parts.  A page is well formed: each  *)
(* element has one place, and none is below itself (WellFormed).  What     *)
(* Chrome has told of it is consistent: numbers are unique, and a node is  *)
(* told with its shadow root and with all of its children or none          *)
(* (ToldOK).  A map Covers the page when it has every numbered node as it  *)
(* is told; each event of the page brings a map that covered what was told *)
(* to one that covers what is told now.  So, once no document is awaited,  *)
(* the events in the queue lead from the nodes of the current frame, or    *)
(* from the answer that is about to become them, to a map that covers the  *)
(* page (Current).  At rest the queue is empty.                            *)
(***************************************************************************)
EXTENDS NodeTree, SequenceTheorems, FiniteSetTheorems, TLAPS

-----------------------------------------------------------------------------
(* Sequences: a place found, an insertion, a removal.                      *)

\* The one place of an element.
OnlyAt(s, i, x) == i \in 1..Len(s) /\ \A j \in 1..Len(s) : s[j] = x <=> j = i

\* PlaceOf finds the one place.
LEMMA PlaceFound ==
  ASSUME NEW s, NEW i, NEW x, Len(s) \in Nat, OnlyAt(s, i, x)
  PROVE  PlaceOf(x, s) = i
<1> DEFINE I == { j \in 1..Len(s) : s[j] = x }
<1>1. I = {i}
  BY DEF OnlyAt
<1>2. Min({i}) = i
  BY DEF Min, OnlyAt
<1> QED BY <1>1, <1>2 DEF SelectInSeq, PlaceOf

\* And no place when there is none.
LEMMA PlaceMissing ==
  ASSUME NEW s, NEW x, \A j \in 1..Len(s) : s[j] # x
  PROVE  PlaceOf(x, s) = 0
<1>1. { j \in 1..Len(s) : s[j] = x } = {}
  OBVIOUS
<1> QED BY <1>1 DEF SelectInSeq, PlaceOf

Joins(S, a, b, c) ==
  /\ c \in Seq(S) /\ Len(c) = Len(a) + Len(b) /\ Len(a) \in Nat /\ Len(b) \in Nat
  /\ \A i \in 1..Len(a) : c[i] = a[i]
  /\ \A i \in 1..Len(b) : c[Len(a) + i] = b[i]

\* A concatenation, element by element.
LEMMA Joined ==
  ASSUME NEW S, NEW a \in Seq(S), NEW b \in Seq(S)
  PROVE  Joins(S, a, b, a \o b)
<1> DEFINE c == a \o b
<1>1. /\ c \in Seq(S) /\ Len(c) = Len(a) + Len(b)
      /\ \A i \in 1..Len(a) + Len(b) : c[i] = IF i <= Len(a) THEN a[i] ELSE b[i - Len(a)]
  BY ConcatProperties
<1>2. Len(a) \in Nat /\ Len(b) \in Nat
  BY LenProperties
<1>3. ASSUME NEW i \in 1..Len(a) PROVE c[i] = a[i]
  BY <1>1, <1>2
<1>4. ASSUME NEW i \in 1..Len(b) PROVE c[Len(a) + i] = b[i]
  <2>1. Len(a) + i \in 1..Len(a) + Len(b) /\ ~(Len(a) + i <= Len(a)) /\ Len(a) + i - Len(a) = i
    BY <1>2
  <2> QED BY <1>1, <2>1
<1> QED BY <1>1, <1>2, <1>3, <1>4 DEF Joins

\* r is s with e in it, at i.
Widened(S, s, i, e, r) ==
  /\ r \in Seq(S) /\ Len(s) \in Nat /\ i \in 1..Len(s) + 1 /\ Len(r) = Len(s) + 1 /\ r[i] = e
  /\ \A j \in 1..Len(s) : j < i => r[j] = s[j]
  /\ \A j \in 1..Len(s) : j >= i => r[j + 1] = s[j]
  /\ \A j \in 1..Len(r) : \/ j = i
                          \/ j < i /\ j \in 1..Len(s) /\ r[j] = s[j]
                          \/ j > i /\ j - 1 \in 1..Len(s) /\ r[j] = s[j - 1]

\* InsertAt puts e at i and moves what is behind it.
LEMMA Inserted ==
  ASSUME NEW S, NEW s \in Seq(S), NEW i \in 1..Len(s) + 1, NEW e \in S
  PROVE  Widened(S, s, i, e, InsertAt(s, i, e))
<1> DEFINE r == InsertAt(s, i, e)
<1> DEFINE a == SubSeq(s, 1, i - 1)
           m == <<e>>
           b == SubSeq(s, i, Len(s))
<1>0. Len(s) \in Nat /\ \A j \in 1..Len(s) : s[j] \in S
  BY LenProperties, ElementOfSeq
<1>1. a \in Seq(S) /\ Len(a) = i - 1 /\ \A j \in 1..i - 1 : a[j] = s[j]
  <2>1. \A j \in 1..i - 1 : s[j] \in S
    BY <1>0
  <2> QED BY <1>0, <2>1, SubSeqProperties
<1>2. b \in Seq(S) /\ Len(b) = Len(s) - i + 1 /\ \A j \in 1..Len(s) - i + 1 : b[j] = s[i + j - 1]
  <2>1. \A j \in i..Len(s) : s[j] \in S
    BY <1>0
  <2> QED BY <1>0, <2>1, SubSeqProperties
<1>3. m \in Seq(S) /\ Len(m) = 1 /\ m[1] = e
  OBVIOUS
<1>4. r = (a \o m) \o b
  BY DEF InsertAt
<1> HIDE DEF a, m, b, r
<1> DEFINE c == a \o m
<1>5. /\ c \in Seq(S) /\ Len(c) = Len(a) + Len(m)
      /\ \A j \in 1..Len(a) : c[j] = a[j]
      /\ \A j \in 1..Len(m) : c[Len(a) + j] = m[j]
  <2>1. Joins(S, a, m, a \o m)
    BY <1>1, <1>3, Joined
  <2> QED BY <2>1 DEF Joins
<1>7. r = c \o b
  BY <1>4
<1> HIDE DEF c
<1>6. c \in Seq(S) /\ Len(c) = i /\ c[i] = e /\ \A j \in 1..i - 1 : c[j] = s[j]
  <2>1. Len(a) + 1 = i /\ 1 \in 1..Len(m)
    BY <1>0, <1>1, <1>3
  <2> QED BY <1>0, <1>1, <1>3, <1>5, <2>1
<1>8. /\ r \in Seq(S) /\ Len(r) = Len(c) + Len(b)
      /\ \A j \in 1..Len(c) : r[j] = c[j]
      /\ \A j \in 1..Len(b) : r[Len(c) + j] = b[j]
  <2>1. Joins(S, c, b, c \o b)
    BY <1>2, <1>6, Joined
  <2> QED BY <1>7, <2>1 DEF Joins
<1>9. ASSUME NEW j \in 1..Len(s), j >= i PROVE r[j + 1] = s[j]
  <2> DEFINE k == j - i + 1
  <2>1. k \in 1..Len(b) /\ k \in 1..Len(s) - i + 1 /\ Len(c) + k = j + 1 /\ i + k - 1 = j
    BY <1>0, <1>2, <1>6, <1>9
  <2> HIDE DEF k
  <2> QED BY <1>2, <1>8, <2>1
<1>10. ASSUME NEW j \in 1..Len(s), j < i PROVE r[j] = s[j]
  BY <1>0, <1>6, <1>8, <1>10
<1>11. Len(r) = Len(s) + 1 /\ r[i] = e
  BY <1>0, <1>2, <1>6, <1>8
<1>12. ASSUME NEW j \in 1..Len(r)
       PROVE  \/ j = i
              \/ j < i /\ j \in 1..Len(s) /\ r[j] = s[j]
              \/ j > i /\ j - 1 \in 1..Len(s) /\ r[j] = s[j - 1]
  <2>1. CASE j < i
    BY <1>0, <1>10, <2>1
  <2>2. CASE j > i
    <3> DEFINE k == j - 1
    <3>1. k \in 1..Len(s) /\ k >= i /\ k + 1 = j
      BY <1>0, <1>11, <2>2
    <3> HIDE DEF k
    <3>2. r[j] = s[k]
      BY <1>9, <3>1
    <3> QED BY <2>2, <3>1, <3>2 DEF k
  <2> QED BY <1>0, <2>1, <2>2
<1> QED BY <1>0, <1>8, <1>9, <1>10, <1>11, <1>12 DEF Widened, r

\* r is s without what it has at i.
Narrowed(S, s, i, r) ==
  /\ r \in Seq(S) /\ Len(s) \in Nat /\ i \in 1..Len(s) /\ Len(r) = Len(s) - 1
  /\ \A j \in 1..Len(s) : j < i => r[j] = s[j]
  /\ \A j \in 1..Len(s) : j > i => r[j - 1] = s[j]
  /\ \A j \in 1..Len(r) : \/ j < i /\ j \in 1..Len(s) /\ r[j] = s[j]
                          \/ j >= i /\ j + 1 \in 1..Len(s) /\ r[j] = s[j + 1]

\* RemoveFirst takes e out and closes the gap.
LEMMA Removed ==
  ASSUME NEW S, NEW s \in Seq(S), NEW e, NEW i, OnlyAt(s, i, e)
  PROVE  Narrowed(S, s, i, RemoveFirst(s, e))
<1> DEFINE r == RemoveFirst(s, e)
<1>0. Len(s) \in Nat /\ i \in 1..Len(s) /\ \A j \in 1..Len(s) : s[j] \in S
  BY LenProperties, ElementOfSeq DEF OnlyAt
<1> DEFINE a == SubSeq(s, 1, i - 1)
           b == SubSeq(s, i + 1, Len(s))
<1>1. r = a \o b
  <2>1. \E j \in 1..Len(s) : s[j] = e
    BY DEF OnlyAt
  <2>2. SelectInSeq(s, LAMBDA v : v = e) = PlaceOf(e, s)
    BY DEF PlaceOf
  <2>3. r = RemoveAt(s, PlaceOf(e, s))
    BY <2>1 DEF RemoveFirst, PlaceOf
  <2> QED BY <1>0, <2>3, PlaceFound DEF RemoveAt
<1>2. a \in Seq(S) /\ Len(a) = i - 1 /\ \A j \in 1..i - 1 : a[j] = s[j]
  <2>1. \A j \in 1..i - 1 : s[j] \in S
    BY <1>0
  <2> QED BY <1>0, <2>1, SubSeqProperties
<1>3. b \in Seq(S) /\ Len(b) = Len(s) - i /\ \A j \in 1..Len(s) - i : b[j] = s[i + j]
  <2>1. \A j \in i + 1..Len(s) : s[j] \in S
    BY <1>0
  <2>2. /\ b \in Seq(S) /\ Len(b) = IF i + 1 <= Len(s) THEN Len(s) - (i + 1) + 1 ELSE 0
        /\ \A j \in 1..Len(s) - (i + 1) + 1 : b[j] = s[(i + 1) + j - 1]
    BY <1>0, <2>1, SubSeqProperties
  <2> QED BY <1>0, <2>2
<1> HIDE DEF a, b, r
<1>4. /\ r \in Seq(S) /\ Len(r) = Len(a) + Len(b)
      /\ \A j \in 1..Len(a) : r[j] = a[j]
      /\ \A j \in 1..Len(b) : r[Len(a) + j] = b[j]
  <2>1. Joins(S, a, b, a \o b)
    BY <1>2, <1>3, Joined
  <2> QED BY <1>1, <2>1 DEF Joins
<1>5. ASSUME NEW j \in 1..Len(s), j > i PROVE r[j - 1] = s[j]
  <2> DEFINE k == j - i
  <2>1. k \in 1..Len(b) /\ k \in 1..Len(s) - i /\ Len(a) + k = j - 1 /\ i + k = j
    BY <1>0, <1>2, <1>3, <1>5
  <2> HIDE DEF k
  <2> QED BY <1>3, <1>4, <2>1
<1>6. ASSUME NEW j \in 1..Len(s), j < i PROVE r[j] = s[j]
  BY <1>0, <1>2, <1>3, <1>4, <1>6
<1>7. Len(r) = Len(s) - 1
  BY <1>0, <1>2, <1>3, <1>4
<1>8. ASSUME NEW j \in 1..Len(r)
      PROVE  \/ j < i /\ j \in 1..Len(s) /\ r[j] = s[j]
             \/ j >= i /\ j + 1 \in 1..Len(s) /\ r[j] = s[j + 1]
  <2>1. CASE j < i
    BY <1>0, <1>6, <1>7, <2>1
  <2>2. CASE j >= i
    <3> DEFINE k == j + 1
    <3>1. k \in 1..Len(s) /\ k > i /\ k - 1 = j
      BY <1>0, <1>7, <2>2
    <3> HIDE DEF k
    <3>2. r[j] = s[k]
      BY <1>5, <3>1
    <3> QED BY <2>2, <3>1, <3>2 DEF k
  <2> QED BY <1>0, <2>1, <2>2
<1> QED BY <1>0, <1>4, <1>5, <1>6, <1>7, <1>8 DEF Narrowed, r

\* RemoveFirst leaves a sequence without e as it is.
LEMMA NothingRemoved ==
  ASSUME NEW s, NEW e, \A j \in 1..Len(s) : s[j] # e
  PROVE  RemoveFirst(s, e) = s
BY DEF RemoveFirst


\* The elements of a sequence, none of them twice.
Lists(S, s) ==
  /\ s \in Seq(S) /\ Len(s) \in Nat /\ ToSet(s) \subseteq S
  /\ \A i \in 1..Len(s) : s[i] \in ToSet(s)
  /\ \A e \in ToSet(s) : \E i : OnlyAt(s, i, e)

Distinct(s) == \A i, j \in 1..Len(s) : s[i] = s[j] => i = j

\* What a list of distinct elements is, as one predicate.
LEMMA Listed ==
  ASSUME NEW S, NEW s \in Seq(S), Distinct(s)
  PROVE  Lists(S, s)
<1>1. Len(s) \in Nat /\ ToSet(s) \subseteq S /\ \A i \in 1..Len(s) : s[i] \in ToSet(s)
  BY LenProperties, ElementOfSeq DEF ToSet
<1>2. ASSUME NEW e \in ToSet(s) PROVE \E i : OnlyAt(s, i, e)
  <2>1. PICK i \in 1..Len(s) : s[i] = e
    BY <1>1, <1>2, LenProperties DEF ToSet
  <2> QED BY <2>1 DEF OnlyAt, Distinct
<1> QED BY <1>1, <1>2 DEF Lists

\* A list stays one when a new element is put in, …
LEMMA InsertionListed ==
  ASSUME NEW S, NEW s, Lists(S, s), Distinct(s), NEW i, NEW e \in S, e \notin ToSet(s), NEW r, Widened(S, s, i, e, r)
  PROVE  Distinct(r) /\ Lists(S, r) /\ ToSet(r) = ToSet(s) \cup {e}
<1>1. \A j \in 1..Len(s) : s[j] # e
  BY DEF Lists
<1>2. ASSUME NEW j \in 1..Len(r), NEW k \in 1..Len(r), r[j] = r[k] PROVE j = k
  <2>0. Len(s) \in Nat /\ Len(r) \in Nat /\ i \in Nat /\ r[i] = e
    BY DEF Widened
  <2>1. CASE j = i
    BY <1>1, <1>2, <2>0, <2>1 DEF Widened
  <2>2. CASE k = i
    BY <1>1, <1>2, <2>0, <2>2 DEF Widened
  <2>3. CASE j # i /\ k # i
    <3>1. (j < i /\ j \in 1..Len(s) /\ r[j] = s[j]) \/ (j > i /\ j - 1 \in 1..Len(s) /\ r[j] = s[j - 1])
      BY <2>3 DEF Widened
    <3>2. (k < i /\ k \in 1..Len(s) /\ r[k] = s[k]) \/ (k > i /\ k - 1 \in 1..Len(s) /\ r[k] = s[k - 1])
      BY <2>3 DEF Widened
    <3>3. j = k \/ (j = k - 1 /\ j < i /\ k > i) \/ (j - 1 = k /\ j > i /\ k < i) \/ j - 1 = k - 1
      BY <1>2, <3>1, <3>2 DEF Distinct
    <3> QED BY <2>0, <3>3
  <2> QED BY <2>1, <2>2, <2>3
<1>3. Distinct(r)
  BY <1>2 DEF Distinct
<1>4. Lists(S, r)
  BY <1>3, Listed DEF Widened
<1>5. ASSUME NEW x \in ToSet(r) PROVE x \in ToSet(s) \cup {e}
  <2>1. PICK j \in 1..Len(r) : r[j] = x
    BY <1>4 DEF Lists, OnlyAt
  <2>2. r[j] = e \/ (j \in 1..Len(s) /\ r[j] = s[j]) \/ (j - 1 \in 1..Len(s) /\ r[j] = s[j - 1])
    BY DEF Widened
  <2> QED BY <2>1, <2>2 DEF Lists
<1>6. e \in ToSet(r)
  BY <1>4 DEF Lists, Widened
<1>7. ASSUME NEW x \in ToSet(s) PROVE x \in ToSet(r)
  <2>1. PICK j \in 1..Len(s) : s[j] = x
    BY DEF Lists, OnlyAt
  <2>2. j \in 1..Len(r) /\ j + 1 \in 1..Len(r) /\ j \in Nat /\ i \in Nat
    BY DEF Widened
  <2>3. r[j] = x \/ r[j + 1] = x
    BY <2>1, <2>2 DEF Widened
  <2> QED BY <1>4, <2>2, <2>3 DEF Lists
<1> QED BY <1>3, <1>4, <1>5, <1>6, <1>7

\* … and when one is taken out.
LEMMA RemovalListed ==
  ASSUME NEW S, NEW s, Lists(S, s), Distinct(s), NEW i, NEW e, OnlyAt(s, i, e), NEW r, Narrowed(S, s, i, r)
  PROVE  Distinct(r) /\ Lists(S, r) /\ ToSet(r) = ToSet(s) \ {e}
<1>0. Len(s) \in Nat /\ Len(r) = Len(s) - 1 /\ i \in Nat /\ i \in 1..Len(s)
  BY DEF Narrowed
<1>2. ASSUME NEW j \in 1..Len(r), NEW k \in 1..Len(r), r[j] = r[k] PROVE j = k
  <2>1. (j < i /\ j \in 1..Len(s) /\ r[j] = s[j]) \/ (j >= i /\ j + 1 \in 1..Len(s) /\ r[j] = s[j + 1])
    BY DEF Narrowed
  <2>2. (k < i /\ k \in 1..Len(s) /\ r[k] = s[k]) \/ (k >= i /\ k + 1 \in 1..Len(s) /\ r[k] = s[k + 1])
    BY DEF Narrowed
  <2>3. j = k \/ (j = k + 1 /\ j < i /\ k >= i) \/ (j + 1 = k /\ j >= i /\ k < i) \/ j + 1 = k + 1
    BY <1>2, <2>1, <2>2 DEF Distinct
  <2> QED BY <1>0, <2>3
<1>3. Distinct(r)
  BY <1>2 DEF Distinct
<1>4. Lists(S, r)
  BY <1>3, Listed DEF Narrowed
<1>5. ASSUME NEW x \in ToSet(r) PROVE x \in ToSet(s) \ {e}
  <2>1. PICK j \in 1..Len(r) : r[j] = x
    BY <1>4 DEF Lists, OnlyAt
  <2>2. (j < i /\ j \in 1..Len(s) /\ r[j] = s[j]) \/ (j >= i /\ j + 1 \in 1..Len(s) /\ r[j] = s[j + 1])
    BY DEF Narrowed
  <2>3. j + 1 # i \/ j < i
    BY <1>0
  <2> QED BY <1>0, <2>1, <2>2, <2>3 DEF Lists, OnlyAt
<1>7. ASSUME NEW x \in ToSet(s), x # e PROVE x \in ToSet(r)
  <2>1. PICK j \in 1..Len(s) : s[j] = x
    BY DEF Lists, OnlyAt
  <2>2. j # i
    BY <1>7, <2>1 DEF OnlyAt
  <2>3. (j \in 1..Len(r) /\ r[j] = x) \/ (j - 1 \in 1..Len(r) /\ r[j - 1] = x)
    BY <1>0, <2>1, <2>2 DEF Narrowed
  <2> QED BY <1>4, <2>3 DEF Lists
<1> QED BY <1>3, <1>4, <1>5, <1>7
-----------------------------------------------------------------------------
(* Numbers that are given.                                                 *)

\* SetToSeq lists a finite set, each element once.
LEMMA InOrder ==
  ASSUME NEW N, IsFiniteSet(N)
  PROVE  /\ Cardinality(N) \in Nat /\ SetToSeq(N) \in Seq(N) /\ Len(SetToSeq(N)) = Cardinality(N)
         /\ \A n \in N : \E i : OnlyAt(SetToSeq(N), i, n)
<1> DEFINE k == Cardinality(N)
           f == SetToSeq(N)
<1>1. k \in Nat /\ ExistsBijection(1..k, N)
  BY FS_CardinalityType
<1>2. \E g \in [1..k -> N] : IsInjective(g)
  <2>1. PICK g \in Bijection(1..k, N) : TRUE
    BY <1>1 DEF ExistsBijection
  <2> QED BY <2>1 DEF Bijection, Injection
<1>3. f \in [1..k -> N] /\ IsInjective(f)
  BY <1>2 DEF SetToSeq
<1>4. f \in Surjection(1..k, N)
  <2>1. f \in Injection(1..k, N)
    BY <1>3 DEF Injection
  <2>2. Cardinality(1..k) = k
    BY <1>1, FS_Interval
  <2> HIDE DEF f
  <2> QED BY <2>1, <2>2, FS_Injection
<1> HIDE DEF f
<1>5. f \in Seq(N) /\ Len(f) = k
  BY <1>1, <1>3
<1>6. ASSUME NEW n \in N PROVE \E i : OnlyAt(f, i, n)
  <2>1. PICK i \in 1..k : f[i] = n
    BY <1>4 DEF Surjection
  <2>2. \A j \in 1..k : f[j] = f[i] => j = i
    BY <1>3 DEF IsInjective
  <2> QED BY <1>5, <2>1, <2>2 DEF OnlyAt
<1> QED BY <1>1, <1>5, <1>6 DEF f

\* The nodes N got the numbers after from, each one of its own.
Renumbers(N, from, nums, r) ==
  /\ from + Cardinality(N) \in Nat
  /\ r \in [Nodes -> 0..from + Cardinality(N)]
  /\ \A n \in N : r[n] > from
  /\ \A n, m \in N : r[n] = r[m] => n = m
  /\ \A n \in Nodes \ N : r[n] = nums[n]

\* Numbered gives new and distinct numbers to the nodes N, and leaves the others'.
LEMMA NumbersGiven ==
  ASSUME NEW N \in SUBSET Nodes, NEW from \in Nat, NEW nums \in [Nodes -> 0..from], IsFiniteSet(N)
  PROVE  Renumbers(N, from, nums, Numbered(N, from, nums))
<1> DEFINE f == SetToSeq(N)
           k == Cardinality(N)
           r == Numbered(N, from, nums)
<1>1. k \in Nat /\ Len(f) = k /\ \A n \in N : \E i : OnlyAt(f, i, n)
  BY InOrder
<1>2. r = [n \in Nodes |-> IF n \in N THEN from + PlaceOf(n, f) ELSE nums[n]]
  BY DEF Numbered
<1> HIDE DEF f, k, r
<1>3. ASSUME NEW n \in N PROVE PlaceOf(n, f) \in 1..k /\ OnlyAt(f, PlaceOf(n, f), n)
  <2>1. PICK i : OnlyAt(f, i, n)
    BY <1>1
  <2>2. PlaceOf(n, f) = i
    BY <1>1, <2>1, PlaceFound
  <2> QED BY <1>1, <2>1, <2>2 DEF OnlyAt
<1>4. \A n \in N : r[n] = from + PlaceOf(n, f)
  BY <1>2
<1>5. \A n \in Nodes \ N : r[n] = nums[n]
  BY <1>2
<1>6. ASSUME NEW n \in N, NEW m \in N, r[n] = r[m] PROVE n = m
  <2>1. PlaceOf(n, f) = PlaceOf(m, f)
    <3>1. PlaceOf(n, f) \in Nat /\ PlaceOf(m, f) \in Nat
      BY <1>1, <1>3
    <3> QED BY <1>4, <1>6, <3>1
  <2> QED BY <1>3, <2>1 DEF OnlyAt
<1>7. ASSUME NEW n \in Nodes PROVE r[n] \in 0..from + k
  <2>1. CASE n \in N
    BY <1>1, <1>3, <1>4, <2>1
  <2>2. CASE n \notin N
    BY <1>1, <1>5, <2>2
  <2> QED BY <2>1, <2>2
<1>8. \A n \in N : r[n] > from
  BY <1>1, <1>3, <1>4
<1>9. r \in [Nodes -> 0..from + k]
  BY <1>2, <1>7
<1> QED BY <1>1, <1>5, <1>6, <1>8, <1>9 DEF Renumbers, k, r

\* A subset of the page's nodes is finite.
LEMMA NodesFinite == \A N \in SUBSET Nodes : IsFiniteSet(N)
<1>1. IsFiniteSet(Nodes)
  BY NodeTreeAssumption, FS_AddElement DEF Nodes
<1> QED BY <1>1, FS_Subset


-----------------------------------------------------------------------------
(* The page.                                                               *)

\* Every element has at most one place in K, and only the document and its children
\* have children; a shadow root is told from a child by the slot.
WellFormed(K) ==
  /\ K \in [Nodes -> [Slots -> Seq(Elements)]]
  /\ \A n \in Nodes, s \in Slots : Distinct(K[n][s])
  /\ \A n, m \in Nodes, s, t \in Slots :
       \A e \in ToSet(K[n][s]) : e \in ToSet(K[m][t]) => n = m /\ s = t
  /\ \A n \in Nodes : n # Doc /\ n \notin ToSet(K[Doc]["children"]) => K[n] = Leaf
  /\ K[Doc]["shadow"] = <<>>
  /\ \A n \in Nodes, s \in Slots : \A e \in ToSet(K[n][s]) : s = SlotOf(e)

\* The slots, the nodes and the slots of the elements, by name.
LEMMA SlotNames == /\ Slots = {"children", "shadow"} /\ "children" # "shadow"
                   /\ \A e \in Elements : SlotOf(e) \in Slots
                   /\ Doc \in Nodes /\ Doc \notin Elements /\ Elements \subseteq Nodes
                   /\ \A n \in Nodes : n = Doc \/ n \in Elements
BY NodeTreeAssumption DEF Slots, SlotOf, Nodes

\* In a well-formed page each slot of a node is a list of elements that fit it.
LEMMA KidsAre ==
  ASSUME NEW K, WellFormed(K), NEW n \in Nodes, NEW s \in Slots
  PROVE  Lists(Elements, K[n][s])
BY Listed DEF WellFormed

\* What is in a slot is an element.
LEMMA KidsElements ==
  ASSUME NEW K, WellFormed(K), NEW n \in Nodes, NEW s \in Slots
  PROVE  K[n][s] \in Seq(Elements) /\ ToSet(K[n][s]) \subseteq Elements
BY KidsAre DEF Lists

\* An element has one parent and one slot.
LEMMA OnePlace ==
  ASSUME NEW K, WellFormed(K), NEW n \in Nodes, NEW m \in Nodes, NEW s \in Slots, NEW t \in Slots,
         NEW e, e \in ToSet(K[n][s]), e \in ToSet(K[m][t])
  PROVE  n = m /\ s = t
BY DEF WellFormed

\* A child has one place in its slot.
LEMMA PlacedAt ==
  ASSUME NEW K, WellFormed(K), NEW n \in Nodes, NEW s \in Slots, NEW e, e \in ToSet(K[n][s])
  PROVE  \E i : OnlyAt(K[n][s], i, e)
BY KidsAre DEF Lists

\* A leaf has nothing below it, …
LEMMA LeafIsEmpty == \A s \in Slots : Leaf[s] = <<>> /\ ToSet(<<>>) = {} /\ Distinct(<<>>) /\ <<>> \in Seq(Elements)
BY DEF Leaf, ToSet, Distinct

\* … and is all that has nothing below it.
LEMMA IsLeaf == ASSUME NEW f \in [Slots -> Seq(Elements)], \A t \in Slots : f[t] = <<>> PROVE f = Leaf
BY DEF Leaf

\* Only the document and its children have children.
LEMMA Parents ==
  ASSUME NEW K, WellFormed(K), NEW n \in Nodes, NEW s \in Slots, NEW e, e \in ToSet(K[n][s])
  PROVE  /\ e \in Elements
         /\ \/ n = Doc /\ s = "children"
            \/ n \in Elements /\ n \in ToSet(K[Doc]["children"])
<1>1. e \in Elements
  BY KidsElements
<1>2. CASE n = Doc
  <2>1. s # "shadow"
    BY <1>2, LeafIsEmpty DEF WellFormed
  <2> QED BY <1>1, <1>2, <2>1 DEF Slots
<1>3. CASE n # Doc
  <2>1. K[n] # Leaf
    BY LeafIsEmpty
  <2> QED BY <1>1, <1>3, <2>1, SlotNames DEF WellFormed
<1> QED BY <1>2, <1>3

\* So no element is its own child, or the child of its child.
LEMMA NoCycle ==
  ASSUME NEW K, WellFormed(K), NEW p \in Nodes, NEW s \in Slots, NEW e \in Elements, e \in ToSet(K[p][s]),
         NEW t \in Slots
  PROVE  e # p /\ p \notin ToSet(K[e][t])
<1> USE SlotNames
<1>1. CASE p = Doc
  <2>1. e # p
    BY <1>1
  <2>2. ToSet(K[e][t]) \subseteq Elements
    BY KidsElements
  <2> QED BY <1>1, <2>1, <2>2
<1>2. CASE p # Doc
  <2>1. p \in ToSet(K[Doc]["children"])
    BY <1>2, Parents
  <2>2. e # p
    BY <1>2, <2>1, OnePlace
  <2>3. p \notin ToSet(K[e][t])
    BY <1>2, <2>1, OnePlace
  <2> QED BY <2>2, <2>3
<1> QED BY <1>1, <1>2

\* A grandchild has no children of its own.
LEMMA Grandchild ==
  ASSUME NEW K, WellFormed(K), NEW p \in Nodes, p # Doc, NEW s \in Slots, NEW e \in ToSet(K[p][s])
  PROVE  e \in Elements /\ K[e] = Leaf
<1>1. e \in Elements
  BY Parents
<1>2. e \notin ToSet(K[Doc]["children"])
  BY OnePlace, SlotNames
<1> QED BY <1>1, <1>2, SlotNames DEF WellFormed

\* The nodes of a well-formed page are the document and what has a place.
LEMMA InsideIs ==
  ASSUME WellFormed(kids)
  PROVE  \A e : e \in Inside <=> e = Doc \/ \E n \in Nodes, s \in Slots : e \in ToSet(kids[n][s])
<1>1. ASSUME NEW e \in Inside, e # Doc PROVE \E n \in Nodes, s \in Slots : e \in ToSet(kids[n][s])
  <2>1. CASE e \in Below(Doc)
    BY <2>1, SlotNames DEF Below
  <2>2. CASE e \notin Below(Doc)
    <3>1. PICK n \in Below(Doc) : e \in Below(n)
      BY <1>1, <2>2 DEF Inside
    <3>2. n \in Nodes
      <4>1. PICK s \in Slots : n \in ToSet(kids[Doc][s])
        BY <3>1 DEF Below
      <4> QED BY <4>1, KidsElements, SlotNames
    <3> QED BY <3>1, <3>2 DEF Below
  <2> QED BY <2>1, <2>2
<1>2. ASSUME NEW e, NEW n \in Nodes, NEW s \in Slots, e \in ToSet(kids[n][s]) PROVE e \in Inside
  <2>1. CASE n = Doc
    BY <1>2, <2>1 DEF Inside, Below
  <2>2. CASE n # Doc
    <3>1. n \in ToSet(kids[Doc]["children"])
      BY <1>2, <2>2, Parents
    <3>2. n \in Below(Doc)
      BY <3>1, SlotNames DEF Below
    <3>3. e \in Below(n)
      BY <1>2 DEF Below
    <3> QED BY <3>2, <3>3 DEF Inside
  <2> QED BY <2>1, <2>2
<1>3. Doc \in Inside
  BY DEF Inside
<1> QED BY <1>1, <1>2, <1>3

\* ParentOf finds the node whose slot holds e.
LEMMA ParentIs ==
  ASSUME WellFormed(kids), NEW n \in Nodes, NEW s \in Slots, NEW e, e \in ToSet(kids[n][s])
  PROVE  ParentOf(e) = n /\ SlotOf(e) = s
<1>1. n \in Nodes /\ e \in Below(n)
  BY DEF Below
<1>2. ASSUME NEW m \in Nodes, e \in Below(m) PROVE m = n
  BY <1>2, OnePlace DEF Below
<1>3. ParentOf(e) = n
  BY <1>1, <1>2 DEF ParentOf
<1> QED BY <1>3 DEF WellFormed

\* J is K but for one slot.
Rewrites(K, J, p, s) ==
  /\ J \in [Nodes -> [Slots -> Seq(Elements)]]
  /\ \A n \in Nodes, t \in Slots : n # p \/ t # s => J[n][t] = K[n][t]

\* The page that InsertElement makes is well formed.
LEMMA InsertedPage ==
  ASSUME NEW K, NEW J, WellFormed(K), NEW e \in Elements, NEW p \in Nodes, NEW s, s = SlotOf(e),
         \A n \in Nodes, t \in Slots : e \notin ToSet(K[n][t]),
         p = Doc \/ p \in ToSet(K[Doc]["children"]), NEW i,
         s = "shadow" => p # Doc, Rewrites(K, J, p, s), Widened(Elements, K[p][s], i, e, J[p][s])
  PROVE  WellFormed(J) /\ ToSet(J[p][s]) = ToSet(K[p][s]) \cup {e}
<1>0. s \in Slots /\ Lists(Elements, K[p][s]) /\ Distinct(K[p][s])
  BY KidsAre, SlotNames DEF WellFormed
<1>1. Distinct(J[p][s]) /\ ToSet(J[p][s]) = ToSet(K[p][s]) \cup {e}
  <2> DEFINE x == K[p][s]
             y == J[p][s]
  <2>1. Lists(Elements, x) /\ Distinct(x) /\ e \notin ToSet(x) /\ Widened(Elements, x, i, e, y)
    BY <1>0
  <2> HIDE DEF x, y
  <2>2. Distinct(y) /\ ToSet(y) = ToSet(x) \cup {e}
    BY <2>1, InsertionListed
  <2> QED BY <2>2 DEF x, y
<1>2. J \in [Nodes -> [Slots -> Seq(Elements)]] /\ \A n \in Nodes, t \in Slots : n # p \/ t # s => J[n][t] = K[n][t]
  BY DEF Rewrites
<1>3. ASSUME NEW n \in Nodes, NEW t \in Slots PROVE Distinct(J[n][t]) /\ \A x \in ToSet(J[n][t]) : (x = e /\ n = p /\ t = s) \/ (x # e /\ x \in ToSet(K[n][t]))
  <2>1. CASE n = p /\ t = s
    BY <1>1, <2>1
  <2>2. CASE n # p \/ t # s
    <3>1. J[n][t] = K[n][t]
      BY <1>2, <2>2
    <3>2. Distinct(K[n][t]) /\ e \notin ToSet(K[n][t])
      BY DEF WellFormed
    <3> QED BY <3>1, <3>2
  <2> QED BY <2>1, <2>2
<1>4. ASSUME NEW n \in Nodes, NEW m \in Nodes, NEW t \in Slots, NEW u \in Slots,
             NEW x \in ToSet(J[n][t]), x \in ToSet(J[m][u])
      PROVE  n = m /\ t = u
  <2>1. CASE x = e
    <3>1. \A k \in Nodes, o \in Slots : e \notin ToSet(K[k][o])
      OBVIOUS
    <3>2. (n = p /\ t = s) /\ (m = p /\ u = s)
      BY <1>3, <1>4, <2>1
    <3> QED BY <3>2
  <2>2. CASE x # e
    <3>1. x \in ToSet(K[n][t]) /\ x \in ToSet(K[m][u])
      BY <1>3, <1>4, <2>2
    <3> QED BY <3>1, OnePlace
  <2> QED BY <2>1, <2>2
<1>5. ASSUME NEW n \in Nodes, n # Doc, n \notin ToSet(J[Doc]["children"]) PROVE J[n] = Leaf
  <2>1. n \notin ToSet(K[Doc]["children"])
    BY <1>1, <1>2, <1>5, SlotNames
  <2>2. K[n] = Leaf /\ n # p
    BY <1>5, <2>1, SlotNames DEF WellFormed
  <2>3. \A t \in Slots : J[n][t] = <<>>
    BY <1>2, <2>2, LeafIsEmpty
  <2> QED BY <1>2, <2>3, IsLeaf
<1>6. J[Doc]["shadow"] = <<>>
  <2>1. Doc # p \/ "shadow" # s
    OBVIOUS
  <2> QED BY <1>2, <2>1, SlotNames DEF WellFormed
<1>7. ASSUME NEW n \in Nodes, NEW t \in Slots, NEW x \in ToSet(J[n][t]) PROVE t = SlotOf(x)
  <2>1. (x = e /\ t = s) \/ x \in ToSet(K[n][t])
    BY <1>3
  <2> QED BY <2>1 DEF WellFormed
<1>8. WellFormed(J)
  <2>1. \A n, m \in Nodes, t, u \in Slots : \A x \in ToSet(J[n][t]) : x \in ToSet(J[m][u]) => n = m /\ t = u
    BY <1>4
  <2>2. \A n \in Nodes, t \in Slots : Distinct(J[n][t]) /\ \A x \in ToSet(J[n][t]) : t = SlotOf(x)
    BY <1>3, <1>7
  <2> QED BY <1>2, <1>5, <1>6, <2>1, <2>2 DEF WellFormed
<1> QED BY <1>1, <1>8

\* J is K without e, and what was below it.
Prunes(K, J, p, s, e) ==
  /\ J \in [Nodes -> [Slots -> Seq(Elements)]] /\ J[e] = Leaf
  /\ \A n \in Nodes, t \in Slots : n # e /\ (n # p \/ t # s) => J[n][t] = K[n][t]

\* The page that RemoveElement makes is well formed.
LEMMA RemovedPage ==
  ASSUME NEW K, NEW J, WellFormed(K), NEW p \in Nodes, NEW s \in Slots, NEW e, e \in ToSet(K[p][s]), NEW i, OnlyAt(K[p][s], i, e),
         Narrowed(Elements, K[p][s], i, J[p][s]), Prunes(K, J, p, s, e)
  PROVE  WellFormed(J) /\ ToSet(J[p][s]) = ToSet(K[p][s]) \ {e}
<1>0. e \in Elements /\ e \in Nodes /\ Lists(Elements, K[p][s]) /\ Distinct(K[p][s])
  BY KidsElements, KidsAre, SlotNames DEF WellFormed
<1>p. \A n, m \in Nodes, t, u \in Slots : \A x \in ToSet(K[n][t]) : x \in ToSet(K[m][u]) => n = m /\ t = u
  BY DEF WellFormed
<1>1. Distinct(J[p][s]) /\ ToSet(J[p][s]) = ToSet(K[p][s]) \ {e}
  BY <1>0, RemovalListed
<1>2. \A t \in Slots : J[e][t] = <<>> /\ ToSet(J[e][t]) = {} /\ Distinct(J[e][t])
  BY LeafIsEmpty DEF Prunes
<1>3. ASSUME NEW n \in Nodes, NEW t \in Slots PROVE Distinct(J[n][t]) /\ ToSet(J[n][t]) \subseteq ToSet(K[n][t]) /\ e \notin ToSet(J[n][t])
  <2>1. CASE n = e
    BY <1>2, <2>1
  <2>2. CASE n = p /\ t = s
    BY <1>1, <2>2
  <2>3. CASE n # e /\ (n # p \/ t # s)
    <3>1. J[n][t] = K[n][t]
      BY <2>3 DEF Prunes
    <3>2. e \notin ToSet(K[n][t])
      <4> SUFFICES ASSUME e \in ToSet(K[n][t]) PROVE FALSE
        OBVIOUS
      <4>1. n = p /\ t = s
        BY <1>0, <1>p
      <4> QED BY <2>3, <4>1
    <3> QED BY <3>1, <3>2 DEF WellFormed
  <2> QED BY <2>1, <2>2, <2>3
<1>4. ASSUME NEW n \in Nodes, NEW m \in Nodes, NEW t \in Slots, NEW u \in Slots,
             NEW x \in ToSet(J[n][t]), x \in ToSet(J[m][u])
      PROVE  n = m /\ t = u
  <2>1. x \in ToSet(K[n][t]) /\ x \in ToSet(K[m][u])
    BY <1>3, <1>4
  <2> QED BY <2>1, <1>p
<1>5. ASSUME NEW n \in Nodes, n # Doc, n \notin ToSet(J[Doc]["children"]) PROVE J[n] = Leaf
  <2>1. CASE n = e
    BY <2>1 DEF Prunes
  <2>2. CASE n # e
    <3>1. n \notin ToSet(K[Doc]["children"])
      <4>1. CASE p = Doc /\ s = "children"
        BY <1>1, <1>5, <2>2, <4>1
      <4>2. CASE p # Doc \/ s # "children"
        BY <1>0, <1>5, <2>2, <4>2, SlotNames DEF Prunes
      <4> QED BY <4>1, <4>2
    <3>2. K[n] = Leaf /\ n # p
      BY <1>5, <3>1, LeafIsEmpty, SlotNames DEF WellFormed
    <3>3. \A t \in Slots : J[n][t] = <<>>
      BY <2>2, <3>2, LeafIsEmpty DEF Prunes
    <3> QED BY <3>3, IsLeaf DEF Prunes
  <2> QED BY <2>1, <2>2
<1>6. J[Doc]["shadow"] = <<>>
  <2>1. Doc # p \/ "shadow" # s
    BY LeafIsEmpty, SlotNames DEF WellFormed
  <2> QED BY <1>0, <2>1, SlotNames DEF WellFormed, Prunes
<1>7. ASSUME NEW n \in Nodes, NEW t \in Slots, NEW x \in ToSet(J[n][t]) PROVE t = SlotOf(x)
  <2>1. x \in ToSet(K[n][t])
    BY <1>3
  <2> QED BY <2>1 DEF WellFormed
<1>8. WellFormed(J)
  <2>1. \A n, m \in Nodes, t, u \in Slots : \A x \in ToSet(J[n][t]) : x \in ToSet(J[m][u]) => n = m /\ t = u
    BY <1>4
  <2>2. \A n \in Nodes, t \in Slots : Distinct(J[n][t]) /\ \A x \in ToSet(J[n][t]) : t = SlotOf(x)
    BY <1>3, <1>7
  <2> QED BY <1>5, <1>6, <2>1, <2>2 DEF WellFormed, Prunes
<1> QED BY <1>1, <1>8

\* The pages a load commits.
LEMMA PagesFormed == ASSUME NEW K \in Pages PROVE WellFormed(K)
<1> USE SlotNames
<1>1. /\ Leaf \in [Slots -> Seq(Elements)] /\ Blank \in [Nodes -> [Slots -> Seq(Elements)]]
      /\ \A n \in Nodes, s \in Slots : Blank[n][s] = <<>> /\ Blank[n] = Leaf
  BY LeafIsEmpty DEF Blank, Leaf
<1>2. CASE K = Blank
  BY <1>1, <1>2, LeafIsEmpty DEF WellFormed
<1>3. CASE K # Blank
  <2>1. PICK e \in Elements \ (Shadow \cup {Target}) :
           K = [Blank EXCEPT ![Doc].children = <<e>>, ![e].children = <<Target>>]
    BY <1>3 DEF Pages
  <2>2. Target \in Elements /\ SlotOf(Target) = "children" /\ SlotOf(e) = "children" /\ e # Target /\ e # Doc /\ e \in Nodes
    BY NodeTreeAssumption DEF SlotOf
  <2> DEFINE A == [Leaf EXCEPT !["children"] = <<e>>]
             B == [Leaf EXCEPT !["children"] = <<Target>>]
  <2>a. /\ A \in [Slots -> Seq(Elements)] /\ A["children"] = <<e>> /\ A["shadow"] = <<>>
        /\ B \in [Slots -> Seq(Elements)] /\ B["children"] = <<Target>> /\ B["shadow"] = <<>>
    <3>1. <<e>> \in Seq(Elements) /\ <<Target>> \in Seq(Elements)
      BY <2>2
    <3> QED BY <1>1, <3>1 DEF Leaf
  <2>b. K = [[Blank EXCEPT ![Doc] = A] EXCEPT ![e] = B]
    BY <1>1, <2>1, <2>2
  <2> HIDE DEF A, B
  <2>3. /\ K \in [Nodes -> [Slots -> Seq(Elements)]] /\ K[Doc] = A /\ K[e] = B
        /\ \A n \in Nodes : n # Doc /\ n # e => K[n] = Leaf
    BY <1>1, <2>2, <2>a, <2>b
  <2>4. /\ ToSet(<<e>>) = {e} /\ Distinct(<<e>>)
        /\ ToSet(<<Target>>) = {Target} /\ Distinct(<<Target>>)
    BY DEF ToSet, Distinct
  <2>5. ASSUME NEW n \in Nodes, NEW s \in Slots PROVE Distinct(K[n][s])
    <3>0. (s = "children" \/ s = "shadow") /\ Distinct(<<>>)
      BY SlotNames, LeafIsEmpty
    <3>1. CASE n = Doc
      <4>1. K[n][s] = <<e>> \/ K[n][s] = <<>>
        BY <2>3, <2>a, <3>0, <3>1
      <4> QED BY <2>4, <3>0, <4>1
    <3>2. CASE n = e
      <4>1. K[n][s] = <<Target>> \/ K[n][s] = <<>>
        BY <2>3, <2>a, <3>0, <3>2
      <4> QED BY <2>4, <3>0, <4>1
    <3>3. CASE n # Doc /\ n # e
      BY <2>3, <3>3, LeafIsEmpty
    <3> QED BY <3>1, <3>2, <3>3
  <2>6. ASSUME NEW n \in Nodes, NEW s \in Slots, NEW x \in ToSet(K[n][s])
        PROVE  s = "children" /\ ((n = Doc /\ x = e) \/ (n = e /\ x = Target))
    <3>0. (s = "children" \/ s = "shadow") /\ ToSet(<<>>) = {}
      BY SlotNames, LeafIsEmpty
    <3>1. CASE n = Doc
      <4>1. (s = "children" /\ K[n][s] = <<e>>) \/ K[n][s] = <<>>
        BY <2>3, <2>a, <3>0, <3>1
      <4> QED BY <2>4, <2>6, <3>0, <3>1, <4>1
    <3>2. CASE n = e
      <4>1. (s = "children" /\ K[n][s] = <<Target>>) \/ K[n][s] = <<>>
        BY <2>3, <2>a, <3>0, <3>2
      <4> QED BY <2>4, <2>6, <3>0, <3>2, <4>1
    <3>3. CASE n # Doc /\ n # e
      BY <2>3, <2>6, <3>3, LeafIsEmpty
    <3> QED BY <3>1, <3>2, <3>3
  <2>7. \A n, m \in Nodes, s, t \in Slots :
           \A x \in ToSet(K[n][s]) : x \in ToSet(K[m][t]) => n = m /\ s = t
    BY <2>2, <2>6
  <2>8. \A n \in Nodes : n # Doc /\ n \notin ToSet(K[Doc]["children"]) => K[n] = Leaf
    BY <2>3, <2>4, <2>a
  <2>9. K[Doc]["shadow"] = <<>>
    BY <2>3, <2>a
  <2>10. \A n \in Nodes, s \in Slots : \A x \in ToSet(K[n][s]) : s = SlotOf(x)
    BY <2>2, <2>6
  <2> QED BY <2>3, <2>5, <2>7, <2>8, <2>9, <2>10 DEF WellFormed
<1> QED BY <1>2, <1>3

-----------------------------------------------------------------------------
(* What Chrome has told.                                                   *)

\* The slot s of n has been told: the children once opened, the shadow root with the node.
Shows(N, O, n, s) == IF s = "children" THEN n \in O ELSE N[n] # 0

\* An element has a number just when the slot it is in has been told.
ToldOK(K, N, O, l) ==
  /\ l \in Nat /\ N \in [Nodes -> 0..l]
  /\ \A n, m \in Nodes : N[n] # 0 /\ N[n] = N[m] => n = m
  /\ O \subseteq Nodes /\ \A n \in O : N[n] # 0
  /\ \A n \in Nodes : N[n] # 0 => Doc \in O
  /\ \A n \in Nodes, s \in Slots : \A e \in ToSet(K[n][s]) : N[e] # 0 <=> Shows(N, O, n, s)
  /\ \A n \in Nodes : N[n] # 0 /\ n # Doc => \E m \in Nodes, s \in Slots : n \in ToSet(K[m][s])

\* Nothing, of any page.
LEMMA NothingTold ==
  ASSUME NEW K, WellFormed(K), NEW l \in Nat
  PROVE  ToldOK(K, [n \in Nodes |-> 0], {}, l)
<1> DEFINE N == [n \in Nodes |-> 0]
<1>1. N \in [Nodes -> 0..l] /\ \A n \in Nodes : N[n] = 0
  OBVIOUS
<1> HIDE DEF N
<1>2. ASSUME NEW n \in Nodes, NEW s \in Slots, NEW e \in ToSet(K[n][s]) PROVE N[e] # 0 <=> Shows(N, {}, n, s)
  <2>1. e \in Nodes
    BY KidsElements, SlotNames
  <2> QED BY <1>1, <2>1 DEF Shows
<1>3. ToldOK(K, N, {}, l)
  BY <1>1, <1>2 DEF ToldOK
<1> QED BY <1>3 DEF N

\* An element the page has no place for has no number.
LEMMA Unplaced ==
  ASSUME NEW K, WellFormed(K), NEW N, NEW O, NEW l, ToldOK(K, N, O, l), NEW e \in Elements,
         \A n \in Nodes, t \in Slots : e \notin ToSet(K[n][t])
  PROVE  N[e] = 0 /\ e \notin O /\ K[e] = Leaf
<1>1. N[e] = 0 /\ e \notin O
  BY SlotNames DEF ToldOK
<1>2. e \notin ToSet(K[Doc]["children"])
  BY SlotNames
<1> QED BY <1>1, <1>2, SlotNames DEF WellFormed

\* A page with e put in the slot s of p, told or not.
LEMMA ToldInserted ==
  ASSUME NEW K, NEW J, WellFormed(K), NEW e \in Elements, NEW p \in Nodes, NEW s \in Slots,
         \A n \in Nodes, t \in Slots : e \notin ToSet(K[n][t]), p # e,
         Rewrites(K, J, p, s), ToSet(J[p][s]) = ToSet(K[p][s]) \cup {e},
         NEW N, NEW O, NEW l, ToldOK(K, N, O, l)
  PROVE  /\ ~Shows(N, O, p, s) => ToldOK(J, N, O, l)
         /\ \A M : Shows(N, O, p, s) /\ Renumbers({e}, l, N, M) => ToldOK(J, M, O, l + 1)
<1>1. N[e] = 0 /\ e \notin O /\ K[e] = Leaf /\ e \in Nodes
  BY Unplaced, SlotNames
<1>2. /\ \A n \in Nodes, t \in Slots : n # p \/ t # s => J[n][t] = K[n][t]
      /\ \A t \in Slots : ToSet(J[e][t]) = {}
  <2>1. \A n \in Nodes, t \in Slots : n # p \/ t # s => J[n][t] = K[n][t]
    BY DEF Rewrites
  <2>2. ASSUME NEW t \in Slots PROVE ToSet(J[e][t]) = {}
    <3>1. J[e][t] = Leaf[t]
      BY <1>1, <2>1
    <3> QED BY <3>1, LeafIsEmpty
  <2> QED BY <2>1, <2>2
<1>3. ASSUME NEW n \in Nodes, NEW t \in Slots, NEW x \in ToSet(J[n][t])
      PROVE  n # e /\ (\/ x = e /\ n = p /\ t = s
                       \/ x # e /\ x \in ToSet(K[n][t]) /\ x \in Nodes)
  <2>1. n # e
    BY <1>2, <1>3
  <2>2. CASE n = p /\ t = s
    <3>1. CASE x = e
      BY <2>1, <2>2, <3>1
    <3>2. CASE x # e
      <4>1. x \in ToSet(K[n][t])
        BY <1>3, <2>2, <3>2
      <4>2. x \in Nodes
        BY <4>1, KidsElements, SlotNames
      <4> QED BY <2>1, <3>2, <4>1, <4>2
    <3> QED BY <3>1, <3>2
  <2>3. CASE n # p \/ t # s
    <3>1. x \in ToSet(K[n][t])
      BY <1>2, <1>3, <2>3
    <3>2. x \in Nodes
      BY <3>1, KidsElements, SlotNames
    <3> QED BY <2>1, <3>1, <3>2
  <2> QED BY <2>2, <2>3
<1>4. ASSUME NEW n \in Nodes, N[n] # 0, n # Doc PROVE \E m \in Nodes, t \in Slots : n \in ToSet(J[m][t])
  <2>1. PICK m \in Nodes, t \in Slots : n \in ToSet(K[m][t])
    BY <1>4 DEF ToldOK
  <2>2. n \in ToSet(J[m][t])
    <3>1. CASE m = p /\ t = s
      BY <2>1, <3>1
    <3>2. CASE m # p \/ t # s
      BY <1>2, <2>1, <3>2
    <3> QED BY <3>1, <3>2
  <2> QED BY <2>2
<1>5. ASSUME ~Shows(N, O, p, s) PROVE ToldOK(J, N, O, l)
  <2>1. ASSUME NEW n \in Nodes, NEW t \in Slots, NEW x \in ToSet(J[n][t]) PROVE N[x] # 0 <=> Shows(N, O, n, t)
    <3>1. CASE x = e /\ n = p /\ t = s
      BY <1>1, <1>5, <3>1
    <3>2. CASE x # e /\ x \in ToSet(K[n][t])
      BY <3>2 DEF ToldOK
    <3> QED BY <1>3, <2>1, <3>1, <3>2
  <2> QED BY <1>4, <2>1 DEF ToldOK
<1>6. ASSUME NEW M, Shows(N, O, p, s), Renumbers({e}, l, N, M) PROVE ToldOK(J, M, O, l + 1)
  <2>1. /\ l \in Nat /\ l + 1 \in Nat /\ M \in [Nodes -> 0..l + 1] /\ M[e] = l + 1
        /\ \A n \in Nodes : n # e => M[n] = N[n] /\ M[n] <= l
    <3>1. Cardinality({e}) = 1
      BY FS_Singleton
    <3>2. l \in Nat /\ \A n \in Nodes : N[n] \in 0..l
      BY DEF ToldOK
    <3>3. /\ M \in [Nodes -> 0..l + 1] /\ M[e] > l
          /\ \A n \in Nodes \ {e} : M[n] = N[n]
      BY <1>6, <3>1 DEF Renumbers
    <3>4. M[e] = l + 1
      BY <1>1, <3>2, <3>3
    <3> QED BY <3>2, <3>3, <3>4
  <2>2. ASSUME NEW n \in Nodes, NEW m \in Nodes, M[n] # 0, M[n] = M[m] PROVE n = m
    <3>1. CASE n = e \/ m = e
      BY <2>1, <2>2, <3>1
    <3>2. CASE n # e /\ m # e
      BY <2>1, <2>2, <3>2 DEF ToldOK
    <3> QED BY <3>1, <3>2
  <2>3. \A n \in Nodes, t \in Slots : n # e => (Shows(N, O, n, t) <=> Shows(M, O, n, t))
    BY <2>1 DEF Shows
  <2>4. ASSUME NEW n \in Nodes, NEW t \in Slots, NEW x \in ToSet(J[n][t]) PROVE M[x] # 0 <=> Shows(M, O, n, t)
    <3>0. n # e
      BY <1>3
    <3>1. CASE x = e /\ n = p /\ t = s
      BY <1>6, <2>1, <2>3, <3>1
    <3>2. CASE x # e /\ x \in ToSet(K[n][t]) /\ x \in Nodes
      <4>1. N[x] # 0 <=> Shows(N, O, n, t)
        BY <3>2 DEF ToldOK
      <4>2. M[x] = N[x]
        BY <2>1, <3>2
      <4> QED BY <2>3, <3>0, <4>1, <4>2
    <3> QED BY <1>3, <3>1, <3>2
  <2>5. \A n \in O : n \in Nodes /\ M[n] # 0
    BY <1>1, <2>1 DEF ToldOK
  <2>6. Doc \in O
    <3>1. N[p] # 0
      BY <1>6 DEF Shows, ToldOK
    <3> QED BY <3>1 DEF ToldOK
  <2>7. ASSUME NEW n \in Nodes, M[n] # 0, n # Doc PROVE \E m \in Nodes, t \in Slots : n \in ToSet(J[m][t])
    <3>1. CASE n = e
      BY <3>1
    <3>2. CASE n # e
      BY <1>4, <2>1, <2>7, <3>2
    <3> QED BY <3>1, <3>2
  <2> QED BY <2>1, <2>2, <2>4, <2>5, <2>6, <2>7 DEF ToldOK
<1> QED BY <1>5, <1>6

\* e and what is below it are forgotten.
Gone(K, e) == {e} \cup UNION { ToSet(K[e][t]) : t \in Slots }

Forgets(G, N, O, M, P) == M = [n \in Nodes |-> IF n \in G THEN 0 ELSE N[n]] /\ P = O \ G

\* A page without e: what was below it has no place, and is forgotten with it.
LEMMA ToldRemoved ==
  ASSUME NEW K, NEW J, WellFormed(K), NEW p \in Nodes, NEW s \in Slots, NEW e, e \in ToSet(K[p][s]),
         Prunes(K, J, p, s, e), ToSet(J[p][s]) = ToSet(K[p][s]) \ {e},
         NEW N, NEW O, NEW l, ToldOK(K, N, O, l), NEW M, NEW P, Forgets(Gone(K, e), N, O, M, P)
  PROVE  ToldOK(J, M, P, l)
<1> DEFINE G == Gone(K, e)
<1>g. G = {e} \cup UNION { ToSet(K[e][t]) : t \in Slots } /\ P = O \ G
  BY DEF Gone, Forgets
<1> HIDE DEF G
<1>1. /\ l \in Nat /\ N \in [Nodes -> 0..l] /\ M \in [Nodes -> 0..l]
      /\ \A n \in G : n \in Nodes => M[n] = 0
      /\ \A n \in Nodes \ G : M[n] = N[n]
  BY DEF ToldOK, Forgets, G
<1>2. e \in Elements /\ e \in Nodes /\ Doc \notin G
  BY <1>g, KidsElements, SlotNames
<1>p. \A n, m \in Nodes, t, u \in Slots : \A x \in ToSet(K[n][t]) : x \in ToSet(K[m][u]) => n = m /\ t = u
  BY DEF WellFormed
<1>3. ASSUME NEW n \in G, n # e PROVE n \in Elements /\ K[n] = Leaf
  <2>1. PICK t \in Slots : n \in ToSet(K[e][t])
    BY <1>g, <1>3
  <2> QED BY <1>2, <2>1, Grandchild, SlotNames
<1>4. ASSUME NEW n \in Nodes, NEW t \in Slots, NEW x \in ToSet(J[n][t])
      PROVE  n \notin G /\ x \notin G /\ x \in ToSet(K[n][t]) /\ x \in Nodes
  <2>1. n # e
    BY <1>4, LeafIsEmpty DEF Prunes
  <2>2. x \in ToSet(K[n][t]) /\ x # e
    <3>1. CASE n = p /\ t = s
      BY <1>4, <3>1
    <3>2. CASE n # p \/ t # s
      <4>1. x \in ToSet(K[n][t])
        BY <1>4, <2>1, <3>2 DEF Prunes
      <4>2. x # e
        BY <1>p, <3>2, <4>1
      <4> QED BY <4>1, <4>2
    <3> QED BY <3>1, <3>2
  <2>3. n \notin G
    <3> SUFFICES ASSUME n \in G PROVE FALSE
      OBVIOUS
    <3>1. K[n] = Leaf
      BY <1>3, <2>1
    <3> QED BY <2>2, <3>1, LeafIsEmpty
  <2>4. x \notin G
    <3> SUFFICES ASSUME NEW u \in Slots, x \in ToSet(K[e][u]) PROVE FALSE
      BY <1>g, <2>2
    <3> QED BY <1>2, <1>p, <2>1, <2>2
  <2>5. x \in Nodes
    BY <2>2, KidsElements, SlotNames
  <2> QED BY <2>2, <2>3, <2>4, <2>5
<1>5. ASSUME NEW n \in Nodes, NEW m \in Nodes, M[n] # 0, M[n] = M[m] PROVE n = m
  BY <1>1, <1>5 DEF ToldOK
<1>6. ASSUME NEW n \in P PROVE n \in Nodes /\ M[n] # 0
  BY <1>g, <1>1 DEF ToldOK
<1>7. ASSUME NEW n \in Nodes, M[n] # 0 PROVE Doc \in P
  BY <1>g, <1>1, <1>2, <1>7 DEF ToldOK
<1>8. ASSUME NEW n \in Nodes, NEW t \in Slots, NEW x \in ToSet(J[n][t]) PROVE M[x] # 0 <=> Shows(M, P, n, t)
  <2>1. N[x] # 0 <=> Shows(N, O, n, t)
    BY <1>4 DEF ToldOK
  <2>2. M[x] = N[x] /\ M[n] = N[n] /\ (n \in O <=> n \in P)
    BY <1>g, <1>1, <1>4
  <2> QED BY <2>1, <2>2 DEF Shows
<1>9. ASSUME NEW n \in Nodes, M[n] # 0, n # Doc PROVE \E m \in Nodes, t \in Slots : n \in ToSet(J[m][t])
  <2>1. n \notin G /\ N[n] # 0
    BY <1>1, <1>9
  <2>2. PICK m \in Nodes, t \in Slots : n \in ToSet(K[m][t])
    BY <1>9, <2>1 DEF ToldOK
  <2>3. n # e /\ m # e
    BY <1>g, <2>1, <2>2
  <2>4. n \in ToSet(J[m][t])
    <3>1. CASE m = p /\ t = s
      BY <2>2, <2>3, <3>1
    <3>2. CASE m # p \/ t # s
      BY <2>2, <2>3, <3>2 DEF Prunes
    <3> QED BY <3>1, <3>2
  <2> QED BY <2>4
<1> QED BY <1>1, <1>5, <1>6, <1>7, <1>8, <1>9 DEF ToldOK

\* The nodes S, and the shadow roots in them.
Fresh(K, S) == S \cup UNION { ToSet(K[n]["shadow"]) : n \in S }

\* The children of p, told when they are asked for.
LEMMA FreshOnes ==
  ASSUME NEW K, WellFormed(K), NEW p \in Nodes
  PROVE  /\ \A n \in Fresh(K, ToSet(K[p]["children"])) :
              /\ n \in Elements /\ n \in Nodes /\ n # p /\ n \notin ToSet(K[p]["shadow"])
              /\ \/ n \in ToSet(K[p]["children"])
                 \/ \E m \in ToSet(K[p]["children"]) : n \in ToSet(K[m]["shadow"])
         /\ \A m \in ToSet(K[p]["children"]) : ToSet(K[m]["shadow"]) \subseteq Fresh(K, ToSet(K[p]["children"]))
         /\ ToSet(K[p]["children"]) \subseteq Fresh(K, ToSet(K[p]["children"]))
<1> DEFINE C == ToSet(K[p]["children"])
<1>1. \A m \in C : m \in Elements /\ m \in Nodes /\ m # p
  BY KidsElements, NoCycle, SlotNames
<1>2. ASSUME NEW n \in Fresh(K, C)
      PROVE  n \in Elements /\ n # p /\ n \notin ToSet(K[p]["shadow"]) /\ (n \in C \/ \E m \in C : n \in ToSet(K[m]["shadow"]))
  <2>1. CASE n \in C
    <3>1. n \notin ToSet(K[p]["shadow"])
      BY <2>1, OnePlace, SlotNames
    <3> QED BY <1>1, <2>1, <3>1
  <2>2. CASE n \notin C
    <3>1. PICK m \in C : n \in ToSet(K[m]["shadow"])
      BY <1>2, <2>2 DEF Fresh
    <3>2. n \in Elements
      BY <1>1, <3>1, KidsElements, SlotNames
    <3>3. n # p
      BY <1>1, <3>1, NoCycle, SlotNames
    <3>4. n \notin ToSet(K[p]["shadow"])
      BY <1>1, <3>1, OnePlace, SlotNames
    <3> QED BY <3>1, <3>2, <3>3, <3>4
  <2> QED BY <2>1, <2>2
<1>3. C \subseteq Fresh(K, C) /\ \A m \in C : ToSet(K[m]["shadow"]) \subseteq Fresh(K, C)
  BY DEF Fresh
<1> QED BY <1>2, <1>3, SlotNames

\* Numbers after the others are others.
Numbers(N, l) == N \in [Nodes -> 0..l] /\ \A n, m \in Nodes : N[n] # 0 /\ N[n] = N[m] => n = m

Enlarges(N, l, S, M) ==
  /\ l + Cardinality(S) \in Nat /\ Numbers(M, l + Cardinality(S))
  /\ \A n \in S : M[n] # 0 /\ M[n] > l
  /\ \A n \in Nodes \ S : M[n] = N[n] /\ M[n] <= l

\* New numbers and old ones are apart.
LEMMA NumbersApart ==
  ASSUME NEW N, NEW l \in Nat, Numbers(N, l), NEW S \in SUBSET Nodes, NEW M, Renumbers(S, l, N, M)
  PROVE  Enlarges(N, l, S, M)
<1>1. /\ l + Cardinality(S) \in Nat /\ M \in [Nodes -> 0..l + Cardinality(S)]
      /\ \A n \in S : M[n] > l /\ n \in Nodes
      /\ \A n, m \in S : M[n] = M[m] => n = m
      /\ \A n \in Nodes \ S : M[n] = N[n]
  BY DEF Renumbers
<1>a. N \in [Nodes -> 0..l] /\ \A n, m \in Nodes : N[n] # 0 /\ N[n] = N[m] => n = m
  BY DEF Numbers
<1>2. \A n \in Nodes : M[n] \in Nat /\ N[n] \in Nat /\ N[n] <= l
  BY <1>1, <1>a
<1>3. (\A n \in S : M[n] # 0 /\ M[n] > l) /\ \A n \in Nodes \ S : M[n] = N[n] /\ M[n] <= l
  BY <1>1, <1>2
<1>4. ASSUME NEW n \in Nodes, NEW m \in Nodes, M[n] # 0, M[n] = M[m] PROVE n = m
  <2>1. CASE n \in S /\ m \in S
    BY <1>1, <1>4, <2>1
  <2>2. CASE n \notin S /\ m \notin S
    BY <1>1, <1>a, <1>4, <2>2
  <2>3. CASE n \in S <=> m \notin S
    BY <1>2, <1>3, <1>4, <2>3
  <2> QED BY <2>1, <2>2, <2>3
<1> QED BY <1>1, <1>3, <1>4 DEF Enlarges, Numbers

\* The children of p told.
LEMMA ToldQueried ==
  ASSUME NEW K, WellFormed(K), NEW p \in Nodes, NEW S, S = Fresh(K, ToSet(K[p]["children"])),
         NEW N, NEW O, NEW l, ToldOK(K, N, O, l), N[p] # 0, p \notin O, NEW M, Renumbers(S, l, N, M)
  PROVE  ToldOK(K, M, O \cup {p}, l + Cardinality(S))
<1> DEFINE P == O \cup {p}
<1>0. p # Doc
  BY DEF ToldOK
<1>1. ASSUME NEW n \in S PROVE n \in Nodes /\ n # p /\ K[n] = Leaf /\ n \in ToSet(K[p]["children"])
  <2>0. \A m \in ToSet(K[p]["children"]) : m \in Nodes /\ K[m] = Leaf
    BY <1>0, Grandchild, SlotNames
  <2>1. n \in Nodes /\ n # p /\ (n \in ToSet(K[p]["children"]) \/ \E m \in ToSet(K[p]["children"]) : n \in ToSet(K[m]["shadow"]))
    BY FreshOnes
  <2>2. n \in ToSet(K[p]["children"])
    BY <2>0, <2>1, LeafIsEmpty, SlotNames
  <2> QED BY <2>0, <2>1, <2>2
<1>2. ToSet(K[p]["children"]) \subseteq S /\ S \subseteq Nodes
  BY <1>1, FreshOnes
<1>3. l \in Nat /\ Numbers(N, l)
  BY DEF ToldOK, Numbers
<1>4. /\ l + Cardinality(S) \in Nat /\ M \in [Nodes -> 0..l + Cardinality(S)]
      /\ \A n, m \in Nodes : M[n] # 0 /\ M[n] = M[m] => n = m
      /\ \A n \in S : M[n] # 0 /\ M[n] > l
      /\ \A n \in Nodes \ S : M[n] = N[n] /\ M[n] <= l
  <2>1. Enlarges(N, l, S, M)
    BY <1>2, <1>3, NumbersApart
  <2> QED BY <2>1 DEF Enlarges, Numbers
<1>5. ASSUME NEW n \in Nodes, NEW t \in Slots, NEW x \in ToSet(K[n][t]) PROVE M[x] # 0 <=> Shows(M, P, n, t)
  <2>0. x \in Nodes
    BY KidsElements, SlotNames
  <2>1. n \notin S
    <3> SUFFICES ASSUME n \in S PROVE FALSE
      OBVIOUS
    <3>1. K[n] = Leaf
      BY <1>1
    <3> QED BY <1>5, <3>1, LeafIsEmpty
  <2>2. CASE x \in S
    <3>1. n = p /\ t = "children"
      BY <1>1, <2>2, OnePlace, SlotNames
    <3> QED BY <1>4, <2>2, <3>1 DEF Shows
  <2>3. CASE x \notin S
    <3>1. n # p \/ t # "children"
      BY <1>2, <2>3
    <3>2. N[x] # 0 <=> Shows(N, O, n, t)
      BY DEF ToldOK
    <3>3. M[x] = N[x] /\ M[n] = N[n]
      BY <1>4, <2>0, <2>1, <2>3
    <3> QED BY <3>1, <3>2, <3>3 DEF Shows
  <2> QED BY <2>2, <2>3
<1>6. ASSUME NEW n \in P PROVE n \in Nodes /\ M[n] # 0
  <2>1. n \in Nodes /\ N[n] # 0
    BY DEF ToldOK
  <2> QED BY <1>4, <2>1
<1>7. Doc \in P
  BY DEF ToldOK
<1>8. ASSUME NEW n \in Nodes, M[n] # 0, n # Doc PROVE \E m \in Nodes, t \in Slots : n \in ToSet(K[m][t])
  <2>1. CASE n \in S
    BY <1>1, <2>1, SlotNames
  <2>2. CASE n \notin S
    BY <1>4, <1>8, <2>2 DEF ToldOK
  <2> QED BY <2>1, <2>2
<1> QED BY <1>4, <1>5, <1>6, <1>7, <1>8 DEF ToldOK

\* The document and its children told anew.
\* Only the nodes S have numbers, all of them later ones.
Anew(S, M, l) == (\A n \in Nodes : M[n] # 0 <=> n \in S) /\ \A n \in S : M[n] > l

\* DOM.getDocument tells of the document, its children and their shadow roots, all anew.
LEMMA ToldDocument ==
  ASSUME NEW K, WellFormed(K), NEW S, S = {Doc} \cup Fresh(K, ToSet(K[Doc]["children"])),
         NEW l \in Nat, NEW N, N = [n \in Nodes |-> 0], NEW M, Renumbers(S, l, N, M)
  PROVE  ToldOK(K, M, {Doc}, l + Cardinality(S)) /\ Anew(S, M, l)
<1> DEFINE C == ToSet(K[Doc]["children"])
<1>1. ASSUME NEW n \in S PROVE n \in Nodes /\ (n = Doc \/ n \in C \/ \E m \in C : n \in ToSet(K[m]["shadow"]))
  BY FreshOnes, SlotNames
<1>2. C \subseteq S /\ S \subseteq Nodes /\ \A m \in C : ToSet(K[m]["shadow"]) \subseteq S
  BY <1>1, FreshOnes, SlotNames
<1>3. N \in [Nodes -> 0..l] /\ \A n \in Nodes : N[n] = 0
  OBVIOUS
<1>4. /\ l + Cardinality(S) \in Nat /\ M \in [Nodes -> 0..l + Cardinality(S)]
      /\ \A n, m \in Nodes : M[n] # 0 /\ M[n] = M[m] => n = m
      /\ \A n \in S : M[n] # 0 /\ M[n] > l
      /\ \A n \in Nodes \ S : M[n] = N[n] /\ M[n] <= l
  <2>2. Numbers(N, l)
    BY <1>3 DEF Numbers
  <2>3. Enlarges(N, l, S, M)
    BY <1>2, <2>2, NumbersApart
  <2> QED BY <2>3 DEF Enlarges, Numbers
<1>5. \A n \in Nodes : M[n] # 0 <=> n \in S
  BY <1>3, <1>4
<1>6. ASSUME NEW n \in Nodes, NEW t \in Slots, NEW x \in ToSet(K[n][t]) PROVE M[x] # 0 <=> Shows(M, {Doc}, n, t)
  <2>0. x \in Nodes /\ x # Doc
    BY KidsElements, SlotNames
  <2>1. CASE t = "children"
    <3>1. ASSUME x \in S PROVE n = Doc
      <4>1. CASE x \in C
        BY <2>1, <4>1, OnePlace, SlotNames
      <4>2. CASE x \notin C
        <5>1. PICK m \in C : x \in ToSet(K[m]["shadow"])
          BY <1>1, <2>0, <3>1, <4>2
        <5>2. m \in Nodes
          BY KidsElements, SlotNames
        <5> QED BY <2>1, <5>1, <5>2, OnePlace, SlotNames
      <4> QED BY <4>1, <4>2
    <3>2. n = Doc => x \in S
      BY <1>2, <2>1
    <3> QED BY <1>5, <2>0, <2>1, <3>1, <3>2 DEF Shows
  <2>2. CASE t = "shadow"
    <3>1. n # Doc
      BY <2>2, LeafIsEmpty DEF WellFormed
    <3>2. n \in C
      BY <3>1, Parents
    <3>3. x \in S /\ n \in S
      BY <1>2, <2>2, <3>2
    <3> QED BY <1>5, <2>0, <2>2, <3>3 DEF Shows
  <2> QED BY <2>1, <2>2, SlotNames
<1>7. M[Doc] # 0
  BY <1>4
<1>8. ASSUME NEW n \in Nodes, M[n] # 0, n # Doc PROVE \E m \in Nodes, t \in Slots : n \in ToSet(K[m][t])
  <2>1. n \in S
    BY <1>5, <1>8
  <2>2. C \subseteq Nodes
    BY KidsElements, SlotNames
  <2> QED BY <1>1, <1>8, <2>1, <2>2, SlotNames
<1>9. ToldOK(K, M, {Doc}, l + Cardinality(S))
  BY <1>4, <1>6, <1>7, <1>8, SlotNames DEF ToldOK
<1> QED BY <1>4, <1>5, <1>9 DEF Anew

-----------------------------------------------------------------------------
(* What the client keeps of it.                                            *)

\* The numbers of the elements of a sequence.
Mapped(N, s) == [i \in DOMAIN s |-> N[s[i]]]

\* … as the client has them.
Maps(N, s, r) ==
  /\ r \in Seq(Nat) /\ Len(r) = Len(s) /\ Len(s) \in Nat
  /\ \A i \in 1..Len(s) : r[i] = N[s[i]]

\* The numbers of a list of elements, one by one.
LEMMA MappedIs ==
  ASSUME NEW N \in [Nodes -> Nat], NEW s \in Seq(Elements)
  PROVE  Maps(N, s, Mapped(N, s))
<1> DEFINE r == Mapped(N, s)
<1>1. Len(s) \in Nat /\ DOMAIN s = 1..Len(s) /\ \A i \in 1..Len(s) : s[i] \in Elements
  BY LenProperties, ElementOfSeq
<1>2. r = [i \in 1..Len(s) |-> N[s[i]]]
  BY <1>1 DEF Mapped
<1>3. \A i \in 1..Len(s) : N[s[i]] \in Nat
  BY <1>1, SlotNames
<1> HIDE DEF r
<1>4. r \in Seq(Nat) /\ Len(r) = Len(s)
  BY <1>1, <1>2, <1>3
<1>5. \A i \in 1..Len(s) : r[i] = N[s[i]]
  BY <1>2
<1>6. Maps(N, s, r)
  BY <1>1, <1>4, <1>5 DEF Maps
<1> QED BY <1>6 DEF r

\* They are one sequence only.
LEMMA MapsOne ==
  ASSUME NEW N, NEW s, NEW r, NEW q, Maps(N, s, r), Maps(N, s, q)
  PROVE  r = q
<1>1. r \in Seq(Nat) /\ q \in Seq(Nat) /\ Len(r) = Len(q) /\ \A i \in 1..Len(r) : r[i] = q[i]
  BY DEF Maps
<1> QED BY <1>1, SeqEqual

\* Numbers that agree on the elements of a sequence map it to the same.
LEMMA MappedSame ==
  ASSUME NEW s, NEW N, NEW M, Lists(Elements, s), \A e \in ToSet(s) : N[e] = M[e]
  PROVE  Mapped(N, s) = Mapped(M, s)
<1>1. DOMAIN s = 1..Len(s) /\ \A i \in 1..Len(s) : s[i] \in ToSet(s)
  BY LenProperties DEF Lists
<1>2. \A i \in DOMAIN s : N[s[i]] = M[s[i]]
  BY <1>1
<1> QED BY <1>2 DEF Mapped

\* Two numberings agree on what a sequence has, but for e.
Agree(N, M, s, e) == \A x \in ToSet(s) : x # e => N[x] = M[x]

\* An insertion into the numbers.
LEMMA MappedInsertion ==
  ASSUME NEW N \in [Nodes -> Nat], NEW M \in [Nodes -> Nat], NEW s, NEW r, NEW e \in Elements, NEW i,
         Lists(Elements, s), e \notin ToSet(s), Widened(Elements, s, i, e, r), Agree(N, M, s, e)
  PROVE  InsertAt(Mapped(N, s), i, M[e]) = Mapped(M, r)
<1> DEFINE a == Mapped(N, s)
           q == InsertAt(a, i, M[e])
<1>0. \A x \in ToSet(s) : N[x] = M[x]
  BY DEF Agree
<1>1. Maps(N, s, a)
  BY MappedIs DEF Lists
<1>2. M[e] \in Nat
  BY SlotNames
<1>3. a \in Seq(Nat) /\ i \in 1..Len(a) + 1
  BY <1>1 DEF Maps, Widened
<1> HIDE DEF a
<1>4. Widened(Nat, a, i, M[e], q)
  BY <1>2, <1>3, Inserted
<1> HIDE DEF q
<1>5. Maps(M, r, q)
  <2>1. q \in Seq(Nat) /\ Len(q) = Len(r) /\ Len(r) \in Nat /\ i \in Nat
    BY <1>1, <1>4 DEF Widened, Maps
  <2>2. ASSUME NEW j \in 1..Len(r) PROVE q[j] = M[r[j]]
    <3>1. CASE j = i
      BY <1>4, <3>1 DEF Widened
    <3>2. CASE j < i
      <4>1. j \in 1..Len(s) /\ r[j] = s[j]
        BY <2>1, <3>2 DEF Widened
      <4>2. q[j] = a[j]
        BY <1>1, <1>4, <3>2, <4>1 DEF Widened, Maps
      <4>3. a[j] = N[s[j]] /\ s[j] \in ToSet(s)
        BY <1>1, <4>1 DEF Maps, Lists
      <4> QED BY <1>0, <4>1, <4>2, <4>3
    <3>3. CASE j > i
      <4> DEFINE k == j - 1
      <4>1. k \in 1..Len(s) /\ r[j] = s[k] /\ k >= i /\ k + 1 = j
        BY <2>1, <3>3 DEF Widened
      <4> HIDE DEF k
      <4>2. q[j] = a[k]
        BY <1>1, <1>4, <4>1 DEF Widened, Maps
      <4>3. a[k] = N[s[k]] /\ s[k] \in ToSet(s)
        BY <1>1, <4>1 DEF Maps, Lists
      <4> QED BY <1>0, <4>1, <4>2, <4>3
    <3> QED BY <2>1, <3>1, <3>2, <3>3
  <2> QED BY <2>1, <2>2 DEF Maps
<1>6. Maps(M, r, Mapped(M, r))
  BY MappedIs DEF Widened
<1>7. q = Mapped(M, r)
  BY <1>5, <1>6, MapsOne
<1> QED BY <1>7 DEF q, a

\* The place of a number is that of its element.
LEMMA MappedPlace ==
  ASSUME NEW N \in [Nodes -> Nat], NEW s, Lists(Elements, s), NEW i, NEW e, OnlyAt(s, i, e),
         \A x \in ToSet(s) : N[x] = N[e] => x = e
  PROVE  OnlyAt(Mapped(N, s), i, N[e]) /\ PlaceOf(N[e], Mapped(N, s)) = i
<1> DEFINE a == Mapped(N, s)
<1>1. Maps(N, s, a)
  BY MappedIs DEF Lists
<1> HIDE DEF a
<1>2. ASSUME NEW j \in 1..Len(a), a[j] = N[e] PROVE j = i
  <2>1. j \in 1..Len(s) /\ a[j] = N[s[j]] /\ s[j] \in ToSet(s)
    BY <1>1 DEF Maps, Lists
  <2> QED BY <1>2, <2>1 DEF OnlyAt
<1>3. i \in 1..Len(a) /\ a[i] = N[e]
  BY <1>1 DEF Maps, OnlyAt
<1>4. OnlyAt(a, i, N[e]) /\ Len(a) \in Nat
  BY <1>1, <1>2, <1>3 DEF OnlyAt, Maps
<1>5. PlaceOf(N[e], a) = i
  BY <1>4, PlaceFound
<1> QED BY <1>4, <1>5 DEF a

\* A removal from the numbers.
LEMMA MappedRemoval ==
  ASSUME NEW N \in [Nodes -> Nat], NEW M \in [Nodes -> Nat], NEW s, NEW r, NEW e, NEW i,
         Lists(Elements, s), OnlyAt(s, i, e), Narrowed(Elements, s, i, r),
         \A x \in ToSet(s) : N[x] = N[e] => x = e,
         Agree(N, M, s, e)
  PROVE  RemoveFirst(Mapped(N, s), N[e]) = Mapped(M, r)
<1> DEFINE a == Mapped(N, s)
           q == RemoveFirst(a, N[e])
<1>1. Maps(N, s, a) /\ OnlyAt(a, i, N[e])
  BY MappedIs, MappedPlace DEF Lists
<1> HIDE DEF a
<1>4. Narrowed(Nat, a, i, q)
  BY <1>1, Removed DEF Maps
<1> HIDE DEF q
<1>5. Maps(M, r, q)
  <2>1. /\ q \in Seq(Nat) /\ Len(q) = Len(r) /\ Len(r) \in Nat /\ i \in Nat /\ Len(s) \in Nat /\ i \in 1..Len(s)
        /\ Len(r) = Len(s) - 1
    BY <1>1, <1>4 DEF Narrowed, Maps
  <2>2. ASSUME NEW j \in 1..Len(r) PROVE q[j] = M[r[j]]
    <3>2. CASE j < i
      <4>1. j \in 1..Len(s) /\ r[j] = s[j] /\ s[j] # e
        BY <2>1, <3>2 DEF Narrowed, OnlyAt
      <4>2. q[j] = a[j]
        BY <1>1, <1>4, <3>2, <4>1 DEF Narrowed, Maps
      <4>3. a[j] = N[s[j]] /\ s[j] \in ToSet(s)
        BY <1>1, <4>1 DEF Maps, Lists
      <4> QED BY <4>1, <4>2, <4>3 DEF Agree
    <3>3. CASE j >= i
      <4> DEFINE k == j + 1
      <4>1. k \in 1..Len(s) /\ r[j] = s[k] /\ k > i /\ k - 1 = j
        <5>1. j \in Nat /\ ~(j < i)
          BY <2>1, <3>3
        <5>2. j + 1 \in 1..Len(s) /\ r[j] = s[j + 1]
          BY <5>1 DEF Narrowed
        <5>3. j + 1 > i /\ (j + 1) - 1 = j
          BY <2>1, <3>3, <5>1
        <5> QED BY <5>2, <5>3
      <4> HIDE DEF k
      <4>2. q[j] = a[k]
        BY <1>1, <1>4, <4>1 DEF Narrowed, Maps
      <4>3. a[k] = N[s[k]] /\ s[k] \in ToSet(s)
        BY <1>1, <4>1 DEF Maps, Lists
      <4>4. s[k] # e
        BY <2>1, <4>1 DEF OnlyAt
      <4> QED BY <4>1, <4>2, <4>3, <4>4 DEF Agree
    <3> QED BY <2>1, <3>2, <3>3
  <2> QED BY <2>1, <2>2 DEF Maps
<1>6. Maps(M, r, Mapped(M, r))
  BY MappedIs DEF Narrowed
<1>7. q = Mapped(M, r)
  BY <1>5, <1>6, MapsOne
<1> QED BY <1>7 DEF q, a

\* The slot s of n, as told.
ToldSlot(n, s, K, N, O) == IF s = "children" /\ n \notin O THEN <<>> ELSE Mapped(N, K[n][s])

\* What is told of a node is what is told of each of its slots.
LEMMA ToldIs == ASSUME NEW n, NEW K, NEW N, NEW O PROVE Told(n, K, N, O) = [s \in Slots |-> ToldSlot(n, s, K, N, O)]
BY DEF Told, ToldSlot, Mapped

\* A slot is told alike when it and the numbers of what it shows are alike.
LEMMA SlotSame ==
  ASSUME NEW n, NEW s, NEW K, NEW J, NEW N, NEW M, NEW O, NEW P, Lists(Elements, K[n][s]), J[n][s] = K[n][s],
         n \in O <=> n \in P, \A x \in ToSet(K[n][s]) : (s = "children" => n \in O) => N[x] = M[x]
  PROVE  ToldSlot(n, s, K, N, O) = ToldSlot(n, s, J, M, P)
<1>1. CASE s = "children" /\ n \notin O
  BY <1>1 DEF ToldSlot
<1>2. CASE ~(s = "children" /\ n \notin O)
  <2>1. Mapped(N, K[n][s]) = Mapped(M, K[n][s])
    BY <1>2, MappedSame
  <2> QED BY <1>2, <2>1 DEF ToldSlot
<1> QED BY <1>1, <1>2

\* So is a node.
LEMMA ToldSame ==
  ASSUME NEW n \in Nodes, NEW K, WellFormed(K), NEW J, NEW N, NEW M, NEW O, NEW P, \A s \in Slots : J[n][s] = K[n][s],
         n \in O <=> n \in P, \A s \in Slots : \A x \in ToSet(K[n][s]) : (s = "children" => n \in O) => N[x] = M[x]
  PROVE  Told(n, K, N, O) = Told(n, J, M, P)
<1>1. ASSUME NEW s \in Slots PROVE ToldSlot(n, s, K, N, O) = ToldSlot(n, s, J, M, P)
  <2>1. Lists(Elements, K[n][s]) /\ J[n][s] = K[n][s] /\ \A x \in ToSet(K[n][s]) : (s = "children" => n \in O) => N[x] = M[x]
    BY KidsAre
  <2> QED BY <2>1, SlotSame
<1> QED BY <1>1, ToldIs

\* The map m of a client has all that was told.
Covers(m, K, N, O) == \A n \in Nodes : N[n] # 0 => N[n] \in DOMAIN m /\ m[N[n]] = Told(n, K, N, O)

\* The fragment tells of the nodes S.
Tells(S, K, M, O, r) == DOMAIN r = { M[n] : n \in S } /\ \A n \in S : r[M[n]] = Told(n, K, M, O)

\* A fragment has what is told of each of its nodes.
LEMMA FragmentIs ==
  ASSUME NEW S, NEW K, NEW M, NEW O, \A n, k \in S : M[n] = M[k] => n = k
  PROVE  Tells(S, K, M, O, Fragment(S, K, M, O))
<1>1. Fragment(S, K, M, O) = [i \in { M[n] : n \in S } |-> Told(CHOOSE n \in S : M[n] = i, K, M, O)]
  BY DEF Fragment
<1>2. ASSUME NEW n \in S PROVE (CHOOSE k \in S : M[k] = M[n]) = n
  OBVIOUS
<1> QED BY <1>1, <1>2 DEF Tells

\* One map over another.
Lies(f, g, r) ==
  /\ DOMAIN r = DOMAIN f \cup DOMAIN g
  /\ \A i \in DOMAIN f : r[i] = f[i]
  /\ \A i \in DOMAIN g : i \notin DOMAIN f => r[i] = g[i]

\* Over, index by index.
LEMMA OverIs == ASSUME NEW f, NEW g PROVE Lies(f, g, Over(f, g))
BY DEF Over, Lies

\* Both ways to put the first element in.
LEMMA OneInserted == ASSUME NEW c \in Nat PROVE InsertAt(<<>>, 1, c) = Append(<<>>, c)
<1> DEFINE r == InsertAt(<<>>, 1, c)
<1>1. <<>> \in Seq(Nat) /\ 1 \in 1..Len(<<>>) + 1 /\ Len(<<>>) = 0
  OBVIOUS
<1>2. Widened(Nat, <<>>, 1, c, InsertAt(<<>>, 1, c))
  BY <1>1, Inserted
<1>3. r \in Seq(Nat) /\ Len(r) = 1 /\ r[1] = c
  BY <1>2 DEF Widened
<1> HIDE DEF r
<1>4. <<c>> \in Seq(Nat) /\ Len(<<c>>) = 1 /\ <<c>>[1] = c /\ Append(<<>>, c) = <<c>>
  OBVIOUS
<1>5. r = <<c>>
  BY <1>3, <1>4, SeqEqual
<1> QED BY <1>4, <1>5 DEF r

\* The client puts the new number where Chrome put the element.
LEMMA PlacedAlike ==
  ASSUME NEW K, WellFormed(K), NEW N, NEW O, NEW l, ToldOK(K, N, O, l), NEW p \in Nodes, NEW s \in Slots, Shows(N, O, p, s),
         NEW i \in 0..Len(K[p][s]), s = "shadow" => K[p][s] = <<>>, NEW c \in Nat, NEW prev,
         prev = IF i = 0 THEN 0 ELSE N[K[p][s][i]]
  PROVE  (IF s = "shadow" THEN Append(Mapped(N, K[p][s]), c) ELSE InsertNode(Mapped(N, K[p][s]), prev, c))
           = InsertAt(Mapped(N, K[p][s]), i + 1, c)
<1> DEFINE k == K[p][s]
           a == Mapped(N, k)
<1>0. N \in [Nodes -> Nat]
  BY DEF ToldOK
<1>1. Lists(Elements, k) /\ Distinct(k) /\ Maps(N, k, a)
  BY <1>0, KidsAre, MappedIs DEF WellFormed, Lists
<1>2. \A x \in ToSet(k) : x \in Nodes /\ N[x] # 0
  BY KidsElements, SlotNames DEF ToldOK
<1>3. CASE s = "shadow"
  <2>1. k = <<>> /\ i = 0
    BY <1>3
  <2>2. a = <<>>
    BY <2>1 DEF Mapped
  <2>3. i + 1 = 1 /\ Append(<<>>, c) = InsertAt(<<>>, 1, c)
    BY <2>1, OneInserted
  <2> QED BY <1>3, <2>2, <2>3
<1>4. CASE s # "shadow"
  <2>1. InsertNode(a, prev, c) = InsertAt(a, PlaceOf(prev, a) + 1, c)
    BY DEF InsertNode
  <2>2. PlaceOf(prev, a) = i
    <3>1. CASE i = 0
      <4>1. \A j \in 1..Len(a) : a[j] # prev
        BY <1>1, <1>2, <3>1 DEF Maps, Lists
      <4> QED BY <3>1, <4>1, PlaceMissing
    <3>2. CASE i # 0
      <4>1. i \in 1..Len(k) /\ prev = N[k[i]]
        BY <1>1, <3>2 DEF Lists
      <4>2. OnlyAt(k, i, k[i]) /\ k[i] \in ToSet(k)
        BY <1>1, <4>1 DEF Distinct, OnlyAt, Lists
      <4>3. \A x \in ToSet(k) : N[x] = N[k[i]] => x = k[i]
        BY <1>2, <4>2 DEF ToldOK
      <4> HIDE DEF a
      <4>5. PlaceOf(N[k[i]], Mapped(N, k)) = i
        BY <1>0, <1>1, <4>2, <4>3, MappedPlace
      <4> QED BY <4>1, <4>5 DEF a
    <3> QED BY <3>1, <3>2
  <2> QED BY <1>4, <2>1, <2>2
<1> QED BY <1>3, <1>4

-----------------------------------------------------------------------------
(* The events of a change bring a map that has what was told to one that   *)
(* has what is told now.                                                   *)

InsertEvent(e, p, s, i, K, J, N, M, O) ==
  [type |-> "insert", slot |-> s, at |-> N[p],
   prev |-> IF i = 0 THEN 0 ELSE N[K[p][s][i]],
   node |-> M[e], tree |-> Fragment({e}, J, M, O)]

\* The event of an insertion brings a map that covered the page to one that covers it again.
LEMMA CoversInserted ==
  ASSUME NEW K, NEW J, WellFormed(K), NEW e \in Elements, NEW p \in Nodes, NEW s \in Slots, NEW i \in 0..Len(K[p][s]),
         \A n \in Nodes, t \in Slots : e \notin ToSet(K[n][t]), p # e, s = "shadow" => K[p][s] = <<>>,
         Rewrites(K, J, p, s), J[p][s] = InsertAt(K[p][s], i + 1, e),
         NEW N, NEW O, NEW l, ToldOK(K, N, O, l), Shows(N, O, p, s), NEW M, Renumbers({e}, l, N, M),
         NEW v, v = InsertEvent(e, p, s, i, K, J, N, M, O), NEW x, Covers(x, K, N, O)
  PROVE  v.at \in DOMAIN x /\ Covers(Applied(x, v), J, M, O)
<1>1. /\ l \in Nat /\ l + 1 \in Nat /\ N \in [Nodes -> 0..l] /\ M \in [Nodes -> 0..l + 1]
      /\ e \in Nodes /\ M[e] = l + 1 /\ N[e] = 0 /\ \A n \in Nodes : n # e => M[n] = N[n]
  <2>1. Cardinality({e}) = 1 /\ e \in Nodes /\ N[e] = 0
    <3>1. Cardinality({e}) = 1
      BY FS_Singleton
    <3>2. N[e] = 0
      BY Unplaced
    <3> QED BY <3>1, <3>2, SlotNames
  <2>2. l \in Nat /\ N \in [Nodes -> 0..l]
    BY DEF ToldOK
  <2>3. /\ M \in [Nodes -> 0..l + 1] /\ M[e] > l
        /\ \A n \in Nodes \ {e} : M[n] = N[n]
    BY <2>1 DEF Renumbers
  <2>4. M[e] = l + 1
    BY <2>1, <2>2, <2>3
  <2> QED BY <2>1, <2>2, <2>3, <2>4
<1>2. N[p] # 0
  BY DEF Shows, ToldOK
<1>3. Lists(Elements, K[p][s]) /\ Widened(Elements, K[p][s], i + 1, e, J[p][s])
  <2> DEFINE k == K[p][s]
             j == i + 1
  <2>0. Lists(Elements, k)
    BY KidsAre
  <2>1. Lists(Elements, k) /\ k \in Seq(Elements) /\ j \in 1..Len(k) + 1 /\ J[p][s] = InsertAt(k, j, e)
    BY <2>0 DEF Lists
  <2> HIDE DEF k, j
  <2>2. Widened(Elements, k, j, e, InsertAt(k, j, e))
    BY <2>1, Inserted
  <2> QED BY <2>1, <2>2 DEF k, j
<1>4. \A y \in ToSet(K[p][s]) : N[y] = M[y]
  BY <1>1, KidsElements, SlotNames
<1> DEFINE a == Mapped(N, K[p][s])
           c == M[e]
           tree == Fragment({e}, J, M, O)
           prev == IF i = 0 THEN 0 ELSE N[K[p][s][i]]
           b == IF s = "shadow" THEN Append(a, c) ELSE InsertNode(a, prev, c)
           y == [x EXCEPT ![N[p]][s] = IF s = "shadow" THEN Append(@, c) ELSE InsertNode(@, prev, c)]
<1>5. b = Mapped(M, J[p][s])
  <2>1. b = InsertAt(a, i + 1, c)
    <3>1. c \in Nat /\ prev = IF i = 0 THEN 0 ELSE N[K[p][s][i]]
      BY <1>1
    <3> HIDE DEF c, prev
    <3> QED BY <3>1, PlacedAlike
  <2>2. InsertAt(a, i + 1, c) = Mapped(M, J[p][s])
    <3> DEFINE k == K[p][s]
               r == J[p][s]
               j == i + 1
    <3>1. Lists(Elements, k) /\ e \notin ToSet(k) /\ Widened(Elements, k, j, e, r) /\ Agree(N, M, k, e)
      BY <1>3, <1>4 DEF Agree
    <3> HIDE DEF k, r, j
    <3>a. N \in [Nodes -> Nat] /\ M \in [Nodes -> Nat]
      BY <1>1
    <3>2. InsertAt(Mapped(N, k), j, M[e]) = Mapped(M, r)
      BY <3>1, <3>a, MappedInsertion
    <3> QED BY <3>2 DEF k, r, j
  <2> QED BY <2>1, <2>2
<1>6. N[p] \in DOMAIN x /\ x[N[p]] = Told(p, K, N, O) /\ x[N[p]][s] = a
  <2>1. N[p] \in DOMAIN x /\ x[N[p]] = Told(p, K, N, O)
    BY <1>2 DEF Covers
  <2>2. ToldSlot(p, s, K, N, O) = a
    BY DEF ToldSlot, Shows
  <2> QED BY <2>1, <2>2, ToldIs
<1>7. v.at = N[p] /\ Applied(x, v) = Over(tree, y)
  BY DEF InsertEvent, Applied
<1>8. DOMAIN tree = {c} /\ tree[c] = Told(e, J, M, O)
  <2>1. \A n, k \in {e} : M[n] = M[k] => n = k
    OBVIOUS
  <2>2. Tells({e}, J, M, O, tree)
    BY <2>1, FragmentIs
  <2> HIDE DEF tree
  <2> QED BY <2>2 DEF Tells
<1>9. DOMAIN y = DOMAIN x /\ y[N[p]] = [Told(p, K, N, O) EXCEPT ![s] = b] /\ \A n \in DOMAIN x : n # N[p] => y[n] = x[n]
  BY <1>6
<1> HIDE DEF a, b, y, tree, c
<1>10. Told(p, J, M, O) = [Told(p, K, N, O) EXCEPT ![s] = b]
  <2>1. ToldSlot(p, s, J, M, O) = b
    BY <1>5 DEF ToldSlot, Shows
  <2>2. ASSUME NEW t \in Slots, t # s PROVE ToldSlot(p, t, J, M, O) = ToldSlot(p, t, K, N, O)
    <3>1. Lists(Elements, K[p][t]) /\ J[p][t] = K[p][t]
      BY <2>2, KidsAre DEF Rewrites
    <3>2. \A z \in ToSet(K[p][t]) : N[z] = M[z]
      BY <1>1, KidsElements, SlotNames
    <3> QED BY <3>1, <3>2, SlotSame
  <2> QED BY <2>1, <2>2, ToldIs
<1>11. ASSUME NEW n \in Nodes, n # e, n # p PROVE Told(n, J, M, O) = Told(n, K, N, O)
  <2>1. \A t \in Slots : J[n][t] = K[n][t]
    BY <1>11 DEF Rewrites
  <2>2. \A t \in Slots : \A z \in ToSet(K[n][t]) : N[z] = M[z]
    BY <1>1, KidsElements, SlotNames
  <2> QED BY <2>1, <2>2, ToldSame
<1>o. Lies(tree, y, Over(tree, y))
  BY OverIs
<1>12. ASSUME NEW n \in Nodes, M[n] # 0 PROVE M[n] \in DOMAIN Over(tree, y) /\ Over(tree, y)[M[n]] = Told(n, J, M, O)
  <2>1. CASE n = e
    BY <1>8, <1>o, <2>1 DEF Lies, c
  <2>2. CASE n # e
    <3>1. M[n] = N[n] /\ M[n] \notin DOMAIN tree
      BY <1>1, <1>8, <2>2 DEF c
    <3>2. N[n] \in DOMAIN x /\ x[N[n]] = Told(n, K, N, O)
      BY <1>12, <3>1 DEF Covers
    <3>3. M[n] \in DOMAIN Over(tree, y) /\ Over(tree, y)[M[n]] = y[N[n]]
      BY <1>9, <1>o, <3>1, <3>2 DEF Lies
    <3>4. y[N[n]] = Told(n, J, M, O)
      <4>1. CASE n = p
        BY <1>9, <1>10, <4>1
      <4>2. CASE n # p
        <5>1. N[n] # N[p]
          BY <1>2, <4>2 DEF ToldOK
        <5> QED BY <1>9, <1>11, <2>2, <3>2, <4>2, <5>1
      <4> QED BY <4>1, <4>2
    <3> QED BY <3>3, <3>4
  <2> QED BY <2>1, <2>2
<1>13. Covers(Over(tree, y), J, M, O)
  BY <1>12 DEF Covers
<1> QED BY <1>6, <1>7, <1>13

\* A change of a slot that was not told changes nothing of what was.
LEMMA CoversUnseen ==
  ASSUME NEW K, NEW J, WellFormed(K), NEW N, NEW O, NEW p, NEW s \in Slots, ~Shows(N, O, p, s),
         \A n \in Nodes, t \in Slots : N[n] # 0 /\ (n # p \/ t # s) => J[n][t] = K[n][t],
         NEW x, Covers(x, K, N, O)
  PROVE  Covers(x, J, N, O)
<1>1. ASSUME NEW n \in Nodes, N[n] # 0 PROVE Told(n, J, N, O) = Told(n, K, N, O)
  <2>1. ASSUME NEW t \in Slots PROVE ToldSlot(n, t, J, N, O) = ToldSlot(n, t, K, N, O)
    <3>1. CASE n = p /\ t = s
      <4>1. s = "children" /\ n \notin O
        BY <1>1, <3>1, SlotNames DEF Shows
      <4> QED BY <3>1, <4>1 DEF ToldSlot
    <3>2. CASE n # p \/ t # s
      <4>1. J[n][t] = K[n][t]
        BY <1>1, <3>2
      <4> QED BY <4>1 DEF ToldSlot
    <3> QED BY <3>1, <3>2
  <2> QED BY <2>1, ToldIs
<1> QED BY <1>1 DEF Covers

\* The map knows the node the event is about, and has what is told now.
Follows(x, v, K, N, O) == v.at \in DOMAIN x /\ Covers(Applied(x, v), K, N, O)

RemoveEvent(e, p, s, N) == [type |-> "remove", slot |-> s, at |-> N[p], node |-> N[e]]

\* So does the event of a removal.
LEMMA CoversRemoved ==
  ASSUME NEW K, NEW J, WellFormed(K), NEW p \in Nodes, NEW s \in Slots, NEW e, e \in ToSet(K[p][s]),
         Prunes(K, J, p, s, e), J[p][s] = RemoveFirst(K[p][s], e),
         NEW N, NEW O, NEW l, ToldOK(K, N, O, l), NEW x, Covers(x, K, N, O),
         NEW M, NEW P, Forgets(Gone(K, e), N, O, M, P), NEW v, v = RemoveEvent(e, p, s, N)
  PROVE  /\ N[e] # 0 => Follows(x, v, J, M, P)
         /\ N[e] = 0 => Covers(x, J, M, P)
<1> DEFINE G == Gone(K, e)
<1>g. G = {e} \cup UNION { ToSet(K[e][t]) : t \in Slots } /\ P = O \ G
      /\ M = [n \in Nodes |-> IF n \in G THEN 0 ELSE N[n]]
  BY DEF Gone, Forgets
<1> HIDE DEF G
<1>1. /\ e \in Elements /\ e \in Nodes /\ p # e /\ p \notin G
      /\ N \in [Nodes -> Nat] /\ M \in [Nodes -> Nat] /\ \A n \in Nodes : M[n] = IF n \in G THEN 0 ELSE N[n]
  <2>1. e \in Elements /\ e \in Nodes
    BY KidsElements, SlotNames
  <2>2. p # e /\ \A t \in Slots : p \notin ToSet(K[e][t])
    BY <2>1, NoCycle
  <2>3. N \in [Nodes -> Nat]
    BY DEF ToldOK
  <2> QED BY <1>g, <2>1, <2>2, <2>3
<1>p. \A n, m \in Nodes, t, u \in Slots : \A y \in ToSet(K[n][t]) : y \in ToSet(K[m][u]) => n = m /\ t = u
  BY DEF WellFormed
<1>2. ASSUME NEW n \in Nodes, n # e, NEW t \in Slots, NEW y \in ToSet(K[n][t]), y # e PROVE M[y] = N[y]
  <2>1. y \in Nodes
    BY KidsElements, SlotNames
  <2>2. \A u \in Slots : y \notin ToSet(K[e][u])
    BY <1>1, <1>p, <1>2
  <2> QED BY <1>g, <1>1, <1>2, <2>1, <2>2
<1>3. \A n \in Nodes, t \in Slots : n # e /\ (n # p \/ t # s) => J[n][t] = K[n][t]
  BY DEF Prunes
<1>4. ASSUME NEW n \in Nodes, NEW t \in Slots, n # e, n # p \/ t # s, n \notin G PROVE ToldSlot(n, t, J, M, P) = ToldSlot(n, t, K, N, O)
  <2>1. Lists(Elements, K[n][t]) /\ J[n][t] = K[n][t]
    BY <1>3, <1>4, KidsAre
  <2>2. n \in O <=> n \in P
    BY <1>g, <1>4
  <2>3. ASSUME NEW y \in ToSet(K[n][t]) PROVE N[y] = M[y]
    <3>1. y # e
      BY <1>p, <1>4
    <3> QED BY <1>2, <1>4, <3>1
  <2> QED BY <2>1, <2>2, <2>3, SlotSame
<1>5. ASSUME N[e] = 0 PROVE Covers(x, J, M, P)
  <2>1. ~Shows(N, O, p, s) /\ e \notin O
    BY <1>1, <1>5 DEF ToldOK
  <2>2. ASSUME NEW t \in Slots, NEW y \in ToSet(K[e][t]) PROVE N[y] = 0 /\ y \notin O
    <3>0. y \in Nodes
      BY <1>1, KidsElements, SlotNames
    <3>1. ~Shows(N, O, e, t)
      BY <1>5, <2>1 DEF Shows
    <3>2. N[y] = 0
      BY <1>1, <2>2, <3>0, <3>1 DEF ToldOK
    <3> QED BY <3>2 DEF ToldOK
  <2>3. M = N /\ P = O
    BY <1>g, <1>1, <1>5, <2>1, <2>2
  <2>4. \A n \in Nodes, t \in Slots : N[n] # 0 /\ (n # p \/ t # s) => J[n][t] = K[n][t]
    BY <1>3, <1>5
  <2>5. Covers(x, J, N, O)
    BY <2>1, <2>4, CoversUnseen
  <2> QED BY <2>3, <2>5
<1>6. ASSUME N[e] # 0 PROVE Follows(x, v, J, M, P)
  <2>1. Shows(N, O, p, s) /\ N[p] # 0
    BY <1>1, <1>6 DEF ToldOK, Shows
  <2> DEFINE a == Mapped(N, K[p][s])
             b == RemoveFirst(a, N[e])
             w == [j \in DOMAIN x \ {N[e]} |->
                     IF j = N[p] THEN [x[N[p]] EXCEPT ![s] = RemoveFirst(@, N[e])] ELSE x[j]]
  <2>2. v.at = N[p] /\ Applied(x, v) = w
    BY DEF RemoveEvent, Applied, RemoveNode
  <2>3. N[p] \in DOMAIN x /\ x[N[p]] = Told(p, K, N, O) /\ x[N[p]][s] = a
    <3>1. N[p] \in DOMAIN x /\ x[N[p]] = Told(p, K, N, O)
      BY <2>1 DEF Covers
    <3>2. ToldSlot(p, s, K, N, O) = a
      BY <2>1 DEF ToldSlot, Shows
    <3> QED BY <3>1, <3>2, ToldIs
  <2>4. b = Mapped(M, J[p][s])
    <3> DEFINE k == K[p][s]
               r == J[p][s]
    <3>1. Lists(Elements, k) /\ Agree(N, M, k, e)
      BY <1>1, <1>2, KidsAre DEF Agree
    <3>2. \A y \in ToSet(k) : N[y] = N[e] => y = e
      BY <1>1, <1>6, KidsElements, SlotNames DEF ToldOK
    <3>3. PICK i : OnlyAt(k, i, e)
      BY PlacedAt
    <3>4. k \in Seq(Elements) /\ r = RemoveFirst(k, e)
      BY <3>1 DEF Lists
    <3> HIDE DEF k, r
    <3>5. Narrowed(Elements, k, i, r)
      BY <3>3, <3>4, Removed
    <3>6. RemoveFirst(Mapped(N, k), N[e]) = Mapped(M, r)
      BY <1>1, <3>1, <3>2, <3>3, <3>5, MappedRemoval
    <3> QED BY <3>6 DEF k, r
  <2>5. /\ DOMAIN w = DOMAIN x \ {N[e]}
        /\ N[p] # N[e] => w[N[p]] = [Told(p, K, N, O) EXCEPT ![s] = b]
        /\ \A j \in DOMAIN x : j # N[p] /\ j # N[e] => w[j] = x[j]
    BY <2>3
  <2> HIDE DEF a, b, w
  <2>6. Told(p, J, M, P) = [Told(p, K, N, O) EXCEPT ![s] = b]
    <3>1. ToldSlot(p, s, J, M, P) = b
      BY <1>g, <1>1, <2>1, <2>4 DEF ToldSlot, Shows
    <3>2. \A t \in Slots : t # s => ToldSlot(p, t, J, M, P) = ToldSlot(p, t, K, N, O)
      BY <1>1, <1>4
    <3> QED BY <3>1, <3>2, ToldIs
  <2>7. ASSUME NEW n \in Nodes, M[n] # 0 PROVE M[n] \in DOMAIN w /\ w[M[n]] = Told(n, J, M, P)
    <3>1. n \notin G /\ n # e /\ M[n] = N[n] /\ N[n] # 0
      BY <1>g, <1>1, <2>7
    <3>2. N[n] # N[e] /\ (n # p => N[n] # N[p])
      BY <1>1, <3>1 DEF ToldOK
    <3>3. N[n] \in DOMAIN x /\ x[N[n]] = Told(n, K, N, O)
      BY <3>1 DEF Covers
    <3>4. CASE n = p
      BY <2>5, <2>6, <3>1, <3>2, <3>3, <3>4
    <3>5. CASE n # p
      <4>1. Told(n, J, M, P) = Told(n, K, N, O)
        BY <1>4, <3>1, <3>5, ToldIs
      <4> QED BY <2>5, <3>1, <3>2, <3>3, <3>5, <4>1
    <3> QED BY <3>4, <3>5
  <2>8. Covers(w, J, M, P)
    BY <2>7 DEF Covers
  <2> QED BY <2>2, <2>3, <2>8 DEF Follows
<1> QED BY <1>5, <1>6

SetEvent(p, S, K, N, M, O) ==
  [type |-> "set", at |-> N[p], nodes |-> Mapped(M, K[p]["children"]), tree |-> Fragment(S, K, M, O)]

\* So does the event that tells of a node's children.
LEMMA CoversSet ==
  ASSUME NEW K, WellFormed(K), NEW p \in Nodes, NEW S, S = Fresh(K, ToSet(K[p]["children"])),
         NEW N, NEW O, NEW l, ToldOK(K, N, O, l), N[p] # 0, p \notin O, NEW M, Renumbers(S, l, N, M),
         NEW v, v = SetEvent(p, S, K, N, M, O), NEW x, Covers(x, K, N, O)
  PROVE  v.at \in DOMAIN x /\ Covers(Applied(x, v), K, M, O \cup {p})
<1> DEFINE P == O \cup {p}
           tree == Fragment(S, K, M, O)
           a == Mapped(M, K[p]["children"])
           y == [x EXCEPT ![N[p]].children = a]
<1>1. /\ S \subseteq Nodes /\ p \notin S /\ Enlarges(N, l, S, M) /\ l \in Nat /\ N \in [Nodes -> 0..l]
      /\ \A n \in S : n \in ToSet(K[p]["children"]) \/ \E m \in ToSet(K[p]["children"]) : n \in ToSet(K[m]["shadow"])
  <2>1. \A n \in S : n \in Nodes /\ n # p /\ (n \in ToSet(K[p]["children"]) \/ \E m \in ToSet(K[p]["children"]) : n \in ToSet(K[m]["shadow"]))
    BY FreshOnes
  <2>2. l \in Nat /\ Numbers(N, l)
    BY DEF ToldOK, Numbers
  <2>3. S \in SUBSET Nodes
    BY <2>1
  <2>4. Enlarges(N, l, S, M)
    BY <2>2, <2>3, NumbersApart
  <2> QED BY <2>1, <2>2, <2>4 DEF Numbers
<1>2. /\ \A n \in S : M[n] > l
      /\ \A n \in Nodes \ S : M[n] = N[n] /\ M[n] <= l
      /\ \A n, m \in Nodes : M[n] # 0 /\ M[n] = M[m] => n = m
      /\ M \in [Nodes -> Nat]
  BY <1>1 DEF Enlarges, Numbers
<1>3. ASSUME NEW n \in Nodes, n \notin S, NEW t \in Slots, n # p \/ t # "children", NEW z \in ToSet(K[n][t]) PROVE N[z] = M[z]
  <2>1. z \in Nodes
    BY KidsElements, SlotNames
  <2>2. z \notin S
    <3>1. z \notin ToSet(K[p]["children"])
      BY <1>3, OnePlace, SlotNames
    <3>2. ASSUME NEW m \in ToSet(K[p]["children"]), z \in ToSet(K[m]["shadow"]) PROVE FALSE
      <4>1. m \in Nodes /\ m \in S
        BY KidsElements, SlotNames, FreshOnes
      <4>2. n = m
        BY <3>2, <4>1, OnePlace, SlotNames
      <4> QED BY <1>3, <4>1, <4>2
    <3> QED BY <1>1, <3>1, <3>2
  <2> QED BY <1>2, <2>1, <2>2
<1>4. v.at = N[p] /\ Applied(x, v) = Over(tree, y)
  BY DEF SetEvent, Applied
<1>5. DOMAIN tree = { M[n] : n \in S } /\ \A n \in S : tree[M[n]] = Told(n, K, M, O)
  <2>1. \A n, k \in S : M[n] = M[k] => n = k
    BY <1>1, <1>2
  <2>2. Tells(S, K, M, O, tree)
    BY <2>1, FragmentIs
  <2> HIDE DEF tree
  <2> QED BY <2>2 DEF Tells
<1>6. N[p] \in DOMAIN x /\ x[N[p]] = Told(p, K, N, O)
  BY DEF Covers
<1>7. DOMAIN y = DOMAIN x /\ y[N[p]] = [Told(p, K, N, O) EXCEPT !["children"] = a] /\ \A j \in DOMAIN x : j # N[p] => y[j] = x[j]
  BY <1>6
<1>8. Lies(tree, y, Over(tree, y))
  BY OverIs
<1> HIDE DEF tree, a, y
<1>9. Told(p, K, M, P) = [Told(p, K, N, O) EXCEPT !["children"] = a]
  <2>1. ToldSlot(p, "children", K, M, P) = a
    BY DEF ToldSlot, a
  <2>2. ToldSlot(p, "shadow", K, M, P) = ToldSlot(p, "shadow", K, N, O)
    <3>1. Lists(Elements, K[p]["shadow"])
      BY KidsAre, SlotNames
    <3>2. \A z \in ToSet(K[p]["shadow"]) : N[z] = M[z]
      BY <1>1, <1>3, SlotNames
    <3>3. Mapped(N, K[p]["shadow"]) = Mapped(M, K[p]["shadow"])
      BY <3>1, <3>2, MappedSame
    <3> QED BY <3>3 DEF ToldSlot
  <2> QED BY <2>1, <2>2, ToldIs, SlotNames
<1>10. ASSUME NEW n \in Nodes, M[n] # 0 PROVE M[n] \in DOMAIN Over(tree, y) /\ Over(tree, y)[M[n]] = Told(n, K, M, P)
  <2>1. CASE n \in S
    <3>1. Told(n, K, M, O) = Told(n, K, M, P)
      <4>1. n \in O <=> n \in P
        BY <1>1, <2>1
      <4> QED BY <4>1 DEF Told
    <3>2. M[n] \in DOMAIN tree /\ tree[M[n]] = Told(n, K, M, O)
      BY <1>5, <2>1
    <3> QED BY <1>8, <3>1, <3>2 DEF Lies
  <2>2. CASE n \notin S
    <3>1. M[n] = N[n] /\ N[n] # 0 /\ M[n] <= l
      BY <1>2, <1>10, <2>2
    <3>2. M[n] \notin DOMAIN tree
      <4> SUFFICES ASSUME NEW m \in S, M[n] = M[m] PROVE FALSE
        BY <1>5
      <4>1. M[m] > l /\ M[m] \in Nat
        BY <1>1, <1>2
      <4> QED BY <1>1, <3>1, <4>1
    <3>3. N[n] \in DOMAIN x /\ x[N[n]] = Told(n, K, N, O)
      BY <3>1 DEF Covers
    <3>4. N[n] \in DOMAIN Over(tree, y) /\ Over(tree, y)[N[n]] = y[N[n]]
      BY <1>7, <1>8, <3>1, <3>2, <3>3 DEF Lies
    <3>5. y[N[n]] = Told(n, K, M, P)
      <4>1. CASE n = p
        BY <1>7, <1>9, <4>1
      <4>2. CASE n # p
        <5>1. N[n] # N[p]
          BY <3>1, <4>2 DEF ToldOK
        <5>2. Told(n, K, N, O) = Told(n, K, M, P)
          <6>1. \A t \in Slots : \A z \in ToSet(K[n][t]) : N[z] = M[z]
            BY <1>3, <2>2, <4>2
          <6> QED BY <4>2, <6>1, ToldSame
        <5> QED BY <1>7, <3>3, <5>1, <5>2
      <4> QED BY <4>1, <4>2
    <3> QED BY <3>1, <3>4, <3>5
  <2> QED BY <2>1, <2>2
<1>11. Covers(Over(tree, y), K, M, P)
  BY <1>10 DEF Covers
<1> QED BY <1>4, <1>6, <1>11

\* The answer of DOM.getDocument covers the page.
LEMMA CoversDocument ==
  ASSUME NEW K, NEW S, NEW O, NEW M, \A n \in Nodes : M[n] # 0 => n \in S, \A n, m \in S : M[n] = M[m] => n = m
  PROVE  Covers(Fragment(S, K, M, O), K, M, O)
<1>1. Tells(S, K, M, O, Fragment(S, K, M, O))
  BY FragmentIs
<1> QED BY <1>1 DEF Tells, Covers

-----------------------------------------------------------------------------
(* The events that wait, and what they lead to.                            *)

IsSeq(q) == \E S : q \in Seq(S)

\* r is q with e behind it.
Appended(q, e, r) ==
  /\ IsSeq(r) /\ Len(q) \in Nat /\ Len(r) = Len(q) + 1 /\ r[Len(q) + 1] = e
  /\ \A i \in 1..Len(q) : r[i] = q[i]

\* An event behind the queue.
LEMMA AppendIs ==
  ASSUME NEW q, IsSeq(q), NEW e
  PROVE  Appended(q, e, Append(q, e))
<1>1. PICK S : q \in Seq(S)
  BY DEF IsSeq
<1>2. Len(q) \in Nat /\ q \in [1..Len(q) -> S]
  BY <1>1, LenProperties
<1>3. q \in Seq(S \cup {e}) /\ e \in S \cup {e}
  BY <1>2
<1>4. Append(q, e) \in Seq(S \cup {e})
  BY <1>3, AppendProperties
<1>5. /\ Len(Append(q, e)) = Len(q) + 1 /\ Append(q, e)[Len(q) + 1] = e
      /\ \A i \in 1..Len(q) : Append(q, e)[i] = q[i]
  BY <1>3, AppendProperties
<1> QED BY <1>2, <1>4, <1>5 DEF Appended, IsSeq

\* The three events of a commit, one behind the other.
LEMMA ThreeAppended ==
  ASSUME NEW q, IsSeq(q), NEW a, NEW b, NEW c
  PROVE  q \o <<a, b, c>> = Append(Append(Append(q, a), b), c)
<1>1. PICK S : q \in Seq(S)
  BY DEF IsSeq
<1> DEFINE T == S \cup {a, b, c}
           d == <<a, b, c>>
           x == Append(q, a)
           y == Append(x, b)
           z == Append(y, c)
<1>2. Len(q) \in Nat /\ q \in [1..Len(q) -> S]
  BY <1>1, LenProperties
<1>3. q \in Seq(T) /\ d \in Seq(T) /\ Len(d) = 3 /\ d[1] = a /\ d[2] = b /\ d[3] = c /\ a \in T /\ b \in T /\ c \in T
  BY <1>2
<1> HIDE DEF T, d
<1>4. x \in Seq(T) /\ Len(x) = Len(q) + 1 /\ x[Len(q) + 1] = a /\ \A i \in 1..Len(q) : x[i] = q[i]
  BY <1>3, AppendProperties
<1> HIDE DEF x
<1>5. y \in Seq(T) /\ Len(y) = Len(x) + 1 /\ y[Len(x) + 1] = b /\ \A i \in 1..Len(x) : y[i] = x[i]
  BY <1>3, <1>4, AppendProperties
<1> HIDE DEF y
<1>6. z \in Seq(T) /\ Len(z) = Len(y) + 1 /\ z[Len(y) + 1] = c /\ \A i \in 1..Len(y) : z[i] = y[i]
  BY <1>3, <1>5, AppendProperties
<1> HIDE DEF z
<1>7. Joins(T, q, d, q \o d)
  BY <1>3, Joined
<1>8. ASSUME NEW i \in 1..Len(z) PROVE (q \o d)[i] = z[i]
  <2>1. CASE i \in 1..Len(q)
    <3>1. i \in 1..Len(x) /\ i \in 1..Len(y)
      BY <1>2, <1>4, <1>5, <2>1
    <3>2. z[i] = q[i]
      BY <1>4, <1>5, <1>6, <2>1, <3>1
    <3>3. (q \o d)[i] = q[i]
      BY <1>7, <2>1 DEF Joins
    <3> QED BY <3>2, <3>3
  <2>2. CASE i \notin 1..Len(q)
    <3>1. i = Len(q) + 1 \/ i = Len(q) + 2 \/ i = Len(q) + 3
      BY <1>2, <1>4, <1>5, <1>6, <2>2
    <3>2. (q \o d)[Len(q) + 1] = a /\ (q \o d)[Len(q) + 2] = b /\ (q \o d)[Len(q) + 3] = c
      <4>1. 1 \in 1..Len(d) /\ 2 \in 1..Len(d) /\ 3 \in 1..Len(d)
        BY <1>3
      <4> QED BY <1>3, <1>7, <4>1 DEF Joins
    <3>3. z[Len(q) + 1] = a /\ z[Len(q) + 2] = b /\ z[Len(q) + 3] = c
      <4>1. Len(x) = Len(q) + 1 /\ Len(y) = Len(q) + 2
        BY <1>2, <1>4, <1>5
      <4>2. Len(q) + 1 \in 1..Len(x) /\ Len(q) + 1 \in 1..Len(y) /\ Len(q) + 2 \in 1..Len(y)
        BY <1>2, <4>1
      <4>3. Len(x) + 1 = Len(q) + 2 /\ Len(y) + 1 = Len(q) + 3
        BY <1>2, <4>1
      <4> QED BY <1>4, <1>5, <1>6, <4>1, <4>2, <4>3
    <3> QED BY <3>1, <3>2, <3>3
  <2> QED BY <2>1, <2>2
<1>9. (q \o d) \in Seq(T) /\ Len(q \o d) = Len(z)
  BY <1>2, <1>3, <1>4, <1>5, <1>6, <1>7 DEF Joins
<1>10. q \o d = z
  BY <1>6, <1>8, <1>9, SeqEqual
<1> QED BY <1>10 DEF d, x, y, z

\* r is q without its head.
Headless(q, r) ==
  /\ IsSeq(r) /\ Len(q) \in Nat /\ Len(q) >= 1 /\ Len(r) = Len(q) - 1 /\ Head(q) = q[1]
  /\ \A i \in 1..Len(r) : r[i] = q[i + 1] /\ i + 1 \in 1..Len(q)

\* A queue without its head.
LEMMA TailIs ==
  ASSUME NEW q, IsSeq(q), q # <<>>
  PROVE  Headless(q, Tail(q))
<1>1. PICK S : q \in Seq(S)
  BY DEF IsSeq
<1>2. Len(q) \in Nat /\ Len(q) >= 1 /\ Head(q) = q[1]
  BY <1>1, LenProperties, EmptySeq
<1>3. Tail(q) \in Seq(S) /\ Len(Tail(q)) = Len(q) - 1 /\ \A i \in 1..Len(q) - 1 : Tail(q)[i] = q[i + 1]
  BY <1>1, <1>2, HeadTailProperties
<1> QED BY <1>2, <1>3 DEF Headless, IsSeq

\* One event on a map: what is about a node it does not have is dropped.
NodeEvents == {"set", "insert", "remove"}
Taken(m, v) == IF v.type \in NodeEvents /\ v.at \in DOMAIN m THEN Applied(m, v) ELSE m

\* h is the maps the events q bring m to, one after the other.
Trail(h, m, q) == h[0] = m /\ \A i \in 1..Len(q) : h[i] = Taken(h[i - 1], q[i])

Leads(m, q, K, N, O) == \E h : Trail(h, m, q) /\ Covers(h[Len(q)], K, N, O)

\* The event v brings a map of what was told before to one of what is told now.
Brings(v, K, N, O, J, M, P) == \A x : Covers(x, K, N, O) => Covers(Taken(x, v), J, M, P)

\* An event more: from the same map to what is told now.
LEMMA LeadsAppended ==
  ASSUME NEW q, IsSeq(q), NEW v, NEW r, r = Append(q, v), NEW m, NEW K, NEW N, NEW O, Leads(m, q, K, N, O),
         NEW J, NEW M, NEW P, Brings(v, K, N, O, J, M, P)
  PROVE  Leads(m, r, J, M, P)
<1>1. PICK h : Trail(h, m, q) /\ Covers(h[Len(q)], K, N, O)
  BY DEF Leads
<1>2. Appended(q, v, r)
  BY AppendIs
<1> DEFINE g == [i \in 0..Len(r) |-> IF i = Len(r) THEN Taken(h[Len(q)], v) ELSE h[i]]
<1>3. Len(q) \in Nat /\ Len(r) = Len(q) + 1 /\ r[Len(r)] = v /\ \A i \in 1..Len(q) : r[i] = q[i]
  BY <1>2 DEF Appended
<1>4. g[0] = h[0] /\ g[Len(r)] = Taken(h[Len(q)], v) /\ \A i \in 0..Len(q) : g[i] = h[i]
  BY <1>3
<1> HIDE DEF g
<1>5. ASSUME NEW i \in 1..Len(r) PROVE g[i] = Taken(g[i - 1], r[i])
  <2>1. CASE i = Len(r)
    <3>1. i - 1 = Len(q) /\ i - 1 \in 0..Len(q)
      BY <1>3, <2>1
    <3> QED BY <1>3, <1>4, <2>1, <3>1
  <2>2. CASE i # Len(r)
    <3>1. i \in 1..Len(q) /\ i \in 0..Len(q) /\ i - 1 \in 0..Len(q)
      BY <1>3, <2>2
    <3>2. h[i] = Taken(h[i - 1], q[i])
      BY <1>1, <3>1 DEF Trail
    <3> QED BY <1>3, <1>4, <3>1, <3>2
  <2> QED BY <2>1, <2>2
<1>6. Trail(g, m, r)
  BY <1>1, <1>4, <1>5 DEF Trail
<1>7. Covers(g[Len(r)], J, M, P)
  BY <1>1, <1>4 DEF Brings
<1> QED BY <1>6, <1>7 DEF Leads

\* An event less: from the map with that event taken.
LEMMA LeadsHeadless ==
  ASSUME NEW q, IsSeq(q), q # <<>>, NEW m, NEW K, NEW N, NEW O, Leads(m, q, K, N, O)
  PROVE  Leads(Taken(m, Head(q)), Tail(q), K, N, O)
<1>1. PICK h : Trail(h, m, q) /\ Covers(h[Len(q)], K, N, O)
  BY DEF Leads
<1> DEFINE r == Tail(q)
           g == [i \in 0..Len(r) |-> h[i + 1]]
<1>2. Headless(q, r)
  BY TailIs
<1> HIDE DEF r
<1>3. /\ Len(q) \in Nat /\ 1 \in 1..Len(q) /\ Len(r) = Len(q) - 1 /\ Head(q) = q[1]
      /\ \A i \in 1..Len(r) : r[i] = q[i + 1] /\ i + 1 \in 1..Len(q)
  BY <1>2 DEF Headless
<1>4. \A i \in 0..Len(r) : g[i] = h[i + 1]
  OBVIOUS
<1> HIDE DEF g
<1>5. ASSUME NEW i \in 1..Len(r) PROVE g[i] = Taken(g[i - 1], r[i])
  <2>1. i \in 0..Len(r) /\ i - 1 \in 0..Len(r) /\ (i - 1) + 1 = i /\ (i + 1) - 1 = i
    BY <1>3
  <2>2. h[i + 1] = Taken(h[(i + 1) - 1], q[i + 1])
    BY <1>1, <1>3 DEF Trail
  <2>3. g[i] = h[i + 1] /\ g[i - 1] = h[i] /\ r[i] = q[i + 1]
    BY <1>3, <1>4, <2>1
  <2> QED BY <2>1, <2>2, <2>3
<1>6. g[0] = Taken(m, Head(q))
  <2>1. 0 \in 0..Len(r) /\ 0 + 1 = 1 /\ 1 - 1 = 0
    BY <1>3
  <2>2. h[1] = Taken(h[1 - 1], q[1]) /\ h[0] = m
    BY <1>1, <1>3 DEF Trail
  <2>3. g[0] = h[1]
    BY <1>4, <2>1
  <2> QED BY <1>3, <2>1, <2>2, <2>3
<1>7. Trail(g, Taken(m, Head(q)), r)
  BY <1>5, <1>6 DEF Trail
<1>8. g[Len(r)] = h[Len(q)]
  <2>1. Len(r) \in 0..Len(r) /\ Len(r) + 1 = Len(q)
    BY <1>3
  <2> QED BY <1>4, <2>1
<1>9. Leads(Taken(m, Head(q)), r, K, N, O)
  BY <1>1, <1>7, <1>8 DEF Leads
<1> QED BY <1>9 DEF r

\* A change that is not told.
LEMMA LeadsSame ==
  ASSUME NEW q, NEW m, NEW K, NEW N, NEW O, Leads(m, q, K, N, O),
         NEW J, NEW M, NEW P, \A x : Covers(x, K, N, O) => Covers(x, J, M, P)
  PROVE  Leads(m, q, J, M, P)
BY DEF Leads

\* Events about nodes the map does not have lead nowhere.
LEMMA LeadsNowhere ==
  ASSUME NEW q, IsSeq(q), NEW m, NEW K, NEW N, NEW O, Covers(m, K, N, O), \A i \in 1..Len(q) : Taken(m, q[i]) = m
  PROVE  Leads(m, q, K, N, O)
<1> DEFINE h == [i \in 0..Len(q) |-> m]
<1>1. Len(q) \in Nat
  BY AppendIs DEF Appended
<1>2. Trail(h, m, q) /\ h[Len(q)] = m
  BY <1>1 DEF Trail
<1> QED BY <1>2 DEF Leads

\* Without events the map itself covers the page.
LEMMA LeadsHere ==
  ASSUME NEW m, NEW K, NEW N, NEW O, Leads(m, <<>>, K, N, O)
  PROVE  Covers(m, K, N, O)
BY DEF Leads, Trail

-----------------------------------------------------------------------------
(* Chrome's steps.                                                         *)

TreeInv == WellFormed(kids) /\ ToldOK(kids, number, opened, last)

MapOK(m, l) == DOMAIN m \subseteq 1..l /\ \A i \in DOMAIN m : DOMAIN m[i] = Slots

EventOK(v, l) == v.type \in NodeEvents => v.at \in 1..l /\ (v.type # "remove" => MapOK(v.tree, l))

\* The page or a query changed what is told of the page, and the handler hears of it if need be.
Moved ==
  /\ TreeInv' /\ last' \in Nat /\ last' >= last /\ number'[Doc] = number[Doc]
  /\ \/ /\ queue' = queue
        /\ \A x : Covers(x, kids, number, opened) => Covers(x, kids', number', opened')
     \/ \E v : /\ queue' = Append(queue, v) /\ v.type \in NodeEvents /\ EventOK(v, last')
               /\ \A x : Covers(x, kids, number, opened) => Covers(Taken(x, v), kids', number', opened')

\* A fragment has given numbers only.
LEMMA FragmentOK ==
  ASSUME NEW S, NEW K, NEW M, NEW O, NEW l, \A n \in S : M[n] \in 1..l
  PROVE  MapOK(Fragment(S, K, M, O), l)
<1>1. Fragment(S, K, M, O) = [i \in { M[n] : n \in S } |-> Told(CHOOSE n \in S : M[n] = i, K, M, O)]
  BY DEF Fragment
<1>2. \A n : DOMAIN Told(n, K, M, O) = Slots
  BY DEF Told
<1> QED BY <1>1, <1>2 DEF MapOK

\* Each step by which the page or a query changes what is told: an insertion, …
LEMMA InsertMoves ==
  ASSUME TreeInv, NEW e \in Elements, NEW p \in Nodes, NEW i, InsertElement(e, p, i)
  PROVE  Moved
<1> DEFINE s == SlotOf(e)
           K == kids
           J == [kids EXCEPT ![p][s] = InsertAt(@, i + 1, e)]
           tell == p \in Known /\ (s = "shadow" \/ p \in opened)
           nums == Numbered({e}, last, number)
           v == [type |-> "insert", slot |-> s, at |-> number[p],
                 prev |-> IF i = 0 THEN 0 ELSE number[kids[p][s][i]],
                 node |-> nums[e], tree |-> Fragment({e}, J, nums, opened)]
<1>1. /\ kids' = J /\ opened' = opened /\ e \notin Inside /\ p \in {Doc} \cup ToSet(kids[Doc]["children"])
      /\ i \in 0..Len(K[p][s]) /\ (s = "shadow" => p # Doc /\ K[p][s] = <<>>)
      /\ IF tell THEN number' = nums /\ last' = last + 1 /\ queue' = Append(queue, v)
                 ELSE number' = number /\ last' = last /\ queue' = queue
  BY DEF InsertElement
<1>2. WellFormed(K) /\ ToldOK(K, number, opened, last) /\ s \in Slots /\ e \in Nodes /\ Doc # e
  BY SlotNames DEF TreeInv
<1>3. \A n \in Nodes, t \in Slots : e \notin ToSet(K[n][t])
  BY <1>1, <1>2, InsideIs
<1>4. p # e
  BY <1>1, <1>2, <1>3, SlotNames
<1>5. Lists(Elements, K[p][s]) /\ K[p][s] \in Seq(Elements)
  BY <1>2, KidsAre DEF Lists
<1>6. Widened(Elements, K[p][s], i + 1, e, InsertAt(K[p][s], i + 1, e))
  <2> DEFINE k == K[p][s]
             j == i + 1
  <2>1. k \in Seq(Elements) /\ j \in 1..Len(k) + 1
    BY <1>1, <1>5 DEF Lists
  <2> HIDE DEF k, j
  <2>2. Widened(Elements, k, j, e, InsertAt(k, j, e))
    BY <2>1, Inserted
  <2> QED BY <2>2 DEF k, j
<1>7. J[p][s] = InsertAt(K[p][s], i + 1, e) /\ Rewrites(K, J, p, s)
  <2>1. K \in [Nodes -> [Slots -> Seq(Elements)]] /\ InsertAt(K[p][s], i + 1, e) \in Seq(Elements)
    BY <1>2, <1>6 DEF WellFormed, Widened
  <2> DEFINE r == InsertAt(K[p][s], i + 1, e)
             g == [K[p] EXCEPT ![s] = r]
  <2>2. J = [K EXCEPT ![p] = g]
    OBVIOUS
  <2> HIDE DEF K, s, r, J
  <2>3. g \in [Slots -> Seq(Elements)] /\ g[s] = r /\ \A t \in Slots : t # s => g[t] = K[p][t]
    BY <1>2, <2>1 DEF r
  <2> HIDE DEF g
  <2>4. J[p][s] = r /\ Rewrites(K, J, p, s)
    BY <2>1, <2>2, <2>3 DEF Rewrites
  <2> QED BY <2>4 DEF r
<1> HIDE DEF J, K, s
<1>8. WellFormed(J) /\ ToSet(J[p][s]) = ToSet(K[p][s]) \cup {e}
  <2>1. Widened(Elements, K[p][s], i + 1, e, J[p][s])
    BY <1>6, <1>7
  <2>2. s = SlotOf(e) /\ (p = Doc \/ p \in ToSet(K[Doc]["children"])) /\ (s = "shadow" => p # Doc)
    BY <1>1 DEF s, K
  <2> QED BY <1>2, <1>3, <1>7, <2>1, <2>2, InsertedPage
<1>9. tell <=> Shows(number, opened, p, s)
  <2>1. s = "children" \/ s = "shadow"
    BY <1>2, SlotNames
  <2> QED BY <1>2, <2>1 DEF Known, Shows, ToldOK
<1>10. CASE ~tell
  <2>1. ToldOK(J, number, opened, last)
    BY <1>2, <1>3, <1>4, <1>7, <1>8, <1>9, <1>10, ToldInserted
  <2>2. ASSUME NEW x, Covers(x, kids, number, opened) PROVE Covers(x, J, number, opened)
    <3>1. \A n \in Nodes, t \in Slots : n # p \/ t # s => J[n][t] = K[n][t]
      BY <1>7 DEF Rewrites
    <3> QED BY <1>2, <1>9, <1>10, <2>2, <3>1, CoversUnseen DEF K
  <2> QED BY <1>1, <1>2, <1>8, <1>10, <2>1, <2>2 DEF Moved, TreeInv, ToldOK
<1>11. CASE tell
  <2>0. Renumbers({e}, last, number, nums)
    <3>1. {e} \in SUBSET Nodes /\ IsFiniteSet({e}) /\ last \in Nat /\ number \in [Nodes -> 0..last]
      BY <1>2, NodesFinite DEF ToldOK
    <3> QED BY <3>1, NumbersGiven
  <2> HIDE DEF nums
  <2>n. nums[Doc] = number[Doc] /\ nums[e] \in 1..last + 1 /\ last \in Nat
    <3>1. Cardinality({e}) = 1 /\ Doc \in Nodes \ {e} /\ last \in Nat
      BY <1>2, FS_Singleton, SlotNames DEF ToldOK
    <3>2. nums \in [Nodes -> 0..last + 1] /\ nums[e] > last /\ nums[Doc] = number[Doc]
      BY <2>0, <3>1 DEF Renumbers
    <3>3. nums[e] \in 0..last + 1
      BY <1>2, <3>2
    <3> QED BY <3>1, <3>2, <3>3
  <2>1. ToldOK(J, nums, opened, last + 1)
    BY <1>2, <1>3, <1>4, <1>7, <1>8, <1>9, <1>11, <2>0, ToldInserted
  <2>2. v = InsertEvent(e, p, s, i, K, J, number, nums, opened)
    BY DEF InsertEvent, K
  <2>3. v.type = "insert" /\ v.at = number[p] /\ v.tree = Fragment({e}, J, nums, opened)
    OBVIOUS
  <2> HIDE DEF v
  <2>4. ASSUME NEW x, Covers(x, kids, number, opened) PROVE Covers(Taken(x, v), J, nums, opened)
    <3>0. i \in 0..Len(K[p][s]) /\ (s = "shadow" => K[p][s] = <<>>) /\ Shows(number, opened, p, s) /\ Covers(x, K, number, opened)
      BY <1>1, <1>9, <1>11, <2>4 DEF K, s
    <3>1. v.at \in DOMAIN x /\ Covers(Applied(x, v), J, nums, opened)
      BY <1>2, <1>3, <1>4, <1>7, <2>0, <2>2, <3>0, CoversInserted
    <3> QED BY <2>3, <3>1 DEF Taken, NodeEvents
  <2>5. EventOK(v, last + 1)
    <3>1. number[p] \in 1..last + 1
      <4>1. number[p] \in 0..last /\ number[p] # 0
        BY <1>2, <1>11 DEF ToldOK, Known
      <4> QED BY <2>n, <4>1
    <3>2. \A n \in {e} : nums[n] \in 1..last + 1
      BY <2>n
    <3>3. MapOK(Fragment({e}, J, nums, opened), last + 1)
      BY <3>2, FragmentOK
    <3> QED BY <2>3, <3>1, <3>3 DEF EventOK
  <2>6. number' = nums /\ last' = last + 1 /\ queue' = Append(queue, v) /\ kids' = J /\ opened' = opened
    BY <1>1, <1>11
  <2>7. TreeInv'
    BY <1>8, <2>1, <2>6 DEF TreeInv
  <2>8. last' \in Nat /\ last' >= last /\ number'[Doc] = number[Doc] /\ v.type \in NodeEvents
    BY <2>3, <2>6, <2>n DEF NodeEvents
  <2> QED BY <2>4, <2>5, <2>6, <2>7, <2>8 DEF Moved
<1> QED BY <1>10, <1>11

\* … a removal, …
LEMMA RemoveMoves ==
  ASSUME TreeInv, NEW e \in Elements, RemoveElement(e)
  PROVE  Moved
<1> DEFINE K == kids
           q == ParentOf(e)
           u == SlotOf(e)
           G == Gone(K, e)
           J == [n \in Nodes |-> IF n \in G THEN Leaf ELSE [K[n] EXCEPT ![u] = RemoveFirst(@, e)]]
           M == [n \in Nodes |-> IF n \in G THEN 0 ELSE number[n]]
           P == opened \ G
           w == [type |-> "remove", slot |-> u, at |-> number[q], node |-> number[e]]
<1>1. /\ e \in Inside \ {Doc} /\ kids' = J /\ number' = M /\ opened' = P /\ last' = last
      /\ queue' = IF q \in Known /\ e \in Known THEN Append(queue, w) ELSE queue
  <2>1. {e} \cup Below(e) = G
    BY DEF Below, Gone
  <2> HIDE DEF G
  <2> QED BY <2>1 DEF RemoveElement
<1>2. WellFormed(K) /\ ToldOK(K, number, opened, last) /\ last \in Nat
  BY DEF TreeInv, ToldOK
<1>3. PICK p \in Nodes, s \in Slots : e \in ToSet(K[p][s])
  BY <1>1, <1>2, InsideIs
<1>4. q = p /\ u = s
  BY <1>2, <1>3, ParentIs
<1>5. PICK i : OnlyAt(K[p][s], i, e)
  BY <1>2, <1>3, PlacedAt
<1> DEFINE r == RemoveFirst(K[p][s], e)
<1>6. Narrowed(Elements, K[p][s], i, r)
  BY <1>2, <1>3, <1>5, KidsElements, Removed
<1>7. p # e /\ p \notin G /\ Doc \notin G /\ e \in G /\ e \in Nodes
  <2>1. p # e /\ \A t \in Slots : p \notin ToSet(K[e][t])
    BY <1>2, <1>3, NoCycle
  <2>2. \A t \in Slots : Doc \notin ToSet(K[e][t])
    BY <1>2, KidsElements, SlotNames
  <2> QED BY <1>1, <2>1, <2>2, SlotNames DEF Gone
<1>8. ASSUME NEW n \in Nodes, n # p, n \notin G PROVE J[n] = K[n]
  <2>1. \A x \in ToSet(K[n][s]) : x # e
    BY <1>2, <1>3, <1>8, OnePlace
  <2>2. Lists(Elements, K[n][s])
    BY <1>2, KidsAre
  <2>3. \A j \in 1..Len(K[n][s]) : K[n][s][j] # e
    BY <2>1, <2>2 DEF Lists
  <2>4. RemoveFirst(K[n][s], e) = K[n][s]
    BY <2>3, NothingRemoved
  <2>5. K[n] \in [Slots -> Seq(Elements)]
    BY <1>2 DEF WellFormed
  <2>6. J[n] = [K[n] EXCEPT ![s] = RemoveFirst(@, e)]
    BY <1>4, <1>8
  <2> HIDE DEF J
  <2> QED BY <2>4, <2>5, <2>6
<1>9. ASSUME NEW n \in G, n # e PROVE n \in Nodes /\ K[n] = Leaf /\ J[n] = Leaf
  <2>1. PICK t \in Slots : n \in ToSet(K[e][t])
    BY <1>9 DEF Gone
  <2>2. n \in Nodes /\ K[n] = Leaf
    BY <1>1, <1>2, <1>7, <2>1, Grandchild, SlotNames
  <2> QED BY <1>9, <2>2
<1>10. J[e] = Leaf
  BY <1>7
<1>11. J[p] = [K[p] EXCEPT ![s] = r]
  BY <1>4, <1>7
<1> HIDE DEF G, J, K, r, q, u
<1>12. r \in Seq(Elements) /\ K \in [Nodes -> [Slots -> Seq(Elements)]]
  BY <1>2, <1>6 DEF Narrowed, WellFormed
<1>13. J[p] \in [Slots -> Seq(Elements)] /\ J[p][s] = r /\ \A t \in Slots : t # s => J[p][t] = K[p][t]
  BY <1>11, <1>12
<1>14. Prunes(K, J, p, s, e)
  <2>1. Leaf \in [Slots -> Seq(Elements)]
    BY DEF Leaf
  <2>2. ASSUME NEW n \in Nodes PROVE J[n] \in [Slots -> Seq(Elements)]
    BY <1>8, <1>9, <1>10, <1>12, <1>13, <2>1
  <2>3. J \in [Nodes -> [Slots -> Seq(Elements)]]
    BY <2>2 DEF J
  <2>4. ASSUME NEW n \in Nodes, NEW t \in Slots, n # e, n # p \/ t # s PROVE J[n][t] = K[n][t]
    BY <1>8, <1>9, <1>13, <2>4
  <2> QED BY <1>10, <2>3, <2>4 DEF Prunes
<1>15. WellFormed(J) /\ ToSet(J[p][s]) = ToSet(K[p][s]) \ {e}
  <2>1. Narrowed(Elements, K[p][s], i, J[p][s])
    BY <1>6, <1>13
  <2> QED BY <1>2, <1>3, <1>5, <1>14, <2>1, RemovedPage
<1>f. Forgets(Gone(K, e), number, opened, M, P)
  BY DEF Forgets, G
<1> HIDE DEF M, P
<1>16. ToldOK(J, M, P, last)
  BY <1>2, <1>3, <1>14, <1>15, <1>f, ToldRemoved
<1>17. TreeInv'
  BY <1>1, <1>15, <1>16 DEF TreeInv
<1>18. M[Doc] = number[Doc]
  BY <1>7, SlotNames DEF M
<1>19. w = RemoveEvent(e, p, s, number)
  BY <1>4 DEF RemoveEvent
<1>20. w.type = "remove" /\ w.at = number[p]
  BY <1>4
<1> HIDE DEF w
<1>21. ASSUME NEW x, Covers(x, K, number, opened)
       PROVE  /\ number[e] # 0 => Follows(x, w, J, M, P)
              /\ number[e] = 0 => Covers(x, J, M, P)
  <2>1. J[p][s] = RemoveFirst(K[p][s], e)
    BY <1>13 DEF r
  <2> QED BY <1>2, <1>3, <1>14, <1>19, <1>21, <1>f, <2>1, CoversRemoved
<1>22. CASE number[e] = 0
  <2>1. queue' = queue
    BY <1>1, <1>22 DEF Known
  <2> QED BY <1>1, <1>2, <1>17, <1>18, <1>21, <1>22, <2>1 DEF Moved, K
<1>23. CASE number[e] # 0
  <2>1. number[p] # 0 /\ number[p] \in 0..last
    <3>1. Shows(number, opened, p, s)
      BY <1>2, <1>3, <1>23 DEF ToldOK
    <3> QED BY <1>2, <3>1 DEF ToldOK, Shows
  <2>2. queue' = Append(queue, w)
    BY <1>1, <1>4, <1>7, <1>23, <2>1 DEF Known
  <2>3. EventOK(w, last) /\ w.type \in NodeEvents
    BY <1>2, <1>20, <2>1 DEF EventOK, NodeEvents
  <2>4. \A x : Covers(x, K, number, opened) => Covers(Taken(x, w), J, M, P)
    BY <1>21, <1>23, <2>3 DEF Taken, Follows
  <2> QED BY <1>1, <1>2, <1>17, <1>18, <2>2, <2>3, <2>4 DEF Moved, K
<1> QED BY <1>22, <1>23

\* … and a query that tells the client of its target.
LEMMA QueryMoves ==
  ASSUME TreeInv, AnswerQuery
  PROVE  Moved
<1> DEFINE K == kids
           p == ParentOf(Target)
           S == WithShadow(ToSet(kids[p].children))
           nums == Numbered(S, last, number)
           v == [type |-> "set", at |-> number[p],
                 nodes |-> [i \in DOMAIN kids[p].children |-> nums[kids[p].children[i]]],
                 tree |-> Fragment(S, kids, nums, opened)]
<1>1. WellFormed(K) /\ ToldOK(K, number, opened, last) /\ last \in Nat
  BY DEF TreeInv, ToldOK
<1>2. CASE UNCHANGED <<kids, number, last, opened, queue>>
  <2>1. TreeInv'
    BY <1>2 DEF TreeInv
  <2> QED BY <1>1, <1>2, <2>1 DEF Moved
<1>3. CASE ~UNCHANGED <<kids, number, last, opened, queue>>
  <2>1. /\ query.root \in { number[n] : n \in Known } /\ Target \in Inside /\ p \notin opened
        /\ number' = nums /\ last' = last + Cardinality(S) /\ opened' = opened \cup {p} /\ queue' = Append(queue, v) /\ kids' = kids
    BY <1>3 DEF AnswerQuery
  <2>2. PICK n \in Nodes, s \in Slots : Target \in ToSet(K[n][s])
    BY <1>1, <2>1, InsideIs, NodeTreeAssumption
  <2>3. p = n
    BY <1>1, <2>2, ParentIs
  <2>4. Doc \in opened
    BY <1>1, <2>1 DEF Known, ToldOK
  <2>5. p \in Nodes /\ number[p] # 0 /\ p # Doc
    <3>1. p \in Nodes /\ p # Doc
      BY <2>1, <2>2, <2>3, <2>4
    <3>2. n \in ToSet(K[Doc]["children"])
      BY <1>1, <2>2, <2>3, <3>1, Parents
    <3>3. number[n] # 0
      BY <1>1, <2>4, <3>2, SlotNames DEF ToldOK, Shows
    <3> QED BY <2>3, <3>1, <3>3
  <2>6. S = Fresh(K, ToSet(K[p]["children"]))
    BY DEF WithShadow, Fresh
  <2>7. v.type = "set" /\ v = SetEvent(p, S, K, number, nums, opened) /\ v.at = number[p] /\ v.tree = Fragment(S, K, nums, opened)
    BY DEF SetEvent, Mapped
  <2>8. S \subseteq Nodes /\ Doc \notin S
    BY <1>1, <2>5, <2>6, FreshOnes, SlotNames
  <2>9. Renumbers(S, last, number, nums)
    <3>1. number \in [Nodes -> 0..last] /\ IsFiniteSet(S)
      BY <1>1, <2>8, NodesFinite DEF ToldOK
    <3> QED BY <1>1, <2>8, <3>1, NumbersGiven
  <2> HIDE DEF p, S, nums, v
  <2>10. TreeInv'
    <3>1. ToldOK(K, nums, opened \cup {p}, last + Cardinality(S))
      BY <1>1, <2>1, <2>5, <2>6, <2>9, ToldQueried
    <3> QED BY <1>1, <2>1, <3>1 DEF TreeInv
  <2>11. /\ last' \in Nat /\ last' >= last /\ nums[Doc] = number[Doc] /\ number[p] \in 1..last'
         /\ \A m \in S : nums[m] \in 1..last'
    <3>1. Cardinality(S) \in Nat /\ last + Cardinality(S) \in Nat
      BY <2>8, NodesFinite, FS_CardinalityType, <1>1
    <3>2. nums[Doc] = number[Doc] /\ \A m \in S : nums[m] > last /\ nums[m] \in 0..last + Cardinality(S)
      BY <2>8, <2>9, SlotNames DEF Renumbers
    <3>3. number[p] \in 0..last
      BY <1>1, <2>5 DEF ToldOK
    <3> QED BY <1>1, <2>1, <2>5, <3>1, <3>2, <3>3
  <2>12. EventOK(v, last') /\ v.type \in NodeEvents
    <3>1. MapOK(Fragment(S, K, nums, opened), last')
      BY <2>11, FragmentOK
    <3> QED BY <2>7, <2>11, <3>1 DEF EventOK, NodeEvents
  <2>13. ASSUME NEW x, Covers(x, K, number, opened) PROVE Covers(Taken(x, v), K, nums, opened \cup {p})
    <3>1. v.at \in DOMAIN x /\ Covers(Applied(x, v), K, nums, opened \cup {p})
      BY <1>1, <2>1, <2>5, <2>6, <2>7, <2>9, <2>13, CoversSet
    <3> QED BY <2>12, <3>1 DEF Taken
  <2>14. \A x : Covers(x, kids, number, opened) => Covers(Taken(x, v), kids', number', opened')
    BY <2>1, <2>13
  <2> QED BY <2>1, <2>10, <2>11, <2>12, <2>14 DEF Moved
<1> QED BY <1>2, <1>3

\* The answer to getDocument is all that is told from then on.
LEMMA DocumentTold ==
  ASSUME TreeInv, NEW p \in Fetchers, AnswerDocument(p)
  PROVE  /\ TreeInv' /\ last' \in Nat /\ last' >= last
         /\ \E m : /\ fetch' = [fetch EXCEPT ![p].state = "answered", ![p].root = number'[Doc], ![p].tree = m]
                   /\ MapOK(m, last') /\ number'[Doc] \in 0..last'
                   /\ \A i \in DOMAIN m : i > last
                   /\ Covers(m, kids', number', opened')
<1> DEFINE K == kids
           S == {Doc} \cup WithShadow(ToSet(kids[Doc].children))
           nums == Numbered(S, last, [n \in Nodes |-> 0])
           m == Fragment(S, kids, nums, {Doc})
<1>1. /\ number' = nums /\ last' = last + Cardinality(S) /\ opened' = {Doc} /\ kids' = kids
      /\ fetch' = [fetch EXCEPT ![p].state = "answered", ![p].root = nums[Doc], ![p].tree = m]
  BY DEF AnswerDocument
<1>2. WellFormed(K) /\ last \in Nat
  BY DEF TreeInv, ToldOK
<1>3. S = {Doc} \cup Fresh(K, ToSet(K[Doc]["children"]))
  BY DEF WithShadow, Fresh
<1> HIDE DEF S
<1>4. S \subseteq Nodes /\ Doc \in S
  BY <1>2, <1>3, FreshOnes, SlotNames
<1> DEFINE N == [n \in Nodes |-> 0]
<1>5. N = [n \in Nodes |-> 0] /\ Renumbers(S, last, N, nums)
  <2>1. [n \in Nodes |-> 0] \in [Nodes -> 0..last] /\ IsFiniteSet(S)
    BY <1>2, <1>4, NodesFinite
  <2> QED BY <1>2, <1>4, <2>1, NumbersGiven
<1> HIDE DEF nums, N
<1>6. /\ ToldOK(K, nums, {Doc}, last + Cardinality(S))
      /\ \A n \in Nodes : nums[n] # 0 <=> n \in S
      /\ \A n \in S : nums[n] > last
  <2>1. ToldOK(K, nums, {Doc}, last + Cardinality(S)) /\ Anew(S, nums, last)
    BY <1>2, <1>3, <1>5, ToldDocument
  <2> QED BY <2>1 DEF Anew
<1>7. TreeInv'
  BY <1>1, <1>2, <1>6 DEF TreeInv
<1>8. last' \in Nat /\ last' >= last /\ nums \in [Nodes -> 0..last']
  <2>1. Cardinality(S) \in Nat
    BY <1>4, NodesFinite, FS_CardinalityType
  <2> QED BY <1>1, <1>2, <1>6, <2>1 DEF ToldOK
<1>9. \A n \in S : nums[n] \in 1..last'
  BY <1>2, <1>4, <1>6, <1>8
<1>10. MapOK(m, last')
  BY <1>9, FragmentOK
<1>11. \A n, k \in S : nums[n] = nums[k] => n = k
  BY <1>4, <1>6 DEF ToldOK
<1>12. \A i \in DOMAIN m : i > last
  <2>1. Tells(S, K, nums, {Doc}, m)
    BY <1>11, FragmentIs
  <2> HIDE DEF m
  <2> QED BY <1>6, <2>1 DEF Tells
<1>13. Covers(m, K, nums, {Doc})
  BY <1>6, <1>11, CoversDocument
<1>14. nums[Doc] \in 0..last'
  BY <1>4, <1>8
<1> HIDE DEF m
<1> QED BY <1>1, <1>7, <1>8, <1>10, <1>12, <1>13, <1>14

\* A load leaves nothing told.
LEMMA LoadForgets ==
  ASSUME TreeInv, Commit \/ Loaded
  PROVE  TreeInv' /\ last' = last
<1>1. ToldOK(kids', number', opened', last) /\ WellFormed(kids') /\ last' = last
  <2>1. WellFormed(kids')
    <3>1. kids' \in Pages \/ kids' = kids
      BY DEF Commit, Loaded
    <3> QED BY <3>1, PagesFormed DEF TreeInv
  <2>2. last \in Nat
    BY DEF TreeInv, ToldOK
  <2>3. number' = [n \in Nodes |-> 0] /\ opened' = {} /\ last' = last
    BY DEF Commit, Loaded, Forget
  <2> QED BY <2>1, <2>2, <2>3, NothingTold
<1> QED BY <1>1 DEF TreeInv

-----------------------------------------------------------------------------
(* The client's state.                                                     *)

FrameOK(g, l) == DOMAIN g = {"root", "nodes", "fetched"} /\ g.root \in 0..l /\ MapOK(g.nodes, l)

FetchOK(g, l) ==
  /\ DOMAIN g = {"state", "frame", "root", "tree"} /\ g.state \in {"idle", "locking", "asked", "answered"}
  /\ g.state = "answered" => g.root \in 0..l /\ MapOK(g.tree, l)

QueueOK(q, l) == IsSeq(q) /\ \A i \in 1..Len(q) : EventOK(q[i], l)

FramesOK(fs, l) == IsSeq(fs) /\ \A f \in 1..Len(fs) : FrameOK(fs[f], l)

OpOK(o, l) == o # NoOp => o.event.type \in NodeEvents /\ EventOK(o.event, l)

FetchesOK(g, l) == DOMAIN g = Fetchers /\ \A p \in Fetchers : FetchOK(g[p], l)

RestOK ==
  /\ cur \in 0..Len(frames) /\ context \in BOOLEAN
  /\ attacher \in {"tree", "document", "fetching", "done"}
  /\ DOMAIN query = {"state", "frame", "root"} /\ query.state \in {"idle", "asked", "answered", "done"}

ClientInv ==
  QueueOK(queue, last) /\ FramesOK(frames, last) /\ OpOK(op, last) /\ FetchesOK(fetch, last) /\ RestOK

\* Ids Chrome has given stay given.
LEMMA Later ==
  ASSUME NEW l \in Nat, NEW k \in Nat, l <= k
  PROVE  /\ \A m : MapOK(m, l) => MapOK(m, k)
         /\ \A v : EventOK(v, l) => EventOK(v, k)
         /\ \A q : QueueOK(q, l) => QueueOK(q, k)
         /\ \A fs : FramesOK(fs, l) => FramesOK(fs, k)
         /\ \A o : OpOK(o, l) => OpOK(o, k)
         /\ \A g : FetchesOK(g, l) => FetchesOK(g, k)
<1>0. \A i : (i \in 1..l => i \in 1..k) /\ (i \in 0..l => i \in 0..k)
  OBVIOUS
<1>1. \A m : MapOK(m, l) => MapOK(m, k)
  BY <1>0 DEF MapOK
<1>2. \A v : EventOK(v, l) => EventOK(v, k)
  BY <1>0, <1>1 DEF EventOK
<1>3. \A g : FrameOK(g, l) => FrameOK(g, k)
  BY <1>0, <1>1 DEF FrameOK
<1>4. \A g : FetchOK(g, l) => FetchOK(g, k)
  BY <1>0, <1>1 DEF FetchOK
<1>5. \A q : QueueOK(q, l) => QueueOK(q, k)
  BY <1>2 DEF QueueOK
<1>6. \A fs : FramesOK(fs, l) => FramesOK(fs, k)
  BY <1>3 DEF FramesOK
<1>7. \A o : OpOK(o, l) => OpOK(o, k)
  BY <1>2 DEF OpOK
<1>8. \A g : FetchesOK(g, l) => FetchesOK(g, k)
  BY <1>4 DEF FetchesOK
<1> QED BY <1>1, <1>2, <1>5, <1>6, <1>7, <1>8

\* The types of the queue with an event more, …
LEMMA QueueLonger ==
  ASSUME NEW l, NEW q, QueueOK(q, l), NEW v, EventOK(v, l)
  PROVE  QueueOK(Append(q, v), l)
<1> DEFINE r == Append(q, v)
<1>1. Appended(q, v, r)
  BY AppendIs DEF QueueOK
<1> HIDE DEF r
<1>2. ASSUME NEW i \in 1..Len(r) PROVE EventOK(r[i], l)
  <2>1. i = Len(q) + 1 \/ i \in 1..Len(q)
    BY <1>1 DEF Appended
  <2> QED BY <1>1, <2>1 DEF Appended, QueueOK
<1>3. QueueOK(r, l)
  BY <1>1, <1>2 DEF QueueOK, Appended
<1> QED BY <1>3 DEF r

\* … and with one less.
LEMMA QueueShorter ==
  ASSUME NEW l, NEW q, QueueOK(q, l), q # <<>>
  PROVE  QueueOK(Tail(q), l) /\ EventOK(Head(q), l)
<1>1. Headless(q, Tail(q))
  BY TailIs DEF QueueOK
<1>2. \A i \in 1..Len(Tail(q)) : EventOK(Tail(q)[i], l)
  BY <1>1 DEF Headless, QueueOK
<1>3. EventOK(Head(q), l)
  BY <1>1 DEF Headless, QueueOK
<1> QED BY <1>1, <1>2, <1>3 DEF QueueOK, Headless

\* The types of the frames with a new one, …
LEMMA FramesMore ==
  ASSUME NEW l \in Nat, FramesOK(frames, l)
  PROVE  /\ FramesOK(Append(frames, NoFrame), l)
         /\ Len(Append(frames, NoFrame)) \in 0..Len(Append(frames, NoFrame))
         /\ \A f \in 1..Len(frames) : Append(frames, NoFrame)[f] = frames[f]
<1> DEFINE r == Append(frames, NoFrame)
<1>1. Appended(frames, NoFrame, r)
  BY AppendIs DEF FramesOK
<1> HIDE DEF r
<1>2. FrameOK(NoFrame, l)
  BY DEF FrameOK, NoFrame, MapOK
<1>3. ASSUME NEW i \in 1..Len(r) PROVE FrameOK(r[i], l)
  <2>1. i = Len(frames) + 1 \/ i \in 1..Len(frames)
    BY <1>1 DEF Appended
  <2> QED BY <1>1, <1>2, <2>1 DEF Appended, FramesOK
<1>4. FramesOK(r, l) /\ Len(r) \in 0..Len(r) /\ \A f \in 1..Len(frames) : r[f] = frames[f]
  BY <1>1, <1>3 DEF FramesOK, Appended
<1> QED BY <1>4 DEF r

\* s with x at i.
Rewritten(s, i, x, r) == IsSeq(r) /\ Len(r) = Len(s) /\ DOMAIN s = 1..Len(s) /\ \A j \in 1..Len(s) : r[j] = IF j = i THEN x ELSE s[j]

\* A sequence with one element replaced.
LEMMA ExceptIs ==
  ASSUME NEW s, IsSeq(s), NEW i, NEW x
  PROVE  Rewritten(s, i, x, [s EXCEPT ![i] = x])
<1>1. PICK S : s \in Seq(S)
  BY DEF IsSeq
<1>2. Len(s) \in Nat /\ s \in [1..Len(s) -> S] /\ DOMAIN s = 1..Len(s)
  BY <1>1, LenProperties
<1> DEFINE r == [s EXCEPT ![i] = x]
<1>3. r \in [1..Len(s) -> S \cup {x}] /\ \A j \in 1..Len(s) : r[j] = IF j = i THEN x ELSE s[j]
  BY <1>2
<1> HIDE DEF r
<1>4. r \in Seq(S \cup {x}) /\ Len(r) = Len(s)
  BY <1>2, <1>3
<1>5. Rewritten(s, i, x, r)
  BY <1>2, <1>3, <1>4 DEF Rewritten, IsSeq
<1> QED BY <1>5 DEF r

\* … and with one rewritten.
LEMMA FramesRewritten ==
  ASSUME NEW l, FramesOK(frames, l), NEW f, NEW g, f \in 1..Len(frames) => FrameOK(g, l)
  PROVE  FramesOK([frames EXCEPT ![f] = g], l) /\ Len([frames EXCEPT ![f] = g]) = Len(frames)
<1> DEFINE r == [frames EXCEPT ![f] = g]
<1>1. Rewritten(frames, f, g, r)
  BY ExceptIs DEF FramesOK
<1> HIDE DEF r
<1>2. FramesOK(r, l) /\ Len(r) = Len(frames)
  BY <1>1 DEF Rewritten, FramesOK
<1> QED BY <1>2 DEF r

\* An event keeps a map's type.
LEMMA AppliedOK ==
  ASSUME NEW l, NEW m, MapOK(m, l), NEW v, v.type \in NodeEvents, EventOK(v, l)
  PROVE  MapOK(Applied(m, v), l)
<1>1. CASE v.type = "set"
  <2> DEFINE y == [m EXCEPT ![v.at].children = v.nodes]
  <2>1. MapOK(y, l) /\ MapOK(v.tree, l)
    BY <1>1 DEF MapOK, EventOK
  <2>2. Applied(m, v) = Over(v.tree, y)
    BY <1>1 DEF Applied
  <2>3. Lies(v.tree, y, Over(v.tree, y))
    BY OverIs
  <2> HIDE DEF y
  <2> QED BY <2>1, <2>2, <2>3 DEF Lies, MapOK
<1>2. CASE v.type = "insert"
  <2> DEFINE y == [m EXCEPT ![v.at][v.slot] = IF v.slot = "shadow" THEN Append(@, v.node) ELSE InsertNode(@, v.prev, v.node)]
  <2>1. MapOK(y, l) /\ MapOK(v.tree, l)
    BY <1>2 DEF MapOK, EventOK
  <2>2. Applied(m, v) = Over(v.tree, y)
    BY <1>2 DEF Applied
  <2>3. Lies(v.tree, y, Over(v.tree, y))
    BY OverIs
  <2> HIDE DEF y
  <2> QED BY <2>1, <2>2, <2>3 DEF Lies, MapOK
<1>3. CASE v.type = "remove"
  <2>1. Applied(m, v) = [i \in DOMAIN m \ {v.node} |->
            IF i = v.at THEN [m[v.at] EXCEPT ![v.slot] = RemoveNode(@, v.node)] ELSE m[i]]
    BY <1>3 DEF Applied
  <2> QED BY <2>1 DEF MapOK
<1> QED BY <1>1, <1>2, <1>3 DEF NodeEvents

TypeInv == TreeInv /\ ClientInv

\* The types hold at first, …
LEMMA InitTypes == Init => TypeInv
<1> SUFFICES ASSUME Init PROVE TypeInv
  OBVIOUS
<1> USE DEF Init
<1>1. TreeInv
  <2>1. kids \in Pages
    BY DEF Pages
  <2>2. WellFormed(kids)
    BY <2>1, PagesFormed
  <2> QED BY <2>2, NothingTold DEF TreeInv
<1>2. QueueOK(queue, last)
  <2>1. IsSeq(<<>>) /\ IsSeq(<<[type |-> "context"]>>)
    <3>1. <<>> \in Seq({}) /\ <<[type |-> "context"]>> \in Seq({[type |-> "context"]})
      OBVIOUS
    <3> QED BY <3>1 DEF IsSeq
  <2>2. CASE queue = <<>>
    BY <2>1, <2>2 DEF QueueOK
  <2>3. CASE queue = <<[type |-> "context"]>>
    BY <2>1, <2>3 DEF QueueOK, EventOK, NodeEvents
  <2> QED BY <2>2, <2>3
<1>3. FramesOK(frames, last) /\ cur \in 0..Len(frames)
  <2>1. <<>> \in Seq({})
    OBVIOUS
  <2> QED BY <2>1 DEF FramesOK, IsSeq
<1>4. FetchesOK(fetch, last)
  BY DEF FetchesOK, FetchOK, Resting
<1>5. OpOK(op, last) /\ RestOK
  BY <1>3 DEF OpOK, RestOK
<1> QED BY <1>1, <1>2, <1>3, <1>4, <1>5 DEF TypeInv, ClientInv

\* … through what Chrome tells, …
LEMMA MovedTypes ==
  ASSUME TypeInv, Moved, UNCHANGED <<mirror, fetch, attacher>>,
         RestOK => RestOK'
  PROVE  TypeInv'
<1>1. last \in Nat /\ last' \in Nat /\ last <= last' /\ TreeInv' /\ ClientInv
  BY DEF Moved, TypeInv, TreeInv, ToldOK
<1>2. QueueOK(queue, last') /\ FramesOK(frames, last') /\ OpOK(op, last') /\ FetchesOK(fetch, last')
  BY <1>1, Later DEF ClientInv
<1>3. QueueOK(queue', last')
  <2>1. CASE queue' = queue
    BY <1>2, <2>1
  <2>2. CASE queue' # queue
    <3>1. PICK v : queue' = Append(queue, v) /\ EventOK(v, last')
      BY <2>2 DEF Moved
    <3> QED BY <1>2, <3>1, QueueLonger
  <2> QED BY <2>1, <2>2
<1>4. frames' = frames /\ op' = op /\ fetch' = fetch
  BY DEF mirror
<1> QED BY <1>1, <1>2, <1>3, <1>4 DEF TypeInv, ClientInv

\* … when the handler takes an event, …
LEMMA TakenTypes ==
  ASSUME TypeInv, NEW t, Take(t)
  PROVE  QueueOK(queue', last)
BY QueueShorter DEF Take, TypeInv, ClientInv

\* … and through every step.
LEMMA TypeStep == TypeInv /\ [Next]_vars => TypeInv'
<1> SUFFICES ASSUME TypeInv, [Next]_vars PROVE TypeInv'
  OBVIOUS
<1>0. /\ TreeInv /\ ClientInv /\ last \in Nat
      /\ QueueOK(queue, last) /\ FramesOK(frames, last) /\ OpOK(op, last) /\ FetchesOK(fetch, last) /\ RestOK
  BY DEF TypeInv, ClientInv, TreeInv, ToldOK
<1>t. UNCHANGED chrome => TreeInv' /\ last' = last
  BY <1>0 DEF chrome, TreeInv
<1>1. CASE FrameNavigated
  <2>1. frames' = Append(frames, NoFrame) /\ cur' = Len(frames') /\ UNCHANGED <<chrome, context, op, fetch, attacher, query>> /\ QueueOK(queue', last)
    BY <1>1, TakenTypes DEF FrameNavigated
  <2>2. FramesOK(frames', last) /\ cur' \in 0..Len(frames')
    BY <1>0, <2>1, FramesMore
  <2> QED BY <1>0, <1>t, <2>1, <2>2 DEF TypeInv, ClientInv, RestOK
<1>2. CASE ContextsCleared \/ ContextCreated
  <2>1. context' \in BOOLEAN /\ UNCHANGED <<chrome, frames, cur, op, fetch, attacher, query>> /\ QueueOK(queue', last)
    BY <1>2, TakenTypes DEF ContextsCleared, ContextCreated
  <2> QED BY <1>0, <1>t, <2>1 DEF TypeInv, ClientInv, RestOK
<1>3. CASE DocumentUpdated
  <2>1. UNCHANGED <<chrome, mirror, attacher, query>> /\ QueueOK(queue', last)
    BY <1>3, TakenTypes DEF DocumentUpdated
  <2>2. FetchesOK(fetch', last)
    <3>1. CASE cur = 0
      BY <1>0, <1>3, <3>1 DEF DocumentUpdated
    <3>2. CASE cur # 0
      <4> DEFINE g == [Resting EXCEPT !.state = "locking", !.frame = cur]
      <4>1. fetch' = [fetch EXCEPT !["handler"] = g]
        BY <1>3, <3>2 DEF DocumentUpdated
      <4>2. FetchOK(g, last)
        BY DEF FetchOK, Resting
      <4> HIDE DEF g
      <4> QED BY <1>0, <4>1, <4>2 DEF FetchesOK
    <3> QED BY <3>1, <3>2
  <2> QED BY <1>0, <1>t, <2>1, <2>2 DEF TypeInv, ClientInv, RestOK, mirror
<1>4. CASE LookUp
  <2>1. /\ queue # <<>> /\ Head(queue).type \in NodeEvents /\ queue' = Tail(queue)
        /\ op'.event = Head(queue) /\ UNCHANGED <<chrome, frames, cur, context, fetch, attacher, query>>
    BY <1>4 DEF LookUp, NodeEvents
  <2>2. QueueOK(queue', last) /\ OpOK(op', last)
    BY <1>0, <2>1, QueueShorter DEF OpOK
  <2> QED BY <1>0, <1>t, <2>1, <2>2 DEF TypeInv, ClientInv, RestOK
<1>5. CASE Drop
  <2>1. UNCHANGED <<chrome, mirror, fetch, attacher, query>> /\ QueueOK(queue', last)
    BY <1>0, <1>5, QueueShorter DEF Drop
  <2> QED BY <1>0, <1>t, <2>1 DEF TypeInv, ClientInv, RestOK, mirror
<1>6. CASE Apply
  <2>1. op # NoOp /\ op' = NoOp /\ UNCHANGED <<chrome, queue, cur, context, fetch, attacher, query>>
    BY <1>6 DEF Apply
  <2>2. FramesOK(frames', last) /\ Len(frames') = Len(frames)
    <3>1. CASE frames' = frames
      BY <1>0, <3>1
    <3>2. CASE frames' # frames
      <4> DEFINE g == [frames[op.frame] EXCEPT !.nodes = Applied(@, op.event)]
      <4>1. frames' = [frames EXCEPT ![op.frame] = g]
        BY <1>6, <3>2 DEF Apply
      <4>2. op.frame \in 1..Len(frames) => FrameOK(g, last)
        BY <1>0, <2>1, AppliedOK DEF FrameOK, FramesOK, OpOK
      <4> HIDE DEF g
      <4> QED BY <1>0, <4>1, <4>2, FramesRewritten
    <3> QED BY <3>1, <3>2
  <2> QED BY <1>0, <1>t, <2>1, <2>2 DEF TypeInv, ClientInv, RestOK, OpOK
<1>7. ASSUME NEW p \in Fetchers, LockFrame(p) PROVE TypeInv'
  <2> DEFINE f == fetch[p].frame
             g == [frames[f] EXCEPT !.nodes = <<>>, !.fetched = @ + 1]
             h == [fetch[p] EXCEPT !.state = "asked"]
  <2>1. /\ frames' = [frames EXCEPT ![f] = g] /\ fetch' = [fetch EXCEPT ![p] = h]
        /\ UNCHANGED <<chrome, queue, cur, context, op, attacher, query>>
    BY <1>7 DEF LockFrame
  <2>2. f \in 1..Len(frames) => FrameOK(g, last)
    BY <1>0 DEF FrameOK, FramesOK, MapOK
  <2>3. FetchOK(h, last)
    BY <1>0 DEF FetchOK, FetchesOK
  <2> HIDE DEF g, h
  <2>4. FramesOK(frames', last) /\ Len(frames') = Len(frames)
    BY <1>0, <2>1, <2>2, FramesRewritten
  <2>5. FetchesOK(fetch', last)
    BY <1>0, <2>1, <2>3 DEF FetchesOK
  <2> QED BY <1>0, <1>t, <2>1, <2>4, <2>5 DEF TypeInv, ClientInv, RestOK
<1>8. ASSUME NEW p \in Fetchers, TakeDocument(p) PROVE TypeInv'
  <2> DEFINE f == fetch[p].frame
             g == [frames[f] EXCEPT !.root = fetch[p].root, !.nodes = fetch[p].tree]
  <2>1. /\ fetch[p].state = "answered" /\ frames' = [frames EXCEPT ![f] = g] /\ fetch' = [fetch EXCEPT ![p] = Resting]
        /\ attacher' \in {attacher, "done"}
        /\ UNCHANGED <<chrome, queue, cur, context, op, query>>
    BY <1>8 DEF TakeDocument
  <2>2. f \in 1..Len(frames) => FrameOK(g, last)
    BY <1>0, <2>1 DEF FrameOK, FramesOK, FetchesOK, FetchOK
  <2>3. FetchOK(Resting, last)
    BY DEF FetchOK, Resting
  <2> HIDE DEF g
  <2>4. FramesOK(frames', last) /\ Len(frames') = Len(frames)
    <3>1. FramesOK(frames, last) /\ frames' = [frames EXCEPT ![f] = g]
      BY <1>0, <2>1
    <3> HIDE DEF f
    <3> QED BY <2>2, <3>1, FramesRewritten
  <2>5. FetchesOK(fetch', last)
    BY <1>0, <2>1, <2>3 DEF FetchesOK
  <2> QED BY <1>0, <1>t, <2>1, <2>4, <2>5 DEF TypeInv, ClientInv, RestOK
<1>9. CASE LoadFrameTree
  <2>1. frames' = Append(frames, NoFrame) /\ cur' = Len(frames') /\ attacher' = "document" /\ UNCHANGED <<chrome, queue, context, op, fetch, query>>
    BY <1>9 DEF LoadFrameTree
  <2>2. FramesOK(frames', last) /\ cur' \in 0..Len(frames')
    BY <1>0, <2>1, FramesMore
  <2> QED BY <1>0, <1>t, <2>1, <2>2 DEF TypeInv, ClientInv, RestOK
<1>10. CASE LoadDocument
  <2> DEFINE g == [Resting EXCEPT !.state = "locking", !.frame = cur]
  <2>1. fetch' = [fetch EXCEPT !["attacher"] = g] /\ attacher' = "fetching" /\ UNCHANGED <<chrome, queue, mirror, query>>
    BY <1>10 DEF LoadDocument
  <2>2. FetchOK(g, last)
    BY DEF FetchOK, Resting
  <2> HIDE DEF g
  <2>3. FetchesOK(fetch', last)
    BY <1>0, <2>1, <2>2 DEF FetchesOK
  <2> QED BY <1>0, <1>t, <2>1, <2>3 DEF TypeInv, ClientInv, RestOK, mirror
<1>11. ASSUME NEW p \in Fetchers, AnswerDocument(p) PROVE TypeInv'
  <2>1. TreeInv' /\ last' \in Nat /\ last <= last'
    BY <1>0, <1>11, DocumentTold
  <2>2. PICK m : /\ fetch' = [fetch EXCEPT ![p].state = "answered", ![p].root = number'[Doc], ![p].tree = m]
                 /\ MapOK(m, last') /\ number'[Doc] \in 0..last'
    BY <1>0, <1>11, DocumentTold
  <2> DEFINE g == [fetch[p] EXCEPT !.state = "answered", !.root = number'[Doc], !.tree = m]
  <2>3. fetch' = [fetch EXCEPT ![p] = g]
    BY <2>2
  <2>4. FetchOK(g, last')
    BY <1>0, <2>2 DEF FetchOK, FetchesOK
  <2> HIDE DEF g
  <2>5. QueueOK(queue, last') /\ FramesOK(frames, last') /\ OpOK(op, last') /\ FetchesOK(fetch, last')
    BY <1>0, <2>1, Later
  <2>6. FetchesOK(fetch', last')
    BY <2>3, <2>4, <2>5 DEF FetchesOK
  <2>7. UNCHANGED <<queue, mirror, attacher, query>>
    BY <1>11 DEF AnswerDocument
  <2> QED BY <1>0, <2>1, <2>5, <2>6, <2>7 DEF TypeInv, ClientInv, RestOK, mirror
<1>12. CASE AnswerQuery
  <2>1. Moved
    BY <1>0, <1>12, QueryMoves
  <2>2. UNCHANGED <<mirror, fetch, attacher>>
    BY <1>12 DEF AnswerQuery
  <2>3. RestOK'
    <3>1. DOMAIN query' = DOMAIN query /\ query'.state = "answered"
      BY <1>0, <1>12 DEF AnswerQuery, RestOK
    <3> QED BY <1>0, <2>2, <3>1 DEF RestOK, mirror
  <2> QED BY <2>1, <2>2, <2>3, MovedTypes
<1>13. CASE Commit \/ Loaded
  <2>1. TreeInv' /\ last' = last
    BY <1>0, <1>13, LoadForgets
  <2>2. UNCHANGED <<mirror, fetch, attacher, query>>
    BY <1>13 DEF Commit, Loaded
  <2>3. QueueOK(queue', last)
    <3> DEFINE c == [type |-> "cleared"]
               n == [type |-> "navigated"]
               x == [type |-> "context"]
               u == [type |-> "updated"]
    <3>1. EventOK(c, last) /\ EventOK(n, last) /\ EventOK(x, last) /\ EventOK(u, last)
      BY DEF EventOK, NodeEvents
    <3>2. CASE Loaded
      <4>1. queue' = Append(queue, u)
        BY <3>2 DEF Loaded
      <4> QED BY <1>0, <3>1, <4>1, QueueLonger
    <3>3. CASE Commit
      <4>1. queue' = queue \o <<c, n, x>>
        BY <3>3 DEF Commit
      <4> HIDE DEF c, n, x
      <4>2. queue' = Append(Append(Append(queue, c), n), x)
        BY <1>0, <4>1, ThreeAppended DEF QueueOK
      <4>3. QueueOK(Append(queue, c), last)
        BY <1>0, <3>1, QueueLonger
      <4>4. QueueOK(Append(Append(queue, c), n), last)
        BY <3>1, <4>3, QueueLonger
      <4> QED BY <3>1, <4>2, <4>4, QueueLonger
    <3> QED BY <1>13, <3>2, <3>3
  <2> QED BY <1>0, <2>1, <2>2, <2>3 DEF TypeInv, ClientInv, RestOK, mirror
<1>14. ASSUME NEW e \in Elements, RemoveElement(e) PROVE TypeInv'
  <2>1. Moved
    BY <1>0, <1>14, RemoveMoves
  <2>2. UNCHANGED <<mirror, fetch, attacher, query>>
    BY <1>14 DEF RemoveElement
  <2>3. RestOK => RestOK'
    BY <2>2 DEF RestOK, mirror
  <2> QED BY <2>1, <2>2, <2>3, MovedTypes
<1>15. ASSUME NEW e \in Elements, NEW p \in Nodes, NEW i, InsertElement(e, p, i) PROVE TypeInv'
  <2>1. Moved
    BY <1>0, <1>15, InsertMoves
  <2>2. UNCHANGED <<mirror, fetch, attacher, query>>
    BY <1>15 DEF InsertElement
  <2>3. RestOK => RestOK'
    BY <2>2 DEF RestOK, mirror
  <2> QED BY <2>1, <2>2, <2>3, MovedTypes
<1>16. CASE AskQuery \/ TakeAnswer
  <2>1. UNCHANGED <<chrome, queue, mirror, fetch, attacher>>
    BY <1>16 DEF AskQuery, TakeAnswer
  <2>2. DOMAIN query' = DOMAIN query /\ query'.state \in {"asked", "done", "idle"}
    BY <1>0, <1>16 DEF AskQuery, TakeAnswer, RestOK
  <2> QED BY <1>0, <1>t, <2>1, <2>2 DEF TypeInv, ClientInv, RestOK, mirror
<1>17. CASE UNCHANGED vars
  BY <1>0, <1>t, <1>17 DEF TypeInv, ClientInv, RestOK, mirror, vars
<1> QED
  BY <1>1, <1>2, <1>3, <1>4, <1>5, <1>6, <1>7, <1>8, <1>9, <1>10, <1>11, <1>12, <1>13, <1>14, <1>15, <1>16, <1>17
  DEF Next, Handler, Attacher, Answering, Page, Querier, Fetchers

\* The Target's state has its shape, and every id the client holds, in its frames, in an
\* event or in an answer, is one that Chrome has given (target.go, util.go): none of the
\* node operations makes an id up.
THEOREM TypeCorrect == Spec => []TypeOK
<1>1. TypeInv => TypeOK
  <2> SUFFICES ASSUME TypeInv PROVE TypeOK
    OBVIOUS
  <2>1. FramesOK(frames, last) /\ RestOK /\ ToldOK(kids, number, opened, last)
    BY DEF TypeInv, ClientInv, TreeInv
  <2>2. DOMAIN frames = 1..Len(frames)
    <3>1. PICK S : frames \in Seq(S)
      BY <2>1 DEF FramesOK, IsSeq
    <3> QED BY <3>1, LenProperties
  <2>3. (\A n \in Nodes : number[n] \in 0..last) /\ opened \subseteq Known
    BY <2>1 DEF ToldOK, Known
  <2>4. \A f \in DOMAIN frames :
          /\ frames[f].root \in 0..last /\ DOMAIN frames[f].nodes \subseteq 1..last
          /\ \A i \in DOMAIN frames[f].nodes : DOMAIN frames[f].nodes[i] = Slots
    BY <2>1, <2>2 DEF FramesOK, FrameOK, MapOK
  <2> QED BY <2>1, <2>3, <2>4 DEF TypeOK, RestOK
<1> QED BY <1>1, InitTypes, TypeStep, PTL DEF Spec

-----------------------------------------------------------------------------
(* Where the loads, the documents and the handler stand, for a page that   *)
(* existed before and changes only once newTarget has its document.        *)

\* Behind the start of every document in the queue is its end, unless it is yet to come.
Ends(q, coming) ==
  \A i \in 1..Len(q) : q[i].type = "navigated" => coming \/ \E j \in 1..Len(q) : j > i /\ q[j].type = "updated"

\* The queue tells of a document the client is still to ask for.
Awaits(q) == \E i \in 1..Len(q) : q[i].type \in {"navigated", "updated"}

Contexts == <<[type |-> "context"]>>

Attaching ==
  /\ fetch["attacher"].state # "idle" <=> attacher = "fetching"
  /\ attacher # "done" =>
       /\ Quiet /\ op = NoOp /\ queue \in {<<>>, Contexts} /\ ~loading
       /\ fetch["handler"].state = "idle" /\ query.state = "idle"
  /\ attacher = "fetching" => fetch["attacher"].frame = cur

HandlerInv ==
  /\ fetch["handler"].state # "idle" => op = NoOp /\ fetch["handler"].frame = cur
  /\ op # NoOp => op.frame = cur /\ cur # 0 /\ op.fetched = frames[cur].fetched

Order == Attaching /\ HandlerInv /\ Ends(queue, loading)

\* Ends and Awaits with an event more, …
LEMMA MoreEvents ==
  ASSUME NEW q, IsSeq(q), NEW v, NEW r, r = Append(q, v), NEW b, Ends(q, b)
  PROVE  /\ v.type # "navigated" => Ends(r, b)
         /\ v.type = "updated" => Ends(r, FALSE) /\ Awaits(r)
         /\ Awaits(q) => Awaits(r)
<1>1. Appended(q, v, r)
  BY AppendIs
<1>2. Len(q) \in Nat /\ Len(r) = Len(q) + 1 /\ r[Len(r)] = v /\ \A i \in 1..Len(q) : r[i] = q[i]
  BY <1>1 DEF Appended
<1>3. Len(r) \in 1..Len(r) /\ \A i \in 1..Len(r) : i = Len(r) \/ (i \in 1..Len(q) /\ Len(r) > i)
  BY <1>2
<1>4. \A i \in 1..Len(q) : i \in 1..Len(r)
  BY <1>2
<1>5. ASSUME v.type # "navigated" PROVE Ends(r, b)
  <2>1. ASSUME NEW i \in 1..Len(r), r[i].type = "navigated", ~b
        PROVE  \E j \in 1..Len(r) : j > i /\ r[j].type = "updated"
    <3>1. i \in 1..Len(q) /\ q[i].type = "navigated"
      BY <1>2, <1>3, <1>5, <2>1
    <3>2. PICK j \in 1..Len(q) : j > i /\ q[j].type = "updated"
      BY <2>1, <3>1 DEF Ends
    <3> QED BY <1>2, <1>4, <3>2
  <2> QED BY <2>1 DEF Ends
<1>6. ASSUME v.type = "updated" PROVE Ends(r, FALSE) /\ Awaits(r)
  <2>1. \A i \in 1..Len(r) : r[i].type = "navigated" => Len(r) > i
    BY <1>2, <1>3, <1>6
  <2> QED BY <1>2, <1>3, <1>6, <2>1 DEF Ends, Awaits
<1>7. Awaits(q) => Awaits(r)
  BY <1>2, <1>4 DEF Awaits
<1> QED BY <1>5, <1>6, <1>7

\* … and with one less.
LEMMA FewerEvents ==
  ASSUME NEW q, IsSeq(q), q # <<>>, NEW b, Ends(q, b)
  PROVE  /\ Ends(Tail(q), b)
         /\ Awaits(q) => Awaits(Tail(q)) \/ Head(q).type \in {"navigated", "updated"}
         /\ Head(q).type = "navigated" => b \/ Awaits(Tail(q))
<1> DEFINE r == Tail(q)
<1>1. Headless(q, r)
  BY TailIs
<1> HIDE DEF r
<1>2. /\ Len(q) \in Nat /\ Len(q) >= 1 /\ Len(r) = Len(q) - 1 /\ Head(q) = q[1]
      /\ \A i \in 1..Len(r) : r[i] = q[i + 1] /\ i + 1 \in 1..Len(q)
  BY <1>1 DEF Headless
<1>3. ASSUME NEW j \in 1..Len(q), j > 1 PROVE j - 1 \in 1..Len(r) /\ r[j - 1] = q[j]
  <2>1. j - 1 \in 1..Len(r) /\ (j - 1) + 1 = j
    BY <1>2, <1>3
  <2> QED BY <1>2, <2>1
<1>4. ASSUME NEW i \in 1..Len(r), r[i].type = "navigated", ~b
      PROVE  \E j \in 1..Len(r) : j > i /\ r[j].type = "updated"
  <2>1. i + 1 \in 1..Len(q) /\ q[i + 1].type = "navigated"
    BY <1>2, <1>4
  <2>2. PICK j \in 1..Len(q) : j > i + 1 /\ q[j].type = "updated"
    BY <1>4, <2>1 DEF Ends
  <2>3. j > 1 /\ j - 1 > i
    BY <2>2
  <2> QED BY <1>3, <2>2, <2>3
<1>5. Ends(r, b)
  BY <1>4 DEF Ends
<1>6. ASSUME Awaits(q), Head(q).type \notin {"navigated", "updated"} PROVE Awaits(r)
  <2>1. PICK i \in 1..Len(q) : q[i].type \in {"navigated", "updated"}
    BY <1>6 DEF Awaits
  <2>2. i > 1
    BY <1>2, <1>6, <2>1
  <2> QED BY <1>3, <2>1, <2>2 DEF Awaits
<1>7. ASSUME Head(q).type = "navigated", ~b PROVE Awaits(r)
  <2>1. 1 \in 1..Len(q)
    BY <1>2
  <2>2. PICK j \in 1..Len(q) : j > 1 /\ q[j].type = "updated"
    BY <1>2, <1>7, <2>1 DEF Ends
  <2> QED BY <1>3, <2>2 DEF Awaits
<1>8. /\ Ends(r, b)
      /\ Awaits(q) => Awaits(r) \/ Head(q).type \in {"navigated", "updated"}
      /\ Head(q).type = "navigated" => b \/ Awaits(r)
  BY <1>5, <1>6, <1>7
<1> QED BY <1>8 DEF r

\* While newTarget loads a document the handler may take only the context's event.
LEMMA OnlyContexts ==
  ASSUME NEW q, q \in {<<>>, Contexts}, q # <<>>
  PROVE  Head(q).type = "context" /\ Tail(q) = <<>>
<1>1. q = <<[type |-> "context"]>>
  BY DEF Contexts
<1>2. Head(q) = [type |-> "context"]
  BY <1>1
<1>3. Tail(q) = <<>>
  BY <1>1
<1> QED BY <1>2, <1>3

\* At first newTarget is to load its frame tree, or there is nothing to load.
LEMMA InitOrder == Init /\ (Quiet \/ ~Attach) => Order
<1> SUFFICES ASSUME Init, Quiet \/ ~Attach PROVE Order
  OBVIOUS
<1>1. /\ attacher \in {"tree", "done"} /\ (attacher = "tree" => Attach) /\ op = NoOp /\ ~loading
      /\ queue \in {<<>>, Contexts} /\ fetch["attacher"].state = "idle" /\ fetch["handler"].state = "idle" /\ query.state = "idle"
  BY DEF Init, Fetchers, Resting, Contexts
<1>2. Attaching /\ HandlerInv
  BY <1>1 DEF Attaching, HandlerInv
<1>3. Ends(queue, loading)
  <2>1. CASE queue = <<>>
    BY <2>1 DEF Ends
  <2>2. CASE queue = <<[type |-> "context"]>>
    BY <2>2 DEF Ends
  <2> QED BY <1>1, <2>1, <2>2 DEF Contexts
<1> QED BY <1>2, <1>3 DEF Order

\* What Chrome does of itself.
LEMMA PageOrder ==
  ASSUME TypeInv, Order, Moved, UNCHANGED <<mirror, fetch, attacher, loading>>,
         (Stirs /\ UNCHANGED query) \/ query.state = "asked"
  PROVE  Order'
<1>0. Attaching /\ HandlerInv /\ Ends(queue, loading) /\ IsSeq(queue)
  BY DEF Order, TypeInv, ClientInv, QueueOK
<1>1. UNCHANGED <<frames, cur, context, op, fetch, attacher, loading>>
  BY DEF mirror
<1>2. attacher = "done"
  BY <1>0 DEF Attaching, Stirs
<1>3. Ends(queue', loading')
  <2>1. CASE queue' = queue
    BY <1>0, <1>1, <2>1
  <2>2. CASE queue' # queue
    <3>1. PICK v : queue' = Append(queue, v) /\ v.type \in NodeEvents
      BY <2>2 DEF Moved
    <3>2. v.type # "navigated"
      BY <3>1 DEF NodeEvents
    <3> QED BY <1>0, <1>1, <3>1, <3>2, MoreEvents
  <2> QED BY <2>1, <2>2
<1>4. Attaching'
  BY <1>0, <1>1, <1>2 DEF Attaching
<1>5. HandlerInv'
  BY <1>0, <1>1 DEF HandlerInv
<1> QED BY <1>3, <1>4, <1>5 DEF Order

\* The handler takes the first event.
LEMMA HandlerTakes ==
  ASSUME TypeInv, Order, queue # <<>>, HandlerFree, queue' = Tail(queue), UNCHANGED <<chrome, attacher, query>>
  PROVE  /\ Ends(queue', loading')
         /\ attacher # "done" => Head(queue).type = "context" /\ queue' = <<>>
         /\ op = NoOp /\ fetch["handler"].state = "idle"
         /\ Awaits(queue) => Awaits(queue') \/ Head(queue).type \in {"navigated", "updated"}
         /\ Head(queue).type = "navigated" => loading' \/ Awaits(queue')
         /\ Headless(queue, queue') /\ IsSeq(queue)
<1>1. Attaching /\ HandlerInv /\ Ends(queue, loading) /\ IsSeq(queue) /\ loading' = loading
  BY DEF Order, TypeInv, ClientInv, QueueOK, chrome
<1>2. attacher # "done" => Head(queue).type = "context" /\ queue' = <<>>
  BY <1>1, OnlyContexts DEF Attaching
<1>3. /\ Ends(queue', loading') /\ (Awaits(queue) => Awaits(queue') \/ Head(queue).type \in {"navigated", "updated"})
      /\ (Head(queue).type = "navigated" => loading' \/ Awaits(queue'))
  BY <1>1, FewerEvents
<1> QED BY <1>1, <1>2, <1>3, TailIs DEF HandlerFree

\* Every step keeps the order.
LEMMA OrderStep == TypeInv /\ Order /\ [Next]_vars => Order'
<1> SUFFICES ASSUME TypeInv, Order, [Next]_vars PROVE Order'
  OBVIOUS
<1>0. /\ Attaching /\ HandlerInv /\ Ends(queue, loading) /\ IsSeq(queue) /\ IsSeq(frames)
      /\ FramesOK(frames, last) /\ DOMAIN fetch = Fetchers /\ TreeInv /\ cur \in 0..Len(frames)
      /\ "handler" \in Fetchers /\ "attacher" \in Fetchers
  BY DEF Order, TypeInv, ClientInv, QueueOK, FramesOK, FetchesOK, RestOK, Fetchers
<1>t. ASSUME NEW t, Take(t) PROVE queue # <<>> /\ HandlerFree /\ queue' = Tail(queue) /\ Head(queue).type = t
  BY <1>t DEF Take
<1>1. CASE FrameNavigated
  <2>1. Take("navigated") /\ UNCHANGED <<chrome, op, fetch, attacher, query>>
    BY <1>1 DEF FrameNavigated
  <2>2. Ends(queue', loading') /\ attacher = "done" /\ op = NoOp /\ fetch["handler"].state = "idle"
    BY <1>t, <2>1, HandlerTakes
  <2>3. Attaching' /\ HandlerInv'
    BY <1>0, <2>1, <2>2 DEF Attaching, HandlerInv
  <2> QED BY <2>2, <2>3 DEF Order
<1>2. CASE ContextsCleared \/ ContextCreated
  <2>1. (Take("cleared") \/ Take("context")) /\ UNCHANGED <<chrome, frames, cur, op, fetch, attacher, query>>
    BY <1>2 DEF ContextsCleared, ContextCreated
  <2>2. Ends(queue', loading') /\ (attacher # "done" => queue' = <<>>)
    BY <1>t, <2>1, HandlerTakes
  <2>3. Attaching'
    BY <1>0, <2>1, <2>2 DEF Attaching, chrome
  <2>4. HandlerInv'
    BY <1>0, <2>1 DEF HandlerInv
  <2> QED BY <2>2, <2>3, <2>4 DEF Order
<1>3. CASE DocumentUpdated
  <2>1. Take("updated") /\ UNCHANGED <<chrome, frames, cur, op, attacher, query>>
    BY <1>3 DEF DocumentUpdated, mirror
  <2>2. Ends(queue', loading') /\ attacher = "done" /\ op = NoOp
    BY <1>t, <2>1, HandlerTakes
  <2>3. fetch'["attacher"] = fetch["attacher"] /\ (fetch'["handler"].frame = cur \/ fetch' = fetch)
    BY <1>0, <1>3 DEF DocumentUpdated, Resting
  <2>4. Attaching' /\ HandlerInv'
    BY <1>0, <2>1, <2>2, <2>3 DEF Attaching, HandlerInv
  <2> QED BY <2>2, <2>4 DEF Order
<1>4. CASE LookUp
  <2>1. /\ queue # <<>> /\ HandlerFree /\ queue' = Tail(queue) /\ Head(queue).type \in NodeEvents
        /\ UNCHANGED <<chrome, frames, cur, context, fetch, attacher, query>>
        /\ op'.frame = cur /\ cur # 0 /\ op'.fetched = frames[cur].fetched
    BY <1>4 DEF LookUp, NodeEvents
  <2>2. Ends(queue', loading') /\ attacher = "done" /\ fetch["handler"].state = "idle"
    BY <2>1, HandlerTakes DEF NodeEvents
  <2>3. Attaching' /\ HandlerInv'
    BY <1>0, <2>1, <2>2 DEF Attaching, HandlerInv
  <2> QED BY <2>2, <2>3 DEF Order
<1>5. CASE Drop
  <2>1. /\ queue # <<>> /\ HandlerFree /\ queue' = Tail(queue) /\ Head(queue).type \in NodeEvents
        /\ UNCHANGED <<chrome, frames, cur, op, fetch, attacher, query>>
    BY <1>5 DEF Drop, NodeEvents, mirror
  <2>2. Ends(queue', loading') /\ attacher = "done"
    BY <2>1, HandlerTakes DEF NodeEvents
  <2>3. Attaching' /\ HandlerInv'
    BY <1>0, <2>1, <2>2 DEF Attaching, HandlerInv
  <2> QED BY <2>2, <2>3 DEF Order
<1>6. CASE Apply
  <2>1. op # NoOp /\ op' = NoOp /\ UNCHANGED <<queue, cur, fetch, attacher, query, loading>>
    BY <1>6 DEF Apply, chrome
  <2>2. Attaching' /\ HandlerInv'
    BY <1>0, <2>1 DEF Attaching, HandlerInv
  <2> QED BY <1>0, <2>1, <2>2 DEF Order
<1>7. ASSUME NEW p \in Fetchers, LockFrame(p) PROVE Order'
  <2>1. /\ fetch[p].state = "locking" /\ UNCHANGED <<queue, cur, op, attacher, query, loading>>
        /\ fetch'[p].state = "asked" /\ fetch'[p].frame = fetch[p].frame /\ \A q \in Fetchers \ {p} : fetch'[q] = fetch[q]
    <3> DEFINE h == [fetch[p] EXCEPT !.state = "asked"]
    <3>1. fetch[p].state = "locking" /\ fetch' = [fetch EXCEPT ![p] = h] /\ UNCHANGED <<queue, cur, op, attacher, query, loading>>
      BY <1>7 DEF LockFrame, chrome
    <3>2. h.state = "asked" /\ h.frame = fetch[p].frame
      <4>1. DOMAIN fetch[p] = {"state", "frame", "root", "tree"}
        BY DEF TypeInv, ClientInv, FetchesOK, FetchOK
      <4> QED BY <4>1
    <3> HIDE DEF h
    <3> QED BY <1>0, <3>1, <3>2
  <2>2. op = NoOp
    BY <1>0, <2>1 DEF Attaching, HandlerInv, Fetchers
  <2>3. Attaching' /\ HandlerInv'
    <3>1. CASE p = "handler"
      BY <1>0, <2>1, <2>2, <3>1 DEF Attaching, HandlerInv, Fetchers
    <3>2. CASE p = "attacher"
      BY <1>0, <2>1, <2>2, <3>2 DEF Attaching, HandlerInv, Fetchers
    <3> QED BY <3>1, <3>2 DEF Fetchers
  <2> QED BY <1>0, <2>1, <2>3 DEF Order
<1>8. ASSUME NEW p \in Fetchers, TakeDocument(p) PROVE Order'
  <2>1. /\ fetch[p].state = "answered" /\ UNCHANGED <<queue, cur, op, query, loading>>
        /\ fetch'[p].state = "idle" /\ \A q \in Fetchers \ {p} : fetch'[q] = fetch[q]
        /\ attacher' = IF p = "attacher" THEN "done" ELSE attacher
    BY <1>0, <1>8 DEF TakeDocument, chrome, Resting
  <2>2. op = NoOp
    BY <1>0, <2>1 DEF Attaching, HandlerInv, Fetchers
  <2>3. Attaching' /\ HandlerInv'
    <3>1. CASE p = "handler"
      BY <1>0, <2>1, <2>2, <3>1 DEF Attaching, HandlerInv, Fetchers
    <3>2. CASE p = "attacher"
      BY <1>0, <2>1, <2>2, <3>2 DEF Attaching, HandlerInv, Fetchers
    <3> QED BY <3>1, <3>2 DEF Fetchers
  <2> QED BY <1>0, <2>1, <2>3 DEF Order
<1>9. CASE LoadFrameTree
  <2>1. attacher = "tree" /\ attacher' = "document" /\ UNCHANGED <<queue, op, fetch, query, loading>>
    BY <1>9 DEF LoadFrameTree, chrome
  <2>2. Attaching' /\ HandlerInv'
    BY <1>0, <2>1 DEF Attaching, HandlerInv
  <2> QED BY <1>0, <2>1, <2>2 DEF Order
<1>10. CASE LoadDocument
  <2>1. /\ attacher = "document" /\ attacher' = "fetching" /\ UNCHANGED <<queue, frames, cur, op, query, loading>>
        /\ fetch'["attacher"].state = "locking" /\ fetch'["attacher"].frame = cur /\ fetch'["handler"] = fetch["handler"]
    BY <1>0, <1>10 DEF LoadDocument, chrome, mirror, Resting
  <2>2. Attaching' /\ HandlerInv'
    BY <1>0, <2>1 DEF Attaching, HandlerInv
  <2> QED BY <1>0, <2>1, <2>2 DEF Order
<1>11. ASSUME NEW p \in Fetchers, AnswerDocument(p) PROVE Order'
  <2>1. fetch[p].state = "asked" /\ UNCHANGED <<queue, frames, cur, op, attacher, query, loading>>
    BY <1>11 DEF AnswerDocument, mirror
  <2>2. PICK m : fetch' = [fetch EXCEPT ![p].state = "answered", ![p].root = number'[Doc], ![p].tree = m]
    BY <1>0, <1>11, DocumentTold
  <2> DEFINE g == [fetch[p] EXCEPT !.state = "answered", !.root = number'[Doc], !.tree = m]
  <2>3. fetch' = [fetch EXCEPT ![p] = g]
    BY <2>2
  <2>4. g.state = "answered" /\ g.frame = fetch[p].frame
    <3>1. DOMAIN fetch[p] = {"state", "frame", "root", "tree"}
      BY DEF TypeInv, ClientInv, FetchesOK, FetchOK
    <3> QED BY <3>1
  <2> HIDE DEF g
  <2>5. fetch'[p].state = "answered" /\ fetch'[p].frame = fetch[p].frame /\ \A q \in Fetchers \ {p} : fetch'[q] = fetch[q]
    BY <1>0, <2>3, <2>4
  <2>6. Attaching' /\ HandlerInv'
    <3>1. CASE p = "handler"
      BY <1>0, <2>1, <2>5, <3>1 DEF Attaching, HandlerInv, Fetchers
    <3>2. CASE p = "attacher"
      BY <1>0, <2>1, <2>5, <3>2 DEF Attaching, HandlerInv, Fetchers
    <3> QED BY <3>1, <3>2 DEF Fetchers
  <2> QED BY <1>0, <2>1, <2>6 DEF Order
<1>12. CASE AnswerQuery
  <2>1. UNCHANGED <<mirror, fetch, attacher, loading>> /\ query.state = "asked"
    BY <1>12 DEF AnswerQuery
  <2> QED BY <1>0, <1>12, <2>1, QueryMoves, PageOrder
<1>13. CASE Commit \/ Loaded
  <2>1. Stirs /\ UNCHANGED <<frames, cur, op, fetch, attacher, query>>
    BY <1>13 DEF Commit, Loaded, mirror
  <2>2. attacher = "done"
    BY <1>0, <2>1 DEF Attaching, Stirs
  <2>3. Attaching' /\ HandlerInv'
    BY <1>0, <2>1, <2>2 DEF Attaching, HandlerInv
  <2>4. Ends(queue', loading')
    <3>1. CASE Commit
      <4>1. loading' = TRUE
        BY <3>1 DEF Commit
      <4> QED BY <4>1 DEF Ends
    <3>2. CASE Loaded
      <4> DEFINE u == [type |-> "updated"]
      <4>1. loading' = FALSE /\ queue' = Append(queue, u) /\ u.type = "updated"
        BY <3>2 DEF Loaded
      <4> HIDE DEF u
      <4> QED BY <1>0, <4>1, MoreEvents
    <3> QED BY <1>13, <3>1, <3>2
  <2> QED BY <2>3, <2>4 DEF Order
<1>14. ASSUME NEW e \in Elements, RemoveElement(e) PROVE Order'
  <2>1. UNCHANGED <<mirror, fetch, attacher, loading, query>> /\ Stirs
    BY <1>14 DEF RemoveElement
  <2> QED BY <1>0, <1>14, <2>1, RemoveMoves, PageOrder
<1>15. ASSUME NEW e \in Elements, NEW p \in Nodes, NEW i, InsertElement(e, p, i) PROVE Order'
  <2>1. UNCHANGED <<mirror, fetch, attacher, loading, query>> /\ Stirs
    BY <1>15 DEF InsertElement
  <2> QED BY <1>0, <1>15, <2>1, InsertMoves, PageOrder
<1>16. CASE AskQuery \/ TakeAnswer
  <2>1. UNCHANGED <<frames, cur, op, queue, fetch, attacher, loading>> /\ (attacher = "done" \/ query.state = "answered")
    BY <1>16 DEF AskQuery, TakeAnswer, chrome, mirror
  <2>2. attacher = "done"
    BY <1>0, <2>1 DEF Attaching
  <2> QED BY <1>0, <2>1, <2>2 DEF Order, Attaching, HandlerInv
<1>17. CASE UNCHANGED vars
  BY <1>0, <1>17 DEF Order, Attaching, HandlerInv, vars, chrome, mirror
<1> QED
  BY <1>1, <1>2, <1>3, <1>4, <1>5, <1>6, <1>7, <1>8, <1>9, <1>10, <1>11, <1>12, <1>13, <1>14, <1>15, <1>16, <1>17
  DEF Next, Handler, Attacher, Answering, Page, Querier, Fetchers

-----------------------------------------------------------------------------
(* What the client knows, and what the queue makes of it.                  *)

\* A document is on its way to the client that it has not been given.
Pending ==
  \/ loading \/ attacher \in {"tree", "document"} \/ Awaits(queue)
  \/ \E p \in Fetchers : fetch[p].state \in {"locking", "asked"}

\* The root r and the nodes m are the page's, once the events q are taken.
Ready(r, m, q, K, N, O) == r = N[Doc] /\ Leads(m, q, K, N, O)

\* The handler's own nodes, with the event it has in hand.
InHand == IF op = NoOp THEN frames[cur].nodes ELSE Applied(frames[cur].nodes, op.event)

Resolved == \A p \in Fetchers : fetch[p].state = "idle"

Current ==
  cur # 0 /\ ~Pending =>
    /\ \A p \in Fetchers :
         fetch[p].state = "answered" => Ready(fetch[p].root, fetch[p].tree, queue, kids, number, opened)
    /\ Resolved => Ready(frames[cur].root, InHand, queue, kids, number, opened)

\* What Chrome tells leaves the client as current as it was.
LEMMA PageCurrent ==
  ASSUME TypeInv, Current, Moved, UNCHANGED <<mirror, fetch, attacher, loading>>
  PROVE  Current'
<1>1. UNCHANGED <<frames, cur, context, op, fetch, attacher, loading>> /\ IsSeq(queue) /\ number'[Doc] = number[Doc]
  BY DEF mirror, TypeInv, ClientInv, QueueOK, Moved
<1>2. ASSUME NEW r, NEW m, Ready(r, m, queue, kids, number, opened)
      PROVE  Ready(r, m, queue', kids', number', opened')
  <2>1. Leads(m, queue, kids, number, opened) /\ r = number'[Doc]
    BY <1>1, <1>2 DEF Ready
  <2>2. CASE queue' = queue /\ \A x : Covers(x, kids, number, opened) => Covers(x, kids', number', opened')
    <3>1. Leads(m, queue, kids', number', opened')
      BY <2>1, <2>2, LeadsSame
    <3> QED BY <2>1, <2>2, <3>1 DEF Ready
  <2>3. ASSUME NEW v, queue' = Append(queue, v), \A x : Covers(x, kids, number, opened) => Covers(Taken(x, v), kids', number', opened')
        PROVE  Ready(r, m, queue', kids', number', opened')
    <3>1. Brings(v, kids, number, opened, kids', number', opened')
      BY <2>3 DEF Brings
    <3>2. Leads(m, queue', kids', number', opened')
      BY <1>1, <2>1, <2>3, <3>1, LeadsAppended
    <3> QED BY <2>1, <3>2 DEF Ready
  <2> QED BY <2>2, <2>3 DEF Moved
<1>3. Awaits(queue) => Awaits(queue')
  <2>1. CASE queue' = queue
    BY <2>1
  <2>2. CASE queue' # queue
    <3>1. PICK v : queue' = Append(queue, v)
      BY <2>2 DEF Moved
    <3>2. Ends(queue, TRUE)
      BY DEF Ends
    <3> QED BY <1>1, <3>1, <3>2, MoreEvents
  <2> QED BY <2>1, <2>2
<1>4. Pending => Pending'
  BY <1>1, <1>3 DEF Pending
<1>5. (Resolved' <=> Resolved) /\ InHand' = InHand
  BY <1>1 DEF Resolved, InHand
<1> QED BY <1>1, <1>2, <1>4, <1>5 DEF Current

\* An event the handler is done with, or has in hand.
LEMMA HandlerCurrent ==
  ASSUME TypeInv, Order, Current, queue # <<>>, HandlerFree, queue' = Tail(queue),
         UNCHANGED <<chrome, frames, cur, fetch, attacher, query>>, Head(queue).type \notin {"navigated", "updated"},
         Head(queue).type \in NodeEvents \/ op' = op,
         cur # 0 => InHand' = Taken(frames[cur].nodes, Head(queue))
  PROVE  Current'
<1>1. /\ op = NoOp /\ fetch["handler"].state = "idle" /\ IsSeq(queue) /\ (Awaits(queue) => Awaits(queue'))
      /\ attacher # "done" => Head(queue).type = "context"
  BY HandlerTakes
<1>2. UNCHANGED <<kids, number, opened, loading>>
  BY DEF chrome
<1>3. Pending => Pending'
  BY <1>1, <1>2 DEF Pending
<1>4. ASSUME NEW r, NEW m, Ready(r, m, queue, kids, number, opened)
      PROVE  Ready(r, Taken(m, Head(queue)), queue', kids', number', opened')
  BY <1>1, <1>2, <1>4, LeadsHeadless DEF Ready
<1>5. SUFFICES ASSUME cur' # 0, ~Pending' PROVE
        /\ \A p \in Fetchers :
             fetch'[p].state = "answered" => Ready(fetch'[p].root, fetch'[p].tree, queue', kids', number', opened')
        /\ Resolved' => Ready(frames'[cur'].root, InHand', queue', kids', number', opened')
  BY DEF Current
<1>6. ASSUME NEW p \in Fetchers, fetch'[p].state = "answered"
      PROVE  Ready(fetch'[p].root, fetch'[p].tree, queue', kids', number', opened')
  <2>1. p = "attacher" /\ attacher # "done"
    BY <1>1, <1>6 DEF Order, Attaching, Fetchers
  <2>2. Taken(fetch[p].tree, Head(queue)) = fetch[p].tree
    BY <1>1, <2>1 DEF Taken, NodeEvents
  <2>3. Ready(fetch[p].root, fetch[p].tree, queue, kids, number, opened)
    BY <1>3, <1>5, <1>6 DEF Current
  <2>4. Ready(fetch[p].root, Taken(fetch[p].tree, Head(queue)), queue', kids', number', opened')
    BY <1>4, <2>3
  <2> QED BY <2>2, <2>4
<1>7. ASSUME Resolved' PROVE Ready(frames'[cur'].root, InHand', queue', kids', number', opened')
  <2>1. Resolved /\ InHand = frames[cur].nodes
    BY <1>1, <1>7 DEF Resolved, InHand
  <2>2. Ready(frames[cur].root, frames[cur].nodes, queue, kids, number, opened)
    BY <1>3, <1>5, <2>1 DEF Current
  <2>3. Ready(frames[cur].root, Taken(frames[cur].nodes, Head(queue)), queue', kids', number', opened')
    BY <1>4, <2>2
  <2> QED BY <1>5, <2>3
<1> QED BY <1>6, <1>7

\* So does every step.
LEMMA CurrentStep == TypeInv /\ Order /\ Current /\ [Next]_vars => Current'
<1> SUFFICES ASSUME TypeInv, Order, Current, [Next]_vars PROVE Current'
  OBVIOUS
<1>0. /\ Attaching /\ HandlerInv /\ Ends(queue, loading) /\ IsSeq(queue) /\ IsSeq(frames) /\ QueueOK(queue, last)
      /\ FramesOK(frames, last) /\ FetchesOK(fetch, last) /\ DOMAIN fetch = Fetchers /\ TreeInv /\ cur \in 0..Len(frames)
      /\ "handler" \in Fetchers /\ "attacher" \in Fetchers
  BY DEF Order, TypeInv, ClientInv, QueueOK, FramesOK, FetchesOK, RestOK, Fetchers
<1>t. ASSUME NEW t, Take(t) PROVE queue # <<>> /\ HandlerFree /\ queue' = Tail(queue) /\ Head(queue).type = t
  BY <1>t DEF Take
<1>p. cur' = 0 \/ Pending' => Current'
  BY DEF Current
<1>c. DOMAIN frames = 1..Len(frames) /\ (cur # 0 => cur \in 1..Len(frames))
  <2>1. PICK S : frames \in Seq(S)
    BY <1>0 DEF IsSeq
  <2> QED BY <1>0, <2>1, LenProperties
<1>1. CASE FrameNavigated
  <2>1. Take("navigated") /\ UNCHANGED <<chrome, attacher, query>>
    BY <1>1 DEF FrameNavigated
  <2>2. loading' \/ Awaits(queue')
    BY <1>t, <2>1, HandlerTakes
  <2> QED BY <1>p, <2>2 DEF Pending
<1>2. CASE ContextsCleared \/ ContextCreated
  <2>1. (Take("cleared") \/ Take("context")) /\ UNCHANGED <<chrome, frames, cur, op, fetch, attacher, query>>
    BY <1>2 DEF ContextsCleared, ContextCreated
  <2>2. Head(queue).type \in {"cleared", "context"} /\ queue # <<>> /\ HandlerFree /\ queue' = Tail(queue)
    BY <1>t, <2>1
  <2>3. InHand' = Taken(frames[cur].nodes, Head(queue)) /\ Head(queue).type \notin {"navigated", "updated"}
    BY <2>1, <2>2 DEF InHand, Taken, NodeEvents, HandlerFree
  <2> QED BY <2>1, <2>2, <2>3, HandlerCurrent
<1>3. CASE DocumentUpdated
  <2>1. CASE cur = 0
    BY <1>3, <1>p, <2>1 DEF DocumentUpdated, mirror
  <2>2. CASE cur # 0
    <3>1. fetch'["handler"].state = "locking"
      BY <1>0, <1>3, <2>2 DEF DocumentUpdated, Resting
    <3> QED BY <1>0, <1>p, <3>1 DEF Pending
  <2> QED BY <2>1, <2>2
<1>4. CASE LookUp
  <2>1. /\ queue # <<>> /\ HandlerFree /\ queue' = Tail(queue) /\ Head(queue).type \in NodeEvents
        /\ UNCHANGED <<chrome, frames, cur, fetch, attacher, query>>
        /\ Head(queue).at \in DOMAIN frames[cur].nodes
        /\ op' = [type |-> "event", event |-> Head(queue), frame |-> cur, fetched |-> frames[cur].fetched]
    BY <1>4 DEF LookUp, NodeEvents
  <2>2. op' # NoOp /\ op'.event = Head(queue)
    <3>1. op'.type = "event" /\ NoOp.type = "none"
      BY <2>1 DEF NoOp
    <3> QED BY <2>1, <3>1
  <2>3. InHand' = Taken(frames[cur].nodes, Head(queue)) /\ Head(queue).type \notin {"navigated", "updated"}
    BY <2>1, <2>2 DEF InHand, Taken, NodeEvents
  <2> QED BY <2>1, <2>3, HandlerCurrent
<1>5. CASE Drop
  <2>1. /\ queue # <<>> /\ HandlerFree /\ queue' = Tail(queue) /\ Head(queue).type \in NodeEvents
        /\ UNCHANGED <<chrome, frames, cur, op, fetch, attacher, query>>
        /\ Head(queue).at \notin DOMAIN frames[cur].nodes
    BY <1>5 DEF Drop, NodeEvents, mirror
  <2>2. InHand' = Taken(frames[cur].nodes, Head(queue)) /\ Head(queue).type \notin {"navigated", "updated"}
    BY <2>1 DEF InHand, Taken, NodeEvents, HandlerFree
  <2> QED BY <2>1, <2>2, HandlerCurrent
<1>6. CASE Apply
  <2> DEFINE g == [frames[cur] EXCEPT !.nodes = Applied(@, op.event)]
  <2>1. /\ op # NoOp /\ op' = NoOp /\ UNCHANGED <<kids, number, opened, loading, queue, cur, fetch, attacher>>
        /\ op.frame = cur /\ cur # 0 /\ op.fetched = frames[cur].fetched
    BY <1>0, <1>6 DEF Apply, HandlerInv, chrome
  <2>2. frames' = [frames EXCEPT ![cur] = g]
    BY <1>6, <2>1 DEF Apply
  <2>3. g.nodes = Applied(frames[cur].nodes, op.event) /\ g.root = frames[cur].root
    <3>1. DOMAIN frames[cur] = {"root", "nodes", "fetched"}
      BY <1>0, <1>c, <2>1 DEF FramesOK, FrameOK
    <3> QED BY <3>1
  <2> HIDE DEF g
  <2>4. frames'[cur] = g
    BY <1>c, <2>1, <2>2
  <2>5. InHand' = InHand /\ frames'[cur'].root = frames[cur].root
    BY <2>1, <2>3, <2>4 DEF InHand
  <2>6. (Pending' <=> Pending) /\ (Resolved' <=> Resolved)
    BY <2>1 DEF Pending, Resolved
  <2> QED BY <2>1, <2>5, <2>6 DEF Current
<1>7. ASSUME NEW p \in Fetchers, LockFrame(p) PROVE Current'
  <2> DEFINE h == [fetch[p] EXCEPT !.state = "asked"]
  <2>1. fetch' = [fetch EXCEPT ![p] = h]
    BY <1>7 DEF LockFrame
  <2>2. h.state = "asked"
    <3>1. DOMAIN fetch[p] = {"state", "frame", "root", "tree"}
      BY <1>0 DEF FetchesOK, FetchOK
    <3> QED BY <3>1
  <2> HIDE DEF h
  <2>3. fetch'[p].state = "asked"
    BY <1>0, <2>1, <2>2
  <2> QED BY <1>p, <2>3 DEF Pending
<1>8. ASSUME NEW p \in Fetchers, TakeDocument(p) PROVE Current'
  <2> DEFINE f == fetch[p].frame
             g == [frames[f] EXCEPT !.root = fetch[p].root, !.nodes = fetch[p].tree]
  <2>1. /\ fetch[p].state = "answered" /\ frames' = [frames EXCEPT ![f] = g]
        /\ fetch'[p].state = "idle" /\ \A q \in Fetchers \ {p} : fetch'[q] = fetch[q]
        /\ attacher' = IF p = "attacher" THEN "done" ELSE attacher
        /\ UNCHANGED <<kids, number, opened, loading, queue, cur, op>>
    BY <1>0, <1>8 DEF TakeDocument, chrome, Resting
  <2>2. op = NoOp /\ f = cur /\ \A q \in Fetchers \ {p} : fetch[q].state = "idle"
    BY <1>0, <2>1 DEF Attaching, HandlerInv, Fetchers
  <2>3. SUFFICES ASSUME cur # 0, ~Pending' PROVE Current'
    BY <1>p, <2>1
  <2>4. g.nodes = fetch[p].tree /\ g.root = fetch[p].root
    <3>1. DOMAIN frames[cur] = {"root", "nodes", "fetched"}
      BY <1>0, <1>c, <2>3 DEF FramesOK, FrameOK
    <3> QED BY <2>2, <3>1
  <2> HIDE DEF g
  <2>5. frames'[cur] = g
    BY <1>c, <2>1, <2>2, <2>3
  <2>6. ~Pending
    <3>1. ~loading /\ ~Awaits(queue)
      BY <2>1, <2>3 DEF Pending
    <3>2. attacher \notin {"tree", "document"}
      <4>1. CASE p = "attacher"
        BY <1>0, <2>1, <4>1 DEF Attaching
      <4>2. CASE p # "attacher"
        BY <2>1, <2>3, <4>2 DEF Pending
      <4> QED BY <4>1, <4>2
    <3>3. \A q \in Fetchers : fetch[q].state \notin {"locking", "asked"}
      BY <2>1, <2>2
    <3> QED BY <3>1, <3>2, <3>3 DEF Pending
  <2>7. Ready(fetch[p].root, fetch[p].tree, queue, kids, number, opened)
    BY <2>1, <2>3, <2>6 DEF Current
  <2>8. InHand' = fetch[p].tree /\ frames'[cur'].root = fetch[p].root
    BY <2>1, <2>2, <2>4, <2>5 DEF InHand
  <2>9. \A q \in Fetchers : fetch'[q].state # "answered"
    BY <2>1, <2>2
  <2> QED BY <2>1, <2>7, <2>8, <2>9 DEF Current
<1>9. CASE LoadFrameTree
  BY <1>9, <1>p DEF LoadFrameTree, Pending
<1>10. CASE LoadDocument
  <2>1. fetch'["attacher"].state = "locking"
    BY <1>0, <1>10 DEF LoadDocument, Resting
  <2> QED BY <1>0, <1>p, <2>1 DEF Pending
<1>11. ASSUME NEW p \in Fetchers, AnswerDocument(p) PROVE Current'
  <2>1. fetch[p].state = "asked" /\ UNCHANGED <<queue, frames, cur, op, attacher, loading>>
    BY <1>11 DEF AnswerDocument, mirror
  <2>2. PICK m : /\ fetch' = [fetch EXCEPT ![p].state = "answered", ![p].root = number'[Doc], ![p].tree = m]
                 /\ \A i \in DOMAIN m : i > last
                 /\ Covers(m, kids', number', opened')
    BY <1>0, <1>11, DocumentTold
  <2> DEFINE g == [fetch[p] EXCEPT !.state = "answered", !.root = number'[Doc], !.tree = m]
  <2>3. fetch' = [fetch EXCEPT ![p] = g]
    BY <2>2
  <2>4. g.state = "answered" /\ g.root = number'[Doc] /\ g.tree = m
    <3>1. DOMAIN fetch[p] = {"state", "frame", "root", "tree"}
      BY <1>0 DEF FetchesOK, FetchOK
    <3> QED BY <3>1
  <2> HIDE DEF g
  <2>5. fetch'[p] = g /\ \A q \in Fetchers \ {p} : fetch'[q] = fetch[q]
    BY <1>0, <2>3
  <2>6. \A q \in Fetchers \ {p} : fetch[q].state = "idle"
    BY <1>0, <2>1 DEF Attaching, HandlerInv, Fetchers
  <2>7. Ready(number'[Doc], m, queue', kids', number', opened')
    <3>1. ASSUME NEW i \in 1..Len(queue) PROVE Taken(m, queue[i]) = m
      <4>1. queue[i].type \in NodeEvents => queue[i].at \in 1..last
        BY <1>0 DEF QueueOK, EventOK
      <4>2. last \in Nat
        BY <1>0 DEF TreeInv, ToldOK
      <4>3. queue[i].type \in NodeEvents => queue[i].at \notin DOMAIN m
        BY <2>2, <4>1, <4>2
      <4> QED BY <4>3 DEF Taken
    <3>2. Leads(m, queue, kids', number', opened')
      BY <1>0, <2>2, <3>1, LeadsNowhere
    <3> QED BY <2>1, <3>2 DEF Ready
  <2>8. ASSUME NEW q \in Fetchers, fetch'[q].state = "answered"
        PROVE  Ready(fetch'[q].root, fetch'[q].tree, queue', kids', number', opened')
    <3>1. q = p
      BY <2>5, <2>6, <2>8
    <3> QED BY <2>4, <2>5, <2>7, <3>1
  <2>9. ~Resolved'
    BY <2>4, <2>5 DEF Resolved
  <2> QED BY <2>8, <2>9 DEF Current
<1>12. CASE AnswerQuery
  <2>1. UNCHANGED <<mirror, fetch, attacher, loading>>
    BY <1>12 DEF AnswerQuery
  <2> QED BY <1>0, <1>12, <2>1, QueryMoves, PageCurrent
<1>13. CASE Commit \/ Loaded
  <2>1. CASE Commit
    BY <1>p, <2>1 DEF Commit, Pending
  <2>2. CASE Loaded
    <3> DEFINE u == [type |-> "updated"]
    <3>1. queue' = Append(queue, u) /\ u.type = "updated"
      BY <2>2 DEF Loaded
    <3> HIDE DEF u
    <3>2. Awaits(queue')
      BY <1>0, <3>1, MoreEvents
    <3> QED BY <1>p, <3>2 DEF Pending
  <2> QED BY <1>13, <2>1, <2>2
<1>14. ASSUME NEW e \in Elements, RemoveElement(e) PROVE Current'
  <2>1. UNCHANGED <<mirror, fetch, attacher, loading>>
    BY <1>14 DEF RemoveElement
  <2> QED BY <1>0, <1>14, <2>1, RemoveMoves, PageCurrent
<1>15. ASSUME NEW e \in Elements, NEW p \in Nodes, NEW i, InsertElement(e, p, i) PROVE Current'
  <2>1. UNCHANGED <<mirror, fetch, attacher, loading>>
    BY <1>15 DEF InsertElement
  <2> QED BY <1>0, <1>15, <2>1, InsertMoves, PageCurrent
<1>16. CASE AskQuery \/ TakeAnswer
  <2>1. UNCHANGED <<kids, number, opened, loading, frames, cur, op, queue, fetch, attacher>>
    BY <1>16 DEF AskQuery, TakeAnswer, chrome, mirror
  <2> QED BY <2>1 DEF Current, Pending, Resolved, InHand
<1>17. CASE UNCHANGED vars
  BY <1>17 DEF Current, Pending, Resolved, InHand, vars, chrome, mirror
<1> QED
  BY <1>1, <1>2, <1>3, <1>4, <1>5, <1>6, <1>7, <1>8, <1>9, <1>10, <1>11, <1>12, <1>13, <1>14, <1>15, <1>16, <1>17
  DEF Next, Handler, Attacher, Answering, Page, Querier, Fetchers

\* A client at rest has the tree of the page, whatever loads, changes, queries and answers
\* overtook each other (documentUpdated, domEvent and the node operations of util.go), for
\* a target that the browser opens itself, or one it attaches to whose page is quiet until
\* newTarget is done.  The condition is needed: newTarget asks for the document beside the
\* handler (target.go:417), and an event about a new node that the handler looks up before
\* the answer is stored is lost.
THEOREM NodesSettle ==
  ASSUME Quiet \/ ~Attach
  PROVE  Spec => []MirrorAgrees
<1> DEFINE SyncInv == TypeInv /\ Order /\ Current
<1>1. Init => SyncInv
  <2>1. Init => Current
    BY DEF Init, Current
  <2> QED BY <2>1, InitTypes, InitOrder
<1>2. SyncInv /\ [Next]_vars => SyncInv'
  BY TypeStep, OrderStep, CurrentStep
<1>3. SyncInv => MirrorAgrees
  <2> SUFFICES ASSUME Current, AtRest, cur # 0
               PROVE  frames[cur].root = number[Doc] /\ Covers(frames[cur].nodes, kids, number, opened)
    BY DEF MirrorAgrees, Covers, Known
  <2>1. ~Awaits(queue)
    BY DEF AtRest, Awaits
  <2>2. ~Pending /\ Resolved /\ InHand = frames[cur].nodes
    BY <2>1 DEF AtRest, Pending, Resolved, InHand
  <2>3. Ready(frames[cur].root, frames[cur].nodes, <<>>, kids, number, opened)
    BY <2>2 DEF Current, AtRest
  <2> QED BY <2>3, LeadsHere DEF Ready
<1> QED BY <1>1, <1>2, <1>3, PTL DEF Spec
=============================================================================
