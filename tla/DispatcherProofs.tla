--------------------------- MODULE DispatcherProofs ---------------------------
(***************************************************************************)
(* Theorems about Dispatcher, for any number of clients, commands and      *)
(* events and queues of any capacity: the types with the capacities, that  *)
(* no event is lost or overtaken while the page is attached, that the      *)
(* pipeline implements EventPipe, also across a detach and a cancel, and   *)
(* that an Execute that waits has exactly one answer outstanding.          *)
(***************************************************************************)
EXTENDS Dispatcher, SequenceTheorems, FiniteSetTheorems, TLAPS

Said == Messages \union {Detached}

\* The number of an event; no event has number 0, which stands for all the rest.
Num(m) == IF m.kind \in EventKinds THEN m.n ELSE 0

(***************************************************************************)
(* The events of a sequence go from lo + 1 upwards, in order and without a *)
(* gap, to hi at most; and every number up to hi is there.                 *)
(***************************************************************************)
Bounded(q, lo, hi) ==
  \A i \in 1..Len(q) : Num(q[i]) # 0 => lo < Num(q[i]) /\ Num(q[i]) <= hi

Increasing(q) ==
  \A i, j \in 1..Len(q) : i < j /\ Num(q[i]) # 0 /\ Num(q[j]) # 0 => Num(q[i]) < Num(q[j])

Gapless(q, lo) ==
  \A i \in 1..Len(q), n \in Nat :
    lo < n /\ n <= Num(q[i]) => \E j \in 1..i : Num(q[j]) = n

Numbered(q, lo, hi) == Bounded(q, lo, hi) /\ Increasing(q) /\ Gapless(q, lo)

Complete(q, lo, hi) ==
  \A n \in Nat : lo < n /\ n <= hi => \E j \in 1..Len(q) : Num(q[j]) = n

\* What has passed the router's check that the page is attached.
Routed == syncQueue \o Slot(holding) \o messages \o Slot(routing)

Order ==
  /\ handled <= emitted
  /\ Numbered(Routed, handled, emitted)
  /\ Reachable => Numbered(InTransit, handled, emitted) /\ Complete(InTransit, handled, emitted)

(***************************************************************************)
(* Lemmas about numbered sequences.                                        *)
(***************************************************************************)
LEMMA NumType ==
  /\ \A m \in Said : Num(m) \in Nat
  /\ \A m \in Events : Num(m) = m.n /\ Num(m) # 0 /\ Num(m) \in 1..MaxEvents
  /\ \A m \in Answers : Num(m) = 0
  /\ Num(Detached) = 0 /\ Num(Skipped) = 0
BY DispatcherAssumption
DEF DispatcherAssumption, Said, Messages, Answers, Events, EventKinds, CommandIds, Detached, Skipped,
    Num

\* Every element of a sequence of messages has a number.
LEMMA NumOfElement ==
  ASSUME NEW q \in Seq(Said), NEW i \in 1..Len(q)
  PROVE  Num(q[i]) \in Nat
BY ElementOfSeq, NumType

\* The next event joins at the end.
LEMMA AppendEvent ==
  ASSUME NEW q \in Seq(Said), NEW e \in Said, NEW lo \in Nat, NEW hi \in Nat, lo <= hi,
         Numbered(q, lo, hi), Complete(q, lo, hi), Num(e) = hi + 1
  PROVE  Numbered(q \o <<e>>, lo, hi + 1) /\ Complete(q \o <<e>>, lo, hi + 1)
<1> DEFINE r == Append(q, e)
<1>1. r = q \o <<e>> BY AppendIsConcat
<1>2. /\ Len(q) \in Nat /\ Len(r) = Len(q) + 1
      /\ \A i \in 1..Len(q) : r[i] = q[i]
      /\ r[Len(q) + 1] = e
  BY AppendProperties, LenProperties
<1>3. \A i \in 1..Len(q) : Num(q[i]) \in Nat BY NumOfElement
<1> HIDE DEF r
<1>4. Bounded(r, lo, hi + 1) BY <1>2, <1>3 DEF Numbered, Bounded
<1>5. Increasing(r)
  <2>1. \A i \in 1..Len(q) : Num(q[i]) # 0 => Num(q[i]) <= hi
    BY DEF Numbered, Bounded
  <2>2. \A i, j \in 1..Len(q) : i < j /\ Num(q[i]) # 0 /\ Num(q[j]) # 0 => Num(q[i]) < Num(q[j])
    BY DEF Numbered, Increasing
  <2> QED BY <1>2, <1>3, <2>1, <2>2 DEF Increasing
<1>6. Complete(r, lo, hi + 1)
  <2> SUFFICES ASSUME NEW n \in Nat, lo < n, n <= hi + 1
               PROVE  \E j \in 1..Len(r) : Num(r[j]) = n
    BY DEF Complete
  <2>1. CASE n = hi + 1 BY <2>1, <1>2
  <2>2. CASE n # hi + 1
    <3>1. PICK j \in 1..Len(q) : Num(q[j]) = n BY <2>2 DEF Complete
    <3> QED BY <3>1, <1>2
  <2> QED BY <2>1, <2>2
<1>7. Gapless(r, lo)
  <2> SUFFICES ASSUME NEW i \in 1..Len(r), NEW n \in Nat, lo < n, n <= Num(r[i])
               PROVE  \E j \in 1..i : Num(r[j]) = n
    BY DEF Gapless
  <2>1. CASE i \in 1..Len(q)
    <3>1. PICK j \in 1..i : Num(q[j]) = n BY <2>1, <1>2 DEF Numbered, Gapless
    <3> QED BY <3>1, <2>1, <1>2
  <2>2. CASE i = Len(q) + 1
    <3>1. n <= hi + 1 BY <2>2, <1>2
    <3> QED BY <3>1, <2>2, <1>2, <1>6 DEF Complete
  <2> QED BY <2>1, <2>2, <1>2
<1> QED BY <1>1, <1>4, <1>5, <1>6, <1>7 DEF Numbered

\* The element at position k leaves.
Leaves(k, longer, shorter) ==
  /\ k \in 1..Len(longer) /\ Len(longer) = Len(shorter) + 1
  /\ \A i \in 1..Len(shorter) : shorter[i] = IF i < k THEN longer[i] ELSE longer[i + 1]

\* What is no event may join anywhere and leave anywhere.
LEMMA OtherLeaves ==
  ASSUME NEW longer \in Seq(Said), NEW shorter \in Seq(Said), NEW k,
         Leaves(k, longer, shorter), Num(longer[k]) = 0,
         NEW lo \in Nat, NEW hi \in Nat
  PROVE  /\ Numbered(longer, lo, hi) => Numbered(shorter, lo, hi)
         /\ Complete(longer, lo, hi) => Complete(shorter, lo, hi)
<1> USE DEF Leaves
<1>1. Len(shorter) \in Nat /\ Len(longer) \in Nat BY LenProperties
<1>2. \A i \in 1..Len(longer) : Num(longer[i]) \in Nat BY NumOfElement
<1> DEFINE Old(i) == IF i < k THEN i ELSE i + 1
<1>3. \A i \in 1..Len(shorter) : Old(i) \in 1..Len(longer) /\ shorter[i] = longer[Old(i)]
  BY <1>1
<1>4. \A i, j \in 1..Len(shorter) : i < j => Old(i) < Old(j) BY <1>1
<1>5. \A j \in 1..Len(longer) : Num(longer[j]) # 0 =>
         \E i \in 1..Len(shorter) : Old(i) = j /\ i <= j
  <2> SUFFICES ASSUME NEW j \in 1..Len(longer), Num(longer[j]) # 0
               PROVE  \E i \in 1..Len(shorter) : Old(i) = j /\ i <= j
    OBVIOUS
  <2>1. CASE j < k BY <2>1, <1>1
  <2>2. CASE j > k
    <3>1. j - 1 \in 1..Len(shorter) /\ Old(j - 1) = j /\ j - 1 <= j BY <2>2, <1>1
    <3> QED BY <3>1
  <2>3. j # k OBVIOUS
  <2> QED BY <2>1, <2>2, <2>3, <1>1
<1>6. \A i, h \in 1..Len(shorter) : Old(h) <= Old(i) => h <= i BY <1>1
<1> HIDE DEF Old
<1>7. ASSUME Numbered(longer, lo, hi) PROVE Numbered(shorter, lo, hi)
  <2>1. Bounded(shorter, lo, hi) BY <1>3, <1>7 DEF Numbered, Bounded
  <2>2. Increasing(shorter) BY <1>3, <1>4, <1>7 DEF Numbered, Increasing
  <2>3. Gapless(shorter, lo)
    <3> SUFFICES ASSUME NEW i \in 1..Len(shorter), NEW n \in Nat, lo < n, n <= Num(shorter[i])
                 PROVE  \E j \in 1..i : Num(shorter[j]) = n
      BY DEF Gapless
    <3>1. PICK j \in 1..Old(i) : Num(longer[j]) = n BY <1>3, <1>7 DEF Numbered, Gapless
    <3>2. j \in 1..Len(longer) /\ Num(longer[j]) # 0 /\ j <= Old(i) BY <3>1, <1>1, <1>3
    <3>3. PICK h \in 1..Len(shorter) : Old(h) = j BY <3>2, <1>5
    <3>4. h \in 1..i BY <3>2, <3>3, <1>6, <1>1
    <3> QED BY <3>1, <3>3, <3>4, <1>3
  <2> QED BY <2>1, <2>2, <2>3 DEF Numbered
<1>8. ASSUME Complete(longer, lo, hi) PROVE Complete(shorter, lo, hi)
  <2> SUFFICES ASSUME NEW n \in Nat, lo < n, n <= hi
               PROVE  \E j \in 1..Len(shorter) : Num(shorter[j]) = n
    BY DEF Complete
  <2>1. PICK j \in 1..Len(longer) : Num(longer[j]) = n BY <1>8 DEF Complete
  <2>2. PICK h \in 1..Len(shorter) : Old(h) = j BY <2>1, <1>5
  <2> QED BY <2>1, <2>2, <1>3
<1> QED BY <1>7, <1>8

\* What is no event joins at the end ...
LEMMA AppendOther ==
  ASSUME NEW q \in Seq(Said), NEW e \in Said, NEW lo \in Nat, NEW hi \in Nat, Num(e) = 0
  PROVE  /\ Numbered(q, lo, hi) => Numbered(q \o <<e>>, lo, hi)
         /\ Complete(q, lo, hi) => Complete(q \o <<e>>, lo, hi)
<1> DEFINE r == Append(q, e)
<1>1. r = q \o <<e>> BY AppendIsConcat
<1>2. /\ Len(q) \in Nat /\ Len(r) = Len(q) + 1
      /\ \A i \in 1..Len(q) : r[i] = q[i]
      /\ r[Len(q) + 1] = e
  BY AppendProperties, LenProperties
<1>3. \A i \in 1..Len(q) : Num(q[i]) \in Nat BY NumOfElement
<1> HIDE DEF r
<1>4. Bounded(q, lo, hi) => Bounded(r, lo, hi) BY <1>2, <1>3 DEF Bounded
<1>5. Increasing(q) => Increasing(r) BY <1>2, <1>3 DEF Increasing
<1>6. Complete(q, lo, hi) => Complete(r, lo, hi)
  <2> SUFFICES ASSUME Complete(q, lo, hi), NEW n \in Nat, lo < n, n <= hi
               PROVE  \E j \in 1..Len(r) : Num(r[j]) = n
    BY DEF Complete
  <2>1. PICK j \in 1..Len(q) : Num(q[j]) = n BY DEF Complete
  <2> QED BY <2>1, <1>2
<1>7. Gapless(q, lo) => Gapless(r, lo)
  <2> SUFFICES ASSUME Gapless(q, lo),
                      NEW i \in 1..Len(r), NEW n \in Nat, lo < n, n <= Num(r[i])
               PROVE  \E j \in 1..i : Num(r[j]) = n
    BY DEF Gapless
  <2>1. i \in 1..Len(q) BY <1>2
  <2>2. PICK j \in 1..i : Num(q[j]) = n BY <2>1, <1>2 DEF Gapless
  <2> QED BY <2>2, <2>1, <1>2
<1> QED BY <1>1, <1>4, <1>5, <1>6, <1>7 DEF Numbered

\* ... and what is taken from any queue on the way leaves the way.
LEMMA HeadLeaves ==
  ASSUME NEW p \in Seq(Said), NEW t \in Seq(Said), NEW u \in Seq(Said), t # <<>>
  PROVE  /\ p \o Tail(t) \o u \in Seq(Said)
         /\ \E k : Leaves(k, p \o t \o u, p \o Tail(t) \o u) /\ (p \o t \o u)[k] = Head(t)
<1> DEFINE longer == p \o t \o u  shorter == p \o Tail(t) \o u  k == Len(p) + 1
<1>1. /\ Len(p) \in Nat /\ Len(u) \in Nat /\ Len(t) \in Nat \ {0} /\ Head(t) = t[1]
      /\ Tail(t) \in Seq(Said) /\ Len(Tail(t)) = Len(t) - 1
      /\ \A i \in 1..Len(Tail(t)) : Tail(t)[i] = t[i + 1]
  BY LenProperties, HeadTailProperties, EmptySeq
<1>2. /\ p \o t \in Seq(Said) /\ Len(p \o t) = Len(p) + Len(t)
      /\ \A i \in 1..Len(p) + Len(t) : (p \o t)[i] = IF i <= Len(p) THEN p[i] ELSE t[i - Len(p)]
  BY ConcatProperties
<1>3. /\ p \o Tail(t) \in Seq(Said) /\ Len(p \o Tail(t)) = Len(p) + Len(Tail(t))
      /\ \A i \in 1..Len(p) + Len(Tail(t)) :
           (p \o Tail(t))[i] = IF i <= Len(p) THEN p[i] ELSE Tail(t)[i - Len(p)]
  BY ConcatProperties, <1>1
<1>4. /\ longer \in Seq(Said) /\ Len(longer) = Len(p) + Len(t) + Len(u)
      /\ \A i \in 1..Len(p) + Len(t) : longer[i] = (p \o t)[i]
      /\ \A i \in Len(p) + Len(t) + 1..Len(p) + Len(t) + Len(u) :
           longer[i] = u[i - (Len(p) + Len(t))]
  BY ConcatProperties, <1>1, <1>2
<1>5. /\ shorter \in Seq(Said) /\ Len(shorter) = Len(p) + Len(t) + Len(u) - 1
      /\ \A i \in 1..Len(p) + Len(t) - 1 : shorter[i] = (p \o Tail(t))[i]
      /\ \A i \in Len(p) + Len(t)..Len(p) + Len(t) + Len(u) - 1 :
           shorter[i] = u[i - (Len(p) + Len(t) - 1)]
  BY ConcatProperties, <1>1, <1>3
<1> HIDE DEF longer, shorter
<1>6. Len(longer) = Len(shorter) + 1 /\ k \in 1..Len(longer) BY <1>1, <1>4, <1>5
<1>7. longer[k] = Head(t)
  <2>1. k \in 1..Len(p) + Len(t) /\ ~(k <= Len(p)) /\ k - Len(p) = 1 BY <1>1
  <2>2. longer[k] = (p \o t)[k] /\ (p \o t)[k] = t[k - Len(p)] BY <2>1, <1>2, <1>4
  <2> QED BY <2>1, <2>2, <1>1
<1>8. ASSUME NEW i \in 1..Len(shorter)
      PROVE  shorter[i] = IF i < k THEN longer[i] ELSE longer[i + 1]
  <2>1. CASE i < k
    <3>1. i \in 1..Len(p) + Len(t) - 1 /\ i \in 1..Len(p) + Len(t) /\ i <= Len(p)
          /\ i \in 1..Len(p) + Len(Tail(t))
      BY <2>1, <1>1
    <3>2. shorter[i] = p[i] BY <3>1, <1>3, <1>5
    <3>3. longer[i] = p[i] BY <3>1, <1>2, <1>4
    <3> QED BY <2>1, <3>2, <3>3
  <2>2. CASE k <= i /\ i <= Len(p) + Len(t) - 1
    <3>1. shorter[i] = Tail(t)[i - Len(p)]
      <4>1. i \in 1..Len(p) + Len(t) - 1 /\ i \in 1..Len(p) + Len(Tail(t)) /\ ~(i <= Len(p))
        BY <2>2, <1>1
      <4> QED BY <4>1, <1>3, <1>5
    <3>2. longer[i + 1] = t[i + 1 - Len(p)]
      <4>1. i + 1 \in 1..Len(p) + Len(t) /\ ~(i + 1 <= Len(p)) BY <2>2, <1>1
      <4>2. longer[i + 1] = (p \o t)[i + 1] BY <4>1, <1>4
      <4>3. (p \o t)[i + 1] = t[i + 1 - Len(p)] BY <4>1, <1>2
      <4> QED BY <4>2, <4>3
    <3>3. i - Len(p) \in 1..Len(Tail(t)) /\ (i - Len(p)) + 1 = i + 1 - Len(p) /\ ~(i < k)
      BY <2>2, <1>1
    <3>4. Tail(t)[i - Len(p)] = t[i + 1 - Len(p)] BY <3>3, <1>1
    <3> QED BY <3>1, <3>2, <3>3, <3>4
  <2>3. CASE Len(p) + Len(t) <= i
    <3>1. /\ i \in Len(p) + Len(t)..Len(p) + Len(t) + Len(u) - 1 /\ ~(i < k)
          /\ i + 1 \in Len(p) + Len(t) + 1..Len(p) + Len(t) + Len(u)
      BY <2>3, <1>1, <1>5
    <3>2. shorter[i] = u[i - (Len(p) + Len(t) - 1)] BY <3>1, <1>5
    <3>3. longer[i + 1] = u[i + 1 - (Len(p) + Len(t))] BY <3>1, <1>4
    <3> QED BY <3>1, <3>2, <3>3, <1>1
  <2> QED BY <2>1, <2>2, <2>3, <1>1
<1>9. Leaves(k, longer, shorter) BY <1>6, <1>8 DEF Leaves
<1> QED BY <1>5, <1>7, <1>9 DEF longer, shorter

\* A prefix of what is numbered is numbered.
LEMMA PrefixNumbered ==
  ASSUME NEW p \in Seq(Said), NEW t \in Seq(Said), NEW lo \in Nat, NEW hi \in Nat,
         Numbered(p \o t, lo, hi)
  PROVE  Numbered(p, lo, hi)
<1> DEFINE q == p \o t
<1>1. /\ Len(p) \in Nat /\ Len(t) \in Nat /\ Len(q) = Len(p) + Len(t)
      /\ \A i \in 1..Len(p) : q[i] = p[i]
  BY LenProperties, ConcatProperties
<1>2. Numbered(q, lo, hi) OBVIOUS
<1> HIDE DEF q
<1>3. Bounded(p, lo, hi) BY <1>1, <1>2 DEF Numbered, Bounded
<1>4. Increasing(p) BY <1>1, <1>2 DEF Numbered, Increasing
<1>5. Gapless(p, lo)
  <2> SUFFICES ASSUME NEW i \in 1..Len(p), NEW n \in Nat, lo < n, n <= Num(p[i])
               PROVE  \E j \in 1..i : Num(p[j]) = n
    BY DEF Gapless
  <2>1. PICK j \in 1..i : Num(q[j]) = n BY <1>1, <1>2 DEF Numbered, Gapless
  <2> QED BY <2>1, <1>1
<1> QED BY <1>3, <1>4, <1>5 DEF Numbered

\* The event at the head has the next number, and the rest goes on from it.
LEMMA HeadIsNext ==
  ASSUME NEW q \in Seq(Said), q # <<>>, Num(Head(q)) # 0, NEW lo \in Nat, NEW hi \in Nat,
         Numbered(q, lo, hi)
  PROVE  /\ Num(Head(q)) = lo + 1 /\ lo + 1 <= hi
         /\ Numbered(Tail(q), lo + 1, hi)
         /\ Complete(q, lo, hi) => Complete(Tail(q), lo + 1, hi)
<1> DEFINE r == Tail(q)
<1>1. /\ Len(q) \in Nat \ {0} /\ Len(r) = Len(q) - 1 /\ Head(q) = q[1]
      /\ r \in Seq(Said) /\ \A i \in 1..Len(r) : r[i] = q[i + 1]
  BY LenProperties, HeadTailProperties, EmptySeq
<1>2. \A i \in 1..Len(q) : Num(q[i]) \in Nat BY NumOfElement
<1> HIDE DEF r
<1>3. lo < Num(q[1]) /\ Num(q[1]) <= hi BY <1>1, <1>2 DEF Numbered, Bounded
<1>4. Num(q[1]) = lo + 1
  <2>1. 1 \in 1..Len(q) /\ lo + 1 \in Nat /\ lo < lo + 1 /\ lo + 1 <= Num(q[1])
    BY <1>1, <1>2, <1>3
  <2>2. PICK j \in 1..1 : Num(q[j]) = lo + 1 BY <2>1 DEF Numbered, Gapless
  <2>3. j = 1 BY <2>2
  <2> QED BY <2>2, <2>3
<1>5. \A i \in 2..Len(q) : Num(q[i]) # 0 => lo + 1 < Num(q[i])
  <2> SUFFICES ASSUME NEW i \in 2..Len(q), Num(q[i]) # 0 PROVE lo + 1 < Num(q[i])
    OBVIOUS
  <2>1. 1 \in 1..Len(q) /\ i \in 1..Len(q) /\ 1 < i /\ Num(q[1]) # 0 BY <1>1, <1>4
  <2>2. Num(q[1]) < Num(q[i]) BY <2>1 DEF Numbered, Increasing
  <2> QED BY <2>2, <1>4
<1>6. Bounded(r, lo + 1, hi) BY <1>1, <1>5 DEF Numbered, Bounded
<1>7. Increasing(r)
  <2> SUFFICES ASSUME NEW i \in 1..Len(r), NEW j \in 1..Len(r), i < j,
                      Num(r[i]) # 0, Num(r[j]) # 0
               PROVE  Num(r[i]) < Num(r[j])
    BY DEF Increasing
  <2>1. i + 1 \in 1..Len(q) /\ j + 1 \in 1..Len(q) /\ i + 1 < j + 1 BY <1>1
  <2>2. r[i] = q[i + 1] /\ r[j] = q[j + 1] BY <1>1
  <2> QED BY <2>1, <2>2 DEF Numbered, Increasing
<1>8. Gapless(r, lo + 1)
  <2> SUFFICES ASSUME NEW i \in 1..Len(r), NEW n \in Nat, lo + 1 < n, n <= Num(r[i])
               PROVE  \E j \in 1..i : Num(r[j]) = n
    BY DEF Gapless
  <2>0. i + 1 \in 1..Len(q) /\ lo < n /\ n <= Num(q[i + 1]) BY <1>1
  <2>1. PICK j \in 1..(i + 1) : Num(q[j]) = n
    <3>1. \A h \in 1..Len(q), m \in Nat :
             lo < m /\ m <= Num(q[h]) => \E j \in 1..h : Num(q[j]) = m
      BY DEF Numbered, Gapless
    <3> QED BY <2>0, <3>1
  <2>2. j # 1 BY <2>1, <1>4
  <2>3. j - 1 \in 1..i /\ j - 1 \in 1..Len(r) /\ (j - 1) + 1 = j BY <2>1, <2>2
  <2>4. r[j - 1] = q[j] BY <2>3, <1>1
  <2> QED BY <2>1, <2>3, <2>4
<1>9. ASSUME Complete(q, lo, hi) PROVE Complete(r, lo + 1, hi)
  <2> SUFFICES ASSUME NEW n \in Nat, lo + 1 < n, n <= hi
               PROVE  \E j \in 1..Len(r) : Num(r[j]) = n
    BY DEF Complete
  <2>1. PICK j \in 1..Len(q) : Num(q[j]) = n BY <1>9 DEF Complete
  <2>2. j # 1 BY <2>1, <1>4
  <2>3. j - 1 \in 1..Len(r) /\ r[j - 1] = q[j] BY <2>1, <2>2, <1>1
  <2> QED BY <2>1, <2>3
<1> QED BY <1>1, <1>3, <1>4, <1>6, <1>7, <1>8, <1>9 DEF Numbered, r

(***************************************************************************)
(* Lemmas about the queues.                                                *)
(***************************************************************************)
\* What moves from the head of one queue to the end of the one before it stays
\* where it is on the way.
LEMMA MoveKeepsWay ==
  ASSUME NEW p \in Seq(Said), NEW s \in Seq(Said), NEW t \in Seq(Said), t # <<>>
  PROVE  p \o Append(s, Head(t)) \o Tail(t) = p \o s \o t
<1> DEFINE h == Head(t)  r == Tail(t)
<1>1. h \in Said /\ r \in Seq(Said) BY HeadTailProperties
<1>2. <<h>> \in Seq(Said) /\ p \o s \in Seq(Said) BY <1>1, ConcatProperties
<1>3. Append(s, h) = s \o <<h>> BY <1>1, AppendIsConcat
<1>4. <<h>> \o r = t
  <2>1. Len(<<h>>) = 1 /\ <<h>>[1] = h OBVIOUS
  <2>2. /\ <<h>> \o r \in Seq(Said) /\ Len(<<h>> \o r) = 1 + Len(r)
        /\ \A i \in 1..1 + Len(r) : (<<h>> \o r)[i] = IF i <= 1 THEN <<h>>[i] ELSE r[i - 1]
    BY <1>1, <1>2, <2>1, ConcatProperties
  <2>3. /\ Len(r) = Len(t) - 1 /\ Len(t) \in Nat \ {0} /\ h = t[1]
        /\ \A i \in 1..Len(r) : r[i] = t[i + 1]
    BY HeadTailProperties, LenProperties, EmptySeq
  <2>4. ASSUME NEW i \in 1..Len(t) PROVE (<<h>> \o r)[i] = t[i]
    <3>1. CASE i = 1 BY <3>1, <2>1, <2>2, <2>3
    <3>2. CASE i # 1
      <4>1. i - 1 \in 1..Len(r) /\ i \in 1..1 + Len(r) /\ ~(i <= 1) BY <3>2, <2>3
      <4>2. r[i - 1] = t[i] BY <4>1, <2>3
      <4> QED BY <4>1, <4>2, <2>2
    <3> QED BY <3>1, <3>2
  <2> QED BY <2>2, <2>3, <2>4, SeqEqual
<1> HIDE DEF h, r
<1>5. p \o (s \o <<h>>) = (p \o s) \o <<h>> BY <1>2, ConcatAssociative
<1>6. ((p \o s) \o <<h>>) \o r = (p \o s) \o (<<h>> \o r) BY <1>1, <1>2, ConcatAssociative
<1>7. p \o Append(s, h) \o r = p \o s \o t BY <1>3, <1>4, <1>5, <1>6
<1> QED BY <1>7 DEF h, r

\* The same for all sequences, as the steps below use it.
Moved(t, s) == Append(s, Head(t))
Rest(t) == Tail(t)

LEMMA MovesKeepWay ==
  /\ \A p, s, t \in Seq(Said) : t # <<>> => p \o Moved(t, s) \o Rest(t) = p \o s \o t
  /\ \A p, s, t \in Seq(Said) : p \o (s \o t) = p \o s \o t
<1>1. \A p, s, t \in Seq(Said) : t # <<>> => p \o Moved(t, s) \o Rest(t) = p \o s \o t
  <2> TAKE p, s, t \in Seq(Said)
  <2> HAVE t # <<>>
  <2> QED BY MoveKeepsWay DEF Moved, Rest
<1>2. \A p, s, t \in Seq(Said) : p \o (s \o t) = p \o s \o t
  <2> SUFFICES ASSUME NEW p \in Seq(Said), NEW s \in Seq(Said), NEW t \in Seq(Said)
               PROVE  p \o (s \o t) = (p \o s) \o t
    OBVIOUS
  <2>1. p \in Seq(Said) /\ s \in Seq(Said) /\ t \in Seq(Said) OBVIOUS
  <2> QED BY <2>1, ConcatAssociative
<1> QED BY ZenonT(30), <1>1, <1>2

\* Taking the head of the first queue takes the head of the whole way.
LEMMA HeadOfWay ==
  ASSUME NEW s \in Seq(Said), NEW t \in Seq(Said), s # <<>>
  PROVE  /\ s \o t \in Seq(Said) /\ s \o t # <<>>
         /\ Head(s \o t) = Head(s) /\ Tail(s \o t) = Tail(s) \o t
<1> DEFINE q == s \o t  r == Tail(s) \o t
<1>1. /\ Len(s) \in Nat \ {0} /\ Len(t) \in Nat /\ Head(s) = s[1]
      /\ Tail(s) \in Seq(Said) /\ Len(Tail(s)) = Len(s) - 1
      /\ \A i \in 1..Len(Tail(s)) : Tail(s)[i] = s[i + 1]
  BY LenProperties, HeadTailProperties, EmptySeq
<1>2. /\ q \in Seq(Said) /\ Len(q) = Len(s) + Len(t)
      /\ \A i \in 1..Len(s) + Len(t) : q[i] = IF i <= Len(s) THEN s[i] ELSE t[i - Len(s)]
  BY ConcatProperties
<1>3. /\ r \in Seq(Said) /\ Len(r) = Len(s) - 1 + Len(t)
      /\ \A i \in 1..Len(Tail(s)) + Len(t) :
           r[i] = IF i <= Len(Tail(s)) THEN Tail(s)[i] ELSE t[i - Len(Tail(s))]
  BY <1>1, ConcatProperties
<1> HIDE DEF q, r
<1>4. q # <<>> BY <1>1, <1>2, EmptySeq
<1>5. /\ Head(q) = q[1] /\ Tail(q) \in Seq(Said) /\ Len(Tail(q)) = Len(q) - 1
      /\ \A i \in 1..Len(Tail(q)) : Tail(q)[i] = q[i + 1]
  BY <1>2, <1>4, HeadTailProperties
<1>6. Head(q) = Head(s) BY <1>1, <1>2, <1>5
<1>7. ASSUME NEW i \in 1..Len(r) PROVE Tail(q)[i] = r[i]
  <2>1. i \in 1..Len(Tail(q)) /\ i + 1 \in 1..Len(s) + Len(t) /\ i \in 1..Len(Tail(s)) + Len(t)
    BY <1>1, <1>2, <1>3, <1>5
  <2>2. Tail(q)[i] = q[i + 1] BY <2>1, <1>5
  <2>3. CASE i <= Len(s) - 1
    <3>1. i \in 1..Len(Tail(s)) /\ i + 1 <= Len(s) BY <2>3, <1>1
    <3>2. q[i + 1] = s[i + 1] BY <3>1, <2>1, <1>2
    <3>3. r[i] = Tail(s)[i] BY <3>1, <2>1, <1>1, <1>3
    <3> QED BY <3>1, <3>2, <3>3, <2>2, <1>1
  <2>4. CASE ~(i <= Len(s) - 1)
    <3>1. ~(i <= Len(Tail(s))) /\ ~(i + 1 <= Len(s)) /\ i - Len(Tail(s)) = i + 1 - Len(s)
      BY <2>4, <1>1
    <3>2. q[i + 1] = t[i + 1 - Len(s)] BY <3>1, <2>1, <1>2
    <3>3. r[i] = t[i - Len(Tail(s))] BY <3>1, <2>1, <1>3
    <3> QED BY <3>1, <3>2, <3>3, <2>2
  <2> QED BY <2>3, <2>4
<1>8. Tail(q) = r BY <1>1, <1>2, <1>3, <1>5, <1>7, SeqEqual
<1> QED BY <1>2, <1>4, <1>6, <1>8 DEF q, r

(***************************************************************************)
(* Types.                                                                  *)
(***************************************************************************)
LEMMA Emptiness == \A S : <<>> \in Seq(S) /\ Len(<<>>) = 0
BY EmptySeq

LEMMA Constants ==
  /\ CmdCap \in Nat \ {0} /\ IncomingCap \in Nat \ {0}
  /\ MessageCap \in Nat \ {0} /\ SyncCap \in Nat \ {0}
  /\ MaxCommands \in Nat /\ MaxEvents \in Nat
  /\ Nil \notin Messages
BY DispatcherAssumption DEF DispatcherAssumption

LEMMA InitType == Init => TypeOK
<1> SUFFICES ASSUME Init PROVE TypeOK OBVIOUS
<1>1. 0 \in 0..MaxCommands /\ 0 \in 0..MaxEvents BY Constants
<1>2. QueuesOK BY Emptiness, Constants DEF Init, QueuesOK
<1> QED BY <1>1, <1>2 DEF Init, TypeOK

LEMMA StepType ==
  ASSUME TypeOK, Next
  PROVE  TypeOK'
<1> USE DEF TypeOK, QueuesOK, executors, chrome, browserRun, link, targetRun
<1>1. ASSUME NEW x \in Executors, SendCommand(x) PROVE TypeOK'
  <2>1. command[x] \in CommandIds /\ Len(cmdQueue) \in Nat
    BY <1>1, LenProperties DEF SendCommand
  <2>2. cmdQueue' \in Seq(CommandIds) /\ Len(cmdQueue') = Len(cmdQueue) + 1
    BY <1>1, <2>1, AppendProperties DEF SendCommand
  <2>3. Len(cmdQueue') <= CmdCap BY <1>1, <2>1, <2>2, Constants DEF SendCommand
  <2> QED BY <1>1, <2>2, <2>3 DEF SendCommand
<1>2. ASSUME NEW x \in Executors, GiveUp(x) PROVE TypeOK'
  BY <1>2 DEF GiveUp, Returns
<1>3. ASSUME NEW x \in Clients, CallExecute(x) PROVE TypeOK'
  <2>1. x \in Executors BY DEF Executors
  <2>2. next + 1 \in CommandIds /\ next + 1 \in 0..MaxCommands
    BY <1>3, Constants DEF CallExecute, StartExecute, CommandIds
  <2> QED BY <1>3, <2>1, <2>2 DEF CallExecute, StartExecute
<1>4. ASSUME NEW id \in CommandIds, AnswerCommand(id) PROVE TypeOK'
  <2>1. Answer(id) \in Messages \union {Detached} BY DEF Answer, Answers, Messages
  <2>2. wire' \in Seq(Messages \union {Detached}) BY <1>4, <2>1, AppendProperties DEF AnswerCommand
  <2> QED BY <1>4, <2>2 DEF AnswerCommand
<1>5. CASE EmitEvent
  <2>1. emitted' \in 1..MaxEvents /\ emitted' \in 0..MaxEvents BY <1>5, Constants DEF EmitEvent
  <2>2. PICK kind \in EventKinds : wire' = Append(wire, Event(emitted + 1, kind))
    BY <1>5 DEF EmitEvent
  <2>3. Event(emitted + 1, kind) \in Messages \union {Detached}
    BY <1>5, <2>1 DEF Event, Events, Messages, EmitEvent
  <2>4. wire' \in Seq(Messages \union {Detached}) BY <2>2, <2>3, AppendProperties
  <2> QED BY <1>5, <2>1, <2>4 DEF EmitEvent
<1>6. CASE Detach
  <2>1. wire' \in Seq(Messages \union {Detached}) BY <1>6, AppendProperties DEF Detach
  <2> QED BY <1>6, <2>1 DEF Detach
<1>17. CASE EmitSkipped
  <2>1. skipped' \in 0..MaxEvents BY <1>17, Constants DEF EmitSkipped
  <2>2. wire' \in Seq(Messages \union {Detached})
    BY <1>17, AppendProperties DEF EmitSkipped, Messages
  <2> QED BY <1>17, <2>1, <2>2 DEF EmitSkipped
<1>18. CASE SkipEvent
  <2>1. /\ Tail(messages) \in Seq(Messages) /\ Len(Tail(messages)) = Len(messages) - 1
        /\ Len(messages) \in Nat
    BY <1>18, HeadTailProperties, LenProperties DEF SkipEvent, ReceiverFree
  <2>2. Len(messages') <= MessageCap BY <1>18, <2>1, Constants DEF SkipEvent
  <2> QED BY <1>18, <2>1, <2>2 DEF SkipEvent
<1>19. CASE LoseConnection
  <2>1. /\ QueuesOK' BY <1>19, Emptiness, Constants DEF LoseConnection
  <2>2. delTab' \in BOOLEAN /\ connected' \in BOOLEAN /\ gone' \in BOOLEAN
    BY <1>19, Zenon DEF LoseConnection
  <2> QED BY <1>19, <2>1, <2>2 DEF LoseConnection
<1>7. CASE CancelContext
  <2>1. QueuesOK' BY <1>7, Emptiness, Constants DEF CancelContext
  <2>2. /\ delTab' \in BOOLEAN /\ attached' \in BOOLEAN /\ connected' \in BOOLEAN
        /\ gone' \in BOOLEAN /\ cancelled' \in BOOLEAN
    BY <1>7, Zenon DEF CancelContext
  <2> QED BY <1>7, <2>1, <2>2 DEF CancelContext
<1>8. CASE ReadMessage
  <2>1. /\ Head(wire) \in Messages \union {Detached}
        /\ wire' \in Seq(Messages \union {Detached})
    BY <1>8, HeadTailProperties DEF ReadMessage
  <2>2. CASE Head(wire) # Detached /\ Len(incoming) < IncomingCap
             /\ incoming' = Append(incoming, Head(wire)) /\ UNCHANGED delTab
    <3>1. incoming' \in Seq(Messages) /\ Len(incoming') = Len(incoming) + 1
      BY <2>1, <2>2, AppendProperties
    <3>2. Len(incoming') <= IncomingCap BY <2>2, <3>1, Constants, LenProperties
    <3> QED BY <1>8, <2>1, <2>2, <3>1, <3>2 DEF ReadMessage
  <2>3. CASE delTab' = TRUE /\ UNCHANGED incoming
    BY <1>8, <2>1, <2>3 DEF ReadMessage
  <2> QED BY <1>8, <2>2, <2>3 DEF ReadMessage
<1>9. CASE WriteCommand
  <2>1. /\ Head(cmdQueue) \in CommandIds /\ Tail(cmdQueue) \in Seq(CommandIds)
        /\ Len(Tail(cmdQueue)) = Len(cmdQueue) - 1 /\ Len(cmdQueue) \in Nat
    BY <1>9, HeadTailProperties, LenProperties DEF WriteCommand
  <2>2. Len(cmdQueue') <= CmdCap BY <1>9, <2>1, Constants DEF WriteCommand
  <2> QED BY <1>9, <2>1, <2>2 DEF WriteCommand
<1>10. CASE DeletePage
  BY <1>10 DEF DeletePage
<1>11. CASE RouteMessage
  <2>1. /\ Head(incoming) \in Messages /\ Tail(incoming) \in Seq(Messages)
        /\ Len(Tail(incoming)) = Len(incoming) - 1 /\ Len(incoming) \in Nat
    BY <1>11, HeadTailProperties, LenProperties DEF RouteMessage
  <2>2. Len(incoming') <= IncomingCap BY <1>11, <2>1, Constants DEF RouteMessage
  <2> QED BY <1>11, <2>1, <2>2 DEF RouteMessage
<1>12. CASE DeliverMessage
  <2>1. routing \in Messages BY <1>12 DEF DeliverMessage
  <2>2. messages' \in Seq(Messages) /\ Len(messages') = Len(messages) + 1
    BY <1>12, <2>1, AppendProperties DEF DeliverMessage
  <2>3. Len(messages') <= MessageCap
    BY <1>12, <2>2, Constants, LenProperties DEF DeliverMessage
  <2> QED BY <1>12, <2>2, <2>3 DEF DeliverMessage
<1>13. CASE ReceiveAnswer
  <2>1. /\ Tail(messages) \in Seq(Messages) /\ Len(Tail(messages)) = Len(messages) - 1
        /\ Len(messages) \in Nat
    BY <1>13, HeadTailProperties, LenProperties DEF ReceiveAnswer, ReceiverFree
  <2>2. Len(messages') <= MessageCap BY <1>13, <2>1, Constants DEF ReceiveAnswer
  <2> QED BY <1>13, <2>1, <2>2 DEF ReceiveAnswer
<1>14. CASE ReceiveEvent
  <2>1. /\ Head(messages) \in Messages
        /\ Tail(messages) \in Seq(Messages) /\ Len(Tail(messages)) = Len(messages) - 1
        /\ Len(messages) \in Nat
    BY <1>14, HeadTailProperties, LenProperties DEF ReceiveEvent, ReceiverFree
  <2>2. Len(messages') <= MessageCap BY <1>14, <2>1, Constants DEF ReceiveEvent
  <2>3. Head(messages) \in Events
    BY <1>14, <2>1 DEF ReceiveEvent, Messages, Answers, EventKinds, Skipped
  <2> QED BY <1>14, <2>1, <2>2, <2>3 DEF ReceiveEvent
<1>15. CASE PassEvent
  <2>1. holding \in Events BY <1>15 DEF PassEvent
  <2>2. syncQueue' \in Seq(Events) /\ Len(syncQueue') = Len(syncQueue) + 1
    BY <1>15, <2>1, AppendProperties DEF PassEvent
  <2>3. Len(syncQueue') <= SyncCap
    BY <1>15, <2>2, Constants, LenProperties DEF PassEvent
  <2> QED BY <1>15, <2>2, <2>3 DEF PassEvent
<1>16. CASE HandleEvent
  <2>1. /\ Head(syncQueue) \in Events
        /\ Tail(syncQueue) \in Seq(Events) /\ Len(Tail(syncQueue)) = Len(syncQueue) - 1
        /\ Len(syncQueue) \in Nat
    BY <1>16, HeadTailProperties, LenProperties DEF HandleEvent
  <2>2. Len(syncQueue') <= SyncCap BY <1>16, <2>1, Constants DEF HandleEvent
  <2>3. handled' \in 0..MaxEvents BY <1>16, <2>1, Constants DEF HandleEvent, Events
  <2>4. /\ next' \in 0..MaxCommands /\ command' \in [Executors -> 0..MaxCommands]
        /\ state' \in [Executors -> {"idle", "sending", "waiting"}]
        /\ \A x \in Executors : state'[x] # "idle" => command'[x] \in CommandIds
    <3>1. CASE StartExecute(Handler)
      <4>1. Handler \in Executors BY DEF Executors
      <4>2. next + 1 \in CommandIds /\ next + 1 \in 0..MaxCommands
        BY <3>1, Constants DEF StartExecute, CommandIds
      <4> QED BY <3>1, <4>1, <4>2 DEF StartExecute
    <3>2. CASE UNCHANGED executors BY <3>2
    <3> QED BY <1>16, <3>1, <3>2 DEF HandleEvent
  <2> QED BY <1>16, <2>1, <2>2, <2>3, <2>4 DEF HandleEvent
<1> QED BY <1>1, <1>2, <1>3, <1>4, <1>5, <1>6, <1>7, <1>8, <1>9, <1>10, <1>11, <1>12, <1>13,
           <1>14, <1>15, <1>16, <1>17, <1>18, <1>19
  DEF Next, Pipeline, Receiver

(***************************************************************************)
(* The way from Chrome to the handler.                                     *)
(***************************************************************************)
LEMMA WayTypes ==
  ASSUME TypeOK
  PROVE  /\ syncQueue \in Seq(Said) /\ Slot(holding) \in Seq(Said) /\ messages \in Seq(Said)
         /\ Slot(routing) \in Seq(Said) /\ incoming \in Seq(Said) /\ wire \in Seq(Said)
         /\ syncQueue \o Slot(holding) \in Seq(Said)
         /\ syncQueue \o Slot(holding) \o messages \in Seq(Said)
         /\ Routed \in Seq(Said) /\ Routed \o incoming \in Seq(Said)
         /\ InTransit \in Seq(Said) /\ InTransit = Routed \o incoming \o wire
         /\ handled \in Nat /\ emitted \in Nat
<1>1. /\ syncQueue \in Seq(Said) /\ messages \in Seq(Said)
      /\ incoming \in Seq(Said) /\ wire \in Seq(Said)
  BY SeqMonotonic DEF TypeOK, QueuesOK, Said, Messages
<1>2. Slot(holding) \in Seq(Said) /\ Slot(routing) \in Seq(Said)
  <2>1. holding \in Said \union {Nil} /\ routing \in Said \union {Nil}
    BY DEF TypeOK, QueuesOK, Said, Messages
  <2>2. \A m \in Said : <<m>> \in Seq(Said) OBVIOUS
  <2> QED BY <2>1, <2>2, Emptiness DEF Slot
<1>3. /\ syncQueue \o Slot(holding) \in Seq(Said)
      /\ syncQueue \o Slot(holding) \o messages \in Seq(Said)
      /\ Routed \in Seq(Said) /\ Routed \o incoming \in Seq(Said)
      /\ Routed \o incoming \o wire \in Seq(Said)
  BY <1>1, <1>2, ConcatProperties DEF Routed
<1>4. InTransit = Routed \o incoming \o wire BY DEF InTransit, Routed
<1>5. handled \in Nat /\ emitted \in Nat BY Constants DEF TypeOK
<1> QED BY <1>1, <1>2, <1>3, <1>4, <1>5

(***************************************************************************)
(* What each step of the reader, the router, the receiver and the handler  *)
(* does to the way.                                                        *)
(***************************************************************************)
\* The reader takes nothing from the way but the news of the detach.
LEMMA ReadMovesOn ==
  ASSUME TypeOK, ReadMessage
  PROVE  /\ Routed' = Routed
         /\ \/ InTransit' = InTransit
            \/ /\ InTransit' \in Seq(Said)
               /\ \E k : Leaves(k, InTransit, InTransit') /\ InTransit[k] = Detached
<1>1. UNCHANGED <<syncQueue, holding, messages, routing>>
  BY DEF ReadMessage, executors, chrome, browserRun, link, targetRun
<1>2. Routed' = Routed BY <1>1 DEF Routed, Slot
<1>3. InTransit' = Routed \o incoming' \o Tail(wire)
  BY <1>1 DEF InTransit, Routed, ReadMessage, Slot
<1>4. CASE incoming' = Append(incoming, Head(wire))
  <2>1. Routed \in Seq(Said) /\ incoming \in Seq(Said) /\ wire \in Seq(Said) /\ wire # <<>>
    BY WayTypes DEF ReadMessage
  <2>2. Routed \o Moved(wire, incoming) \o Rest(wire) = Routed \o incoming \o wire
    BY ZenonT(30), <2>1, MovesKeepWay
  <2>3. InTransit' = InTransit BY <1>3, <1>4, <2>2, WayTypes DEF Moved, Rest
  <2> QED BY <1>2, <2>3
<1>5. CASE Head(wire) = Detached /\ UNCHANGED incoming
  <2>1. <<>> \in Seq(Said) BY Emptiness
  <2>2. Tail(wire) \in Seq(Said) BY WayTypes, HeadTailProperties DEF ReadMessage
  <2>3. /\ (Routed \o incoming) \o wire \o <<>> = InTransit
        /\ (Routed \o incoming) \o Tail(wire) \o <<>> = InTransit'
    <3>1. Routed \o incoming \in Seq(Said) /\ wire \in Seq(Said)
          /\ InTransit = (Routed \o incoming) \o wire
      BY WayTypes
    <3>2. (Routed \o incoming) \o wire \in Seq(Said)
          /\ (Routed \o incoming) \o Tail(wire) \in Seq(Said)
      BY <2>2, <3>1, ConcatProperties
    <3> QED BY <1>3, <1>5, <3>1, <3>2, ConcatEmptySeq
  <2>4. wire # <<>> BY DEF ReadMessage
  <2>5. /\ InTransit' \in Seq(Said)
        /\ \E k : Leaves(k, InTransit, InTransit') /\ InTransit[k] = Detached
    <3>1. Routed \o incoming \in Seq(Said) /\ wire \in Seq(Said) BY WayTypes
    <3>2. /\ (Routed \o incoming) \o Tail(wire) \o <<>> \in Seq(Said)
          /\ \E k : /\ Leaves(k, (Routed \o incoming) \o wire \o <<>>,
                                 (Routed \o incoming) \o Tail(wire) \o <<>>)
                    /\ ((Routed \o incoming) \o wire \o <<>>)[k] = Head(wire)
      BY <2>1, <2>4, <3>1, HeadLeaves
    <3> QED BY <1>5, <2>3, <3>2
  <2> QED BY <1>2, <2>5
<1> QED BY <1>4, <1>5 DEF ReadMessage

\* The router takes nothing while the page is attached.
LEMMA RouteMovesOn ==
  ASSUME TypeOK, RouteMessage, Reachable
  PROVE  /\ InTransit' = InTransit /\ InTransit' = Routed' \o incoming' \o wire
         /\ Routed' \in Seq(Said) /\ incoming' \in Seq(Said)
<1>0. UNCHANGED <<syncQueue, holding, messages, wire>>
  BY DEF RouteMessage, chrome, targetRun
<1> DEFINE p == syncQueue \o Slot(holding) \o messages
<1>1. Head(incoming) \in Messages /\ Tail(incoming) \in Seq(Said)
  BY WayTypes, HeadTailProperties DEF RouteMessage, TypeOK, QueuesOK
<1>2. Slot(routing) = <<>> /\ Slot(routing') = <<Head(incoming)>>
  BY <1>1, Constants DEF RouteMessage, RouterFree, Slot, Reachable
<1>3. Routed = p \o <<>> /\ Routed' = p \o <<Head(incoming)>>
  BY <1>0, <1>2 DEF Routed
<1>4. <<Head(incoming)>> = Append(<<>>, Head(incoming)) /\ <<>> \in Seq(Said)
  BY Emptiness
<1>5. p \o <<Head(incoming)>> \o Tail(incoming) = p \o <<>> \o incoming
  <2>1. p \in Seq(Said) /\ incoming \in Seq(Said) /\ incoming # <<>>
    BY WayTypes DEF RouteMessage
  <2>2. p \o Moved(incoming, <<>>) \o Rest(incoming) = p \o <<>> \o incoming
    BY ZenonT(30), <1>4, <2>1, MovesKeepWay
  <2> QED BY <1>4, <2>2 DEF Moved, Rest
<1>6. InTransit' = Routed' \o Tail(incoming) \o wire
  BY <1>0 DEF InTransit, Routed, RouteMessage, Slot
<1>7. InTransit' = InTransit BY <1>3, <1>5, <1>6, WayTypes
<1>8. Routed' \in Seq(Said) BY <1>1, <1>3, WayTypes, ConcatProperties DEF Said
<1> QED BY <1>1, <1>6, <1>7, <1>8 DEF RouteMessage

LEMMA DeliverMovesOn ==
  ASSUME TypeOK, DeliverMessage
  PROVE  Routed' = Routed /\ InTransit' = InTransit
<1>1. UNCHANGED <<syncQueue, holding, incoming, wire>>
  BY DEF DeliverMessage, executors, chrome, browserRun, link, targetRun
<1> DEFINE p == syncQueue \o Slot(holding)
<1>2. Slot(routing) = <<routing>> /\ Slot(routing') = <<>> BY DEF DeliverMessage, Slot
<1>3. <<routing>> # <<>> /\ Head(<<routing>>) = routing /\ Tail(<<routing>>) = <<>>
  OBVIOUS
<1>4. p \o Append(messages, routing) \o <<>> = p \o messages \o <<routing>>
  <2>1. p \in Seq(Said) /\ messages \in Seq(Said) /\ <<routing>> \in Seq(Said) BY <1>2, WayTypes
  <2>2. p \o Moved(<<routing>>, messages) \o Rest(<<routing>>)
          = p \o messages \o <<routing>>
    BY ZenonT(30), <1>3, <2>1, MovesKeepWay
  <2> QED BY <1>3, <2>2 DEF Moved, Rest
<1>5. Routed' = p \o Append(messages, routing) \o <<>>
  BY <1>1, <1>2 DEF DeliverMessage, Routed
<1>6. Routed' = Routed BY <1>2, <1>4, <1>5 DEF Routed
<1>7. InTransit' = Routed' \o incoming \o wire BY <1>1 DEF InTransit, Routed, Slot
<1> QED BY <1>6, <1>7, WayTypes

\* The receiver takes the answer, or the event to skip, at the head of its queue.
LEMMA AnswerLeaves ==
  ASSUME TypeOK, ReceiveAnswer \/ SkipEvent
  PROVE  /\ Routed' \in Seq(Said) /\ InTransit' \in Seq(Said)
         /\ \E k : Leaves(k, Routed, Routed') /\ Routed[k] = Head(messages)
         /\ \E k : Leaves(k, InTransit, InTransit') /\ InTransit[k] = Head(messages)
<1>1. UNCHANGED <<syncQueue, holding, routing, incoming, wire>>
  BY DEF ReceiveAnswer, SkipEvent, executors, chrome, browserRun, link, targetRun
<1>2. messages # <<>> /\ messages' = Tail(messages)
  BY DEF ReceiveAnswer, SkipEvent, ReceiverFree
<1> DEFINE p == syncQueue \o Slot(holding)
           u == Slot(routing) \o incoming \o wire
<1>3. /\ p \in Seq(Said) /\ messages \in Seq(Said) /\ Slot(routing) \in Seq(Said)
      /\ incoming \in Seq(Said) /\ wire \in Seq(Said) /\ Tail(messages) \in Seq(Said)
      /\ Slot(routing) \o incoming \in Seq(Said) /\ u \in Seq(Said)
  BY <1>2, WayTypes, HeadTailProperties, ConcatProperties
<1>4. /\ Routed = p \o messages \o Slot(routing)
      /\ Routed' = p \o Tail(messages) \o Slot(routing)
  BY <1>1, <1>2 DEF Routed, Slot
<1>5. /\ Routed' \in Seq(Said)
      /\ \E k : Leaves(k, Routed, Routed') /\ Routed[k] = Head(messages)
  <2>1. /\ p \o Tail(messages) \o Slot(routing) \in Seq(Said)
        /\ \E k : /\ Leaves(k, p \o messages \o Slot(routing), p \o Tail(messages) \o Slot(routing))
                  /\ (p \o messages \o Slot(routing))[k] = Head(messages)
    <3> HIDE DEF p
    <3>1. p \in Seq(Said) /\ messages \in Seq(Said) /\ Slot(routing) \in Seq(Said)
      BY <1>3
    <3> QED BY <1>2, <3>1, HeadLeaves
  <2> QED BY <2>1, <1>4
<1>6. ASSUME NEW q \in Seq(Said)
      PROVE  q \o Slot(routing) \o incoming \o wire = q \o u
  <2>1. /\ Slot(routing) \in Seq(Said) /\ incoming \in Seq(Said) /\ wire \in Seq(Said)
        /\ Slot(routing) \o incoming \in Seq(Said)
    BY <1>3
  <2>0. \A s, t \in Seq(Said) : q \o (s \o t) = q \o s \o t BY MovesKeepWay
  <2>2. q \o (Slot(routing) \o incoming) = q \o Slot(routing) \o incoming
    BY <2>0, <2>1
  <2>3. q \o ((Slot(routing) \o incoming) \o wire) = q \o (Slot(routing) \o incoming) \o wire
    BY <2>0, <2>1
  <2> QED BY <2>2, <2>3
<1>7. p \o messages \in Seq(Said) /\ p \o Tail(messages) \in Seq(Said)
  BY <1>3, ConcatProperties
<1>8. InTransit = p \o messages \o u BY <1>6, <1>7 DEF InTransit
<1>9. InTransit' = p \o Tail(messages) \o Slot(routing) \o incoming \o wire
  BY <1>1, <1>2 DEF InTransit, Slot
<1>10. InTransit' = p \o Tail(messages) \o u BY <1>6, <1>7, <1>9
<1> HIDE DEF u
<1>11. /\ InTransit' \in Seq(Said)
       /\ \E k : Leaves(k, InTransit, InTransit') /\ InTransit[k] = Head(messages)
  <2>1. /\ p \o Tail(messages) \o u \in Seq(Said)
        /\ \E k : /\ Leaves(k, p \o messages \o u, p \o Tail(messages) \o u)
                  /\ (p \o messages \o u)[k] = Head(messages)
    <3> HIDE DEF p
    <3>1. p \in Seq(Said) /\ messages \in Seq(Said) /\ u \in Seq(Said) BY <1>3
    <3> QED BY <1>2, <3>1, HeadLeaves, ZenonT(60)
  <2> QED BY <2>1, <1>8, <1>10
<1> QED BY <1>5, <1>11

LEMMA ReceiveMovesOn ==
  ASSUME TypeOK, ReceiveEvent
  PROVE  Routed' = Routed /\ InTransit' = InTransit
<1>1. UNCHANGED <<syncQueue, routing, incoming, wire>>
  BY DEF ReceiveEvent, executors, chrome, browserRun, link, targetRun
<1>2. /\ messages # <<>> /\ messages' = Tail(messages)
      /\ holding = Nil /\ holding' = Head(messages) /\ Head(messages) # Nil
  BY HeadTailProperties, Constants
  DEF ReceiveEvent, ReceiverFree, TypeOK, QueuesOK
<1>3. Slot(holding) = <<>> /\ Slot(holding') = Moved(messages, <<>>)
  BY <1>2 DEF Slot, Moved
<1>4. <<>> \in Seq(Said) /\ syncQueue \in Seq(Said) /\ messages \in Seq(Said)
  BY Emptiness, WayTypes
<1>5. syncQueue \o Moved(messages, <<>>) \o Rest(messages) = syncQueue \o <<>> \o messages
  BY ZenonT(30), <1>2, <1>4, MovesKeepWay
<1>6. syncQueue' \o Slot(holding') \o messages' = syncQueue \o Slot(holding) \o messages
  BY <1>1, <1>2, <1>3, <1>5 DEF Rest
<1>7. Slot(routing') = Slot(routing) BY <1>1
<1>8. Routed' = Routed BY <1>6, <1>7 DEF Routed
<1>9. InTransit' = InTransit BY <1>1, <1>6, <1>7 DEF InTransit
<1> QED BY <1>8, <1>9

LEMMA PassMovesOn ==
  ASSUME TypeOK, PassEvent
  PROVE  Routed' = Routed /\ InTransit' = InTransit
<1>1. UNCHANGED <<messages, routing, incoming, wire>>
  BY DEF PassEvent, executors, chrome, browserRun, link, targetRun
<1>2. Slot(holding) = <<holding>> /\ Slot(holding') = <<>> BY DEF PassEvent, Slot
<1>3. /\ syncQueue \in Seq(Said) /\ <<holding>> \in Seq(Said) /\ <<>> \in Seq(Said)
      /\ <<holding>> # <<>>
  BY <1>2, WayTypes, Emptiness
<1>4. <<>> \o Moved(<<holding>>, syncQueue) \o Rest(<<holding>>)
        = <<>> \o syncQueue \o <<holding>>
  BY ZenonT(30), <1>3, MovesKeepWay
<1>5. Moved(<<holding>>, syncQueue) = syncQueue' /\ Rest(<<holding>>) = <<>>
  BY DEF Moved, Rest, PassEvent
<1>6. syncQueue' \in Seq(Said)
  BY <1>3, AppendProperties DEF PassEvent
<1>7. syncQueue' \o Slot(holding') = syncQueue \o Slot(holding)
  BY <1>2, <1>3, <1>4, <1>5, <1>6, ConcatEmptySeq
<1>8. Slot(routing') = Slot(routing) BY <1>1
<1>9. Routed' = Routed BY <1>1, <1>7, <1>8 DEF Routed
<1>10. InTransit' = InTransit BY <1>1, <1>7, <1>8 DEF InTransit
<1> QED BY <1>9, <1>10

\* The handler takes what is at the head of the way.
LEMMA HandleTakesHead ==
  ASSUME TypeOK, HandleEvent
  PROVE  /\ Routed # <<>> /\ Head(Routed) = Head(syncQueue) /\ Routed' = Tail(Routed)
         /\ InTransit # <<>> /\ Head(InTransit) = Head(syncQueue) /\ InTransit' = Tail(InTransit)
<1> DEFINE a == syncQueue
<1>1. UNCHANGED <<messages, holding, routing, incoming, wire>>
  BY DEF HandleEvent, chrome, browserRun, link
<1>2. a # <<>> /\ a' = Tail(a) BY DEF HandleEvent
<1>5. ASSUME NEW s \in Seq(Said), s # <<>>, NEW t \in Seq(Said)
      PROVE  /\ s \o t \in Seq(Said) /\ s \o t # <<>>
             /\ Head(s \o t) = Head(s) /\ Tail(s \o t) = Tail(s) \o t
  BY <1>5, HeadOfWay
<1> DEFINE b == a \o Slot(holding)  c == b \o messages  d == Routed  e == d \o incoming
<1>6. /\ a \in Seq(Said) /\ b \in Seq(Said) /\ c \in Seq(Said) /\ d \in Seq(Said)
      /\ e \in Seq(Said) /\ InTransit \in Seq(Said)
      /\ Slot(holding) \in Seq(Said) /\ messages \in Seq(Said) /\ Slot(routing) \in Seq(Said)
      /\ incoming \in Seq(Said) /\ wire \in Seq(Said)
      /\ d = c \o Slot(routing) /\ InTransit = e \o wire
  BY WayTypes DEF Routed
<1> HIDE DEF a, b, c, d, e
<1>7. b # <<>> /\ Head(b) = Head(a) /\ Tail(b) = Tail(a) \o Slot(holding)
  BY <1>2, <1>5, <1>6 DEF b
<1>8. c # <<>> /\ Head(c) = Head(a) /\ Tail(c) = Tail(a) \o Slot(holding) \o messages
  <2>1. b \in Seq(Said) /\ b # <<>> /\ messages \in Seq(Said) BY <1>6, <1>7
  <2>2. b \o messages # <<>> /\ Head(b \o messages) = Head(b)
        /\ Tail(b \o messages) = Tail(b) \o messages
    BY <2>1, <1>5
  <2> QED BY <2>2, <1>7 DEF c
<1>9. /\ d # <<>> /\ Head(d) = Head(a)
      /\ Tail(d) = Tail(a) \o Slot(holding) \o messages \o Slot(routing)
  <2>1. c \in Seq(Said) /\ c # <<>> /\ Slot(routing) \in Seq(Said) BY <1>6, <1>8
  <2>2. c \o Slot(routing) # <<>> /\ Head(c \o Slot(routing)) = Head(c)
        /\ Tail(c \o Slot(routing)) = Tail(c) \o Slot(routing)
    BY <2>1, <1>5
  <2> QED BY <2>2, <1>6, <1>8
<1>10. Routed' = Tail(Routed)
  BY <1>1, <1>2, <1>9 DEF Routed, Slot, a, d
<1>11. e # <<>> /\ Head(e) = Head(a) /\ Tail(e) = Tail(d) \o incoming
  <2>1. d \in Seq(Said) /\ d # <<>> /\ incoming \in Seq(Said) BY <1>6, <1>9
  <2>2. d \o incoming # <<>> /\ Head(d \o incoming) = Head(d)
        /\ Tail(d \o incoming) = Tail(d) \o incoming
    BY <2>1, <1>5
  <2> QED BY <2>2, <1>9 DEF e
<1>12. /\ InTransit # <<>> /\ Head(InTransit) = Head(a)
       /\ Tail(InTransit) = Tail(d) \o incoming \o wire
  <2>1. e \in Seq(Said) /\ e # <<>> /\ wire \in Seq(Said) BY <1>6, <1>11
  <2>2. e \o wire # <<>> /\ Head(e \o wire) = Head(e) /\ Tail(e \o wire) = Tail(e) \o wire
    BY <2>1, <1>5
  <2> QED BY <2>2, <1>6, <1>11
<1>13. InTransit' = Tail(InTransit)
  BY <1>1, <1>2, <1>9, <1>12 DEF InTransit, Slot, a
<1> QED BY <1>9, <1>10, <1>12, <1>13 DEF a, d

(***************************************************************************)
(* The events in transit stay in order.                                    *)
(***************************************************************************)
\* A step that leaves the way from Chrome to the handler alone.
LEMMA SameWay ==
  ASSUME Order, UNCHANGED <<syncQueue, holding, messages, routing, incoming, wire>>,
         UNCHANGED <<emitted, handled>>, Reachable' => Reachable
  PROVE  Order'
<1>1. Routed' = Routed /\ InTransit' = InTransit BY DEF Routed, InTransit, Slot
<1> QED BY <1>1 DEF Order

\* A step that moves a message along the way.
LEMMA MovedAlong ==
  ASSUME TypeOK, Order, UNCHANGED <<emitted, handled, Reachable>>,
         Routed' = Routed, InTransit' = InTransit
  PROVE  Order'
BY DEF Order

\* Chrome says something.
LEMMA WayGrows ==
  ASSUME TypeOK, NEW m \in Said, wire' = Append(wire, m),
         UNCHANGED <<syncQueue, holding, messages, routing, incoming>>
  PROVE  Routed' = Routed /\ InTransit' = InTransit \o <<m>>
<1>1. Routed' = Routed BY DEF Routed, Slot
<1>2. InTransit' = Routed \o incoming \o wire' BY DEF InTransit, Routed, Slot
<1>3. wire' = wire \o <<m>> /\ <<m>> \in Seq(Said) BY WayTypes, AppendIsConcat
<1>4. (Routed \o incoming) \o (wire \o <<m>>) = ((Routed \o incoming) \o wire) \o <<m>>
  <2>1. Routed \o incoming \in Seq(Said) /\ wire \in Seq(Said) BY WayTypes
  <2> QED BY <1>3, <2>1, MovesKeepWay
<1> QED BY <1>1, <1>2, <1>3, <1>4, WayTypes

LEMMA ChromeKeepsOrder ==
  ASSUME TypeOK, Order, EmitEvent \/ EmitSkipped \/ Detach \/ \E id \in CommandIds : AnswerCommand(id)
  PROVE  Order'
<1> USE WayTypes DEF executors, browserRun, link, targetRun
<1>1. ASSUME NEW m \in Said, Num(m) = 0, wire' = Append(wire, m),
             UNCHANGED <<syncQueue, holding, messages, routing, incoming>>,
             UNCHANGED <<emitted, handled, Reachable>>
      PROVE  Order'
  <2>1. Routed' = Routed /\ InTransit' = InTransit \o <<m>> BY <1>1, WayGrows
  <2>2. Reachable => Numbered(InTransit', handled, emitted) /\ Complete(InTransit', handled, emitted)
    BY <1>1, <2>1, AppendOther DEF Order
  <2> QED BY <1>1, <2>1, <2>2 DEF Order
<1>2. ASSUME NEW id \in CommandIds, AnswerCommand(id) PROVE Order'
  <2>1. Answer(id) \in Answers BY DEF Answer, Answers
  <2>2. Answer(id) \in Said /\ Num(Answer(id)) = 0 BY <2>1, NumType DEF Said, Messages
  <2> QED BY <1>1, <1>2, <2>2 DEF AnswerCommand, Reachable
<1>3. CASE Detach
  <2>1. Detached \in Said /\ Num(Detached) = 0 BY NumType DEF Said
  <2> QED BY <1>1, <1>3, <2>1 DEF Detach, Reachable
<1>5. CASE EmitSkipped
  <2>1. Skipped \in Said /\ Num(Skipped) = 0 BY NumType DEF Said, Messages
  <2> QED BY <1>1, <1>5, <2>1 DEF EmitSkipped, Reachable
<1>4. CASE EmitEvent
  <2>1. PICK kind \in EventKinds : wire' = Append(wire, Event(emitted + 1, kind))
    BY <1>4 DEF EmitEvent
  <2> DEFINE m == Event(emitted + 1, kind)
  <2>2. m \in Events BY <1>4, Constants DEF EmitEvent, Event, Events, TypeOK
  <2>3. m \in Said /\ Num(m) = emitted + 1 BY <2>2, NumType DEF Said, Messages, Event
  <2> HIDE DEF m
  <2>4. /\ UNCHANGED <<syncQueue, holding, messages, routing, incoming, handled, Reachable>>
        /\ emitted' = emitted + 1 /\ wire' = Append(wire, m)
    BY <1>4, <2>1 DEF EmitEvent, m, Reachable
  <2>5. Routed' = Routed /\ InTransit' = InTransit \o <<m>> BY <2>3, <2>4, WayGrows
  <2>6. Reachable => /\ Numbered(InTransit', handled, emitted + 1)
                    /\ Complete(InTransit', handled, emitted + 1)
    BY <2>3, <2>5, AppendEvent DEF Order
  <2>7. Numbered(Routed, handled, emitted + 1)
    <3>1. \A i \in 1..Len(Routed) : Num(Routed[i]) \in Nat BY NumOfElement
    <3>2. Bounded(Routed, handled, emitted + 1) BY <3>1 DEF Order, Numbered, Bounded
    <3> QED BY <3>2 DEF Order, Numbered
  <2>8. handled <= emitted + 1 BY DEF Order
  <2>9. /\ Numbered(Routed', handled', emitted') /\ handled' <= emitted'
        /\ Reachable' => /\ Numbered(InTransit', handled', emitted')
                         /\ Complete(InTransit', handled', emitted')
    BY <2>4, <2>5, <2>6, <2>7, <2>8
  <2> QED BY <2>9 DEF Order
<1> QED BY <1>2, <1>3, <1>4, <1>5

LEMMA BrowserRunKeepsOrder ==
  ASSUME TypeOK, Order, ReadMessage \/ RouteMessage \/ DeliverMessage
  PROVE  Order'
<1> USE DEF executors, chrome, link, targetRun
<1>1. CASE ReadMessage
  <2>1. UNCHANGED <<emitted, handled, Reachable>> BY <1>1 DEF ReadMessage, Reachable
  <2>2. Routed' = Routed BY <1>1, ReadMovesOn
  <2>3. CASE InTransit' = InTransit BY <2>1, <2>2, <2>3, MovedAlong
  <2>4. CASE /\ InTransit' \in Seq(Said)
             /\ \E k : Leaves(k, InTransit, InTransit') /\ InTransit[k] = Detached
    <3>1. PICK k : Leaves(k, InTransit, InTransit') /\ InTransit[k] = Detached BY <2>4
    <3>3. /\ Numbered(InTransit, handled, emitted) => Numbered(InTransit', handled, emitted)
          /\ Complete(InTransit, handled, emitted) => Complete(InTransit', handled, emitted)
      BY <2>4, <3>1, WayTypes, NumType, OtherLeaves
    <3> QED BY <2>1, <2>2, <3>3 DEF Order
  <2> QED BY <1>1, <2>3, <2>4, ReadMovesOn
<1>2. CASE RouteMessage
  <2>1. UNCHANGED <<syncQueue, holding, messages, wire, emitted, handled, Reachable>>
    BY <1>2 DEF RouteMessage, Reachable
  <2>2. CASE ~Reachable
    <3>1. Routed' = Routed
      BY <1>2, <2>1, <2>2 DEF RouteMessage, RouterFree, Routed, Slot, Reachable
    <3> QED BY <2>1, <2>2, <3>1 DEF Order
  <2>3. CASE Reachable
    <3>1. /\ InTransit' = InTransit /\ InTransit' = Routed' \o incoming' \o wire
          /\ Routed' \in Seq(Said) /\ incoming' \in Seq(Said)
      BY <1>2, <2>3, RouteMovesOn
    <3>2. Routed' \o incoming' \in Seq(Said) BY <3>1, ConcatProperties
    <3>3. wire \in Seq(Said) /\ handled \in Nat /\ emitted \in Nat BY WayTypes
    <3>4. Numbered(Routed' \o incoming' \o wire, handled, emitted)
      BY <2>3, <3>1 DEF Order
    <3>5. Numbered(Routed' \o incoming', handled, emitted)
      BY <3>2, <3>3, <3>4, PrefixNumbered
    <3>6. Numbered(Routed', handled, emitted) BY <3>1, <3>3, <3>5, PrefixNumbered
    <3> QED BY <2>1, <3>1, <3>6 DEF Order
  <2> QED BY <2>2, <2>3
<1>3. CASE DeliverMessage
  <2>1. UNCHANGED <<emitted, handled, Reachable>> BY <1>3 DEF DeliverMessage, Reachable
  <2> QED BY <1>3, <2>1, DeliverMovesOn, MovedAlong
<1> QED BY <1>1, <1>2, <1>3

LEMMA TargetRunKeepsOrder ==
  ASSUME TypeOK, Order, Receiver
  PROVE  Order'
<1> USE DEF executors, chrome, browserRun, link
<1>1. CASE ReceiveAnswer \/ SkipEvent
  <2>1. UNCHANGED <<emitted, handled, Reachable>>
    BY <1>1 DEF ReceiveAnswer, SkipEvent, Reachable
  <2>2. Num(Head(messages)) = 0
    BY <1>1, NumType DEF ReceiveAnswer, SkipEvent, Num, EventKinds
  <2>3. PICK j : Leaves(j, Routed, Routed') /\ Routed[j] = Head(messages) BY <1>1, AnswerLeaves
  <2>4. PICK k : Leaves(k, InTransit, InTransit') /\ InTransit[k] = Head(messages)
    BY <1>1, AnswerLeaves
  <2>5. Routed' \in Seq(Said) /\ InTransit' \in Seq(Said)
    BY <1>1, AnswerLeaves
  <2>6. Numbered(Routed', handled, emitted)
    BY <2>2, <2>3, <2>5, WayTypes, OtherLeaves DEF Order
  <2>7. /\ Numbered(InTransit, handled, emitted) => Numbered(InTransit', handled, emitted)
        /\ Complete(InTransit, handled, emitted) => Complete(InTransit', handled, emitted)
    BY <2>2, <2>4, <2>5, WayTypes, OtherLeaves
  <2> QED BY <2>1, <2>6, <2>7 DEF Order
<1>2. CASE ReceiveEvent
  <2>1. UNCHANGED <<emitted, handled, Reachable>> BY <1>2 DEF ReceiveEvent, Reachable
  <2> QED BY <1>2, <2>1, ReceiveMovesOn, MovedAlong
<1>3. CASE PassEvent
  <2>1. UNCHANGED <<emitted, handled, Reachable>> BY <1>3 DEF PassEvent, Reachable
  <2> QED BY <1>3, <2>1, PassMovesOn, MovedAlong
<1> QED BY <1>1, <1>2, <1>3 DEF Receiver

\* The handler takes the next event.
LEMMA HandleKeepsOrder ==
  ASSUME TypeOK, Order, HandleEvent
  PROVE  /\ Order'
         /\ handled' = handled + 1 /\ handled' <= emitted /\ emitted' = emitted
<1> DEFINE a == syncQueue
<1>1. UNCHANGED <<emitted, Reachable>> BY DEF HandleEvent, chrome, browserRun, link, Reachable
<1>2. a # <<>> /\ handled' = Head(a).n BY DEF HandleEvent
<1>3. Head(a) \in Events BY <1>2, HeadTailProperties DEF TypeOK, QueuesOK
<1>4. Num(Head(a)) = handled' /\ Num(Head(a)) # 0 BY <1>2, <1>3, NumType
<1>5. /\ Routed \in Seq(Said) /\ InTransit \in Seq(Said) /\ handled \in Nat /\ emitted \in Nat
  BY WayTypes
<1>6. /\ Routed # <<>> /\ Head(Routed) = Head(a) /\ Routed' = Tail(Routed)
      /\ InTransit # <<>> /\ Head(InTransit) = Head(a) /\ InTransit' = Tail(InTransit)
  BY HandleTakesHead
<1> HIDE DEF a
<1>7. /\ handled' = handled + 1 /\ handled + 1 <= emitted
      /\ Numbered(Routed', handled + 1, emitted)
  BY <1>4, <1>5, <1>6, HeadIsNext DEF Order
<1>8. Reachable => /\ Numbered(InTransit', handled + 1, emitted)
                  /\ Complete(InTransit', handled + 1, emitted)
  BY <1>4, <1>5, <1>6, HeadIsNext DEF Order
<1> QED BY <1>1, <1>7, <1>8 DEF Order

LEMMA EmptyNumbered ==
  ASSUME NEW lo \in Nat, NEW hi \in Nat
  PROVE  Numbered(<<>>, lo, hi) /\ (lo = hi => Complete(<<>>, lo, hi))
BY Emptiness DEF Numbered, Bounded, Increasing, Gapless, Complete

LEMMA OrderStep ==
  ASSUME TypeOK, Order, Next
  PROVE  Order'
<1>1. CASE \E x \in Executors : SendCommand(x) \/ GiveUp(x)
  BY <1>1, SameWay DEF SendCommand, GiveUp, chrome, browserRun, link, targetRun, Reachable
<1>2. CASE \E x \in Clients : CallExecute(x)
  BY <1>2, SameWay DEF CallExecute, chrome, browserRun, link, targetRun, Reachable
<1>3. CASE WriteCommand \/ DeletePage
  BY <1>3, SameWay DEF WriteCommand, DeletePage, chrome, browserRun, link, targetRun, Reachable
<1>4. CASE CancelContext
  <2>1. /\ syncQueue' = <<>> /\ Slot(holding') = <<>> /\ messages' = <<>> /\ Slot(routing') = <<>>
        /\ Reachable' = FALSE /\ UNCHANGED <<emitted, handled>>
    BY <1>4 DEF CancelContext, Slot, Reachable
  <2>2. <<>> \o <<>> \o <<>> \o <<>> = <<>>
    <3>1. <<>> \in Seq(Said) BY Emptiness
    <3>2. <<>> \o <<>> = <<>> BY <3>1, ConcatEmptySeq
    <3> QED BY <3>2
  <2>3. Routed' = <<>> BY <2>1, <2>2 DEF Routed
  <2> QED BY <2>1, <2>3, EmptyNumbered, WayTypes DEF Order
<1>5. CASE LoseConnection
  <2>1. Routed' = Routed BY <1>5 DEF LoseConnection, targetRun, Routed, Slot
  <2>2. ~Reachable' /\ UNCHANGED <<emitted, handled>>
    BY <1>5 DEF LoseConnection, targetRun, Reachable
  <2> QED BY <2>1, <2>2 DEF Order
<1> QED
  BY <1>1, <1>2, <1>3, <1>4, <1>5, ChromeKeepsOrder, BrowserRunKeepsOrder, TargetRunKeepsOrder,
     HandleKeepsOrder
  DEF Next, Pipeline, Receiver

(***************************************************************************)
(* Every command is in one place: queued, pending at Chrome, answered, or  *)
(* one that could not be written.                                          *)
(***************************************************************************)
Has(q, e) == \E i \in 1..Len(q) : q[i] = e
Once(q, e) == \A i, j \in 1..Len(q) : q[i] = e /\ q[j] = e => i = j

Queued(id) == Has(cmdQueue, id)
Answered(id) == Has(InTransit, Answer(id))
Somewhere(id) == Queued(id) \/ id \in pending \/ Answered(id) \/ id \in unwritten

InOnePlace(id) ==
  /\ Once(cmdQueue, id) /\ Once(InTransit, Answer(id))
  /\ ~(Queued(id) /\ id \in pending) /\ ~(Queued(id) /\ Answered(id))
  /\ ~(id \in pending /\ Answered(id))
  /\ id \in unwritten => ~Queued(id) /\ id \notin pending /\ ~Answered(id)

\* The numbers of the Executes are their own, ...
OwnNumbers ==
  /\ \A x \in Executors : state[x] # "idle" => command[x] <= next
  /\ \A x, y \in Executors :
       state[x] # "idle" /\ state[y] # "idle" /\ command[x] = command[y] => x = y

\* ... and so are the answers.
Places ==
  /\ \A id \in CommandIds : InOnePlace(id) /\ (Somewhere(id) => id <= next)
  /\ \A x \in Executors :
       /\ state[x] = "sending" => ~Somewhere(command[x])
       /\ state[x] = "waiting" => Somewhere(command[x])

Conversations == OwnNumbers /\ (Reachable => Places)

LEMMA AppendJoins ==
  ASSUME NEW S, NEW q \in Seq(S), NEW a \in S, NEW e
  PROVE  /\ Has(Append(q, a), e) <=> Has(q, e) \/ a = e
         /\ Once(q, e) /\ (a # e \/ ~Has(q, e)) => Once(Append(q, a), e)
<1> DEFINE r == Append(q, a)
<1>1. /\ Len(q) \in Nat /\ Len(r) = Len(q) + 1
      /\ \A i \in 1..Len(q) : r[i] = q[i]
      /\ r[Len(q) + 1] = a
  BY AppendProperties, LenProperties
<1> HIDE DEF r
<1>2. \A i \in 1..Len(r) : i \in 1..Len(q) \/ i = Len(q) + 1 BY <1>1
<1>3. Has(r, e) <=> Has(q, e) \/ a = e
  <2>1. ASSUME Has(q, e) PROVE Has(r, e)
    <3>1. PICK i \in 1..Len(q) : q[i] = e BY <2>1 DEF Has
    <3>2. i \in 1..Len(r) /\ r[i] = e BY <3>1, <1>1
    <3> QED BY <3>2 DEF Has
  <2>2. ASSUME a = e PROVE Has(r, e)
    <3>1. Len(q) + 1 \in 1..Len(r) BY <1>1
    <3> QED BY <2>2, <3>1, <1>1 DEF Has
  <2>3. ASSUME Has(r, e) PROVE Has(q, e) \/ a = e
    <3>1. PICK i \in 1..Len(r) : r[i] = e BY <2>3 DEF Has
    <3> QED BY <3>1, <1>1, <1>2 DEF Has
  <2> QED BY <2>1, <2>2, <2>3
<1>4. ASSUME Once(q, e), a # e \/ ~Has(q, e) PROVE Once(r, e)
  <2> SUFFICES ASSUME NEW i \in 1..Len(r), NEW j \in 1..Len(r), r[i] = e, r[j] = e
               PROVE  i = j
    BY DEF Once
  <2>1. CASE i \in 1..Len(q) /\ j \in 1..Len(q)
    <3>1. q[i] = e /\ q[j] = e BY <2>1, <1>1
    <3> QED BY <2>1, <3>1, <1>4 DEF Once
  <2>2. CASE i = Len(q) + 1
    <3>1. a = e /\ ~Has(q, e) BY <2>2, <1>1, <1>4
    <3>2. j \notin 1..Len(q) BY <3>1, <1>1 DEF Has
    <3> QED BY <2>2, <3>2, <1>2
  <2>3. CASE j = Len(q) + 1
    <3>1. a = e /\ ~Has(q, e) BY <2>3, <1>1, <1>4
    <3>2. i \notin 1..Len(q) BY <3>1, <1>1 DEF Has
    <3> QED BY <2>3, <3>2, <1>2
  <2> QED BY <2>1, <2>2, <2>3, <1>2
<1> QED BY <1>3, <1>4 DEF r

LEMMA LeavesPlace ==
  ASSUME NEW S, NEW longer \in Seq(S), NEW shorter \in Seq(S), NEW k,
         Leaves(k, longer, shorter), NEW e, Once(longer, e)
  PROVE  /\ Once(shorter, e)
         /\ Has(shorter, e) <=> Has(longer, e) /\ longer[k] # e
         /\ Has(longer, longer[k])
<1>1. /\ Len(shorter) \in Nat /\ Len(longer) = Len(shorter) + 1 /\ k \in 1..Len(longer)
      /\ \A i \in 1..Len(shorter) : shorter[i] = IF i < k THEN longer[i] ELSE longer[i + 1]
  BY LenProperties DEF Leaves
<1> DEFINE Old(i) == IF i < k THEN i ELSE i + 1
<1>2. \A i \in 1..Len(shorter) : Old(i) \in 1..Len(longer) /\ Old(i) # k /\ shorter[i] = longer[Old(i)]
  BY <1>1
<1>3. \A i, j \in 1..Len(shorter) : Old(i) = Old(j) => i = j BY <1>1
<1>4. \A j \in 1..Len(longer) : j # k => \E i \in 1..Len(shorter) : Old(i) = j
  <2> SUFFICES ASSUME NEW j \in 1..Len(longer), j # k
               PROVE  \E i \in 1..Len(shorter) : Old(i) = j
    OBVIOUS
  <2>1. CASE j < k
    <3>1. j \in 1..Len(shorter) /\ Old(j) = j BY <2>1, <1>1
    <3> QED BY <3>1
  <2>2. CASE ~(j < k)
    <3>1. j - 1 \in 1..Len(shorter) /\ Old(j - 1) = j BY <2>2, <1>1
    <3> QED BY <3>1
  <2> QED BY <2>1, <2>2
<1> HIDE DEF Old
<1>5. \A i, j \in 1..Len(longer) : longer[i] = e /\ longer[j] = e => i = j BY DEF Once
<1>6. Once(shorter, e)
  <2> SUFFICES ASSUME NEW i \in 1..Len(shorter), NEW j \in 1..Len(shorter),
                      shorter[i] = e, shorter[j] = e
               PROVE  i = j
    BY DEF Once
  <2>1. Old(i) = Old(j) BY <1>2, <1>5
  <2> QED BY <2>1, <1>3
<1>7. ASSUME Has(shorter, e) PROVE Has(longer, e) /\ longer[k] # e
  <2>1. PICK i \in 1..Len(shorter) : shorter[i] = e BY <1>7 DEF Has
  <2>2. Old(i) \in 1..Len(longer) /\ Old(i) # k /\ longer[Old(i)] = e BY <2>1, <1>2
  <2> QED BY <2>2, <1>1, <1>5 DEF Has
<1>8. ASSUME Has(longer, e), longer[k] # e PROVE Has(shorter, e)
  <2>1. PICK j \in 1..Len(longer) : longer[j] = e BY <1>8 DEF Has
  <2>2. PICK i \in 1..Len(shorter) : Old(i) = j BY <2>1, <1>4, <1>8
  <2> QED BY <2>1, <2>2, <1>2 DEF Has
<1>9. Has(longer, longer[k]) BY <1>1 DEF Has
<1> QED BY <1>6, <1>7, <1>8, <1>9

LEMMA TailLeaves ==
  ASSUME NEW S, NEW q \in Seq(S), q # <<>>
  PROVE  Leaves(1, q, Tail(q)) /\ q[1] = Head(q) /\ Tail(q) \in Seq(S)
<1>1. /\ Len(q) \in Nat \ {0} /\ Tail(q) \in Seq(S) /\ Len(Tail(q)) = Len(q) - 1
      /\ Head(q) = q[1] /\ \A i \in 1..Len(Tail(q)) : Tail(q)[i] = q[i + 1]
  BY HeadTailProperties, LenProperties, EmptySeq
<1> QED BY <1>1 DEF Leaves

\* A number is never the number of an event, nor two answers the same.
LEMMA AnswersDiffer ==
  /\ \A i, j \in CommandIds : Answer(i) = Answer(j) => i = j
  /\ \A i \in CommandIds, m \in Events \union {Detached, Skipped} : Answer(i) # m
  /\ \A i \in CommandIds : Answer(i) \in Said
BY DispatcherAssumption
DEF Answer, Answers, Events, EventKinds, Detached, Skipped, Said, Messages

\* What the steps below know of a state.
LEMMA Known ==
  ASSUME TypeOK
  PROVE  /\ cmdQueue \in Seq(CommandIds) /\ InTransit \in Seq(Said) /\ next \in Nat
         /\ \A x \in Executors : state[x] # "idle" => command[x] \in CommandIds
         /\ command \in [Executors -> 0..MaxCommands]
         /\ state \in [Executors -> {"idle", "sending", "waiting"}]
BY WayTypes, Constants DEF TypeOK, QueuesOK

\* A step that leaves the Executes, the commands and the answers alone.
LEMMA SamePlaces ==
  ASSUME TypeOK, Conversations, UNCHANGED executors,
         Reachable' => Reachable /\ UNCHANGED <<cmdQueue, pending, unwritten>>,
         Reachable' => \A id \in CommandIds :
                        /\ Once(InTransit, Answer(id)) => Once(InTransit', Answer(id))
                        /\ Has(InTransit', Answer(id)) <=> Has(InTransit, Answer(id))
  PROVE  Conversations'
<1>1. OwnNumbers' BY DEF Conversations, OwnNumbers, executors
<1>2. ASSUME Reachable' PROVE Places'
  <2>1. /\ Reachable /\ cmdQueue' = cmdQueue /\ pending' = pending /\ unwritten' = unwritten
        /\ next' = next /\ state' = state /\ command' = command
    BY <1>2 DEF executors
  <2>2. \A id \in CommandIds :
          /\ Once(InTransit, Answer(id)) => Once(InTransit', Answer(id))
          /\ Has(InTransit', Answer(id)) <=> Has(InTransit, Answer(id))
    BY <1>2
  <2>3. Places BY <2>1 DEF Conversations
  <2>4. \A id \in CommandIds : (Somewhere(id)' <=> Somewhere(id)) /\ (InOnePlace(id) => InOnePlace(id)')
    BY <2>1, <2>2 DEF Somewhere, Queued, Answered, InOnePlace, Answer
  <2>5. \A id \in CommandIds : InOnePlace(id)' /\ (Somewhere(id)' => id <= next')
    BY <2>1, <2>3, <2>4 DEF Places
  <2>6. \A x \in Executors : /\ state'[x] = "sending" => ~Somewhere(command[x])'
                             /\ state'[x] = "waiting" => Somewhere(command[x])'
    <3> SUFFICES ASSUME NEW x \in Executors, state[x] \in {"sending", "waiting"}
                 PROVE  /\ state[x] = "sending" => ~Somewhere(command[x])'
                        /\ state[x] = "waiting" => Somewhere(command[x])'
      BY <2>1
    <3>1. command[x] \in CommandIds BY Known
    <3>2. /\ state[x] = "sending" => ~Somewhere(command[x])
          /\ state[x] = "waiting" => Somewhere(command[x])
      BY <2>3 DEF Places
    <3>3. Somewhere(command[x])' <=> Somewhere(command[x])
      BY <2>1, <2>2, <3>1 DEF Somewhere, Queued, Answered, Answer
    <3> QED BY <3>2, <3>3
  <2> QED BY <2>5, <2>6 DEF Places
<1> QED BY <1>1, <1>2 DEF Conversations

\* The same, but an Execute starts: its number is new.
LEMMA StartPlaces ==
  ASSUME TypeOK, Conversations, NEW x \in Executors, StartExecute(x),
         Reachable' => Reachable /\ UNCHANGED <<cmdQueue, pending, unwritten>>,
         Reachable' => \A id \in CommandIds :
                        /\ Once(InTransit, Answer(id)) => Once(InTransit', Answer(id))
                        /\ Has(InTransit', Answer(id)) <=> Has(InTransit, Answer(id))
  PROVE  Conversations'
<1>1. /\ state[x] = "idle" /\ next' = next + 1 /\ next \in Nat /\ next + 1 \in CommandIds
      /\ state'[x] = "sending" /\ command'[x] = next + 1
      /\ \A y \in Executors : y # x => state'[y] = state[y] /\ command'[y] = command[y]
  BY Known, Constants DEF StartExecute, CommandIds
<1>2. \A y \in Executors : state[y] # "idle" => command[y] \in CommandIds /\ command[y] <= next
  BY Known DEF Conversations, OwnNumbers
<1>3. OwnNumbers'
  <2>1. \A y \in Executors : state'[y] # "idle" => command'[y] <= next + 1
    BY <1>1, <1>2 DEF CommandIds
  <2>2. ASSUME NEW y \in Executors, NEW z \in Executors, state'[y] # "idle", state'[z] # "idle",
               command'[y] = command'[z]
        PROVE  y = z
    <3>1. CASE y # x /\ z # x
      <4>1. state[y] # "idle" /\ state[z] # "idle" /\ command[y] = command[z]
        BY <1>1, <2>2, <3>1
      <4> QED BY <4>1 DEF Conversations, OwnNumbers
    <3>2. CASE y = x /\ z # x
      <4>1. command[z] <= next /\ command[z] \in Nat /\ command[z] = next + 1
        BY <1>1, <1>2, <2>2, <3>2 DEF CommandIds
      <4> QED BY <4>1, <1>1
    <3>3. CASE y # x /\ z = x
      <4>1. command[y] <= next /\ command[y] \in Nat /\ command[y] = next + 1
        BY <1>1, <1>2, <2>2, <3>3 DEF CommandIds
      <4> QED BY <4>1, <1>1
    <3> QED BY <3>1, <3>2, <3>3
  <2> QED BY <1>1, <2>1, <2>2 DEF OwnNumbers
<1>4. ASSUME Reachable' PROVE Places'
  <2>1. Reachable /\ cmdQueue' = cmdQueue /\ pending' = pending /\ unwritten' = unwritten BY <1>4
  <2>2. \A id \in CommandIds :
          /\ Once(InTransit, Answer(id)) => Once(InTransit', Answer(id))
          /\ Has(InTransit', Answer(id)) <=> Has(InTransit, Answer(id))
    BY <1>4
  <2>3. Places BY <2>1 DEF Conversations
  <2>4. \A id \in CommandIds : (Somewhere(id)' <=> Somewhere(id)) /\ (InOnePlace(id) => InOnePlace(id)')
    BY <2>1, <2>2 DEF Somewhere, Queued, Answered, InOnePlace, Answer
  <2>5. \A id \in CommandIds : InOnePlace(id)' /\ (Somewhere(id)' => id <= next')
    BY <1>1, <2>3, <2>4 DEF Places, CommandIds
  <2>6. ASSUME NEW y \in Executors
        PROVE  /\ state'[y] = "sending" => ~Somewhere(command[y])'
               /\ state'[y] = "waiting" => Somewhere(command[y])'
    <3>1. CASE y = x
      <4>1. ~Somewhere(next + 1) BY <1>1, <2>3 DEF Places
      <4>2. /\ ~Has(cmdQueue', next + 1) /\ next + 1 \notin pending'
            /\ ~Has(InTransit', Answer(next + 1))
        BY <4>1, <1>1, <2>1, <2>2 DEF Somewhere, Queued, Answered
      <4>3. next + 1 \notin unwritten' BY <4>1, <2>1 DEF Somewhere
      <4> QED BY <4>3, <3>1, <4>2, <1>1 DEF Somewhere, Queued, Answered, Answer
    <3>2. CASE y # x /\ state[y] # "idle"
      <4>1. command[y] \in CommandIds /\ state'[y] = state[y] /\ command'[y] = command[y]
        BY <1>1, <1>2, <3>2
      <4>2. /\ state[y] = "sending" => ~Somewhere(command[y])
            /\ state[y] = "waiting" => Somewhere(command[y])
        BY <2>3 DEF Places
      <4>3. Somewhere(command[y])' <=> Somewhere(command[y])
        BY <4>1, <2>1, <2>2 DEF Somewhere, Queued, Answered, Answer
      <4> QED BY <4>1, <4>2, <4>3
    <3>3. CASE y # x /\ state[y] = "idle" BY <3>3, <1>1
    <3> QED BY <3>1, <3>2, <3>3
  <2> QED BY <2>5, <2>6 DEF Places
<1> QED BY <1>3, <1>4 DEF Conversations

\* What the way gains or loses when it is no answer.
LEMMA SameAnswers ==
  ASSUME NEW way \in Seq(Said), NEW other \in Seq(Said), NEW m \in Events \union {Detached, Skipped},
         other = Append(way, m) \/ \E k : Leaves(k, way, other) /\ way[k] = m
  PROVE  \A id \in CommandIds :
           /\ Once(way, Answer(id)) => Once(other, Answer(id))
           /\ Once(way, Answer(id)) => (Has(other, Answer(id)) <=> Has(way, Answer(id)))
<1> SUFFICES ASSUME NEW id \in CommandIds, Once(way, Answer(id))
             PROVE  /\ Once(other, Answer(id))
                    /\ Has(other, Answer(id)) <=> Has(way, Answer(id))
  OBVIOUS
<1>1. m \in Said /\ Answer(id) # m BY AnswersDiffer DEF Said, Messages
<1> DEFINE e == Answer(id)
<1> HIDE DEF e
<1>2. CASE other = Append(way, m)
  <2>1. e # m /\ Once(way, e) BY <1>1 DEF e
  <2>2. /\ Has(Append(way, m), e) <=> Has(way, e) \/ m = e
        /\ Once(way, e) /\ (m # e \/ ~Has(way, e)) => Once(Append(way, m), e)
    BY <1>1, AppendJoins
  <2> QED BY <1>2, <2>1, <2>2 DEF e
<1>3. CASE \E k : Leaves(k, way, other) /\ way[k] = m
  <2>1. PICK k : Leaves(k, way, other) /\ way[k] = m BY <1>3
  <2>2. e # way[k] /\ Once(way, e) BY <1>1, <2>1 DEF e
  <2>3. Once(other, e) /\ (Has(other, e) <=> Has(way, e) /\ way[k] # e)
    BY <2>1, <2>2, LeavesPlace
  <2> QED BY <2>2, <2>3 DEF e
<1> QED BY <1>2, <1>3

LEMMA ExecutorKeepsPlaces ==
  ASSUME TypeOK, Conversations, NEW x \in Executors, SendCommand(x) \/ GiveUp(x)
  PROVE  Conversations'
<1>1. CASE SendCommand(x)
  <2>1. /\ state[x] = "sending" /\ state'[x] = "waiting" /\ next' = next /\ command' = command
        /\ cmdQueue' = Append(cmdQueue, command[x]) /\ command[x] \in CommandIds
        /\ \A y \in Executors : y # x => state'[y] = state[y]
        /\ UNCHANGED <<syncQueue, holding, messages, routing, incoming, wire>>
        /\ UNCHANGED <<pending, unwritten, Reachable>>
    BY <1>1, Known DEF SendCommand, chrome, link, targetRun, Reachable
  <2>2. InTransit' = InTransit BY <2>1 DEF InTransit, Slot
  <2>3. OwnNumbers' BY <2>1 DEF Conversations, OwnNumbers
  <2>4. ASSUME Reachable PROVE Places'
    <3>1. Places /\ ~Somewhere(command[x]) BY <2>1, <2>4 DEF Conversations, Places
    <3>2. ASSUME NEW id \in CommandIds
          PROVE  /\ Has(cmdQueue', id) <=> Has(cmdQueue, id) \/ command[x] = id
                 /\ Once(cmdQueue, id) /\ (command[x] # id \/ ~Has(cmdQueue, id))
                      => Once(cmdQueue', id)
      BY <2>1, Known, AppendJoins
    <3>3. ASSUME NEW id \in CommandIds PROVE InOnePlace(id)' /\ (Somewhere(id)' => id <= next')
      <4>1. InOnePlace(id) /\ (Somewhere(id) => id <= next) BY <3>1 DEF Places
      <4>2. command[x] <= next BY <2>1 DEF Conversations, OwnNumbers
      <4>3. InOnePlace(id)'
        BY <2>1, <2>2, <3>1, <3>2, <4>1 DEF InOnePlace, Somewhere, Queued, Answered, Answer
      <4>4. Somewhere(id)' <=> Somewhere(id) \/ command[x] = id
        BY <2>1, <2>2, <3>2 DEF Somewhere, Queued, Answered, Answer
      <4> QED BY <2>1, <4>1, <4>2, <4>3, <4>4
    <3>4. ASSUME NEW y \in Executors
          PROVE  /\ state'[y] = "sending" => ~Somewhere(command[y])'
                 /\ state'[y] = "waiting" => Somewhere(command[y])'
      <4>1. CASE y = x
        <5>1. Has(cmdQueue', command[x]) BY <2>1, <3>2
        <5> QED BY <2>1, <4>1, <5>1 DEF Somewhere, Queued
      <4>2. CASE y # x /\ state[y] # "idle"
        <5>1. command[y] \in CommandIds /\ command[y] # command[x] /\ state'[y] = state[y]
          BY <2>1, <4>2, Known DEF Conversations, OwnNumbers
        <5>2. /\ state[y] = "sending" => ~Somewhere(command[y])
              /\ state[y] = "waiting" => Somewhere(command[y])
          BY <3>1 DEF Places
        <5>3. Somewhere(command[y])' <=> Somewhere(command[y])
          BY <2>1, <2>2, <3>2, <5>1 DEF Somewhere, Queued, Answered, Answer
        <5> QED BY <5>1, <5>2, <5>3
      <4>3. CASE y # x /\ state[y] = "idle" BY <2>1, <4>3
      <4> QED BY <4>1, <4>2, <4>3
    <3> QED BY <3>3, <3>4 DEF Places
  <2> QED BY <2>1, <2>3, <2>4 DEF Conversations
<1>2. CASE GiveUp(x)
  <2>1. /\ state' = [state EXCEPT ![x] = "idle"] /\ next' = next /\ command' = command
        /\ UNCHANGED <<syncQueue, holding, messages, routing, incoming, wire, cmdQueue>>
        /\ UNCHANGED <<pending, unwritten, Reachable>>
    BY <1>2 DEF GiveUp, Returns, chrome, browserRun, link, targetRun, Reachable
  <2>2. \A y \in Executors : state'[y] # "idle" => state'[y] = state[y] BY <2>1, Known
  <2>3. InTransit' = InTransit BY <2>1 DEF InTransit, Slot
  <2>4. OwnNumbers' BY <2>1, <2>2 DEF Conversations, OwnNumbers
  <2>5. Reachable => Places'
    BY <2>1, <2>2, <2>3
    DEF Conversations, Places, InOnePlace, Somewhere, Queued, Answered, Answer
  <2> QED BY <2>1, <2>4, <2>5 DEF Conversations
<1> QED BY <1>1, <1>2

\* A command, or its answer, goes on or meets the Executes that wait for it.
LEMMA PlacesFollow ==
  ASSUME TypeOK, Conversations, UNCHANGED <<next, command, Reachable>>,
         \A x \in Executors : state'[x] # "idle" => state'[x] = state[x],
         \A id \in CommandIds : Reachable /\ InOnePlace(id) =>
           /\ InOnePlace(id)' /\ (Somewhere(id)' => Somewhere(id))
           /\ \A x \in Executors :
                Somewhere(id) /\ state'[x] = "waiting" /\ command[x] = id => Somewhere(id)'
  PROVE  Conversations'
<1>1. OwnNumbers' BY DEF Conversations, OwnNumbers
<1>2. ASSUME Reachable PROVE Places'
  <2>1. Places BY <1>2 DEF Conversations
  <2>2. \A id \in CommandIds : InOnePlace(id)' /\ (Somewhere(id)' => id <= next')
    BY <1>2, <2>1 DEF Places
  <2>3. ASSUME NEW x \in Executors, state'[x] # "idle"
        PROVE  /\ state'[x] = "sending" => ~Somewhere(command[x])'
               /\ state'[x] = "waiting" => Somewhere(command[x])'
    <3>1. PICK id \in CommandIds : id = command[x] BY <2>3, Known
    <3>2. /\ state'[x] = "sending" => ~Somewhere(id)
          /\ state'[x] = "waiting" => Somewhere(id)
      BY <2>1, <2>3, <3>1 DEF Places
    <3>3. InOnePlace(id) BY <2>1 DEF Places
    <3>4. /\ state'[x] = "sending" => ~Somewhere(id)'
          /\ state'[x] = "waiting" => Somewhere(id)'
      BY <1>2, <3>1, <3>2, <3>3
    <3>5. command'[x] = id BY <3>1
    <3> QED BY <3>4, <3>5 DEF Somewhere, Queued, Answered
  <2>4. \A x \in Executors : /\ state'[x] = "sending" => ~Somewhere(command[x])'
                             /\ state'[x] = "waiting" => Somewhere(command[x])'
    BY <2>3
  <2> QED BY <2>2, <2>4 DEF Places
<1> QED BY <1>1, <1>2 DEF Conversations

\* A command goes from the queue to Chrome ...
LEMMA WriteKeepsPlaces ==
  ASSUME TypeOK, Conversations, WriteCommand
  PROVE  Conversations'
<1> DEFINE c == Head(cmdQueue)
<1>1. /\ cmdQueue # <<>> /\ cmdQueue' = Tail(cmdQueue)
      /\ \/ pending' = pending \union {c} /\ UNCHANGED unwritten
         \/ unwritten' = unwritten \union {c} /\ UNCHANGED pending
      /\ UNCHANGED <<next, state, command, Reachable>>
      /\ UNCHANGED <<syncQueue, holding, messages, routing, incoming, wire>>
  BY DEF WriteCommand, executors, targetRun, Reachable
<1>2. InTransit' = InTransit BY <1>1 DEF InTransit, Slot
<1>3. /\ Leaves(1, cmdQueue, cmdQueue') /\ cmdQueue[1] = c
      /\ cmdQueue \in Seq(CommandIds) /\ cmdQueue' \in Seq(CommandIds)
  BY <1>1, Known, TailLeaves
<1> HIDE DEF c
<1>4. ASSUME NEW id \in CommandIds, InOnePlace(id)
      PROVE  InOnePlace(id)' /\ (Somewhere(id)' <=> Somewhere(id))
  <2>1. Once(cmdQueue, id) BY <1>4 DEF InOnePlace
  <2>2. /\ Once(cmdQueue', id) /\ Has(cmdQueue, c)
        /\ Has(cmdQueue', id) <=> Has(cmdQueue, id) /\ c # id
    BY <1>3, <2>1, LeavesPlace
  <2>3. /\ Has(cmdQueue', id) <=> Has(cmdQueue, id) /\ c # id
        /\ Has(InTransit', Answer(id)) <=> Has(InTransit, Answer(id))
        /\ Once(InTransit', Answer(id)) <=> Once(InTransit, Answer(id))
    BY <2>2, <1>2
  <2>4. CASE pending' = pending \union {c} /\ UNCHANGED unwritten
    BY <1>4, <2>2, <2>3, <2>4 DEF InOnePlace, Somewhere, Queued, Answered, Answer
  <2>5. CASE unwritten' = unwritten \union {c} /\ UNCHANGED pending
    BY <1>4, <2>2, <2>3, <2>5 DEF InOnePlace, Somewhere, Queued, Answered, Answer
  <2> QED BY <1>1, <2>4, <2>5
<1> QED BY <1>1, <1>4, PlacesFollow

\* ... and its answer from Chrome to the wire.
LEMMA AnswerKeepsPlaces ==
  ASSUME TypeOK, Conversations, NEW c \in CommandIds, AnswerCommand(c)
  PROVE  Conversations'
<1>1. /\ c \in pending /\ pending' = pending \ {c} /\ wire' = Append(wire, Answer(c))
      /\ UNCHANGED <<next, state, command, Reachable, cmdQueue, unwritten>>
      /\ UNCHANGED <<syncQueue, holding, messages, routing, incoming>>
  BY DEF AnswerCommand, executors, browserRun, link, targetRun, Reachable
<1>2. Answer(c) \in Said BY AnswersDiffer
<1>3. InTransit' = Append(InTransit, Answer(c)) /\ InTransit \in Seq(Said)
  <2>1. InTransit' = InTransit \o <<Answer(c)>> BY <1>1, <1>2, WayGrows
  <2> QED BY <2>1, <1>2, WayTypes, AppendIsConcat
<1>4. ASSUME NEW id \in CommandIds, InOnePlace(id)
      PROVE  InOnePlace(id)' /\ (Somewhere(id)' <=> Somewhere(id))
  <2>1. Answer(c) = Answer(id) <=> c = id BY AnswersDiffer
  <2>2. /\ Has(InTransit', Answer(id)) <=> Has(InTransit, Answer(id)) \/ Answer(c) = Answer(id)
        /\ Once(InTransit, Answer(id)) /\ (Answer(c) # Answer(id) \/ ~Has(InTransit, Answer(id)))
             => Once(InTransit', Answer(id))
    BY <1>2, <1>3, AppendJoins
  <2>3. id \in pending' <=> id \in pending /\ id # c BY <1>1
  <2> QED BY <1>1, <1>4, <2>1, <2>2, <2>3 DEF InOnePlace, Somewhere, Queued, Answered, Answer
<1> QED BY <1>1, <1>4, PlacesFollow

\* The Execute whose answer the receiver has no longer waits.
LEMMA ReceiveKeepsPlaces ==
  ASSUME TypeOK, Conversations, ReceiveAnswer
  PROVE  Conversations'
<1> DEFINE m == Head(messages)
<1>1. /\ m.kind = "answer" /\ messages # <<>>
      /\ state' = [x \in Executors |-> IF x \in Addressee(m) THEN "idle" ELSE state[x]]
      /\ UNCHANGED <<next, command, Reachable, cmdQueue, pending, unwritten>>
  BY DEF ReceiveAnswer, ReceiverFree, chrome, browserRun, link, Reachable
<1>2. m \in Messages BY <1>1, HeadTailProperties DEF TypeOK, QueuesOK
<1>3. PICK c \in CommandIds : m = Answer(c)
  BY <1>1, <1>2 DEF Messages, Answers, Events, EventKinds, Answer, Skipped
<1>4. InTransit \in Seq(Said) /\ InTransit' \in Seq(Said) BY AnswerLeaves, WayTypes
<1>5. PICK k : Leaves(k, InTransit, InTransit') /\ InTransit[k] = m BY AnswerLeaves
<1> HIDE DEF m
<1>6. \A x \in Executors : state'[x] # "idle" => state'[x] = state[x] BY <1>1
<1>7. \A x \in Executors : state'[x] = "waiting" => command[x] # c
  BY <1>1, <1>3 DEF Addressee, Answer
<1>8. ASSUME NEW id \in CommandIds, InOnePlace(id)
      PROVE  InOnePlace(id)' /\ (Somewhere(id)' <=> Somewhere(id) /\ id # c)
  <2>1. Answer(c) = Answer(id) <=> c = id BY AnswersDiffer
  <2>2. Once(InTransit, Answer(id)) BY <1>8 DEF InOnePlace
  <2>3. /\ Once(InTransit', Answer(id)) /\ Has(InTransit, Answer(c))
        /\ Has(InTransit', Answer(id)) <=> Has(InTransit, Answer(id)) /\ Answer(c) # Answer(id)
    BY <1>3, <1>4, <1>5, <2>2, LeavesPlace
  <2> QED BY <1>1, <1>8, <2>1, <2>3 DEF InOnePlace, Somewhere, Queued, Answered, Answer
<1> QED BY <1>1, <1>6, <1>7, <1>8, PlacesFollow

LEMMA PlacesStep ==
  ASSUME TypeOK, Conversations, Next
  PROVE  Conversations'
<1>1. CASE \E x \in Executors : SendCommand(x) \/ GiveUp(x) BY <1>1, ExecutorKeepsPlaces
<1>2. CASE \E x \in Clients : CallExecute(x)
  <2>1. PICK x \in Clients : CallExecute(x) BY <1>2
  <2>2. x \in Executors /\ StartExecute(x) BY <2>1 DEF Executors, CallExecute
  <2>3. /\ UNCHANGED <<Reachable, cmdQueue, pending, unwritten>>
        /\ UNCHANGED <<syncQueue, holding, messages, routing, incoming, wire>>
    BY <2>1 DEF CallExecute, chrome, browserRun, link, targetRun, Reachable
  <2>4. InTransit' = InTransit BY <2>3 DEF InTransit, Slot
  <2> QED BY <2>2, <2>3, <2>4, StartPlaces
<1>3. CASE \E id \in CommandIds : AnswerCommand(id) BY <1>3, AnswerKeepsPlaces
<1>4. CASE WriteCommand BY <1>4, WriteKeepsPlaces
<1>5. CASE ReceiveAnswer BY <1>5, ReceiveKeepsPlaces
<1>6. CASE DeletePage \/ LoseConnection \/ CancelContext
  <2>1. UNCHANGED executors /\ Reachable' = FALSE
    BY <1>6 DEF DeletePage, LoseConnection, CancelContext, Reachable
  <2> QED BY <2>1, SamePlaces
<1>7. ASSUME NEW m \in Events \union {Detached, Skipped}, wire' = Append(wire, m),
             UNCHANGED <<syncQueue, holding, messages, routing, incoming>>,
             UNCHANGED <<executors, Reachable, cmdQueue, pending, unwritten>>
      PROVE  Conversations'
  <2>1. m \in Said BY DEF Said, Messages
  <2>2. InTransit' = Append(InTransit, m) /\ InTransit \in Seq(Said)
    <3>1. InTransit' = InTransit \o <<m>> BY <1>7, <2>1, WayGrows
    <3> QED BY <3>1, <2>1, WayTypes, AppendIsConcat
  <2>3. InTransit' \in Seq(Said) BY <2>1, <2>2, AppendProperties
  <2>4. \A id \in CommandIds : Once(InTransit, Answer(id)) =>
          Once(InTransit', Answer(id)) /\ (Has(InTransit', Answer(id)) <=> Has(InTransit, Answer(id)))
    BY <2>2, <2>3, SameAnswers
  <2>5. Reachable => \A id \in CommandIds : Once(InTransit, Answer(id))
    BY DEF Conversations, Places, InOnePlace
  <2> QED BY <1>7, <2>4, <2>5, SamePlaces
<1>8. CASE EmitEvent
  <2>1. PICK kind \in EventKinds : wire' = Append(wire, Event(emitted + 1, kind))
    BY <1>8 DEF EmitEvent
  <2>2. Event(emitted + 1, kind) \in Events
    BY <1>8, Constants DEF EmitEvent, Event, Events, TypeOK
  <2> QED BY <1>7, <1>8, <2>1, <2>2 DEF EmitEvent, browserRun, link, targetRun, Reachable
<1>9. CASE Detach \/ EmitSkipped
  BY <1>7, <1>9 DEF Detach, EmitSkipped, browserRun, link, targetRun, Reachable
<1>13. CASE SkipEvent
  <2>1. UNCHANGED <<executors, Reachable, cmdQueue, pending, unwritten>>
    BY <1>13 DEF SkipEvent, chrome, browserRun, link, Reachable
  <2>2. /\ InTransit' \in Seq(Said)
        /\ \E k : Leaves(k, InTransit, InTransit') /\ InTransit[k] = Skipped
    BY <1>13, AnswerLeaves DEF SkipEvent
  <2>3. \A id \in CommandIds : Once(InTransit, Answer(id)) =>
          Once(InTransit', Answer(id)) /\ (Has(InTransit', Answer(id)) <=> Has(InTransit, Answer(id)))
    BY <2>2, WayTypes, SameAnswers
  <2>4. Reachable => \A id \in CommandIds : Once(InTransit, Answer(id))
    BY DEF Conversations, Places, InOnePlace
  <2> QED BY <2>1, <2>3, <2>4, SamePlaces
<1>10. CASE RouteMessage \/ DeliverMessage \/ ReceiveEvent \/ PassEvent
  <2>1. UNCHANGED <<executors, Reachable, cmdQueue, pending, unwritten>>
    BY <1>10
    DEF RouteMessage, DeliverMessage, ReceiveEvent, PassEvent, chrome, browserRun, link, Reachable
  <2>2. Reachable => InTransit' = InTransit
    BY <1>10, RouteMovesOn, DeliverMovesOn, ReceiveMovesOn, PassMovesOn
  <2> QED BY <2>1, <2>2, SamePlaces
<1>11. CASE ReadMessage
  <2>1. UNCHANGED <<executors, Reachable, cmdQueue, pending, unwritten>>
    BY <1>11 DEF ReadMessage, link, Reachable
  <2>2. CASE InTransit' = InTransit BY <2>1, <2>2, SamePlaces
  <2>3. CASE /\ InTransit' \in Seq(Said)
             /\ \E k : Leaves(k, InTransit, InTransit') /\ InTransit[k] = Detached
    <3>1. \A id \in CommandIds : Once(InTransit, Answer(id)) =>
            Once(InTransit', Answer(id)) /\ (Has(InTransit', Answer(id)) <=> Has(InTransit, Answer(id)))
      BY <2>3, WayTypes, SameAnswers
    <3>2. Reachable => \A id \in CommandIds : Once(InTransit, Answer(id))
      BY DEF Conversations, Places, InOnePlace
    <3> QED BY <2>1, <3>1, <3>2, SamePlaces
  <2> QED BY <1>11, <2>2, <2>3, ReadMovesOn
<1>12. CASE HandleEvent
  <2>1. UNCHANGED <<Reachable, cmdQueue, pending, unwritten>>
    BY <1>12 DEF HandleEvent, chrome, browserRun, link, Reachable
  <2>2. /\ InTransit # <<>> /\ InTransit' = Tail(InTransit) /\ Head(InTransit) = Head(syncQueue)
        /\ InTransit \in Seq(Said) /\ syncQueue # <<>>
    BY <1>12, HandleTakesHead, WayTypes DEF HandleEvent
  <2>3. Head(syncQueue) \in Events BY <2>2, HeadTailProperties DEF TypeOK, QueuesOK
  <2>4. /\ InTransit' \in Seq(Said)
        /\ \E k : Leaves(k, InTransit, InTransit') /\ InTransit[k] = Head(syncQueue)
    BY <2>2, TailLeaves
  <2>5. \A id \in CommandIds : Once(InTransit, Answer(id)) =>
          Once(InTransit', Answer(id)) /\ (Has(InTransit', Answer(id)) <=> Has(InTransit, Answer(id)))
    BY <2>2, <2>3, <2>4, SameAnswers
  <2>6. Reachable => \A id \in CommandIds : Once(InTransit, Answer(id))
    BY DEF Conversations, Places, InOnePlace
  <2>7. CASE UNCHANGED executors BY <2>1, <2>5, <2>6, <2>7, SamePlaces
  <2>8. CASE StartExecute(Handler)
    <3>1. Handler \in Executors BY DEF Executors
    <3> QED BY <2>1, <2>5, <2>6, <2>8, <3>1, StartPlaces
  <2> QED BY <1>12, <2>7, <2>8 DEF HandleEvent
<1> QED
  BY <1>1, <1>2, <1>3, <1>4, <1>5, <1>6, <1>8, <1>9, <1>10, <1>11, <1>12, <1>13
  DEF Next, Pipeline, Receiver

(***************************************************************************)
(* The theorems.                                                           *)
(***************************************************************************)
\* Every variable has its type; in particular no queue of the browser or of the target
\* ever holds more than its capacity (chromedp/browser.go, chromedp/target.go).
THEOREM TypeCorrect == Spec => []TypeOK
<1>1. TypeOK /\ [Next]_vars => TypeOK'
  <2>1. ASSUME TypeOK, UNCHANGED vars PROVE TypeOK'
    BY <2>1 DEF TypeOK, QueuesOK, vars, executors, chrome, browserRun, link, targetRun
  <2> QED BY <2>1, StepType
<1> QED BY <1>1, InitType, PTL DEF Spec

LEMMA InitOrder == Init => Order
<1> SUFFICES ASSUME Init PROVE Order OBVIOUS
<1>1. /\ syncQueue = <<>> /\ Slot(holding) = <<>> /\ messages = <<>> /\ Slot(routing) = <<>>
      /\ incoming = <<>> /\ wire = <<>> /\ emitted = 0 /\ handled = 0
  BY DEF Init, Slot
<1>2. <<>> \o <<>> = <<>>
  <2>1. <<>> \in Seq(Said) BY Emptiness
  <2> QED BY <2>1, ConcatEmptySeq
<1>3. Routed = <<>> /\ InTransit = <<>> BY <1>1, <1>2 DEF Routed, InTransit
<1> QED BY <1>1, <1>3, EmptyNumbered DEF Order

\* The queues and hands of the pipeline hold consecutive events in order, also what is
\* left of them when the target detaches (chromedp/browser.go, chromedp/target.go).
THEOREM EventsInOrder == Spec => []Order
<1>1. TypeOK /\ Order /\ [Next]_vars => Order'
  <2>1. ASSUME TypeOK, Order, UNCHANGED vars PROVE Order'
    BY <2>1, SameWay DEF vars, executors, chrome, browserRun, link, targetRun, Reachable
  <2> QED BY <2>1, OrderStep
<1> QED BY <1>1, InitOrder, TypeCorrect, PTL DEF Spec

\* While the page is attached, what is in the four queues and in the hands of the
\* goroutines are the events that were emitted and not handled, in order: none is
\* dropped where a send blocks, none overtakes another (chromedp/browser.go,
\* chromedp/target.go).
THEOREM NothingIsLost == Spec => []NothingLost
<1>1. TypeOK /\ Order => NothingLost
  <2> SUFFICES ASSUME TypeOK, Order, Reachable
               PROVE  LET at == {i \in 1..Len(InTransit) : InTransit[i].kind \in EventKinds}
                      IN  /\ {InTransit[i].n : i \in at} = (handled + 1)..emitted
                          /\ \A i, j \in at : i < j => InTransit[i].n < InTransit[j].n
    BY DEF NothingLost
  <2> DEFINE q == InTransit
             at == {i \in 1..Len(q) : q[i].kind \in EventKinds}
  <2>1. handled \in Nat /\ emitted \in Nat /\ q \in Seq(Said) BY WayTypes
  <2>2. Numbered(q, handled, emitted) /\ Complete(q, handled, emitted) BY DEF Order
  <2>3. \A i \in 1..Len(q) : q[i] \in Said BY <2>1, ElementOfSeq
  <2> HIDE DEF q
  <2>4. \A i \in at : q[i].n = Num(q[i]) /\ Num(q[i]) # 0 /\ Num(q[i]) \in Nat
    BY <2>3, NumType DEF Said, Messages, Answers, Detached, Skipped, EventKinds
  <2>5. \A i \in 1..Len(q) : Num(q[i]) # 0 => i \in at BY DEF Num
  <2>6. {q[i].n : i \in at} \subseteq (handled + 1)..emitted
    BY <2>1, <2>2, <2>4 DEF Numbered, Bounded
  <2>7. ASSUME NEW n \in (handled + 1)..emitted PROVE n \in {q[i].n : i \in at}
    <3>1. PICK j \in 1..Len(q) : Num(q[j]) = n BY <2>1, <2>2 DEF Complete
    <3>2. j \in at BY <3>1, <2>1, <2>5
    <3> QED BY <3>1, <3>2, <2>4
  <2>8. \A i, j \in at : i < j => q[i].n < q[j].n
    BY <2>2, <2>4 DEF Numbered, Increasing
  <2> QED BY <2>6, <2>7, <2>8 DEF q
<1> QED BY <1>1, EventsInOrder, TypeCorrect, PTL

\* Every command that was executed is in one place while the page is attached: queued,
\* pending at Chrome, or its answer on the way; and no two Executes share a number
\* (chromedp/target.go, Execute).
THEOREM CommandsInOnePlace == Spec => []Conversations
<1>1. Init => Conversations
  <2> SUFFICES ASSUME Init PROVE Conversations OBVIOUS
  <2>1. OwnNumbers BY DEF Init, OwnNumbers
  <2>2. InTransit = <<>>
    <3>1. /\ syncQueue = <<>> /\ Slot(holding) = <<>> /\ messages = <<>> /\ Slot(routing) = <<>>
          /\ incoming = <<>> /\ wire = <<>>
      BY DEF Init, Slot
    <3>2. <<>> \o <<>> = <<>>
      <4>1. <<>> \in Seq(Said) BY Emptiness
      <4> QED BY <4>1, ConcatEmptySeq
    <3> QED BY <3>1, <3>2 DEF InTransit
  <2>3. \A e : ~Has(<<>>, e) /\ Once(<<>>, e) BY Emptiness DEF Has, Once
  <2>4. Places
    BY <2>2, <2>3 DEF Init, Places, InOnePlace, Somewhere, Queued, Answered
  <2> QED BY <2>1, <2>4 DEF Conversations
<1>2. TypeOK /\ Conversations /\ [Next]_vars => Conversations'
  <2>1. ASSUME TypeOK, Conversations, UNCHANGED vars PROVE Conversations'
    <3>1. /\ UNCHANGED <<executors, Reachable, cmdQueue, pending, unwritten>>
          /\ UNCHANGED <<syncQueue, holding, messages, routing, incoming, wire>>
      BY <2>1 DEF vars, executors, chrome, browserRun, link, targetRun, Reachable
    <3>2. InTransit' = InTransit BY <3>1 DEF InTransit, Slot
    <3> QED BY <2>1, <3>1, <3>2, SamePlaces
  <2> QED BY <2>1, PlacesStep
<1> QED BY <1>1, <1>2, TypeCorrect, PTL DEF Spec

\* What is in a place once counts one, what is not there counts nothing.
LEMMA CountPlaces ==
  ASSUME NEW S, NEW q \in Seq(S), NEW e, Once(q, e)
  PROVE  Cardinality({i \in 1..Len(q) : q[i] = e}) = IF Has(q, e) THEN 1 ELSE 0
<1>1. CASE Has(q, e)
  <2>1. PICK i \in 1..Len(q) : q[i] = e BY <1>1 DEF Has
  <2>2. {j \in 1..Len(q) : q[j] = e} = {i} BY <2>1 DEF Once
  <2> QED BY <1>1, <2>2, FS_Singleton
<1>2. CASE ~Has(q, e)
  <2>1. {j \in 1..Len(q) : q[j] = e} = {} BY <1>2 DEF Has
  <2> QED BY <1>2, <2>1, FS_EmptySet
<1> QED BY <1>1, <1>2

\* An Execute that waits on an attached page has exactly one command or answer
\* outstanding: it does not wait in vain, and no answer is left behind for another
\* Execute (chromedp/target.go, Execute).
THEOREM AnswerIsOutstanding == Spec => []AnswerOutstanding
<1>1. TypeOK /\ Conversations => AnswerOutstanding
  <2> SUFFICES ASSUME TypeOK, Conversations, NEW x \in Executors, state[x] = "waiting", Reachable
               PROVE  Outstanding(command[x]) = IF command[x] \in unwritten THEN 0 ELSE 1
    BY DEF AnswerOutstanding
  <2> DEFINE id == command[x]
  <2>1. id \in CommandIds BY Known
  <2>2. Somewhere(id) /\ InOnePlace(id) BY <2>1 DEF Conversations, Places
  <2>3. cmdQueue \in Seq(CommandIds) /\ InTransit \in Seq(Said) BY Known
  <2> HIDE DEF id
  <2>4. Cardinality({i \in 1..Len(cmdQueue) : cmdQueue[i] = id}) = IF Queued(id) THEN 1 ELSE 0
    BY <2>2, <2>3, CountPlaces DEF InOnePlace, Queued
  <2>5. Cardinality({i \in 1..Len(InTransit) : InTransit[i] = Answer(id)})
          = IF Answered(id) THEN 1 ELSE 0
    BY <2>2, <2>3, CountPlaces DEF InOnePlace, Answered
  <2>6. Cardinality(pending \intersect {id}) = IF id \in pending THEN 1 ELSE 0
    <3>1. CASE id \in pending
      <4>1. pending \intersect {id} = {id} BY <3>1
      <4> QED BY <3>1, <4>1, FS_Singleton
    <3>2. CASE id \notin pending
      <4>1. pending \intersect {id} = {} BY <3>2
      <4> QED BY <3>2, <4>1, FS_EmptySet
    <3> QED BY <3>1, <3>2
  <2>7. Outstanding(id) = (IF Queued(id) THEN 1 ELSE 0) + (IF id \in pending THEN 1 ELSE 0)
                            + (IF Answered(id) THEN 1 ELSE 0)
    BY <2>4, <2>5, <2>6 DEF Outstanding
  <2>8. Outstanding(id) = IF id \in unwritten THEN 0 ELSE 1
    BY <2>2, <2>7 DEF InOnePlace, Somewhere
  <2> QED BY <2>8 DEF id
<1> QED BY <1>1, CommandsInOnePlace, TypeCorrect, PTL

\* The whole pipeline, with its detach and its cancel, is one queue of events to the
\* handler: it takes event after event, each after Chrome emitted it.
THEOREM PipelineImplementsPipe == Spec => PipeSpec
<1>1. Init => Pipe!Init BY DEF Init, Pipe!Init
<1>2. TypeOK /\ Order /\ [Next]_vars => [Pipe!Next]_<<emitted, handled>>
  <2>1. ASSUME TypeOK, Order, HandleEvent PROVE Pipe!Next
    <3>1. /\ handled' = handled + 1 /\ handled' <= emitted /\ emitted' = emitted
          /\ handled \in Nat /\ emitted \in Nat
      BY <2>1, HandleKeepsOrder, WayTypes
    <3>2. handled' \in 1..emitted BY <3>1
    <3>3. Pipe!Handle(handled') BY <3>1 DEF Pipe!Handle
    <3> QED BY <3>2, <3>3 DEF Pipe!Next
  <2>2. ASSUME EmitEvent PROVE Pipe!Next
    BY <2>2 DEF EmitEvent, targetRun, Pipe!Next, Pipe!Emit
  <2>3. ASSUME Next, ~HandleEvent, ~EmitEvent PROVE UNCHANGED <<emitted, handled>>
    BY <2>3
    DEF Next, Pipeline, Receiver, SendCommand, GiveUp, CallExecute, AnswerCommand, Detach, CancelContext,
        EmitSkipped, LoseConnection, SkipEvent, ReadMessage, WriteCommand, DeletePage,
        RouteMessage, DeliverMessage, ReceiveAnswer, ReceiveEvent, PassEvent, chrome, targetRun
  <2>4. ASSUME UNCHANGED vars PROVE UNCHANGED <<emitted, handled>>
    BY <2>4 DEF vars, chrome, targetRun
  <2> QED BY <2>1, <2>2, <2>3, <2>4
<1> QED BY <1>1, <1>2, EventsInOrder, TypeCorrect, PTL DEF Spec, PipeSpec, Pipe!Spec
=============================================================================
