---------------------------- MODULE ScannerProofs ----------------------------
(***************************************************************************)
(* Theorems about Scanner and the ActivityIndex under it, for every value  *)
(* of their constants: any hashes, sizes of files, blocks and settings.    *)
(*                                                                         *)
(* The first part is about the two operators that are recursions: Fresh,   *)
(* the loop that drops what was seen, and Concatenated, the archives in    *)
(* the order of their names.  Their recursions are shown to have solutions *)
(* and to say what the loops are for by induction, written as the absence  *)
(* of a least counterexample.                                              *)
(***************************************************************************)
EXTENDS Scanner, FiniteSetTheorems, SequenceTheorems, WellFoundedInduction, TLAPS

-----------------------------------------------------------------------------
(* Numbers *)

\* A non-empty set of numbers has a least element: induction for the proofs below.
LEMMA LeastElement ==
    ASSUME NEW T \in SUBSET Nat, T # {}
    PROVE  \E x \in T : \A y \in T : x <= y
<1>1. \A x, y \in Nat : <<x, y>> \in OpToRel(<, Nat) <=> x < y
  BY DEF OpToRel
<1>2. PICK x \in T : \A y \in T : ~ (<<y, x>> \in OpToRel(<, Nat))
  BY NatLessThanWellFounded, WFMin
<1>3. \A y \in T : ~ (y < x)
  BY <1>1, <1>2
<1> QED
  BY <1>3

\* Induction up to n, for membership in a set.
LEMMA Induction ==
    ASSUME NEW n \in Nat, NEW T, 0 \in T, \A k \in 1 .. n : k - 1 \in T => k \in T
    PROVE  \A k \in 0 .. n : k \in T
<1> DEFINE Missing == {k \in 0 .. n : k \notin T}
<1>1. ASSUME NEW k \in Missing, \A m \in Missing : k <= m PROVE FALSE
  <2>1. k # 0 /\ k \in 1 .. n
    OBVIOUS
  <2>2. k - 1 \in 0 .. n /\ k - 1 \notin Missing
    BY <1>1, <2>1
  <2> QED BY <2>1, <2>2
<1>2. Missing \in SUBSET Nat
  OBVIOUS
<1> HIDE DEF Missing
<1>3. Missing = {}
  BY <1>1, <1>2, LeastElement
<1> QED BY <1>3 DEF Missing

\* A finite set of numbers has a bound.
LEMMA FiniteBounded ==
    ASSUME NEW S \in SUBSET Nat, IsFiniteSet(S)
    PROVE  \E b \in Nat : \A x \in S : x <= b
<1> DEFINE Unbounded == {n \in Nat : \E s \in SUBSET S :
                            Cardinality(s) = n /\ ~ \E b \in Nat : \A x \in s : x <= b}
<1>1. ASSUME NEW n \in Unbounded, \A m \in Unbounded : n <= m PROVE FALSE
  <2>1. PICK s \in SUBSET S : Cardinality(s) = n /\ ~ \E b \in Nat : \A x \in s : x <= b
    OBVIOUS
  <2>2. IsFiniteSet(s)
    BY FS_Subset
  <2>3. PICK x \in s : TRUE
    BY <2>1
  <2>4. Cardinality(s \ {x}) = n - 1 /\ n \in Nat /\ n - 1 \in Nat
    <3>1. Cardinality(s \ {x}) = Cardinality(s) - 1 /\ IsFiniteSet(s \ {x})
      BY <2>2, FS_RemoveElement
    <3>2. Cardinality(s \ {x}) \in Nat
      BY <3>1, FS_CardinalityType
    <3> QED BY <2>1, <3>1, <3>2
  <2>5. n - 1 \notin Unbounded
    BY <1>1, <2>4
  <2>6. PICK b \in Nat : \A y \in s \ {x} : y <= b
    BY <2>4, <2>5
  <2>7. \A y \in s : y <= b + x
    BY <2>6
  <2>8. b + x \in Nat
    BY <2>3
  <2> QED BY <2>1, <2>7, <2>8
<1> HIDE DEF Unbounded
<1>2. Unbounded = {}
  BY <1>1, LeastElement DEF Unbounded
<1> QED BY <1>2, FS_CardinalityType DEF Unbounded

\* The maximum of a finite set of numbers.
LEMMA MaxIsMax ==
    ASSUME NEW S \in SUBSET Nat, IsFiniteSet(S), S # {}
    PROVE  Max(S) \in S /\ \A x \in S : x <= Max(S)
<1> DEFINE bounds == {b \in Nat : \A x \in S : x <= b}
<1>1. PICK b \in bounds : \A y \in bounds : b <= y
  BY FiniteBounded, LeastElement
<1>2. b \in S
  <2> SUFFICES ASSUME b \notin S PROVE FALSE
    OBVIOUS
  <2>1. b \in Nat /\ \A x \in S : x \in Nat /\ x < b
    OBVIOUS
  <2>2. b - 1 \in Nat
    <3>1. PICK x \in S : TRUE
      OBVIOUS
    <3> QED BY <2>1, <3>1
  <2>3. b - 1 \in bounds
    BY <2>1, <2>2
  <2> QED BY <1>1, <2>1, <2>3
<1>3. \E m \in S : \A x \in S : m >= x
  BY <1>2
<1> QED BY <1>3 DEF Max

\* The minimum of two numbers.
LEMMA MinOfTwo ==
    ASSUME NEW a \in Nat, NEW b \in Nat
    PROVE  Min({a, b}) = IF a <= b THEN a ELSE b
<1>1. \E m \in {a, b} : \A x \in {a, b} : m =< x
  OBVIOUS
<1>2. Min({a, b}) \in {a, b} /\ \A x \in {a, b} : Min({a, b}) =< x
  BY <1>1 DEF Min
<1> QED BY <1>2

-----------------------------------------------------------------------------
(* Sequences of hashes *)

Words == Seq(Hashes)

\* What a sequence and its length are.
LEMMA WordFacts ==
    ASSUME NEW s \in Words
    PROVE  /\ Len(s) \in Nat /\ DOMAIN s = 1 .. Len(s)
           /\ \A i \in 1 .. Len(s) : s[i] \in Hashes
           /\ ToSet(s) \subseteq Hashes
<1> QED BY DEF Words, ToSet

\* Elements of a concatenation.
LEMMA JoinedSet ==
    ASSUME NEW s \in Words, NEW t \in Words
    PROVE  /\ s \o t \in Words /\ Len(s \o t) = Len(s) + Len(t)
           /\ ToSet(s \o t) = ToSet(s) \cup ToSet(t)
<1>1. /\ s \o t \in Words /\ Len(s \o t) = Len(s) + Len(t)
      /\ \A i \in 1 .. Len(s) + Len(t) :
            (s \o t)[i] = IF i <= Len(s) THEN s[i] ELSE t[i - Len(s)]
  BY ConcatProperties DEF Words
<1>2. ToSet(s \o t) \subseteq ToSet(s) \cup ToSet(t)
  BY <1>1, WordFacts DEF ToSet
<1>3. ToSet(s) \subseteq ToSet(s \o t)
  BY <1>1, WordFacts DEF ToSet
<1>4. ASSUME NEW i \in 1 .. Len(t) PROVE t[i] \in ToSet(s \o t)
  <2>1. Len(s) + i \in 1 .. Len(s) + Len(t) /\ (s \o t)[Len(s) + i] = t[i]
    BY <1>1, WordFacts
  <2> QED BY <1>1, <2>1, WordFacts DEF ToSet
<1>5. ToSet(t) \subseteq ToSet(s \o t)
  BY <1>4, WordFacts DEF ToSet
<1> QED BY <1>1, <1>2, <1>3, <1>5

\* A prefix with one element more.
LEMMA PrefixGrows ==
    ASSUME NEW s \in Words, NEW k \in 1 .. Len(s)
    PROVE  /\ SubSeq(s, 1, k - 1) \in Words /\ Len(SubSeq(s, 1, k - 1)) = k - 1
           /\ \A i \in 1 .. k - 1 : SubSeq(s, 1, k - 1)[i] = s[i]
           /\ SubSeq(s, 1, k) = Append(SubSeq(s, 1, k - 1), s[k])
<1>1. Len(s) \in Nat /\ \A i \in 1 .. Len(s) : s[i] \in Hashes
  BY WordFacts
<1>2. k - 1 \in Int /\ \A i \in 1 .. k - 1 : s[i] \in Hashes
  BY <1>1
<1>3. /\ SubSeq(s, 1, k - 1) \in Words /\ Len(SubSeq(s, 1, k - 1)) = k - 1
      /\ \A i \in 1 .. k - 1 : SubSeq(s, 1, k - 1)[i] = s[i]
  BY <1>1, <1>2, SubSeqProperties DEF Words
<1>4. SubSeq(s, 1, k) = SubSeq(s, 1, k - 1) \o <<s[k]>>
  <2>1. 1 \in 1 .. Len(s) /\ k \in 1 .. Len(s)
    BY <1>1
  <2> QED BY <2>1, SubSeqRecursiveSecond DEF Words
<1>5. Append(SubSeq(s, 1, k - 1), s[k]) = SubSeq(s, 1, k - 1) \o <<s[k]>>
  BY <1>1, <1>3, AppendIsConcat DEF Words
<1> QED BY <1>3, <1>4, <1>5

\* Appending to the second of two sequences.
LEMMA ConcatAppend ==
    ASSUME NEW s \in Words, NEW t \in Words, NEW e \in Hashes
    PROVE  Append(s \o t, e) = s \o Append(t, e)
<1>1. <<e>> \in Words
  BY DEF Words
<1>2. Append(s \o t, e) = (s \o t) \o <<e>> /\ Append(t, e) = t \o <<e>>
  BY JoinedSet, AppendIsConcat DEF Words
<1> QED BY <1>1, <1>2, ConcatAssociative DEF Words

\* One element more.
LEMMA AppendSet ==
    ASSUME NEW s \in Words, NEW e \in Hashes
    PROVE  /\ Append(s, e) \in Words /\ Len(Append(s, e)) = Len(s) + 1
           /\ ToSet(Append(s, e)) = ToSet(s) \cup {e}
           /\ Append(s, e) = s \o <<e>>
<1>1. /\ Append(s, e) \in Words /\ Len(Append(s, e)) = Len(s) + 1
      /\ \A i \in 1 .. Len(s) : Append(s, e)[i] = s[i]
      /\ Append(s, e)[Len(s) + 1] = e
  BY AppendProperties DEF Words
<1>2. ToSet(Append(s, e)) = ToSet(s) \cup {e}
  BY <1>1, WordFacts DEF ToSet
<1> QED BY <1>1, <1>2, AppendIsConcat DEF Words

-----------------------------------------------------------------------------
(* Fresh *)

\* What the recursion of Fresh says of new, for the first n ids.
Next1(new, id, seen) == IF id \in seen \cup ToSet(new) THEN new ELSE Append(new, id)

News(new, ids, seen, n) ==
    new = [k \in 0 .. n |-> IF k = 0 THEN <<>> ELSE Next1(new[k - 1], ids[k], seen)]

\* The recursion has a solution.
LEMMA NewsExist ==
    ASSUME NEW ids, NEW seen, NEW n \in Nat
    PROVE  \E new : News(new, ids, seen, n)
<1> DEFINE T == {k \in Nat : \E new : News(new, ids, seen, k)}
<1>1. 0 \in T
  <2>1. News([i \in 0 .. 0 |-> <<>>], ids, seen, 0)
    BY DEF News
  <2> QED BY <2>1
<1>2. ASSUME NEW k \in 1 .. n, k - 1 \in T PROVE k \in T
  <2>1. PICK new : News(new, ids, seen, k - 1)
    BY <1>2
  <2> DEFINE next == [i \in 0 .. k |-> IF i = k THEN Next1(new[k - 1], ids[k], seen) ELSE new[i]]
  <2>2. \A i \in 0 .. k - 1 : new[i] = IF i = 0 THEN <<>> ELSE Next1(new[i - 1], ids[i], seen)
    BY <2>1 DEF News
  <2>3. \A i \in 0 .. k - 1 : next[i] = new[i]
    OBVIOUS
  <2>4. ASSUME NEW i \in 0 .. k
        PROVE  next[i] = IF i = 0 THEN <<>> ELSE Next1(next[i - 1], ids[i], seen)
    <3>1. CASE i = k
      <4>1. next[i - 1] = new[k - 1]
        BY <2>3, <3>1
      <4> QED BY <3>1, <4>1
    <3>2. CASE i # k /\ i # 0
      <4>1. i - 1 \in 0 .. k - 1 /\ i \in 0 .. k - 1
        BY <3>2
      <4>2. next[i - 1] = new[i - 1] /\ next[i] = new[i]
        BY <2>3, <4>1
      <4> QED BY <2>2, <3>2, <4>1, <4>2
    <3>3. CASE i = 0
      BY <2>2, <2>3, <3>3
    <3> QED BY <3>1, <3>2, <3>3
  <2>5. next = [i \in 0 .. k |-> next[i]]
    OBVIOUS
  <2> HIDE DEF next
  <2>6. News(next, ids, seen, k)
    BY <2>4, <2>5 DEF News
  <2> QED BY <2>6
<1> HIDE DEF T
<1>3. n \in T
  BY <1>1, <1>2, Induction
<1> QED BY <1>3 DEF T

\* Fresh is what its recursion says.
LEMMA FreshIsNews ==
    ASSUME NEW ids, Len(ids) \in Nat, NEW seen
    PROVE  \E new : News(new, ids, seen, Len(ids)) /\ Fresh(ids, seen) = new[Len(ids)]
<1> DEFINE c == CHOOSE new : News(new, ids, seen, Len(ids))
<1>1. News(c, ids, seen, Len(ids))
  BY NewsExist
<1>2. Fresh(ids, seen) = c[Len(ids)]
  BY Zenon DEF Fresh, News, Next1
<1> QED BY <1>1, <1>2

\* The recursion, step by step.
LEMMA NewsSteps ==
    ASSUME NEW new, NEW ids, NEW seen, NEW n \in Nat, News(new, ids, seen, n)
    PROVE  /\ new[0] = <<>>
           /\ \A k \in 1 .. n : new[k] = Next1(new[k - 1], ids[k], seen)
<1> QED BY DEF News

\* Two runs over the same ids find the same.
LEMMA NewsAgree ==
    ASSUME NEW a, NEW b, NEW seen, NEW n \in Nat, NEW m \in Nat, n <= m,
           \A i \in 1 .. n : a[i] = b[i],
           NEW f, News(f, a, seen, n), NEW g, News(g, b, seen, m)
    PROVE  \A k \in 0 .. n : f[k] = g[k]
<1> DEFINE T == {k \in Nat : f[k] = g[k]}
<1>1. 0 \in T
  BY NewsSteps
<1>2. ASSUME NEW k \in 1 .. n, k - 1 \in T PROVE k \in T
  <2>1. f[k] = Next1(f[k - 1], a[k], seen) /\ g[k] = Next1(g[k - 1], b[k], seen)
    BY NewsSteps
  <2> QED BY <1>2, <2>1
<1> HIDE DEF T
<1>3. \A k \in 0 .. n : k \in T
  BY <1>1, <1>2, Induction
<1> QED BY <1>3 DEF T

\* One step: the sequence and its set.
LEMMA Next1Facts ==
    ASSUME NEW s \in Words, NEW e \in Hashes, NEW seen
    PROVE  /\ Next1(s, e, seen) \in Words
           /\ ToSet(Next1(s, e, seen)) = ToSet(s) \cup ({e} \ seen)
<1> QED BY AppendSet DEF Next1

Distinct(s) == \A i, j \in 1 .. Len(s) : s[i] = s[j] => i = j

\* A step adds no duplicate.
LEMMA Next1Distinct ==
    ASSUME NEW s \in Words, NEW e \in Hashes, NEW seen, Distinct(s)
    PROVE  Distinct(Next1(s, e, seen))
<1>1. CASE e \in seen \cup ToSet(s)
  BY <1>1 DEF Next1
<1>2. CASE e \notin seen \cup ToSet(s)
  <2>1. /\ Len(Append(s, e)) = Len(s) + 1 /\ Len(s) \in Nat
        /\ \A i \in 1 .. Len(s) : Append(s, e)[i] = s[i]
        /\ Append(s, e)[Len(s) + 1] = e
    BY AppendProperties, WordFacts DEF Words
  <2>2. \A i \in 1 .. Len(s) : s[i] # e
    BY <1>2, WordFacts DEF ToSet
  <2>3. Next1(s, e, seen) = Append(s, e)
    BY <1>2 DEF Next1
  <2>4. \A i \in 1 .. Len(s) + 1 : i \in 1 .. Len(s) \/ i = Len(s) + 1
    BY <2>1
  <2> QED BY <2>1, <2>2, <2>3, <2>4 DEF Distinct
<1> QED BY <1>1, <1>2

\* After k ids: new ones, once each.
LEMMA NewsFacts ==
    ASSUME NEW ids \in Words, NEW seen, NEW new, News(new, ids, seen, Len(ids)),
           NEW k \in 0 .. Len(ids)
    PROVE  /\ new[k] \in Words /\ Distinct(new[k])
           /\ ToSet(new[k]) = {ids[i] : i \in 1 .. k} \ seen
<1> DEFINE T == {n \in Nat : /\ new[n] \in Words /\ Distinct(new[n])
                            /\ ToSet(new[n]) = {ids[i] : i \in 1 .. n} \ seen}
<1>0. Len(ids) \in Nat
  BY WordFacts
<1>1. 0 \in T
  <2>1. new[0] = <<>>
    BY <1>0, NewsSteps
  <2>2. <<>> \in Words /\ Distinct(<<>>)
    BY DEF Words, Distinct
  <2>3. ToSet(<<>>) = {}
    BY DEF ToSet
  <2>4. {ids[i] : i \in 1 .. 0} = {}
    OBVIOUS
  <2> QED BY <2>1, <2>2, <2>3, <2>4
<1>2. ASSUME NEW n \in 1 .. Len(ids), n - 1 \in T PROVE n \in T
  <2>1. new[n] = Next1(new[n - 1], ids[n], seen) /\ ids[n] \in Hashes
    BY <1>0, NewsSteps, WordFacts
  <2>2. /\ new[n] \in Words /\ Distinct(new[n])
        /\ ToSet(new[n]) = ToSet(new[n - 1]) \cup ({ids[n]} \ seen)
    BY <1>2, <2>1, Next1Facts, Next1Distinct
  <2>3. {ids[i] : i \in 1 .. n} = {ids[i] : i \in 1 .. n - 1} \cup {ids[n]}
    <3>1. \A i \in 1 .. n : i \in 1 .. n - 1 \/ i = n
      BY <1>0
    <3>2. \A i \in 1 .. n - 1 : i \in 1 .. n
      BY <1>0
    <3>3. n \in 1 .. n
      BY <1>0
    <3> QED BY <3>1, <3>2, <3>3
  <2> QED BY <1>0, <1>2, <2>2, <2>3
<1> HIDE DEF T
<1>3. k \in T
  BY <1>0, <1>1, <1>2, Induction
<1> QED BY <1>3 DEF T

\* Fresh returns what is new, once.
LEMMA FreshFacts ==
    ASSUME NEW ids \in Words, NEW seen
    PROVE  /\ Fresh(ids, seen) \in Words /\ Distinct(Fresh(ids, seen))
           /\ ToSet(Fresh(ids, seen)) = ToSet(ids) \ seen
<1>1. Len(ids) \in Nat /\ ToSet(ids) = {ids[i] : i \in 1 .. Len(ids)}
  BY WordFacts DEF ToSet
<1>2. PICK new : News(new, ids, seen, Len(ids)) /\ Fresh(ids, seen) = new[Len(ids)]
  BY <1>1, FreshIsNews
<1> DEFINE n == Len(ids)
<1>3. n \in 0 .. Len(ids)
  BY <1>1
<1> HIDE DEF n
<1>4. /\ new[n] \in Words /\ Distinct(new[n])
      /\ ToSet(new[n]) = {ids[i] : i \in 1 .. n} \ seen
  BY <1>2, <1>3, NewsFacts
<1> QED BY <1>1, <1>2, <1>4 DEF n

\* Fresh of nothing.
LEMMA FreshEmpty ==
    ASSUME NEW seen
    PROVE  Fresh(<<>>, seen) = <<>>
<1>1. PICK new : News(new, <<>>, seen, Len(<<>>)) /\ Fresh(<<>>, seen) = new[Len(<<>>)]
  BY FreshIsNews
<1> QED BY <1>1, NewsSteps

\* Fresh of one id more.
LEMMA FreshAppend ==
    ASSUME NEW ids \in Words, NEW e \in Hashes, NEW seen
    PROVE  Fresh(Append(ids, e), seen) = Next1(Fresh(ids, seen), e, seen)
<1> DEFINE n == Len(ids)
           b == Append(ids, e)
<1>1. n \in Nat /\ Len(b) = n + 1 /\ b[n + 1] = e /\ \A i \in 1 .. n : ids[i] = b[i]
  BY AppendProperties, WordFacts DEF Words
<1> HIDE DEF n, b
<1>2. PICK f : News(f, ids, seen, n) /\ Fresh(ids, seen) = f[n]
  BY <1>1, FreshIsNews DEF n
<1>3. PICK g : News(g, b, seen, n + 1) /\ Fresh(b, seen) = g[n + 1]
  BY <1>1, FreshIsNews
<1>4. f[n] = g[n]
  <2>1. n \in Nat /\ n + 1 \in Nat /\ n <= n + 1 /\ n \in 0 .. n
    BY <1>1
  <2>2. \A k \in 0 .. n : f[k] = g[k]
    BY <1>1, <1>2, <1>3, <2>1, NewsAgree
  <2> QED BY <2>1, <2>2
<1>5. g[n + 1] = Next1(g[n], b[n + 1], seen)
  BY <1>1, <1>3, NewsSteps
<1> QED BY <1>1, <1>2, <1>3, <1>4, <1>5 DEF b

\* Fresh of one sequence after another.
LEMMA FreshConcat ==
    ASSUME NEW a \in Words, NEW b \in Words, NEW seen
    PROVE  Fresh(a \o b, seen) = Fresh(a, seen) \o Fresh(b, seen \cup ToSet(a))
<1> DEFINE f == Fresh(a, seen)
           more == seen \cup ToSet(a)
           T == {k \in Nat : LET c == SubSeq(b, 1, k)
                             IN  Fresh(a \o c, seen) = f \o Fresh(c, more)}
<1>1. f \in Words /\ ToSet(f) = ToSet(a) \ seen
  BY FreshFacts
<1>2. Len(b) \in Nat /\ SubSeq(b, 1, 0) = <<>> /\ SubSeq(b, 1, Len(b)) = b
  BY WordFacts, SubSeqEmpty, SubSeqFull DEF Words
<1> HIDE DEF f, more
<1>3. 0 \in T
  <2>1. a \o <<>> = a /\ f \o <<>> = f
    BY <1>1, ConcatEmptySeq DEF Words
  <2> QED BY <1>2, <2>1, FreshEmpty DEF f
<1>4. ASSUME NEW k \in 1 .. Len(b), k - 1 \in T PROVE k \in T
  <2> DEFINE c == SubSeq(b, 1, k - 1)
             d == SubSeq(b, 1, k)
             e == b[k]
             g == Fresh(c, more)
  <2>1. c \in Words /\ e \in Hashes /\ d = Append(c, e)
    BY <1>2, WordFacts, PrefixGrows
  <2>2. Fresh(a \o c, seen) = f \o g
    BY <1>4
  <2> HIDE DEF c, d, e
  <2>3. a \o d = Append(a \o c, e) /\ a \o c \in Words
    BY <2>1, ConcatAppend, JoinedSet
  <2>4. g \in Words /\ ToSet(f \o g) = ToSet(f) \cup ToSet(g)
    BY <1>1, <2>1, FreshFacts, JoinedSet
  <2>5. Fresh(a \o d, seen) = Next1(f \o g, e, seen)
    BY <2>1, <2>2, <2>3, FreshAppend, ZenonT(60)
  <2>6. Fresh(d, more) = Next1(g, e, more)
    BY <2>1, FreshAppend
  <2> HIDE DEF g
  <2>7. Append(f \o g, e) = f \o Append(g, e)
    BY <1>1, <2>1, <2>4, ConcatAppend
  <2>8. seen \cup ToSet(f \o g) = more \cup ToSet(g)
    BY <1>1, <2>4 DEF more
  <2>9. Next1(f \o g, e, seen) = f \o Next1(g, e, more)
    BY <2>7, <2>8, Zenon DEF Next1
  <2>10. Fresh(a \o d, seen) = f \o Fresh(d, more)
    BY <2>5, <2>6, <2>9
  <2> QED BY <2>10 DEF d
<1> HIDE DEF T
<1>5. \A k \in 0 .. Len(b) : k \in T
  BY <1>2, <1>3, <1>4, Induction
<1>6. Len(b) \in T
  BY <1>2, <1>5
<1> QED BY <1>2, <1>6 DEF T, f, more

\* Dropping what was seen, twice.
LEMMA FreshTwice ==
    ASSUME NEW ids \in Words, NEW seen, NEW more
    PROVE  Fresh(ids, seen \cup more) = Fresh(Fresh(ids, seen), more)
<1> DEFINE T == {k \in Nat : LET c == SubSeq(ids, 1, k)
                             IN  Fresh(c, seen \cup more) = Fresh(Fresh(c, seen), more)}
<1>1. Len(ids) \in Nat /\ SubSeq(ids, 1, 0) = <<>> /\ SubSeq(ids, 1, Len(ids)) = ids
  BY WordFacts, SubSeqEmpty, SubSeqFull DEF Words
<1>2. 0 \in T
  <2>1. /\ Fresh(<<>>, seen) = <<>> /\ Fresh(<<>>, more) = <<>>
        /\ Fresh(<<>>, seen \cup more) = <<>>
    BY FreshEmpty
  <2> QED BY <1>1, <2>1
<1>3. ASSUME NEW k \in 1 .. Len(ids), k - 1 \in T PROVE k \in T
  <2> DEFINE c == SubSeq(ids, 1, k - 1)
             d == SubSeq(ids, 1, k)
             e == ids[k]
             f == Fresh(c, seen)
             g == Fresh(c, seen \cup more)
  <2>1. c \in Words /\ e \in Hashes /\ d = Append(c, e)
    BY <1>1, WordFacts, PrefixGrows
  <2>2. g = Fresh(f, more)
    BY <1>3
  <2> HIDE DEF c, d, e
  <2>3. f \in Words /\ ToSet(f) = ToSet(c) \ seen /\ ToSet(g) = ToSet(c) \ (seen \cup more)
    BY <2>1, FreshFacts
  <2>4. Fresh(d, seen) = Next1(f, e, seen) /\ Fresh(d, seen \cup more) = Next1(g, e, seen \cup more)
    BY <2>1, FreshAppend
  <2>5. Fresh(Append(f, e), more) = Next1(g, e, more)
    BY <2>1, <2>2, <2>3, FreshAppend
  <2> HIDE DEF f, g
  <2>6. CASE e \in seen \cup ToSet(f)
    <3>1. e \in seen \cup more \cup ToSet(g)
      BY <2>3, <2>6
    <3>2. Fresh(d, seen) = f /\ Fresh(d, seen \cup more) = g
      BY <2>4, <2>6, <3>1 DEF Next1
    <3> QED BY <2>2, <3>2 DEF d
  <2>7. CASE e \notin seen \cup ToSet(f)
    <3>1. Fresh(d, seen) = Append(f, e)
      BY <2>4, <2>7 DEF Next1
    <3>2. Next1(g, e, seen \cup more) = Next1(g, e, more)
      BY <2>7 DEF Next1
    <3>3. Fresh(d, seen \cup more) = Fresh(Fresh(d, seen), more)
      BY <2>4, <2>5, <3>1, <3>2
    <3> QED BY <3>3 DEF d
  <2> QED BY <2>6, <2>7
<1> HIDE DEF T
<1>4. \A k \in 0 .. Len(ids) : k \in T
  BY <1>1, <1>2, <1>3, Induction
<1>5. Len(ids) \in T
  BY <1>1, <1>4
<1> QED BY <1>1, <1>5 DEF T

\* Nothing is dropped from a sequence of new ids without duplicates.
LEMMA FreshOfNew ==
    ASSUME NEW ids \in Words, Distinct(ids), NEW seen, ToSet(ids) \cap seen = {}
    PROVE  Fresh(ids, seen) = ids
<1> DEFINE T == {k \in Nat : LET c == SubSeq(ids, 1, k) IN Fresh(c, seen) = c}
<1>1. Len(ids) \in Nat /\ SubSeq(ids, 1, 0) = <<>> /\ SubSeq(ids, 1, Len(ids)) = ids
  BY WordFacts, SubSeqEmpty, SubSeqFull DEF Words
<1>2. 0 \in T
  BY <1>1, FreshEmpty
<1>3. ASSUME NEW k \in 1 .. Len(ids), k - 1 \in T PROVE k \in T
  <2> DEFINE c == SubSeq(ids, 1, k - 1)
             d == SubSeq(ids, 1, k)
             e == ids[k]
  <2>1. /\ c \in Words /\ e \in Hashes /\ d = Append(c, e)
        /\ Len(c) = k - 1 /\ \A i \in 1 .. k - 1 : c[i] = ids[i]
    BY <1>1, WordFacts, PrefixGrows
  <2>2. Fresh(c, seen) = c
    BY <1>3
  <2> HIDE DEF c, d
  <2>3. e \notin ToSet(c)
    <3> SUFFICES ASSUME e \in ToSet(c) PROVE FALSE
      OBVIOUS
    <3>1. PICK i \in 1 .. k - 1 : c[i] = e
      BY <2>1, WordFacts DEF ToSet
    <3>2. ids[i] = ids[k] /\ i \in 1 .. Len(ids) /\ i # k
      BY <1>1, <2>1, <3>1
    <3> QED BY <3>2 DEF Distinct
  <2>4. e \notin seen
    BY WordFacts DEF ToSet
  <2>5. Fresh(d, seen) = Append(c, e)
    BY <2>1, <2>2, <2>3, <2>4, FreshAppend DEF Next1
  <2> QED BY <2>1, <2>5 DEF d
<1> HIDE DEF T
<1>4. \A k \in 0 .. Len(ids) : k \in T
  BY <1>1, <1>2, <1>3, Induction
<1>5. Len(ids) \in T
  BY <1>1, <1>4
<1> QED BY <1>1, <1>5 DEF T

-----------------------------------------------------------------------------
(* Concatenated *)

\* What the recursion of MapThenFoldSet says of g.
Joins(g, f, D) ==
    g = [s \in D |-> IF s = {} THEN <<>> ELSE g[s \ {Max(s)}] \o f[Max(s)]]

Joined(f, names) ==
    MapThenFoldSet(LAMBDA last, earlier : earlier \o last, <<>>, LAMBDA n : f[n],
                   LAMBDA S : Max(S), names)

Agree(f, e, R) == \A x \in R : f[x] = e[x]

UpTo(S, n) == {s \in SUBSET S : Cardinality(s) <= n}

\* Taking the last name out of a set leaves a smaller one.
LEMMA LastSmaller ==
    ASSUME NEW S \in SUBSET Nat, IsFiniteSet(S), NEW s \in SUBSET S, s # {}
    PROVE  /\ Max(s) \in s /\ \A x \in s : x <= Max(s)
           /\ IsFiniteSet(s) /\ Cardinality(s) \in Nat \ {0}
           /\ s \ {Max(s)} \in SUBSET S
           /\ Cardinality(s \ {Max(s)}) = Cardinality(s) - 1
<1>1. IsFiniteSet(s) /\ Cardinality(s) \in Nat
  BY FS_Subset, FS_CardinalityType
<1>2. Max(s) \in s /\ \A x \in s : x <= Max(s)
  BY <1>1, MaxIsMax
<1>3. Cardinality(s \ {Max(s)}) = Cardinality(s) - 1
  BY <1>1, <1>2, FS_RemoveElement
<1>4. Cardinality(s) # 0
  BY <1>1, FS_EmptySet
<1> QED
  BY <1>1, <1>2, <1>3, <1>4

\* The recursion has a solution over the subsets of any size.
LEMMA JoinsExist ==
    ASSUME NEW S \in SUBSET Nat, IsFiniteSet(S), NEW f, NEW n \in Nat
    PROVE  \E g : Joins(g, f, UpTo(S, n))
<1> DEFINE T == {k \in Nat : \E g : Joins(g, f, UpTo(S, k))}
<1>1. 0 \in T
  <2>1. UpTo(S, 0) = {{}}
    <3>1. ASSUME NEW s \in UpTo(S, 0) PROVE s = {}
      <4>1. s \in SUBSET S /\ Cardinality(s) <= 0
        BY DEF UpTo
      <4>2. IsFiniteSet(s) /\ Cardinality(s) \in Nat
        BY <4>1, FS_Subset, FS_CardinalityType
      <4>3. Cardinality(s) = 0
        BY <4>1, <4>2
      <4> QED BY <4>2, <4>3, FS_EmptySet
    <3>2. {} \in UpTo(S, 0)
      BY FS_EmptySet DEF UpTo
    <3> QED BY <3>1, <3>2
  <2>2. Joins([s \in {{}} |-> <<>>], f, {{}})
    BY DEF Joins
  <2> QED BY <2>1, <2>2
<1>2. ASSUME NEW k \in 1 .. n, k - 1 \in T PROVE k \in T
  <2>1. PICK g : Joins(g, f, UpTo(S, k - 1))
    BY <1>2
  <2> DEFINE next == [s \in UpTo(S, k) |-> IF s = {} THEN <<>> ELSE g[s \ {Max(s)}] \o f[Max(s)]]
  <2>2. ASSUME NEW s \in UpTo(S, k - 1) PROVE next[s] = g[s]
    <3>1. s \in UpTo(S, k)
      <4>1. Cardinality(s) \in Nat /\ Cardinality(s) <= k - 1
        BY FS_Subset, FS_CardinalityType DEF UpTo
      <4> QED BY <4>1 DEF UpTo
    <3>2. next[s] = IF s = {} THEN <<>> ELSE g[s \ {Max(s)}] \o f[Max(s)]
      BY <3>1
    <3>3. g[s] = IF s = {} THEN <<>> ELSE g[s \ {Max(s)}] \o f[Max(s)]
      BY <2>1, Zenon DEF Joins
    <3> QED BY <3>2, <3>3
  <2>3. ASSUME NEW s \in UpTo(S, k), s # {} PROVE s \ {Max(s)} \in UpTo(S, k - 1)
    BY <2>3, LastSmaller DEF UpTo
  <2>4. ASSUME NEW s \in UpTo(S, k)
        PROVE  next[s] = IF s = {} THEN <<>> ELSE next[s \ {Max(s)}] \o f[Max(s)]
    <3>1. CASE s = {}
      BY <3>1
    <3>2. CASE s # {}
      <4>1. next[s \ {Max(s)}] = g[s \ {Max(s)}]
        BY <2>2, <2>3, <3>2
      <4> QED BY <3>2, <4>1
    <3> QED BY <3>1, <3>2
  <2>5. next = [s \in UpTo(S, k) |-> next[s]]
    OBVIOUS
  <2> HIDE DEF next
  <2>6. Joins(next, f, UpTo(S, k))
    BY <2>4, <2>5, Zenon DEF Joins
  <2> QED BY <2>6
<1> HIDE DEF T
<1>3. n \in T
  BY <1>1, <1>2, Induction
<1> QED BY <1>3 DEF T

JoinsAll(g, f, S) == Joins(g, f, SUBSET S)

\* Two runs agree on the subsets where the files do.
LEMMA JoinsAgree ==
    ASSUME NEW S \in SUBSET Nat, IsFiniteSet(S), NEW R \in SUBSET S,
           NEW f, NEW e, Agree(f, e, R),
           NEW g, JoinsAll(g, f, S), NEW h, JoinsAll(h, e, R)
    PROVE  g[R] = h[R]
<1> DEFINE T == {k \in Nat : \A s \in SUBSET R : Cardinality(s) = k => g[s] = h[s]}
<1>1. ASSUME NEW s \in SUBSET R
      PROVE  /\ g[s] = IF s = {} THEN <<>> ELSE g[s \ {Max(s)}] \o f[Max(s)]
             /\ h[s] = IF s = {} THEN <<>> ELSE h[s \ {Max(s)}] \o e[Max(s)]
  <2>1. s \in SUBSET S
    OBVIOUS
  <2> QED BY <2>1, Zenon DEF Joins, JoinsAll
<1>2. IsFiniteSet(R) /\ Cardinality(R) \in Nat /\ R \in SUBSET Nat
  BY FS_Subset, FS_CardinalityType
<1>3. 0 \in T
  <2> SUFFICES ASSUME NEW s \in SUBSET R, Cardinality(s) = 0 PROVE g[s] = h[s]
    OBVIOUS
  <2>1. s = {}
    BY <1>2, FS_Subset, FS_EmptySet
  <2> QED BY <1>1, <2>1
<1>4. ASSUME NEW k \in 1 .. Cardinality(R), k - 1 \in T PROVE k \in T
  <2> SUFFICES ASSUME NEW s \in SUBSET R, Cardinality(s) = k PROVE g[s] = h[s]
    BY <1>2
  <2>1. s # {}
    <3>1. IsFiniteSet(s)
      BY <1>2, FS_Subset
    <3>2. k # 0
      BY <1>2
    <3> QED BY <3>1, <3>2, FS_EmptySet
  <2>2. Max(s) \in s /\ s \ {Max(s)} \in SUBSET R /\ Cardinality(s \ {Max(s)}) = k - 1
    BY <1>2, <2>1, LastSmaller
  <2>3. g[s \ {Max(s)}] = h[s \ {Max(s)}]
    BY <1>4, <2>2
  <2>4. f[Max(s)] = e[Max(s)]
    BY <2>2 DEF Agree
  <2> QED BY <1>1, <2>1, <2>3, <2>4
<1> HIDE DEF T
<1>5. Cardinality(R) \in T
  BY <1>2, <1>3, <1>4, Induction
<1> QED BY <1>5 DEF T

\* Joined is what its recursion says.
LEMMA JoinedIsJoins ==
    ASSUME NEW S \in SUBSET Nat, IsFiniteSet(S), NEW f
    PROVE  \E g : JoinsAll(g, f, S) /\ Joined(f, S) = g[S]
<1> DEFINE c == CHOOSE g : Joins(g, f, SUBSET S)
<1>1. UpTo(S, Cardinality(S)) = SUBSET S /\ Cardinality(S) \in Nat
  BY FS_Subset, FS_CardinalityType DEF UpTo
<1>2. \E g : Joins(g, f, SUBSET S)
  <2>1. PICK g : Joins(g, f, UpTo(S, Cardinality(S)))
    BY <1>1, JoinsExist
  <2> QED BY <1>1, <2>1
<1>3. Joins(c, f, SUBSET S)
  BY <1>2
<1>4. Joined(f, S) = c[S]
  BY Zenon DEF Joined, MapThenFoldSet, Joins
<1> QED BY <1>3, <1>4 DEF JoinsAll

\* Joined depends on the files of the given names only.
LEMMA JoinedSame ==
    ASSUME NEW S \in SUBSET Nat, IsFiniteSet(S), NEW f, NEW e, Agree(f, e, S)
    PROVE  Joined(f, S) = Joined(e, S)
<1>1. PICK g : JoinsAll(g, f, S) /\ Joined(f, S) = g[S]
  BY JoinedIsJoins
<1>2. PICK h : JoinsAll(h, e, S) /\ Joined(e, S) = h[S]
  BY JoinedIsJoins
<1>3. S \in SUBSET S
  OBVIOUS
<1> QED BY <1>1, <1>2, <1>3, JoinsAgree

\* The last file is read last.
LEMMA JoinedLast ==
    ASSUME NEW S \in SUBSET Nat, IsFiniteSet(S), NEW f
    PROVE  Joined(f, S) = IF S = {} THEN <<>>
                          ELSE Joined(f, S \ {Max(S)}) \o f[Max(S)]
<1>1. PICK g : JoinsAll(g, f, S) /\ Joined(f, S) = g[S]
  BY JoinedIsJoins
<1>2. g[S] = IF S = {} THEN <<>> ELSE g[S \ {Max(S)}] \o f[Max(S)]
  BY <1>1, Zenon DEF Joins, JoinsAll
<1> DEFINE R == S \ {Max(S)}
<1>3. R \in SUBSET S /\ R \in SUBSET Nat /\ IsFiniteSet(R)
  BY FS_Subset
<1>4. PICK h : JoinsAll(h, f, R) /\ Joined(f, R) = h[R]
  BY <1>3, JoinedIsJoins
<1> HIDE DEF R
<1>5. g[R] = h[R]
  <2>1. Agree(f, f, R)
    BY DEF Agree
  <2> QED BY <1>1, <1>3, <1>4, <2>1, JoinsAgree
<1> QED BY <1>1, <1>2, <1>4, <1>5 DEF R

\* A file with a name after all others is read after them.
LEMMA JoinedMore ==
    ASSUME NEW S \in SUBSET Nat, IsFiniteSet(S), NEW m \in Nat, \A x \in S : x < m, NEW f
    PROVE  Joined(f, S \cup {m}) = Joined(f, S) \o f[m]
<1> DEFINE R == S \cup {m}
<1>1. R \in SUBSET Nat /\ IsFiniteSet(R) /\ R # {} /\ m \in R
  BY FS_AddElement
<1>2. Max(R) \in R /\ \A x \in R : x <= Max(R)
  BY <1>1, MaxIsMax
<1>3. Max(R) = m
  <2>1. Max(R) \in Nat /\ m <= Max(R) /\ (Max(R) \in S => Max(R) < m)
    BY <1>1, <1>2
  <2> QED BY <1>2, <2>1
<1>4. R \ {m} = S
  OBVIOUS
<1> QED BY <1>1, <1>3, <1>4, JoinedLast

\* The files one after the other hold what the files hold.
LEMMA JoinedFacts ==
    ASSUME NEW S \in SUBSET Nat, IsFiniteSet(S), NEW f, \A n \in S : f[n] \in Words
    PROVE  Joined(f, S) \in Words /\ ToSet(Joined(f, S)) = UNION {ToSet(f[n]) : n \in S}
<1> DEFINE T == {k \in Nat : \A s \in SUBSET S : Cardinality(s) = k =>
                    /\ Joined(f, s) \in Words
                    /\ ToSet(Joined(f, s)) = UNION {ToSet(f[n]) : n \in s}}
<1>1. Cardinality(S) \in Nat
  BY FS_CardinalityType
<1>2. 0 \in T
  <2> SUFFICES ASSUME NEW s \in SUBSET S, Cardinality(s) = 0
               PROVE  /\ Joined(f, s) \in Words
                      /\ ToSet(Joined(f, s)) = UNION {ToSet(f[n]) : n \in s}
    OBVIOUS
  <2>1. s = {}
    BY FS_Subset, FS_EmptySet
  <2>2. Joined(f, s) = <<>>
    BY <2>1, FS_EmptySet, JoinedLast
  <2>3. <<>> \in Words /\ ToSet(<<>>) = {}
    BY DEF Words, ToSet
  <2> QED BY <2>1, <2>2, <2>3
<1>3. ASSUME NEW k \in 1 .. Cardinality(S), k - 1 \in T PROVE k \in T
  <2> SUFFICES ASSUME NEW s \in SUBSET S, Cardinality(s) = k
               PROVE  /\ Joined(f, s) \in Words
                      /\ ToSet(Joined(f, s)) = UNION {ToSet(f[n]) : n \in s}
    BY <1>1
  <2>1. s # {}
    BY <1>1, FS_EmptySet
  <2> DEFINE m == Max(s)
             r == s \ {m}
  <2>2. m \in s /\ r \in SUBSET S /\ Cardinality(r) = k - 1 /\ IsFiniteSet(s)
    BY <2>1, LastSmaller
  <2>3. Joined(f, s) = Joined(f, r) \o f[m]
    BY <2>1, <2>2, JoinedLast
  <2> HIDE DEF m
  <2>4. Joined(f, r) \in Words /\ ToSet(Joined(f, r)) = UNION {ToSet(f[n]) : n \in r}
    BY <1>3, <2>2
  <2>5. f[m] \in Words
    BY <2>2
  <2>6. Joined(f, s) \in Words /\ ToSet(Joined(f, s)) = ToSet(Joined(f, r)) \cup ToSet(f[m])
    BY <2>3, <2>4, <2>5, JoinedSet
  <2>7. UNION {ToSet(f[n]) : n \in s} = (UNION {ToSet(f[n]) : n \in r}) \cup ToSet(f[m])
    <3>1. s = r \cup {m}
      BY <2>2
    <3> QED BY <3>1
  <2> QED BY <2>4, <2>6, <2>7
<1> HIDE DEF T
<1>4. Cardinality(S) \in T
  BY <1>1, <1>2, <1>3, Induction
<1> QED BY <1>4 DEF T

\* Concatenated, in this state and in the next.
LEMMA ConcatenatedIsJoined ==
    ASSUME NEW names
    PROVE  Concatenated(names) = Joined(archives, names)
<1> QED BY Zenon DEF Concatenated, Joined

-----------------------------------------------------------------------------
(* The files of one write *)

\* Cutting a sequence in two.
LEMMA Cut ==
    ASSUME NEW s \in Words, NEW p \in 0 .. Len(s)
    PROVE  /\ SubSeq(s, 1, p) \in Words /\ SubSeq(s, p + 1, Len(s)) \in Words
           /\ Len(SubSeq(s, 1, p)) = p /\ Len(SubSeq(s, p + 1, Len(s))) = Len(s) - p
           /\ SubSeq(s, 1, p) \o SubSeq(s, p + 1, Len(s)) = s
<1>1. Len(s) \in Nat /\ \A i \in 1 .. Len(s) : s[i] \in Hashes
  BY WordFacts
<1>2. p \in Int /\ p + 1 \in Int /\ Len(s) \in Int /\ 1 \in Int
  BY <1>1
<1>3. SubSeq(s, 1, p) \in Words /\ Len(SubSeq(s, 1, p)) = p
  <2>1. \A i \in 1 .. p : s[i] \in Hashes
    BY <1>1
  <2>2. /\ SubSeq(s, 1, p) \in Seq(Hashes)
        /\ Len(SubSeq(s, 1, p)) = IF 1 <= p THEN p - 1 + 1 ELSE 0
    BY <1>2, <2>1, SubSeqProperties
  <2> QED BY <1>1, <2>2 DEF Words
<1>4. SubSeq(s, p + 1, Len(s)) \in Words /\ Len(SubSeq(s, p + 1, Len(s))) = Len(s) - p
  <2>1. \A i \in p + 1 .. Len(s) : s[i] \in Hashes
    BY <1>1
  <2>2. /\ SubSeq(s, p + 1, Len(s)) \in Seq(Hashes)
        /\ Len(SubSeq(s, p + 1, Len(s)))
             = IF p + 1 <= Len(s) THEN Len(s) - (p + 1) + 1 ELSE 0
    BY <1>2, <2>1, SubSeqProperties
  <2> QED BY <1>1, <2>2 DEF Words
<1>5. SubSeq(s, 1, p) \o SubSeq(s, p + 1, Len(s)) = s
  <2>1. /\ 1 \in 1 .. Len(s) + 1 /\ p \in 1 - 1 .. Len(s) /\ Len(s) \in p .. Len(s)
    BY <1>1
  <2>2. SubSeq(s, 1, p) \o SubSeq(s, p + 1, Len(s)) = SubSeq(s, 1, Len(s))
    BY <2>1, ConcatAdjacentSubSeq DEF Words
  <2> QED BY <2>2, SubSeqFull DEF Words
<1> QED BY <1>3, <1>4, <1>5

\* Where the k-th chunk of n hashes ends.
ChunkEnd(k, n) == IF k * MaxHashes <= n THEN k * MaxHashes ELSE n

ChunkCount(n) == (n + MaxHashes - 1) \div MaxHashes

\* There are as many chunks as the hashes fill.
LEMMA ChunkNumbers ==
    ASSUME NEW n \in Nat
    PROVE  /\ ChunkCount(n) \in Nat /\ ChunkEnd(0, n) = 0 /\ ChunkEnd(ChunkCount(n), n) = n
           /\ \A k \in 0 .. ChunkCount(n) : ChunkEnd(k, n) \in 0 .. n
           /\ \A k \in 1 .. ChunkCount(n) :
                /\ (k - 1) * MaxHashes = ChunkEnd(k - 1, n)
                /\ ChunkEnd(k - 1, n) <= ChunkEnd(k, n)
                /\ ChunkEnd(k, n) - ChunkEnd(k - 1, n) <= MaxHashes
<1> DEFINE M == MaxHashes
           c == ChunkCount(n)
<1>1. M \in Nat \ {0}
  BY ActivityAssumption
<1>2. c \in Nat /\ c * M <= n + M - 1 /\ n + M - 1 < c * M + M
  <2>1. n + M - 1 \in Nat
    BY <1>1
  <2> QED BY <1>1, <2>1 DEF ChunkCount
<1>3. \A k \in Nat : k * M \in Nat
  BY <1>1
<1> HIDE DEF M, c
<1>4. c * M >= n
  BY <1>1, <1>2, <1>3
<1>5. ASSUME NEW k \in 1 .. c
      PROVE  /\ (k - 1) * M < n /\ (k - 1) * M = k * M - M
             /\ (k - 1) * M \in Nat /\ k * M \in Nat
  <2>1. k - 1 \in Nat /\ k \in Nat /\ k <= c
    BY <1>2
  <2>2. k * M <= c * M
    BY <1>1, <1>2, <2>1
  <2>3. (k - 1) * M = k * M - M
    BY <1>1, <2>1
  <2>4. (k - 1) * M \in Nat /\ k * M \in Nat /\ c * M \in Nat
    BY <1>2, <1>3, <2>1
  <2> QED BY <1>1, <1>2, <2>2, <2>3, <2>4
<1>6. 0 * M = 0
  BY <1>1
<1>7. ChunkEnd(0, n) = 0
  BY <1>6 DEF ChunkEnd, M
<1>8. ChunkEnd(c, n) = n
  BY <1>2, <1>3, <1>4 DEF ChunkEnd, M
<1>9. ASSUME NEW k \in 0 .. c PROVE ChunkEnd(k, n) \in 0 .. n
  <2>1. k * M \in Nat
    BY <1>2, <1>3
  <2> QED BY <2>1 DEF ChunkEnd, M
<1>10. ASSUME NEW k \in 1 .. c
       PROVE  /\ (k - 1) * MaxHashes = ChunkEnd(k - 1, n)
              /\ ChunkEnd(k - 1, n) <= ChunkEnd(k, n)
              /\ ChunkEnd(k, n) - ChunkEnd(k - 1, n) <= MaxHashes
  <2>1. /\ (k - 1) * M < n /\ (k - 1) * M = k * M - M
        /\ (k - 1) * M \in Nat /\ k * M \in Nat
    BY <1>5
  <2> QED BY <1>1, <2>1 DEF ChunkEnd, M
<1> QED BY <1>2, <1>7, <1>8, <1>9, <1>10 DEF c

\* The chunks, one after the other, are the hashes.
LEMMA ChunkFacts ==
    ASSUME NEW s \in Words
    PROVE  LET c == splitActivityArchiveChunks(s)
           IN  /\ Len(c) = ChunkCount(Len(s))
               /\ \A k \in 1 .. ChunkCount(Len(s)) :
                    /\ c[k] \in Words /\ Len(c[k]) <= MaxHashes
                    /\ SubSeq(s, 1, ChunkEnd(k, Len(s)))
                         = SubSeq(s, 1, ChunkEnd(k - 1, Len(s))) \o c[k]
<1> DEFINE n == Len(s)
           c == splitActivityArchiveChunks(s)
<1>1. n \in Nat /\ \A i \in 1 .. n : s[i] \in Hashes
  BY WordFacts
<1>2. c = [k \in 1 .. ChunkCount(n) |-> SubSeq(s, (k - 1) * MaxHashes + 1, ChunkEnd(k, n))]
  BY Zenon DEF splitActivityArchiveChunks, ChunkCount, ChunkEnd
<1>3. ChunkCount(n) \in Nat
  BY <1>1, ChunkNumbers
<1> HIDE DEF n, c
<1>4. Len(c) = ChunkCount(n)
  BY <1>2, <1>3
<1>5. ASSUME NEW k \in 1 .. ChunkCount(n)
      PROVE  /\ c[k] \in Words /\ Len(c[k]) <= MaxHashes
             /\ SubSeq(s, 1, ChunkEnd(k, n)) = SubSeq(s, 1, ChunkEnd(k - 1, n)) \o c[k]
  <2> DEFINE a == ChunkEnd(k - 1, n)
             b == ChunkEnd(k, n)
  <2>1. c[k] = SubSeq(s, (k - 1) * MaxHashes + 1, ChunkEnd(k, n))
    BY <1>2
  <2>2. (k - 1) * MaxHashes = a /\ a \in 0 .. n /\ b \in 0 .. n /\ a <= b /\ b - a <= MaxHashes
    <3>1. k - 1 \in 0 .. ChunkCount(n) /\ k \in 0 .. ChunkCount(n)
      BY <1>3
    <3> QED BY <1>1, <3>1, ChunkNumbers
  <2>3. c[k] = SubSeq(s, a + 1, b)
    BY <2>1, <2>2
  <2> HIDE DEF a, b
  <2>4. \A i \in a + 1 .. b : s[i] \in Hashes
    BY <1>1, <2>2
  <2>5. a + 1 \in Int /\ b \in Int /\ MaxHashes \in Nat
    BY <2>2, ActivityAssumption
  <2>6. /\ SubSeq(s, a + 1, b) \in Seq(Hashes)
        /\ Len(SubSeq(s, a + 1, b)) = IF a + 1 <= b THEN b - (a + 1) + 1 ELSE 0
    BY <2>4, <2>5, SubSeqProperties
  <2>7. Len(SubSeq(s, a + 1, b)) <= MaxHashes
    BY <2>2, <2>5, <2>6
  <2>8. /\ 1 \in 1 .. Len(s) + 1 /\ a \in 1 - 1 .. Len(s) /\ b \in a .. Len(s)
    BY <1>1, <2>2 DEF n
  <2>9. SubSeq(s, 1, a) \o SubSeq(s, a + 1, b) = SubSeq(s, 1, b)
    BY <2>8, ConcatAdjacentSubSeq DEF Words
  <2> QED BY <2>3, <2>6, <2>7, <2>9 DEF Words, a, b
<1> QED BY <1>4, <1>5, Zenon DEF n, c

\* What the archives take of the hashes of one write.
Body(combined) ==
    IF Len(combined) <= MaxHashes THEN <<>>
    ELSE SubSeq(combined, 1, Len(combined) - Keep)

Upto(body, w) == SubSeq(body, 1, ChunkEnd(w, Len(body)))

Chunked(c, body) ==
    /\ Len(c) = ChunkCount(Len(body))
    /\ \A k \in 1 .. Len(c) : /\ c[k] \in Words /\ Len(c[k]) <= MaxHashes
                             /\ Upto(body, k) = Upto(body, k - 1) \o c[k]

\* The files of one write hold its hashes, and each is within the limit.
LEMMA WriteFacts ==
    ASSUME NEW combined \in Words
    PROVE  /\ Body(combined) \in Words /\ Kept(combined) \in Words
           /\ Body(combined) \o Kept(combined) = combined
           /\ Len(Kept(combined)) <= MaxHashes
           /\ Chunked(Chunks(combined), Body(combined))
<1> DEFINE n == Len(combined)
<1>1. n \in Nat /\ MaxHashes \in Nat \ {0} /\ Keep \in 1 .. MaxHashes
  BY WordFacts, ActivityAssumption
<1>2. CASE n <= MaxHashes
  <2>1. /\ Body(combined) = <<>> /\ Kept(combined) = combined
        /\ Chunks(combined) = <<>>
    BY <1>2, Zenon DEF Body, Kept, Chunks, n
  <2>2. <<>> \in Words /\ Len(<<>>) = 0 /\ <<>> \o combined = combined
    BY ConcatEmptySeq DEF Words
  <2>3. ChunkCount(0) = 0
    <3>1. ChunkCount(0) \in Nat /\ \A k \in 1 .. ChunkCount(0) :
                                      (k - 1) * MaxHashes = ChunkEnd(k - 1, 0)
      BY ChunkNumbers
    <3>2. (MaxHashes - 1) \div MaxHashes = 0
      BY <1>1
    <3> QED BY <1>1, <3>2 DEF ChunkCount
  <2>4. Chunked(<<>>, <<>>)
    BY <2>2, <2>3 DEF Chunked
  <2> QED BY <1>2, <2>1, <2>2, <2>4
<1>3. CASE ~ (n <= MaxHashes)
  <2> DEFINE body == SubSeq(combined, 1, n - Keep)
  <2>1. /\ Body(combined) = body
        /\ Kept(combined) = SubSeq(combined, n - Keep + 1, n)
        /\ Chunks(combined) = splitActivityArchiveChunks(body)
    BY <1>3, Zenon DEF Body, Kept, Chunks, n
  <2>2. n - Keep \in 0 .. n /\ n - (n - Keep) = Keep
    BY <1>1, <1>3
  <2>3. /\ body \in Words /\ SubSeq(combined, n - Keep + 1, n) \in Words
        /\ Len(SubSeq(combined, n - Keep + 1, n)) = n - (n - Keep)
        /\ body \o SubSeq(combined, n - Keep + 1, n) = combined
    BY <2>2, Cut
  <2> HIDE DEF body
  <2>4. Chunked(splitActivityArchiveChunks(body), body)
    BY <2>3, ChunkFacts, Zenon DEF Chunked, Upto
  <2>5. Len(Kept(combined)) = Keep /\ Keep <= MaxHashes
    BY <1>1, <2>1, <2>2, <2>3
  <2>6. Body(combined) \o Kept(combined) = combined
    BY <2>1, <2>3
  <2> QED BY <2>1, <2>3, <2>4, <2>5, <2>6
<1> QED BY <1>2, <1>3

\* The first and the last prefix of the chunks.
LEMMA UptoEnds ==
    ASSUME NEW body \in Words
    PROVE  /\ Upto(body, 0) = <<>> /\ Upto(body, ChunkCount(Len(body))) = body
           /\ ChunkCount(Len(body)) \in Nat
           /\ \A w \in 0 .. ChunkCount(Len(body)) :
                /\ Upto(body, w) \in Words
                /\ \E rest \in Words : Upto(body, w) \o rest = body
<1> DEFINE n == Len(body)
<1>1. n \in Nat
  BY WordFacts
<1>2. /\ ChunkCount(n) \in Nat /\ ChunkEnd(0, n) = 0 /\ ChunkEnd(ChunkCount(n), n) = n
      /\ \A k \in 0 .. ChunkCount(n) : ChunkEnd(k, n) \in 0 .. n
  BY <1>1, ChunkNumbers
<1>3. SubSeq(body, 1, 0) = <<>> /\ SubSeq(body, 1, Len(body)) = body
  BY SubSeqEmpty, SubSeqFull DEF Words
<1>4. ASSUME NEW w \in 0 .. ChunkCount(n)
      PROVE  Upto(body, w) \in Words /\ \E rest \in Words : Upto(body, w) \o rest = body
  <2> DEFINE p == ChunkEnd(w, n)
  <2>1. p \in 0 .. Len(body)
    BY <1>2
  <2> HIDE DEF p
  <2>2. /\ SubSeq(body, 1, p) \in Words /\ SubSeq(body, p + 1, Len(body)) \in Words
        /\ SubSeq(body, 1, p) \o SubSeq(body, p + 1, Len(body)) = body
    BY <2>1, Cut
  <2> QED BY <2>2 DEF Upto, p
<1> QED BY <1>2, <1>3, <1>4, Zenon DEF Upto

-----------------------------------------------------------------------------
(* Archives with the first w chunks of a write added after them *)

NewNames(first, w) == {first + k - 1 : k \in 1 .. w}

Grown(g, f, c, first, w) ==
    g = [n \in DOMAIN f \cup NewNames(first, w) |->
            IF n >= first /\ n < first + Len(c) THEN c[n - first + 1] ELSE f[n]]

Archived(f) == /\ DOMAIN f \in SUBSET Nat /\ IsFiniteSet(DOMAIN f)
               /\ \A n \in DOMAIN f : f[n] \in Words /\ Len(f[n]) <= MaxHashes

\* One name more.
LEMMA NewNamesGrow ==
    ASSUME NEW first \in Nat, NEW w \in Nat
    PROVE  /\ NewNames(first, 0) = {}
           /\ w > 0 => NewNames(first, w) = NewNames(first, w - 1) \cup {first + w - 1}
           /\ NewNames(first, w) \in SUBSET Nat
           /\ \A n \in NewNames(first, w) : n >= first /\ n < first + w
<1>1. \A n : n \in NewNames(first, w) <=> \E k \in 1 .. w : n = first + k - 1
  BY DEF NewNames
<1>2. ASSUME w > 0
      PROVE  NewNames(first, w) = NewNames(first, w - 1) \cup {first + w - 1}
  <2>1. \A n : n \in NewNames(first, w - 1) <=> \E k \in 1 .. w - 1 : n = first + k - 1
    BY DEF NewNames
  <2>2. \A k : k \in 1 .. w <=> k \in 1 .. w - 1 \/ k = w
    BY <1>2
  <2> QED BY <1>1, <2>1, <2>2
<1>3. NewNames(first, 0) = {}
  BY DEF NewNames
<1>4. \A n \in NewNames(first, w) : n \in Nat /\ n >= first /\ n < first + w
  BY <1>1
<1> QED BY <1>2, <1>3, <1>4

\* New archives are read after those there were, and hold the hashes they got.
LEMMA ArchivesGrow ==
    ASSUME NEW f, Archived(f), NEW first \in Nat, \A n \in DOMAIN f : n < first,
           NEW body \in Words, NEW c, Chunked(c, body), NEW w \in 0 .. Len(c),
           NEW g, Grown(g, f, c, first, w)
    PROVE  /\ Archived(g)
           /\ \A n \in DOMAIN f : n \in DOMAIN g /\ g[n] = f[n]
           /\ Joined(g, DOMAIN g) = Joined(f, DOMAIN f) \o Upto(body, w)
<1> DEFINE D == DOMAIN f
           S(k) == D \cup NewNames(first, k)
           T == {k \in Nat : IsFiniteSet(S(k)) /\ Joined(g, S(k)) = Joined(f, D) \o Upto(body, k)}
<1>1. /\ Len(c) = ChunkCount(Len(body)) /\ Len(c) \in Nat /\ w \in Nat
      /\ D \in SUBSET Nat /\ IsFiniteSet(D) /\ \A n \in D : f[n] \in Words
  <2>1. Len(c) = ChunkCount(Len(body)) /\ ChunkCount(Len(body)) \in Nat
    BY UptoEnds DEF Chunked
  <2> QED BY <2>1 DEF Archived
<1>2. DOMAIN g = S(w)
  BY DEF Grown
<1>3. ASSUME NEW n \in D PROVE n \in DOMAIN g /\ g[n] = f[n]
  <2>1. n < first /\ n \in Nat
    BY <1>1
  <2> QED BY <2>1 DEF Grown
<1>4. ASSUME NEW k \in 1 .. w PROVE g[first + k - 1] = c[k] /\ first + k - 1 \in DOMAIN g
  <2>1. first + k - 1 \in NewNames(first, w)
    BY DEF NewNames
  <2>2. /\ first + k - 1 >= first /\ first + k - 1 < first + Len(c)
        /\ (first + k - 1) - first + 1 = k
    BY <1>1
  <2> DEFINE m == first + k - 1
  <2> HIDE DEF m
  <2>3. m \in NewNames(first, w) /\ m >= first /\ m < first + Len(c) /\ m - first + 1 = k
    BY <2>1, <2>2 DEF m
  <2>4. m \in DOMAIN g /\ g[m] = c[k]
    BY <2>3 DEF Grown
  <2> QED BY <2>4 DEF m
<1>5. Joined(f, D) \in Words
  BY <1>1, JoinedFacts
<1>6. 0 \in T
  <2>1. S(0) = D
    BY NewNamesGrow
  <2>2. Agree(g, f, D)
    BY <1>3 DEF Agree
  <2>3. Joined(g, D) = Joined(f, D)
    BY <1>1, <2>2, JoinedSame
  <2>4. Joined(f, D) \o <<>> = Joined(f, D)
    BY <1>5, ConcatEmptySeq DEF Words
  <2> QED BY <1>1, <2>1, <2>3, <2>4, UptoEnds
<1>7. ASSUME NEW k \in 1 .. w, k - 1 \in T PROVE k \in T
  <2> DEFINE R == S(k - 1)
             m == first + k - 1
  <2>1. k \in Nat /\ k - 1 \in Nat /\ k > 0 /\ m \in Nat
    BY <1>1
  <2>2. S(k) = R \cup {m}
    BY <2>1, NewNamesGrow
  <2>3. R \in SUBSET Nat /\ \A n \in R : n < m
    <3>1. NewNames(first, k - 1) \in SUBSET Nat
      BY <2>1, NewNamesGrow
    <3>2. \A n \in NewNames(first, k - 1) : n < first + (k - 1)
      BY <2>1, NewNamesGrow
    <3>3. first + (k - 1) = m /\ first <= m
      BY <2>1
    <3> QED BY <1>1, <3>1, <3>2, <3>3
  <2>4. IsFiniteSet(R) /\ Joined(g, R) = Joined(f, D) \o Upto(body, k - 1)
    BY <1>7
  <2>5. g[m] = c[k]
    BY <1>4
  <2> HIDE DEF R, m
  <2>6. Joined(g, R \cup {m}) = Joined(g, R) \o g[m]
    BY <2>1, <2>3, <2>4, JoinedMore
  <2>7. k \in 1 .. Len(c) /\ k - 1 \in 0 .. ChunkCount(Len(body))
    BY <1>1
  <2>8. c[k] \in Words /\ Upto(body, k) = Upto(body, k - 1) \o c[k] /\ Upto(body, k - 1) \in Words
    BY <2>7, UptoEnds DEF Chunked
  <2>9. (Joined(f, D) \o Upto(body, k - 1)) \o c[k] = Joined(f, D) \o (Upto(body, k - 1) \o c[k])
    <3> DEFINE u == Upto(body, k - 1)
               e == c[k]
               j == Joined(f, D)
    <3>1. u \in Words /\ e \in Words /\ j \in Words
      BY <1>5, <2>8
    <3> HIDE DEF u, e, j
    <3>2. (j \o u) \o e = j \o (u \o e)
      BY <3>1, ConcatAssociative, SMTT(30) DEF Words
    <3> QED BY <3>2 DEF u, e, j
  <2>10. IsFiniteSet(R \cup {m})
    BY <2>4, FS_AddElement
  <2> QED BY <2>1, <2>2, <2>4, <2>5, <2>6, <2>8, <2>9, <2>10
<1> HIDE DEF T, D
<1>8. \A k \in 0 .. w : k \in T
  BY <1>1, <1>6, <1>7, Induction
<1>9. w \in T
  BY <1>1, <1>8
<1>10. Archived(g)
  <2>1. ASSUME NEW n \in DOMAIN g PROVE n \in Nat /\ g[n] \in Words /\ Len(g[n]) <= MaxHashes
    <3>1. CASE n \in D
      BY <1>1, <1>3, <3>1 DEF Archived, D
    <3>2. CASE n \in NewNames(first, w)
      <4>1. PICK k \in 1 .. w : n = first + k - 1
        BY <3>2 DEF NewNames
      <4>2. g[n] = c[k] /\ n \in Nat /\ k \in 1 .. Len(c)
        BY <1>1, <1>4, <4>1
      <4> QED BY <4>2 DEF Chunked
    <3> QED BY <1>2, <3>1, <3>2
  <2>2. IsFiniteSet(DOMAIN g)
    BY <1>2, <1>9 DEF T
  <2> QED BY <2>1, <2>2 DEF Archived
<1> QED BY <1>2, <1>3, <1>9, <1>10 DEF T, D

-----------------------------------------------------------------------------
(* The order of the pages *)

\* Parentheses do not matter.
LEMMA Assoc ==
    ASSUME NEW s \in Words, NEW t \in Words, NEW u \in Words
    PROVE  (s \o t) \o u = s \o (t \o u)
<1> QED BY ConcatAssociative DEF Words

\* Parts of a sequence without duplicates.
LEMMA DistinctParts ==
    ASSUME NEW s \in Words, NEW t \in Words, Distinct(s \o t)
    PROVE  Distinct(s) /\ Distinct(t) /\ ToSet(s) \cap ToSet(t) = {}
<1> DEFINE u == s \o t
           n == Len(s)
           m == Len(t)
<1>1. n \in Nat /\ m \in Nat
  BY WordFacts
<1>2. /\ Len(u) = n + m
      /\ \A i \in 1 .. n + m : u[i] = IF i <= n THEN s[i] ELSE t[i - n]
  BY ConcatProperties DEF Words
<1>3. \A i, j \in 1 .. n + m : u[i] = u[j] => i = j
  BY <1>2 DEF Distinct
<1>4. ToSet(s) = {s[i] : i \in 1 .. n} /\ ToSet(t) = {t[i] : i \in 1 .. m}
  BY WordFacts DEF ToSet
<1> HIDE DEF u, n, m
<1>5. \A i \in 1 .. n : i \in 1 .. n + m /\ u[i] = s[i]
  BY <1>1, <1>2
<1>6. ASSUME NEW i \in 1 .. m PROVE n + i \in 1 .. n + m /\ u[n + i] = t[i]
  <2>1. n + i \in 1 .. n + m /\ ~ (n + i <= n) /\ (n + i) - n = i
    BY <1>1
  <2> QED BY <1>2, <2>1
<1>7. \A i, j \in 1 .. n : s[i] = s[j] => i = j
  BY <1>3, <1>5
<1>8. \A i, j \in 1 .. m : t[i] = t[j] => i = j
  <2> SUFFICES ASSUME NEW i \in 1 .. m, NEW j \in 1 .. m, t[i] = t[j] PROVE i = j
    OBVIOUS
  <2>1. n + i = n + j
    BY <1>3, <1>6
  <2> QED BY <1>1, <2>1
<1>9. ASSUME NEW i \in 1 .. n, NEW j \in 1 .. m, s[i] = t[j] PROVE FALSE
  <2>1. i = n + j
    BY <1>3, <1>5, <1>6, <1>9
  <2> QED BY <1>1, <2>1
<1>10. ToSet(s) \cap ToSet(t) = {}
  BY <1>4, <1>9
<1> QED BY <1>7, <1>8, <1>10 DEF Distinct, n, m

\* What was seen already adds nothing.
LEMMA FreshOfOld ==
    ASSUME NEW ids \in Words, NEW seen, ToSet(ids) \subseteq seen
    PROVE  Fresh(ids, seen) = <<>>
<1>1. Fresh(ids, seen) \in Words /\ ToSet(Fresh(ids, seen)) = {}
  BY FreshFacts
<1> DEFINE f == Fresh(ids, seen)
<1>2. Len(f) \in Nat /\ ToSet(f) = {f[i] : i \in 1 .. Len(f)}
  BY <1>1, WordFacts DEF ToSet
<1>3. Len(f) = 0
  BY <1>1, <1>2
<1> HIDE DEF f
<1>4. f \in Words
  BY <1>1 DEF f
<1>5. f = <<>>
  BY <1>3, <1>4, EmptySeq DEF Words
<1> QED BY <1>5 DEF f

\* A sequence of new hashes after its own beginning.
LEMMA FreshAfterPrefix ==
    ASSUME NEW s \in Words, NEW t \in Words, Distinct(s \o t)
    PROVE  Fresh(s \o t, ToSet(s)) = t
<1>1. Distinct(t) /\ ToSet(t) \cap ToSet(s) = {}
  BY DistinctParts
<1>2. Fresh(s \o t, ToSet(s)) = Fresh(s, ToSet(s)) \o Fresh(t, ToSet(s) \cup ToSet(s))
  BY FreshConcat
<1>3. ToSet(s) \cup ToSet(s) = ToSet(s)
  OBVIOUS
<1>4. Fresh(s, ToSet(s)) = <<>>
  BY FreshOfOld
<1>5. Fresh(t, ToSet(s)) = t
  BY <1>1, FreshOfNew
<1>6. <<>> \o t = t
  BY ConcatEmptySeq DEF Words
<1> QED BY <1>2, <1>3, <1>4, <1>5, <1>6

Begins(u, s) == \E t \in Words : u = s \o t

\* The elements of a beginning.
LEMMA BeginsFacts ==
    ASSUME NEW u, NEW s \in Words, Begins(u, s)
    PROVE  \A i \in 1 .. Len(s) : u[i] = s[i]
<1>1. PICK t \in Words : u = s \o t
  BY DEF Begins
<1>2. \A i \in 1 .. Len(s) : (s \o t)[i] = s[i]
  BY ConcatProperties, WordFacts DEF Words
<1> QED BY <1>1, <1>2

\* Of two beginnings of a sequence the longer begins with the other.
LEMMA LongerBegins ==
    ASSUME NEW u, NEW a \in Words, NEW b \in Words, Begins(u, a), Begins(u, b),
           Len(a) <= Len(b)
    PROVE  Begins(b, a)
<1> DEFINE n == Len(a)
           c == SubSeq(b, 1, n)
           x == SubSeq(b, n + 1, Len(b))
<1>1. n \in Nat /\ n \in 0 .. Len(b)
  BY WordFacts
<1>2. c \in Words /\ x \in Words /\ Len(c) = n /\ c \o x = b
  BY <1>1, Cut
<1>3. \A i \in 1 .. n : c[i] = b[i]
  <2>1. \A i \in 1 .. n : b[i] \in Hashes
    BY <1>1, WordFacts
  <2>2. 1 \in Int /\ n \in Int
    BY <1>1
  <2> HIDE DEF n
  <2>3. \A i \in 1 .. n - 1 + 1 : SubSeq(b, 1, n)[i] = b[1 + i - 1]
    BY <2>1, <2>2, SubSeqProperties
  <2> QED BY <2>2, <2>3
<1>4. \A i \in 1 .. n : c[i] = a[i]
  <2>1. \A i \in 1 .. n : u[i] = a[i] /\ i \in 1 .. Len(b)
    BY <1>1, BeginsFacts
  <2>2. \A i \in 1 .. Len(b) : u[i] = b[i]
    BY BeginsFacts
  <2> QED BY <1>3, <2>1, <2>2
<1> HIDE DEF c, x
<1>5. c = a
  BY <1>2, <1>4, SeqEqual DEF Words
<1> QED BY <1>2, <1>5 DEF Begins

\* A write that failed after p was moved: the list before and, after it, whatever
\* was moved with it.
LEMMA FailedWrite ==
    ASSUME NEW act \in Words, NEW A, NEW old \in Words, NEW p \in Words,
           old = Fresh(act, A), NEW u, Begins(u, p), Begins(u, old),
           Distinct(p), ToSet(p) \cap A = {}
    PROVE  Begins(Fresh(p \o act, A), old)
<1>1. Fresh(p, A) = p
  BY FreshOfNew
<1>2. Fresh(p \o act, A) = p \o Fresh(act, A \cup ToSet(p))
  <2>1. Fresh(p \o act, A) = Fresh(p, A) \o Fresh(act, A \cup ToSet(p))
    BY FreshConcat
  <2> QED BY <1>1, <2>1
<1>3. Fresh(act, A \cup ToSet(p)) = Fresh(old, ToSet(p))
  BY FreshTwice
<1>4. Fresh(p \o act, A) = p \o Fresh(old, ToSet(p))
  BY <1>2, <1>3
<1>5. ASSUME Begins(p, old) PROVE Begins(Fresh(p \o act, A), old)
  <2>1. PICK x \in Words : p = old \o x
    BY <1>5 DEF Begins
  <2> DEFINE y == Fresh(old, ToSet(p))
  <2>2. y \in Words
    BY FreshFacts
  <2>3. Fresh(p \o act, A) = (old \o x) \o y
    BY <1>4, <2>1
  <2> HIDE DEF y
  <2>4. (old \o x) \o y = old \o (x \o y)
    BY <2>2, Assoc
  <2>5. x \o y \in Words
    BY <2>2, JoinedSet
  <2> QED BY <2>3, <2>4, <2>5 DEF Begins
<1>6. ASSUME Begins(old, p) PROVE Begins(Fresh(p \o act, A), old)
  <2>1. PICK x \in Words : old = p \o x
    BY <1>6 DEF Begins
  <2>2. Distinct(old)
    BY FreshFacts
  <2>3. Fresh(old, ToSet(p)) = x
    BY <2>1, <2>2, FreshAfterPrefix
  <2>4. <<>> \in Words /\ old \o <<>> = old
    BY ConcatEmptySeq DEF Words
  <2> QED BY <1>4, <2>1, <2>3, <2>4 DEF Begins
<1>7. Len(p) \in Nat /\ Len(old) \in Nat
  BY WordFacts
<1>8. CASE Len(p) <= Len(old)
  BY <1>6, <1>8, LongerBegins
<1>9. CASE Len(old) <= Len(p)
  BY <1>5, <1>9, LongerBegins
<1> QED BY <1>7, <1>8, <1>9

\* The new hashes of a write, those that stay in the index before the given ones.
NewList(c, act, ids) ==
    LET old == Fresh(act, ToSet(c)) IN old \o Fresh(ids, ToSet(c) \cup ToSet(old))

Splits(u, p, q) == u = p \o q

\* Pages built from archives holding c and an index holding act: a write moves
\* p, the first of the new list p \o q, to the archives, and either leaves act (it
\* failed) or puts q there.  The list that is read back only grows at its end.
LEMMA PagesGrow ==
    ASSUME NEW c \in Words, NEW act \in Words, NEW ids \in Words,
           NEW p \in Words, NEW q \in Words,
           Splits(NewList(c, act, ids), p, q)
    PROVE  \A a \in {act, q} : Begins(Fresh((c \o p) \o a, {}), Fresh(c \o act, {}))
<1> SUFFICES ASSUME NEW a \in {act, q}
             PROVE  \E x \in Words : Fresh((c \o p) \o a, {}) = Fresh(c \o act, {}) \o x
  BY DEF Begins
<1> DEFINE A == ToSet(c)
           old == Fresh(act, A)
           new == Fresh(ids, A \cup ToSet(old))
           F == Fresh(c, {})
<1>1. old \in Words /\ Distinct(old) /\ ToSet(old) = ToSet(act) \ A
  BY FreshFacts
<1>2. new \in Words /\ Distinct(new) /\ ToSet(new) = ToSet(ids) \ (A \cup ToSet(old))
  BY FreshFacts
<1>3. F \in Words
  BY FreshFacts
<1>4. ASSUME NEW b \in Words PROVE Fresh(c \o b, {}) = F \o Fresh(b, A)
  <2>1. {} \cup A = A
    OBVIOUS
  <2>2. Fresh(c \o b, {}) = Fresh(c, {}) \o Fresh(b, {} \cup ToSet(c))
    BY FreshConcat
  <2> QED BY <2>1, <2>2, Zenon
<1>5. a \in Words /\ (c \o p) \o a = c \o (p \o a) /\ p \o a \in Words
  <2>1. a \in Words
    OBVIOUS
  <2>2. (c \o p) \o a = c \o (p \o a)
    BY <2>1, Assoc, SMTT(30)
  <2> QED BY <2>1, <2>2, JoinedSet
<1>6. p \o q = old \o new
  BY DEF Splits, NewList
<1>7. Fresh(old \o new, A) = old \o new /\ Distinct(old \o new) /\ ToSet(old \o new) \cap A = {}
  <2> HIDE DEF old, new, A
  <2>1. old \o new \in Words /\ ToSet(old \o new) = ToSet(old) \cup ToSet(new)
    BY <1>1, <1>2, JoinedSet
  <2>2. ToSet(old \o new) \cap A = {}
    BY <1>1, <1>2, <2>1
  <2>3. Fresh(old \o new, A) = old \o new
    <3>1. Fresh(old \o new, A) = Fresh(old, A) \o Fresh(new, A \cup ToSet(old))
      BY <1>1, <1>2, FreshConcat
    <3>2. Fresh(old, A) = old
      BY <1>1, FreshOfNew
    <3>3. ToSet(new) \cap (A \cup ToSet(old)) = {}
      BY <1>2
    <3>4. Fresh(new, A \cup ToSet(old)) = new
      BY <1>2, <3>3, FreshOfNew
    <3> QED BY <3>1, <3>2, <3>4
  <2>4. Distinct(old \o new)
    <3> DEFINE z == old \o new
    <3>1. z \in Words /\ Fresh(z, A) = z
      BY <2>1, <2>3
    <3> HIDE DEF z
    <3>2. Distinct(z)
      BY <3>1, FreshFacts
    <3> QED BY <3>2 DEF z
  <2> QED BY <2>2, <2>3, <2>4
<1>8. Fresh(c \o act, {}) = F \o old
  BY <1>4
<1> HIDE DEF F, new
<1>9. SUFFICES \E x \in Words : Fresh(p \o a, A) = old \o x
  <2>1. PICK x \in Words : Fresh(p \o a, A) = old \o x
    BY <1>9
  <2>2. Fresh((c \o p) \o a, {}) = F \o (old \o x)
    BY <1>4, <1>5, <2>1
  <2> HIDE DEF old, A
  <2>3. F \o (old \o x) = (F \o old) \o x
    BY <1>1, <1>3, Assoc, ZenonT(60)
  <2> QED BY <1>8, <2>2, <2>3
<1>10. CASE a = q
  <2>1. Fresh(p \o a, A) = old \o new
    BY <1>6, <1>7, <1>10
  <2> QED BY <1>2, <2>1
<1>11. CASE a = act
  <2> HIDE DEF A
  <2> USE DEF new
  <2> DEFINE u == p \o q
  <2>1. new \in Words /\ Distinct(u) /\ ToSet(u) \cap A = {}
    BY <1>2, <1>6, <1>7
  <2> HIDE DEF new, old
  <2>2. old \in Words /\ old = Fresh(act, A) /\ Begins(u, p) /\ Begins(u, old)
    BY <1>1, <1>6, <2>1 DEF old, Begins
  <2>3. Distinct(p) /\ ToSet(p) \cap A = {}
    <3>1. Distinct(p)
      BY <2>1, DistinctParts
    <3> QED BY <2>1, <3>1, JoinedSet
  <2> HIDE DEF u
  <2>4. Begins(Fresh(p \o act, A), old)
    BY <2>2, <2>3, FailedWrite
  <2>5. Fresh(p \o a, A) = Fresh(p \o act, A)
    BY <1>11
  <2> QED BY <2>4, <2>5 DEF Begins
<1> QED BY <1>10, <1>11

\* A sequence is a prefix of what continues it.
LEMMA PrefixOfLonger ==
    ASSUME NEW s \in Words, NEW t \in Words
    PROVE  IsPrefix(s, s \o t)
<1>1. Len(s) \in Nat /\ Len(t) \in Nat /\ Len(s \o t) = Len(s) + Len(t) /\ s \o t \in Words
  BY WordFacts, JoinedSet
<1>2. SubSeq(s \o t, 1, Len(s)) = SubSeq(s, 1, Len(s))
  <2>1. CASE Len(s) = 0
    <3>1. SubSeq(s \o t, 1, 0) = <<>> /\ SubSeq(s, 1, 0) = <<>>
      BY SubSeqEmpty
    <3> QED BY <2>1, <3>1
  <2>2. CASE Len(s) # 0
    <3>1. 1 \in 1 .. Len(s) /\ Len(s) \in 1 .. Len(s)
      BY <1>1, <2>2
    <3> QED BY <3>1, SubSeqOfConcat1 DEF Words
  <2> QED BY <2>1, <2>2
<1> QED BY <1>1, <1>2 DEF IsPrefix

-----------------------------------------------------------------------------
(* The files of a state *)

FilesOK == Archived(archives) /\ active \in Words /\ Len(active) <= MaxHashes

All == Joined(archives, DOMAIN archives)

\* What is in the files, as sets and as the list that is read back.
LEMMA DiskFacts ==
    ASSUME FilesOK
    PROVE  /\ All \in Words /\ ToSet(All) = ArchivedIds
           /\ OnDisk = ToSet(All) \cup ToSet(active)
           /\ DiskIndex = Fresh(All \o active, {})
           /\ FilesReadable
<1>1. All \in Words /\ ToSet(All) = ArchivedIds
  BY JoinedFacts DEF FilesOK, Archived, All, ArchivedIds
<1>2. DiskIndex = Fresh(All \o active, {})
  BY Zenon, ConcatenatedIsJoined DEF DiskIndex, All
<1> QED BY <1>1, <1>2 DEF FilesOK, Archived, FilesReadable, OnDisk

\* The same in the next state.
LEMMA DiskFactsNext ==
    ASSUME FilesOK'
    PROVE  /\ All' \in Words /\ ToSet(All') = ArchivedIds'
           /\ OnDisk' = ToSet(All') \cup ToSet(active')
           /\ DiskIndex' = Fresh(All' \o active', {})
           /\ FilesReadable'
<1>1. All' \in Words /\ ToSet(All') = ArchivedIds'
  BY JoinedFacts DEF FilesOK, Archived, All, ArchivedIds
<1>2. DiskIndex' = Fresh(All' \o active', {})
  BY Zenon DEF DiskIndex, All, Concatenated, Joined
<1> QED BY <1>1, <1>2 DEF FilesOK, Archived, FilesReadable, OnDisk

\* The name of the next archive is after all names there are, those of earlier
\* processes and of a clock that went back included.
LEMMA NameIsNew ==
    ASSUME FilesOK, lastNano \in Nat, NEW now \in Nat
    PROVE  /\ nextActivityArchiveName(now) \in Nat
           /\ \A n \in DOMAIN archives : n < nextActivityArchiveName(now)
<1> DEFINE N == {now, lastNano + 1}
           R == {n + 1 : n \in DOMAIN archives}
           S == N \cup R
<1>1. DOMAIN archives \in SUBSET Nat /\ IsFiniteSet(DOMAIN archives)
  BY DEF FilesOK, Archived
<1>2. IsFiniteSet(R)
  <2>1. PICK b \in Nat : \A n \in DOMAIN archives : n <= b
    BY <1>1, FiniteBounded
  <2>2. R \subseteq 0 .. b + 1
    BY <1>1, <2>1
  <2>3. IsFiniteSet(0 .. b + 1)
    BY <2>1, FS_Interval
  <2> QED BY <2>2, <2>3, FS_Subset
<1>3. IsFiniteSet(N)
  <2>1. IsFiniteSet({now}) /\ {now} \cup {lastNano + 1} = N
    BY FS_Singleton
  <2> QED BY <2>1, FS_AddElement
<1>4. IsFiniteSet(S) /\ S \in SUBSET Nat /\ S # {}
  <2>1. S \in SUBSET Nat /\ S # {}
    BY <1>1
  <2> HIDE DEF N, R
  <2> QED BY <1>2, <1>3, <2>1, FS_Union
<1> HIDE DEF S
<1>5. Max(S) \in S /\ \A x \in S : x <= Max(S)
  BY <1>4, MaxIsMax
<1>6. nextActivityArchiveName(now) = Max(S)
  BY DEF nextActivityArchiveName, S
<1>7. ASSUME NEW n \in DOMAIN archives PROVE n < Max(S)
  <2>1. n + 1 \in S /\ n \in Nat
    BY <1>1 DEF S
  <2>2. n + 1 <= Max(S) /\ Max(S) \in Nat
    BY <1>4, <1>5, <2>1
  <2> QED BY <2>1, <2>2
<1> QED BY <1>4, <1>5, <1>6, <1>7

Moved(ids, p, q, ok) ==
    /\ p \o q = Combined(ids) /\ All' = All \o p
    /\ active' \in {active, q} /\ (ok => active' = q)

\* What a write with new hashes does, however many of its files reach the disk.
LEMMA WriteNew ==
    ASSUME FilesOK, lastNano \in Nat, NEW ids \in Words, NEW now \in Nat, NEW outcome,
           outcome # Success => outcome \in Nat, addActivityHashesNew(ids, now, outcome)
    PROVE  /\ FilesOK' /\ lastNano' \in Nat /\ generation' = generation + 1
           /\ \A n \in DOMAIN archives : n \in DOMAIN archives' /\ archives'[n] = archives[n]
           /\ \E p, q \in Words : Moved(ids, p, q, outcome = Success)
<1> DEFINE combined == Combined(ids)
           chunks == Chunks(combined)
           kept == Kept(combined)
           body == Body(combined)
           first == nextActivityArchiveName(now)
           written == IF outcome = Success THEN Len(chunks) + 1 ELSE outcome
           w == Min({written, Len(chunks)})
<1>1. combined \in Words
  <2>1. Fresh(active, ArchivedIds) \in Words
    BY FreshFacts DEF FilesOK
  <2>2. Fresh(ids, ArchivedIds \cup ToSet(Fresh(active, ArchivedIds))) \in Words
    BY FreshFacts
  <2> QED BY <2>1, <2>2, JoinedSet DEF Combined
<1>2. first \in Nat /\ \A n \in DOMAIN archives : n < first
  BY NameIsNew
<1>3. /\ generation' = generation + 1
      /\ Publish(chunks, kept, first, written)
      /\ lastNano' = IF chunks = <<>> THEN lastNano ELSE Max({first, first - 1 + w})
  BY DEF addActivityHashesNew, NextGeneration
<1> HIDE DEF combined, first
<1>4. /\ body \in Words /\ kept \in Words /\ body \o kept = combined
      /\ Len(kept) <= MaxHashes /\ Chunked(chunks, body)
  BY <1>1, WriteFacts
<1> HIDE DEF chunks, kept, body
<1>5. Len(chunks) = ChunkCount(Len(body)) /\ Len(chunks) \in Nat
  BY <1>4, UptoEnds DEF Chunked
<1>6. written \in Nat
  BY <1>5
<1>7. /\ archives' = [n \in DOMAIN archives \cup NewNames(first, w) |->
                        IF n >= first /\ n < first + Len(chunks) THEN chunks[n - first + 1]
                        ELSE archives[n]]
      /\ active' = IF written > Len(chunks) THEN kept ELSE active
  BY <1>3, Zenon DEF Publish, NewNames
<1> HIDE DEF written
<1>8. w = IF written <= Len(chunks) THEN written ELSE Len(chunks)
  BY <1>5, <1>6, MinOfTwo
<1>9. w \in 0 .. Len(chunks)
  BY <1>5, <1>6, <1>8
<1> HIDE DEF w
<1>10. Grown(archives', archives, chunks, first, w)
  BY <1>7 DEF Grown
<1>11. /\ Archived(archives')
       /\ \A n \in DOMAIN archives : n \in DOMAIN archives' /\ archives'[n] = archives[n]
       /\ Joined(archives', DOMAIN archives') = Joined(archives, DOMAIN archives) \o Upto(body, w)
  BY <1>2, <1>4, <1>9, <1>10, ArchivesGrow, SMTT(30) DEF FilesOK
<1>12. All' = All \o Upto(body, w)
  BY <1>11 DEF All
<1>13. FilesOK'
  BY <1>4, <1>7, <1>11 DEF FilesOK, Archived
<1>14. lastNano' \in Nat
  <2>1. CASE chunks = <<>>
    BY <1>3, <2>1
  <2>2. CASE chunks # <<>>
    <3>1. first - 1 + w \in Int /\ first \in Nat
      BY <1>2, <1>5, <1>9
    <3>2. \E m \in {first, first - 1 + w} : \A x \in {first, first - 1 + w} : m >= x
      BY <3>1
    <3>3. /\ Max({first, first - 1 + w}) \in {first, first - 1 + w}
          /\ \A x \in {first, first - 1 + w} : Max({first, first - 1 + w}) >= x
      BY <3>2 DEF Max
    <3> QED BY <1>3, <2>2, <3>1, <3>3
  <2> QED BY <2>1, <2>2
<1>15. CASE written > Len(chunks)
  <2>1. w = ChunkCount(Len(body)) /\ active' = kept
    BY <1>5, <1>6, <1>7, <1>8, <1>15
  <2>2. Upto(body, w) = body
    BY <1>4, <2>1, UptoEnds
  <2>3. Moved(ids, body, kept, outcome = Success)
    BY <1>4, <1>12, <2>1, <2>2 DEF Moved, combined
  <2> QED BY <1>3, <1>4, <1>11, <1>13, <1>14, <2>3
<1>16. CASE ~ (written > Len(chunks))
  <2>1. outcome # Success /\ active' = active
    BY <1>5, <1>7, <1>16 DEF written
  <2>2. Upto(body, w) \in Words /\ \E rest \in Words : Upto(body, w) \o rest = body
    BY <1>4, <1>5, <1>9, UptoEnds
  <2>3. PICK rest \in Words : Upto(body, w) \o rest = body
    BY <2>2
  <2> DEFINE u == Upto(body, w)
  <2>4. u \in Words /\ u \o rest = body /\ All' = All \o u
    BY <1>12, <2>2, <2>3
  <2> HIDE DEF u
  <2>5. rest \o kept \in Words /\ (u \o rest) \o kept = u \o (rest \o kept)
    <3>1. rest \o kept \in Words
      BY <1>4, <2>4, JoinedSet
    <3>2. (u \o rest) \o kept = u \o (rest \o kept)
      BY <1>4, <2>4, Assoc, ZenonT(60)
    <3> QED BY <3>1, <3>2
  <2>6. Moved(ids, u, rest \o kept, outcome = Success)
    BY <1>4, <2>1, <2>4, <2>5 DEF Moved, combined
  <2> QED BY <1>3, <1>11, <1>13, <1>14, <2>4, <2>5, <2>6
<1> QED BY <1>15, <1>16

\* What the files of a write hold together.
LEMMA CombinedFacts ==
    ASSUME FilesOK, NEW ids \in Words
    PROVE  /\ Combined(ids) \in Words
           /\ ToSet(Combined(ids)) \cup ArchivedIds = ToSet(active) \cup ToSet(ids) \cup ArchivedIds
           /\ Combined(ids) = NewList(All, active, ids)
<1> DEFINE old == Fresh(active, ArchivedIds)
           new == Fresh(ids, ArchivedIds \cup ToSet(old))
<1>1. old \in Words /\ ToSet(old) = ToSet(active) \ ArchivedIds
  BY FreshFacts DEF FilesOK
<1>2. new \in Words /\ ToSet(new) = ToSet(ids) \ (ArchivedIds \cup ToSet(old))
  BY FreshFacts
<1>3. Combined(ids) = old \o new
  BY DEF Combined
<1>4. ToSet(All) = ArchivedIds
  BY DiskFacts
<1>5. Combined(ids) = NewList(All, active, ids)
  BY <1>3, <1>4 DEF NewList
<1> HIDE DEF old, new
<1>6. old \o new \in Words /\ ToSet(old \o new) = ToSet(old) \cup ToSet(new)
  BY <1>1, <1>2, JoinedSet
<1> QED BY <1>1, <1>2, <1>3, <1>5, <1>6

\* A write loses nothing that was in the files; one that succeeds adds its hashes.
LEMMA WriteKeeps ==
    ASSUME FilesOK, FilesOK', NEW ids \in Words, NEW ok \in BOOLEAN,
           \E p, q \in Words : Moved(ids, p, q, ok)
    PROVE  OnDisk \subseteq OnDisk' /\ (ok => ToSet(ids) \subseteq OnDisk')
<1>1. PICK p \in Words, q \in Words : Moved(ids, p, q, ok)
  OBVIOUS
<1>2. /\ p \o q = Combined(ids) /\ All' = All \o p
      /\ active' \in {active, q} /\ (ok => active' = q)
  BY <1>1 DEF Moved
<1>3. /\ All \in Words /\ ToSet(All) = ArchivedIds
      /\ OnDisk = ToSet(All) \cup ToSet(active) /\ OnDisk' = ToSet(All') \cup ToSet(active')
  BY DiskFacts, DiskFactsNext
<1>4. ToSet(All') = ToSet(All) \cup ToSet(p)
  BY <1>2, <1>3, JoinedSet
<1>5. ToSet(Combined(ids)) = ToSet(p) \cup ToSet(q)
  BY <1>2, JoinedSet
<1>6. ToSet(Combined(ids)) \cup ArchivedIds = ToSet(active) \cup ToSet(ids) \cup ArchivedIds
  BY CombinedFacts
<1>7. CASE active' = q
  <2>1. OnDisk' = ToSet(active) \cup ToSet(ids) \cup ArchivedIds
    BY <1>3, <1>4, <1>5, <1>6, <1>7
  <2> QED BY <1>3, <2>1
<1>8. CASE active' = active /\ ~ok
  BY <1>3, <1>4, <1>8
<1> QED BY <1>2, <1>7, <1>8

\* The list that is read back after a write continues the one before.
LEMMA WriteKeepsOrder ==
    ASSUME FilesOK, FilesOK', NEW ids \in Words, NEW ok,
           \E p, q \in Words : Moved(ids, p, q, ok)
    PROVE  IsPrefix(DiskIndex, DiskIndex')
<1>1. PICK p \in Words, q \in Words : Moved(ids, p, q, ok)
  OBVIOUS
<1> DEFINE c == All
           a == active'
<1>2. All' = c \o p
  BY <1>1 DEF Moved
<1>3. /\ c \in Words /\ active \in Words
      /\ DiskIndex = Fresh(c \o active, {}) /\ DiskIndex' = Fresh(All' \o a, {})
  BY DiskFacts, DiskFactsNext DEF FilesOK
<1>4. Splits(NewList(c, active, ids), p, q) /\ a \in {active, q}
  BY <1>1, CombinedFacts DEF Moved, Splits
<1> HIDE DEF c, a
<1>5. \A b \in {active, q} : Begins(Fresh((c \o p) \o b, {}), Fresh(c \o active, {}))
  BY <1>3, <1>4, PagesGrow
<1>6. PICK x \in Words : DiskIndex' = DiskIndex \o x
  BY <1>2, <1>3, <1>4, <1>5 DEF Begins
<1>7. DiskIndex \in Words
  <2>1. c \o active \in Words
    BY <1>3, JoinedSet
  <2> QED BY <1>3, <2>1, FreshFacts
<1> QED BY <1>6, <1>7, PrefixOfLonger

-----------------------------------------------------------------------------
(* The index *)

Stored(names) == UNION {ToSet(archives[n]) : n \in names}

IndexType ==
    /\ generation \in Nat /\ lastNano \in Nat /\ acked \in SUBSET Hashes
    /\ index \in [valid : BOOLEAN, generation : Nat, ids : Words]
    /\ loader \in [pc : {"idle", "snapshot", "read", "serve"}, need : SUBSET Hashes,
                   names : SUBSET Nat, active : Words, generation : Nat, ids : Words]

\* Whoever was told that hashes are stored finds them in the files.
AckedOnDisk == acked \subseteq OnDisk

\* The cached list has everything in the files, as long as it is of their generation.
CacheIsCurrent ==
    index.valid => /\ index.generation <= generation
                   /\ index.generation = generation => OnDisk \subseteq ToSet(index.ids)

\* A request that reads the archives after its snapshot.
ReaderSees == Stored(loader.names) \cup ToSet(loader.active)

ReaderIsCurrent ==
    /\ loader.pc = "snapshot" => loader.need \subseteq OnDisk
    /\ loader.pc = "read" => /\ loader.names \subseteq DOMAIN archives
                             /\ loader.need \subseteq ReaderSees
                             /\ loader.generation <= generation
                             /\ loader.generation = generation => OnDisk \subseteq ReaderSees
    /\ loader.pc = "serve" => loader.need \subseteq ToSet(loader.ids)

ActivityInv == IndexType /\ FilesOK /\ AckedOnDisk /\ CacheIsCurrent /\ ReaderIsCurrent

\* A process that has just started, over no files.
LEMMA ActivityInitInv == ActivityInit => ActivityInv
<1> SUFFICES ASSUME ActivityInit PROVE ActivityInv
  OBVIOUS
<1>1. DOMAIN archives = {} /\ active = <<>> /\ loader = IdleLoader /\ index = NoIndex
  BY DEF ActivityInit
<1>2. <<>> \in Words /\ Len(<<>>) = 0 /\ MaxHashes \in Nat
  BY ActivityAssumption DEF Words
<1>3. IndexType
  BY <1>1, <1>2 DEF ActivityInit, IndexType, NoIndex, IdleLoader
<1>4. FilesOK
  BY <1>1, <1>2, FS_EmptySet DEF FilesOK, Archived
<1> QED
  BY <1>1, <1>3, <1>4 DEF ActivityInit, ActivityInv, AckedOnDisk, CacheIsCurrent, ReaderIsCurrent,
     NoIndex, IdleLoader

\* A write of new hashes, successful or not, has a generation of its own: nothing
\* that was read before it is taken for current.
LEMMA NewKeepsInv ==
    ASSUME ActivityInv, NEW ids \in Words, NEW now \in Nat, NEW outcome,
           outcome # Success => outcome \in Nat, addActivityHashesNew(ids, now, outcome)
    PROVE  /\ ActivityInv' /\ OnDisk \subseteq OnDisk' /\ IsPrefix(DiskIndex, DiskIndex')
           /\ outcome = Success => ToSet(ids) \subseteq OnDisk'
<1>1. /\ FilesOK' /\ lastNano' \in Nat /\ generation' = generation + 1
      /\ \A n \in DOMAIN archives : n \in DOMAIN archives' /\ archives'[n] = archives[n]
      /\ \E p, q \in Words : Moved(ids, p, q, outcome = Success)
  BY WriteNew DEF ActivityInv, IndexType
<1> DEFINE ok == outcome = Success
<1>2. /\ acked' = (IF ok THEN acked \cup ToSet(ids) ELSE acked)
      /\ index' = index /\ loader' = loader
  BY DEF addActivityHashesNew
<1>3. OnDisk \subseteq OnDisk' /\ (ok => ToSet(ids) \subseteq OnDisk')
  BY <1>1, WriteKeeps DEF ActivityInv
<1>4. IsPrefix(DiskIndex, DiskIndex')
  BY <1>1, WriteKeepsOrder DEF ActivityInv
<1>5. IndexType'
  <2>1. acked' \in SUBSET Hashes
    BY <1>2, WordFacts DEF ActivityInv, IndexType
  <2> QED BY <1>1, <1>2, <2>1 DEF ActivityInv, IndexType
<1>6. AckedOnDisk'
  BY <1>2, <1>3 DEF ActivityInv, AckedOnDisk
<1>7. CacheIsCurrent'
  BY <1>1, <1>2 DEF ActivityInv, IndexType, CacheIsCurrent
<1>8. ReaderIsCurrent'
  <2>1. CASE loader.pc = "read"
    <3>1. \A n \in loader.names : n \in DOMAIN archives' /\ archives'[n] = archives[n]
      BY <1>1, <2>1 DEF ActivityInv, ReaderIsCurrent
    <3>2. ReaderSees' = ReaderSees
      BY <1>2, <3>1 DEF ReaderSees, Stored
    <3> QED BY <1>1, <1>2, <2>1, <3>1, <3>2 DEF ActivityInv, IndexType, ReaderIsCurrent
  <2>2. CASE loader.pc # "read"
    BY <1>2, <1>3, <2>2 DEF ActivityInv, ReaderIsCurrent
  <2> QED BY <2>1, <2>2
<1> QED BY <1>1, <1>3, <1>4, <1>5, <1>6, <1>7, <1>8 DEF ActivityInv

\* Nothing but who has been told changes when there is nothing new.
LEMMA NothingKeepsInv ==
    ASSUME ActivityInv, NEW ids \in Words, NEW outcome, addActivityHashesNothing(ids, outcome)
    PROVE  /\ ActivityInv' /\ OnDisk' = OnDisk /\ UNCHANGED <<archives, active>>
           /\ outcome = Success => ToSet(ids) \subseteq OnDisk
<1>1. UNCHANGED <<archives, active, generation, lastNano, index, loader>>
  BY DEF addActivityHashesNothing
<1>2. FilesReadable
  BY DiskFacts DEF ActivityInv
<1>3. ToSet(ids) \subseteq OnDisk
  BY <1>2 DEF addActivityHashesNothing, NewIds
<1>4. acked' \in SUBSET Hashes /\ acked' \subseteq OnDisk
  BY <1>3, WordFacts DEF ActivityInv, IndexType, AckedOnDisk, addActivityHashesNothing
<1>5. OnDisk' = OnDisk /\ ReaderSees' = ReaderSees
  BY <1>1 DEF OnDisk, ArchivedIds, ReaderSees, Stored
<1> QED
  BY <1>1, <1>3, <1>4, <1>5 DEF ActivityInv, IndexType, FilesOK, Archived, AckedOnDisk,
     CacheIsCurrent, ReaderIsCurrent

\* addActivityHashes as a whole.
LEMMA AddKeepsInv ==
    ASSUME ActivityInv, NEW ids \in Words, NEW now \in Nat, NEW outcome,
           outcome # Success => outcome \in Nat, addActivityHashes(ids, now, outcome)
    PROVE  /\ ActivityInv' /\ OnDisk \subseteq OnDisk'
           /\ outcome = Success => ToSet(ids) \subseteq OnDisk'
           /\ UNCHANGED <<archives, active>> \/ IsPrefix(DiskIndex, DiskIndex')
<1>1. CASE addActivityHashesNothing(ids, outcome)
  BY <1>1, NothingKeepsInv
<1>2. CASE addActivityHashesNew(ids, now, outcome)
  BY <1>2, NewKeepsInv
<1> QED BY <1>1, <1>2 DEF addActivityHashes

\* The steps of a request, and a crash.
LEMMA LoadKeepsInv ==
    ASSUME ActivityInv, LoadCheck \/ activitySnapshot \/ LoadRead \/ LoadReturn \/ ActivityCrash
    PROVE  ActivityInv' /\ OnDisk' = OnDisk /\ UNCHANGED <<archives, active>>
<1>0. UNCHANGED <<archives, active, acked>>
  BY DEF LoadCheck, activitySnapshot, LoadRead, LoadReturn, ActivityCrash
<1>1. OnDisk' = OnDisk /\ FilesOK' /\ AckedOnDisk' /\ acked' = acked
  BY <1>0 DEF OnDisk, ArchivedIds, ActivityInv, FilesOK, Archived, AckedOnDisk
<1>2. <<>> \in Words
  BY DEF Words
<1>3. /\ ActivityInv /\ IndexType /\ FilesOK /\ CacheIsCurrent /\ ReaderIsCurrent
      /\ acked \subseteq OnDisk
  BY DEF ActivityInv, AckedOnDisk
<1>4. ASSUME LoadCheck PROVE IndexType' /\ CacheIsCurrent' /\ ReaderIsCurrent'
  <2>1. generation' = generation /\ index' = index /\ lastNano' = lastNano
    BY <1>4 DEF LoadCheck
  <2>2. CASE index.valid /\ index.generation = generation
    <3>1. loader' = [IdleLoader EXCEPT !.pc = "serve", !.need = acked, !.ids = index.ids]
      BY <1>4, <2>2 DEF LoadCheck
    <3> QED
      BY <1>1, <1>2, <1>3, <2>1, <2>2, <3>1
      DEF IndexType, CacheIsCurrent, ReaderIsCurrent, IdleLoader
  <2>3. CASE ~ (index.valid /\ index.generation = generation)
    <3>1. loader' = [IdleLoader EXCEPT !.pc = "snapshot", !.need = acked]
      BY <1>4, <2>3 DEF LoadCheck
    <3> QED
      BY <1>1, <1>2, <1>3, <2>1, <3>1
      DEF IndexType, CacheIsCurrent, ReaderIsCurrent, IdleLoader
  <2> QED BY <2>2, <2>3
<1>5. ASSUME activitySnapshot PROVE IndexType' /\ CacheIsCurrent' /\ ReaderIsCurrent'
  <2>1. /\ generation' = generation /\ index' = index /\ lastNano' = lastNano
        /\ loader.pc = "snapshot"
        /\ loader' = [loader EXCEPT !.pc = "read", !.names = DOMAIN archives, !.active = active,
                                    !.generation = generation]
    BY <1>5 DEF activitySnapshot
  <2>2. ReaderSees' = OnDisk
    BY <1>0, <1>3, <2>1 DEF ReaderSees, Stored, OnDisk, ArchivedIds, IndexType
  <2>3. IndexType'
    BY <1>1, <1>3, <2>1 DEF IndexType, FilesOK, Archived
  <2>4. ReaderIsCurrent'
    BY <1>0, <1>1, <1>3, <2>1, <2>2 DEF ReaderIsCurrent, IndexType
  <2> QED BY <1>1, <1>3, <2>1, <2>3, <2>4 DEF CacheIsCurrent
<1>6. ASSUME LoadRead PROVE IndexType' /\ CacheIsCurrent' /\ ReaderIsCurrent'
  <2> DEFINE list == Fresh(Concatenated(loader.names) \o loader.active, {})
  <2>1. /\ generation' = generation /\ lastNano' = lastNano /\ loader.pc = "read"
        /\ index' = [valid |-> TRUE, generation |-> loader.generation, ids |-> list]
        /\ loader' = [loader EXCEPT !.pc = "serve", !.ids = list]
    BY <1>6 DEF LoadRead
  <2>2. list \in Words /\ ToSet(list) = ReaderSees
    <3>1. loader.names \in SUBSET DOMAIN archives /\ loader.active \in Words
      BY <1>3, <2>1 DEF ReaderIsCurrent, IndexType
    <3>2. /\ loader.names \in SUBSET Nat /\ IsFiniteSet(loader.names)
          /\ \A n \in loader.names : archives[n] \in Words
      BY <1>3, <3>1, FS_Subset DEF FilesOK, Archived
    <3>3. /\ Concatenated(loader.names) \in Words
          /\ ToSet(Concatenated(loader.names)) = Stored(loader.names)
      BY <3>2, JoinedFacts, ConcatenatedIsJoined DEF Stored
    <3>4. /\ Concatenated(loader.names) \o loader.active \in Words
          /\ ToSet(Concatenated(loader.names) \o loader.active) = ReaderSees
      BY <3>1, <3>3, JoinedSet DEF ReaderSees
    <3> QED BY <3>4, FreshFacts
  <2> HIDE DEF list
  <2>3. IndexType'
    BY <1>1, <1>3, <2>1, <2>2 DEF IndexType
  <2>4. CacheIsCurrent' /\ ReaderIsCurrent'
    BY <1>1, <1>3, <2>1, <2>2 DEF CacheIsCurrent, ReaderIsCurrent, IndexType
  <2> QED BY <2>3, <2>4
<1>7. ASSUME LoadReturn PROVE IndexType' /\ CacheIsCurrent' /\ ReaderIsCurrent'
  BY <1>1, <1>2, <1>3, <1>7
  DEF LoadReturn, IndexType, CacheIsCurrent, ReaderIsCurrent, IdleLoader
<1>8. ASSUME ActivityCrash PROVE IndexType' /\ CacheIsCurrent' /\ ReaderIsCurrent'
  BY <1>1, <1>2, <1>3, <1>8
  DEF ActivityCrash, IndexType, CacheIsCurrent, ReaderIsCurrent, IdleLoader, NoIndex
<1> QED BY <1>0, <1>1, <1>4, <1>5, <1>6, <1>7, <1>8 DEF ActivityInv

-----------------------------------------------------------------------------
(* The scanner *)

Working == {"rpc", "apply", "save"}     \* the run holds a copy of scan.json

ScanTypes ==
    /\ scan \in ScanState /\ scanGeneration \in Nat /\ final \in 0 .. MaxBlock
    /\ backoff \in [active : BOOLEAN, duration : 0 .. BackoffCap]
    /\ run \in [pc : {"idle", "begin", "record"} \cup Working, generation : Nat, own : Nat,
                state : ScanState, found : BOOLEAN, failed : BOOLEAN]

\* The transactions of the blocks from start up to the cursor are in the index.
Covered(state) ==
    \A b \in 0 .. MaxBlock :
        b \in state.start .. state.next - 1 => ToSet(BlockHashes[b]) \subseteq OnDisk

\* The file and the copy of it that a run holds.
BothCovered == Covered(scan) /\ (run.pc \in Working => Covered(run.state))

\* The block a run has found something in exists.
FoundExists == run.pc = "apply" /\ run.found => run.state.next \in 0 .. MaxBlock

\* The generations a run has seen, in the order in which it read them.
RunGenerations ==
    /\ run.generation <= scanGeneration /\ run.own <= scanGeneration
    /\ run.pc \in Working \cup {"record"} => run.generation <= run.own
    /\ run.pc = "save" => run.own = scanGeneration

\* A run whose settings have not changed holds the file's range, perhaps further on.
Continues(state) ==
    /\ state.enabled = scan.enabled /\ state.explicit = scan.explicit
    /\ \/ state.start = scan.start /\ state.next >= scan.next
       \/ scan.next = 0 /\ ~scan.explicit

RunContinues == run.pc \in Working /\ run.own = scanGeneration => Continues(run.state)

ScanInv == ScanTypes /\ BothCovered /\ FoundExists /\ RunGenerations /\ RunContinues

\* What is covered stays covered, as nothing leaves the files.
LEMMA CoveredStays ==
    ASSUME NEW state, Covered(state), OnDisk \subseteq OnDisk'
    PROVE  \A b \in 0 .. MaxBlock :
              b \in state.start .. state.next - 1 => ToSet(BlockHashes[b]) \subseteq OnDisk'
<1> QED BY DEF Covered

\* A range that has just been started covers nothing.
LEMMA CoveredEmpty ==
    ASSUME NEW state, state.start = state.next, state.start \in Nat
    PROVE  Covered(state)
<1> QED BY DEF Covered

\* No range has been scanned when the process starts for the first time.
LEMMA ScanInitInv == Init => ActivityInv /\ ScanInv
<1> SUFFICES ASSUME Init PROVE ActivityInv /\ ScanInv
  OBVIOUS
<1>1. ActivityInv
  BY ActivityInitInv DEF Init
<1>2. /\ scan = NoScan /\ scanGeneration = 0 /\ run = IdleRun /\ final = 0
      /\ backoff = [active |-> FALSE, duration |-> 0]
  BY DEF Init
<1>3. NoScan \in ScanState /\ NoScan.start = NoScan.next /\ NoScan.start \in Nat
  BY DEF NoScan, ScanState
<1>4. 0 \in 0 .. MaxBlock /\ 0 \in 0 .. BackoffCap
  BY ScannerAssumption
<1>5. ScanTypes
  BY <1>2, <1>3, <1>4 DEF ScanTypes, IdleRun
<1>6. BothCovered
  BY <1>2, <1>3, CoveredEmpty DEF BothCovered, IdleRun, Working
<1>7. FoundExists /\ RunGenerations /\ RunContinues
  BY <1>2 DEF FoundExists, RunGenerations, RunContinues, IdleRun, Working
<1> QED BY <1>1, <1>5, <1>6, <1>7 DEF ScanInv

\* What a step does with the settings and the backoff, for OldScanIsIgnored.
SettingsKept ==
    /\ scan'.start # scan.start \/ scan'.next < scan.next \/ scan'.enabled # scan.enabled
         => \/ scanGeneration' # scanGeneration
            \/ scan.next = 0 /\ ~scan.explicit
    /\ backoff'.active /\ ~backoff.active => run.own = scanGeneration

\* A step of anyone else, which loses nothing from the files.
LEMMA OthersKeepScanInv ==
    ASSUME ScanInv, OnDisk \subseteq OnDisk', UNCHANGED <<scan, scanGeneration, backoff, run>>,
           final' \in 0 .. MaxBlock
    PROVE  ScanInv' /\ SettingsKept
<1>1. BothCovered'
  BY CoveredStays DEF ScanInv, BothCovered, Covered
<1>2. SettingsKept
  BY DEF ScanInv, ScanTypes, ScanState, SettingsKept
<1> QED
  BY <1>1, <1>2 DEF ScanInv, ScanTypes, FoundExists, RunGenerations, RunContinues, Continues

\* A change of the settings makes every run under way an old one.
LEMMA ConfigureKeepsScanInv ==
    ASSUME ScanInv, ~Locked, NEW enabled \in BOOLEAN, NEW start \in Starts \cup {NoStart},
           NEW w \in {"ok", "failed", "published"},
           ConfigureScan(enabled, start, w), OnDisk' = OnDisk
    PROVE  ScanInv' /\ SettingsKept
<1> DEFINE moved == IF start = NoStart THEN scan
                    ELSE [scan EXCEPT !.explicit = TRUE, !.start = start, !.next = start]
           new == [moved EXCEPT !.enabled = enabled]
<1>1. /\ scanGeneration' = scanGeneration + 1 /\ backoff' = [active |-> FALSE, duration |-> 0]
      /\ scan' = (IF w = "failed" THEN scan ELSE new) /\ run' = run /\ final' = final
  BY DEF ConfigureScan, Written
<1>2. /\ ScanTypes /\ BothCovered /\ FoundExists /\ RunGenerations
  BY DEF ScanInv
<1>3. new \in ScanState /\ Covered(new)
  <2>1. CASE start = NoStart
    <3>1. new = [scan EXCEPT !.enabled = enabled]
      BY <2>1
    <3>2. new.start = scan.start /\ new.next = scan.next /\ new \in ScanState
      BY <1>2, <3>1 DEF ScanTypes, ScanState
    <3> HIDE DEF new
    <3> QED BY <1>2, <3>2 DEF BothCovered, Covered
  <2>2. CASE start # NoStart
    <3>1. start \in Nat
      BY <2>2, ScannerAssumption
    <3>2. new.start = start /\ new.next = start /\ new \in ScanState
      BY <1>2, <2>2, <3>1 DEF ScanTypes, ScanState
    <3> HIDE DEF new
    <3> QED BY <3>1, <3>2, CoveredEmpty
  <2> QED BY <2>1, <2>2
<1> HIDE DEF new
<1>4. ScanTypes'
  <2>1. 0 \in 0 .. BackoffCap
    BY ScannerAssumption
  <2> QED BY <1>1, <1>2, <1>3, <2>1 DEF ScanTypes
<1>5. BothCovered'
  BY <1>1, <1>2, <1>3 DEF BothCovered, Covered
<1>6. FoundExists' /\ RunGenerations' /\ RunContinues'
  BY <1>1, <1>2 DEF FoundExists, RunGenerations, RunContinues, ScanTypes, Locked
<1>7. SettingsKept
  BY <1>1, <1>2 DEF SettingsKept, ScanTypes
<1> QED BY <1>4, <1>5, <1>6, <1>7 DEF ScanInv

\* The steps of the loop before it applies what it found.
LEMMA BeforeKeepsScanInv ==
    ASSUME ScanInv, OnDisk' = OnDisk, checkScanBackoff \/ ScanBegin \/ ScanIgnored \/ ScanNothing
    PROVE  ScanInv' /\ SettingsKept
<1>1. /\ ScanTypes /\ BothCovered /\ FoundExists /\ RunGenerations /\ RunContinues
  BY DEF ScanInv
<1>2. UNCHANGED <<scan, scanGeneration, backoff, final>>
  BY DEF checkScanBackoff, ScanBegin, ScanIgnored, ScanNothing
<1>3. SettingsKept
  BY <1>1, <1>2 DEF SettingsKept, ScanTypes, ScanState
<1>4. NoScan \in ScanState
  BY DEF NoScan, ScanState
<1>5. CASE checkScanBackoff
  <2>1. run' = [IdleRun EXCEPT !.pc = "begin", !.generation = scanGeneration]
    BY <1>5 DEF checkScanBackoff
  <2>2. /\ run'.pc = "begin" /\ run'.own = 0 /\ run'.generation = scanGeneration
    BY <2>1 DEF IdleRun
  <2>3. ScanTypes'
    BY <1>1, <1>2, <1>4, <2>1 DEF ScanTypes, Working, IdleRun
  <2>4. BothCovered'
    BY <1>1, <1>2, <2>2 DEF BothCovered, Covered, Working
  <2>5. FoundExists' /\ RunGenerations' /\ RunContinues'
    BY <1>1, <1>2, <2>2 DEF ScanTypes, FoundExists, RunGenerations, RunContinues, Working
  <2> QED BY <1>3, <2>3, <2>4, <2>5 DEF ScanInv
<1>6. CASE ScanBegin
  <2>1. /\ run.pc = "begin"
        /\ run' = IF scan.enabled
                  THEN [run EXCEPT !.pc = "rpc", !.state = scan, !.own = scanGeneration]
                  ELSE [run EXCEPT !.pc = "record", !.own = scanGeneration]
    BY <1>6 DEF ScanBegin
  <2>2. run.generation <= scanGeneration
    BY <1>1 DEF RunGenerations
  <2>3. ScanTypes'
    BY <1>1, <1>2, <2>1 DEF ScanTypes, Working
  <2>4. BothCovered'
    BY <1>1, <1>2, <2>1 DEF ScanTypes, BothCovered, Covered, Working
  <2>5. FoundExists' /\ RunGenerations'
    BY <1>1, <1>2, <2>1, <2>2 DEF ScanTypes, FoundExists, RunGenerations, Working
  <2>6. RunContinues'
    BY <1>1, <1>2, <2>1 DEF ScanTypes, ScanState, RunContinues, Continues, Working
  <2> QED BY <1>3, <2>3, <2>4, <2>5, <2>6 DEF ScanInv
<1>7. CASE ScanIgnored \/ ScanNothing
  <2>1. /\ run.pc = "apply"
        /\ \/ run' = [run EXCEPT !.pc = "record", !.failed = FALSE]
           \/ run' = [run EXCEPT !.pc = "save"] /\ run.own = scanGeneration
    BY <1>7 DEF ScanIgnored, ScanNothing, OwnsProgress
  <2>2. ScanTypes' /\ run'.state = run.state /\ run'.own = run.own /\ run'.generation = run.generation
    BY <1>1, <1>2, <2>1 DEF ScanTypes, Working
  <2>3. BothCovered'
    BY <1>1, <1>2, <2>1, <2>2 DEF ScanTypes, BothCovered, Covered, Working
  <2>4. FoundExists' /\ RunGenerations' /\ RunContinues'
    BY <1>1, <1>2, <2>1, <2>2
    DEF ScanTypes, FoundExists, RunGenerations, RunContinues, Continues, Working
  <2> QED BY <1>3, <2>2, <2>3, <2>4 DEF ScanInv
<1> QED BY <1>5, <1>6, <1>7

\* Starting the cursor keeps a run's copy what it was, or covers nothing yet.
LEMMA StartedFacts ==
    ASSUME ScanTypes, BothCovered, RunContinues, run.pc = "rpc", NEW head \in Nat
    PROVE  LET state == Started(run.state, head)
           IN  /\ state \in ScanState /\ Covered(state)
               /\ run.own = scanGeneration => Continues(state)
<1> DEFINE old == run.state
           state == Started(old, head)
           first == IF head > Recent - 1 THEN head - (Recent - 1) ELSE head
<1>1. /\ old \in ScanState /\ scan \in ScanState /\ Covered(old)
      /\ run.own = scanGeneration => Continues(old)
  BY DEF ScanTypes, BothCovered, RunContinues, Working
<1>2. first \in Nat
  BY ScannerAssumption
<1> HIDE DEF old, first
<1>3. CASE old.next = 0 /\ ~old.explicit
  <2>1. state = [old EXCEPT !.next = first, !.start = first]
    BY <1>3, Zenon DEF Started, first
  <2>2. /\ state \in ScanState /\ state.start = first /\ state.next = first
        /\ state.enabled = old.enabled /\ state.explicit = old.explicit
    BY <1>1, <1>2, <2>1 DEF ScanState
  <2> HIDE DEF state
  <2>3. Covered(state)
    BY <1>2, <2>2, CoveredEmpty
  <2>4. ASSUME run.own = scanGeneration PROVE Continues(state)
    <3>1. /\ old.enabled = scan.enabled /\ old.explicit = scan.explicit
          /\ \/ old.start = scan.start /\ old.next >= scan.next
             \/ scan.next = 0 /\ ~scan.explicit
      BY <1>1, <2>4 DEF Continues
    <3>2. ~old.explicit /\ old.next = 0 /\ scan.next \in Nat
      BY <1>1, <1>3 DEF ScanState
    <3> QED BY <2>2, <3>1, <3>2 DEF Continues
  <2> QED BY <2>2, <2>3, <2>4 DEF state, old
<1>4. CASE ~ (old.next = 0 /\ ~old.explicit)
  <2>1. state = old
    BY <1>4, Zenon DEF Started
  <2> QED BY <1>1, <2>1 DEF old
<1> QED BY <1>3, <1>4

\* The answer of the chain.
LEMMA RpcKeepsScanInv ==
    ASSUME ScanInv, OnDisk' = OnDisk, NEW head \in 0 .. final, NEW knowsHead \in BOOLEAN,
           NEW ok \in BOOLEAN, ScanRpc(head, knowsHead, ok)
    PROVE  ScanInv' /\ SettingsKept
<1>1. /\ ScanTypes /\ BothCovered /\ FoundExists /\ RunGenerations /\ RunContinues
  BY DEF ScanInv
<1> DEFINE state == IF knowsHead THEN Started(run.state, head) ELSE run.state
           due == knowsHead /\ state.next <= head
<1>2. /\ UNCHANGED <<scan, scanGeneration, backoff, final>> /\ run.pc = "rpc"
      /\ run' = [run EXCEPT !.pc = "apply", !.state = state, !.found = due /\ ok,
                            !.failed = ~ok]
  BY DEF ScanRpc
<1>3. head \in Nat /\ head <= MaxBlock
  <2>1. final \in Nat /\ final <= MaxBlock /\ MaxBlock \in Nat
    BY <1>1, ScannerAssumption DEF ScanTypes
  <2> QED BY <2>1
<1>4. /\ state \in ScanState /\ Covered(state)
      /\ run.own = scanGeneration => Continues(state)
  <2>1. CASE knowsHead
    BY <1>1, <1>2, <1>3, <2>1, StartedFacts
  <2>2. CASE ~knowsHead
    BY <1>1, <1>2, <2>2 DEF ScanTypes, BothCovered, RunContinues, Working
  <2> QED BY <2>1, <2>2
<1> DEFINE found == due /\ ok
<1>5. found \in BOOLEAN /\ (found => state.next <= head)
  OBVIOUS
<1>6. run' = [run EXCEPT !.pc = "apply", !.state = state, !.found = found, !.failed = ~ok]
  BY <1>2
<1> HIDE DEF state, found
<1>7. /\ run'.pc = "apply" /\ run'.state = state /\ run'.found = found
      /\ run'.own = run.own /\ run'.generation = run.generation
  BY <1>1, <1>6 DEF ScanTypes
<1>8. ScanTypes'
  BY <1>1, <1>2, <1>4, <1>5, <1>6 DEF ScanTypes, Working
<1>9. BothCovered'
  BY <1>1, <1>2, <1>4, <1>7 DEF BothCovered, Covered
<1>10. FoundExists'
  <2>1. state.next \in Nat /\ MaxBlock \in Nat
    BY <1>4, ScannerAssumption DEF ScanState
  <2>2. found => state.next \in 0 .. MaxBlock
    BY <1>3, <1>5, <2>1
  <2> QED BY <1>7, <2>2 DEF FoundExists
<1>11. RunGenerations' /\ RunContinues'
  BY <1>1, <1>2, <1>4, <1>7 DEF RunGenerations, RunContinues, Continues, Working
<1>12. SettingsKept
  BY <1>1, <1>2 DEF SettingsKept, ScanTypes, ScanState
<1> QED BY <1>8, <1>9, <1>10, <1>11, <1>12 DEF ScanInv

\* The hashes of the block are stored, and then the copy moves on.
LEMMA FoundKeepsScanInv ==
    ASSUME ScanInv, NEW now \in Nat, NEW outcome, ScanFound(now, outcome),
           OnDisk \subseteq OnDisk',
           outcome = Success => ToSet(BlockHashes[run.state.next]) \subseteq OnDisk'
    PROVE  ScanInv' /\ SettingsKept
<1>1. /\ ScanTypes /\ BothCovered /\ FoundExists /\ RunGenerations /\ RunContinues
  BY DEF ScanInv
<1> DEFINE old == run.state
           state == IF outcome = Success THEN Advanced(old) ELSE old
           failed == outcome # Success
<1>2. /\ UNCHANGED <<scan, scanGeneration, backoff, final>>
      /\ run.pc = "apply" /\ run.own = scanGeneration /\ run.found
      /\ run' = [run EXCEPT !.pc = "save", !.failed = failed, !.state = state]
  BY DEF ScanFound, OwnsProgress
<1>3. /\ old \in ScanState /\ Covered(old) /\ Continues(old) /\ scan \in ScanState
  BY <1>1, <1>2 DEF ScanTypes, BothCovered, RunContinues, Working
<1>4. /\ state \in ScanState /\ Continues(state)
      /\ \A b \in 0 .. MaxBlock :
            b \in state.start .. state.next - 1 => ToSet(BlockHashes[b]) \subseteq OnDisk'
  <2>1. \A b \in 0 .. MaxBlock :
           b \in old.start .. old.next - 1 => ToSet(BlockHashes[b]) \subseteq OnDisk'
    BY <1>3, CoveredStays
  <2>2. CASE outcome = Success
    <3>1. state = [old EXCEPT !.next = old.next + 1]
      BY <2>2 DEF Advanced
    <3> HIDE DEF old
    <3>2. /\ state \in ScanState /\ state.start = old.start /\ state.next = old.next + 1
          /\ state.enabled = old.enabled /\ state.explicit = old.explicit
      BY <1>3, <3>1 DEF ScanState
    <3> HIDE DEF state
    <3>3. ToSet(BlockHashes[old.next]) \subseteq OnDisk'
      BY <2>2 DEF old
    <3>4. old.next \in Nat /\ scan.next \in Nat
      BY <1>3 DEF ScanState
    <3>5. \A b \in 0 .. MaxBlock : b \in state.start .. state.next - 1
                => b \in old.start .. old.next - 1 \/ b = old.next
      BY <3>2, <3>4
    <3> QED BY <1>3, <2>1, <3>2, <3>3, <3>4, <3>5 DEF Continues
  <2>3. CASE outcome # Success
    BY <1>3, <2>1, <2>3
  <2> QED BY <2>2, <2>3
<1> HIDE DEF state, old
<1>5. failed \in BOOLEAN
  OBVIOUS
<1> HIDE DEF failed
<1>6. ScanTypes'
  BY <1>1, <1>2, <1>4, <1>5 DEF ScanTypes, Working
<1>7. /\ run'.pc = "save" /\ run'.state = state
      /\ run'.own = run.own /\ run'.generation = run.generation
  BY <1>1, <1>2 DEF ScanTypes
<1>8. BothCovered'
  <2>1. Covered(scan)
    BY <1>1 DEF BothCovered
  <2>2. \A b \in 0 .. MaxBlock :
           b \in scan.start .. scan.next - 1 => ToSet(BlockHashes[b]) \subseteq OnDisk'
    BY <2>1, CoveredStays
  <2> QED BY <1>2, <1>4, <1>7, <2>2 DEF BothCovered, Covered
<1>9. FoundExists' /\ RunGenerations' /\ RunContinues'
  BY <1>1, <1>2, <1>4, <1>7
  DEF FoundExists, RunGenerations, RunContinues, Continues, Working
<1>10. SettingsKept
  BY <1>1, <1>2 DEF SettingsKept, ScanTypes, ScanState
<1> QED BY <1>6, <1>8, <1>9, <1>10 DEF ScanInv

\* The copy becomes the file.
LEMMA SaveKeepsScanInv ==
    ASSUME ScanInv, OnDisk' = OnDisk, NEW w \in {"ok", "failed", "published"}, ScanSave(w)
    PROVE  ScanInv' /\ SettingsKept
<1>1. /\ ScanTypes /\ BothCovered /\ FoundExists /\ RunGenerations /\ RunContinues
  BY DEF ScanInv
<1> DEFINE failed == run.failed \/ w # "ok"
<1>2. /\ UNCHANGED <<scanGeneration, backoff, final>> /\ run.pc = "save"
      /\ scan' = (IF w = "failed" THEN scan ELSE run.state)
      /\ run' = [run EXCEPT !.pc = "record", !.failed = failed]
  BY DEF ScanSave, Written
<1>3. /\ run.state \in ScanState /\ scan \in ScanState /\ Covered(run.state) /\ Covered(scan)
      /\ Continues(run.state)
  BY <1>1, <1>2 DEF ScanTypes, BothCovered, RunGenerations, RunContinues, Working
<1>4. failed \in BOOLEAN
  BY <1>1 DEF ScanTypes
<1> HIDE DEF failed
<1>5. /\ run'.pc = "record" /\ run'.own = run.own /\ run'.generation = run.generation
  BY <1>1, <1>2 DEF ScanTypes
<1>6. ScanTypes'
  BY <1>1, <1>2, <1>3, <1>4 DEF ScanTypes, Working
<1>7. BothCovered'
  BY <1>2, <1>3, <1>5 DEF BothCovered, Covered, Working
<1>8. FoundExists' /\ RunGenerations' /\ RunContinues'
  BY <1>1, <1>2, <1>5 DEF FoundExists, RunGenerations, RunContinues, Working
<1>9. SettingsKept
  BY <1>1, <1>2, <1>3 DEF SettingsKept, Continues, ScanTypes, ScanState
<1> QED BY <1>6, <1>7, <1>8, <1>9 DEF ScanInv

\* The end of a run: its error delays the next one, unless the settings have changed.
LEMMA RecordKeepsScanInv ==
    ASSUME ScanInv, OnDisk' = OnDisk, recordScanError \/ BackoffOver
    PROVE  ScanInv' /\ SettingsKept
<1>1. /\ ScanTypes /\ BothCovered /\ FoundExists /\ RunGenerations /\ RunContinues
  BY DEF ScanInv
<1>2. UNCHANGED <<scan, scanGeneration, final>>
  BY DEF recordScanError, BackoffOver
<1>3. CASE recordScanError
  <2>1. /\ run.pc = "record" /\ run' = IdleRun
        /\ backoff' = IF run.generation # scanGeneration THEN backoff
                      ELSE [active |-> run.failed,
                            duration |-> IF run.failed THEN NextBackoff ELSE 0]
    BY <1>3 DEF recordScanError
  <2>2. NextBackoff \in 0 .. BackoffCap
    <3>1. backoff.duration \in Nat /\ 2 * backoff.duration \in Nat /\ BackoffCap \in Nat
      BY <1>1, ScannerAssumption DEF ScanTypes
    <3>2. Min({2 * backoff.duration, BackoffCap}) \in 0 .. BackoffCap
      BY <3>1, MinOfTwo
    <3> QED BY <3>2, ScannerAssumption DEF NextBackoff
  <2>3. backoff' \in [active : BOOLEAN, duration : 0 .. BackoffCap]
    <3>1. 0 \in 0 .. BackoffCap
      BY ScannerAssumption
    <3> QED BY <1>1, <2>1, <2>2, <3>1 DEF ScanTypes
  <2>4. IdleRun.pc = "idle" /\ IdleRun.own = 0 /\ IdleRun.generation = 0
    BY DEF IdleRun
  <2>5. ScanTypes'
    BY <1>1, <1>2, <2>1, <2>3 DEF ScanTypes, IdleRun, NoScan, ScanState
  <2>6. BothCovered'
    BY <1>1, <1>2, <2>1, <2>4 DEF BothCovered, Covered, Working
  <2>7. FoundExists' /\ RunGenerations' /\ RunContinues'
    BY <1>1, <1>2, <2>1, <2>4
    DEF ScanTypes, FoundExists, RunGenerations, RunContinues, Working
  <2>8. backoff'.active /\ ~backoff.active => run.own = scanGeneration
    BY <1>1, <2>1 DEF RunGenerations, ScanTypes
  <2> QED
    BY <1>1, <1>2, <2>5, <2>6, <2>7, <2>8 DEF ScanInv, SettingsKept, ScanTypes, ScanState
<1>4. CASE BackoffOver
  <2>1. backoff' = [backoff EXCEPT !.active = FALSE] /\ run' = run
    BY <1>4 DEF BackoffOver
  <2>2. backoff' \in [active : BOOLEAN, duration : 0 .. BackoffCap] /\ ~backoff'.active
    BY <1>1, <2>1 DEF ScanTypes
  <2>3. ScanTypes'
    BY <1>1, <1>2, <2>1, <2>2 DEF ScanTypes
  <2>4. BothCovered' /\ FoundExists' /\ RunGenerations' /\ RunContinues'
    BY <1>1, <1>2, <2>1
    DEF BothCovered, Covered, FoundExists, RunGenerations, RunContinues, Continues
  <2> QED BY <1>1, <1>2, <2>2, <2>3, <2>4 DEF ScanInv, SettingsKept, ScanTypes, ScanState
<1> QED BY <1>3, <1>4

\* A crash forgets the run and the generations, and keeps the file.
LEMMA CrashKeepsScanInv ==
    ASSUME ScanInv, OnDisk' = OnDisk, Crash
    PROVE  ScanInv' /\ SettingsKept
<1>1. /\ ScanTypes /\ BothCovered
  BY DEF ScanInv
<1>2. /\ UNCHANGED <<scan, final>> /\ scanGeneration' = 0 /\ run' = IdleRun
      /\ backoff' = [active |-> FALSE, duration |-> 0]
  BY DEF Crash
<1>3. IdleRun.pc = "idle" /\ IdleRun.own = 0 /\ IdleRun.generation = 0
  BY DEF IdleRun
<1>4. ScanTypes'
  <2>1. 0 \in 0 .. BackoffCap
    BY ScannerAssumption
  <2> QED BY <1>1, <1>2, <2>1 DEF ScanTypes, IdleRun, NoScan, ScanState
<1>5. BothCovered' /\ FoundExists' /\ RunGenerations' /\ RunContinues'
  BY <1>1, <1>2, <1>3
  DEF BothCovered, Covered, FoundExists, RunGenerations, RunContinues, Working
<1> QED BY <1>1, <1>2, <1>4, <1>5 DEF ScanInv, SettingsKept, ScanTypes, ScanState

-----------------------------------------------------------------------------
(* The theorems *)

Inv == ActivityInv /\ ScanInv

StepKeepsOrder == UNCHANGED <<archives, active>> \/ IsPrefix(DiskIndex, DiskIndex')

\* What an outcome and a result of a write are.
LEMMA OutcomeFacts ==
    /\ \A outcome \in Outcomes : outcome # Success => outcome \in Nat
    /\ \A w \in WriteOutcomes : w \in {"ok", "failed", "published"}
    /\ \A now \in 0 .. MaxNano : now \in Nat
<1> QED BY ActivityAssumption DEF Outcomes, WriteOutcomes

\* A step that leaves the index alone.
LEMMA IndexUntouched ==
    ASSUME ActivityInv, UNCHANGED activityVars
    PROVE  ActivityInv' /\ OnDisk' = OnDisk /\ UNCHANGED <<archives, active>>
<1>1. UNCHANGED <<archives, active, generation, lastNano, index, loader, acked>>
  BY DEF activityVars
<1>2. OnDisk' = OnDisk /\ ReaderSees' = ReaderSees
  BY <1>1 DEF OnDisk, ArchivedIds, ReaderSees, Stored
<1> QED
  BY <1>1, <1>2 DEF ActivityInv, IndexType, FilesOK, Archived, AckedOnDisk, CacheIsCurrent,
     ReaderIsCurrent

\* Every step keeps the invariants, the order of the list, and what belongs to the
\* settings.
LEMMA StepFacts ==
    ASSUME Inv, Next
    PROVE  Inv' /\ SettingsKept /\ StepKeepsOrder
<1>1. ActivityInv /\ ScanInv
  BY DEF Inv
<1>2. final \in 0 .. MaxBlock /\ MaxBlock \in Nat
  BY <1>1, ScannerAssumption DEF ScanInv, ScanTypes
<1> USE DEF Inv, StepKeepsOrder
<1>3. CASE FinalizeBlock
  <2>1. /\ UNCHANGED activityVars /\ UNCHANGED <<scan, scanGeneration, backoff, run>>
        /\ final' \in 0 .. MaxBlock
    BY <1>2, <1>3 DEF FinalizeBlock
  <2>2. ActivityInv' /\ OnDisk' = OnDisk /\ UNCHANGED <<archives, active>>
    BY <1>1, <2>1, IndexUntouched
  <2>3. OnDisk \subseteq OnDisk'
    BY <2>2
  <2> QED BY <1>1, <2>1, <2>2, <2>3, OthersKeepScanInv
<1>4. CASE Settings
  <2>1. PICK enabled \in BOOLEAN, start \in Starts \cup {NoStart}, w \in WriteOutcomes :
           ConfigureScan(enabled, start, w)
    BY <1>4 DEF Settings
  <2>2. ~Locked /\ UNCHANGED activityVars
    BY <1>4, <2>1 DEF Settings, ConfigureScan
  <2>3. ActivityInv' /\ OnDisk' = OnDisk /\ UNCHANGED <<archives, active>>
    BY <1>1, <2>2, IndexUntouched
  <2>4. w \in {"ok", "failed", "published"}
    BY OutcomeFacts
  <2>5. ScanInv' /\ SettingsKept
    BY <1>1, <2>1, <2>2, <2>3, <2>4, ConfigureKeepsScanInv
  <2> QED BY <2>3, <2>5
<1>5. CASE checkScanBackoff \/ ScanBegin \/ ScanIgnored \/ ScanNothing
  <2>1. UNCHANGED activityVars
    BY <1>5 DEF checkScanBackoff, ScanBegin, ScanIgnored, ScanNothing
  <2>2. ActivityInv' /\ OnDisk' = OnDisk /\ UNCHANGED <<archives, active>>
    BY <1>1, <2>1, IndexUntouched
  <2> QED BY <1>1, <1>5, <2>2, BeforeKeepsScanInv
<1>6. CASE \E head \in 0 .. final, knowsHead, ok \in BOOLEAN : ScanRpc(head, knowsHead, ok)
  <2>1. PICK head \in 0 .. final, knowsHead \in BOOLEAN, ok \in BOOLEAN :
           ScanRpc(head, knowsHead, ok)
    BY <1>6
  <2>2. UNCHANGED activityVars
    BY <2>1 DEF ScanRpc
  <2>3. ActivityInv' /\ OnDisk' = OnDisk /\ UNCHANGED <<archives, active>>
    BY <1>1, <2>2, IndexUntouched
  <2>4. ScanInv' /\ SettingsKept
    BY <1>1, <2>1, <2>3, RpcKeepsScanInv
  <2> QED BY <2>3, <2>4
<1>7. CASE \E now \in 0 .. MaxNano, outcome \in Outcomes : ScanFound(now, outcome)
  <2>1. PICK now \in 0 .. MaxNano, outcome \in Outcomes : ScanFound(now, outcome)
    BY <1>7
  <2> DEFINE ids == BlockHashes[run.state.next]
  <2>2. run.state.next \in 0 .. MaxBlock
    BY <1>1, <2>1 DEF ScanInv, FoundExists, ScanFound
  <2>3. ids \in Words /\ addActivityHashes(ids, now, outcome)
    BY <2>1, <2>2, ScannerAssumption DEF ScanFound, Words
  <2>4. now \in Nat /\ (outcome # Success => outcome \in Nat)
    BY OutcomeFacts
  <2> HIDE DEF ids
  <2>5. /\ ActivityInv' /\ OnDisk \subseteq OnDisk' /\ StepKeepsOrder
        /\ outcome = Success => ToSet(ids) \subseteq OnDisk'
    BY <1>1, <2>3, <2>4, AddKeepsInv
  <2>6. outcome = Success => ToSet(BlockHashes[run.state.next]) \subseteq OnDisk'
    BY <2>5 DEF ids
  <2>7. ScanInv' /\ SettingsKept
    BY <1>1, <2>1, <2>4, <2>5, <2>6, FoundKeepsScanInv
  <2> QED BY <2>5, <2>7
<1>8. CASE \E w \in WriteOutcomes : ScanSave(w)
  <2>1. PICK w \in WriteOutcomes : ScanSave(w)
    BY <1>8
  <2>2. UNCHANGED activityVars /\ w \in {"ok", "failed", "published"}
    BY <2>1, OutcomeFacts DEF ScanSave
  <2>3. ActivityInv' /\ OnDisk' = OnDisk /\ UNCHANGED <<archives, active>>
    BY <1>1, <2>2, IndexUntouched
  <2>4. ScanInv' /\ SettingsKept
    BY <1>1, <2>1, <2>2, <2>3, SaveKeepsScanInv
  <2> QED BY <2>3, <2>4
<1>9. CASE recordScanError \/ BackoffOver
  <2>1. UNCHANGED activityVars
    BY <1>9 DEF recordScanError, BackoffOver
  <2>2. ActivityInv' /\ OnDisk' = OnDisk /\ UNCHANGED <<archives, active>>
    BY <1>1, <2>1, IndexUntouched
  <2> QED BY <1>1, <1>9, <2>2, RecordKeepsScanInv
<1>10. CASE \E ids \in ImportIds, now \in 0 .. MaxNano, outcome \in Outcomes :
               ImportActivity(ids, now, outcome)
  <2>1. PICK ids \in ImportIds, now \in 0 .. MaxNano, outcome \in Outcomes :
           ImportActivity(ids, now, outcome)
    BY <1>10
  <2>2. ids \in Words /\ now \in Nat /\ (outcome # Success => outcome \in Nat)
    BY OutcomeFacts, ScannerAssumption DEF Words
  <2>3. /\ addActivityHashes(ids, now, outcome)
        /\ UNCHANGED <<scan, scanGeneration, backoff, run>> /\ final' = final
    BY <2>1 DEF ImportActivity, scanVars
  <2>4. ActivityInv' /\ OnDisk \subseteq OnDisk' /\ StepKeepsOrder
    BY <1>1, <2>2, <2>3, AddKeepsInv
  <2>5. ScanInv' /\ SettingsKept
    BY <1>1, <1>2, <2>3, <2>4, OthersKeepScanInv
  <2> QED BY <2>4, <2>5
<1>11. CASE Pages
  <2>1. /\ LoadCheck \/ activitySnapshot \/ LoadRead \/ LoadReturn
        /\ UNCHANGED <<scan, scanGeneration, backoff, run>> /\ final' = final
    BY <1>11 DEF Pages, scanVars
  <2>2. ActivityInv' /\ OnDisk' = OnDisk /\ UNCHANGED <<archives, active>>
    BY <1>1, <2>1, LoadKeepsInv
  <2>3. OnDisk \subseteq OnDisk' /\ final' \in 0 .. MaxBlock
    BY <1>2, <2>1, <2>2
  <2> QED BY <1>1, <2>1, <2>2, <2>3, OthersKeepScanInv
<1>12. CASE Crash
  <2>1. ActivityCrash
    BY <1>12 DEF Crash
  <2>2. ActivityInv' /\ OnDisk' = OnDisk /\ UNCHANGED <<archives, active>>
    BY <1>1, <2>1, LoadKeepsInv
  <2> QED BY <1>1, <1>12, <2>2, CrashKeepsScanInv
<1> QED
  BY <1>3, <1>4, <1>5, <1>6, <1>7, <1>8, <1>9, <1>10, <1>11, <1>12 DEF Next, Scan

\* The inductive invariant.
THEOREM Invariance == Spec => []Inv
<1>1. Init => Inv
  BY ScanInitInv DEF Inv
<1>2. Inv /\ [Next]_vars => Inv'
  <2> SUFFICES ASSUME Inv, [Next]_vars PROVE Inv'
    OBVIOUS
  <2>1. CASE Next
    BY <2>1, StepFacts
  <2>2. CASE UNCHANGED vars
    <3>1. /\ UNCHANGED activityVars
          /\ UNCHANGED <<scan, scanGeneration, backoff, run>> /\ final' = final
      BY <2>2 DEF vars, scanVars
    <3>2. ActivityInv' /\ OnDisk' = OnDisk
      BY <3>1, IndexUntouched DEF Inv
    <3>3. OnDisk \subseteq OnDisk' /\ final' \in 0 .. MaxBlock
      BY <3>1, <3>2 DEF Inv, ScanInv, ScanTypes
    <3> QED BY <3>1, <3>2, <3>3, OthersKeepScanInv DEF Inv
  <2> QED BY <2>1, <2>2
<1> QED
  BY <1>1, <1>2, PTL DEF Spec

\* Every variable of the scanner and of the index holds a value of its type.
THEOREM TypesHold == Spec => []TypeOK
<1>1. Inv => TypeOK
  <2> SUFFICES ASSUME Inv PROVE TypeOK
    OBVIOUS
  <2>1. ActivityTypeOK
    BY DEF Inv, ActivityInv, IndexType, FilesOK, Archived, ActivityTypeOK, Words
  <2>2. final \in Nat
    BY ScannerAssumption DEF Inv, ScanInv, ScanTypes
  <2> QED BY <2>1, <2>2 DEF Inv, ScanInv, ScanTypes, TypeOK
<1> QED BY <1>1, Invariance, PTL

\* What a caller was told is stored is in a file that can be read again.
THEOREM HashesAreKept == Spec => []NoHashLost
<1>1. Inv => NoHashLost
  BY DiskFacts DEF Inv, ActivityInv, AckedOnDisk, NoHashLost
<1> QED BY <1>1, Invariance, PTL

\* A page is built from a list that has every hash stored before the request.
THEOREM PagesAreComplete == Spec => []ServedIsComplete
<1>1. Inv => ServedIsComplete
  BY DEF Inv, ActivityInv, ReaderIsCurrent, ServedIsComplete
<1> QED BY <1>1, Invariance, PTL

\* The transactions of the blocks from start up to the cursor are in the index.
THEOREM ScannedBlocksAreIndexed == Spec => []ScannedIsIndexed
<1>1. Inv => ScannedIsIndexed
  BY DEF Inv, ScanInv, BothCovered, Covered, ScannedIsIndexed
<1> QED BY <1>1, Invariance, PTL

\* The list that is read back from the files only grows at its end.
THEOREM ListOnlyGrows == Spec => OrderIsStable
<1>1. Inv /\ [Next]_vars
        => [UNCHANGED <<archives, active>> \/ IsPrefix(DiskIndex, DiskIndex')]_<<archives, active>>
  <2> SUFFICES ASSUME Inv, [Next]_vars
               PROVE  UNCHANGED <<archives, active>> \/ IsPrefix(DiskIndex, DiskIndex')
    OBVIOUS
  <2>1. CASE Next
    BY <2>1, StepFacts DEF StepKeepsOrder
  <2>2. CASE UNCHANGED vars
    BY <2>2 DEF vars, activityVars
  <2> QED BY <2>1, <2>2
<1> QED BY <1>1, Invariance, PTL DEF Spec, OrderIsStable

\* A scan of earlier settings moves neither the cursor nor the backoff.
THEOREM OldScansAreIgnored == Spec => OldScanIsIgnored
<1>1. Inv /\ [Next]_vars =>
        [/\ scan'.start # scan.start \/ scan'.next < scan.next \/ scan'.enabled # scan.enabled
              => \/ scanGeneration' # scanGeneration
                 \/ scan.next = 0 /\ ~scan.explicit
         /\ backoff'.active /\ ~backoff.active => run.own = scanGeneration]_vars
  BY StepFacts DEF SettingsKept
<1> QED BY <1>1, Invariance, PTL DEF Spec, OldScanIsIgnored
=============================================================================
