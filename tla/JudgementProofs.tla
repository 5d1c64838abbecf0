-------------------------- MODULE JudgementProofs --------------------------
(***************************************************************************)
(* Proofs about Judgement, for every alphabet, lexicon, set of tropes and  *)
(* cues, and texts of any length: type correctness, that spelling changes  *)
(* nothing, that the lexicon's hits are words and miss none, and that a    *)
(* refutation spares.                                                      *)
(***************************************************************************)
EXTENDS Judgement, FiniteSetTheorems, SequenceTheorems, WellFoundedInduction, TLAPS

-----------------------------------------------------------------------------
(* Least and greatest numbers. *)

LEMMA LeastNumber ==
  ASSUME NEW T \in SUBSET Nat, T # {}
  PROVE  \E n \in T : \A m \in T : n <= m
<1>1. \E x \in T : \A y \in T : ~ (<<y, x>> \in OpToRel(<, Nat))
  BY NatLessThanWellFounded, WFMin
<1>2. \A x, y \in Nat : x < y => <<x, y>> \in OpToRel(<, Nat)
  BY DEF OpToRel
<1>3. PICK x \in T : \A y \in T : ~ (<<y, x>> \in OpToRel(<, Nat))
  BY <1>1
<1>4. \A y \in T : ~ (y < x)
  BY <1>2, <1>3
<1> QED
  BY <1>4

LEMMA MinIsLeast ==
  ASSUME NEW T \in SUBSET Nat, T # {}
  PROVE  Min(T) \in T /\ \A m \in T : Min(T) <= m
BY LeastNumber DEF Min

\* A bounded set has a greatest number: the least of its upper bounds.
LEMMA MaxIsGreatest ==
  ASSUME NEW T \in SUBSET Nat, T # {}, NEW b \in Nat, \A m \in T : m <= b
  PROVE  Max(T) \in T /\ \A m \in T : m <= Max(T)
<1> DEFINE U == {u \in Nat : \A m \in T : m <= u}
<1>1. PICK u \in U : \A v \in U : u <= v
  <2>1. U \subseteq Nat /\ b \in U
    OBVIOUS
  <2> QED
    BY <2>1, LeastNumber
<1>2. u \in T
  <2>1. SUFFICES ASSUME u \notin T PROVE FALSE
    OBVIOUS
  <2>2. PICK m \in T : TRUE
    OBVIOUS
  <2>3. u > 0 /\ u - 1 \in Nat
    BY <2>1, <2>2
  <2>4. \A k \in T : k <= u - 1
    BY <2>1
  <2>5. u - 1 \in U
    BY <2>3, <2>4
  <2> QED
    BY <1>1, <2>3, <2>5
<1>3. \A m \in T : u >= m
  BY <1>1
<1> QED
  BY <1>2, <1>3 DEF Max

-----------------------------------------------------------------------------
(* The characters at some places. *)

\* Kept lists them in their order: p says where each was.
LEMMA KeptInOrder ==
  ASSUME NEW C, NEW s \in Seq(C), NEW K \in SUBSET DOMAIN s
  PROVE  /\ Cardinality(K) \in Nat
         /\ \E p \in [1 .. Cardinality(K) -> K] :
              /\ \A k \in K : Rank(K, k) \in 1 .. Cardinality(K) /\ p[Rank(K, k)] = k
              /\ \A m, n \in 1 .. Cardinality(K) : m < n => p[m] < p[n]
              /\ Kept(s, K) = [n \in 1 .. Cardinality(K) |-> s[p[n]]]
<1>1. DOMAIN s = 1 .. Len(s) /\ Len(s) \in Nat
  OBVIOUS
<1>2. IsFiniteSet(1 .. Len(s))
  BY <1>1, FS_Interval
<1>3. IsFiniteSet(K)
  BY <1>1, <1>2, FS_Subset
<1>4. Cardinality(K) \in Nat
  BY <1>3, FS_CardinalityType
<1> DEFINE Upto(i) == {j \in K : j <= i}
<1>5. ASSUME NEW i \in K
      PROVE  /\ IsFiniteSet(Upto(i)) /\ Rank(K, i) = Cardinality(Upto(i))
             /\ Rank(K, i) \in 1 .. Cardinality(K)
  <2>1. Upto(i) \in SUBSET K /\ i \in Upto(i)
    BY <1>1
  <2>2. IsFiniteSet(Upto(i)) /\ Cardinality(Upto(i)) <= Cardinality(K)
    BY <1>3, <2>1, FS_Subset
  <2>3. Cardinality(Upto(i)) \in Nat
    BY <2>2, FS_CardinalityType
  <2>4. Cardinality(Upto(i)) # 0
    BY <2>1, <2>2, FS_EmptySet
  <2>5. Rank(K, i) = Cardinality(Upto(i))
    BY DEF Rank
  <2> HIDE DEF Upto
  <2> QED
    BY <1>4, <2>2, <2>3, <2>4, <2>5
<1>6. ASSUME NEW i \in K, NEW j \in K, i < j
      PROVE  Rank(K, i) < Rank(K, j)
  <2>1. Upto(i) \in SUBSET Upto(j) /\ j \in Upto(j) /\ j \notin Upto(i)
    BY <1>1, <1>6
  <2>2. Cardinality(Upto(i)) <= Cardinality(Upto(j))
    BY <1>5, <2>1, FS_Subset
  <2>3. Cardinality(Upto(j)) # Cardinality(Upto(i))
    BY <1>5, <2>1, FS_Subset
  <2>4. Rank(K, i) = Cardinality(Upto(i)) /\ Rank(K, j) = Cardinality(Upto(j))
    BY <1>5
  <2>5. Cardinality(Upto(i)) \in Nat /\ Cardinality(Upto(j)) \in Nat
    BY <1>5, FS_CardinalityType
  <2> HIDE DEF Upto
  <2> QED
    BY <2>2, <2>3, <2>4, <2>5
<1> DEFINE N == Cardinality(K)
           rank == [i \in K |-> Rank(K, i)]
           p == [n \in 1 .. N |-> CHOOSE i \in K : Rank(K, i) = n]
<1>7. rank \in Injection(K, 1 .. N)
  <2>1. rank \in [K -> 1 .. N]
    BY <1>5
  <2>2. \A i, j \in K : Rank(K, i) = Rank(K, j) => i = j
    <3>1. \A i, j \in K : i < j \/ j < i \/ i = j
      BY <1>1
    <3>2. \A i \in K : Rank(K, i) \in Int
      <4>1. \A i \in K : Rank(K, i) \in 1 .. Cardinality(K)
        BY <1>5
      <4> HIDE DEF N, rank, p
      <4> QED
        BY <1>4, <4>1
    <3> QED
      BY <1>6, <3>1, <3>2
  <2> QED
    BY <2>1, <2>2 DEF Injection, IsInjective
<1>8. IsFiniteSet(1 .. N) /\ Cardinality(1 .. N) = N
  BY <1>4, FS_Interval
<1>9. rank \in Surjection(K, 1 .. N)
  BY <1>7, <1>8, FS_Injection
<1>10. \A n \in 1 .. N : p[n] \in K /\ Rank(K, p[n]) = n
  BY <1>9 DEF Surjection
<1>11. p \in [1 .. N -> K]
  BY <1>10
<1>12. \A k \in K : Rank(K, k) \in 1 .. N /\ p[Rank(K, k)] = k
  <2>1. TAKE k \in K
  <2>2. Rank(K, k) \in 1 .. N
    BY <1>5
  <2>3. p[Rank(K, k)] = k
    BY <1>7, <1>10, <2>2 DEF Injection, IsInjective
  <2> QED
    BY <2>2, <2>3
<1>13. \A m, n \in 1 .. N : m < n => p[m] < p[n]
  <2>1. \A m, n \in 1 .. N : p[m] \in Nat /\ p[n] \in Nat
    BY <1>1, <1>10
  <2>2. ASSUME NEW m \in 1 .. N, NEW n \in 1 .. N, m < n PROVE ~ (p[n] <= p[m])
    <3>1. CASE p[n] < p[m]
      <4>1. Rank(K, p[n]) < Rank(K, p[m])
        BY <1>6, <1>10, <3>1
      <4> HIDE DEF p
      <4> QED
        BY <1>4, <1>10, <2>2, <4>1
    <3>2. CASE p[n] = p[m]
      <4> HIDE DEF p
      <4> QED
        BY <1>4, <1>10, <2>2, <3>2
    <3> HIDE DEF p
    <3> QED
      BY <2>1, <3>1, <3>2
  <2> HIDE DEF p
  <2> QED
    BY <2>1, <2>2
<1>14. Kept(s, K) = [n \in 1 .. N |-> s[p[n]]]
  BY DEF Kept
<1> HIDE DEF p, N
<1>15. /\ p \in [1 .. N -> K]
       /\ \A k \in K : Rank(K, k) \in 1 .. N /\ p[Rank(K, k)] = k
       /\ \A m, n \in 1 .. N : m < n => p[m] < p[n]
       /\ Kept(s, K) = [n \in 1 .. N |-> s[p[n]]]
  BY <1>11, <1>12, <1>13, <1>14
<1>16. N = Cardinality(K)
  BY DEF N
<1> QED
  BY <1>4, <1>15, <1>16

\* What is kept is a text of the same alphabet, and nothing else.
LEMMA KeptType ==
  ASSUME NEW C, NEW s \in Seq(C), NEW K \in SUBSET DOMAIN s
  PROVE  /\ Kept(s, K) \in Seq(C)
         /\ Len(Kept(s, K)) = Cardinality(K)
         /\ \A n \in DOMAIN Kept(s, K) : \E k \in K : Kept(s, K)[n] = s[k]
<1>1. Cardinality(K) \in Nat
  BY KeptInOrder
<1>2. PICK p \in [1 .. Cardinality(K) -> K] :
        Kept(s, K) = [n \in 1 .. Cardinality(K) |-> s[p[n]]]
  BY KeptInOrder
<1>3. \A n \in 1 .. Cardinality(K) : p[n] \in K /\ s[p[n]] \in C
  OBVIOUS
<1> QED
  BY <1>1, <1>2, <1>3

\* To keep every place is to keep the text.
LEMMA KeptAll ==
  ASSUME NEW C, NEW s \in Seq(C)
  PROVE  Kept(s, DOMAIN s) = s
<1>1. DOMAIN s = 1 .. Len(s) /\ Len(s) \in Nat
  OBVIOUS
<1>2. Cardinality(DOMAIN s) = Len(s)
  BY <1>1, FS_Interval
<1>3. ASSUME NEW i \in 1 .. Len(s) PROVE Rank(DOMAIN s, i) = i
  <2>1. {j \in DOMAIN s : j <= i} = 1 .. i
    BY <1>1
  <2>2. Cardinality(1 .. i) = i
    BY <1>1, FS_Interval
  <2> QED
    BY <2>1, <2>2 DEF Rank
<1>4. PICK K : K = DOMAIN s
  OBVIOUS
<1>5. PICK p \in [1 .. Cardinality(K) -> K] :
        /\ \A k \in K : p[Rank(K, k)] = k
        /\ Kept(s, K) = [n \in 1 .. Cardinality(K) |-> s[p[n]]]
  <2>1. K \in SUBSET DOMAIN s
    BY <1>4
  <2> QED
    BY <2>1, KeptInOrder
<1>6. \A n \in 1 .. Len(s) : p[n] = n
  BY <1>1, <1>3, <1>4, <1>5
<1>7. Kept(s, K) = [n \in 1 .. Len(s) |-> s[n]]
  BY <1>2, <1>4, <1>5, <1>6
<1> QED
  BY <1>1, <1>4, <1>7

-----------------------------------------------------------------------------
(* Normalisation. *)

\* Letters as they are compared, and texts of them.
Plain == Char \ (Mark \union DOMAIN Fold)

\* A canonical text has neither decoration nor a second spelling of a letter.
LEMMA CanonicalIsPlain ==
  ASSUME NEW s \in Seq(Char)
  PROVE  Canonical(s) \in Seq(Plain)
<1> DEFINE K == {i \in DOMAIN s : s[i] \notin Mark}
<1>1. PICK t : t = StripDiacritics(s)
  OBVIOUS
<1>2. /\ t \in Seq(Char)
      /\ \A n \in DOMAIN t : t[n] \notin Mark
  <2>1. K \in SUBSET DOMAIN s
    OBVIOUS
  <2>2. t = Kept(s, K)
    BY <1>1 DEF StripDiacritics
  <2> QED
    BY <2>1, <2>2, KeptType
<1>3. FoldOrthography(t) = [i \in DOMAIN t |-> IF t[i] \in DOMAIN Fold THEN Fold[t[i]] ELSE t[i]]
  BY DEF FoldOrthography
<1>4. DOMAIN t = 1 .. Len(t) /\ Len(t) \in Nat
  BY <1>2
<1>5. \A i \in DOMAIN t :
        (IF t[i] \in DOMAIN Fold THEN Fold[t[i]] ELSE t[i]) \in Plain
  <2>1. \A i \in DOMAIN t : t[i] \in Char \ Mark
    BY <1>2
  <2> QED
    BY <2>1, AlphabetAssumption DEF Plain, Char
<1>6. FoldOrthography(t) \in Seq(Plain)
  BY <1>3, <1>4, <1>5
<1> QED
  BY <1>1, <1>6 DEF Canonical

\* A plain text is its own canonical form.
LEMMA PlainIsCanonical ==
  ASSUME NEW s \in Seq(Plain)
  PROVE  Canonical(s) = s
<1>1. /\ s \in Seq(Char)
      /\ \A i \in DOMAIN s : s[i] \notin Mark /\ s[i] \notin DOMAIN Fold
  BY DEF Plain
<1>2. {i \in DOMAIN s : s[i] \notin Mark} = DOMAIN s
  BY <1>1
<1>3. StripDiacritics(s) = s
  BY <1>1, <1>2, KeptAll DEF StripDiacritics
<1>4. DOMAIN s = 1 .. Len(s) /\ Len(s) \in Nat
  OBVIOUS
<1>5. FoldOrthography(s) = s
  BY <1>1, <1>4 DEF FoldOrthography
<1> QED
  BY <1>3, <1>5 DEF Canonical

\* Words and the spaces between them.
Stays(s, i) ==
  s[i] = Space =>
    /\ i > 1 /\ s[i - 1] # Space
    /\ \E j \in DOMAIN s : j > i /\ s[j] # Space

\* After Collapse every space stands between two words.
LEMMA CollapseStays ==
  ASSUME NEW s \in Seq(Plain)
  PROVE  /\ Collapse(s) \in Seq(Plain)
         /\ \A i \in DOMAIN Collapse(s) : Stays(Collapse(s), i)
<1> DEFINE L == {i \in DOMAIN s : Stays(s, i)}
<1>1. PICK K : K = L
  OBVIOUS
<1>2. K \in SUBSET DOMAIN s
  BY <1>1
<1>3. \A i \in DOMAIN s : s[i] # Space => i \in K
  BY <1>1 DEF Stays
<1>4. Collapse(s) = Kept(s, K)
  BY <1>1 DEF Collapse, Stays
<1>5. Cardinality(K) \in Nat
  BY <1>2, KeptInOrder
<1>6. PICK p \in [1 .. Cardinality(K) -> K] :
        /\ \A k \in K : Rank(K, k) \in 1 .. Cardinality(K) /\ p[Rank(K, k)] = k
        /\ \A m, n \in 1 .. Cardinality(K) : m < n => p[m] < p[n]
        /\ Kept(s, K) = [n \in 1 .. Cardinality(K) |-> s[p[n]]]
  BY <1>2, KeptInOrder
<1>7. PICK c : c = Collapse(s)
  OBVIOUS
<1>8. /\ DOMAIN c = 1 .. Cardinality(K)
      /\ \A n \in 1 .. Cardinality(K) : c[n] = s[p[n]]
  BY <1>4, <1>6, <1>7
<1>9. c \in Seq(Plain)
  BY <1>2, <1>4, <1>7, KeptType
<1>10. DOMAIN s = 1 .. Len(s) /\ Len(s) \in Nat
  OBVIOUS
<1>11. ASSUME NEW m \in 1 .. Cardinality(K), NEW n \in 1 .. Cardinality(K), p[m] < p[n]
       PROVE  m < n
  <2>1. p[m] \in Nat /\ p[n] \in Nat
    BY <1>2, <1>6, <1>10
  <2> QED
    BY <1>5, <1>6, <1>11, <2>1
<1>12. ASSUME NEW n \in DOMAIN c, c[n] = Space
       PROVE  /\ n > 1 /\ c[n - 1] # Space
              /\ \E m \in DOMAIN c : m > n /\ c[m] # Space
  <2>1. n \in 1 .. Cardinality(K) /\ s[p[n]] = Space /\ p[n] \in K
    BY <1>6, <1>8, <1>12
  <2>2. /\ p[n] > 1 /\ s[p[n] - 1] # Space
        /\ \E j \in DOMAIN s : j > p[n] /\ s[j] # Space
    BY <1>1, <2>1 DEF Stays
  <2>3. p[n] \in DOMAIN s
    BY <1>2, <2>1
  <2>4. p[n] - 1 \in K
    BY <1>3, <1>10, <2>2, <2>3
  <2>5. PICK m \in 1 .. Cardinality(K) : p[m] = p[n] - 1
    BY <1>6, <2>4
  <2>6. p[m] < p[n]
    BY <1>10, <2>3, <2>5
  <2>7. m < n
    BY <1>11, <2>1, <2>6
  <2>8. ~ (m < n - 1)
    <3>1. SUFFICES ASSUME m < n - 1 PROVE FALSE
      OBVIOUS
    <3>2. n - 1 \in 1 .. Cardinality(K)
      BY <1>5, <2>1, <2>5, <3>1
    <3>3. p[m] < p[n - 1] /\ p[n - 1] < p[n]
      BY <1>5, <1>6, <2>1, <3>1, <3>2
    <3>4. p[n - 1] \in Nat
      BY <1>2, <1>6, <1>10, <3>2
    <3> QED
      BY <1>10, <2>3, <2>5, <3>3, <3>4
  <2>9. m = n - 1
    BY <1>5, <2>1, <2>7, <2>8
  <2>10. n > 1 /\ c[n - 1] # Space
    BY <1>5, <1>8, <2>1, <2>2, <2>5, <2>9
  <2>11. PICK j \in DOMAIN s : j > p[n] /\ s[j] # Space
    BY <2>2
  <2>12. PICK k \in 1 .. Cardinality(K) : p[k] = j
    BY <1>3, <1>6, <2>11
  <2>13. k > n
    BY <1>11, <1>5, <1>10, <2>1, <2>3, <2>11, <2>12
  <2>14. c[k] # Space
    BY <1>8, <2>11, <2>12
  <2> QED
    BY <1>8, <2>10, <2>12, <2>13, <2>14
<1>13. \A n \in DOMAIN c : Stays(c, n)
  BY <1>12 DEF Stays
<1> QED
  BY <1>7, <1>9, <1>13

\* A text of words with one space between them is left alone.
LEMMA StaysCollapsed ==
  ASSUME NEW s \in Seq(Plain), \A i \in DOMAIN s : Stays(s, i)
  PROVE  Collapse(s) = s
<1>1. Collapse(s) = Kept(s, {i \in DOMAIN s : Stays(s, i)})
  BY DEF Collapse, Stays
<1>2. {i \in DOMAIN s : Stays(s, i)} = DOMAIN s
  OBVIOUS
<1> QED
  BY <1>1, <1>2, KeptAll

\* What is normalised is a text of the same alphabet.
LEMMA NormalizeType ==
  ASSUME NEW s \in Seq(Char)
  PROVE  Normalize(s) \in Seq(Char)
<1>1. Collapse(Canonical(s)) \in Seq(Plain)
  BY CanonicalIsPlain, CollapseStays
<1> QED
  BY <1>1 DEF Normalize, Plain

\* Normalising twice changes no more than normalising once (normalize()), so that
\* texts which were stored in their normal form match those that were not.
THEOREM NormalizeIdempotent ==
  ASSUME NEW s \in Seq(Char)
  PROVE  Normalize(Normalize(s)) = Normalize(s)
<1>1. PICK t : t = Normalize(s)
  OBVIOUS
<1>2. t \in Seq(Plain) /\ \A i \in DOMAIN t : Stays(t, i)
  BY <1>1, CanonicalIsPlain, CollapseStays DEF Normalize
<1>3. Canonical(t) = t
  BY <1>2, PlainIsCanonical
<1>4. Collapse(t) = t
  BY <1>2, StaysCollapsed
<1> QED
  BY <1>1, <1>3, <1>4 DEF Normalize

-----------------------------------------------------------------------------
(* The inductive invariant: a verdict is the one of the comment it was     *)
(* asked about.                                                            *)

IInv ==
  /\ text \in Seq(Char) /\ Len(text) <= MaxText
  /\ post \in Posts
  /\ groups \in SUBSET Group
  /\ verdict # None => verdict = Judged(text, post, groups)

\* A comment has no verdict before it is judged, and typing on takes it away.
LEMMA InitIInv == Init => IInv
BY WindowAssumption DEF Init, IInv

LEMMA IInvStep == IInv /\ [Next]_vars => IInv'
<1> SUFFICES ASSUME IInv, [Next]_vars PROVE IInv'
  OBVIOUS
<1>1. ASSUME NEW c \in Char, Type(c) PROVE IInv'
  <2>1. text' = Append(text, c) /\ Len(text) < MaxText
    BY <1>1 DEF Type
  <2>2. text' \in Seq(Char) /\ Len(text') = Len(text) + 1
    BY <2>1, AppendProperties DEF IInv
  <2>3. Len(text') <= MaxText
    BY <2>1, <2>2, WindowAssumption DEF IInv
  <2> QED
    BY <1>1, <2>2, <2>3 DEF Type, IInv
<1>2. CASE Classify
  BY <1>2 DEF Classify, IInv
<1>3. CASE UNCHANGED vars
  BY <1>3 DEF vars, IInv
<1> QED
  BY <1>1, <1>2, <1>3 DEF Next

\* The invariant holds in every reachable state: no verdict outlives its comment.
THEOREM Inductive == Spec => []IInv
<1>1. Init => IInv
  BY InitIInv
<1>2. IInv /\ [Next]_vars => IInv'
  BY IInvStep
<1> QED
  BY <1>1, <1>2, PTL DEF Spec

-----------------------------------------------------------------------------
(* Spelling changes nothing: classify reads the comment only through its   *)
(* normal form.                                                            *)

LEMMA JudgedByNormalForm ==
  ASSUME NEW s \in Seq(Char), NEW parent, NEW context
  PROVE  Judged(Normalize(s), parent, context) = Judged(s, parent, context)
<1>1. Normalize(Normalize(s)) = Normalize(s)
  BY NormalizeIdempotent
<1>2. Scan(Normalize(s), context) = Scan(s, context)
  BY <1>1 DEF Scan
<1>3. Evaluate(Normalize(s), parent, context) = Evaluate(s, parent, context)
  BY <1>1 DEF Evaluate
<1>4. DetectSignals(NoGroups, Normalize(s), context, "") = DetectSignals(NoGroups, s, context, "")
  BY <1>1 DEF DetectSignals
<1> QED
  BY <1>2, <1>3, <1>4 DEF Judged

\* Spelling is no way around the lexicon, and no way into it: a comment gets the
\* verdict of its canonical form (normalize.ts, used by every layer).
THEOREM SpellingIsNoWayAround == Spec => []SpellingChangesNothing
<1>1. IInv => SpellingChangesNothing
  <2> SUFFICES ASSUME IInv, verdict # None
               PROVE  verdict = Judged(Normalize(text), post, groups)
    BY DEF SpellingChangesNothing
  <2>1. text \in Seq(Char) /\ verdict = Judged(text, post, groups)
    BY DEF IInv
  <2> QED
    BY <2>1, JudgedByNormalForm
<1> QED
  BY <1>1, Inductive, PTL

-----------------------------------------------------------------------------
(* Tropes: a refutation spares. *)

LEMMA MaxOfTwo ==
  ASSUME NEW a \in Int, NEW b \in Int
  PROVE  Max({a, b}) = IF a >= b THEN a ELSE b
<1>1. \E x \in {a, b} : \A y \in {a, b} : x >= y
  OBVIOUS
<1>2. Max({a, b}) \in {a, b} /\ \A y \in {a, b} : Max({a, b}) >= y
  BY <1>1 DEF Max
<1> QED
  BY <1>2

LEMMA MinOfTwo ==
  ASSUME NEW a \in Int, NEW b \in Int
  PROVE  Min({a, b}) = IF a <= b THEN a ELSE b
<1>1. \E x \in {a, b} : \A y \in {a, b} : x <= y
  OBVIOUS
<1>2. Min({a, b}) \in {a, b} /\ \A y \in {a, b} : Min({a, b}) <= y
  BY <1>1 DEF Min
<1> QED
  BY <1>2

\* The first match is one: a form of the trope stands there.
LEMMA FirstMatchStands ==
  ASSUME NEW h \in Seq(Char), NEW t \in DOMAIN Tropes, FoundForms(t, h) # {}
  PROVE  FirstMatch(t, h) \in Places(t, h)
<1>1. DOMAIN Tropes[t].forms \subseteq Nat
  <2>1. PICK R : R = [forms : Seq(Seq(Char)), covers : SUBSET Group, topics : SUBSET Seq(Char),
                      requires_target_group : BOOLEAN, negation_cancels : BOOLEAN]
    OBVIOUS
  <2>2. Tropes \in Seq(R)
    BY <2>1, TropesAssumption
  <2>3. Tropes[t] \in R
    BY <2>2
  <2>4. Tropes[t].forms \in Seq(Seq(Char))
    BY <2>1, <2>3
  <2> QED
    BY <2>4
<1>2. FoundForms(t, h) \in SUBSET Nat
  BY <1>1 DEF FoundForms, Forms
<1>3. PICK n : n = Min(FoundForms(t, h))
  OBVIOUS
<1>4. n \in FoundForms(t, h)
  BY <1>2, <1>3, MinIsLeast
<1> DEFINE needle == Normalize(Tropes[t].forms[n])
           I == {i \in DOMAIN h : ReadsAt(h, i, needle)}
<1>5. n \in Forms(t) /\ Includes(h, needle)
  BY <1>4 DEF FoundForms
<1>6. I # {}
  BY <1>5 DEF Includes
<1>7. I \in SUBSET Nat
  OBVIOUS
<1>8. Min(I) \in I
  BY <1>6, <1>7, MinIsLeast
<1>9. FirstMatch(t, h) = Min(I)
  BY <1>3 DEF FirstMatch
<1> QED
  BY <1>5, <1>8, <1>9 DEF Places

\* A cue in canonical letters within the window is in the part that is read.
LEMMA SaidNearIsRead ==
  ASSUME NEW h \in Seq(Char), NEW i \in DOMAIN h, NEW cue \in Seq(Char) \ {<<>>},
         Canonical(cue) = cue, SaidNear(cue, h, i)
  PROVE  Includes(Around(h, i), cue)
<1>1. PICK j \in DOMAIN h :
        /\ j + Len(cue) - 1 <= Len(h) /\ SubSeq(h, j, j + Len(cue) - 1) = cue
        /\ i - Window <= j /\ j + Len(cue) <= i + Window
  BY DEF SaidNear, ReadsAt
<1>2. /\ DOMAIN h = 1 .. Len(h) /\ Len(h) \in Nat
      /\ i \in 1 .. Len(h) /\ j \in 1 .. Len(h)
      /\ Len(cue) \in Nat /\ Len(cue) > 0 /\ Window \in Nat
  BY EmptySeq, WindowAssumption
<1>3. PICK a : a = Max({1, i - Window})
  OBVIOUS
<1>4. a \in 1 .. Len(h) /\ a <= j
  <2>1. i - Window \in Int
    BY <1>2
  <2>2. a = IF 1 >= i - Window THEN 1 ELSE i - Window
    BY <1>3, <2>1, MaxOfTwo
  <2> QED
    BY <1>1, <1>2, <2>2
<1>5. PICK b : b = Min({Len(h), i + Window - 1})
  OBVIOUS
<1>6. b \in 1 .. Len(h) /\ j + Len(cue) - 1 <= b
  <2>1. i + Window - 1 \in Int /\ Len(h) \in Int
    BY <1>2
  <2>2. b = IF Len(h) <= i + Window - 1 THEN Len(h) ELSE i + Window - 1
    BY <1>5, <2>1, MinOfTwo
  <2> QED
    BY <1>1, <1>2, <2>2
<1>7. PICK r : r = SubSeq(h, a, b)
  OBVIOUS
<1>8. r \in Seq(Char) /\ Len(r) = b - a + 1
  <2>1. \A n \in a .. b : h[n] \in Char
    BY <1>2, <1>4, <1>6
  <2>2. a <= b /\ a \in Int /\ b \in Int
    BY <1>1, <1>2, <1>4, <1>6
  <2> QED
    BY <1>7, <2>1, <2>2, SubSeqProperties
<1>9. PICK k : k = j - a + 1
  OBVIOUS
<1>10. PICK l : l = j + Len(cue) - a
  OBVIOUS
<1>11. /\ k \in 1 .. b - a + 1 /\ l \in 1 .. b - a + 1 /\ l = k + Len(cue) - 1
       /\ a + k - 1 = j /\ a + l - 1 = j + Len(cue) - 1
  <2>1. PICK n \in Nat : n = Len(cue) /\ n > 0
    BY <1>2
  <2>2. a \in Nat /\ b \in Nat /\ j \in Nat /\ a <= j /\ j + n - 1 <= b
    BY <1>2, <1>4, <1>6, <2>1
  <2>3. k \in Nat /\ l \in Nat /\ l = k + n - 1
    BY <1>9, <1>10, <2>1, <2>2
  <2>4. a + k - 1 = j /\ a + l - 1 = j + n - 1
    BY <1>9, <1>10, <2>1, <2>2
  <2>5. 1 <= k /\ 1 <= l /\ k <= l /\ l <= b - a + 1
    BY <1>9, <1>10, <2>1, <2>2
  <2> QED
    BY <2>1, <2>2, <2>3, <2>4, <2>5
<1>12. SubSeq(SubSeq(h, a, b), k, l) = SubSeq(h, a + k - 1, a + l - 1)
  BY <1>4, <1>6, <1>11, SubSeqOfSubSeq
<1>13. SubSeq(r, k, k + Len(cue) - 1) = cue
  BY <1>1, <1>7, <1>11, <1>12
<1>14. k \in DOMAIN r /\ k + Len(cue) - 1 <= Len(r)
  BY <1>4, <1>6, <1>8, <1>11
<1>15. Includes(r, cue)
  BY <1>13, <1>14 DEF Includes, ReadsAt
<1> QED
  BY <1>3, <1>5, <1>7, <1>15 DEF Around

\* A trope does not fire if near each of its forms in the comment stands a
\* refutation in canonical letters (tropes.ts, isNegated before it fires): "no
\* defender is flagged by the words of the libel they reject", for every set of
\* cues and every window.
THEOREM RefutersAreSpared == Spec => []RefutationSpares
<1>1. IInv => RefutationSpares
  <2> DEFINE h == Normalize(text)
  <2> SUFFICES ASSUME IInv, verdict # None,
                      NEW t \in verdict.fired, Tropes[t].negation_cancels
               PROVE  \E i \in Places(t, h) :
                        \A cue \in {c \in Cues : Canonical(c) = c} : ~SaidNear(cue, h, i)
    BY DEF RefutationSpares, Spares
  <2>1. verdict.fired = Evaluate(text, post, groups).fired
    <3>1. verdict = Judged(text, post, groups)
      BY DEF IInv
    <3>2. Judged(text, post, groups).fired = Evaluate(text, post, groups).fired
      BY DEF Judged
    <3> QED
      BY <3>1, <3>2
  <2>2. t \in DOMAIN Tropes /\ FoundForms(t, h) # {} /\ ~Refuted(t, h)
    BY <2>1 DEF Evaluate
  <2>3. h \in Seq(Char)
    BY NormalizeType DEF IInv
  <2>4. FirstMatch(t, h) \in Places(t, h)
    BY <2>2, <2>3, FirstMatchStands
  <2>5. FirstMatch(t, h) \in DOMAIN h
    BY <2>4 DEF Places
  <2>6. ~Negated(h, FirstMatch(t, h))
    BY <2>2 DEF Refuted
  <2>7. \A cue \in Cues : cue \in Seq(Char) \ {<<>>}
    BY TropesAssumption
  <2> HIDE DEF h
  <2>8. ASSUME NEW cue \in Cues, Canonical(cue) = cue, SaidNear(cue, h, FirstMatch(t, h))
        PROVE  FALSE
    <3>1. Includes(Around(h, FirstMatch(t, h)), cue)
      BY <2>3, <2>5, <2>7, <2>8, SaidNearIsRead
    <3> QED
      BY <2>6, <3>1 DEF Negated
  <2> QED
    BY <2>4, <2>8
<1> QED
  BY <1>1, Inductive, PTL

-----------------------------------------------------------------------------
(* The lexicon: what the search finds. *)

LEMMA TermType ==
  ASSUME NEW n \in DOMAIN Terms
  PROVE  /\ Terms[n].surfaces \subseteq Seq(Char)
         /\ Terms[n].is_regex \in BOOLEAN /\ Terms[n].is_explicit \in BOOLEAN
         /\ n \in 1 .. Len(Terms) /\ Len(Terms) \in Nat
<1>1. PICK R : R = [surfaces : SUBSET Seq(Char), is_regex : BOOLEAN, is_explicit : BOOLEAN,
                    group : Group \union {None}, never_flag_when : SUBSET STRING]
  OBVIOUS
<1>2. Terms \in Seq(R)
  BY <1>1, LexiconAssumption
<1>3. Terms[n] \in R
  BY <1>2
<1>4. n \in 1 .. Len(Terms) /\ Len(Terms) \in Nat
  BY <1>2
<1> QED
  BY <1>1, <1>3, <1>4

\* A surface is a text, not the empty one, of a term that is no regex.
LEMMA SurfaceType ==
  ASSUME NEW s \in Surfaces
  PROVE  /\ s \in Seq(Char) /\ s # <<>> /\ Len(s) \in Nat \ {0}
         /\ \E n \in DOMAIN Terms : BySurface(s) = Terms[n] /\ ~Terms[n].is_regex
<1>1. PICK n \in DOMAIN Terms : s \in LiteralSurfaces(n)
  BY DEF Surfaces
<1>2. s # <<>> /\ \E r \in Terms[n].surfaces : s = Normalize(r)
  BY <1>1 DEF LiteralSurfaces
<1>3. s \in Seq(Char)
  BY <1>2, TermType, NormalizeType
<1>4. Len(s) \in Nat \ {0}
  BY <1>2, <1>3, EmptySeq
<1> DEFINE N == {k \in DOMAIN Terms : s \in LiteralSurfaces(k)}
<1>5. N \in SUBSET Nat /\ N # {}
  BY <1>1, TermType
<1>6. Len(Terms) \in Nat /\ \A k \in N : k <= Len(Terms)
  BY <1>1, TermType
<1>7. Max(N) \in N
  BY <1>5, <1>6, MaxIsGreatest
<1>8. ~Terms[Max(N)].is_regex
  BY <1>7 DEF LiteralSurfaces
<1>9. BySurface(s) = Terms[Max(N)]
  BY DEF BySurface
<1> QED
  BY <1>2, <1>3, <1>4, <1>7, <1>8, <1>9

LEMMA CliticType == Clitics \in Seq(Seq(Char))
<1>1. PICK after : after = Particles \o << <<>> >>
  OBVIOUS
<1>2. <<>> \in Seq(Char) /\ << <<>> >> \in Seq(Seq(Char))
  OBVIOUS
<1>3. after \in Seq(Seq(Char))
  BY <1>1, <1>2, LexiconAssumption, ConcatProperties
<1>4. PICK joined : joined = [i \in DOMAIN after |-> Joiner \o after[i]]
  OBVIOUS
<1>5. \A i \in DOMAIN after : Joiner \o after[i] \in Seq(Char)
  BY <1>3, LexiconAssumption, ConcatProperties
<1>6. DOMAIN after = 1 .. Len(after) /\ Len(after) \in Nat
  BY <1>3
<1>7. joined \in Seq(Seq(Char))
  BY <1>4, <1>5, <1>6
<1>8. Clitics = joined \o after
  BY <1>1, <1>4 DEF Clitics
<1> QED
  BY <1>3, <1>7, <1>8, ConcatProperties

\* What a match of the pattern is: it stands in the text, as a whole word.
LEMMA MatchType ==
  ASSUME NEW h \in Seq(Char), NEW i \in DOMAIN h, NEW m \in MatchesAt(h, i)
  PROVE  LET last == i + Len(Clitics[m.clitic]) + Len(m.surface) - 1
         IN  /\ m.clitic \in Nat /\ m.clitic \in DOMAIN Clitics
             /\ m.surface \in Surfaces /\ Len(m.surface) \in Nat
             /\ last \in i .. Len(h) /\ Len(m.surface) <= Len(h)
             /\ SubSeq(h, i, last) = Clitics[m.clitic] \o m.surface
             /\ Boundary(h, i - 1) /\ Boundary(h, last + 1)
<1>1. m.clitic \in DOMAIN Clitics /\ m.surface \in Surfaces
  BY DEF MatchesAt
<1>2. PICK c : c = Clitics[m.clitic]
  OBVIOUS
<1>3. PICK s : s = m.surface
  OBVIOUS
<1>4. m.clitic \in Nat /\ c \in Seq(Char)
  BY <1>1, <1>2, CliticType
<1>5. s \in Seq(Char) /\ Len(s) \in Nat \ {0}
  BY <1>1, <1>3, SurfaceType
<1>6. Len(c) \in Nat
  BY <1>4
<1>7. Len(c \o s) = Len(c) + Len(s)
  BY <1>4, <1>5, ConcatProperties
<1>8. /\ i + Len(c \o s) - 1 <= Len(h) /\ SubSeq(h, i, i + Len(c \o s) - 1) = c \o s
      /\ Boundary(h, i - 1) /\ Boundary(h, i + Len(c \o s) - 1 + 1)
  BY <1>2, <1>3 DEF MatchesAt, ReadsAt, Bounded
<1>9. i + Len(c \o s) - 1 = i + Len(c) + Len(s) - 1
  <2>1. i \in Nat
    OBVIOUS
  <2> QED
    BY <1>5, <1>6, <1>7, <2>1
<1>10. PICK last : last = i + Len(c) + Len(s) - 1
  OBVIOUS
<1>11. /\ SubSeq(h, i, last) = c \o s
       /\ Boundary(h, i - 1) /\ Boundary(h, last + 1) /\ last <= Len(h)
  BY <1>8, <1>9, <1>10
<1>12. last \in i .. Len(h) /\ Len(s) <= Len(h)
  <2>1. i \in Nat /\ i > 0 /\ Len(h) \in Nat
    OBVIOUS
  <2>2. PICK x \in Nat : x = Len(c)
    BY <1>6
  <2>3. PICK y \in Nat : y = Len(s) /\ y > 0
    BY <1>5
  <2>4. PICK z \in Nat : z = Len(h)
    BY <2>1
  <2>5. last = i + x + y - 1 /\ last <= z
    BY <1>10, <1>11, <2>2, <2>3, <2>4
  <2>6. i <= last /\ last \in Nat
    BY <2>1, <2>2, <2>3, <2>5
  <2>7. y <= z
    BY <2>1, <2>2, <2>3, <2>4, <2>5
  <2> QED
    BY <2>3, <2>4, <2>5, <2>6, <2>7
<1> QED
  BY <1>1, <1>2, <1>3, <1>4, <1>5, <1>10, <1>11, <1>12

\* Where a match could begin there is one: of the matches with the first clitic
\* that goes, one with the longest surface.
LEMMA MatchAtMatches ==
  ASSUME NEW h \in Seq(Char), NEW i \in Starts(h)
  PROVE  MatchAt(h, i) \in MatchesAt(h, i)
<1>1. i \in DOMAIN h /\ MatchesAt(h, i) # {}
  BY DEF Starts
<1>2. PICK M : M = MatchesAt(h, i)
  OBVIOUS
<1>3. \A m \in M : m.clitic \in Nat /\ Len(m.surface) \in Nat /\ Len(m.surface) <= Len(h)
  BY <1>1, <1>2, MatchType
<1>4. PICK c \in {m.clitic : m \in M} : \A d \in {m.clitic : m \in M} : c <= d
  <2>1. {m.clitic : m \in M} \in SUBSET Nat /\ {m.clitic : m \in M} # {}
    BY <1>1, <1>2, <1>3
  <2> QED
    BY <2>1, LeastNumber
<1> DEFINE L == {Len(m.surface) : m \in {k \in M : k.clitic = c}}
<1>5. L \in SUBSET Nat /\ L # {} /\ Len(h) \in Nat /\ \A l \in L : l <= Len(h)
  BY <1>3, <1>4
<1>6. Max(L) \in L /\ \A l \in L : l <= Max(L)
  BY <1>5, MaxIsGreatest
<1>7. PICK m \in M : m.clitic = c /\ Len(m.surface) = Max(L)
  BY <1>6
<1>8. \A k \in M : m.clitic < k.clitic \/ (m.clitic = k.clitic /\ Len(m.surface) >= Len(k.surface))
  <2>1. TAKE k \in M
  <2>2. c <= k.clitic /\ c \in Nat /\ k.clitic \in Nat
    BY <1>3, <1>4
  <2>3. k.clitic = c => Len(k.surface) <= Max(L)
    BY <1>6
  <2>4. Len(k.surface) \in Nat /\ Max(L) \in Nat
    BY <1>3, <1>5, <1>6
  <2> HIDE DEF L
  <2> QED
    BY <1>7, <2>2, <2>3, <2>4
<1> QED
  BY <1>2, <1>7, <1>8 DEF MatchAt

LEMMA LastType ==
  ASSUME NEW h \in Seq(Char), NEW i \in Starts(h)
  PROVE  /\ i \in 1 .. Len(h) /\ LastOf(h, i) \in i .. Len(h)
         /\ MatchAt(h, i).surface \in Surfaces
         /\ MatchAt(h, i).clitic \in DOMAIN Clitics
         /\ SubSeq(h, i, LastOf(h, i)) = Clitics[MatchAt(h, i).clitic] \o MatchAt(h, i).surface
         /\ Boundary(h, i - 1) /\ Boundary(h, LastOf(h, i) + 1)
<1>1. i \in DOMAIN h /\ MatchAt(h, i) \in MatchesAt(h, i)
  BY MatchAtMatches DEF Starts
<1>2. LastOf(h, i) = i + Len(Clitics[MatchAt(h, i).clitic]) + Len(MatchAt(h, i).surface) - 1
  BY DEF LastOf
<1>3. i \in 1 .. Len(h)
  BY <1>1
<1> QED
  BY <1>1, <1>2, <1>3, MatchType

\* The search from left to right has a result: for the least place at which it
\* had none, the one of the place before could be carried on.
LEMMA FoundMeets ==
  ASSUME NEW h \in Seq(Char)
  PROVE  /\ Found(h) \subseteq Starts(h)
         /\ \A i \in Starts(h) : i \in Found(h) <=> \A f \in Found(h) : f < i => LastOf(h, f) < i
<1> DEFINE Upto(F, n) ==
             /\ F \subseteq {i \in Starts(h) : i <= n}
             /\ \A i \in Starts(h) : i <= n =>
                  (i \in F <=> \A f \in F : f < i => LastOf(h, f) < i)
           Without == {n \in Nat : ~ \E F \in SUBSET Starts(h) : Upto(F, n)}
<1>1. Starts(h) \subseteq 1 .. Len(h) /\ Len(h) \in Nat
  BY DEF Starts
<1>2. Upto({}, 0)
  BY <1>1
<1>3. Without = {}
  <2>1. SUFFICES ASSUME Without # {} PROVE FALSE
    OBVIOUS
  <2>2. PICK n \in Without : \A m \in Without : n <= m
    <3>1. Without \in SUBSET Nat
      OBVIOUS
    <3> HIDE DEF Without
    <3> QED
      BY <2>1, <3>1, LeastNumber
  <2>3. n \in Nat /\ n # 0
    BY <1>2
  <2>4. n - 1 \in Nat /\ n - 1 \notin Without
    <3> HIDE DEF Without
    <3> QED
      BY <2>2, <2>3
  <2>5. PICK F \in SUBSET Starts(h) : Upto(F, n - 1)
    BY <2>4
  <2> DEFINE goes == n \in Starts(h) /\ \A f \in F : f < n => LastOf(h, f) < n
  <2>6. \A f \in F : f \in Nat /\ f <= n - 1 /\ f < n
    BY <1>1, <2>3, <2>5
  <2>7. \A i \in Starts(h) : i \in Nat /\ (i <= n => i = n \/ i <= n - 1)
    BY <1>1, <2>3
  <2>8. CASE goes
    <3> DEFINE G == F \union {n}
    <3>1. G \subseteq {i \in Starts(h) : i <= n} /\ G \in SUBSET Starts(h)
      BY <2>3, <2>5, <2>6, <2>8
    <3>2. \A i \in Starts(h) : i <= n =>
            (i \in G <=> \A f \in G : f < i => LastOf(h, f) < i)
      <4>1. TAKE i \in Starts(h)
      <4>2. HAVE i <= n
      <4>3. CASE i = n
        <5>1. i \in G /\ \A f \in G : f < i => f \in F
          BY <2>3, <4>3
        <5> QED
          BY <2>8, <4>3, <5>1
      <4>4. CASE i <= n - 1
        <5>1. i # n /\ ~ (n < i)
          BY <2>3, <2>7, <4>4
        <5>2. i \in G <=> i \in F
          BY <5>1
        <5>3. (\A f \in G : f < i => LastOf(h, f) < i) <=> (\A f \in F : f < i => LastOf(h, f) < i)
          BY <5>1
        <5>4. i \in F <=> \A f \in F : f < i => LastOf(h, f) < i
          BY <2>5, <4>4
        <5> QED
          BY <5>2, <5>3, <5>4
      <4> QED
        BY <2>7, <4>2, <4>3, <4>4
    <3>3. Upto(G, n)
      BY <3>1, <3>2
    <3> QED
      BY <2>2, <3>1, <3>3
  <2>9. CASE ~goes
    <3>1. F \subseteq {i \in Starts(h) : i <= n}
      BY <2>6
    <3>2. \A i \in Starts(h) : i <= n =>
            (i \in F <=> \A f \in F : f < i => LastOf(h, f) < i)
      <4>1. TAKE i \in Starts(h)
      <4>2. HAVE i <= n
      <4>3. CASE i = n
        <5>1. i \notin F
          BY <2>3, <2>6, <4>3
        <5> QED
          BY <2>9, <4>3, <5>1
      <4>4. CASE i <= n - 1
        BY <2>5, <4>4
      <4> QED
        BY <2>7, <4>2, <4>3, <4>4
    <3>3. Upto(F, n)
      BY <3>1, <3>2
    <3> QED
      BY <2>2, <3>3
  <2> QED
    BY <2>8, <2>9
<1>4. PICK F \in SUBSET Starts(h) : Upto(F, Len(h))
  BY <1>1, <1>3
<1>5. \A i \in Starts(h) : i <= Len(h)
  BY <1>1
<1>6. \A i \in Starts(h) : i \in F <=> \A f \in F : f < i => LastOf(h, f) < i
  BY <1>4, <1>5
<1> QED
  BY <1>6 DEF Found

\* What the search finds at a place, and what the definition of a word without a
\* search says, are the same words.
Word(h, i) == [first |-> i, last |-> LastOf(h, i), surface |-> MatchAt(h, i).surface]

LEMMA FoundAreWords ==
  ASSUME NEW h \in Seq(Char), NEW i \in Starts(h)
  PROVE  Word(h, i) \in Words(h)
<1>1. PICK l : l = LastOf(h, i)
  OBVIOUS
<1>2. PICK m : m = MatchAt(h, i)
  OBVIOUS
<1>3. /\ i \in 1 .. Len(h) /\ l \in i .. Len(h)
      /\ m.surface \in Surfaces /\ m.clitic \in DOMAIN Clitics
      /\ SubSeq(h, i, l) = Clitics[m.clitic] \o m.surface
      /\ Boundary(h, i - 1) /\ Boundary(h, l + 1)
  BY <1>1, <1>2, LastType
<1>4. DOMAIN h = 1 .. Len(h) /\ Len(h) \in Nat
  OBVIOUS
<1>5. i \in DOMAIN h /\ l \in DOMAIN h
  BY <1>3, <1>4
<1>6. i = 1 \/ h[i - 1] \notin Letter
  BY <1>3, <1>4 DEF Boundary
<1>7. l = Len(h) \/ h[l + 1] \notin Letter
  <2>1. l \in Nat /\ l > 0 /\ l <= Len(h)
    BY <1>3, <1>4
  <2>2. l # Len(h) => l + 1 \in DOMAIN h
    <3>1. PICK n \in Nat : n = Len(h)
      BY <1>4
    <3>2. l # n => l + 1 \in 1 .. n
      BY <2>1, <3>1
    <3> QED
      BY <1>4, <3>1, <3>2
  <2> QED
    BY <1>3, <2>2 DEF Boundary
<1>8. [first |-> i, last |-> l, surface |-> m.surface] \in Words(h)
  BY <1>3, <1>5, <1>6, <1>7 DEF Words
<1> QED
  BY <1>1, <1>2, <1>8 DEF Word

LEMMA WordsStart ==
  ASSUME NEW h \in Seq(Char), NEW w \in Words(h)
  PROVE  w.first \in Starts(h) /\ w.first \in Nat
<1>1. PICK i \in DOMAIN h, l \in DOMAIN h, s \in Surfaces, n \in DOMAIN Clitics :
        /\ w.first = i
        /\ i = 1 \/ h[i - 1] \notin Letter
        /\ l = Len(h) \/ h[l + 1] \notin Letter
        /\ SubSeq(h, i, l) = Clitics[n] \o s
  BY DEF Words
<1>2. DOMAIN h = 1 .. Len(h) /\ Len(h) \in Nat /\ i \in 1 .. Len(h) /\ l \in 1 .. Len(h)
  BY <1>1
<1>3. PICK c : c = Clitics[n]
  OBVIOUS
<1>4. c \in Seq(Char) /\ s \in Seq(Char) /\ Len(s) \in Nat \ {0}
  BY <1>3, CliticType, SurfaceType
<1>5. Len(c \o s) = Len(c) + Len(s) /\ Len(c) \in Nat
  BY <1>4, ConcatProperties
<1>6. Len(SubSeq(h, i, l)) = IF i <= l THEN l - i + 1 ELSE 0
  <2>1. \A k \in i .. l : h[k] \in Char
    BY <1>2
  <2>2. i \in Int /\ l \in Int
    BY <1>2
  <2> QED
    BY <2>1, <2>2, SubSeqProperties
<1>7. PICK k \in Nat : k = Len(c \o s) /\ k > 0
  BY <1>4, <1>5
<1>8. k = l - i + 1
  BY <1>1, <1>2, <1>3, <1>6, <1>7
<1>9. i + k - 1 = l
  BY <1>2, <1>8
<1>10. ReadsAt(h, i, c \o s)
  <2>1. i + Len(c \o s) - 1 = l
    BY <1>7, <1>9
  <2>2. l <= Len(h)
    BY <1>2
  <2> QED
    BY <1>1, <1>3, <2>1, <2>2 DEF ReadsAt
<1>11. Boundary(h, i - 1) /\ Boundary(h, l + 1)
  BY <1>1, <1>2 DEF Boundary
<1>12. Bounded(h, i, i + Len(c \o s) - 1)
  BY <1>7, <1>9, <1>11 DEF Bounded
<1>13. [clitic |-> n, surface |-> s] \in MatchesAt(h, i)
  BY <1>3, <1>10, <1>12 DEF MatchesAt
<1>14. i \in Starts(h)
  BY <1>13 DEF Starts
<1> QED
  BY <1>1, <1>2, <1>14

\* The literal hits of a scan are the surfaces of what the search found; the
\* others are of regex terms.
LEMMA HitsOfScan ==
  ASSUME NEW s \in Seq(Char), NEW context
  PROVE  /\ {x.matched : x \in {y \in Scan(s, context) : ~y.term.is_regex}}
              = {MatchAt(Normalize(s), i).surface : i \in Found(Normalize(s))}
         /\ \A x \in Scan(s, context) : IsHit(x)
<1>1. PICK h : h = Normalize(s)
  OBVIOUS
<1>2. h \in Seq(Char) /\ Found(h) \subseteq Starts(h)
  BY <1>1, NormalizeType, FoundMeets
<1>3. \A f \in Matches(h) : \E i \in Found(h) : f.surface = MatchAt(h, i).surface
  BY DEF Matches
<1>4. \A i \in Found(h) : \E f \in Matches(h) : f.surface = MatchAt(h, i).surface
  <2>1. TAKE i \in Found(h)
  <2>2. Word(h, i) \in Matches(h)
    BY DEF Matches, Word
  <2>3. Word(h, i).surface = MatchAt(h, i).surface
    BY DEF Word
  <2> QED
    BY <2>2, <2>3
<1> DEFINE Lit == {Hit(BySurface(f.surface), f.surface, context) : f \in Matches(h)}
           Reg == UNION {{Hit(Terms[n], p, context) : p \in {q \in Patterns(n) : Includes(h, q)}} :
                            n \in DOMAIN Terms}
<1>5. Scan(s, context) = Lit \union Reg
  BY <1>1 DEF Scan
<1>6. \A f \in Matches(h) : f.surface \in Surfaces
  BY <1>2, <1>3, LastType
<1>7. \A x \in Lit : /\ \E f \in Matches(h) : x.matched = f.surface
                     /\ IsHit(x) /\ ~x.term.is_regex
  <2>1. TAKE x \in Lit
  <2>2. PICK f \in Matches(h) : x = Hit(BySurface(f.surface), f.surface, context)
    OBVIOUS
  <2>3. f.surface \in Surfaces
    BY <1>6
  <2>4. PICK n \in DOMAIN Terms : BySurface(f.surface) = Terms[n] /\ ~Terms[n].is_regex
    BY <2>3, SurfaceType
  <2>5. f.surface \in Seq(Char) /\ f.surface # <<>>
    BY <2>3, SurfaceType
  <2>6. x.term = Terms[n] /\ x.matched = f.surface /\ x.in_scope = InScope(Terms[n], context)
    BY <2>2, <2>4 DEF Hit
  <2>7. InScope(Terms[n], context) \in BOOLEAN
    BY DEF InScope
  <2> QED
    BY <2>4, <2>5, <2>6, <2>7 DEF IsHit
<1>8. \A x \in Reg : IsHit(x) /\ x.term.is_regex
  <2>1. TAKE x \in Reg
  <2>2. PICK n \in DOMAIN Terms : \E p \in Patterns(n) : x = Hit(Terms[n], p, context)
    OBVIOUS
  <2>3. PICK p \in Patterns(n) : x = Hit(Terms[n], p, context)
    BY <2>2
  <2>4. Terms[n].is_regex /\ p \in Terms[n].surfaces /\ p # <<>>
    BY <2>3 DEF Patterns
  <2>5. p \in Seq(Char)
    BY <2>4, TermType
  <2>6. x.term = Terms[n] /\ x.matched = p /\ x.in_scope = InScope(Terms[n], context)
    BY <2>3 DEF Hit
  <2>7. InScope(Terms[n], context) \in BOOLEAN
    BY DEF InScope
  <2> QED
    BY <2>4, <2>5, <2>6, <2>7 DEF IsHit
<1>9. \A f \in Matches(h) : \E x \in Lit : x.matched = f.surface
  <2>1. TAKE f \in Matches(h)
  <2>2. Hit(BySurface(f.surface), f.surface, context) \in Lit
    OBVIOUS
  <2>3. Hit(BySurface(f.surface), f.surface, context).matched = f.surface
    BY DEF Hit
  <2> HIDE DEF Lit
  <2> QED
    BY <2>2, <2>3
<1> HIDE DEF Lit, Reg
<1>10. {y \in Scan(s, context) : ~y.term.is_regex} = Lit
  BY <1>5, <1>7, <1>8
<1>11. {x.matched : x \in Lit} = {MatchAt(h, i).surface : i \in Found(h)}
  BY <1>3, <1>4, <1>7, <1>9
<1> QED
  BY <1>1, <1>5, <1>7, <1>8, <1>10, <1>11

\* A hit is a whole word, with nothing but clitics before the term, and no such
\* word is missed: it is hit, or begins in a hit (lexicon.ts, scan): for every
\* lexicon, and however long the comment.
THEOREM HitsAreExactlyWords == Spec => []HitsAreWords
<1>1. IInv => HitsAreWords
  <2> SUFFICES ASSUME IInv, verdict # None PROVE HitsAreWords
    BY DEF HitsAreWords
  <2>1. PICK h : h = Normalize(text)
    OBVIOUS
  <2>2. text \in Seq(Char) /\ verdict = Judged(text, post, groups)
    BY DEF IInv
  <2>3. h \in Seq(Char)
    BY <2>1, <2>2, NormalizeType
  <2>4. verdict.hits = Scan(text, groups)
    <3>1. Judged(text, post, groups).hits = Scan(text, groups)
      BY DEF Judged
    <3> QED
      BY <2>2, <3>1
  <2>5. PICK matched : matched = {x.matched : x \in {y \in verdict.hits : ~y.term.is_regex}}
    OBVIOUS
  <2>6. matched = {MatchAt(h, i).surface : i \in Found(h)}
    <3>1. matched = {x.matched : x \in {y \in Scan(text, groups) : ~y.term.is_regex}}
      BY <2>4, <2>5
    <3>2. {x.matched : x \in {y \in Scan(text, groups) : ~y.term.is_regex}}
            = {MatchAt(Normalize(text), i).surface : i \in Found(Normalize(text))}
      BY <2>2, HitsOfScan
    <3> QED
      BY <2>1, <3>1, <3>2
  <2>7. PICK hit : hit = {w \in Words(h) : w.surface \in matched}
    OBVIOUS
  <2>8. \A i \in Found(h) : i \in Starts(h) /\ Word(h, i) \in hit
    <3>1. TAKE i \in Found(h)
    <3>2. i \in Starts(h)
      BY <2>3, FoundMeets
    <3>3. Word(h, i) \in Words(h)
      BY <2>3, <3>2, FoundAreWords
    <3>4. Word(h, i).surface \in matched
      BY <2>6 DEF Word
    <3> QED
      BY <2>7, <3>2, <3>3, <3>4
  <2>9. matched = {w.surface : w \in hit}
    <3>1. \A w \in hit : w.surface \in matched
      BY <2>7
    <3>2. \A s \in matched : \E w \in hit : w.surface = s
      <4>1. TAKE s \in matched
      <4>2. PICK i \in Found(h) : s = MatchAt(h, i).surface
        BY <2>6
      <4>3. Word(h, i) \in hit /\ Word(h, i).surface = s
        BY <2>8, <4>2 DEF Word
      <4> QED
        BY <4>3
    <3> QED
      BY <3>1, <3>2
  <2>10. \A w \in Words(h) : \E v \in hit : v.first <= w.first /\ w.first <= v.last
    <3>1. TAKE w \in Words(h)
    <3>2. PICK i : i = w.first
      OBVIOUS
    <3>3. i \in Starts(h) /\ i \in Nat
      BY <2>3, <3>2, WordsStart
    <3>4. PICK f \in Found(h) : f <= i /\ i <= LastOf(h, f)
      <4>1. CASE i \in Found(h)
        <5>1. LastOf(h, i) \in i .. Len(h)
          BY <2>3, <3>3, LastType
        <5> QED
          BY <3>3, <4>1, <5>1
      <4>2. CASE i \notin Found(h)
        <5>1. PICK f \in Found(h) : f < i /\ ~ (LastOf(h, f) < i)
          BY <2>3, <3>3, <4>2, FoundMeets
        <5>2. f \in 1 .. Len(h) /\ LastOf(h, f) \in f .. Len(h)
          BY <2>3, <2>8, LastType
        <5>3. Len(h) \in Nat
          BY <2>3
        <5>4. f <= i /\ i <= LastOf(h, f)
          BY <3>3, <5>1, <5>2, <5>3
        <5> QED
          BY <5>4
      <4> QED
        BY <4>1, <4>2
    <3>5. /\ Word(h, f) \in hit
          /\ Word(h, f).first = f /\ Word(h, f).last = LastOf(h, f)
      BY <2>8 DEF Word
    <3> QED
      BY <3>2, <3>4, <3>5
  <2> QED
    BY <2>1, <2>5, <2>7, <2>9, <2>10 DEF HitsAreWords
<1> QED
  BY <1>1, Inductive, PTL

\* Types; a trope never both fires and is held back for a reviewer (tropes.ts,
\* evaluate), and each hit names a term that was pulled and a part of the text.
THEOREM TypeCorrect == Spec => []TypeOK
<1>1. IInv => TypeOK
  <2> SUFFICES ASSUME IInv PROVE TypeOK
    OBVIOUS
  <2>1. ASSUME verdict # None
        PROVE  /\ verdict.result \in {"hate", "ambiguous", "benign"}
               /\ \A x \in verdict.hits : IsHit(x)
               /\ verdict.fired \union verdict.candidates \subseteq DOMAIN Tropes
               /\ verdict.fired \intersect verdict.candidates = {}
    <3>1. text \in Seq(Char) /\ verdict = Judged(text, post, groups)
      BY <2>1 DEF IInv
    <3>2. /\ verdict.hits = Scan(text, groups)
          /\ verdict.fired = Evaluate(text, post, groups).fired
          /\ verdict.candidates = Evaluate(text, post, groups).candidates
          /\ verdict.result \in {"hate", "ambiguous", "benign"}
      <4>1. /\ Judged(text, post, groups).hits = Scan(text, groups)
            /\ Judged(text, post, groups).fired = Evaluate(text, post, groups).fired
            /\ Judged(text, post, groups).candidates = Evaluate(text, post, groups).candidates
            /\ Judged(text, post, groups).result \in {"hate", "ambiguous", "benign"}
        BY DEF Judged
      <4> QED
        BY <3>1, <4>1
    <3>3. \A x \in verdict.hits : IsHit(x)
      BY <3>1, <3>2, HitsOfScan
    <3>4. /\ verdict.fired \union verdict.candidates \subseteq DOMAIN Tropes
          /\ verdict.fired \intersect verdict.candidates = {}
      BY <3>2 DEF Evaluate
    <3> QED
      BY <3>2, <3>3, <3>4
  <2> QED
    BY <2>1 DEF IInv, TypeOK
<1> QED
  BY <1>1, Inductive, PTL
=============================================================================
