---------------------------- MODULE PositionFacts ----------------------------
(* Lemmas about the positions and elements of sequences, and about folds   *)
(* over them, that the proofs share.                                       *)
EXTENDS Naturals, SequencesExt, SequenceTheorems, WellFoundedInduction, TLAPS

(* A nonempty set of positions has a first and a last one.                 *)
LEMMA FirstPosition ==
  ASSUME NEW S \in SUBSET Nat, S # {}
  PROVE  Min(S) \in S /\ \A i \in S : Min(S) <= i
<1> DEFINE R == {ss \in Nat \X Nat : ss[1] < ss[2]}
<1>1. IsWellFoundedOn(R, Nat)
  BY NatLessThanWellFounded DEF OpToRel
<1> HIDE DEF R
<1>2. \E x \in S : \A y \in S : ~ (<<y, x>> \in R)
  BY <1>1, WFMin
<1>3. \A x, y \in Nat : y < x => <<y, x>> \in R
  <2> SUFFICES ASSUME NEW x \in Nat, NEW y \in Nat, y < x
               PROVE  <<y, x>> \in R
    OBVIOUS
  <2>1. <<y, x>> \in Nat \X Nat /\ <<y, x>>[1] < <<y, x>>[2]
    OBVIOUS
  <2>2. QED
    BY <2>1 DEF R
<1>4. \E x \in S : \A y \in S : x <= y
  <2>1. PICK x \in S : \A y \in S : ~ (<<y, x>> \in R)
    BY <1>2
  <2>2. \A y \in S : ~ (y < x)
    BY <2>1, <1>3
  <2>3. QED
    BY <2>2
<1>5. QED
  BY <1>4 DEF Min

(* Max of the community modules picks the largest of some positions.       *)
LEMMA LastPosition ==
  ASSUME NEW n \in Nat, NEW S \in SUBSET (1 .. n), S # {}
  PROVE  Max(S) \in S /\ \A i \in S : i <= Max(S)
<1> DEFINE T == {n - i : i \in S}
<1>1. T \in SUBSET Nat /\ T # {}
  <2>1. \A i \in S : n - i \in Nat
    OBVIOUS
  <2>2. QED
    BY <2>1
<1>2. Min(T) \in T /\ \A k \in T : Min(T) <= k
  <2> HIDE DEF T
  <2> QED BY <1>1, FirstPosition
<1>3. PICK x \in S : Min(T) = n - x
  BY <1>2
<1>4. \A y \in S : x >= y
  <2> SUFFICES ASSUME NEW y \in S PROVE x >= y
    OBVIOUS
  <2>1. n - y \in T
    OBVIOUS
  <2>2. n - x <= n - y
    BY <1>2, <1>3, <2>1
  <2>3. QED
    BY <2>2
<1>5. QED
  BY <1>4 DEF Max

(* The elements of a list.                                                 *)
LEMMA Elements ==
  \A S : \A s \in Seq(S) :
    /\ Range(s) \subseteq S
    /\ \A x \in S : Range(Append(s, x)) = Range(s) \cup {x}
    /\ s # <<>> => Range(s) = {Head(s)} \cup Range(Tail(s))
<1> SUFFICES ASSUME NEW S, NEW s \in Seq(S)
             PROVE  /\ Range(s) \subseteq S
                    /\ \A x \in S : Range(Append(s, x)) = Range(s) \cup {x}
                    /\ s # <<>> => Range(s) = {Head(s)} \cup Range(Tail(s))
  OBVIOUS
<1>1. Range(s) \subseteq S
  BY RangeOfSeq
<1>2. ASSUME NEW x \in S PROVE Range(Append(s, x)) = Range(s) \cup {x}
  BY AppendProperties DEF Range
<1>3. ASSUME s # <<>> PROVE Range(s) = {Head(s)} \cup Range(Tail(s))
  <2>1. Range(s) \subseteq {Head(s)} \cup Range(Tail(s))
    <3> SUFFICES ASSUME NEW i \in 1 .. Len(s), i # 1 PROVE s[i] \in Range(Tail(s))
      BY <1>3, HeadTailProperties, LenProperties DEF Range
    <3>1. i - 1 \in 1 .. Len(Tail(s)) /\ s[i] = Tail(s)[i - 1]
      BY <1>3, HeadTailProperties, LenProperties
    <3>2. QED
      BY <1>3, <3>1, HeadTailProperties, LenProperties DEF Range
  <2>2. Head(s) \in Range(s)
    BY <1>3, HeadTailProperties, LenProperties DEF Range
  <2>3. Range(Tail(s)) \subseteq Range(s)
    <3> SUFFICES ASSUME NEW i \in 1 .. Len(Tail(s)) PROVE Tail(s)[i] \in Range(s)
      BY <1>3, HeadTailProperties, LenProperties DEF Range
    <3>1. i + 1 \in 1 .. Len(s) /\ Tail(s)[i] = s[i + 1]
      BY <1>3, HeadTailProperties, LenProperties
    <3>2. QED
      BY <3>1, LenProperties DEF Range
  <2>4. QED
    BY <2>1, <2>2, <2>3
<1>4. QED
  BY <1>1, <1>2, <1>3

(* Erasing an entry leaves the others in their order.                      *)
LEMMA Erased ==
  ASSUME NEW S, NEW s \in Seq(S), NEW k \in 1 .. Len(s)
  PROVE  /\ RemoveAt(s, k) \in Seq(S)
         /\ Len(RemoveAt(s, k)) = Len(s) - 1
         /\ \A i \in 1 .. Len(s) - 1 : RemoveAt(s, k)[i] = s[IF i < k THEN i ELSE i + 1]
<1> DEFINE front == SubSeq(s, 1, k - 1)
           rest == SubSeq(s, k + 1, Len(s))
<1>1. Len(s) \in Nat /\ k \in Nat /\ k >= 1 /\ k <= Len(s)
  BY LenProperties
<1>2. \A i \in 1 .. Len(s) : s[i] \in S
  BY ElementOfSeq
<1>3. /\ front \in Seq(S) /\ Len(front) = k - 1
      /\ \A i \in 1 .. k - 1 : front[i] = s[i]
  BY <1>1, <1>2, SubSeqProperties
<1>4. /\ rest \in Seq(S) /\ Len(rest) = Len(s) - k
      /\ \A i \in 1 .. Len(s) - k : rest[i] = s[k + i]
  BY <1>1, <1>2, SubSeqProperties
<1>5. RemoveAt(s, k) = front \o rest
  BY DEF RemoveAt
<1> HIDE DEF front, rest
<1>6. /\ front \o rest \in Seq(S) /\ Len(front \o rest) = Len(s) - 1
      /\ \A i \in 1 .. Len(s) - 1 :
           (front \o rest)[i] = IF i <= k - 1 THEN front[i] ELSE rest[i - (k - 1)]
  <2>1. /\ front \o rest \in Seq(S) /\ Len(front \o rest) = Len(front) + Len(rest)
        /\ \A i \in 1 .. Len(front) + Len(rest) :
             (front \o rest)[i] = IF i <= Len(front) THEN front[i] ELSE rest[i - Len(front)]
    BY <1>3, <1>4, ConcatProperties
  <2>2. Len(front) + Len(rest) = Len(s) - 1 /\ Len(front) = k - 1
    BY <1>1, <1>3, <1>4
  <2>3. QED
    BY <2>1, <2>2
<1>7. ASSUME NEW i \in 1 .. Len(s) - 1
      PROVE  (front \o rest)[i] = s[IF i < k THEN i ELSE i + 1]
  <2>1. CASE i < k
    BY <1>1, <1>3, <1>6, <2>1
  <2>2. CASE ~(i < k)
    <3>1. (front \o rest)[i] = rest[i - (k - 1)]
      BY <1>1, <1>6, <2>2
    <3>2. i - (k - 1) \in 1 .. Len(s) - k /\ k + (i - (k - 1)) = i + 1
      BY <1>1, <2>2
    <3>3. QED
      BY <1>4, <2>2, <3>1, <3>2
  <2>3. QED
    BY <2>1, <2>2
<1>8. QED
  BY <1>5, <1>6, <1>7

(* ... and takes it out of a sequence without repetitions.                 *)
LEMMA ErasedOnce ==
  ASSUME NEW S, NEW s \in Seq(S), NEW k \in 1 .. Len(s), IsInjective(s)
  PROVE  /\ IsInjective(RemoveAt(s, k))
         /\ Range(RemoveAt(s, k)) = Range(s) \ {s[k]}
<1> DEFINE r == RemoveAt(s, k)
           from(i) == IF i < k THEN i ELSE i + 1
<1>1. /\ Len(s) \in Nat /\ k \in Nat \ {0} /\ k <= Len(s) /\ DOMAIN s = 1 .. Len(s)
  BY LenProperties
<1>2. /\ Len(r) = Len(s) - 1 /\ DOMAIN r = 1 .. Len(r)
      /\ \A i \in 1 .. Len(r) : r[i] = s[from(i)]
  <2>1. /\ r \in Seq(S) /\ Len(r) = Len(s) - 1
        /\ \A i \in 1 .. Len(s) - 1 : r[i] = s[from(i)]
    BY Erased
  <2> HIDE DEF r
  <2>2. QED
    BY <2>1, LenProperties
<1>3. /\ \A i \in 1 .. Len(r) : from(i) \in 1 .. Len(s) /\ from(i) # k
      /\ \A i, j \in 1 .. Len(r) : from(i) = from(j) => i = j
  BY <1>1, <1>2
<1>4. ASSUME NEW i \in 1 .. Len(s), i # k
      PROVE  \E j \in 1 .. Len(r) : i = from(j)
  <2>1. CASE i < k
    BY <1>1, <1>2, <2>1
  <2>2. CASE i > k
    <3>1. i - 1 \in 1 .. Len(r) /\ i = from(i - 1)
      BY <1>1, <1>2, <2>2
    <3>2. QED
      BY <3>1
  <2>3. QED
    BY <1>1, <1>4, <2>1, <2>2
<1> HIDE DEF r, from
<1>5. \A i, j \in 1 .. Len(s) : s[i] = s[j] => i = j
  BY <1>1 DEF IsInjective
<1>6. IsInjective(r)
  BY <1>2, <1>3, <1>5 DEF IsInjective
<1>7. Range(r) = Range(s) \ {s[k]}
  <2>1. ASSUME NEW i \in 1 .. Len(r)
        PROVE  r[i] \in Range(s) /\ r[i] # s[k]
    BY <1>1, <1>2, <1>3, <1>5 DEF Range
  <2>2. ASSUME NEW i \in 1 .. Len(s), s[i] # s[k]
        PROVE  s[i] \in Range(r)
    <3>1. PICK j \in 1 .. Len(r) : i = from(j)
      BY <1>4, <2>2
    <3>2. QED
      BY <1>2, <3>1 DEF Range
  <2>3. QED
    BY <1>1, <1>2, <2>1, <2>2 DEF Range
<1>8. QED
  BY <1>6, <1>7 DEF r

(* A sequence without repetitions, and its ends.                           *)
LEMMA OnceAtTheEnds ==
  ASSUME NEW S, NEW s \in Seq(S), IsInjective(s)
  PROVE  /\ \A x \in S : x \notin Range(s) => IsInjective(Append(s, x))
         /\ s # <<>> => IsInjective(Tail(s)) /\ Head(s) \notin Range(Tail(s))
<1>1. Len(s) \in Nat /\ DOMAIN s = 1 .. Len(s)
  BY LenProperties
<1>2. \A i, j \in 1 .. Len(s) : s[i] = s[j] => i = j
  BY <1>1 DEF IsInjective
<1>3. ASSUME NEW x \in S, x \notin Range(s)
      PROVE  IsInjective(Append(s, x))
  <2>1. /\ Append(s, x) \in Seq(S) /\ Len(Append(s, x)) = Len(s) + 1
        /\ \A i \in 1 .. Len(s) : Append(s, x)[i] = s[i]
        /\ Append(s, x)[Len(s) + 1] = x
    BY AppendProperties
  <2>2. DOMAIN Append(s, x) = 1 .. Len(s) + 1
    BY <2>1, LenProperties
  <2>3. \A i \in 1 .. Len(s) : s[i] # x
    BY <1>1, <1>3 DEF Range
  <2>4. \A i \in 1 .. Len(s) + 1 : i \in 1 .. Len(s) \/ i = Len(s) + 1
    BY <1>1
  <2>5. QED
    BY <1>2, <2>1, <2>2, <2>3, <2>4 DEF IsInjective
<1>4. ASSUME s # <<>>
      PROVE  IsInjective(Tail(s)) /\ Head(s) \notin Range(Tail(s))
  <2>1. /\ Tail(s) \in Seq(S) /\ Len(Tail(s)) = Len(s) - 1 /\ Head(s) = s[1]
        /\ \A i \in 1 .. Len(Tail(s)) : Tail(s)[i] = s[i + 1]
    BY <1>4, HeadTailProperties
  <2>2. DOMAIN Tail(s) = 1 .. Len(s) - 1 /\ Len(s) >= 1
    BY <1>1, <1>4, <2>1, LenProperties, EmptySeq
  <2>3. \A i \in 1 .. Len(s) - 1 : i + 1 \in 1 .. Len(s) /\ i + 1 # 1
    BY <1>1
  <2>4. QED
    BY <1>1, <1>2, <2>1, <2>2, <2>3 DEF IsInjective, Range
<1>5. QED
  BY <1>3, <1>4

-----------------------------------------------------------------------------
(* FOLDS.  Induction over the first n numbers, for a set.                  *)
LEMMA Induct ==
  ASSUME NEW n \in Nat, NEW T, 0 \in T, \A k \in 1 .. n : k - 1 \in T => k \in T
  PROVE  \A k \in 0 .. n : k \in T
<1> DEFINE S == {k \in 0 .. n : k \notin T}
<1>1. S \in SUBSET Nat
  OBVIOUS
<1>2. ASSUME S # {}
      PROVE  FALSE
  <2>1. Min(S) \in S /\ \A i \in S : Min(S) <= i
    <3> HIDE DEF S
    <3>1. QED
      BY <1>1, <1>2, FirstPosition
  <2>2. Min(S) \in 1 .. n /\ Min(S) \notin T
    BY <2>1
  <2>3. Min(S) - 1 \notin S
    <3> HIDE DEF S
    <3>1. QED
      BY <2>1, <2>2
  <2>4. QED
    BY <2>2, <2>3
<1>3. QED
  BY <1>2

(* The last position of a prefix of the positions, and what is before it.  *)
LEMMA LastOfPrefix ==
  ASSUME NEW k \in Nat \ {0}
  PROVE  Max(1 .. k) = k /\ (1 .. k) \ {k} = 1 .. k - 1 /\ 1 .. k # {}
<1>1. (1 .. k) \ {k} = 1 .. k - 1 /\ 1 .. k # {} /\ k \in 1 .. k
  OBVIOUS
<1>2. Max(1 .. k) \in 1 .. k /\ \A i \in 1 .. k : i <= Max(1 .. k)
  BY <1>1, LastPosition
<1>3. k <= Max(1 .. k)
  BY <1>1, <1>2
<1>4. Max(1 .. k) = k
  BY <1>2, <1>3
<1>5. QED
  BY <1>1, <1>4

(* Folding the positions 1 .. n from the left with the step H, a function  *)
(* of what is folded so far and the next position: what the recursive      *)
(* equation of MapThenFoldSet says of its solution, ...                    *)
Folding(F, A, base, n, H) ==
  /\ F[{}] = base
  /\ \A s \in SUBSET (1 .. n) :
       s # {} /\ F[s \ {Max(s)}] \in A => F[s] = H[<<F[s \ {Max(s)}], Max(s)>>]

(* ... and the walk from base to the result, one position at a time.       *)
Walk(g, result, base, n, H) ==
  /\ g[0] = base /\ g[n] = result
  /\ \A k \in 1 .. n : g[k] = H[<<g[k - 1], k>>]

(* With a step that stays in A the equation has a solution ...             *)
LEMMA FoldExists ==
  ASSUME NEW A, NEW base \in A, NEW n \in Nat, NEW H \in [A \X (1 .. n) -> A]
  PROVE  \E G \in [SUBSET (1 .. n) -> A] : Folding(G, A, base, n, H)
<1> DEFINE Solves(G, k) ==
             /\ G \in [SUBSET (1 .. k) -> A]
             /\ G[{}] = base
             /\ \A s \in SUBSET (1 .. k) : s # {} => G[s] = H[<<G[s \ {Max(s)}], Max(s)>>]
           T == {k \in 0 .. n : \E G : Solves(G, k)}
<1>1. 0 \in T
  <2> DEFINE G == [s \in SUBSET (1 .. 0) |-> base]
  <2>1. G \in [SUBSET (1 .. 0) -> A] /\ G[{}] = base
    OBVIOUS
  <2>2. \A s \in SUBSET (1 .. 0) : s = {}
    OBVIOUS
  <2>3. Solves(G, 0)
    BY <2>1, <2>2
  <2>4. \E g : Solves(g, 0)
    BY <2>3
  <2> HIDE DEF Solves
  <2>5. QED
    BY <2>4
<1>2. ASSUME NEW k \in 1 .. n, k - 1 \in T
      PROVE  k \in T
  <2>0. k \in Nat /\ k \in 0 .. n
    OBVIOUS
  <2>1. PICK G : Solves(G, k - 1)
    BY <1>2
  <2> DEFINE F == [s \in SUBSET (1 .. k) |-> IF k \in s THEN H[<<G[s \ {k}], k>>] ELSE G[s]]
  <2>2. \A s \in SUBSET (1 .. k) :
          /\ s \ {k} \in SUBSET (1 .. k - 1)
          /\ k \notin s => s \in SUBSET (1 .. k - 1)
    OBVIOUS
  <2>3. \A s \in SUBSET (1 .. k - 1) : G[s] \in A
    BY <2>1
  <2>4. \A s \in SUBSET (1 .. k) : F[s] \in A
    BY <2>2, <2>3
  <2>5. F \in [SUBSET (1 .. k) -> A]
    BY <2>4
  <2>6. F[{}] = base
    BY <2>1
  <2>7. ASSUME NEW s \in SUBSET (1 .. k), s # {}
        PROVE  F[s] = H[<<F[s \ {Max(s)}], Max(s)>>]
    <3>1. Max(s) \in s /\ \A i \in s : i <= Max(s)
      BY <2>0, <2>7, LastPosition
    <3>2. CASE k \in s
      <4>1. Max(s) = k
        <5>1. Max(s) \in 1 .. k
          BY <2>7, <3>1
        <5>2. k <= Max(s)
          BY <3>1, <3>2
        <5>3. QED
          BY <2>0, <5>1, <5>2
      <4>2. F[s \ {k}] = G[s \ {k}]
        OBVIOUS
      <4>3. QED
        BY <3>2, <4>1, <4>2
    <3>3. CASE k \notin s
      <4>1. s \in SUBSET (1 .. k - 1) /\ s \ {Max(s)} \in SUBSET (1 .. k)
        BY <2>2, <3>3
      <4>2. F[s] = G[s] /\ F[s \ {Max(s)}] = G[s \ {Max(s)}]
        BY <3>3, <4>1
      <4>3. G[s] = H[<<G[s \ {Max(s)}], Max(s)>>]
        BY <2>1, <2>7, <4>1
      <4>4. QED
        BY <4>2, <4>3
    <3>4. QED
      BY <3>2, <3>3
  <2> HIDE DEF F
  <2>8. \E g : Solves(g, k)
    BY <2>5, <2>6, <2>7
  <2> HIDE DEF Solves
  <2>9. QED
    BY <2>0, <2>8
<1> HIDE DEF Solves
<1>3. n \in T
  <2> HIDE DEF T
  <2>1. \A k \in 0 .. n : k \in T
    BY <1>1, <1>2, Induct
  <2>2. QED
    BY <2>1
<1>4. QED
  <2>1. PICK G : Solves(G, n)
    BY <1>3
  <2>2. Folding(G, A, base, n, H) /\ G \in [SUBSET (1 .. n) -> A]
    BY <2>1 DEF Solves, Folding
  <2>3. QED
    BY <2>2

(* ... and any solution of it walks through the positions one by one.      *)
LEMMA FoldSteps ==
  ASSUME NEW A, NEW base \in A, NEW n \in Nat, NEW H \in [A \X (1 .. n) -> A],
         NEW F, Folding(F, A, base, n, H)
  PROVE  \E g \in [0 .. n -> A] : Walk(g, F[1 .. n], base, n, H)
<1> DEFINE T == {k \in 0 .. n : F[1 .. k] \in A}
<1>1. 1 .. 0 = {}
  OBVIOUS
<1>2. 0 \in T
  BY <1>1 DEF Folding
<1>3. ASSUME NEW k \in 1 .. n, F[1 .. k - 1] \in A
      PROVE  F[1 .. k] = H[<<F[1 .. k - 1], k>>] /\ F[1 .. k] \in A
  <2>1. 1 .. k \in SUBSET (1 .. n)
    OBVIOUS
  <2>2. Max(1 .. k) = k /\ (1 .. k) \ {k} = 1 .. k - 1 /\ 1 .. k # {}
    <3>1. k \in Nat \ {0}
      OBVIOUS
    <3>2. QED
      BY <3>1, LastOfPrefix
  <2>3. F[1 .. k] = H[<<F[1 .. k - 1], k>>]
    BY <1>3, <2>1, <2>2 DEF Folding
  <2>4. QED
    BY <1>3, <2>3
<1>4. ASSUME NEW k \in 1 .. n, k - 1 \in T
      PROVE  k \in T
  <2>1. F[1 .. k - 1] \in A /\ k \in 0 .. n
    BY <1>4
  <2>2. QED
    BY <1>3, <2>1
<1>5. \A k \in 0 .. n : k \in T
  <2> HIDE DEF T
  <2>1. QED
    BY <1>2, <1>4, Induct
<1>6. QED
  <2> DEFINE g == [k \in 0 .. n |-> F[1 .. k]]
  <2>1. \A k \in 0 .. n : g[k] = F[1 .. k] /\ F[1 .. k] \in A
    BY <1>5
  <2>2. g \in [0 .. n -> A]
    BY <2>1
  <2> HIDE DEF g
  <2>3. g[0] = base /\ g[n] = F[1 .. n]
    BY <1>1, <2>1 DEF Folding
  <2>4. ASSUME NEW k \in 1 .. n
        PROVE  g[k] = H[<<g[k - 1], k>>]
    <3>1. k \in 0 .. n /\ k - 1 \in 0 .. n
      OBVIOUS
    <3>2. g[k] = F[1 .. k] /\ g[k - 1] = F[1 .. k - 1] /\ F[1 .. k - 1] \in A
      BY <2>1, <3>1
    <3>3. F[1 .. k] = H[<<F[1 .. k - 1], k>>]
      BY <1>3, <3>2
    <3>4. QED
      BY <3>2, <3>3
  <2>5. Walk(g, F[1 .. n], base, n, H)
    BY <2>3, <2>4 DEF Walk
  <2>6. QED
    BY <2>2, <2>5

(* The last of some positions is one of them.                              *)
LEMMA LastOfSome ==
  ASSUME NEW n \in Nat
  PROVE  \A s \in SUBSET (1 .. n) :
           s # {} => Max(s) \in 1 .. n /\ s \ {Max(s)} \in SUBSET (1 .. n)
BY LastPosition
=============================================================================
