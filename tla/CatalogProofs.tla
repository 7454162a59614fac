----------------------------- MODULE CatalogProofs -----------------------------
(***************************************************************************)
(* Proofs about Catalog, for any links, any answers and any offers.        *)
(***************************************************************************)
EXTENDS Catalog, TLAPS, WellFoundedInduction, SequenceTheorems

-----------------------------------------------------------------------------
(* Induction, and what the folds compute from their first elements on. *)

\* A set of naturals that is not empty has a least element.
LEMMA LeastElement ==
  ASSUME NEW T \in SUBSET Nat, T # {}
  PROVE  \E n \in T : \A m \in T : n <= m
<1>1. PICK n \in T : \A m \in T : ~(<<m, n>> \in OpToRel(<, Nat))
  BY WFMin, NatLessThanWellFounded
<1>2. ASSUME NEW m \in T, m < n PROVE FALSE
  BY <1>1, <1>2 DEF OpToRel
<1> QED
  BY <1>2

\* Induction up to n.
LEMMA PrefixInduction ==
  ASSUME NEW n \in Nat, NEW T \in SUBSET (0..n),
         0 \in T, \A k \in 0..(n - 1) : k \in T => k + 1 \in T
  PROVE  T = 0..n
<1> SUFFICES ASSUME (0..n) \ T # {} PROVE FALSE
  OBVIOUS
<1>1. PICK k \in (0..n) \ T : \A m \in (0..n) \ T : k <= m
  <2>1. (0..n) \ T \in SUBSET Nat
    OBVIOUS
  <2> QED
    BY <2>1, LeastElement
<1>2. k # 0 /\ k - 1 \in 0..(n - 1)
  OBVIOUS
<1>3. k - 1 \in T
  BY <1>1, <1>2
<1> QED
  BY <1>2, <1>3

\* A prefix of the indices, and the one before it.
LEMMA PrefixSets ==
  ASSUME NEW n \in Nat, NEW k \in 0..(n - 1)
  PROVE  1..(k + 1) \in SUBSET (1..n) /\ 1..(k + 1) # {} /\ (1..(k + 1)) \ {k + 1} = 1..k
<1>1. 1..(k + 1) \in SUBSET (1..n)
  OBVIOUS
<1>2. 1 \in 1..(k + 1)
  OBVIOUS
<1>3. \A i : i \in (1..(k + 1)) \ {k + 1} <=> i \in 1..k
  OBVIOUS
<1> QED
  BY <1>1, <1>2, <1>3

\* The last index of a prefix is the one the fold takes first.
LEMMA MaxOfPrefix ==
  ASSUME NEW k \in Nat, NEW s \in SUBSET (1..(k + 1)), k + 1 \in s
  PROVE  Max(s) = k + 1 /\ s \ {k + 1} \in SUBSET (1..k)
<1>1. ASSUME NEW x \in s PROVE (\A y \in s : x >= y) => x = k + 1
  OBVIOUS
<1>2. \A y \in s : k + 1 >= y
  OBVIOUS
<1>3. Max(s) \in s /\ \A y \in s : Max(s) >= y
  BY <1>2, Zenon DEF Max
<1>4. s \ {k + 1} \in SUBSET (1..k)
  OBVIOUS
<1> QED
  BY <1>1, <1>3, <1>4

LEMMA MaxIsElement ==
  ASSUME NEW n \in Nat, NEW s \in SUBSET (1..n), s # {}
  PROVE  Max(s) \in s
<1> DEFINE T == {k \in Nat : \E x \in s : x = n - k}
<1>1. T \in SUBSET Nat /\ T # {}
  <2>1. PICK x \in s : TRUE
    OBVIOUS
  <2>2. n - x \in T
    OBVIOUS
  <2> QED
    BY <2>2
<1>2. PICK k \in T : \A m \in T : k <= m
  <2> HIDE DEF T
  <2> QED
    BY <1>1, LeastElement
<1>3. n - k \in s
  BY <1>2
<1>4. ASSUME NEW y \in s PROVE n - k >= y
  <2>1. n - y \in T
    OBVIOUS
  <2>2. k <= n - y
    BY <1>2, <2>1
  <2> QED
    BY <1>2, <2>2
<1>5. \E x \in s : \A y \in s : x >= y
  BY <1>3, <1>4
<1> QED
  BY <1>5, Zenon DEF Max

\* The recursion over the subsets of 1..n that MapThenFoldSet makes of a left fold.
LeftFold(f, A, op, base, n, seq) ==
  /\ f \in [SUBSET (1..n) -> A]
  /\ \A s \in SUBSET (1..n) :
       f[s] = IF s = {} THEN base ELSE op[<<f[s \ {Max(s)}], seq[Max(s)]>>]

\* The recursion has a solution: from one for k elements follows one for k + 1.
LEMMA FoldExists ==
  ASSUME NEW A, NEW B, NEW op \in [A \X B -> A], NEW base \in A,
         NEW n \in Nat, NEW seq \in [1..n -> B]
  PROVE  \E f : LeftFold(f, A, op, base, n, seq)
<1> DEFINE Solves(f, k) == LeftFold(f, A, op, base, k, seq)
           T == {k \in 0..n : \E f : Solves(f, k)}
<1> USE DEF LeftFold
<1>1. 0 \in T
  <2>1. Solves([s \in SUBSET (1..0) |-> base], 0)
    OBVIOUS
  <2> HIDE DEF Solves
  <2> QED
    BY <2>1
<1>2. ASSUME NEW k \in 0..(n - 1), k \in T PROVE k + 1 \in T
  <2>1. PICK f : Solves(f, k)
    BY <1>2
  <2> DEFINE g == [s \in SUBSET (1..(k + 1)) |->
                     IF k + 1 \in s THEN op[<<f[s \ {k + 1}], seq[k + 1]>>] ELSE f[s]]
  <2>2. k + 1 \in 1..n /\ seq[k + 1] \in B
    OBVIOUS
  <2>3. ASSUME NEW s \in SUBSET (1..(k + 1)), k + 1 \notin s
        PROVE  s \in SUBSET (1..k) /\ g[s] = f[s]
    BY <2>3
  <2>4. ASSUME NEW s \in SUBSET (1..(k + 1)), k + 1 \in s
        PROVE  /\ Max(s) = k + 1 /\ s \ {k + 1} \in SUBSET (1..k)
               /\ g[s] = op[<<f[s \ {k + 1}], seq[k + 1]>>]
               /\ g[s \ {k + 1}] = f[s \ {k + 1}]
    <3>1. Max(s) = k + 1 /\ s \ {k + 1} \in SUBSET (1..k)
      BY <2>4, MaxOfPrefix
    <3> QED
      BY <2>3, <2>4, <3>1
  <2>5. ASSUME NEW s \in SUBSET (1..(k + 1)) PROVE g[s] \in A
    <3>1. CASE k + 1 \in s
      <4>1. f[s \ {k + 1}] \in A
        BY <2>1, <2>4, <3>1
      <4> QED
        BY <2>2, <2>4, <3>1, <4>1
    <3>2. CASE k + 1 \notin s
      BY <2>1, <2>3, <3>2
    <3> QED
      BY <3>1, <3>2
  <2>6. ASSUME NEW s \in SUBSET (1..(k + 1))
        PROVE  g[s] = IF s = {} THEN base ELSE op[<<g[s \ {Max(s)}], seq[Max(s)]>>]
    <3>1. CASE k + 1 \in s
      BY <2>4, <3>1
    <3>2. CASE k + 1 \notin s
      <4>1. s \ {Max(s)} \in SUBSET (1..(k + 1)) /\ k + 1 \notin s \ {Max(s)}
        BY <3>2
      <4>2. g[s] = f[s] /\ g[s \ {Max(s)}] = f[s \ {Max(s)}] /\ s \in SUBSET (1..k)
        BY <2>3, <3>2, <4>1
      <4> HIDE DEF g
      <4> QED
        BY <2>1, <4>2
    <3> QED
      BY <3>1, <3>2
  <2>7. Solves(g, k + 1)
    BY <2>5, <2>6
  <2> HIDE DEF Solves, g
  <2> QED
    BY <2>7
<1>3. n \in T
  <2> HIDE DEF T
  <2>1. T \in SUBSET (0..n)
    BY DEF T
  <2> QED
    BY <1>1, <1>2, <2>1, PrefixInduction
<1> QED
  BY <1>3

LEMMA FoldStep ==
  ASSUME NEW A, NEW B, NEW op, NEW base, NEW n \in Nat, NEW seq \in [1..n -> B], NEW f,
         LeftFold(f, A, op, base, n, seq), NEW s \in SUBSET (1..n), s # {}
  PROVE  /\ f[s] = op[<<f[s \ {Max(s)}], seq[Max(s)]>>]
         /\ f[s \ {Max(s)}] \in A /\ seq[Max(s)] \in B
<1>1. Max(s) \in 1..n /\ s \ {Max(s)} \in SUBSET (1..n)
  BY MaxIsElement
<1> QED
  BY <1>1 DEF LeftFold

\* The recursion of MapThenFoldSet, of which only the choice of a solution is known.
Iterates(iter, A, op, base, n, seq) ==
  /\ iter[{}] = base
  /\ \A s \in SUBSET (1..n) : s # {} /\ iter[s \ {Max(s)}] \in A =>
       iter[s] = op[<<iter[s \ {Max(s)}], seq[Max(s)]>>]

\* A fold by the number of elements it has been through.
Unfolds(f, op, base, n, seq, result) ==
  /\ f[0] = base
  /\ \A k \in 0..(n - 1) : f[k + 1] = op[<<f[k], seq[k + 1]>>]
  /\ f[n] = result

\* Whatever solves the recursion computes the fold one element after the other.
LEMMA FoldByPrefix ==
  ASSUME NEW A, NEW B, NEW op \in [A \X B -> A], NEW base \in A,
         NEW n \in Nat, NEW seq \in [1..n -> B], NEW iter, Iterates(iter, A, op, base, n, seq)
  PROVE  \E f \in [0..n -> A] : Unfolds(f, op, base, n, seq, iter[1..n])
<1> DEFINE g == [k \in 0..n |-> iter[1..k]]
<1>1. g[0] = base
  BY 1..0 = {} DEF Iterates
<1>2. ASSUME NEW k \in 0..(n - 1), g[k] \in A
      PROVE  g[k + 1] = op[<<g[k], seq[k + 1]>>] /\ g[k + 1] \in A
  <2>1. 1..(k + 1) \in SUBSET (1..n) /\ 1..(k + 1) # {} /\ (1..(k + 1)) \ {k + 1} = 1..k
    BY PrefixSets
  <2>2. Max(1..(k + 1)) = k + 1
    BY MaxOfPrefix
  <2>3. g[k] = iter[1..k] /\ g[k + 1] = iter[1..(k + 1)] /\ seq[k + 1] \in B
    OBVIOUS
  <2> HIDE DEF g
  <2>4. g[k + 1] = op[<<g[k], seq[k + 1]>>]
    BY <1>2, <2>1, <2>2, <2>3 DEF Iterates
  <2> QED
    BY <1>2, <2>3, <2>4
<1> HIDE DEF g
<1>3. \A k \in 0..n : g[k] \in A
  <2> DEFINE T == {k \in 0..n : g[k] \in A}
  <2>1. 0 \in T
    BY <1>1
  <2>2. ASSUME NEW k \in 0..(n - 1), k \in T PROVE k + 1 \in T
    <3>1. g[k] \in A /\ k + 1 \in 0..n
      BY <2>2
    <3> QED
      BY <1>2, <3>1
  <2>3. T \in SUBSET (0..n)
    OBVIOUS
  <2>4. T = 0..n
    <3> HIDE DEF T
    <3> QED
      BY <2>1, <2>2, <2>3, PrefixInduction
  <2> QED
    BY <2>4
<1>4. g \in [0..n -> A] /\ g[n] = iter[1..n]
  BY <1>3 DEF g
<1>5. Unfolds(g, op, base, n, seq, iter[1..n])
  <2>1. \A k \in 0..(n - 1) : k \in 0..n
    OBVIOUS
  <2> QED
    BY <1>1, <1>2, <1>3, <1>4, <2>1 DEF Unfolds
<1> QED
  BY <1>4, <1>5

\* The fold of Filter, by the number of offers it has been through.
Filtering(f, offers, kept) ==
  /\ f[0] = <<>>
  /\ \A k \in 0..(Len(offers) - 1) :
       f[k + 1] = IF offers[k + 1] \in kept THEN Append(f[k], offers[k + 1]) ELSE f[k]
  /\ Filter(offers, kept) = f[Len(offers)]

LEMMA FilterUnfolds ==
  ASSUME NEW S, NEW offers \in Seq(S), NEW kept
  PROVE  \E f \in [0..Len(offers) -> Seq(S)] : Filtering(f, offers, kept)
<1> DEFINE n == Len(offers)
           Step(acc, o) == IF o \in kept THEN Append(acc, o) ELSE acc
           op == [x \in Seq(S) \X S |-> Step(x[1], x[2])]
           Body(f) == [s \in SUBSET (DOMAIN offers) |->
                         IF s = {} THEN <<>> ELSE Step(f[s \ {Max(s)}], offers[Max(s)])]
           iter == CHOOSE f : f = Body(f)
<1>1. n \in Nat /\ offers \in [1..n -> S] /\ DOMAIN offers = 1..n /\ <<>> \in Seq(S)
  OBVIOUS
<1>2. \A acc \in Seq(S), o \in S : Step(acc, o) \in Seq(S)
  OBVIOUS
<1>3. Filter(offers, kept) = iter[1..n]
  BY <1>1 DEF Filter, FoldLeft, MapThenFoldSet
<1> HIDE DEF Step
<1>4. op \in [Seq(S) \X S -> Seq(S)] /\ \A acc \in Seq(S), o \in S : op[<<acc, o>>] = Step(acc, o)
  BY <1>2
<1> HIDE DEF op
<1>5. PICK f : LeftFold(f, Seq(S), op, <<>>, n, offers)
  <2> HIDE DEF n
  <2> QED
    BY <1>1, <1>4, FoldExists
<1>6. iter = Body(iter)
  <2>1. f[{}] = <<>> /\ f \in [SUBSET (1..n) -> Seq(S)]
    BY <1>5 DEF LeftFold
  <2>2. ASSUME NEW s \in SUBSET (1..n), s # {}
        PROVE  f[s] = Step(f[s \ {Max(s)}], offers[Max(s)])
    <3>1. /\ f[s] = op[<<f[s \ {Max(s)}], offers[Max(s)]>>]
          /\ f[s \ {Max(s)}] \in Seq(S) /\ offers[Max(s)] \in S
      <4> HIDE DEF n
      <4> QED
        BY <1>1, <1>4, <1>5, <2>2, FoldStep
    <3> QED
      BY <1>4, <3>1
  <2>3. f = Body(f)
    BY <1>1, <2>1, <2>2
  <2> QED
    BY <2>3, Zenon
<1>7. iter[{}] = <<>>
  <2> HIDE DEF iter
  <2> QED
    BY <1>1, <1>6
<1>8. ASSUME NEW s \in SUBSET (1..n), s # {}, iter[s \ {Max(s)}] \in Seq(S)
      PROVE  iter[s] = op[<<iter[s \ {Max(s)}], offers[Max(s)]>>]
  <2>1. offers[Max(s)] \in S
    BY <1>1, <1>8, MaxIsElement
  <2> HIDE DEF iter
  <2> QED
    BY <1>1, <1>4, <1>6, <1>8, <2>1
<1> HIDE DEF iter
<1>9. PICK g \in [0..n -> Seq(S)] : Unfolds(g, op, <<>>, n, offers, iter[1..n])
  <2>1. Iterates(iter, Seq(S), op, <<>>, n, offers)
    BY <1>7, <1>8 DEF Iterates
  <2> HIDE DEF n
  <2> QED
    BY <1>1, <1>4, <2>1, FoldByPrefix
<1>10. Filtering(g, offers, kept)
  <2>1. ASSUME NEW k \in 0..(n - 1) PROVE g[k + 1] = Step(g[k], offers[k + 1])
    <3>1. g[k] \in Seq(S) /\ offers[k + 1] \in S
      BY <1>1
    <3> QED
      BY <1>4, <1>9, <3>1 DEF Unfolds
  <2> QED
    BY <1>3, <1>9, <2>1 DEF Unfolds, Filtering, Step
<1> QED
  BY <1>10

\* Array.prototype.filter keeps the elements that are in the set, and no others.
LEMMA FilterMeaning ==
  ASSUME NEW S, NEW offers \in Seq(S), NEW kept
  PROVE  /\ Filter(offers, kept) \in Seq(S)
         /\ ToSet(Filter(offers, kept)) = ToSet(offers) \cap kept
<1> DEFINE n == Len(offers)
<1>1. n \in Nat /\ offers \in [1..n -> S]
  OBVIOUS
<1>2. PICK f \in [0..n -> Seq(S)] : Filtering(f, offers, kept)
  BY FilterUnfolds
<1> DEFINE T == {k \in 0..n : ToSet(f[k]) = {offers[i] : i \in 1..k} \cap kept}
<1>3. 0 \in T
  BY <1>1, <1>2 DEF Filtering, ToSet
<1>4. ASSUME NEW k \in 0..(n - 1), k \in T PROVE k + 1 \in T
  <2>1. f[k] \in Seq(S) /\ offers[k + 1] \in S
    BY <1>1
  <2>2. {offers[i] : i \in 1..(k + 1)} = {offers[i] : i \in 1..k} \cup {offers[k + 1]}
    BY <1>1
  <2>3. ToSet(Append(f[k], offers[k + 1])) = ToSet(f[k]) \cup {offers[k + 1]}
    <3> DEFINE s == f[k]
               o == offers[k + 1]
    <3>1. s \in Seq(S) /\ o \in S
      BY <2>1
    <3> HIDE DEF s, o
    <3>2. Len(Append(s, o)) = Len(s) + 1 /\ \A i \in 1..Len(s) : Append(s, o)[i] = s[i]
      BY <3>1
    <3>3. Append(s, o)[Len(s) + 1] = o
      BY <3>1
    <3>4. DOMAIN Append(s, o) = 1..(Len(s) + 1) /\ DOMAIN s = 1..Len(s) /\ Len(s) \in Nat
      BY <3>1
    <3>5. ToSet(Append(s, o)) = ToSet(s) \cup {o}
      BY <3>2, <3>3, <3>4 DEF ToSet
    <3> QED
      BY <3>5 DEF s, o
  <2>4. f[k + 1] = IF offers[k + 1] \in kept THEN Append(f[k], offers[k + 1]) ELSE f[k]
    BY <1>2 DEF Filtering
  <2>5. k + 1 \in 0..n
    BY <1>1
  <2>6. ToSet(f[k]) = {offers[i] : i \in 1..k} \cap kept
    BY <1>4
  <2> QED
    BY <2>2, <2>3, <2>4, <2>5, <2>6
<1>5. T = 0..n
  <2>1. T \in SUBSET (0..n)
    OBVIOUS
  <2> HIDE DEF T
  <2> QED
    BY <1>1, <1>3, <1>4, <2>1, PrefixInduction
<1>6. ToSet(f[n]) = {offers[i] : i \in 1..n} \cap kept
  BY <1>1, <1>5
<1>7. ToSet(offers) = {offers[i] : i \in 1..n}
  BY <1>1 DEF ToSet
<1> QED
  BY <1>1, <1>2, <1>6, <1>7 DEF Filtering

\* No element occurs twice.
Distinct(s) == \A i, j \in 1..Len(s) : s[i] = s[j] => i = j

\* What is filtered out of a list without repetitions has none.
LEMMA FilterIsDistinct ==
  ASSUME NEW S, NEW offers \in Seq(S), NEW kept, Distinct(offers)
  PROVE  Distinct(Filter(offers, kept))
<1> DEFINE n == Len(offers)
           Among(s, k) == \A i \in 1..Len(s) : \E j \in 1..k : s[i] = offers[j]
<1>1. n \in Nat /\ offers \in [1..n -> S]
  OBVIOUS
<1>2. PICK f \in [0..n -> Seq(S)] : Filtering(f, offers, kept)
  BY FilterUnfolds
<1> DEFINE T == {k \in 0..n : Distinct(f[k]) /\ Among(f[k], k)}
<1>3. 0 \in T
  BY <1>1, <1>2 DEF Filtering, Distinct
<1>4. ASSUME NEW k \in 0..(n - 1), k \in T PROVE k + 1 \in T
  <2> DEFINE s == f[k]
             o == offers[k + 1]
             more == Append(s, o)
  <2>1. /\ s \in Seq(S) /\ o \in S /\ k \in Nat
        /\ k + 1 \in 0..n /\ k + 1 \in 1..n /\ 1..k \subseteq 1..n
    BY <1>1
  <2>2. f[k + 1] = IF o \in kept THEN more ELSE s
    BY <1>2 DEF Filtering
  <2>3. Distinct(s) /\ Among(s, k)
    BY <1>4
  <2>4. \A j \in 1..k : offers[j] # o
    <3>1. \A j \in 1..k : j \in 1..n /\ j # k + 1
      BY <2>1
    <3> QED
      BY <2>1, <3>1 DEF Distinct
  <2> HIDE DEF s, o
  <2>5. Len(s) \in Nat /\ Len(more) = Len(s) + 1 /\ more[Len(s) + 1] = o
        /\ \A i \in 1..Len(s) : more[i] = s[i] /\ s[i] # o
    <3>1. \A i \in 1..Len(s) : s[i] # o
      BY <2>3, <2>4
    <3> QED
      BY <2>1, <3>1
  <2> HIDE DEF more
  <2>6. Distinct(more)
    <3> SUFFICES ASSUME NEW i \in 1..(Len(s) + 1), NEW j \in 1..(Len(s) + 1),
                        more[i] = more[j]
                 PROVE  i = j
      BY <2>5 DEF Distinct
    <3>1. CASE i \in 1..Len(s) /\ j \in 1..Len(s)
      BY <2>3, <2>5, <3>1 DEF Distinct
    <3>2. CASE i \notin 1..Len(s) \/ j \notin 1..Len(s)
      <4>1. \A m \in 1..(Len(s) + 1) : m \notin 1..Len(s) => m = Len(s) + 1
        BY <2>5
      <4> QED
        BY <2>5, <3>2, <4>1
    <3> QED
      BY <3>1, <3>2
  <2>7. Among(more, k + 1)
    <3> SUFFICES ASSUME NEW i \in 1..(Len(s) + 1)
                 PROVE  \E j \in 1..(k + 1) : more[i] = offers[j]
      BY <2>5
    <3>1. CASE i \in 1..Len(s)
      <4>1. PICK j \in 1..k : s[i] = offers[j]
        BY <2>3, <3>1
      <4>2. j \in 1..(k + 1)
        BY <2>1
      <4> QED
        BY <2>5, <3>1, <4>1, <4>2
    <3>2. CASE i = Len(s) + 1
      <4>1. k + 1 \in 1..(k + 1)
        BY <2>1
      <4> QED
        BY <2>5, <3>2, <4>1 DEF o
    <3> QED
      BY <2>5, <3>1, <3>2
  <2>8. Among(s, k + 1)
    <3>1. \A j \in 1..k : j \in 1..(k + 1)
      BY <2>1
    <3> QED
      BY <2>3, <3>1
  <2> HIDE DEF Among
  <2> QED
    BY <2>1, <2>2, <2>3, <2>6, <2>7, <2>8 DEF s
<1>5. T = 0..n
  <2>1. T \in SUBSET (0..n)
    OBVIOUS
  <2> HIDE DEF T
  <2> QED
    BY <1>1, <1>3, <1>4, <2>1, PrefixInduction
<1> HIDE DEF Among
<1>6. Distinct(f[n])
  BY <1>1, <1>5
<1> QED
  BY <1>2, <1>6 DEF Filtering

-----------------------------------------------------------------------------
(* The offer that SelectLeader's fold ends with. *)

OfferType == [offerId : Nat, priceMinor : Nat, available : BOOLEAN]

Cheapest(first, rest) ==
  FoldLeft(LAMBDA l, o : IF Cheaper(o, l) THEN o ELSE l, first, rest)

Selecting(f, first, rest) ==
  /\ f[0] = first
  /\ \A k \in 0..(Len(rest) - 1) :
       f[k + 1] = IF Cheaper(rest[k + 1], f[k]) THEN rest[k + 1] ELSE f[k]
  /\ Cheapest(first, rest) = f[Len(rest)]

\* The fold of SelectLeader, by the number of offers it has been through.
LEMMA CheapestUnfolds ==
  ASSUME NEW S, NEW first \in S, NEW rest \in Seq(S)
  PROVE  \E f \in [0..Len(rest) -> S] : Selecting(f, first, rest)
<1> DEFINE n == Len(rest)
           Step(acc, o) == IF Cheaper(o, acc) THEN o ELSE acc
           op == [x \in S \X S |-> Step(x[1], x[2])]
           Body(f) == [s \in SUBSET (DOMAIN rest) |->
                         IF s = {} THEN first ELSE Step(f[s \ {Max(s)}], rest[Max(s)])]
           iter == CHOOSE f : f = Body(f)
<1>1. n \in Nat /\ rest \in [1..n -> S] /\ DOMAIN rest = 1..n /\ first \in S
  OBVIOUS
<1>2. \A acc \in S, o \in S : Step(acc, o) \in S
  OBVIOUS
<1>3. Cheapest(first, rest) = iter[1..n]
  BY <1>1 DEF Cheapest, FoldLeft, MapThenFoldSet
<1> HIDE DEF Step
<1>4. op \in [S \X S -> S] /\ \A acc \in S, o \in S : op[<<acc, o>>] = Step(acc, o)
  BY <1>2
<1> HIDE DEF op
<1>5. PICK f : LeftFold(f, S, op, first, n, rest)
  <2> HIDE DEF n
  <2> QED
    BY <1>1, <1>4, FoldExists
<1>6. iter = Body(iter)
  <2>1. f[{}] = first /\ f \in [SUBSET (1..n) -> S]
    BY <1>5 DEF LeftFold
  <2>2. ASSUME NEW s \in SUBSET (1..n), s # {}
        PROVE  f[s] = Step(f[s \ {Max(s)}], rest[Max(s)])
    <3>1. /\ f[s] = op[<<f[s \ {Max(s)}], rest[Max(s)]>>]
          /\ f[s \ {Max(s)}] \in S /\ rest[Max(s)] \in S
      <4> HIDE DEF n
      <4> QED
        BY <1>1, <1>4, <1>5, <2>2, FoldStep
    <3> QED
      BY <1>4, <3>1
  <2>3. f = Body(f)
    BY <1>1, <2>1, <2>2
  <2> QED
    BY <2>3, Zenon
<1>7. iter[{}] = first
  <2> HIDE DEF iter
  <2> QED
    BY <1>1, <1>6
<1>8. ASSUME NEW s \in SUBSET (1..n), s # {}, iter[s \ {Max(s)}] \in S
      PROVE  iter[s] = op[<<iter[s \ {Max(s)}], rest[Max(s)]>>]
  <2>1. rest[Max(s)] \in S
    BY <1>1, <1>8, MaxIsElement
  <2> HIDE DEF iter
  <2> QED
    BY <1>1, <1>4, <1>6, <1>8, <2>1
<1> HIDE DEF iter
<1>9. PICK g \in [0..n -> S] : Unfolds(g, op, first, n, rest, iter[1..n])
  <2>1. Iterates(iter, S, op, first, n, rest)
    BY <1>7, <1>8 DEF Iterates
  <2> HIDE DEF n
  <2> QED
    BY <1>1, <1>4, <2>1, FoldByPrefix
<1>10. Selecting(g, first, rest)
  <2>1. ASSUME NEW k \in 0..(n - 1) PROVE g[k + 1] = Step(g[k], rest[k + 1])
    <3>1. g[k] \in S /\ rest[k + 1] \in S
      BY <1>1
    <3> QED
      BY <1>4, <1>9, <3>1 DEF Unfolds
  <2> QED
    BY <1>3, <1>9, <2>1 DEF Unfolds, Selecting, Step
<1> QED
  BY <1>10

\* The fold ends with one of the offers, and none of them is cheaper.
LEMMA CheapestMeaning ==
  ASSUME NEW first \in OfferType, NEW rest \in Seq(OfferType)
  PROVE  /\ Cheapest(first, rest) \in {first} \cup ToSet(rest)
         /\ \A o \in {first} \cup ToSet(rest) : ~Cheaper(o, Cheapest(first, rest))
<1> DEFINE n == Len(rest)
           Before(k) == {first} \cup {rest[i] : i \in 1..k}
<1>1. n \in Nat /\ rest \in [1..n -> OfferType]
  OBVIOUS
<1>2. PICK f \in [0..n -> OfferType] : Selecting(f, first, rest)
  BY CheapestUnfolds
<1> DEFINE T == {k \in 0..n : f[k] \in Before(k) /\ \A o \in Before(k) : ~Cheaper(o, f[k])}
<1>3. 0 \in T
  BY <1>1, <1>2 DEF Selecting, Cheaper, OfferType
<1>4. ASSUME NEW k \in 0..(n - 1), k \in T PROVE k + 1 \in T
  <2>1. Before(k + 1) = Before(k) \cup {rest[k + 1]} /\ k + 1 \in 0..n
    BY <1>1
  <2>2. f[k] \in OfferType /\ rest[k + 1] \in OfferType /\ Before(k) \subseteq OfferType
    BY <1>1
  <2>3. f[k + 1] = IF Cheaper(rest[k + 1], f[k]) THEN rest[k + 1] ELSE f[k]
    BY <1>2 DEF Selecting
  <2>4. f[k] \in Before(k) /\ \A o \in Before(k) : ~Cheaper(o, f[k])
    BY <1>4
  <2> HIDE DEF Before
  <2>5. f[k + 1] \in Before(k + 1)
    BY <2>1, <2>3, <2>4
  <2>6. ASSUME NEW o \in Before(k + 1) PROVE ~Cheaper(o, f[k + 1])
    <3>1. CASE o \in Before(k)
      BY <2>2, <2>3, <2>4, <3>1 DEF Cheaper, OfferType
    <3>2. CASE o = rest[k + 1]
      BY <2>2, <2>3, <3>2 DEF Cheaper, OfferType
    <3> QED
      BY <2>1, <3>1, <3>2
  <2> QED
    BY <2>1, <2>5, <2>6
<1>5. T = 0..n
  <2>1. T \in SUBSET (0..n)
    OBVIOUS
  <2> HIDE DEF T
  <2> QED
    BY <1>1, <1>3, <1>4, <2>1, PrefixInduction
<1>6. f[n] \in Before(n) /\ \A o \in Before(n) : ~Cheaper(o, f[n])
  <2> HIDE DEF Before
  <2> QED
    BY <1>1, <1>5
<1>7. ToSet(rest) = {rest[i] : i \in 1..n}
  BY <1>1 DEF ToSet
<1>8. Cheapest(first, rest) = f[n]
  BY <1>2 DEF Selecting
<1> QED
  BY <1>6, <1>7, <1>8

\* The leader is an available offer that no available offer is cheaper than; there is
\* none only if no offer is available.
LEMMA LeaderMeaning ==
  ASSUME NEW offers \in Seq(OfferType)
  PROVE  LET can == {o \in ToSet(offers) : o.available} IN
         IF can = {} THEN SelectLeader(offers) = NoOffer
         ELSE /\ SelectLeader(offers) \in can
              /\ \A o \in can : ~Cheaper(o, SelectLeader(offers))
<1> DEFINE can == {o \in ToSet(offers) : o.available}
           s == Available(offers)
<1>1. s \in Seq(OfferType) /\ ToSet(s) = can
  BY FilterMeaning DEF Available
<1> HIDE DEF s
<1>2. CASE s = <<>>
  <2>1. can = {}
    BY <1>1, <1>2 DEF ToSet
  <2>2. SelectLeader(offers) = NoOffer
    BY <1>2 DEF SelectLeader, s
  <2> QED
    BY <2>1, <2>2
<1>3. CASE s # <<>>
  <2>1. SelectLeader(offers) = Cheapest(s[1], Tail(s))
    BY <1>3 DEF SelectLeader, Cheapest, s
  <2>2. s[1] \in OfferType /\ Tail(s) \in Seq(OfferType)
    BY <1>1, <1>3
  <2>3. {s[1]} \cup ToSet(Tail(s)) = ToSet(s)
    <3>1. Len(s) \in Nat \ {0} /\ DOMAIN s = 1..Len(s)
      BY <1>1, <1>3
    <3>2. DOMAIN Tail(s) = 1..(Len(s) - 1) /\ \A i \in 1..(Len(s) - 1) : Tail(s)[i] = s[i + 1]
      BY <1>1, <1>3
    <3>3. ASSUME NEW i \in 1..Len(s) PROVE s[i] \in {s[1]} \cup ToSet(Tail(s))
      <4>1. CASE i = 1
        BY <4>1
      <4>2. CASE i # 1
        <5>1. i - 1 \in 1..(Len(s) - 1) /\ (i - 1) + 1 = i
          BY <3>1, <4>2
        <5> QED
          BY <3>2, <5>1 DEF ToSet
      <4> QED
        BY <4>1, <4>2
    <3>4. ASSUME NEW i \in 1..(Len(s) - 1) PROVE Tail(s)[i] \in ToSet(s)
      <4>1. i + 1 \in 1..Len(s)
        BY <3>1
      <4> QED
        BY <3>1, <3>2, <4>1 DEF ToSet
    <3>5. s[1] \in ToSet(s)
      BY <3>1 DEF ToSet
    <3> QED
      BY <3>1, <3>2, <3>3, <3>4, <3>5 DEF ToSet
  <2>4. s[1] \in can
    BY <1>1, <2>3
  <2> QED
    BY <1>1, <2>1, <2>2, <2>3, <2>4, CheapestMeaning
<1> QED
  BY <1>2, <1>3

-----------------------------------------------------------------------------
(* Sorting: a sequence without repetitions can be put in any strict total    *)
(* order of its elements, by insertion of one after the other.               *)

StrictOrder(rel, S) ==
  /\ \A a \in S : <<a, a>> \notin rel
  /\ \A a, b \in S : a # b => <<a, b>> \in rel \/ <<b, a>> \in rel
  /\ \A a, b, c \in S : <<a, b>> \in rel /\ <<b, c>> \in rel => <<a, c>> \in rel

Ordered(rel, s, k) == \A i, j \in 1..k : i < j => <<s[i], s[j]>> \in rel

Arranged(rel, s, seq, k) ==
  {s[i] : i \in 1..k} = {seq[i] : i \in 1..k} /\ Ordered(rel, s, k)

Inserted(rel, r, s, k, x) ==
  /\ {r[i] : i \in 1..(k + 1)} = {s[i] : i \in 1..k} \cup {x}
  /\ Ordered(rel, r, k + 1)

\* An element goes before the first one that it precedes.
LEMMA Insertion ==
  ASSUME NEW S, NEW rel, StrictOrder(rel, S),
         NEW k \in Nat, NEW s \in [1..k -> S], Ordered(rel, s, k),
         NEW x \in S, \A i \in 1..k : s[i] # x
  PROVE  \E r \in [1..(k + 1) -> S] : Inserted(rel, r, s, k, x)
<1> DEFINE After == {m \in 1..(k + 1) : m = k + 1 \/ <<x, s[m]>> \in rel}
<1>1. PICK p \in After : \A m \in After : p <= m
  <2>1. After \in SUBSET Nat /\ After # {}
    OBVIOUS
  <2> HIDE DEF After
  <2> QED
    BY <2>1, LeastElement
<1>2. p \in 1..(k + 1)
  OBVIOUS
<1>3. ASSUME NEW i \in 1..k, i < p PROVE <<s[i], x>> \in rel
  <2>1. <<x, s[i]>> \notin rel
    BY <1>1, <1>3
  <2>2. s[i] \in S
    OBVIOUS
  <2> QED
    BY <2>1, <2>2 DEF StrictOrder
<1>4. ASSUME NEW i \in 1..k, i >= p PROVE <<x, s[i]>> \in rel
  <2>1. p \in 1..k /\ <<x, s[p]>> \in rel
    BY <1>2, <1>4
  <2>2. CASE i = p
    BY <2>1, <2>2
  <2>3. CASE i > p
    <3>1. <<s[p], s[i]>> \in rel /\ s[p] \in S /\ s[i] \in S
      BY <2>1, <2>3 DEF Ordered
    <3> QED
      BY <2>1, <3>1 DEF StrictOrder
  <2> QED
    BY <1>2, <1>4, <2>2, <2>3
<1> HIDE DEF After
<1> DEFINE r == [i \in 1..(k + 1) |-> IF i < p THEN s[i] ELSE IF i = p THEN x ELSE s[i - 1]]
<1>5. r \in [1..(k + 1) -> S]
  BY <1>2
<1>6. ASSUME NEW i \in 1..(k + 1)
      PROVE  /\ i < p => i \in 1..k /\ r[i] = s[i]
             /\ i = p => r[i] = x
             /\ i > p => i - 1 \in 1..k /\ i - 1 >= p /\ r[i] = s[i - 1]
  BY <1>2
<1> HIDE DEF r
<1>7. {r[i] : i \in 1..(k + 1)} = {s[i] : i \in 1..k} \cup {x}
  <2>1. ASSUME NEW i \in 1..(k + 1) PROVE r[i] \in {s[j] : j \in 1..k} \cup {x}
    BY <1>2, <1>6
  <2>2. ASSUME NEW j \in 1..k PROVE \E i \in 1..(k + 1) : r[i] = s[j]
    <3>1. CASE j < p
      BY <1>6, <3>1
    <3>2. CASE j >= p
      <4>1. j + 1 \in 1..(k + 1) /\ j + 1 > p /\ (j + 1) - 1 = j
        BY <1>2, <3>2
      <4> QED
        BY <1>6, <4>1
    <3> QED
      BY <1>2, <3>1, <3>2
  <2>3. r[p] = x
    BY <1>2, <1>6
  <2> QED
    BY <1>2, <2>1, <2>2, <2>3
<1>8. Ordered(rel, r, k + 1)
  <2> SUFFICES ASSUME NEW i \in 1..(k + 1), NEW j \in 1..(k + 1), i < j
               PROVE  <<r[i], r[j]>> \in rel
    BY DEF Ordered
  <2>1. CASE j < p
    <3>1. i < p
      BY <1>2, <2>1
    <3> QED
      BY <1>6, <2>1, <3>1 DEF Ordered
  <2>2. CASE j = p
    BY <1>3, <1>6, <2>2
  <2>3. CASE j > p
    <3>1. CASE i < p
      <4>1. j - 1 \in 1..k /\ i \in 1..k /\ i < j - 1
        BY <1>2, <1>6, <2>3, <3>1
      <4> QED
        BY <1>6, <2>3, <3>1, <4>1 DEF Ordered
    <3>2. CASE i = p
      BY <1>4, <1>6, <2>3, <3>2
    <3>3. CASE i > p
      <4>1. j - 1 \in 1..k /\ i - 1 \in 1..k /\ i - 1 < j - 1
        BY <1>2, <1>6, <2>3, <3>3
      <4> QED
        BY <1>6, <2>3, <3>3, <4>1 DEF Ordered
    <3> QED
      BY <1>2, <3>1, <3>2, <3>3
  <2> QED
    BY <1>2, <2>1, <2>2, <2>3
<1>9. Inserted(rel, r, s, k, x)
  BY <1>7, <1>8 DEF Inserted
<1> QED
  BY <1>5, <1>9

LEMMA SortingExists ==
  ASSUME NEW S, NEW rel, StrictOrder(rel, S),
         NEW n \in Nat, NEW seq \in [1..n -> S],
         \A i, j \in 1..n : seq[i] = seq[j] => i = j
  PROVE  \E s \in [1..n -> S] : Arranged(rel, s, seq, n)
<1> DEFINE Arrangeable(k) == \E s \in [1..k -> S] : Arranged(rel, s, seq, k)
           T == {k \in 0..n : Arrangeable(k)}
<1>1. 0 \in T
  <2> DEFINE e == [i \in 1..0 |-> seq[i]]
  <2>1. e \in [1..0 -> S] /\ Arranged(rel, e, seq, 0)
    BY DEF Arranged, Ordered
  <2> HIDE DEF e
  <2>2. Arrangeable(0)
    BY <2>1
  <2> HIDE DEF Arrangeable
  <2> QED
    BY <2>2
<1>2. ASSUME NEW k \in 0..(n - 1), k \in T PROVE k + 1 \in T
  <2>1. PICK s \in [1..k -> S] : Arranged(rel, s, seq, k)
    BY <1>2
  <2>2. k \in Nat /\ k + 1 \in 1..n /\ seq[k + 1] \in S
    OBVIOUS
  <2>3. \A i \in 1..k : s[i] # seq[k + 1]
    <3>1. ASSUME NEW i \in 1..k PROVE \E j \in 1..k : s[i] = seq[j]
      BY <2>1 DEF Arranged
    <3>2. \A j \in 1..k : j \in 1..n /\ j # k + 1
      BY <2>2
    <3> QED
      BY <2>2, <3>1, <3>2
  <2>4. PICK r \in [1..(k + 1) -> S] : Inserted(rel, r, s, k, seq[k + 1])
    <3>1. Ordered(rel, s, k)
      BY <2>1 DEF Arranged
    <3> QED
      BY <2>2, <2>3, <3>1, Insertion
  <2>5. {seq[i] : i \in 1..(k + 1)} = {seq[i] : i \in 1..k} \cup {seq[k + 1]}
    BY <2>2
  <2>6. Arranged(rel, r, seq, k + 1)
    BY <2>1, <2>4, <2>5 DEF Arranged, Inserted
  <2> QED
    BY <2>2, <2>6
<1>3. T = 0..n
  <2>1. T \in SUBSET (0..n)
    OBVIOUS
  <2> HIDE DEF T
  <2> QED
    BY <1>1, <1>2, <2>1, PrefixInduction
<1> QED
  BY <1>3

-----------------------------------------------------------------------------
(* Amounts. *)

\* An amount that is accepted is kept exactly: no digit of it is lost.
LEMMA AmountKept ==
  ASSUME NEW a \in Amounts, ParseAedToMinorUnits(a) # Rejected
  PROVE  /\ ParseAedToMinorUnits(a) \in Nat
         /\ Thousandths(a) = 10 * ParseAedToMinorUnits(a)
<1> DEFINE f == a.frac
           w == a.whole
<1>1. w \in Nat /\ f \in Seq(0..9)
  BY DEF Amounts
<1>2. Len(f) <= 2 /\ ParseAedToMinorUnits(a) = 100 * w + Pad(f)
  BY DEF ParseAedToMinorUnits
<1> HIDE DEF f, w
<1>3. Thousandths(a) = 1000 * w + 100 * (IF 1 \in DOMAIN f THEN f[1] ELSE 0)
                         + 10 * (IF 2 \in DOMAIN f THEN f[2] ELSE 0)
                         + (IF 3 \in DOMAIN f THEN f[3] ELSE 0)
  BY DEF Thousandths, f, w
<1>4. DOMAIN f = 1..Len(f) /\ Len(f) \in Nat /\ \A i \in 1..Len(f) : f[i] \in 0..9
  BY <1>1
<1>8. f = <<>> => Len(f) = 0
  OBVIOUS
<1>5. CASE Len(f) = 0
  <2>1. f = <<>> /\ 1 \notin DOMAIN f /\ 2 \notin DOMAIN f /\ 3 \notin DOMAIN f
    BY <1>1, <1>4, <1>5
  <2>2. Pad(f) = 0
    BY <2>1 DEF Pad
  <2> QED
    BY <1>1, <1>2, <1>3, <2>1, <2>2
<1>6. CASE Len(f) = 1
  <2>1. f # <<>> /\ 1 \in DOMAIN f /\ 2 \notin DOMAIN f /\ 3 \notin DOMAIN f
    BY <1>4, <1>6, <1>8
  <2>2. Pad(f) = 10 * f[1] /\ f[1] \in 0..9
    BY <1>4, <1>6, <2>1 DEF Pad
  <2> QED
    BY <1>1, <1>2, <1>3, <2>1, <2>2
<1>7. CASE Len(f) = 2
  <2>1. f # <<>> /\ 1 \in DOMAIN f /\ 2 \in DOMAIN f /\ 3 \notin DOMAIN f
    BY <1>4, <1>7, <1>8
  <2>2. Pad(f) = 10 * f[1] + f[2] /\ f[1] \in 0..9 /\ f[2] \in 0..9
    BY <1>4, <1>7, <2>1 DEF Pad
  <2>3. Thousandths(a) = 1000 * w + 100 * f[1] + 10 * f[2] + 0
    BY <1>3, <2>1
  <2>4. ParseAedToMinorUnits(a) = 100 * w + (10 * f[1] + f[2])
    BY <1>2, <2>2
  <2> DEFINE x == f[1]
             y == f[2]
  <2>5. x \in 0..9 /\ y \in 0..9
    BY <2>2
  <2>6. /\ 1000 * w + 100 * x + 10 * y + 0 = 10 * (100 * w + (10 * x + y))
        /\ 100 * w + (10 * x + y) \in Nat
    <3> HIDE DEF x, y
    <3> QED
      BY <1>1, <2>5
  <2> QED
    BY <2>3, <2>4, <2>6
<1> QED
  BY <1>2, <1>4, <1>5, <1>6, <1>7

\* A price is read back as it was shown.
LEMMA PriceReadBack ==
  ASSUME NEW m \in 1..MaxPrice, MaxPrice \in Nat
  PROVE  ParseTargetPriceMinor(FormatPrice(m)) = m
<1> DEFINE f == <<(m % 100) \div 10, m % 10>>
<1>1. m \in Nat
  OBVIOUS
<1>2. FormatPrice(m).whole = m \div 100 /\ FormatPrice(m).frac = f
  BY DEF FormatPrice
<1>3. Len(f) = 2 /\ f # <<>> /\ f[1] = (m % 100) \div 10 /\ f[2] = m % 10
  OBVIOUS
<1> HIDE DEF f
<1>4. Pad(f) = 10 * ((m % 100) \div 10) + (m % 10)
  <2>1. Pad(f) = 10 * f[1] + f[2]
    BY <1>3 DEF Pad
  <2> QED
    BY <1>3, <2>1
<1>5. 100 * (m \div 100) + (10 * ((m % 100) \div 10) + (m % 10)) = m
  <2> DEFINE q == m \div 100
             r == m % 100
             p == r \div 10
             u == r % 10
             e == m \div 10
             d == m % 10
  <2>1. q \in Nat /\ r \in 0..99 /\ m = 100 * q + r
    BY <1>1
  <2>2. e \in Nat /\ d \in 0..9 /\ m = 10 * e + d
    BY <1>1
  <2> HIDE DEF q, r, e, d
  <2>3. p \in Nat /\ u \in 0..9 /\ r = 10 * p + u
    BY <2>1
  <2> HIDE DEF p, u
  <2>4. 100 * q + (10 * p + d) = m
    BY <1>1, <2>1, <2>2, <2>3
  <2> QED
    BY <2>4 DEF q, r, p, d
<1> QED
  BY <1>2, <1>3, <1>4, <1>5 DEF ParseTargetPriceMinor

-----------------------------------------------------------------------------
(* Offers that differ in their codes: what is selected depends on the set of  *)
(* offers alone, and sorting them keeps it.                                   *)

CodesDiffer(S) == \A a, b \in S : a.offerId = b.offerId => a = b

\* The leader depends on the set of the offers alone.
LEMMA LeaderOfSet ==
  ASSUME NEW s \in Seq(OfferType), NEW r \in Seq(OfferType),
         ToSet(s) = ToSet(r), CodesDiffer(ToSet(s))
  PROVE  SelectLeader(s) = SelectLeader(r)
<1> DEFINE can == {o \in ToSet(s) : o.available}
<1>1. can \subseteq OfferType
  BY DEF ToSet
<1>2. CASE can = {}
  BY <1>2, LeaderMeaning
<1>3. CASE can # {}
  <2> DEFINE a == SelectLeader(s)
             b == SelectLeader(r)
  <2>1. a \in can /\ \A o \in can : ~Cheaper(o, a)
    BY <1>3, LeaderMeaning
  <2>2. b \in can /\ \A o \in can : ~Cheaper(o, b)
    BY <1>3, LeaderMeaning
  <2>3. ~Cheaper(a, b) /\ ~Cheaper(b, a) /\ a \in OfferType /\ b \in OfferType
    BY <1>1, <2>1, <2>2
  <2> HIDE DEF a, b
  <2>4. a.offerId = b.offerId
    BY <2>3 DEF Cheaper, OfferType
  <2>5. a = b
    BY <2>1, <2>2, <2>4 DEF CodesDiffer
  <2> QED
    BY <2>5 DEF a, b
<1> QED
  BY <1>2, <1>3

LEMMA ReverseMeaning ==
  ASSUME NEW S, NEW s \in Seq(S)
  PROVE  Reverse(s) \in Seq(S) /\ ToSet(Reverse(s)) = ToSet(s)
<1> DEFINE n == Len(s)
<1>1. n \in Nat /\ s \in [1..n -> S] /\ DOMAIN s = 1..n
  OBVIOUS
<1>2. \A i \in 1..n : (n - i) + 1 \in 1..n /\ (n - ((n - i) + 1)) + 1 = i
  BY <1>1
<1>3. DOMAIN Reverse(s) = 1..n /\ \A i \in 1..n : Reverse(s)[i] = s[(n - i) + 1]
  BY DEF Reverse
<1>4. Reverse(s) \in Seq(S)
  BY <1>1, <1>2 DEF Reverse
<1>5. ASSUME NEW i \in 1..n PROVE Reverse(s)[i] \in ToSet(s) /\ s[i] \in ToSet(Reverse(s))
  BY <1>1, <1>2, <1>3 DEF ToSet
<1> QED
  BY <1>1, <1>3, <1>4, <1>5 DEF ToSet

\* What is selected at or below a target price is the leader, or nothing.
LEMMA SelectedAtTarget ==
  ASSUME NEW offers \in Seq(OfferType), CodesDiffer(ToSet(offers)), NEW t \in Int,
         NoCode = 0, 0 \notin {o.offerId : o \in ToSet(offers)}
  PROVE  SelectOfferAtOrBelow(offers, t) =
           IF SelectLeader(offers) # NoOffer /\ SelectLeader(offers).priceMinor <= t
           THEN SelectLeader(offers) ELSE NoOffer
<1> DEFINE can == {o \in ToSet(offers) : o.available}
           low == {o \in ToSet(offers) : o.priceMinor <= t}
           s == Filter(offers, low)
           both == {o \in ToSet(s) : o.available}
           l == SelectLeader(offers)
           r == SelectLeader(s)
<1>1. s \in Seq(OfferType) /\ ToSet(s) = ToSet(offers) \cap low
  BY FilterMeaning
<1>2. SelectOfferAtOrBelow(offers, t) = r
  BY DEF SelectOfferAtOrBelow
<1>3. IF can = {} THEN l = NoOffer ELSE l \in can /\ \A o \in can : ~Cheaper(o, l)
  BY LeaderMeaning
<1> HIDE DEF s, l
<1>4. IF both = {} THEN r = NoOffer ELSE r \in both /\ \A o \in both : ~Cheaper(o, r)
  BY <1>1, LeaderMeaning
<1> HIDE DEF r
<1>5. both = {o \in can : o.priceMinor <= t}
  BY <1>1
<1> HIDE DEF both
<1>6. \A o \in can : o \in OfferType /\ o # NoOffer
  BY DEF NoOffer, ToSet
<1>7. \A a, b \in can : a.offerId = b.offerId => a = b
  BY DEF CodesDiffer
<1> HIDE DEF can
<1>8. CASE can = {}
  BY <1>2, <1>3, <1>4, <1>5, <1>8 DEF l
<1>9. CASE can # {} /\ l.priceMinor <= t
  <2>1. l \in can /\ l \in both /\ r \in both /\ r \in can
    BY <1>3, <1>4, <1>5, <1>9
  <2>2. ~Cheaper(r, l) /\ ~Cheaper(l, r)
    BY <1>3, <1>4, <2>1
  <2>3. r.offerId = l.offerId
    BY <1>6, <2>1, <2>2 DEF Cheaper, OfferType
  <2>4. r = l
    BY <1>7, <2>1, <2>3
  <2> QED
    BY <1>2, <1>6, <1>9, <2>1, <2>4 DEF l
<1>10. CASE can # {} /\ ~(l.priceMinor <= t)
  <2>1. ASSUME NEW o \in both PROVE FALSE
    <3>1. o \in can /\ o.priceMinor <= t /\ l \in can /\ ~Cheaper(o, l)
      BY <1>3, <1>5, <1>10
    <3> QED
      BY <1>6, <1>10, <3>1 DEF Cheaper, OfferType
  <2> QED
    BY <1>2, <1>4, <1>10, <2>1 DEF l
<1> QED
  BY <1>8, <1>9, <1>10

-----------------------------------------------------------------------------
(* From the catalog's answer to the offers of a snapshot. *)

OneOfferPerCode(raws) == \A j, k \in DOMAIN raws : raws[j].code = raws[k].code => j = k

AllAccepted(raws) == \A j \in DOMAIN raws : OfferAccepted(raws[j])

\* An offer that is accepted keeps its code and its amount.
LEMMA ParsedIsOffer ==
  ASSUME NEW raw \in RawOffers, OfferAccepted(raw)
  PROVE  /\ ParseOffer(raw) \in OfferType /\ ParseOffer(raw).offerId # 0
         /\ ParseOffer(raw).offerId = raw.code /\ ParseOffer(raw).available = raw.buyable
         /\ Thousandths(Stated(raw)) = 10 * ParseOffer(raw).priceMinor
<1>1. raw.code \in Nat \ {0} /\ raw.buyable \in BOOLEAN
  BY CatalogAssumption DEF OfferAccepted
<1>2. Stated(raw) \in Amounts
  BY CatalogAssumption, Zenon DEF Stated
<1>3. /\ ParseAedToMinorUnits(Stated(raw)) \in Nat
      /\ Thousandths(Stated(raw)) = 10 * ParseAedToMinorUnits(Stated(raw))
  BY <1>2, AmountKept DEF OfferAccepted
<1> QED
  BY <1>1, <1>3 DEF ParseOffer, OfferType

LEMMA ParsedMeaning ==
  ASSUME NEW v, NEW n \in Nat, v.offers \in [1..n -> RawOffers],
         OneOfferPerCode(v.offers), AllAccepted(v.offers)
  PROVE  /\ Parsed(v) \in [1..n -> OfferType]
         /\ \A j \in 1..n : Parsed(v)[j] = ParseOffer(v.offers[j])
         /\ \A j, k \in 1..n : Parsed(v)[j].offerId = Parsed(v)[k].offerId => j = k
<1>1. DOMAIN v.offers = 1..n
  OBVIOUS
<1>2. ASSUME NEW j \in 1..n
      PROVE  /\ Parsed(v)[j] = ParseOffer(v.offers[j])
             /\ Parsed(v)[j] \in OfferType /\ Parsed(v)[j].offerId = v.offers[j].code
  <2>1. v.offers[j] \in RawOffers /\ OfferAccepted(v.offers[j])
    BY <1>1 DEF AllAccepted
  <2> QED
    BY <1>1, <2>1, ParsedIsOffer DEF Parsed
<1>3. Parsed(v) \in [1..n -> OfferType]
  BY <1>1, <1>2 DEF Parsed
<1> QED
  BY <1>1, <1>2, <1>3 DEF OneOfferPerCode

\* No two offers with different codes are equally cheap.
LEMMA CheaperIsOrder ==
  ASSUME NEW S \in SUBSET OfferType, CodesDiffer(S)
  PROVE  StrictOrder({p \in S \X S : Cheaper(p[1], p[2])}, S)
<1> DEFINE rel == {p \in S \X S : Cheaper(p[1], p[2])}
<1>1. \A a, b \in S : <<a, b>> \in rel <=> Cheaper(a, b)
  OBVIOUS
<1> HIDE DEF rel
<1>2. \A a \in S : ~Cheaper(a, a)
  BY DEF Cheaper, OfferType
<1>3. \A a, b \in S : a # b => Cheaper(a, b) \/ Cheaper(b, a)
  BY DEF Cheaper, OfferType, CodesDiffer
<1>4. \A a, b, c \in S : Cheaper(a, b) /\ Cheaper(b, c) => Cheaper(a, c)
  BY DEF Cheaper, OfferType
<1>5. StrictOrder(rel, S)
  BY <1>1, <1>2, <1>3, <1>4 DEF StrictOrder
<1> QED
  BY <1>5 DEF rel

\* The offers of a snapshot are those that were parsed: sorting neither loses nor
\* repeats one.
LEMMA SnapshotMeaning ==
  ASSUME NEW v, NEW n \in Nat, v.offers \in [1..n -> RawOffers],
         OneOfferPerCode(v.offers), AllAccepted(v.offers)
  PROVE  /\ SnapshotOffers(v) \in Seq(OfferType) /\ Distinct(SnapshotOffers(v))
         /\ ToSet(SnapshotOffers(v)) = {ParseOffer(v.offers[j]) : j \in 1..n}
<1> DEFINE seq == Parsed(v)
           S == ToSet(seq)
           rel == {p \in S \X S : Cheaper(p[1], p[2])}
           IsIt(sorted) == ToSet(sorted) = ToSet(seq) /\ IsSorted(sorted, Cheaper)
<1>1. /\ seq \in [1..n -> OfferType]
      /\ \A j \in 1..n : seq[j] = ParseOffer(v.offers[j])
      /\ \A j, k \in 1..n : seq[j].offerId = seq[k].offerId => j = k
  BY ParsedMeaning
<1> HIDE DEF seq
<1>2. /\ DOMAIN seq = 1..n /\ S = {seq[j] : j \in 1..n}
      /\ S \in SUBSET OfferType /\ CodesDiffer(S) /\ seq \in [1..n -> S]
  BY <1>1 DEF ToSet, CodesDiffer
<1> HIDE DEF S
<1>3. StrictOrder(rel, S)
  BY <1>2, CheaperIsOrder
<1>4. PICK s \in [1..n -> S] : Arranged(rel, s, seq, n)
  <2>1. \A j, k \in 1..n : seq[j] = seq[k] => j = k
    BY <1>1
  <2> HIDE DEF rel
  <2> QED
    BY <1>2, <1>3, <2>1, SortingExists
<1>5. IsIt(s)
  <2>1. Len(s) = n /\ DOMAIN s = 1..n
    OBVIOUS
  <2> QED
    BY <1>2, <1>4, <2>1 DEF Arranged, Ordered, IsSorted, ToSet
<1>6. SnapshotOffers(v) = CHOOSE sorted \in [DOMAIN seq -> ToSet(seq)] : IsIt(sorted)
  BY DEF SnapshotOffers, Sorted, seq
<1> HIDE DEF IsIt
<1>7. SnapshotOffers(v) \in [DOMAIN seq -> ToSet(seq)] /\ IsIt(SnapshotOffers(v))
  <2>1. s \in [DOMAIN seq -> ToSet(seq)]
    BY <1>2 DEF S
  <2> QED
    BY <1>5, <1>6, <2>1, Zenon
<1>8. SnapshotOffers(v) \in Seq(OfferType)
  <2>1. ToSet(seq) \subseteq OfferType
    BY <1>2 DEF S
  <2>2. SnapshotOffers(v) \in [1..n -> OfferType]
    BY <1>2, <1>7, <2>1
  <2> QED
    BY <2>2
<1>9. ToSet(seq) = {ParseOffer(v.offers[j]) : j \in 1..n}
  BY <1>1, <1>2 DEF S
<1>10. Distinct(SnapshotOffers(v))
  <2> DEFINE r == SnapshotOffers(v)
  <2>1. r \in Seq(OfferType) /\ IsSorted(r, Cheaper)
    BY <1>7, <1>8 DEF IsIt
  <2> HIDE DEF r
  <2>2. ASSUME NEW i \in 1..Len(r), NEW j \in 1..Len(r), i < j PROVE r[i] # r[j]
    <3>1. Cheaper(r[i], r[j]) /\ r[i] \in OfferType
      BY <2>1, <2>2 DEF IsSorted
    <3> QED
      BY <3>1 DEF Cheaper, OfferType
  <2>3. Distinct(r)
    BY <2>1, <2>2 DEF Distinct
  <2> QED
    BY <2>3 DEF r
<1> QED
  BY <1>7, <1>8, <1>9, <1>10 DEF IsIt

LEMMA MinMeaning ==
  ASSUME NEW T \in SUBSET Nat, T # {}
  PROVE  Min(T) \in T /\ \A m \in T : Min(T) <= m
<1>1. \E x \in T : \A y \in T : x <= y
  BY LeastElement
<1> QED
  BY <1>1, Zenon DEF Min

Matching(variants, ref) ==
  {i \in 1..Len(variants) : Carries(variants[i], ref.sku) \/ HasOffer(variants[i], ref.code)}

\* The variant found is the first that has the SKU or the requested offer.
LEMMA FoundMeaning ==
  ASSUME NEW S, NEW variants \in Seq(S), NEW ref
  PROVE  /\ Matching(variants, ref) = {} => FindVariant(variants, ref) = 0
         /\ Matching(variants, ref) # {} =>
              /\ FindVariant(variants, ref) \in Matching(variants, ref)
              /\ \A i \in Matching(variants, ref) : FindVariant(variants, ref) <= i
<1>1. FindVariant(variants, ref) =
        IF Matching(variants, ref) # {} THEN Min(Matching(variants, ref)) ELSE 0
  BY DEF FindVariant, SelectInSeq, Matching
<1>2. Matching(variants, ref) \in SUBSET Nat
  BY DEF Matching
<1> HIDE DEF Matching
<1> QED
  BY <1>1, <1>2, MinMeaning

-----------------------------------------------------------------------------
(* The folds of the list: the length of some lines, and the messages they are *)
(* cut into.                                                                  *)

LineLengths(lines) == FoldLeft(LAMBDA n, o : n + Line(o), 0, lines)

Adding(f, lines) ==
  /\ f[0] = 0
  /\ \A k \in 0..(Len(lines) - 1) : f[k + 1] = f[k] + Line(lines[k + 1])
  /\ LineLengths(lines) = f[Len(lines)]

LEMMA LengthUnfolds ==
  ASSUME NEW lines \in Seq(OfferType)
  PROVE  \E f \in [0..Len(lines) -> Nat] : Adding(f, lines)
<1> DEFINE n == Len(lines)
           Step(acc, o) == acc + Line(o)
           op == [x \in Nat \X OfferType |-> Step(x[1], x[2])]
           Body(f) == [s \in SUBSET (DOMAIN lines) |->
                         IF s = {} THEN 0 ELSE Step(f[s \ {Max(s)}], lines[Max(s)])]
           iter == CHOOSE f : f = Body(f)
<1>1. n \in Nat /\ lines \in [1..n -> OfferType] /\ DOMAIN lines = 1..n /\ 0 \in Nat
  OBVIOUS
<1>2. \A acc \in Nat, o \in OfferType : Step(acc, o) \in Nat
  BY DEF Line, OfferType
<1>3. LineLengths(lines) = iter[1..n]
  BY <1>1 DEF LineLengths, FoldLeft, MapThenFoldSet
<1> HIDE DEF Step
<1>4. op \in [Nat \X OfferType -> Nat] /\ \A acc \in Nat, o \in OfferType : op[<<acc, o>>] = Step(acc, o)
  BY <1>2
<1> HIDE DEF op
<1>5. PICK f : LeftFold(f, Nat, op, 0, n, lines)
  <2> HIDE DEF n
  <2> QED
    BY <1>1, <1>4, FoldExists
<1>6. iter = Body(iter)
  <2>1. f[{}] = 0 /\ f \in [SUBSET (1..n) -> Nat]
    BY <1>5 DEF LeftFold
  <2>2. ASSUME NEW s \in SUBSET (1..n), s # {}
        PROVE  f[s] = Step(f[s \ {Max(s)}], lines[Max(s)])
    <3>1. /\ f[s] = op[<<f[s \ {Max(s)}], lines[Max(s)]>>]
          /\ f[s \ {Max(s)}] \in Nat /\ lines[Max(s)] \in OfferType
      <4> HIDE DEF n
      <4> QED
        BY <1>1, <1>4, <1>5, <2>2, FoldStep
    <3> QED
      BY <1>4, <3>1
  <2>3. f = Body(f)
    BY <1>1, <2>1, <2>2
  <2> QED
    BY <2>3, Zenon
<1>7. iter[{}] = 0
  <2> HIDE DEF iter
  <2> QED
    BY <1>1, <1>6
<1>8. ASSUME NEW s \in SUBSET (1..n), s # {}, iter[s \ {Max(s)}] \in Nat
      PROVE  iter[s] = op[<<iter[s \ {Max(s)}], lines[Max(s)]>>]
  <2>1. lines[Max(s)] \in OfferType
    BY <1>1, <1>8, MaxIsElement
  <2> HIDE DEF iter
  <2> QED
    BY <1>1, <1>4, <1>6, <1>8, <2>1
<1> HIDE DEF iter
<1>9. PICK g \in [0..n -> Nat] : Unfolds(g, op, 0, n, lines, iter[1..n])
  <2>1. Iterates(iter, Nat, op, 0, n, lines)
    BY <1>7, <1>8 DEF Iterates
  <2> HIDE DEF n
  <2> QED
    BY <1>1, <1>4, <2>1, FoldByPrefix
<1>10. Adding(g, lines)
  <2>1. ASSUME NEW k \in 0..(n - 1) PROVE g[k + 1] = Step(g[k], lines[k + 1])
    <3>1. g[k] \in Nat /\ lines[k + 1] \in OfferType
      BY <1>1
    <3> QED
      BY <1>4, <1>9, <3>1 DEF Unfolds
  <2> QED
    BY <1>3, <1>9, <2>1 DEF Unfolds, Adding, Step
<1> QED
  BY <1>10

LEMMA LengthsOfNone == LineLengths(<<>>) = 0
<1>1. PICK f \in [0..Len(<<>>) -> Nat] : Adding(f, <<>>)
  <2>1. <<>> \in Seq(OfferType)
    OBVIOUS
  <2> QED
    BY <2>1, LengthUnfolds
<1> QED
  BY <1>1 DEF Adding

\* A line more makes a message longer by that line.
LEMMA LengthsOfAppend ==
  ASSUME NEW lines \in Seq(OfferType), NEW o \in OfferType
  PROVE  /\ LineLengths(lines) \in Nat
         /\ LineLengths(Append(lines, o)) = LineLengths(lines) + Line(o)
<1> DEFINE n == Len(lines)
           more == Append(lines, o)
<1>1. n \in Nat /\ more \in Seq(OfferType) /\ Len(more) = n + 1 /\ more[n + 1] = o
      /\ \A k \in 1..n : more[k] = lines[k]
  OBVIOUS
<1> HIDE DEF more
<1>2. PICK f \in [0..n -> Nat] : Adding(f, lines)
  BY LengthUnfolds
<1>3. PICK g \in [0..(n + 1) -> Nat] : Adding(g, more)
  BY <1>1, LengthUnfolds
<1> HIDE DEF n
<1>4. \A k \in 0..(n - 1) : f[k + 1] = f[k] + Line(lines[k + 1])
  BY <1>2 DEF Adding, n
<1>5. \A k \in 0..n : g[k + 1] = g[k] + Line(more[k + 1])
  BY <1>1, <1>3 DEF Adding
<1> DEFINE T == {k \in 0..n : g[k] = f[k]}
<1>6. 0 \in T
  BY <1>1, <1>2, <1>3 DEF Adding
<1>7. ASSUME NEW k \in 0..(n - 1), k \in T PROVE k + 1 \in T
  <2>1. g[k] = f[k] /\ k \in 0..n /\ k + 1 \in 0..n /\ k + 1 \in 1..n
    BY <1>1, <1>7
  <2> QED
    BY <1>1, <1>4, <1>5, <2>1
<1>8. T = 0..n
  <2>1. T \in SUBSET (0..n)
    OBVIOUS
  <2> HIDE DEF T
  <2> QED
    BY <1>1, <1>6, <1>7, <2>1, PrefixInduction
<1>9. g[n] = f[n] /\ n \in 0..n
  BY <1>1, <1>8
<1>10. LineLengths(lines) = f[n] /\ LineLengths(more) = g[n + 1] /\ f[n] \in Nat
  BY <1>1, <1>2, <1>3, <1>9 DEF Adding, n
<1> QED
  BY <1>1, <1>5, <1>9, <1>10 DEF more

Chunks == [sent : Seq(Seq(OfferType)), current : Seq(OfferType), length : Nat]

NoChunk == [sent |-> <<>>, current |-> <<>>, length |-> Header]

Chunk(acc, o) ==
  IF acc.length + Line(o) > MaxLength
    THEN [sent |-> Append(acc.sent, acc.current), current |-> <<o>>,
          length |-> HeaderAgain + Line(o)]
    ELSE [acc EXCEPT !.current = Append(@, o), !.length = @ + Line(o)]

Chunked(lines) == FoldLeft(Chunk, NoChunk, lines)

Chunking(f, lines) ==
  /\ f[0] = NoChunk
  /\ \A k \in 0..(Len(lines) - 1) : f[k + 1] = Chunk(f[k], lines[k + 1])
  /\ Chunked(lines) = f[Len(lines)]

LEMMA ChunkTyped ==
  NoChunk \in Chunks /\ \A acc \in Chunks, o \in OfferType : Chunk(acc, o) \in Chunks
<1>1. NoChunk \in Chunks
  BY DEF NoChunk, Chunks, Header
<1>2. ASSUME NEW acc \in Chunks, NEW o \in OfferType PROVE Chunk(acc, o) \in Chunks
  <2>1. Line(o) \in Nat
    BY DEF Line, OfferType
  <2>2. /\ Append(acc.sent, acc.current) \in Seq(Seq(OfferType)) /\ <<o>> \in Seq(OfferType)
        /\ Append(acc.current, o) \in Seq(OfferType) /\ acc.length \in Nat
    BY DEF Chunks
  <2>3. HeaderAgain + Line(o) \in Nat /\ acc.length + Line(o) \in Nat
    BY <2>1, <2>2 DEF HeaderAgain
  <2> QED
    BY <2>2, <2>3 DEF Chunk, Chunks
<1> QED
  BY <1>1, <1>2

LEMMA ChunkUnfolds ==
  ASSUME NEW lines \in Seq(OfferType)
  PROVE  \E f \in [0..Len(lines) -> Chunks] : Chunking(f, lines)
<1> DEFINE n == Len(lines)
           op == [x \in Chunks \X OfferType |-> Chunk(x[1], x[2])]
           Body(f) == [s \in SUBSET (DOMAIN lines) |->
                         IF s = {} THEN NoChunk ELSE Chunk(f[s \ {Max(s)}], lines[Max(s)])]
           iter == CHOOSE f : f = Body(f)
<1>1. n \in Nat /\ lines \in [1..n -> OfferType] /\ DOMAIN lines = 1..n /\ NoChunk \in Chunks
  BY ChunkTyped
<1>2. \A acc \in Chunks, o \in OfferType : Chunk(acc, o) \in Chunks
  BY ChunkTyped
<1>3. Chunked(lines) = iter[1..n]
  BY <1>1 DEF Chunked, FoldLeft, MapThenFoldSet
<1>4. op \in [Chunks \X OfferType -> Chunks] /\ \A acc \in Chunks, o \in OfferType : op[<<acc, o>>] = Chunk(acc, o)
  BY <1>2
<1> HIDE DEF op
<1>5. PICK f : LeftFold(f, Chunks, op, NoChunk, n, lines)
  <2> HIDE DEF n
  <2> QED
    BY <1>1, <1>4, FoldExists
<1>6. iter = Body(iter)
  <2>1. f[{}] = NoChunk /\ f \in [SUBSET (1..n) -> Chunks]
    BY <1>5 DEF LeftFold
  <2>2. ASSUME NEW s \in SUBSET (1..n), s # {}
        PROVE  f[s] = Chunk(f[s \ {Max(s)}], lines[Max(s)])
    <3>1. /\ f[s] = op[<<f[s \ {Max(s)}], lines[Max(s)]>>]
          /\ f[s \ {Max(s)}] \in Chunks /\ lines[Max(s)] \in OfferType
      <4> HIDE DEF n
      <4> QED
        BY <1>1, <1>4, <1>5, <2>2, FoldStep
    <3> QED
      BY <1>4, <3>1
  <2>3. f = Body(f)
    BY <1>1, <2>1, <2>2
  <2> QED
    BY <2>3, Zenon
<1>7. iter[{}] = NoChunk
  <2> HIDE DEF iter
  <2> QED
    BY <1>1, <1>6
<1>8. ASSUME NEW s \in SUBSET (1..n), s # {}, iter[s \ {Max(s)}] \in Chunks
      PROVE  iter[s] = op[<<iter[s \ {Max(s)}], lines[Max(s)]>>]
  <2>1. lines[Max(s)] \in OfferType
    BY <1>1, <1>8, MaxIsElement
  <2> HIDE DEF iter
  <2> QED
    BY <1>1, <1>4, <1>6, <1>8, <2>1
<1> HIDE DEF iter
<1>9. PICK g \in [0..n -> Chunks] : Unfolds(g, op, NoChunk, n, lines, iter[1..n])
  <2>1. Iterates(iter, Chunks, op, NoChunk, n, lines)
    BY <1>7, <1>8 DEF Iterates
  <2> HIDE DEF n
  <2> QED
    BY <1>1, <1>4, <2>1, FoldByPrefix
<1>10. Chunking(g, lines)
  <2>1. ASSUME NEW k \in 0..(n - 1) PROVE g[k + 1] = Chunk(g[k], lines[k + 1])
    <3>1. g[k] \in Chunks /\ lines[k + 1] \in OfferType
      BY <1>1
    <3> QED
      BY <1>4, <1>9, <3>1 DEF Unfolds
  <2> QED
    BY <1>3, <1>9, <2>1 DEF Unfolds, Chunking
<1> QED
  BY <1>10

-----------------------------------------------------------------------------
(* The list, the leader first. *)

\* The list has every available offer once, the leader first.
LEMMA ListedMeaning ==
  ASSUME NEW offers \in Seq(OfferType), Distinct(offers), CodesDiffer(ToSet(offers)),
         NEW leader \in ToSet(Available(offers))
  PROVE  /\ Listed(offers, leader) \in Seq(OfferType)
         /\ Len(Listed(offers, leader)) = Len(Available(offers))
         /\ ToSet(Listed(offers, leader)) = ToSet(Available(offers))
         /\ Len(Available(offers)) # 0 /\ Listed(offers, leader)[1] = leader
<1> DEFINE seq == Available(offers)
           n == Len(seq)
           S == ToSet(seq)
           Before(a, b) == \/ a.offerId = leader.offerId
                           \/ b.offerId # leader.offerId /\ Cheaper(a, b)
           rel == {p \in S \X S : p[1] # p[2] /\ Before(p[1], p[2])}
           IsIt(sorted) == ToSet(sorted) = ToSet(seq) /\ IsSorted(sorted, Before)
           lines == Listed(offers, leader)
<1>1. seq \in Seq(OfferType) /\ Distinct(seq) /\ S \subseteq ToSet(offers)
  BY FilterMeaning, FilterIsDistinct DEF Available
<1>2. lines = CHOOSE sorted \in [DOMAIN seq -> ToSet(seq)] : IsIt(sorted)
  BY DEF Listed, Sorted
<1> HIDE DEF seq, lines
<1>3. n \in Nat /\ DOMAIN seq = 1..n /\ seq \in [1..n -> S] /\ S = {seq[i] : i \in 1..n}
  BY <1>1 DEF ToSet
<1>4. S \in SUBSET OfferType /\ CodesDiffer(S) /\ leader \in S
  <2>1. S \in SUBSET OfferType
    BY <1>1, <1>3
  <2>2. CodesDiffer(S)
    BY <1>1 DEF CodesDiffer
  <2> QED
    BY <2>1, <2>2 DEF seq
<1> HIDE DEF S
<1>5. StrictOrder(rel, S)
  <2>1. \A a, b \in S : <<a, b>> \in rel <=> a # b /\ Before(a, b)
    OBVIOUS
  <2> HIDE DEF rel
  <2>2. \A a, b \in S : a # b => Before(a, b) \/ Before(b, a)
    BY <1>4 DEF Cheaper, OfferType, CodesDiffer
  <2>3. ASSUME NEW a \in S, NEW b \in S, NEW c \in S,
               a # b, Before(a, b), b # c, Before(b, c)
        PROVE  a # c /\ Before(a, c)
    <3>1. a.offerId # b.offerId /\ b.offerId # c.offerId
      BY <1>4, <2>3 DEF CodesDiffer
    <3>2. a \in OfferType /\ b \in OfferType /\ c \in OfferType
      BY <1>4
    <3> QED
      BY <2>3, <3>1, <3>2 DEF Cheaper, OfferType
  <2> HIDE DEF Before
  <2> QED
    BY <2>1, <2>2, <2>3 DEF StrictOrder
<1>6. PICK s \in [1..n -> S] : Arranged(rel, s, seq, n)
  <2>1. \A i, j \in 1..n : seq[i] = seq[j] => i = j
    BY <1>1 DEF Distinct
  <2> HIDE DEF rel, n
  <2> QED
    BY <1>3, <1>5, <2>1, SortingExists
<1>7. IsIt(s)
  <2>1. Len(s) = n /\ DOMAIN s = 1..n
    BY <1>3
  <2>2. ToSet(s) = ToSet(seq)
    BY <1>3, <1>6, <2>1 DEF Arranged, ToSet, S
  <2>3. IsSorted(s, Before)
    <3>1. ASSUME NEW i \in 1..n, NEW j \in 1..n, i < j PROVE Before(s[i], s[j])
      BY <1>6, <3>1 DEF Arranged, Ordered
    <3> HIDE DEF Before
    <3> QED
      BY <2>1, <3>1 DEF IsSorted
  <2> QED
    BY <2>2, <2>3
<1> HIDE DEF IsIt
<1>8. lines \in [DOMAIN seq -> ToSet(seq)] /\ IsIt(lines)
  <2>1. s \in [DOMAIN seq -> ToSet(seq)]
    BY <1>3 DEF S
  <2> QED
    BY <1>2, <1>7, <2>1, Zenon
<1>9. lines \in [1..n -> S] /\ ToSet(lines) = S /\ IsSorted(lines, Before)
  BY <1>3, <1>8 DEF IsIt, S
<1>10. lines \in Seq(OfferType) /\ Len(lines) = n /\ DOMAIN lines = 1..n
  <2>1. lines \in [1..n -> OfferType]
    BY <1>4, <1>9
  <2> QED
    BY <1>3, <2>1
<1>11. PICK k \in 1..n : lines[k] = leader
  BY <1>4, <1>9, <1>10 DEF ToSet
<1>12. n # 0 /\ 1 \in 1..n
  BY <1>3, <1>11
<1>13. lines[1] = leader
  <2>1. CASE k = 1
    BY <1>11, <2>1
  <2>2. CASE k # 1
    <3>1. 1 < k
      BY <1>3, <2>2
    <3>2. Before(lines[1], leader)
      BY <1>9, <1>10, <1>11, <1>12, <3>1 DEF IsSorted
    <3>3. lines[1].offerId = leader.offerId /\ lines[1] \in S
      BY <1>9, <1>12, <3>2
    <3> QED
      BY <1>4, <3>3 DEF CodesDiffer
  <2> QED
    BY <2>1, <2>2
<1> QED
  BY <1>9, <1>10, <1>12, <1>13 DEF seq, lines, S

-----------------------------------------------------------------------------
(* FlattenSeq, one message after the other. *)

Flattening(f, s, n) ==
  \A i \in 1..n : f[i] = IF i = 1 THEN s[1] ELSE f[i - 1] \o s[i]

\* The recursion of FlattenSeq has a solution.
LEMMA FlatteningExists ==
  ASSUME NEW S, NEW n \in Nat, NEW s \in [1..n -> Seq(S)]
  PROVE  \E f \in [1..n -> Seq(S)] : Flattening(f, s, n)
<1> DEFINE Can(k) == \E f \in [1..k -> Seq(S)] : Flattening(f, s, k)
           T == {k \in 0..n : Can(k)}
<1>1. 0 \in T
  <2> DEFINE e == [i \in 1..0 |-> <<>>]
  <2>1. e \in [1..0 -> Seq(S)] /\ Flattening(e, s, 0)
    BY DEF Flattening
  <2> HIDE DEF e
  <2>2. Can(0)
    BY <2>1
  <2> HIDE DEF Can
  <2> QED
    BY <2>2
<1>2. ASSUME NEW k \in 0..(n - 1), k \in T PROVE k + 1 \in T
  <2>1. PICK f \in [1..k -> Seq(S)] : Flattening(f, s, k)
    BY <1>2
  <2> DEFINE next == IF k = 0 THEN s[1] ELSE f[k] \o s[k + 1]
             g == [i \in 1..(k + 1) |-> IF i \in 1..k THEN f[i] ELSE next]
  <2>2. next \in Seq(S)
    <3>1. s[k + 1] \in Seq(S) /\ s[1] \in Seq(S)
      OBVIOUS
    <3>2. k # 0 => f[k] \in Seq(S)
      OBVIOUS
    <3> QED
      BY <3>1, <3>2
  <2> HIDE DEF next
  <2>3. g \in [1..(k + 1) -> Seq(S)]
    BY <2>2
  <2>4. /\ \A i \in 1..k : g[i] = f[i] /\ i \in 1..(k + 1)
        /\ g[k + 1] = next
    OBVIOUS
  <2> HIDE DEF g
  <2>5. ASSUME NEW i \in 1..(k + 1)
        PROVE  g[i] = IF i = 1 THEN s[1] ELSE g[i - 1] \o s[i]
    <3>1. CASE i \in 1..k
      <4>1. i # 1 => i - 1 \in 1..k
        BY <3>1
      <4> QED
        BY <2>1, <2>4, <3>1, <4>1 DEF Flattening
    <3>2. CASE i = k + 1
      <4>1. i # 1 => k # 0 /\ k \in 1..k /\ i - 1 = k
        BY <3>2
      <4>2. i = 1 => k = 0
        BY <3>2
      <4> QED
        BY <2>4, <3>2, <4>1, <4>2 DEF next
    <3> QED
      BY <3>1, <3>2
  <2>6. Flattening(g, s, k + 1)
    BY <2>5 DEF Flattening
  <2>7. Can(k + 1)
    BY <2>3, <2>6
  <2> HIDE DEF Can
  <2> QED
    BY <2>7
<1>3. T = 0..n
  <2>1. T \in SUBSET (0..n)
    OBVIOUS
  <2> HIDE DEF T
  <2> QED
    BY <1>1, <1>2, <2>1, PrefixInduction
<1> QED
  BY <1>3

LEMMA FlatteningIsUnique ==
  ASSUME NEW n \in Nat, NEW s, NEW f, NEW g, Flattening(f, s, n), Flattening(g, s, n)
  PROVE  \A i \in 1..n : f[i] = g[i]
<1> DEFINE T == {k \in 0..n : k = 0 \/ f[k] = g[k]}
<1>1. ASSUME NEW k \in 0..(n - 1), k \in T PROVE k + 1 \in T
  <2>1. k + 1 \in 1..n /\ (k + 1) - 1 = k /\ (k + 1 = 1 <=> k = 0)
    OBVIOUS
  <2>2. k # 0 => f[k] = g[k]
    BY <1>1
  <2> QED
    BY <2>1, <2>2 DEF Flattening
<1>2. T = 0..n
  <2>1. T \in SUBSET (0..n) /\ 0 \in T
    OBVIOUS
  <2> HIDE DEF T
  <2> QED
    BY <1>1, <2>1, PrefixInduction
<1> QED
  BY <1>2

LEMMA FlattenUnfolds ==
  ASSUME NEW S, NEW s \in Seq(Seq(S)), Len(s) # 0
  PROVE  \E f \in [1..Len(s) -> Seq(S)] : Flattening(f, s, Len(s)) /\ FlattenSeq(s) = f[Len(s)]
<1> DEFINE n == Len(s)
           Body(f) == [i \in 1..n |-> IF i = 1 THEN s[i] ELSE f[i - 1] \o s[i]]
           flatten == CHOOSE f : f = Body(f)
<1>1. n \in Nat \ {0} /\ s \in [1..n -> Seq(S)]
  OBVIOUS
<1>2. FlattenSeq(s) = flatten[n]
  BY DEF FlattenSeq
<1>3. PICK f \in [1..n -> Seq(S)] : Flattening(f, s, n)
  <2> HIDE DEF n
  <2> QED
    BY <1>1, FlatteningExists
<1>4. f = Body(f)
  BY <1>3 DEF Flattening
<1>5. flatten = Body(flatten)
  BY <1>4, Zenon
<1> HIDE DEF flatten
<1>6. Flattening(flatten, s, n)
  <2>1. \A i \in 1..n : flatten[i] = Body(flatten)[i]
    BY <1>5
  <2> QED
    BY <2>1 DEF Flattening
<1>7. flatten[n] = f[n]
  <2> HIDE DEF n
  <2> QED
    BY <1>1, <1>3, <1>6, FlatteningIsUnique
<1> QED
  BY <1>2, <1>3, <1>7

LEMMA ConcatAppend ==
  ASSUME NEW S, NEW p \in Seq(S), NEW c \in Seq(S), NEW o \in S
  PROVE  p \o Append(c, o) = Append(p \o c, o)
<1>1. Append(c, o) = c \o <<o>>
  BY AppendIsConcat
<1>2. p \o c \in Seq(S) /\ <<o>> \in Seq(S)
  OBVIOUS
<1>3. Append(p \o c, o) = (p \o c) \o <<o>>
  BY <1>2, AppendIsConcat
<1>4. (p \o c) \o <<o>> = p \o (c \o <<o>>)
  BY <1>2, ConcatAssociative
<1> QED
  BY <1>1, <1>3, <1>4

\* A message more adds its lines.
LEMMA FlattenAppend ==
  ASSUME NEW S, NEW s \in Seq(Seq(S)), NEW m \in Seq(S)
  PROVE  /\ FlattenSeq(s) \in Seq(S)
         /\ FlattenSeq(Append(s, m)) = FlattenSeq(s) \o m
<1> DEFINE n == Len(s)
           more == Append(s, m)
<1>1. n \in Nat /\ more \in Seq(Seq(S)) /\ Len(more) = n + 1 /\ more[n + 1] = m
      /\ \A i \in 1..n : more[i] = s[i]
  OBVIOUS
<1> HIDE DEF more
<1>2. PICK g \in [1..(n + 1) -> Seq(S)] : Flattening(g, more, n + 1) /\ FlattenSeq(more) = g[n + 1]
  BY <1>1, FlattenUnfolds
<1>3. CASE n = 0
  <2>1. s = <<>> /\ FlattenSeq(s) = s
    BY <1>3 DEF FlattenSeq
  <2>2. FlattenSeq(more) = m
    BY <1>1, <1>2, <1>3 DEF Flattening
  <2>3. <<>> \in Seq(S) /\ <<>> \o m = m
    OBVIOUS
  <2> QED
    BY <2>1, <2>2, <2>3 DEF more
<1>4. CASE n # 0
  <2>1. PICK f \in [1..n -> Seq(S)] : Flattening(f, s, n) /\ FlattenSeq(s) = f[n]
    BY <1>4, FlattenUnfolds
  <2> HIDE DEF n
  <2>2. Flattening(g, s, n)
    <3>1. ASSUME NEW i \in 1..n PROVE g[i] = IF i = 1 THEN s[1] ELSE g[i - 1] \o s[i]
      <4>1. i \in 1..(n + 1) /\ more[i] = s[i] /\ more[1] = s[1]
        BY <1>1, <1>4
      <4> QED
        BY <1>2, <4>1 DEF Flattening
    <3> QED
      BY <3>1 DEF Flattening
  <2>3. f[n] = g[n] /\ n \in 1..n
    BY <1>1, <1>4, <2>1, <2>2, FlatteningIsUnique
  <2>4. g[n + 1] = g[n] \o m
    <3>1. n + 1 \in 1..(n + 1) /\ (n + 1) - 1 = n /\ n + 1 # 1
      BY <1>1, <1>4
    <3> QED
      BY <1>1, <1>2, <3>1 DEF Flattening
  <2>5. f[n] \in Seq(S)
    BY <2>1, <2>3
  <2> QED
    BY <1>2, <2>1, <2>3, <2>4, <2>5 DEF more
<1> QED
  BY <1>3, <1>4

-----------------------------------------------------------------------------
(* Cutting a list into messages. *)

HeaderAt(i) == IF i = 1 THEN Header ELSE HeaderAgain

\* Every line fits into a message below its header.
LinesFit ==
  /\ Header <= MaxLength
  /\ \A code \in Codes : HeaderAgain + Line([offerId |-> code]) <= MaxLength

Prefix(lines, k) == [i \in 1..k |-> lines[i]]

\* What holds of the messages after k lines.
ChunkInv(acc, lines, k) ==
  /\ acc \in Chunks
  /\ FlattenSeq(Append(acc.sent, acc.current)) = Prefix(lines, k)
  /\ acc.length = HeaderAt(Len(acc.sent) + 1) + LineLengths(acc.current)
  /\ acc.length <= MaxLength
  /\ \A i \in 1..Len(acc.sent) : HeaderAt(i) + LineLengths(acc.sent[i]) <= MaxLength

LEMMA ChunkInvInitially ==
  ASSUME NEW lines, Header <= MaxLength
  PROVE  ChunkInv(NoChunk, lines, 0)
<1>1. NoChunk \in Chunks
  BY ChunkTyped
<1>2. NoChunk.sent = <<>> /\ NoChunk.current = <<>> /\ NoChunk.length = Header
  BY DEF NoChunk
<1>3. Append(<<>>, <<>>) = <<<<>>>> /\ <<>> \in Seq(Seq(OfferType)) /\ <<>> \in Seq(OfferType)
  OBVIOUS
<1>4. FlattenSeq(Append(<<>>, <<>>)) = <<>>
  <2>1. FlattenSeq(Append(<<>>, <<>>)) = FlattenSeq(<<>>) \o <<>>
    BY <1>3, FlattenAppend
  <2>2. FlattenSeq(<<>>) = <<>>
    BY DEF FlattenSeq
  <2> QED
    BY <2>1, <2>2
<1>5. Prefix(lines, 0) = <<>>
  BY DEF Prefix
<1>6. HeaderAt(Len(<<>>) + 1) = Header /\ Header \in Nat /\ 1..Len(<<>>) = {}
  BY DEF HeaderAt, Header
<1> QED
  BY <1>1, <1>2, <1>4, <1>5, <1>6, LengthsOfNone DEF ChunkInv

LEMMA PrefixGrows ==
  ASSUME NEW lines \in Seq(OfferType), NEW k \in 0..(Len(lines) - 1)
  PROVE  /\ Prefix(lines, k) \in Seq(OfferType)
         /\ Append(Prefix(lines, k), lines[k + 1]) = Prefix(lines, k + 1)
         /\ lines[k + 1] \in OfferType
<1>1. k \in Nat /\ k + 1 \in 1..Len(lines) /\ \A i \in 1..(k + 1) : lines[i] \in OfferType
  OBVIOUS
<1>2. Prefix(lines, k) \in Seq(OfferType) /\ Len(Prefix(lines, k)) = k
  BY <1>1 DEF Prefix
<1>3. Append(Prefix(lines, k), lines[k + 1]) = Prefix(lines, k + 1)
  <2> DEFINE p == Prefix(lines, k)
             o == lines[k + 1]
  <2>1. \A i \in 1..k : p[i] = lines[i]
    BY DEF Prefix
  <2> HIDE DEF p
  <2>2. DOMAIN Append(p, o) = 1..(k + 1) /\ Append(p, o)[k + 1] = o
        /\ \A i \in 1..k : Append(p, o)[i] = p[i]
    BY <1>1, <1>2 DEF p
  <2>3. \A i \in 1..(k + 1) : Append(p, o)[i] = lines[i]
    BY <1>1, <2>1, <2>2
  <2>4. Append(p, o) = [i \in 1..(k + 1) |-> Append(p, o)[i]]
    BY <1>1, <1>2, <2>2 DEF p
  <2> QED
    BY <2>3, <2>4 DEF p, Prefix
<1> QED
  BY <1>1, <1>2, <1>3

\* A line goes to the current message, or to a new one below its header.
LEMMA ChunkInvByLine ==
  ASSUME NEW lines \in Seq(OfferType), NEW k \in 0..(Len(lines) - 1), NEW acc,
         ChunkInv(acc, lines, k), MaxLength \in Nat,
         HeaderAgain + Line(lines[k + 1]) <= MaxLength
  PROVE  ChunkInv(Chunk(acc, lines[k + 1]), lines, k + 1)
<1> DEFINE o == lines[k + 1]
           next == Chunk(acc, o)
           sent == acc.sent
           current == acc.current
<1>1. o \in OfferType /\ Prefix(lines, k) \in Seq(OfferType)
      /\ Append(Prefix(lines, k), o) = Prefix(lines, k + 1)
  BY PrefixGrows
<1>2. Line(o) \in Nat /\ Line(o) <= MaxLength /\ HeaderAgain + Line(o) <= MaxLength
  <2>1. Line(o) \in Nat /\ HeaderAgain \in Nat
    BY <1>1 DEF Line, OfferType, HeaderAgain
  <2> HIDE DEF o
  <2>2. HeaderAgain + Line(o) <= MaxLength
    BY DEF o
  <2> QED
    BY <2>1, <2>2
<1> HIDE DEF o
<1>3. acc \in Chunks /\ next \in Chunks
  BY <1>1, ChunkTyped DEF ChunkInv
<1>4. sent \in Seq(Seq(OfferType)) /\ current \in Seq(OfferType) /\ acc.length \in Nat
  BY <1>3 DEF Chunks
<1>5. /\ FlattenSeq(Append(sent, current)) = Prefix(lines, k)
      /\ acc.length = HeaderAt(Len(sent) + 1) + LineLengths(current)
      /\ acc.length <= MaxLength
      /\ \A i \in 1..Len(sent) : HeaderAt(i) + LineLengths(sent[i]) <= MaxLength
  BY DEF ChunkInv
<1>6. HeaderAt(Len(sent) + 1) \in Nat /\ LineLengths(current) \in Nat
  BY <1>1, <1>4, LengthsOfAppend DEF HeaderAt, Header, HeaderAgain
<1>7. CASE acc.length + Line(o) > MaxLength
  <2>1. /\ next.sent = Append(sent, current) /\ next.current = <<o>>
        /\ next.length = HeaderAgain + Line(o)
    BY <1>7 DEF Chunk
  <2> HIDE DEF next, sent, current
  <2>2. /\ Append(sent, current) \in Seq(Seq(OfferType)) /\ <<o>> \in Seq(OfferType)
        /\ Len(Append(sent, current)) = Len(sent) + 1 /\ Len(sent) \in Nat
        /\ Append(sent, current)[Len(sent) + 1] = current
        /\ \A i \in 1..Len(sent) : Append(sent, current)[i] = sent[i]
    BY <1>1, <1>4
  <2>3. FlattenSeq(Append(next.sent, next.current)) = Prefix(lines, k + 1)
    <3>1. FlattenSeq(Append(next.sent, next.current)) = Prefix(lines, k) \o <<o>>
      BY <1>5, <2>1, <2>2, FlattenAppend
    <3> DEFINE p == Prefix(lines, k)
    <3>2. p \in Seq(OfferType)
      BY <1>1
    <3>3. p \o <<o>> = Append(p, o)
      <4> HIDE DEF p
      <4> QED
        BY <1>1, <3>2
    <3> QED
      BY <1>1, <3>1, <3>3
  <2>4. next.length = HeaderAt(Len(next.sent) + 1) + LineLengths(next.current)
    <3>1. <<>> \in Seq(OfferType) /\ <<o>> = Append(<<>>, o)
      OBVIOUS
    <3>2. LineLengths(<<o>>) = Line(o)
      <4>1. LineLengths(Append(<<>>, o)) = LineLengths(<<>>) + Line(o)
        BY <1>1, <3>1, LengthsOfAppend
      <4> QED
        BY <1>2, <3>1, <4>1, LengthsOfNone
    <3>3. HeaderAt(Len(next.sent) + 1) = HeaderAgain
      BY <2>1, <2>2 DEF HeaderAt
    <3> QED
      BY <2>1, <3>2, <3>3
  <2>5. ASSUME NEW i \in 1..Len(next.sent)
        PROVE  HeaderAt(i) + LineLengths(next.sent[i]) <= MaxLength
    <3>1. CASE i \in 1..Len(sent)
      BY <1>5, <2>1, <2>2, <3>1
    <3>2. CASE i = Len(sent) + 1
      BY <1>5, <2>1, <2>2, <3>2
    <3> QED
      BY <2>1, <2>2, <3>1, <3>2
  <2>6. next.length <= MaxLength
    BY <1>2, <2>1
  <2> QED
    BY <1>3, <2>3, <2>4, <2>5, <2>6 DEF ChunkInv, next, o
<1>8. CASE ~(acc.length + Line(o) > MaxLength)
  <2>1. /\ next.sent = sent /\ next.current = Append(current, o)
        /\ next.length = acc.length + Line(o)
    BY <1>3, <1>8 DEF Chunk, Chunks
  <2> HIDE DEF next, sent, current
  <2>2. Append(current, o) \in Seq(OfferType)
    BY <1>1, <1>4
  <2>3. FlattenSeq(Append(next.sent, next.current)) = Prefix(lines, k + 1)
    <3> DEFINE p == FlattenSeq(sent)
    <3>1. p \in Seq(OfferType) /\ FlattenSeq(Append(sent, current)) = p \o current
      BY <1>4, FlattenAppend
    <3>2. FlattenSeq(Append(sent, Append(current, o))) = p \o Append(current, o)
      BY <1>4, <2>2, FlattenAppend
    <3>3. p \o Append(current, o) = Append(p \o current, o)
      <4>1. p \in Seq(OfferType) /\ current \in Seq(OfferType) /\ o \in OfferType
        BY <1>1, <1>4, <3>1
      <4> HIDE DEF p
      <4> QED
        BY <4>1, ConcatAppend
    <3> QED
      BY <1>1, <1>5, <2>1, <3>1, <3>2, <3>3
  <2>4. next.length = HeaderAt(Len(next.sent) + 1) + LineLengths(next.current)
    <3>1. LineLengths(Append(current, o)) = LineLengths(current) + Line(o)
      BY <1>1, <1>4, LengthsOfAppend
    <3> QED
      BY <1>2, <1>5, <1>6, <2>1, <3>1
  <2>5. next.length <= MaxLength
    BY <1>2, <1>4, <1>8, <2>1
  <2>6. \A i \in 1..Len(next.sent) : HeaderAt(i) + LineLengths(next.sent[i]) <= MaxLength
    BY <1>5, <2>1
  <2> QED
    BY <1>3, <2>3, <2>4, <2>5, <2>6 DEF ChunkInv, next, o
<1> QED
  BY <1>7, <1>8

\* The messages are the lines, in their order, and none of them is too long.
LEMMA ChunkMeaning ==
  ASSUME NEW lines \in Seq(OfferType), MaxLength \in Nat, Header <= MaxLength,
         \A i \in 1..Len(lines) : HeaderAgain + Line(lines[i]) <= MaxLength
  PROVE  /\ FlattenSeq(ChunkLines(lines)) = lines
         /\ \A i \in DOMAIN ChunkLines(lines) :
              HeaderAt(i) + LineLengths(ChunkLines(lines)[i]) <= MaxLength
<1> DEFINE n == Len(lines)
<1>1. PICK f \in [0..n -> Chunks] : Chunking(f, lines)
  BY ChunkUnfolds
<1>2. n \in Nat
  OBVIOUS
<1> DEFINE T == {k \in 0..n : ChunkInv(f[k], lines, k)}
<1>3. 0 \in T
  BY <1>1, <1>2, ChunkInvInitially DEF Chunking
<1>4. ASSUME NEW k \in 0..(n - 1), k \in T PROVE k + 1 \in T
  <2>1. k + 1 \in 0..n /\ k + 1 \in 1..n
    BY <1>2
  <2>2. f[k + 1] = Chunk(f[k], lines[k + 1])
    BY <1>1 DEF Chunking
  <2>3. ChunkInv(f[k], lines, k)
    BY <1>4
  <2>4. HeaderAgain + Line(lines[k + 1]) <= MaxLength
    BY <2>1
  <2>5. ChunkInv(f[k + 1], lines, k + 1)
    BY <2>2, <2>3, <2>4, ChunkInvByLine
  <2> QED
    BY <2>1, <2>5
<1>5. T = 0..n
  <2>1. T \in SUBSET (0..n)
    OBVIOUS
  <2> HIDE DEF T
  <2> QED
    BY <1>2, <1>3, <1>4, <2>1, PrefixInduction
<1> DEFINE last == f[n]
<1>6. ChunkInv(last, lines, n)
  <2>1. n \in T
    BY <1>2, <1>5
  <2> QED
    BY <2>1
<1>7. ChunkLines(lines) = Append(last.sent, last.current)
  <2>1. Chunked(lines) = last
    BY <1>1 DEF Chunking
  <2>2. ChunkLines(lines) = Append(Chunked(lines).sent, Chunked(lines).current)
    BY DEF ChunkLines, Chunked, Chunk, NoChunk
  <2> QED
    BY <2>1, <2>2
<1> HIDE DEF last
<1>8. Prefix(lines, n) = lines
  BY DEF Prefix
<1>9. last.sent \in Seq(Seq(OfferType)) /\ last.current \in Seq(OfferType)
  BY <1>6 DEF ChunkInv, Chunks
<1>10. /\ DOMAIN Append(last.sent, last.current) = 1..(Len(last.sent) + 1)
       /\ Append(last.sent, last.current)[Len(last.sent) + 1] = last.current
       /\ Len(last.sent) \in Nat
       /\ \A i \in 1..Len(last.sent) : Append(last.sent, last.current)[i] = last.sent[i]
  BY <1>9
<1>11. ASSUME NEW i \in 1..(Len(last.sent) + 1)
       PROVE  HeaderAt(i) + LineLengths(Append(last.sent, last.current)[i]) <= MaxLength
  <2>1. CASE i \in 1..Len(last.sent)
    BY <1>6, <1>10, <2>1 DEF ChunkInv
  <2>2. CASE i = Len(last.sent) + 1
    BY <1>6, <1>10, <2>2 DEF ChunkInv
  <2> QED
    BY <1>10, <2>1, <2>2
<1> QED
  BY <1>6, <1>7, <1>8, <1>10, <1>11 DEF ChunkInv

-----------------------------------------------------------------------------
(* The invariant: every answer is a sequence of variants, and no code occurs  *)
(* twice in one of them.                                                      *)

Variants == [sku : Skus, offers : Seq(RawOffers)]

AnswerInv ==
  /\ link \in Links
  /\ answer \in Seq(Variants)
  /\ \A i \in DOMAIN answer : OneOfferPerCode(answer[i].offers)

LEMMA AnswerInvInitially == CatalogInit => AnswerInv
<1> SUFFICES ASSUME CatalogInit PROVE AnswerInv
  OBVIOUS
<1>1. link \in Links /\ answer = <<>>
  BY DEF CatalogInit
<1>2. answer \in Seq(Variants) /\ DOMAIN answer = {}
  BY <1>1
<1> QED
  BY <1>1, <1>2 DEF AnswerInv

LEMMA AnswerInvByAddVariant ==
  ASSUME AnswerInv, NEW sku \in Skus, AddVariant(sku)
  PROVE  AnswerInv'
<1> DEFINE v == [sku |-> sku, offers |-> <<>>]
<1>1. v \in Variants /\ v.offers = <<>>
  BY DEF Variants
<1>2. OneOfferPerCode(v.offers)
  BY <1>1 DEF OneOfferPerCode
<1>3. link' \in Links /\ answer' = Append(answer, v) /\ answer \in Seq(Variants)
  BY DEF AddVariant, AnswerInv
<1> HIDE DEF v
<1>4. answer' \in Seq(Variants) /\ DOMAIN answer' = 1..(Len(answer) + 1)
  BY <1>1, <1>3
<1>5. ASSUME NEW i \in 1..(Len(answer) + 1) PROVE OneOfferPerCode(answer'[i].offers)
  <2>1. CASE i \in 1..Len(answer)
    <3>1. answer'[i] = answer[i] /\ i \in DOMAIN answer
      BY <1>1, <1>3, <2>1
    <3> QED
      BY <3>1 DEF AnswerInv
  <2>2. CASE i = Len(answer) + 1
    <3>1. answer'[i] = v
      BY <1>1, <1>3, <2>2
    <3> QED
      BY <1>2, <3>1
  <2> QED
    BY <1>3, <2>1, <2>2
<1> QED
  BY <1>3, <1>4, <1>5 DEF AnswerInv

LEMMA AnswerInvByAddOffer ==
  ASSUME AnswerInv, NEW raw \in RawOffers, AddOffer(raw)
  PROVE  AnswerInv'
<1> DEFINE last == Len(answer)
           offers == answer[last].offers
<1>1. answer \in Seq(Variants) /\ link' \in Links
  BY DEF AddOffer, AnswerInv
<1>2. last \in 1..Len(answer) /\ DOMAIN answer = 1..Len(answer) /\ answer[last] \in Variants
  <2>1. answer # <<>>
    BY DEF AddOffer
  <2>2. Len(answer) \in Nat /\ Len(answer) # 0
    BY <1>1, <2>1
  <2>3. last \in 1..Len(answer)
    BY <2>2
  <2> QED
    BY <1>1, <2>3
<1>3. offers \in Seq(RawOffers) /\ OneOfferPerCode(offers)
  BY <1>2 DEF AnswerInv, Variants
<1>4. \A j \in DOMAIN offers : offers[j].code # raw.code
  BY DEF AddOffer
<1>5. answer' = [answer EXCEPT ![last].offers = Append(@, raw)]
  BY DEF AddOffer
<1>6. DOMAIN answer' = DOMAIN answer
  BY <1>5
<1>7. answer'[last] = [answer[last] EXCEPT !.offers = Append(offers, raw)]
  BY <1>2, <1>5
<1>8. \A i \in DOMAIN answer : i # last => answer'[i] = answer[i]
  BY <1>5
<1>9. Append(offers, raw) \in Seq(RawOffers)
  BY <1>3
<1>10. answer'[last] \in Variants /\ answer'[last].offers = Append(offers, raw)
  BY <1>2, <1>7, <1>9 DEF Variants
<1> HIDE DEF last, offers
<1>11. OneOfferPerCode(Append(offers, raw))
  <2>1. /\ DOMAIN offers = 1..Len(offers) /\ Len(offers) \in Nat
        /\ DOMAIN Append(offers, raw) = 1..(Len(offers) + 1)
        /\ \A j \in 1..Len(offers) : Append(offers, raw)[j] = offers[j]
        /\ Append(offers, raw)[Len(offers) + 1] = raw
    BY <1>3
  <2>2. ASSUME NEW j \in 1..(Len(offers) + 1), NEW k \in 1..(Len(offers) + 1),
               Append(offers, raw)[j].code = Append(offers, raw)[k].code
        PROVE  j = k
    <3>1. CASE j \in 1..Len(offers) /\ k \in 1..Len(offers)
      BY <1>3, <2>1, <2>2, <3>1 DEF OneOfferPerCode
    <3>2. CASE j \in 1..Len(offers) /\ k = Len(offers) + 1
      BY <1>4, <2>1, <2>2, <3>2
    <3>3. CASE k \in 1..Len(offers) /\ j = Len(offers) + 1
      BY <1>4, <2>1, <2>2, <3>3
    <3>4. CASE j = Len(offers) + 1 /\ k = Len(offers) + 1
      BY <3>4
    <3> QED
      BY <2>1, <3>1, <3>2, <3>3, <3>4
  <2> QED
    BY <2>1, <2>2 DEF OneOfferPerCode
<1>12. answer' \in Seq(Variants)
  <2>1. \A i \in 1..Len(answer) : answer'[i] \in Variants
    BY <1>1, <1>2, <1>8, <1>10
  <2>2. answer' \in [1..Len(answer) -> Variants]
    BY <1>2, <1>5, <1>6, <2>1
  <2> QED
    BY <1>1, <2>2
<1>13. ASSUME NEW i \in DOMAIN answer PROVE OneOfferPerCode(answer'[i].offers)
  <2>1. CASE i = last
    BY <1>10, <1>11, <2>1
  <2>2. CASE i # last
    BY <1>8, <2>2 DEF AnswerInv
  <2> QED
    BY <2>1, <2>2
<1> QED
  BY <1>1, <1>6, <1>12, <1>13 DEF AnswerInv

LEMMA AnswerInvHolds == CatalogSpec => []AnswerInv
<1>1. AnswerInv /\ [CatalogNext]_catalogVars => AnswerInv'
  <2> SUFFICES ASSUME AnswerInv, [CatalogNext]_catalogVars PROVE AnswerInv'
    OBVIOUS
  <2>1. CASE UNCHANGED catalogVars
    BY <2>1 DEF catalogVars, AnswerInv
  <2>2. ASSUME NEW sku \in Skus, AddVariant(sku) PROVE AnswerInv'
    BY <2>2, AnswerInvByAddVariant
  <2>3. ASSUME NEW raw \in RawOffers, AddOffer(raw) PROVE AnswerInv'
    BY <2>3, AnswerInvByAddOffer
  <2> QED
    BY <2>1, <2>2, <2>3 DEF CatalogNext
<1> QED
  BY <1>1, AnswerInvInitially, PTL DEF CatalogSpec

-----------------------------------------------------------------------------
(* The offers of the variant the link leads to. *)

\* What the properties' proofs need to know of them.
OffersKnown ==
  /\ Found \in 1..Len(answer)
  /\ answer[Found].offers \in Seq(RawOffers)
  /\ AllAccepted(answer[Found].offers)
  /\ OneOfferPerCode(answer[Found].offers)
  /\ Offers \in Seq(OfferType) /\ Distinct(Offers)
  /\ ToSet(Offers) = {ParseOffer(raw) : raw \in ToSet(answer[Found].offers)}
  /\ CodesDiffer(ToSet(Offers))
  /\ 0 \notin {o.offerId : o \in ToSet(Offers)}

\* The offers of the variant found are those the catalog lists, each with its own code.
LEMMA MappedOffers ==
  ASSUME AnswerInv, Mapped
  PROVE  OffersKnown
<1> DEFINE v == answer[Found]
           n == Len(v.offers)
<1>1. Found \in 1..Len(answer)
  <2>1. answer \in Seq(Variants) /\ FindVariant(answer, Ref) # 0
    BY DEF AnswerInv, Mapped, Found
  <2>2. Matching(answer, Ref) # {} /\ FindVariant(answer, Ref) \in Matching(answer, Ref)
    BY <2>1, FoundMeaning
  <2> QED
    BY <2>2 DEF Found, Matching
<1>2. v \in Variants /\ Found \in DOMAIN answer
  BY <1>1 DEF AnswerInv
<1>3. v.offers \in Seq(RawOffers) /\ OneOfferPerCode(v.offers) /\ AllAccepted(v.offers)
  BY <1>2 DEF AnswerInv, Variants, Mapped, PayloadAccepted, AllAccepted
<1> HIDE DEF v
<1>4. n \in Nat /\ v.offers \in [1..n -> RawOffers] /\ DOMAIN v.offers = 1..n
  BY <1>3
<1>5. /\ SnapshotOffers(v) \in Seq(OfferType) /\ Distinct(SnapshotOffers(v))
      /\ ToSet(SnapshotOffers(v)) = {ParseOffer(v.offers[j]) : j \in 1..n}
  <2> HIDE DEF n
  <2> QED
    BY <1>3, <1>4, SnapshotMeaning
<1>6. Offers = SnapshotOffers(v)
  BY DEF Offers, v
<1>7. ToSet(v.offers) = {v.offers[j] : j \in 1..n}
  BY <1>4 DEF ToSet
<1>8. ToSet(Offers) = {ParseOffer(raw) : raw \in ToSet(v.offers)}
  BY <1>5, <1>6, <1>7
<1>9. ASSUME NEW j \in 1..n
      PROVE  ParseOffer(v.offers[j]).offerId = v.offers[j].code /\ v.offers[j].code # 0
  <2>1. v.offers[j] \in RawOffers /\ OfferAccepted(v.offers[j])
    BY <1>3, <1>4 DEF AllAccepted
  <2> QED
    BY <2>1, ParsedIsOffer
<1>10. CodesDiffer(ToSet(Offers)) /\ 0 \notin {o.offerId : o \in ToSet(Offers)}
  BY <1>3, <1>4, <1>5, <1>6, <1>9 DEF CodesDiffer, OneOfferPerCode
<1> QED
  BY <1>1, <1>3, <1>5, <1>6, <1>8, <1>10 DEF OffersKnown, v

-----------------------------------------------------------------------------
(* The theorems. *)


LEMMA IgnoresOrder == AnswerInv => LeaderIgnoresOrder
<1> SUFFICES ASSUME AnswerInv, Mapped PROVE SelectLeader(Reverse(Offers)) = Leader
  BY DEF LeaderIgnoresOrder
<1>1. Offers \in Seq(OfferType) /\ CodesDiffer(ToSet(Offers))
  BY MappedOffers DEF OffersKnown
<1>2. Reverse(Offers) \in Seq(OfferType) /\ ToSet(Reverse(Offers)) = ToSet(Offers)
  BY <1>1, ReverseMeaning
<1> QED
  BY <1>1, <1>2, LeaderOfSet DEF Leader

LEMMA ReachesFirst ==
  ASSUME AnswerInv, Mapped, NEW t \in Int
  PROVE  SelectOfferAtOrBelow(Offers, t) =
           IF Leader # NoOffer /\ Leader.priceMinor <= t THEN Leader ELSE NoOffer
<1>1. /\ Offers \in Seq(OfferType) /\ CodesDiffer(ToSet(Offers))
      /\ 0 \notin {o.offerId : o \in ToSet(Offers)}
  BY MappedOffers DEF OffersKnown
<1>2. NoCode = 0
  BY CatalogAssumption
<1> QED
  BY <1>1, <1>2, SelectedAtTarget DEF Leader

LEMMA ReachesFirstAtPrices == AnswerInv => LeaderReachesFirst
<1> SUFFICES ASSUME AnswerInv, Mapped,
                    NEW o \in ToSet(Offers), NEW t \in {o.priceMinor - 1, o.priceMinor}
             PROVE  SelectOfferAtOrBelow(Offers, t) =
                      IF Leader # NoOffer /\ Leader.priceMinor <= t THEN Leader ELSE NoOffer
  BY DEF LeaderReachesFirst
<1>1. Offers \in Seq(OfferType)
  BY MappedOffers DEF OffersKnown
<1>2. o \in OfferType
  BY <1>1 DEF ToSet
<1>3. t \in Int
  BY <1>2 DEF OfferType
<1> QED
  BY <1>3, ReachesFirst

LEMMA ShownIsRead == ShownPriceIsRead
<1> SUFFICES ASSUME NEW m \in 1..MaxPrice
             PROVE  ParseTargetPriceMinor(FormatPrice(m)) = m
  BY DEF ShownPriceIsRead
<1>1. MaxPrice \in Nat
  BY CatalogAssumption
<1> QED
  BY <1>1, PriceReadBack

LEMMA CheapestLeads == AnswerInv => LeaderIsCheapest
<1> DEFINE raws == ToSet(answer[Found].offers)
           buyable == {raw \in raws : raw.buyable}
           amount(raw) == Thousandths(Stated(raw))
           can == {o \in ToSet(Offers) : o.available}
           Best(best) == /\ Leader.offerId = best.code
                         /\ \A raw \in buyable :
                              \/ amount(best) < amount(raw)
                              \/ amount(best) = amount(raw) /\ best.code <= raw.code
<1> SUFFICES ASSUME AnswerInv, Mapped
             PROVE  IF buyable = {} THEN Leader = NoOffer ELSE \E best \in buyable : Best(best)
  BY DEF LeaderIsCheapest
<1>1. /\ Offers \in Seq(OfferType)
      /\ ToSet(Offers) = {ParseOffer(raw) : raw \in raws}
      /\ \A raw \in raws : raw \in RawOffers /\ OfferAccepted(raw)
  <2>1. OffersKnown
    BY MappedOffers
  <2> DEFINE offers == answer[Found].offers
  <2>2. offers \in Seq(RawOffers) /\ AllAccepted(offers)
    BY <2>1 DEF OffersKnown
  <2>3. \A raw \in ToSet(offers) : raw \in RawOffers /\ OfferAccepted(raw)
    <3> HIDE DEF offers
    <3>1. \A j \in DOMAIN offers : offers[j] \in RawOffers
      BY <2>2
    <3> QED
      BY <2>2, <3>1 DEF AllAccepted, ToSet
  <2> QED
    BY <2>1, <2>3 DEF OffersKnown
<1>2. IF can = {} THEN Leader = NoOffer
      ELSE Leader \in can /\ \A o \in can : ~Cheaper(o, Leader)
  BY <1>1, LeaderMeaning DEF Leader
<1> HIDE DEF raws
<1>3. ASSUME NEW raw \in raws
      PROVE  /\ ParseOffer(raw) \in OfferType /\ ParseOffer(raw) \in ToSet(Offers)
             /\ ParseOffer(raw).offerId = raw.code /\ ParseOffer(raw).available = raw.buyable
             /\ amount(raw) = 10 * ParseOffer(raw).priceMinor
  <2>1. raw \in RawOffers /\ OfferAccepted(raw)
    BY <1>1
  <2> QED
    BY <1>1, <2>1, ParsedIsOffer
<1>4. can = {ParseOffer(raw) : raw \in buyable}
  BY <1>1, <1>3
<1> HIDE DEF can, amount
<1>5. CASE buyable = {}
  BY <1>2, <1>4, <1>5
<1>6. CASE buyable # {}
  <2>1. PICK best \in buyable : Leader = ParseOffer(best)
    BY <1>2, <1>4, <1>6
  <2>2. ASSUME NEW raw \in buyable
        PROVE  \/ amount(best) < amount(raw)
               \/ amount(best) = amount(raw) /\ best.code <= raw.code
    <3>1. ~Cheaper(ParseOffer(raw), ParseOffer(best))
      BY <1>2, <1>4, <1>6, <2>1
    <3>2. /\ ParseOffer(raw) \in OfferType /\ ParseOffer(best) \in OfferType
          /\ ParseOffer(raw).offerId = raw.code /\ ParseOffer(best).offerId = best.code
          /\ amount(raw) = 10 * ParseOffer(raw).priceMinor
          /\ amount(best) = 10 * ParseOffer(best).priceMinor
      BY <1>3
    <3> QED
      BY <3>1, <3>2 DEF Cheaper, OfferType
  <2>3. Leader.offerId = best.code
    BY <1>3, <2>1
  <2>4. Best(best)
    BY <2>2, <2>3
  <2> HIDE DEF Best
  <2> QED
    BY <1>6, <2>4
<1> QED
  BY <1>5, <1>6

LEMMA SameIsFound == AnswerInv => MonitoringFindsTheSame
<1> SUFFICES ASSUME AnswerInv, LinkAccepted(link)
             PROVE  LET url == CanonicalUrl(Ref) IN
                    /\ LinkAccepted(url)
                    /\ Reference(url) = [Ref EXCEPT !.code = NoCode]
                    /\ Mapped /\ Carries(answer[Found], Ref.sku) =>
                         FindVariant(answer, Reference(url)) = Found
  BY DEF MonitoringFindsTheSame
<1> DEFINE url == CanonicalUrl(Ref)
           p == <<Lower("uae-en"), Ref.slug, Upper(Ref.sku), Lower("p")>>
<1>1. url.https /\ url.host = "www.noon.com" /\ url.path = p /\ url.code = NoCode
  BY DEF CanonicalUrl
<1>2. Len(p) = 4 /\ p[1] = Lower("uae-en") /\ p[2] = Ref.slug /\ p[3] = Upper(Ref.sku)
      /\ p[4] = Lower("p")
  OBVIOUS
<1> HIDE DEF url, p
<1>3. /\ AtEnd(url.path, 1) = Lower("p") /\ AtEnd(url.path, 2) = Upper(Ref.sku)
      /\ AtEnd(url.path, 3) = Ref.slug
  BY <1>1, <1>2 DEF AtEnd
<1>4. Ref.sku \in Words
  BY DEF Ref, Reference, LinkAccepted
<1>5. LinkAccepted(url)
  BY <1>1, <1>2, <1>3, <1>4 DEF LinkAccepted, Lower, Upper
<1>6. Reference(url) = [slug |-> Ref.slug, sku |-> Ref.sku, code |-> NoCode]
  BY <1>1, <1>3 DEF Reference, Upper
<1>7. Reference(url) = [Ref EXCEPT !.code = NoCode]
  BY <1>6 DEF Ref, Reference
<1>8. ASSUME Mapped, Carries(answer[Found], Ref.sku)
      PROVE  FindVariant(answer, Reference(url)) = Found
  <2> DEFINE old == Matching(answer, Ref)
             new == Matching(answer, Reference(url))
  <2>1. answer \in Seq(Variants) /\ FindVariant(answer, Ref) # 0
    BY <1>8 DEF AnswerInv, Mapped, Found
  <2>2. Found \in old /\ \A i \in old : Found <= i
    BY <2>1, FoundMeaning DEF Found
  <2>3. new \subseteq old
    BY <1>6 DEF Matching, HasOffer
  <2>4. Found \in new
    BY <1>6, <1>8, <2>2 DEF Matching
  <2>5. old \subseteq Nat
    BY DEF Matching
  <2> HIDE DEF old, new
  <2> DEFINE again == FindVariant(answer, Reference(url))
  <2>6. again \in new /\ \A i \in new : again <= i
    BY <2>1, <2>4, FoundMeaning DEF new
  <2> HIDE DEF again
  <2>7. again <= Found /\ Found <= again /\ again \in Nat /\ Found \in Nat
    BY <2>2, <2>3, <2>4, <2>5, <2>6
  <2>8. again = Found
    BY <2>7
  <2> QED
    BY <2>8 DEF again
<1> QED
  BY <1>5, <1>7, <1>8 DEF url

LEMMA CompleteList == LinesFit /\ AnswerInv => ListIsComplete
<1> DEFINE messages == OfferListMessages(Offers, Leader)
           lines == FlattenSeq(messages)
           listed == Listed(Offers, Leader)
           length(i) == (IF i = 1 THEN Header ELSE HeaderAgain)
                          + FoldLeft(LAMBDA n, o : n + Line(o), 0, messages[i])
<1> SUFFICES ASSUME LinesFit, AnswerInv, Mapped, Leader # NoOffer
             PROVE  /\ lines[1] = Leader
                    /\ Len(lines) = Len(Available(Offers))
                    /\ ToSet(lines) = ToSet(Available(Offers))
                    /\ \A i \in DOMAIN messages : length(i) <= MaxLength
  BY DEF ListIsComplete
<1>1. OffersKnown
  BY MappedOffers
<1>2. Offers \in Seq(OfferType) /\ Distinct(Offers) /\ CodesDiffer(ToSet(Offers))
  BY <1>1 DEF OffersKnown
<1>3. ToSet(Available(Offers)) = {o \in ToSet(Offers) : o.available}
  BY <1>2, FilterMeaning DEF Available
<1>4. Leader \in ToSet(Available(Offers))
  BY <1>2, <1>3, LeaderMeaning DEF Leader
<1>5. /\ listed \in Seq(OfferType) /\ Len(listed) = Len(Available(Offers))
      /\ ToSet(listed) = ToSet(Available(Offers)) /\ listed[1] = Leader
  BY <1>2, <1>4, ListedMeaning
<1>6. \A o \in ToSet(Offers) : o.offerId \in Codes
  <2>1. ASSUME NEW raw \in ToSet(answer[Found].offers) PROVE ParseOffer(raw).offerId \in Codes
    <3>1. raw \in RawOffers /\ OfferAccepted(raw)
      <4> DEFINE raws == answer[Found].offers
      <4>1. raws \in Seq(RawOffers) /\ AllAccepted(raws)
        BY <1>1 DEF OffersKnown
      <4> HIDE DEF raws
      <4>2. PICK j \in DOMAIN raws : raw = raws[j]
        BY DEF ToSet, raws
      <4> QED
        BY <4>1, <4>2 DEF AllAccepted
    <3> QED
      BY <3>1, ParsedIsOffer, CatalogAssumption DEF OfferAccepted
  <2> QED
    BY <1>1, <2>1 DEF OffersKnown
<1> HIDE DEF listed
<1>7. ASSUME NEW i \in 1..Len(listed) PROVE HeaderAgain + Line(listed[i]) <= MaxLength
  <2>1. listed[i] \in ToSet(listed)
    BY <1>5 DEF ToSet
  <2>2. listed[i].offerId \in Codes
    BY <1>3, <1>5, <1>6, <2>1
  <2>3. Line(listed[i]) = Line([offerId |-> listed[i].offerId])
    BY DEF Line
  <2> QED
    BY <2>2, <2>3 DEF LinesFit
<1>8. MaxLength \in Nat /\ Header <= MaxLength
  BY CatalogAssumption DEF LinesFit
<1>9. messages = ChunkLines(listed)
  BY DEF OfferListMessages, listed
<1> HIDE DEF messages
<1>10. lines = listed
  BY <1>5, <1>7, <1>8, <1>9, ChunkMeaning
<1>11. \A i \in DOMAIN messages : HeaderAt(i) + LineLengths(messages[i]) <= MaxLength
  BY <1>5, <1>7, <1>8, <1>9, ChunkMeaning
<1>12. \A i \in DOMAIN messages : length(i) <= MaxLength
  BY <1>11 DEF HeaderAt, LineLengths
<1> HIDE DEF lines, length
<1> QED
  BY <1>5, <1>10, <1>12

\* NoonService.selectLeader, after the parser and the mapper: whatever the catalog
\* answers, the leader is the buyable offer of the variant found whose stated amount is
\* lowest, and of several the one with the lowest code.
THEOREM LeaderSelected == CatalogSpec => []LeaderIsCheapest
  BY AnswerInvHolds, CheapestLeads, PTL

\* NoonService.selectLeader: the leader does not depend on the order of the offers.
THEOREM OrderIgnored == CatalogSpec => []LeaderIgnoresOrder
  BY AnswerInvHolds, IgnoresOrder, PTL

\* NoonService.selectOfferAtOrBelow: what it selects for a target price is the leader, or
\* nothing, so that comparing the leader's price is enough.
THEOREM TargetNeedsLeader == CatalogSpec => []LeaderReachesFirst
  BY AnswerInvHolds, ReachesFirstAtPrices, PTL

\* formatPrice and parseTargetPriceMinor: the amount shown for an offer is read back as
\* the price of that offer, if it can be a target price at all.
THEOREM PriceShownIsRead == CatalogSpec => []ShownPriceIsRead
  BY ShownIsRead, PTL

\* parseNoonProductUrl and buildCanonicalUrl: the canonical link is accepted again and
\* leads the monitoring to the variant the chat's link led to, if that has its SKU.
THEOREM CanonicalFindsSame == CatalogSpec => []MonitoringFindsTheSame
  BY AnswerInvHolds, SameIsFound, PTL

\* offerListMessages, chunkLines: if every line fits into a message, the messages of the
\* list name every available offer once, the leader first, and none is too long.
THEOREM ListNamesAll ==
  ASSUME LinesFit
  PROVE  CatalogSpec => []ListIsComplete
<1>1. AnswerInv => ListIsComplete
  BY LinesFit, CompleteList
<1> QED
  BY <1>1, AnswerInvHolds, PTL

=============================================================================
