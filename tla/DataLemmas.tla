---------------------------- MODULE DataLemmas ----------------------------
(***************************************************************************)
(* Lemmas about data.  What RemoveFirst, Tail and Append do to a list      *)
(* without repetitions: the elements stay in order, none is repeated, and  *)
(* the set of elements loses or gains exactly one; the engine's lists are  *)
(* such sequences.  And what becomes of a sum over a finite set when the   *)
(* set or one of its summands changes; the engine's counts are such sums.  *)
(***************************************************************************)
EXTENDS Integers, FiniteSets, SequencesExt, SequenceTheorems,
        FiniteSetTheorems, WellFoundedInduction, TLAPS

\* The smallest element of a singleton.
LEMMA SingletonMin ==
    ASSUME NEW i \in Int
    PROVE  Min({i}) = i
BY DEF Min

\* Removing the only occurrence of the k-th element cuts the sequence at k.
LEMMA RemoveFirstAt ==
    ASSUME NEW S, NEW s \in Seq(S), IsInjective(s), NEW k \in 1..Len(s)
    PROVE  RemoveFirst(s, s[k]) = SubSeq(s, 1, k-1) \o SubSeq(s, k+1, Len(s))
<1>1. DOMAIN s = 1..Len(s)
  OBVIOUS
<1>2. {i \in 1..Len(s) : s[i] = s[k]} = {k}
  BY <1>1 DEF IsInjective
<1>3. SelectInSeq(s, LAMBDA v : v = s[k]) = k
  BY <1>2, SingletonMin DEF SelectInSeq
<1> QED
  BY <1>3 DEF RemoveFirst, RemoveAt

\* Removing the k-th element of a list without repetitions shifts the later
\* ones down by one.
LEMMA RemoveFirstElements ==
    ASSUME NEW S, NEW s \in Seq(S), IsInjective(s), NEW k \in 1..Len(s)
    PROVE  LET r == RemoveFirst(s, s[k])
           IN  /\ r \in Seq(S)
               /\ Len(r) = Len(s) - 1
               /\ \A i \in 1..Len(r) : r[i] = IF i < k THEN s[i] ELSE s[i+1]
<1> DEFINE a == SubSeq(s, 1, k-1)
           b == SubSeq(s, k+1, Len(s))
<1>0. Len(s) \in Nat /\ k \in Int
  BY LenProperties
<1>1. /\ a \in Seq(S)
      /\ Len(a) = k - 1
      /\ \A i \in 1..k-1 : a[i] = s[i]
  <2>1. \A i \in 1..k-1 : s[i] \in S
    BY ElementOfSeq
  <2> QED
    BY <2>1, SubSeqProperties
<1>2. /\ b \in Seq(S)
      /\ Len(b) = Len(s) - k
      /\ \A i \in 1..Len(s)-k : b[i] = s[k+i]
  <2>1. \A i \in k+1..Len(s) : s[i] \in S
    BY ElementOfSeq
  <2> QED
    BY <2>1, SubSeqProperties
<1> HIDE DEF a, b
<1>3. /\ a \o b \in Seq(S)
      /\ Len(a \o b) = Len(s) - 1
      /\ \A i \in 1..Len(s)-1 : (a \o b)[i] = IF i < k THEN s[i] ELSE s[i+1]
  <2>1. Len(a) + Len(b) = Len(s) - 1
    BY <1>1, <1>2
  <2>2. /\ a \o b \in Seq(S)
        /\ Len(a \o b) = Len(s) - 1
        /\ \A i \in 1..Len(s)-1 : (a \o b)[i] = IF i <= k-1 THEN a[i] ELSE b[i-(k-1)]
    <3>1. /\ a \o b \in Seq(S)
          /\ Len(a \o b) = Len(a) + Len(b)
          /\ \A i \in 1..Len(a) + Len(b) :
                (a \o b)[i] = IF i <= Len(a) THEN a[i] ELSE b[i - Len(a)]
      BY <1>1, <1>2, ConcatProperties
    <3> QED
      BY <1>1, <2>1, <3>1
  <2>3. ASSUME NEW i \in 1..Len(s)-1
        PROVE  (a \o b)[i] = IF i < k THEN s[i] ELSE s[i+1]
    <3>1. CASE i < k
      BY <1>1, <2>2, <3>1
    <3>2. CASE i >= k
      <4>1. i-(k-1) \in 1..Len(s)-k /\ k + (i-(k-1)) = i+1 /\ ~(i <= k-1)
        BY <1>0, <3>2
      <4>2. b[i-(k-1)] = s[i+1]
        BY <1>2, <4>1
      <4> QED
        BY <1>0, <2>2, <3>2, <4>1, <4>2
    <3>3. i < k \/ i >= k
      BY <1>0
    <3> QED
      BY <3>1, <3>2, <3>3
  <2> QED
    BY <2>2, <2>3
<1>4. RemoveFirst(s, s[k]) = a \o b
  BY RemoveFirstAt DEF a, b
<1> QED
  BY <1>3, <1>4

\* Unlinking an element from a list without repetitions.
LEMMA RemoveFirstProperties ==
    ASSUME NEW S, NEW s \in Seq(S), IsInjective(s), NEW e
    PROVE  LET r == RemoveFirst(s, e)
           IN  /\ r \in Seq(S)
               /\ IsInjective(r)
               /\ ToSet(r) = ToSet(s) \ {e}
               /\ Len(r) = IF e \in ToSet(s) THEN Len(s) - 1 ELSE Len(s)
               /\ s # <<>> /\ s[1] # e => r # <<>> /\ r[1] = s[1]
<1> DEFINE r == RemoveFirst(s, e)
<1>0. DOMAIN s = 1..Len(s) /\ Len(s) \in Nat
  BY LenProperties
<1>1. CASE e \notin ToSet(s)
  <2>1. r = s
    BY <1>0, <1>1 DEF RemoveFirst, ToSet
  <2> QED
    BY <1>1, <2>1
<1>2. CASE e \in ToSet(s)
  <2>1. PICK k \in 1..Len(s) : s[k] = e
    BY <1>0, <1>2 DEF ToSet
  <2>2. /\ r \in Seq(S)
        /\ Len(r) = Len(s) - 1
        /\ \A i \in 1..Len(r) : r[i] = IF i < k THEN s[i] ELSE s[i+1]
    BY <2>1, RemoveFirstElements
  <2> HIDE DEF r
  <2>3. DOMAIN r = 1..Len(s)-1
    BY <2>2, LenProperties
  <2>4. IsInjective(r)
    <3>1. \A i, j \in 1..Len(s) : s[i] = s[j] => i = j
      BY <1>0 DEF IsInjective
    <3>2. \A i, j \in 1..Len(s)-1 : r[i] = r[j] => i = j
      BY <1>0, <2>2, <3>1
    <3> QED
      BY <2>3, <3>2 DEF IsInjective
  <2>5. ASSUME NEW i \in 1..Len(r)
        PROVE  r[i] \in ToSet(s) \ {e}
    <3>1. PICK j \in 1..Len(s) : r[i] = s[j] /\ j # k
      BY <1>0, <2>2, <2>5
    <3> QED
      BY <1>0, <2>1, <3>1 DEF ToSet, IsInjective
  <2>6. ASSUME NEW x \in ToSet(s) \ {e}
        PROVE  x \in ToSet(r)
    <3>1. PICK j \in 1..Len(s) : s[j] = x /\ j # k
      BY <1>0, <2>1, <2>6 DEF ToSet
    <3>2. CASE j < k
      <4>1. j \in 1..Len(r) /\ r[j] = x
        BY <1>0, <2>1, <2>2, <3>1, <3>2
      <4> QED
        BY <2>2, <2>3, <4>1 DEF ToSet
    <3>3. CASE j > k
      <4>1. j-1 \in 1..Len(r) /\ r[j-1] = x
        BY <1>0, <2>1, <2>2, <3>1, <3>3
      <4> QED
        BY <2>2, <2>3, <4>1 DEF ToSet
    <3> QED
      BY <3>1, <3>2, <3>3
  <2>7. ToSet(r) = ToSet(s) \ {e}
    BY <2>2, <2>3, <2>5, <2>6 DEF ToSet
  <2>8. ASSUME s # <<>>, s[1] # e
        PROVE  r # <<>> /\ r[1] = s[1]
    <3>1. k > 1 /\ 1 \in 1..Len(r)
      BY <1>0, <2>1, <2>2, <2>8
    <3> QED
      BY <2>2, <3>1, EmptySeq
  <2> QED
    BY <1>2, <2>2, <2>4, <2>7, <2>8 DEF r
<1> QED
  BY <1>1, <1>2

\* Taking the head of a list without repetitions.
LEMMA TailProperties ==
    ASSUME NEW S, NEW s \in Seq(S), IsInjective(s), s # <<>>
    PROVE  /\ Tail(s) \in Seq(S)
           /\ IsInjective(Tail(s))
           /\ ToSet(Tail(s)) = ToSet(s) \ {s[1]}
<1>0. DOMAIN s = 1..Len(s) /\ Len(s) \in Nat \ {0}
  BY LenProperties, EmptySeq
<1>1. /\ Tail(s) \in Seq(S)
      /\ Len(Tail(s)) = Len(s) - 1
      /\ \A i \in 1..Len(s)-1 : Tail(s)[i] = s[i+1]
  BY HeadTailProperties
<1>2. DOMAIN Tail(s) = 1..Len(s)-1
  BY <1>1, LenProperties
<1>3. IsInjective(Tail(s))
  BY <1>0, <1>1, <1>2 DEF IsInjective
<1>4. ASSUME NEW x \in ToSet(s) \ {s[1]}
      PROVE  x \in ToSet(Tail(s))
  <2>1. PICK j \in 2..Len(s) : s[j] = x
    BY <1>0, <1>4 DEF ToSet
  <2>2. j-1 \in 1..Len(s)-1 /\ Tail(s)[j-1] = x
    BY <1>0, <1>1, <2>1
  <2> QED
    BY <1>2, <2>2 DEF ToSet
<1>5. ASSUME NEW x \in ToSet(Tail(s))
      PROVE  x \in ToSet(s) \ {s[1]}
  BY <1>0, <1>1, <1>2, <1>5 DEF ToSet, IsInjective
<1> QED
  BY <1>1, <1>3, <1>4, <1>5

\* Linking an element at the tail.
LEMMA AppendElement ==
    ASSUME NEW S, NEW s \in Seq(S), IsInjective(s), NEW e \in S, e \notin ToSet(s)
    PROVE  /\ Append(s, e) \in Seq(S)
           /\ IsInjective(Append(s, e))
           /\ ToSet(Append(s, e)) = ToSet(s) \cup {e}
           /\ Len(Append(s, e)) = Len(s) + 1
<1> DEFINE r == Append(s, e)
<1>0. DOMAIN s = 1..Len(s) /\ Len(s) \in Nat
  BY LenProperties
<1>1. /\ r \in Seq(S)
      /\ Len(r) = Len(s) + 1
      /\ \A i \in 1..Len(s) : r[i] = s[i]
      /\ r[Len(s) + 1] = e
  BY AppendProperties
<1>2. DOMAIN r = 1..Len(s)+1
  BY <1>1, LenProperties
<1> HIDE DEF r
<1>3. IsInjective(r)
  BY <1>0, <1>1, <1>2 DEF IsInjective, ToSet
<1>4. ToSet(r) = ToSet(s) \cup {e}
  <2>1. ASSUME NEW x \in ToSet(r)
        PROVE  x \in ToSet(s) \cup {e}
    BY <1>0, <1>1, <1>2 DEF ToSet
  <2>2. ASSUME NEW x \in ToSet(s)
        PROVE  x \in ToSet(r)
    <3>1. PICK j \in 1..Len(s) : s[j] = x
      BY <1>0 DEF ToSet
    <3> QED
      BY <1>0, <1>1, <1>2, <3>1 DEF ToSet
  <2>3. e \in ToSet(r)
    BY <1>0, <1>1, <1>2 DEF ToSet
  <2> QED
    BY <2>1, <2>2, <2>3
<1> QED
  BY <1>1, <1>3, <1>4 DEF r

\* A non-empty set of positions has a first one.
LEMMA LeastExists ==
    ASSUME NEW I, I \subseteq Nat, I # {}
    PROVE  \E x \in I : \A y \in I : x =< y
<1>1. \E x \in I : \A y \in I : ~ (<<y, x>> \in OpToRel(<, Nat))
  BY WFMin, NatLessThanWellFounded
<1>2. PICK x \in I : \A y \in I : ~ (<<y, x>> \in OpToRel(<, Nat))
  BY <1>1
<1>3. ASSUME NEW y \in I
      PROVE  x =< y
  <2>1. ~(y < x)
    <3>1. <<y, x>> \in Nat \X Nat
      OBVIOUS
    <3>2. <<y, x>> \notin {ss \in Nat \X Nat : ss[1] < ss[2]}
      BY <1>2 DEF OpToRel
    <3> QED
      BY <3>1, <3>2
  <2> QED
    BY <2>1
<1> QED
  BY <1>3

LEMMA MinInSet ==
    ASSUME NEW I, I \subseteq Nat, I # {}
    PROVE  Min(I) \in I
BY LeastExists DEF Min

LEMMA MinIsLeast ==
    ASSUME NEW I, I \subseteq Nat, NEW y \in I
    PROVE  Min(I) =< y
<1>1. \E x \in I : \A z \in I : x =< z
  BY LeastExists
<1> QED
  BY <1>1 DEF Min

-----------------------------------------------------------------------------
(* Sums over finite sets.  The library's induction theorems take an operator, *)
(* which the provers cannot instantiate; over the subsets of a finite set the *)
(* well-foundedness of the strict subset relation does the same for a set.    *)

\* What holds of a subset when it holds of all its strict subsets holds of all
\* subsets.
LEMMA SubsetInduction ==
    ASSUME NEW S, IsFiniteSet(S), NEW G,
           \A T \in SUBSET S : (\A U \in SUBSET T : U # T => U \in G) => T \in G
    PROVE  \A T \in SUBSET S : T \in G
<1> DEFINE Bad == {T \in SUBSET S : T \notin G}
<1> SUFFICES ASSUME Bad # {} PROVE FALSE
  OBVIOUS
<1>1. Bad \subseteq FiniteSubsetsOf(S)
  BY FS_FiniteSubsetsOfFinite
<1>2. IsWellFoundedOn(StrictSubsetOrdering(S), FiniteSubsetsOf(S))
  BY FS_StrictSubsetOrderingWellFounded
<1>3. PICK T \in Bad : \A U \in Bad : <<U, T>> \notin StrictSubsetOrdering(S)
  <2> HIDE DEF Bad
  <2> QED
    BY <1>1, <1>2, WFMin
<1>4. \A U \in SUBSET T : U # T => U \in G
  BY <1>3 DEF StrictSubsetOrdering
<1> QED
  BY <1>3, <1>4

\* g[T] is the sum of f over T, for every subset T of S.
IsSum(g, S, f) ==
    /\ g \in [SUBSET S -> Int]
    /\ g[{}] = 0
    /\ \A T \in SUBSET S : \A x \in T : g[T] = f[x] + g[T \ {x}]

\* Every function over a finite set has its sums.
LEMMA SumExists ==
    ASSUME NEW S, IsFiniteSet(S), NEW f, \A x \in S : f[x] \in Int
    PROVE  \E g : IsSum(g, S, f)
<1> DEFINE G == {T \in SUBSET S : \E g : IsSum(g, T, f)}
<1>1. {} \in G
  <2>1. IsSum([T \in SUBSET {} |-> 0], {}, f)
    BY DEF IsSum
  <2> QED
    BY <2>1
<1>2. ASSUME NEW T \in SUBSET S, NEW x \in S \ T, T \in G
      PROVE  T \cup {x} \in G
  <2>1. PICK g : IsSum(g, T, f)
    BY <1>2
  <2> DEFINE h == [U \in SUBSET (T \cup {x}) |-> IF x \in U THEN f[x] + g[U \ {x}] ELSE g[U]]
  <2>2. \A U \in SUBSET (T \cup {x}) : /\ U \ {x} \in SUBSET T
                                       /\ x \notin U => U \in SUBSET T
    OBVIOUS
  <2>3. g \in [SUBSET T -> Int] /\ f[x] \in Int
    BY <2>1 DEF IsSum
  <2>4. h \in [SUBSET (T \cup {x}) -> Int] /\ h[{}] = 0
    BY <2>1, <2>2, <2>3 DEF IsSum
  <2>5. ASSUME NEW U \in SUBSET (T \cup {x}), NEW y \in U
        PROVE  h[U] = f[y] + h[U \ {y}]
    <3>1. CASE x \notin U
      BY <3>1, <2>1, <2>2 DEF IsSum
    <3>2. CASE x = y
      BY <3>2, <2>2
    <3>3. CASE x \in U /\ x # y
      <4> DEFINE V == U \ {x}
      <4>1. V \in SUBSET T /\ y \in V /\ V \ {y} = (U \ {y}) \ {x} /\ V \ {y} \in SUBSET T
        BY <3>3
      <4>2. h[U] = f[x] + g[V] /\ h[U \ {y}] = f[x] + g[V \ {y}]
        BY <3>3, <4>1
      <4> HIDE DEF h, V
      <4>3. g[V] = f[y] + g[V \ {y}]
        BY <4>1, <2>1 DEF IsSum
      <4>4. f[y] \in Int /\ f[x] \in Int /\ g[V \ {y}] \in Int
        BY <4>1, <2>3
      <4> QED
        BY <4>2, <4>3, <4>4
    <3> QED
      BY <3>1, <3>2, <3>3
  <2> HIDE DEF h
  <2>6. IsSum(h, T \cup {x}, f)
    BY <2>4, <2>5 DEF IsSum
  <2>7. T \cup {x} \in SUBSET S
    BY <1>2
  <2> QED
    BY <2>6, <2>7
<1> HIDE DEF G
<1>3. ASSUME NEW T \in SUBSET S, \A U \in SUBSET T : U # T => U \in G
      PROVE  T \in G
  <2>1. CASE T = {}
    BY <1>1, <2>1
  <2>2. CASE T # {}
    <3>1. PICK x \in T : TRUE
      BY <2>2
    <3>2. T \ {x} \in G /\ T \ {x} \in SUBSET S /\ x \in S \ (T \ {x})
      BY <1>3, <3>1
    <3>3. (T \ {x}) \cup {x} \in G
      BY <1>2, <3>2
    <3> QED
      BY <3>1, <3>3, (T \ {x}) \cup {x} = T
  <2> QED
    BY <2>1, <2>2
<1>4. \A T \in SUBSET S : T \in G
  BY <1>3, SubsetInduction
<1> QED
  BY <1>4 DEF G

\* Adds(iter, S, f): iter adds up f in the order in which CHOOSE takes the elements.
Adds(iter, S, f) ==
    \A T \in SUBSET S :
        iter[T] = IF T = {} THEN 0
                  ELSE f[CHOOSE x \in T : TRUE] + iter[T \ {CHOOSE x \in T : TRUE}]

\* A sum in the order of CHOOSE is the sum in any order.
LEMMA AddsIsSum ==
    ASSUME NEW S, IsFiniteSet(S), NEW f, \A x \in S : f[x] \in Int,
           NEW g, IsSum(g, S, f), NEW iter, Adds(iter, S, f)
    PROVE  iter[S] = g[S]
<1> DEFINE G == {T \in SUBSET S : iter[T] = g[T]}
<1>1. ASSUME NEW T \in SUBSET S, \A U \in SUBSET T : U # T => U \in G
      PROVE  T \in G
  <2>1. CASE T = {}
    BY <2>1 DEF IsSum, Adds
  <2>2. CASE T # {}
    <3> DEFINE x == CHOOSE y \in T : TRUE
    <3>1. x \in T
      BY <2>2
    <3> HIDE DEF x
    <3>2. iter[T] = f[x] + iter[T \ {x}]
      BY <2>2 DEF x, Adds
    <3>3. T \ {x} \in G
      BY <1>1, <3>1
    <3>4. g[T] = f[x] + g[T \ {x}]
      BY <3>1 DEF IsSum
    <3> QED
      BY <3>2, <3>3, <3>4
  <2> QED
    BY <2>1, <2>2
<1> HIDE DEF G
<1>2. S \in G
  BY <1>1, SubsetInduction
<1> QED
  BY <1>2 DEF G

\* The sums of two functions that agree are equal.
LEMMA SumsAgree ==
    ASSUME NEW S, IsFiniteSet(S), NEW f, NEW h, \A x \in S : f[x] = h[x],
           NEW g, IsSum(g, S, f), NEW k, IsSum(k, S, h)
    PROVE  g[S] = k[S]
<1> DEFINE G == {T \in SUBSET S : g[T] = k[T]}
<1>1. ASSUME NEW T \in SUBSET S, \A U \in SUBSET T : U # T => U \in G
      PROVE  T \in G
  <2>1. CASE T = {}
    BY <2>1 DEF IsSum
  <2>2. CASE T # {}
    <3>1. PICK x \in T : TRUE
      BY <2>2
    <3>2. T \ {x} \in G
      BY <1>1, <3>1
    <3>3. g[T] = f[x] + g[T \ {x}] /\ k[T] = h[x] + k[T \ {x}]
      BY <3>1 DEF IsSum
    <3> QED
      BY <3>1, <3>2, <3>3
  <2> QED
    BY <2>1, <2>2
<1> HIDE DEF G
<1>2. S \in G
  BY <1>1, SubsetInduction
<1> QED
  BY <1>2 DEF G

\* The sum of f over S.
Total(f, S) == (CHOOSE g : IsSum(g, S, f))[S]

LEMMA TotalType ==
    ASSUME NEW S, IsFiniteSet(S), NEW f, \A x \in S : f[x] \in Int
    PROVE  Total(f, S) \in Int
<1> DEFINE g == CHOOSE k : IsSum(k, S, f)
<1>1. IsSum(g, S, f)
  BY SumExists, Zenon
<1> HIDE DEF g
<1>2. g[S] \in Int
  BY <1>1 DEF IsSum
<1> QED
  BY <1>2 DEF Total, g

LEMMA TotalIs ==
    ASSUME NEW S, IsFiniteSet(S), NEW f, \A x \in S : f[x] \in Int, NEW g, IsSum(g, S, f)
    PROVE  Total(f, S) = g[S]
<1> DEFINE k == CHOOSE h : IsSum(h, S, f)
<1>1. IsSum(k, S, f)
  BY SumExists, Zenon
<1> HIDE DEF k
<1>2. k[S] = g[S]
  BY <1>1, SumsAgree
<1> QED
  BY <1>2 DEF Total, k

\* The sum over no element.
LEMMA TotalEmpty == \A f : Total(f, {}) = 0
<1> SUFFICES ASSUME NEW f PROVE Total(f, {}) = 0
  OBVIOUS
<1> DEFINE g == [T \in SUBSET {} |-> 0]
<1>1. IsSum(g, {}, f) /\ g[{}] = 0
  BY DEF IsSum
<1> HIDE DEF g
<1> QED
  BY <1>1, TotalIs, FS_EmptySet

\* Two functions that agree on a set have the same sum over it.
LEMMA TotalSame ==
    ASSUME NEW S, IsFiniteSet(S), NEW f, NEW h,
           \A x \in S : f[x] \in Int /\ f[x] = h[x]
    PROVE  Total(f, S) = Total(h, S)
<1>1. PICK g : IsSum(g, S, f)
  BY SumExists
<1>2. PICK k : IsSum(k, S, h)
  BY SumExists
<1>3. g[S] = k[S]
  BY <1>1, <1>2, SumsAgree
<1> QED
  BY <1>1, <1>2, <1>3, TotalIs

\* A new element adds its value.
LEMMA TotalAdd ==
    ASSUME NEW S, IsFiniteSet(S), NEW c, c \notin S, NEW f,
           \A x \in S \cup {c} : f[x] \in Int
    PROVE  Total(f, S \cup {c}) = f[c] + Total(f, S)
<1>1. IsFiniteSet(S \cup {c})
  BY FS_AddElement
<1>2. PICK g : IsSum(g, S \cup {c}, f)
  BY <1>1, SumExists
<1> DEFINE k == [T \in SUBSET S |-> g[T]]
<1>3. IsSum(k, S, f)
  <2>1. k \in [SUBSET S -> Int] /\ k[{}] = 0
    BY <1>2 DEF IsSum
  <2>2. ASSUME NEW T \in SUBSET S, NEW x \in T
        PROVE  k[T] = f[x] + k[T \ {x}]
    <3>1. T \in SUBSET (S \cup {c}) /\ k[T] = g[T] /\ k[T \ {x}] = g[T \ {x}]
      OBVIOUS
    <3> QED
      BY <3>1, <1>2 DEF IsSum
  <2> HIDE DEF k
  <2> QED
    BY <2>1, <2>2 DEF IsSum
<1>4. k[S] = g[S]
  OBVIOUS
<1>5. g[S \cup {c}] = f[c] + g[(S \cup {c}) \ {c}]
  BY <1>2 DEF IsSum
<1>6. (S \cup {c}) \ {c} = S
  OBVIOUS
<1>7. Total(f, S \cup {c}) = g[S \cup {c}]
  BY <1>1, <1>2, TotalIs
<1> HIDE DEF k
<1>8. Total(f, S) = k[S]
  BY <1>3, TotalIs
<1> QED
  BY <1>4, <1>5, <1>6, <1>7, <1>8

\* A set without one of its elements lacks its value.
LEMMA TotalRemove ==
    ASSUME NEW S, IsFiniteSet(S), NEW c \in S, NEW f, \A x \in S : f[x] \in Int
    PROVE  Total(f, S \ {c}) = Total(f, S) - f[c]
<1>1. IsFiniteSet(S \ {c}) /\ (S \ {c}) \cup {c} = S
  BY FS_RemoveElement
<1>2. Total(f, (S \ {c}) \cup {c}) = f[c] + Total(f, S \ {c})
  BY <1>1, TotalAdd
<1>3. Total(f, S \ {c}) \in Int /\ f[c] \in Int
  BY <1>1, TotalType
<1>4. Total(f, S) = f[c] + Total(f, S \ {c})
  BY <1>1, <1>2
<1> QED
  BY <1>3, <1>4

\* A function that changes in one element changes the sum by the difference.
LEMMA TotalChange ==
    ASSUME NEW S, IsFiniteSet(S), NEW c \in S, NEW f, NEW h, h[c] \in Int,
           \A x \in S : f[x] \in Int /\ (x # c => f[x] = h[x])
    PROVE  Total(h, S) = Total(f, S) + h[c] - f[c]
<1>1. IsFiniteSet(S \ {c})
  BY FS_RemoveElement
<1>2. Total(f, S \ {c}) = Total(h, S \ {c})
  BY <1>1, TotalSame
<1>3. Total(f, S \ {c}) = Total(f, S) - f[c] /\ Total(h, S \ {c}) = Total(h, S) - h[c]
  BY TotalRemove
<1>4. Total(f, S) \in Int /\ Total(h, S) \in Int
  BY TotalType
<1> QED
  BY <1>2, <1>3, <1>4

=============================================================================
