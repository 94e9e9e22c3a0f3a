------------------------ MODULE SfeListLinksProofs ------------------------
(***************************************************************************)
(* The pointers of sfe_ipv4.c implement its lists, for any number of       *)
(* connections and any hash functions.  Each list is described by the      *)
(* sequence of its nodes; an assignment of pointers is followed by what it *)
(* does to that sequence, and to no other list.                            *)
(***************************************************************************)
EXTENDS SfeListLinks, DataLemmas

\* What is linked by the pair of pointers that t names.
NodesOf(t) == IF t \in {"conn", "all"} THEN Conns ELSE Matches

\* The list that the pair of pointers x is for.
ListOf(x) == CASE x[1] = "conn"   -> ConnChain(x[2])
               [] x[1] = "all"    -> All
               [] x[1] = "match"  -> MatchChain(x[2])
               [] x[1] = "active" -> Active

Memory(s) == s \in [next : [Links -> Pointers], prev : [Links -> Pointers],
                    head : [Lists -> Pointers], tail : [Tailed -> Pointers]]

\* What a pointer to the i-th node of q holds.
At(q, i) == IF i \in 1 .. Len(q) THEN q[i] ELSE NULL

\* The nodes of the list l are q, in this order.
Path(s, l, q) ==
    /\ q \in Seq(NodesOf(l[1])) /\ IsInjective(q)
    /\ s.head[l] = At(q, 1)
    /\ l \in Tailed => s.tail[l] = At(q, Len(q))
    /\ \A i \in 1 .. Len(q) : /\ s.next[<<l[1], q[i]>>] = At(q, i + 1)
                              /\ s.prev[<<l[1], q[i]>>] = At(q, i - 1)

\* Of the nodes of the list l, those whose pointers are in use.
On(E, l) == {n \in NodesOf(l[1]) : <<l[1], n>> \in E /\ ListOf(<<l[1], n>>) = l}

\* The lists Q are the lists in s, and link what E says is in use.
Holds(s, E, Q) ==
    /\ Memory(s)
    /\ E \subseteq Links
    /\ DOMAIN Q = Lists
    /\ \A l \in Lists : Path(s, l, Q[l]) /\ ToSet(Q[l]) = On(E, l)

\* From s to t only the list l and the nodes X on it change.
Elsewhere(s, t, l, X) ==
    /\ \A x \in Links : \/ x[1] = l[1] /\ x[2] \in X
                        \/ t.next[x] = s.next[x] /\ t.prev[x] = s.prev[x]
    /\ \A k \in Lists \ {l} : t.head[k] = s.head[k]
    /\ \A k \in Tailed \ {l} : t.tail[k] = s.tail[k]

-----------------------------------------------------------------------------
(* Nodes, links and lists.                                                 *)

LEMMA LinksAre ==
  /\ \A t \in {"conn", "all", "match", "active"} : \A n \in NodesOf(t) : <<t, n>> \in Links
  /\ \A x \in Links : /\ x = <<x[1], x[2]>>
                      /\ x[1] \in {"conn", "all", "match", "active"}
                      /\ x[2] \in NodesOf(x[1])
                      /\ ListOf(x) \in Lists
                      /\ ListOf(x)[1] = x[1]
<1>1. \A t \in {"conn", "all", "match", "active"} : \A n \in NodesOf(t) : <<t, n>> \in Links
  BY DEF NodesOf, Links
<1>2. ASSUME NEW x \in Links
      PROVE  /\ x = <<x[1], x[2]>>
             /\ x[1] \in {"conn", "all", "match", "active"}
             /\ x[2] \in NodesOf(x[1])
             /\ ListOf(x) \in Lists
             /\ ListOf(x)[1] = x[1]
  <2>1. CASE x \in {"conn", "all"} \X Conns
    BY <2>1 DEF NodesOf, ListOf, Lists, Tailed, ConnChain, All
  <2>2. CASE x \in {"match", "active"} \X Matches
    <3>1. KeyOf[x[2]] \in Keys
      BY <2>2, KeyAssumption
    <3> QED
      BY <2>2, <3>1 DEF NodesOf, ListOf, Lists, Tailed, MatchChain, Active
  <2> QED
    BY <2>1, <2>2 DEF Links
<1> QED
  BY <1>1, <1>2

LEMMA ListsAre ==
  ASSUME NEW l \in Lists
  PROVE  /\ l[1] \in {"conn", "all", "match", "active"}
         /\ \A n \in NodesOf(l[1]) : <<l[1], n>> \in Links
         /\ NodesOf(l[1]) \subseteq Conns \cup Matches
<1>1. l[1] \in {"conn", "all", "match", "active"}
  BY DEF Lists, Tailed, ConnChain, All, Active
<1> QED
  BY <1>1, LinksAre DEF NodesOf

LEMMA NodesAre == /\ NULL \notin Conns \cup Matches /\ Poison \notin Conns \cup Matches
                  /\ NULL # Poison /\ Conns \cup Matches \subseteq Pointers /\ NULL \in Pointers
BY ObjectAssumption, KeyAssumption DEF Pointers

-----------------------------------------------------------------------------
(* Assignments of single pointers.                                         *)

LEMMA SetNextIs ==
  ASSUME NEW s, Memory(s), NEW l \in Lists, NEW n \in NodesOf(l[1]) \cup {NULL},
         NEW v \in Pointers
  PROVE  LET t == SetNext(s, l, n, v)
         IN  /\ Memory(t)
             /\ t.head = IF n = NULL THEN [s.head EXCEPT ![l] = v] ELSE s.head
             /\ t.next = IF n = NULL THEN s.next ELSE [s.next EXCEPT ![<<l[1], n>>] = v]
             /\ t.prev = s.prev
             /\ t.tail = s.tail
<1>1. n # NULL => <<l[1], n>> \in Links
  BY ListsAre
<1> QED
  BY <1>1 DEF SetNext, Memory

LEMMA SetPrevIs ==
  ASSUME NEW s, Memory(s), NEW l \in Lists, NEW n \in NodesOf(l[1]) \cup {NULL},
         NEW v \in Pointers
  PROVE  LET t == SetPrev(s, l, n, v)
         IN  /\ Memory(t)
             /\ t.tail = IF n = NULL /\ l \in Tailed THEN [s.tail EXCEPT ![l] = v] ELSE s.tail
             /\ t.prev = IF n = NULL THEN s.prev ELSE [s.prev EXCEPT ![<<l[1], n>>] = v]
             /\ t.next = s.next
             /\ t.head = s.head
<1>1. n # NULL => <<l[1], n>> \in Links
  BY ListsAre
<1> QED
  BY <1>1 DEF SetPrev, Memory

LEMMA MemoryIs ==
  ASSUME NEW s, Memory(s)
  PROVE  /\ s.next \in [Links -> Pointers] /\ s.prev \in [Links -> Pointers]
         /\ s.head \in [Lists -> Pointers] /\ s.tail \in [Tailed -> Pointers]
         /\ Tailed \subseteq Lists
BY DEF Memory, Lists

\* The nodes of a path, one after the other.
LEMMA PathIs ==
  ASSUME NEW l \in Lists, NEW q \in Seq(NodesOf(l[1])), IsInjective(q)
  PROVE  /\ Len(q) \in Nat /\ DOMAIN q = 1 .. Len(q)
         /\ \A i \in 1 .. Len(q) : q[i] \in NodesOf(l[1]) /\ q[i] \in ToSet(q) /\ q[i] # NULL
         /\ \A i, j \in 1 .. Len(q) : q[i] = q[j] => i = j
         /\ \A n \in ToSet(q) : n \in NodesOf(l[1]) /\ \E i \in 1 .. Len(q) : q[i] = n
         /\ \A i : At(q, i) \in NodesOf(l[1]) \cup {NULL}
<1>1. Len(q) \in Nat /\ DOMAIN q = 1 .. Len(q)
  BY LenProperties
<1>2. \A i \in 1 .. Len(q) : q[i] \in NodesOf(l[1])
  BY ElementOfSeq
<1>3. \A i \in 1 .. Len(q) : q[i] # NULL
  BY <1>2, ListsAre, NodesAre
<1>4. \A i, j \in 1 .. Len(q) : q[i] = q[j] => i = j
  BY <1>1 DEF IsInjective
<1>5. \A n \in ToSet(q) : \E i \in 1 .. Len(q) : q[i] = n
  BY <1>1 DEF ToSet
<1>6. \A i \in 1 .. Len(q) : q[i] \in ToSet(q)
  BY <1>1 DEF ToSet
<1>7. \A i : At(q, i) \in NodesOf(l[1]) \cup {NULL}
  BY <1>2 DEF At
<1> QED
  BY <1>1, <1>2, <1>3, <1>4, <1>5, <1>6, <1>7

\* A list that nothing has touched.
LEMMA PathElsewhere ==
  ASSUME NEW s, NEW t, NEW l \in Lists, NEW X, Elsewhere(s, t, l, X),
         NEW k \in Lists, k # l, NEW q, Path(s, k, q), k[1] # l[1] \/ ToSet(q) \cap X = {}
  PROVE  Path(t, k, q)
<1>1. q \in Seq(NodesOf(k[1])) /\ IsInjective(q)
  BY DEF Path
<1>2. ASSUME NEW i \in 1 .. Len(q)
      PROVE  t.next[<<k[1], q[i]>>] = s.next[<<k[1], q[i]>>]
             /\ t.prev[<<k[1], q[i]>>] = s.prev[<<k[1], q[i]>>]
  <2>1. <<k[1], q[i]>> \in Links /\ q[i] \in ToSet(q)
    BY <1>1, PathIs, ListsAre
  <2>2. ~(k[1] = l[1] /\ q[i] \in X)
    BY <2>1
  <2> QED
    BY <2>1, <2>2 DEF Elsewhere
<1>3. t.head[k] = s.head[k] /\ (k \in Tailed => t.tail[k] = s.tail[k])
  BY DEF Elsewhere
<1> QED
  BY <1>1, <1>2, <1>3 DEF Path

LEMMA ConsProperties ==
  ASSUME NEW S, NEW q \in Seq(S), NEW n \in S
  PROVE  /\ Cons(n, q) \in Seq(S)
         /\ Len(Cons(n, q)) = Len(q) + 1
         /\ Cons(n, q)[1] = n
         /\ \A i \in 1 .. Len(q) : Cons(n, q)[i + 1] = q[i]
<1>1. <<n>> \in Seq(S) /\ Len(<<n>>) = 1 /\ <<n>>[1] = n
  OBVIOUS
<1>2. Len(q) \in Nat
  BY LenProperties
<1> DEFINE r == <<n>> \o q
<1>3. /\ r \in Seq(S)
      /\ Len(r) = Len(q) + 1
      /\ \A i \in 1 .. Len(q) + 1 : r[i] = IF i <= 1 THEN <<n>>[i] ELSE q[i - 1]
  BY <1>1, <1>2, ConcatProperties
<1> HIDE DEF r
<1>4. r[1] = n
  BY <1>1, <1>2, <1>3
<1>5. \A i \in 1 .. Len(q) : r[i + 1] = q[i]
  BY <1>2, <1>3
<1> QED
  BY <1>3, <1>4, <1>5 DEF r, Cons

LEMMA AtCons ==
  ASSUME NEW S, NEW q \in Seq(S), NEW n \in S, NEW i \in Int
  PROVE  At(Cons(n, q), i) = IF i = 1 THEN n ELSE At(q, i - 1)
<1>1. Len(q) \in Nat
  BY LenProperties
<1>2. /\ Len(Cons(n, q)) = Len(q) + 1 /\ Cons(n, q)[1] = n
      /\ \A j \in 1 .. Len(q) : Cons(n, q)[j + 1] = q[j]
  BY ConsProperties
<1>3. CASE i - 1 \in 1 .. Len(q)
  <2>1. Cons(n, q)[(i - 1) + 1] = q[i - 1]
    BY <1>2, <1>3
  <2> QED
    BY <1>1, <1>2, <1>3, <2>1 DEF At
<1>4. CASE i - 1 \notin 1 .. Len(q)
  BY <1>1, <1>2, <1>4 DEF At
<1> QED
  BY <1>3, <1>4

LEMMA ConsPath ==
  ASSUME NEW l \in Lists, NEW q \in Seq(NodesOf(l[1])), IsInjective(q),
         NEW n \in NodesOf(l[1]), n \notin ToSet(q)
  PROVE  /\ Cons(n, q) \in Seq(NodesOf(l[1])) /\ IsInjective(Cons(n, q))
         /\ ToSet(Cons(n, q)) = ToSet(q) \cup {n}
<1> DEFINE r == Cons(n, q)
<1>1. /\ r \in Seq(NodesOf(l[1])) /\ Len(r) = Len(q) + 1 /\ r[1] = n
      /\ \A i \in 1 .. Len(q) : r[i + 1] = q[i]
  BY ConsProperties
<1>2. /\ Len(q) \in Nat /\ DOMAIN q = 1 .. Len(q) /\ DOMAIN r = 1 .. Len(q) + 1
      /\ \A i \in 1 .. Len(q) : q[i] \in ToSet(q)
      /\ \A i, j \in 1 .. Len(q) : q[i] = q[j] => i = j
      /\ \A e \in ToSet(q) : \E i \in 1 .. Len(q) : q[i] = e
  BY <1>1, PathIs, LenProperties
<1> HIDE DEF r
<1>3. \A i \in 1 .. Len(q) + 1 : r[i] = IF i = 1 THEN n ELSE q[i - 1]
  <2> SUFFICES ASSUME NEW i \in 1 .. Len(q) + 1, i # 1
               PROVE  r[i] = q[i - 1]
    BY <1>1
  <2>1. r[(i - 1) + 1] = q[i - 1]
    BY <1>1, <1>2
  <2> QED
    BY <1>2, <2>1
<1>4. \A i, j \in 1 .. Len(q) + 1 : r[i] = r[j] => i = j
  BY <1>2, <1>3
<1>5. IsInjective(r)
  BY <1>2, <1>4 DEF IsInjective
<1>6. ASSUME NEW e \in ToSet(r)
      PROVE  e \in ToSet(q) \cup {n}
  <2>1. PICK i \in 1 .. Len(q) + 1 : e = r[i]
    BY <1>2, <1>6 DEF ToSet
  <2> QED
    BY <1>2, <1>3, <2>1
<1>7. ASSUME NEW e \in ToSet(q) \cup {n}
      PROVE  e \in ToSet(r)
  <2>1. \E i \in 1 .. Len(q) + 1 : e = r[i]
    <3>1. CASE e = n
      BY <1>1, <1>2, <3>1
    <3>2. CASE e \in ToSet(q)
      <4>1. PICK i \in 1 .. Len(q) : q[i] = e
        BY <1>2, <3>2
      <4>2. i + 1 \in 1 .. Len(q) + 1 /\ r[i + 1] = e
        BY <1>1, <1>2, <4>1
      <4> QED
        BY <4>2
    <3> QED
      BY <1>7, <3>1, <3>2
  <2> QED
    BY <1>2, <2>1 DEF ToSet
<1> QED
  BY <1>1, <1>5, <1>6, <1>7 DEF r

-----------------------------------------------------------------------------
(* What the operations on one list do to it.                               *)

LEMMA PushHeadPath ==
  ASSUME NEW s, Memory(s), NEW l \in Lists, NEW q, Path(s, l, q),
         NEW n \in NodesOf(l[1]), n \notin ToSet(q)
  PROVE  LET t == PushHead(s, l, n)
         IN  /\ Memory(t)
             /\ Path(t, l, Cons(n, q))
             /\ Elsewhere(s, t, l, ToSet(q) \cup {n})
<1> DEFINE h == s.head[l]
           u == SetPrev(s, l, h, n)
           x == <<l[1], n>>
           t == PushHead(s, l, n)
           r == Cons(n, q)
<1>1. /\ q \in Seq(NodesOf(l[1])) /\ IsInjective(q)
      /\ h = At(q, 1)
      /\ l \in Tailed => s.tail[l] = At(q, Len(q))
      /\ \A i \in 1 .. Len(q) : /\ s.next[<<l[1], q[i]>>] = At(q, i + 1)
                                /\ s.prev[<<l[1], q[i]>>] = At(q, i - 1)
  BY DEF Path
<1>2. /\ Len(q) \in Nat
      /\ \A i \in 1 .. Len(q) : q[i] \in NodesOf(l[1]) /\ q[i] \in ToSet(q) /\ q[i] # NULL
      /\ \A i, j \in 1 .. Len(q) : q[i] = q[j] => i = j
      /\ h \in NodesOf(l[1]) \cup {NULL}
  BY <1>1, PathIs
<1>3. n \in Pointers /\ h \in Pointers /\ n # NULL /\ NULL \in Pointers
  BY <1>2, ListsAre, NodesAre
<1>4. x \in Links /\ \A i \in 1 .. Len(q) : <<l[1], q[i]>> \in Links /\ <<l[1], q[i]>> # x
  BY <1>2, ListsAre
<1>5. /\ Memory(u)
      /\ u.tail = IF h = NULL /\ l \in Tailed THEN [s.tail EXCEPT ![l] = n] ELSE s.tail
      /\ u.prev = IF h = NULL THEN s.prev ELSE [s.prev EXCEPT ![<<l[1], h>>] = n]
      /\ u.next = s.next
      /\ u.head = s.head
  BY <1>2, <1>3, SetPrevIs
<1> HIDE DEF u
<1>6. t = [u EXCEPT !.head[l] = n, !.next[x] = h, !.prev[x] = NULL]
  BY DEF PushHead, u
<1> HIDE DEF t, x
<1>7. /\ Memory(t)
      /\ t.head = [s.head EXCEPT ![l] = n]
      /\ t.next = [s.next EXCEPT ![x] = h]
      /\ t.prev = [u.prev EXCEPT ![x] = NULL]
      /\ t.tail = u.tail
  BY <1>3, <1>4, <1>5, <1>6 DEF Memory
<1> HIDE DEF h
<1>8. /\ s.next \in [Links -> Pointers] /\ s.prev \in [Links -> Pointers]
      /\ u.prev \in [Links -> Pointers]
      /\ s.head \in [Lists -> Pointers] /\ s.tail \in [Tailed -> Pointers]
  BY <1>5, MemoryIs
<1>9. Elsewhere(s, t, l, ToSet(q) \cup {n})
  <2>1. h # NULL => h \in ToSet(q)
    BY <1>1, <1>2 DEF At
  <2>2. ASSUME NEW y \in Links, ~(y[1] = l[1] /\ y[2] \in ToSet(q) \cup {n})
        PROVE  t.next[y] = s.next[y] /\ t.prev[y] = s.prev[y]
    <3>1. y # x /\ (h # NULL => y # <<l[1], h>>)
      BY <2>1, <2>2 DEF x
    <3> QED
      BY <1>5, <1>7, <1>8, <3>1
  <2>3. \A k \in Lists \ {l} : t.head[k] = s.head[k]
    BY <1>7, <1>8
  <2>4. \A k \in Tailed \ {l} : t.tail[k] = s.tail[k]
    BY <1>5, <1>7, <1>8
  <2> QED
    BY <2>2, <2>3, <2>4, Zenon DEF Elsewhere
<1>10. /\ r \in Seq(NodesOf(l[1])) /\ IsInjective(r)
       /\ Len(r) = Len(q) + 1 /\ r[1] = n
       /\ \A i \in 1 .. Len(q) : r[i + 1] = q[i]
       /\ \A i \in Int : At(r, i) = IF i = 1 THEN n ELSE At(q, i - 1)
  <2>1. /\ r \in Seq(NodesOf(l[1])) /\ IsInjective(r)
    BY <1>1, ConsPath
  <2>2. /\ Len(r) = Len(q) + 1 /\ r[1] = n
        /\ \A i \in 1 .. Len(q) : r[i + 1] = q[i]
    BY <1>1, ConsProperties
  <2>3. \A i \in Int : At(r, i) = IF i = 1 THEN n ELSE At(q, i - 1)
    BY <1>1, AtCons
  <2> QED
    BY <2>1, <2>2, <2>3
<1> HIDE DEF r
<1>11. t.head[l] = At(r, 1)
  BY <1>7, <1>8, <1>10
<1>12. ASSUME l \in Tailed
       PROVE  t.tail[l] = At(r, Len(r))
  <2>1. At(r, Len(r)) = IF Len(q) = 0 THEN n ELSE At(q, Len(q))
    BY <1>2, <1>10
  <2>2. h = NULL <=> Len(q) = 0
    BY <1>1, <1>2 DEF At
  <2> QED
    BY <1>1, <1>5, <1>7, <1>8, <1>12, <2>1, <2>2
<1>13. ASSUME NEW i \in 1 .. Len(r)
       PROVE  /\ t.next[<<l[1], r[i]>>] = At(r, i + 1)
              /\ t.prev[<<l[1], r[i]>>] = At(r, i - 1)
  <2>1. i \in Int /\ i >= 1 /\ i <= Len(q) + 1
    BY <1>2, <1>10
  <2>2. At(r, i + 1) = At(q, i) /\ At(r, i - 1) = IF i = 2 THEN n ELSE At(q, i - 2)
    BY <1>10, <2>1
  <2>3. CASE i = 1
    <3>1. <<l[1], r[i]>> = x /\ At(r, i + 1) = h /\ At(r, i - 1) = NULL
      <4>1. At(q, i) = At(q, 1) /\ At(q, i - 2) = NULL
        BY <2>3 DEF At
      <4> QED
        BY <1>1, <1>10, <2>2, <2>3, <4>1 DEF x
    <3>2. t.next[x] = h /\ t.prev[x] = NULL
      BY <1>4, <1>5, <1>7, <1>8
    <3> QED
      BY <3>1, <3>2
  <2>4. CASE i > 1
    <3> DEFINE j == i - 1
               y == <<l[1], q[j]>>
    <3>1. j \in 1 .. Len(q) /\ r[i] = q[j]
      <4>1. j \in 1 .. Len(q) /\ j + 1 = i
        BY <1>2, <2>1, <2>4
      <4> QED
        BY <1>10, <4>1
    <3>2. y \in Links /\ y # x /\ s.next[y] = At(q, j + 1) /\ s.prev[y] = At(q, j - 1)
      BY <1>1, <1>4, <3>1
    <3>3. t.next[y] = s.next[y]
      BY <1>7, <1>8, <3>2
    <3>4. t.prev[y] = u.prev[y]
      BY <1>7, <1>8, <3>2
    <3>5. CASE j = 1
      <4>1. h = q[j] /\ h # NULL
        BY <1>1, <1>2, <3>1, <3>5 DEF At
      <4>2. u.prev[y] = n
        BY <1>5, <1>8, <3>2, <4>1
      <4> QED
        BY <2>1, <2>2, <3>1, <3>2, <3>3, <3>4, <3>5, <4>2
    <3>6. CASE j > 1
      <4>1. h # q[j]
        BY <1>1, <1>2, <3>1, <3>6 DEF At
      <4>2. u.prev[y] = s.prev[y]
        BY <1>5, <1>8, <3>2, <4>1
      <4> QED
        BY <2>1, <2>2, <3>1, <3>2, <3>3, <3>4, <3>6, <4>2
    <3> QED
      BY <3>1, <3>5, <3>6
  <2> QED
    BY <2>1, <2>3, <2>4
<1>14. Path(t, l, r)
  BY <1>10, <1>11, <1>12, <1>13 DEF Path
<1> QED
  BY <1>7, <1>9, <1>14 DEF t, r

LEMMA AtAppend ==
  ASSUME NEW S, NEW q \in Seq(S), NEW n \in S, NEW i \in Int
  PROVE  At(Append(q, n), i) = IF i = Len(q) + 1 THEN n ELSE At(q, i)
<1>1. Len(q) \in Nat
  BY LenProperties
<1>2. /\ Len(Append(q, n)) = Len(q) + 1 /\ Append(q, n)[Len(q) + 1] = n
      /\ \A j \in 1 .. Len(q) : Append(q, n)[j] = q[j]
  BY AppendProperties
<1> QED
  BY <1>1, <1>2 DEF At

\* Linking a node whose next pointer is null at the tail.
LEMMA PushTailPath ==
  ASSUME NEW s, Memory(s), NEW l \in Tailed, NEW q, Path(s, l, q),
         NEW n \in NodesOf(l[1]), n \notin ToSet(q), s.next[<<l[1], n>>] = NULL
  PROVE  LET t == PushTail(s, l, n)
         IN  /\ Memory(t)
             /\ Path(t, l, Append(q, n))
             /\ Elsewhere(s, t, l, ToSet(q) \cup {n})
<1> DEFINE h == s.tail[l]
           u == SetNext(s, l, h, n)
           x == <<l[1], n>>
           t == PushTail(s, l, n)
           r == Append(q, n)
<1>0. l \in Lists
  BY DEF Lists
<1>1. /\ q \in Seq(NodesOf(l[1])) /\ IsInjective(q)
      /\ h = At(q, Len(q))
      /\ s.head[l] = At(q, 1)
      /\ \A i \in 1 .. Len(q) : /\ s.next[<<l[1], q[i]>>] = At(q, i + 1)
                                /\ s.prev[<<l[1], q[i]>>] = At(q, i - 1)
  BY DEF Path
<1>2. /\ Len(q) \in Nat
      /\ \A i \in 1 .. Len(q) : q[i] \in NodesOf(l[1]) /\ q[i] \in ToSet(q) /\ q[i] # NULL
      /\ \A i, j \in 1 .. Len(q) : q[i] = q[j] => i = j
      /\ h \in NodesOf(l[1]) \cup {NULL}
  BY <1>0, <1>1, PathIs
<1>3. n \in Pointers /\ h \in Pointers /\ n # NULL
  BY <1>0, <1>2, ListsAre, NodesAre
<1>4. x \in Links /\ \A i \in 1 .. Len(q) : <<l[1], q[i]>> \in Links /\ <<l[1], q[i]>> # x
  BY <1>0, <1>2, ListsAre
<1>5. /\ Memory(u)
      /\ u.head = IF h = NULL THEN [s.head EXCEPT ![l] = n] ELSE s.head
      /\ u.next = IF h = NULL THEN s.next ELSE [s.next EXCEPT ![<<l[1], h>>] = n]
      /\ u.prev = s.prev
      /\ u.tail = s.tail
  BY <1>0, <1>2, <1>3, SetNextIs
<1> HIDE DEF u
<1>6. t = [u EXCEPT !.tail[l] = n, !.prev[x] = h]
  BY DEF PushTail, u
<1> HIDE DEF t, x
<1>7. /\ Memory(t)
      /\ t.tail = [s.tail EXCEPT ![l] = n]
      /\ t.prev = [s.prev EXCEPT ![x] = h]
      /\ t.next = u.next
      /\ t.head = u.head
  BY <1>3, <1>4, <1>5, <1>6 DEF Memory
<1> HIDE DEF h
<1>8. /\ s.next \in [Links -> Pointers] /\ s.prev \in [Links -> Pointers]
      /\ u.next \in [Links -> Pointers]
      /\ s.head \in [Lists -> Pointers] /\ s.tail \in [Tailed -> Pointers]
  BY <1>5, MemoryIs
<1>9. Elsewhere(s, t, l, ToSet(q) \cup {n})
  <2>1. h # NULL => h \in ToSet(q)
    BY <1>1, <1>2 DEF At
  <2>2. ASSUME NEW y \in Links, ~(y[1] = l[1] /\ y[2] \in ToSet(q) \cup {n})
        PROVE  t.next[y] = s.next[y] /\ t.prev[y] = s.prev[y]
    <3>1. y # x /\ (h # NULL => y # <<l[1], h>>)
      BY <2>1, <2>2 DEF x
    <3> QED
      BY <1>5, <1>7, <1>8, <3>1
  <2>3. \A k \in Lists \ {l} : t.head[k] = s.head[k]
    BY <1>5, <1>7, <1>8
  <2>4. \A k \in Tailed \ {l} : t.tail[k] = s.tail[k]
    BY <1>7, <1>8
  <2> QED
    BY <2>2, <2>3, <2>4, Zenon DEF Elsewhere
<1>10. /\ r \in Seq(NodesOf(l[1])) /\ IsInjective(r)
       /\ Len(r) = Len(q) + 1 /\ r[Len(q) + 1] = n
       /\ \A i \in 1 .. Len(q) : r[i] = q[i]
       /\ \A i \in Int : At(r, i) = IF i = Len(q) + 1 THEN n ELSE At(q, i)
  <2>1. r \in Seq(NodesOf(l[1])) /\ IsInjective(r)
    BY <1>1, AppendElement
  <2>2. /\ Len(r) = Len(q) + 1 /\ r[Len(q) + 1] = n
        /\ \A i \in 1 .. Len(q) : r[i] = q[i]
    BY <1>1, AppendProperties
  <2>3. \A i \in Int : At(r, i) = IF i = Len(q) + 1 THEN n ELSE At(q, i)
    BY <1>1, AtAppend
  <2> QED
    BY <2>1, <2>2, <2>3
<1> HIDE DEF r
<1>11. t.head[l] = At(r, 1)
  <2>1. At(r, 1) = IF Len(q) = 0 THEN n ELSE At(q, 1)
    BY <1>2, <1>10
  <2>2. h = NULL <=> Len(q) = 0
    BY <1>1, <1>2 DEF At
  <2> QED
    BY <1>0, <1>1, <1>5, <1>7, <1>8, <2>1, <2>2
<1>12. t.tail[l] = At(r, Len(r))
  BY <1>2, <1>7, <1>8, <1>10
<1>13. ASSUME NEW i \in 1 .. Len(r)
       PROVE  /\ t.next[<<l[1], r[i]>>] = At(r, i + 1)
              /\ t.prev[<<l[1], r[i]>>] = At(r, i - 1)
  <2>1. i \in Int /\ i >= 1 /\ i <= Len(q) + 1
    BY <1>2, <1>10
  <2>2. /\ At(r, i + 1) = IF i = Len(q) THEN n ELSE At(q, i + 1)
        /\ At(r, i - 1) = At(q, i - 1)
    BY <1>2, <1>10, <2>1
  <2>3. CASE i = Len(q) + 1
    <3>1. <<l[1], r[i]>> = x /\ At(r, i + 1) = NULL /\ At(r, i - 1) = h
      <4>1. At(q, i + 1) = NULL /\ At(q, i - 1) = At(q, Len(q))
        BY <1>2, <2>3 DEF At
      <4> QED
        BY <1>1, <1>2, <1>10, <2>2, <2>3, <4>1 DEF x
    <3>2. t.prev[x] = h
      BY <1>4, <1>7, <1>8
    <3>3. u.next[x] = s.next[x]
      <4>1. h # NULL => <<l[1], h>> # x
        BY <1>1, <1>2 DEF At, x
      <4> QED
        BY <1>4, <1>5, <1>8, <4>1
    <3>4. t.next[x] = NULL
      BY <1>7, <3>3 DEF x
    <3> QED
      BY <3>1, <3>2, <3>4
  <2>4. CASE i <= Len(q)
    <3> DEFINE y == <<l[1], q[i]>>
    <3>1. i \in 1 .. Len(q) /\ r[i] = q[i]
      BY <1>2, <1>10, <2>1, <2>4
    <3>2. y \in Links /\ y # x /\ s.next[y] = At(q, i + 1) /\ s.prev[y] = At(q, i - 1)
      BY <1>1, <1>4, <3>1
    <3>3. t.prev[y] = s.prev[y]
      BY <1>7, <1>8, <3>2
    <3>4. CASE i = Len(q)
      <4>1. h = q[i] /\ h # NULL
        BY <1>1, <1>2, <3>1, <3>4 DEF At
      <4>2. u.next[y] = n
        BY <1>5, <1>8, <3>2, <4>1
      <4> QED
        BY <1>7, <2>2, <3>1, <3>2, <3>3, <3>4, <4>2
    <3>5. CASE i < Len(q)
      <4>1. h # q[i]
        BY <1>1, <1>2, <3>1, <3>5 DEF At
      <4>2. u.next[y] = s.next[y]
        BY <1>5, <1>8, <3>2, <4>1
      <4> QED
        BY <1>7, <2>2, <3>1, <3>2, <3>3, <3>5, <4>2
    <3> QED
      BY <1>2, <3>1, <3>4, <3>5
  <2> QED
    BY <1>2, <2>1, <2>3, <2>4
<1>14. Path(t, l, r)
  BY <1>10, <1>11, <1>12, <1>13 DEF Path
<1> QED
  BY <1>7, <1>9, <1>14 DEF t, r

LEMMA AtRemove ==
  ASSUME NEW S, NEW q \in Seq(S), IsInjective(q), NEW j \in 1 .. Len(q)
  PROVE  LET r == RemoveFirst(q, q[j])
         IN  /\ r \in Seq(S) /\ IsInjective(r)
             /\ Len(r) = Len(q) - 1
             /\ \A i \in 1 .. Len(r) : r[i] = IF i < j THEN q[i] ELSE q[i + 1]
             /\ \A i \in Int : At(r, i) = IF i < j THEN At(q, i) ELSE At(q, i + 1)
<1> DEFINE r == RemoveFirst(q, q[j])
<1>1. Len(q) \in Nat /\ j \in Int /\ 1 <= j /\ j <= Len(q)
  BY LenProperties
<1>2. /\ r \in Seq(S) /\ Len(r) = Len(q) - 1
      /\ \A i \in 1 .. Len(r) : r[i] = IF i < j THEN q[i] ELSE q[i + 1]
  BY RemoveFirstElements
<1>3. IsInjective(r)
  BY RemoveFirstProperties
<1> HIDE DEF r
<1>4. \A i \in Int : At(r, i) = IF i < j THEN At(q, i) ELSE At(q, i + 1)
  BY <1>1, <1>2 DEF At
<1> QED
  BY <1>2, <1>3, <1>4 DEF r

\* Taking a node out; its own pointers stay as they are.
LEMMA UnlinkPath ==
  ASSUME NEW s, Memory(s), NEW l \in Lists, NEW q, Path(s, l, q), NEW n \in ToSet(q)
  PROVE  LET t == Unlink(s, l, n)
         IN  /\ Memory(t)
             /\ Path(t, l, RemoveFirst(q, n))
             /\ Elsewhere(s, t, l, ToSet(q) \ {n})
<1> DEFINE p == s.prev[<<l[1], n>>]
           y == s.next[<<l[1], n>>]
           u == SetNext(s, l, p, y)
           t == Unlink(s, l, n)
           r == RemoveFirst(q, n)
<1>1. /\ q \in Seq(NodesOf(l[1])) /\ IsInjective(q)
      /\ s.head[l] = At(q, 1)
      /\ l \in Tailed => s.tail[l] = At(q, Len(q))
      /\ \A i \in 1 .. Len(q) : /\ s.next[<<l[1], q[i]>>] = At(q, i + 1)
                                /\ s.prev[<<l[1], q[i]>>] = At(q, i - 1)
  BY DEF Path
<1>2. /\ Len(q) \in Nat
      /\ \A i \in 1 .. Len(q) : q[i] \in NodesOf(l[1]) /\ q[i] \in ToSet(q) /\ q[i] # NULL
      /\ \A i, k \in 1 .. Len(q) : q[i] = q[k] => i = k
  BY <1>1, PathIs
<1>3. PICK j \in 1 .. Len(q) : q[j] = n
  BY <1>1, PathIs
<1>4. /\ y = At(q, j + 1) /\ p = At(q, j - 1)
      /\ p \in NodesOf(l[1]) \cup {NULL} /\ y \in NodesOf(l[1]) \cup {NULL}
  <2>1. y = At(q, j + 1) /\ p = At(q, j - 1)
    BY <1>1, <1>3
  <2>2. \A i : At(q, i) \in NodesOf(l[1]) \cup {NULL}
    BY <1>1, PathIs
  <2> QED
    BY <2>1, <2>2
<1> HIDE DEF p, y
<1>5. p \in Pointers /\ y \in Pointers
  BY <1>4, ListsAre, NodesAre
<1>6. /\ Memory(u)
      /\ u.head = IF p = NULL THEN [s.head EXCEPT ![l] = y] ELSE s.head
      /\ u.next = IF p = NULL THEN s.next ELSE [s.next EXCEPT ![<<l[1], p>>] = y]
      /\ u.prev = s.prev
      /\ u.tail = s.tail
  BY <1>4, <1>5, SetNextIs
<1> HIDE DEF u
<1>7. t = SetPrev(u, l, y, p)
  BY DEF Unlink, u, p, y
<1> HIDE DEF t
<1>8. /\ Memory(t)
      /\ t.tail = IF y = NULL /\ l \in Tailed THEN [s.tail EXCEPT ![l] = p] ELSE s.tail
      /\ t.prev = IF y = NULL THEN s.prev ELSE [s.prev EXCEPT ![<<l[1], y>>] = p]
      /\ t.next = u.next
      /\ t.head = u.head
  BY <1>4, <1>5, <1>6, <1>7, SetPrevIs
<1>9. /\ s.next \in [Links -> Pointers] /\ s.prev \in [Links -> Pointers]
      /\ s.head \in [Lists -> Pointers] /\ s.tail \in [Tailed -> Pointers]
  BY MemoryIs
<1>10. /\ p # NULL => j > 1 /\ p = q[j - 1]
       /\ p = NULL => j = 1
       /\ y # NULL => j < Len(q) /\ y = q[j + 1]
       /\ y = NULL => j = Len(q)
  <2>1. j \in Int /\ 1 <= j /\ j <= Len(q)
    BY <1>2, <1>3
  <2> QED
    BY <1>2, <1>4, <2>1 DEF At
<1>11. Elsewhere(s, t, l, ToSet(q) \ {n})
  <2>1. /\ p # NULL => p \in ToSet(q) \ {n}
        /\ y # NULL => y \in ToSet(q) \ {n}
    BY <1>2, <1>3, <1>10
  <2>2. ASSUME NEW z \in Links, ~(z[1] = l[1] /\ z[2] \in ToSet(q) \ {n})
        PROVE  t.next[z] = s.next[z] /\ t.prev[z] = s.prev[z]
    <3>1. (p # NULL => z # <<l[1], p>>) /\ (y # NULL => z # <<l[1], y>>)
      BY <2>1, <2>2
    <3> QED
      BY <1>6, <1>8, <1>9, <3>1
  <2>3. \A k \in Lists \ {l} : t.head[k] = s.head[k]
    BY <1>6, <1>8, <1>9
  <2>4. \A k \in Tailed \ {l} : t.tail[k] = s.tail[k]
    BY <1>6, <1>8, <1>9
  <2> QED
    BY <2>2, <2>3, <2>4, Zenon DEF Elsewhere
<1>12. /\ r \in Seq(NodesOf(l[1])) /\ IsInjective(r)
       /\ Len(r) = Len(q) - 1
       /\ \A i \in 1 .. Len(r) : r[i] = IF i < j THEN q[i] ELSE q[i + 1]
       /\ \A i \in Int : At(r, i) = IF i < j THEN At(q, i) ELSE At(q, i + 1)
  BY <1>1, <1>3, AtRemove
<1> HIDE DEF r
<1>13. t.head[l] = At(r, 1)
  <2>1. At(r, 1) = IF j > 1 THEN At(q, 1) ELSE At(q, 2)
    BY <1>2, <1>12
  <2>2. p = NULL => y = At(q, 2)
    BY <1>4, <1>10
  <2> QED
    BY <1>1, <1>3, <1>6, <1>8, <1>9, <1>10, <2>1, <2>2
<1>14. ASSUME l \in Tailed
       PROVE  t.tail[l] = At(r, Len(r))
  <2>1. At(r, Len(r)) = IF j = Len(q) THEN At(q, Len(q) - 1) ELSE At(q, Len(q))
    <3>1. Len(r) \in Int /\ Len(r) + 1 = Len(q) /\ j <= Len(q)
      BY <1>2, <1>3, <1>12
    <3>2. At(r, Len(r)) = IF Len(r) < j THEN At(q, Len(r)) ELSE At(q, Len(r) + 1)
      BY <1>12, <3>1
    <3>3. j \in Int /\ Len(q) \in Int /\ Len(r) = Len(q) - 1
      BY <1>2, <1>12
    <3>4. CASE j = Len(q)
      BY <3>1, <3>2, <3>3, <3>4
    <3>5. CASE j # Len(q)
      <4>1. j <= Len(r)
        <5>1. PICK a \in Int : a = Len(q)
          BY <3>3
        <5>2. PICK b \in Int : b = Len(r)
          BY <3>1
        <5>3. b = a - 1 /\ j <= a /\ j # a
          BY <3>1, <3>3, <3>5, <5>1, <5>2
        <5>4. j \in Int
          BY <3>3
        <5>5. j <= b
          BY <5>3, <5>4
        <5> QED
          BY <5>2, <5>5
      <4>2. ~(Len(r) < j)
        BY <3>1, <3>3, <4>1
      <4> QED
        BY <3>1, <3>2, <3>5, <4>2
    <3> QED
      BY <3>4, <3>5
  <2>2. y = NULL => p = At(q, Len(q) - 1)
    BY <1>4, <1>10
  <2> QED
    BY <1>1, <1>8, <1>9, <1>6, <1>10, <1>14, <2>1, <2>2
<1>15. ASSUME NEW i \in 1 .. Len(r)
       PROVE  /\ t.next[<<l[1], r[i]>>] = At(r, i + 1)
              /\ t.prev[<<l[1], r[i]>>] = At(r, i - 1)
  <2>1. i \in Int /\ i >= 1 /\ i <= Len(q) - 1 /\ j \in Int
    BY <1>2, <1>3, <1>12
  <2>2. /\ At(r, i + 1) = IF i + 1 < j THEN At(q, i + 1) ELSE At(q, i + 2)
        /\ At(r, i - 1) = IF i - 1 < j THEN At(q, i - 1) ELSE At(q, i)
    <3>1. \A a \in Int : At(r, a) = IF a < j THEN At(q, a) ELSE At(q, a + 1)
      BY <1>12
    <3>2. i + 1 \in Int /\ i - 1 \in Int /\ (i + 1) + 1 = i + 2 /\ (i - 1) + 1 = i
      BY <2>1
    <3>3. At(r, i + 1) = IF i + 1 < j THEN At(q, i + 1) ELSE At(q, (i + 1) + 1)
      BY <3>1, <3>2
    <3>4. At(r, i - 1) = IF i - 1 < j THEN At(q, i - 1) ELSE At(q, (i - 1) + 1)
      BY <3>1, <3>2
    <3> QED
      BY <3>2, <3>3, <3>4
  <2> DEFINE k == IF i < j THEN i ELSE i + 1
             z == <<l[1], q[k]>>
  <2>3. k \in 1 .. Len(q) /\ r[i] = q[k]
    <3>1. k \in 1 .. Len(q)
      BY <1>2, <1>3, <2>1
    <3>2. r[i] = IF i < j THEN q[i] ELSE q[i + 1]
      BY <1>12
    <3> QED
      BY <3>1, <3>2
  <2>4. z \in Links /\ s.next[z] = At(q, k + 1) /\ s.prev[z] = At(q, k - 1)
    BY <1>1, <1>2, <2>3, ListsAre
  <2>5. t.next[z] = IF k = j - 1 THEN y ELSE s.next[z]
    <3>1. k = j - 1 <=> p # NULL /\ p = q[k]
      BY <1>2, <1>3, <1>10, <2>1, <2>3
    <3> QED
      BY <1>6, <1>8, <1>9, <2>4, <3>1
  <2>6. t.prev[z] = IF k = j + 1 THEN p ELSE s.prev[z]
    <3>1. k = j + 1 <=> y # NULL /\ y = q[k]
      BY <1>2, <1>3, <1>10, <2>1, <2>3
    <3> QED
      BY <1>6, <1>8, <1>9, <2>4, <3>1
  <2>7. CASE i < j
    <3>1. k = i /\ i + 1 \in Int
      BY <2>1, <2>7
    <3>2. k = j - 1 => y = At(r, i + 1)
      <4>1. k = j - 1 => i + 2 = j + 1 /\ ~(i + 1 < j)
        BY <2>1, <3>1
      <4> QED
        BY <1>4, <2>2, <4>1
    <3>3. k # j - 1 => s.next[z] = At(r, i + 1)
      <4>1. k # j - 1 => i + 1 < j
        BY <2>1, <2>7, <3>1
      <4> QED
        BY <2>2, <2>4, <3>1, <4>1
    <3>4. k # j + 1 /\ i - 1 < j
      BY <2>1, <2>7, <3>1
    <3> QED
      BY <2>2, <2>3, <2>4, <2>5, <2>6, <3>1, <3>2, <3>3, <3>4
  <2>8. CASE i >= j
    <3>1. k = i + 1 /\ k + 1 = i + 2 /\ k - 1 = i /\ ~(i + 1 < j) /\ k # j - 1
      BY <2>1, <2>8
    <3>2. t.next[z] = At(r, i + 1)
      BY <2>2, <2>4, <2>5, <3>1
    <3>3. k = j + 1 => p = At(r, i - 1)
      <4>1. k = j + 1 => i - 1 < j /\ i - 1 = j - 1
        BY <2>1, <3>1
      <4> QED
        BY <1>4, <2>2, <4>1
    <3>4. k # j + 1 => s.prev[z] = At(r, i - 1)
      <4>1. k # j + 1 => ~(i - 1 < j)
        BY <2>1, <2>8, <3>1
      <4> QED
        BY <2>2, <2>4, <3>1, <4>1
    <3> QED
      BY <2>3, <2>6, <3>2, <3>3, <3>4
  <2> QED
    BY <2>1, <2>7, <2>8
<1>16. Path(t, l, r)
  BY <1>12, <1>13, <1>14, <1>15 DEF Path
<1> QED
  BY <1>8, <1>11, <1>16 DEF t, r

LEMMA ElsewhereTwice ==
  ASSUME NEW s, NEW t, NEW u, NEW l \in Lists, NEW X, NEW Y, NEW Z,
         Elsewhere(s, t, l, X), Elsewhere(t, u, l, Y), X \cup Y \subseteq Z
  PROVE  Elsewhere(s, u, l, Z)
<1>1. ASSUME NEW x \in Links, ~(x[1] = l[1] /\ x[2] \in Z)
      PROVE  u.next[x] = s.next[x] /\ u.prev[x] = s.prev[x]
  <2>1. t.next[x] = s.next[x] /\ t.prev[x] = s.prev[x]
    BY <1>1 DEF Elsewhere
  <2>2. u.next[x] = t.next[x] /\ u.prev[x] = t.prev[x]
    BY <1>1 DEF Elsewhere
  <2> QED
    BY <2>1, <2>2
<1>2. /\ \A k \in Lists \ {l} : u.head[k] = s.head[k]
      /\ \A k \in Tailed \ {l} : u.tail[k] = s.tail[k]
  BY DEF Elsewhere
<1> QED
  BY <1>1, <1>2, Zenon DEF Elsewhere

\* A hit moved to the head of its chain.
Moved(q, n) == IF q[1] = n THEN q ELSE Cons(n, RemoveFirst(q, n))

LEMMA MoveToHeadPath ==
  ASSUME NEW s, Memory(s), NEW l \in Lists, NEW q, Path(s, l, q), NEW n \in ToSet(q)
  PROVE  LET t == MoveToHead(s, l, n)
         IN  /\ Memory(t)
             /\ Path(t, l, Moved(q, n))
             /\ Elsewhere(s, t, l, ToSet(q))
             /\ ToSet(Moved(q, n)) = ToSet(q)
<1> DEFINE u == Unlink(s, l, n)
           t == MoveToHead(s, l, n)
           r == RemoveFirst(q, n)
<1>1. q \in Seq(NodesOf(l[1])) /\ IsInjective(q) /\ s.head[l] = At(q, 1)
  BY DEF Path
<1>2. Len(q) \in Nat /\ n \in NodesOf(l[1]) /\ \E i \in 1 .. Len(q) : q[i] = n
  BY <1>1, PathIs
<1>3. At(q, 1) = q[1]
  BY <1>2 DEF At
<1>4. CASE q[1] = n
  <2>1. t = s
    BY <1>1, <1>3, <1>4 DEF MoveToHead
  <2>2. Elsewhere(s, s, l, ToSet(q))
    BY DEF Elsewhere
  <2> QED
    BY <1>4, <2>1, <2>2 DEF Moved
<1>5. CASE q[1] # n
  <2>1. t = PushHead(u, l, n)
    BY <1>1, <1>3, <1>5 DEF MoveToHead
  <2>2. Memory(u) /\ Path(u, l, r) /\ Elsewhere(s, u, l, ToSet(q) \ {n})
    BY UnlinkPath
  <2>3. /\ r \in Seq(NodesOf(l[1])) /\ IsInjective(r)
        /\ ToSet(r) = ToSet(q) \ {n}
    BY <1>1, RemoveFirstProperties
  <2> HIDE DEF u, t, r
  <2>4. Memory(t) /\ Path(t, l, Cons(n, r)) /\ Elsewhere(u, t, l, ToSet(r) \cup {n})
    BY <1>2, <2>1, <2>2, <2>3, PushHeadPath
  <2>5. Elsewhere(s, t, l, ToSet(q))
    BY <2>2, <2>3, <2>4, ElsewhereTwice
  <2>6. ToSet(Cons(n, r)) = ToSet(q)
    <3>1. ToSet(Cons(n, r)) = ToSet(r) \cup {n}
      BY <1>2, <2>3, ConsPath
    <3> QED
      BY <2>3, <3>1
  <2> QED
    BY <1>5, <2>4, <2>5, <2>6 DEF Moved, t, r
<1> QED
  BY <1>4, <1>5

-----------------------------------------------------------------------------
(* What they do to all lists.                                              *)

\* No pointer has changed but those in G.
Kept(s, t, G) == \A y \in Links \ G : t.next[y] = s.next[y] /\ t.prev[y] = s.prev[y]

LEMMA HoldsIs ==
  ASSUME NEW s, NEW E, NEW Q, Holds(s, E, Q), NEW l \in Lists
  PROVE  /\ Memory(s) /\ E \subseteq Links /\ DOMAIN Q = Lists
         /\ Path(s, l, Q[l])
         /\ Q[l] \in Seq(NodesOf(l[1])) /\ IsInjective(Q[l])
         /\ ToSet(Q[l]) = On(E, l)
         /\ On(E, l) \subseteq NodesOf(l[1])
         /\ \A n \in On(E, l) : ListOf(<<l[1], n>>) = l /\ <<l[1], n>> \in E
BY DEF Holds, Path, On

LEMMA HoldsChange ==
  ASSUME NEW s, NEW E, NEW Q, Holds(s, E, Q), NEW l \in Lists,
         NEW t, Memory(t), NEW F, F \subseteq Links,
         \A y \in Links : ListOf(y) # l => (y \in F <=> y \in E),
         NEW q, Path(t, l, q), ToSet(q) = On(F, l),
         NEW X, \A n \in X : ListOf(<<l[1], n>>) = l, Elsewhere(s, t, l, X)
  PROVE  Holds(t, F, [Q EXCEPT ![l] = q])
<1> DEFINE R == [Q EXCEPT ![l] = q]
<1>1. DOMAIN Q = Lists
  BY DEF Holds
<1>2. DOMAIN R = Lists /\ R[l] = q /\ \A k \in Lists \ {l} : R[k] = Q[k]
  BY <1>1
<1> HIDE DEF R
<1>3. ASSUME NEW k \in Lists, k # l
      PROVE  Path(t, k, R[k]) /\ ToSet(R[k]) = On(F, k)
  <2>1. Path(s, k, Q[k]) /\ ToSet(Q[k]) = On(E, k)
    BY DEF Holds
  <2>2. \A n \in ToSet(Q[k]) : ListOf(<<k[1], n>>) = k
    BY <2>1, HoldsIs
  <2>3. k[1] # l[1] \/ ToSet(Q[k]) \cap X = {}
    <3> SUFFICES ASSUME k[1] = l[1], NEW n \in ToSet(Q[k]), n \in X
                 PROVE  FALSE
      OBVIOUS
    <3>1. ListOf(<<k[1], n>>) = k
      BY <2>2
    <3>2. ListOf(<<l[1], n>>) = l
      OBVIOUS
    <3> QED
      BY <1>3, <3>1, <3>2
  <2>4. Path(t, k, Q[k])
    BY <1>3, <2>1, <2>3, PathElsewhere
  <2>5. On(F, k) = On(E, k)
    <3>1. \A n \in NodesOf(k[1]) : <<k[1], n>> \in Links
      BY ListsAre
    <3>2. \A n \in NodesOf(k[1]) : ListOf(<<k[1], n>>) = k => (<<k[1], n>> \in F <=> <<k[1], n>> \in E)
      BY <1>3, <3>1
    <3> QED
      BY <3>2 DEF On
  <2> QED
    BY <1>2, <1>3, <2>1, <2>4, <2>5
<1>4. \A k \in Lists : Path(t, k, R[k]) /\ ToSet(R[k]) = On(F, k)
  BY <1>2, <1>3
<1> QED
  BY <1>2, <1>4 DEF Holds, R

\* Pointers that are not in use may be set to anything.
LEMMA HoldsWrite ==
  ASSUME NEW s, NEW E, NEW Q, Holds(s, E, Q), NEW t, Memory(t),
         t.head = s.head, t.tail = s.tail,
         \A y \in E : t.next[y] = s.next[y] /\ t.prev[y] = s.prev[y]
  PROVE  Holds(t, E, Q)
<1>1. ASSUME NEW k \in Lists
      PROVE  Path(t, k, Q[k])
  <2>1. /\ Path(s, k, Q[k]) /\ Q[k] \in Seq(NodesOf(k[1])) /\ IsInjective(Q[k])
        /\ ToSet(Q[k]) = On(E, k)
        /\ \A n \in On(E, k) : <<k[1], n>> \in E
    BY HoldsIs
  <2>2. \A i \in 1 .. Len(Q[k]) : <<k[1], Q[k][i]>> \in E
    BY <2>1, PathIs
  <2> QED
    BY <2>1, <2>2 DEF Path
<1> QED
  BY <1>1 DEF Holds

\* The nodes of the list of a link that is put in or taken out.
LEMMA OnChange ==
  ASSUME NEW E, E \subseteq Links, NEW x \in Links
  PROVE  /\ On(E \cup {x}, ListOf(x)) = On(E, ListOf(x)) \cup {x[2]}
         /\ On(E \ {x}, ListOf(x)) = On(E, ListOf(x)) \ {x[2]}
         /\ x \notin E => x[2] \notin On(E, ListOf(x))
         /\ x \in E => x[2] \in On(E, ListOf(x))
         /\ x[2] \in NodesOf(ListOf(x)[1]) /\ <<ListOf(x)[1], x[2]>> = x
         /\ \A n \in On(E, ListOf(x)) \cup {x[2]} : ListOf(<<ListOf(x)[1], n>>) = ListOf(x)
<1>1. /\ x = <<x[1], x[2]>> /\ x[2] \in NodesOf(x[1])
      /\ ListOf(x)[1] = x[1]
  BY LinksAre
<1>2. ListOf(<<x[1], x[2]>>) = ListOf(x)
  BY <1>1
<1>3. On(E \cup {x}, ListOf(x)) = On(E, ListOf(x)) \cup {x[2]}
  BY <1>1, <1>2 DEF On
<1>4. On(E \ {x}, ListOf(x)) = On(E, ListOf(x)) \ {x[2]}
  BY <1>1, <1>2 DEF On
<1>5. \A n \in On(E, ListOf(x)) \cup {x[2]} : ListOf(<<ListOf(x)[1], n>>) = ListOf(x)
  BY <1>1, <1>2 DEF On
<1>6. /\ x \notin E => x[2] \notin On(E, ListOf(x))
      /\ x \in E => x[2] \in On(E, ListOf(x))
  BY <1>1, <1>2 DEF On
<1> QED
  BY <1>1, <1>3, <1>4, <1>5, <1>6

LEMMA KeptFrom ==
  ASSUME NEW s, NEW t, NEW l \in Lists, NEW X, Elsewhere(s, t, l, X),
         NEW G, \A n \in X : <<l[1], n>> \in G
  PROVE  Kept(s, t, G)
<1> SUFFICES ASSUME NEW y \in Links, y \notin G
             PROVE  t.next[y] = s.next[y] /\ t.prev[y] = s.prev[y]
  BY DEF Kept
<1>1. y = <<y[1], y[2]>>
  BY LinksAre
<1>2. ~(y[1] = l[1] /\ y[2] \in X)
  BY <1>1
<1> QED
  BY <1>2 DEF Elsewhere

LEMMA PushHeadHolds ==
  ASSUME NEW s, NEW E, NEW Q, Holds(s, E, Q), NEW x \in Links, x \notin E
  PROVE  LET l == ListOf(x)
             t == PushHead(s, l, x[2])
         IN  Holds(t, E \cup {x}, [Q EXCEPT ![l] = Cons(x[2], Q[l])]) /\ Kept(s, t, E \cup {x})
<1> DEFINE l == ListOf(x)
           t == PushHead(s, l, x[2])
           F == E \cup {x}
           X == On(E, l) \cup {x[2]}
           q == Cons(x[2], Q[l])
<1>1. l \in Lists
  BY LinksAre
<1>2. /\ On(F, l) = X /\ x[2] \notin On(E, l)
      /\ x[2] \in NodesOf(l[1]) /\ <<l[1], x[2]>> = x
      /\ \A n \in X : ListOf(<<l[1], n>>) = l
  BY OnChange DEF Holds
<1> HIDE DEF l
<1>3. /\ Memory(s) /\ E \subseteq Links /\ Path(s, l, Q[l]) /\ ToSet(Q[l]) = On(E, l)
      /\ Q[l] \in Seq(NodesOf(l[1])) /\ IsInjective(Q[l])
      /\ \A n \in On(E, l) : <<l[1], n>> \in E
  BY <1>1, HoldsIs
<1>4. Memory(t) /\ Path(t, l, q) /\ Elsewhere(s, t, l, X)
  BY <1>1, <1>2, <1>3, PushHeadPath
<1>5. ToSet(q) = X
  BY <1>1, <1>2, <1>3, ConsPath
<1> HIDE DEF t, q
<1>6. F \subseteq Links /\ \A y \in Links : ListOf(y) # l => (y \in F <=> y \in E)
  BY <1>3 DEF l
<1>7. \A n \in X : <<l[1], n>> \in F
  BY <1>2, <1>3
<1>8. ToSet(q) = On(F, l)
  BY <1>2, <1>5
<1> HIDE DEF F, X
<1>9. Holds(t, F, [Q EXCEPT ![l] = q])
  BY <1>1, <1>2, <1>4, <1>6, <1>8, HoldsChange
<1>10. Kept(s, t, F)
  BY <1>1, <1>4, <1>7, KeptFrom
<1> QED
  BY <1>9, <1>10 DEF t, q, F, l

LEMMA PushTailHolds ==
  ASSUME NEW s, NEW E, NEW Q, Holds(s, E, Q), NEW x \in Links, x \notin E,
         ListOf(x) \in Tailed, s.next[x] = NULL
  PROVE  LET l == ListOf(x)
             t == PushTail(s, l, x[2])
         IN  Holds(t, E \cup {x}, [Q EXCEPT ![l] = Append(Q[l], x[2])]) /\ Kept(s, t, E \cup {x})
<1> DEFINE l == ListOf(x)
           t == PushTail(s, l, x[2])
           F == E \cup {x}
           X == On(E, l) \cup {x[2]}
           q == Append(Q[l], x[2])
<1>1. l \in Lists /\ l \in Tailed
  BY LinksAre
<1>2. /\ On(F, l) = X /\ x[2] \notin On(E, l)
      /\ x[2] \in NodesOf(l[1]) /\ <<l[1], x[2]>> = x
      /\ \A n \in X : ListOf(<<l[1], n>>) = l
  BY OnChange DEF Holds
<1> HIDE DEF l
<1>3. /\ Memory(s) /\ E \subseteq Links /\ Path(s, l, Q[l]) /\ ToSet(Q[l]) = On(E, l)
      /\ Q[l] \in Seq(NodesOf(l[1])) /\ IsInjective(Q[l])
      /\ \A n \in On(E, l) : <<l[1], n>> \in E
  BY <1>1, HoldsIs
<1>4. Memory(t) /\ Path(t, l, q) /\ Elsewhere(s, t, l, X)
  BY <1>1, <1>2, <1>3, PushTailPath
<1>5. ToSet(q) = X
  BY <1>1, <1>2, <1>3, AppendElement
<1> HIDE DEF t, q
<1>6. F \subseteq Links /\ \A y \in Links : ListOf(y) # l => (y \in F <=> y \in E)
  BY <1>3 DEF l
<1>7. \A n \in X : <<l[1], n>> \in F
  BY <1>2, <1>3
<1>8. ToSet(q) = On(F, l)
  BY <1>2, <1>5
<1> HIDE DEF F, X
<1>9. Holds(t, F, [Q EXCEPT ![l] = q])
  BY <1>1, <1>2, <1>4, <1>6, <1>8, HoldsChange
<1>10. Kept(s, t, F)
  BY <1>1, <1>4, <1>7, KeptFrom
<1> QED
  BY <1>9, <1>10 DEF t, q, F, l

LEMMA UnlinkHolds ==
  ASSUME NEW s, NEW E, NEW Q, Holds(s, E, Q), NEW x \in E
  PROVE  LET l == ListOf(x)
             t == Unlink(s, l, x[2])
         IN  Holds(t, E \ {x}, [Q EXCEPT ![l] = RemoveFirst(Q[l], x[2])]) /\ Kept(s, t, E \ {x})
<1> DEFINE l == ListOf(x)
           t == Unlink(s, l, x[2])
           F == E \ {x}
           X == On(E, l) \ {x[2]}
           q == RemoveFirst(Q[l], x[2])
<1>0. x \in Links
  BY DEF Holds
<1>1. l \in Lists
  BY <1>0, LinksAre
<1>2. /\ On(F, l) = X /\ x[2] \in On(E, l)
      /\ x[2] \in NodesOf(l[1]) /\ <<l[1], x[2]>> = x
      /\ \A n \in X : ListOf(<<l[1], n>>) = l
  <2>1. E \subseteq Links
    BY DEF Holds
  <2>2. On(E \ {x}, ListOf(x)) = On(E, ListOf(x)) \ {x[2]}
    BY <1>0, <2>1, OnChange
  <2>3. x[2] \in On(E, ListOf(x))
    BY <1>0, <2>1, OnChange
  <2>4. x[2] \in NodesOf(ListOf(x)[1]) /\ <<ListOf(x)[1], x[2]>> = x
    BY <1>0, <2>1, OnChange
  <2>5. \A n \in On(E, ListOf(x)) \cup {x[2]} : ListOf(<<ListOf(x)[1], n>>) = ListOf(x)
    BY <1>0, <2>1, OnChange
  <2> QED
    BY <2>2, <2>3, <2>4, <2>5
<1> HIDE DEF l
<1>3. /\ Memory(s) /\ E \subseteq Links /\ Path(s, l, Q[l]) /\ ToSet(Q[l]) = On(E, l)
      /\ Q[l] \in Seq(NodesOf(l[1])) /\ IsInjective(Q[l])
      /\ \A n \in On(E, l) : <<l[1], n>> \in E
  BY <1>1, HoldsIs
<1>4. Memory(t) /\ Path(t, l, q) /\ Elsewhere(s, t, l, X)
  BY <1>1, <1>2, <1>3, UnlinkPath
<1>5. ToSet(q) = X
  BY <1>3, RemoveFirstProperties
<1> HIDE DEF t, q
<1>6. F \subseteq Links /\ \A y \in Links : ListOf(y) # l => (y \in F <=> y \in E)
  BY <1>3 DEF l
<1>7. \A n \in X : <<l[1], n>> \in F
  BY <1>2, <1>3
<1>8. ToSet(q) = On(F, l)
  BY <1>2, <1>5
<1> HIDE DEF F, X
<1>9. Holds(t, F, [Q EXCEPT ![l] = q])
  BY <1>1, <1>2, <1>4, <1>6, <1>8, HoldsChange
<1>10. Kept(s, t, F)
  BY <1>1, <1>4, <1>7, KeptFrom
<1> QED
  BY <1>9, <1>10 DEF t, q, F, l

LEMMA MoveToHeadHolds ==
  ASSUME NEW s, NEW E, NEW Q, Holds(s, E, Q), NEW x \in E
  PROVE  LET l == ListOf(x)
             t == MoveToHead(s, l, x[2])
         IN  Holds(t, E, [Q EXCEPT ![l] = Moved(Q[l], x[2])]) /\ Kept(s, t, E)
<1> DEFINE l == ListOf(x)
           t == MoveToHead(s, l, x[2])
           X == On(E, l)
           q == Moved(Q[l], x[2])
<1>0. x \in Links
  BY DEF Holds
<1>1. l \in Lists
  BY <1>0, LinksAre
<1>2. /\ x[2] \in X
      /\ \A n \in X : ListOf(<<l[1], n>>) = l
  <2>1. E \subseteq Links
    BY DEF Holds
  <2>2. x[2] \in On(E, ListOf(x))
    BY <1>0, <2>1, OnChange
  <2>3. \A n \in On(E, ListOf(x)) \cup {x[2]} : ListOf(<<ListOf(x)[1], n>>) = ListOf(x)
    BY <1>0, <2>1, OnChange
  <2> QED
    BY <2>2, <2>3
<1> HIDE DEF l
<1>3. /\ Memory(s) /\ E \subseteq Links /\ Path(s, l, Q[l]) /\ ToSet(Q[l]) = X
      /\ \A n \in X : <<l[1], n>> \in E
  BY <1>1, HoldsIs
<1>4. Memory(t) /\ Path(t, l, q) /\ Elsewhere(s, t, l, X) /\ ToSet(q) = X
  BY <1>1, <1>2, <1>3, MoveToHeadPath
<1> HIDE DEF t, q
<1>5. Holds(t, E, [Q EXCEPT ![l] = q])
  BY <1>1, <1>2, <1>3, <1>4, HoldsChange
<1>6. Kept(s, t, E)
  BY <1>1, <1>3, <1>4, KeptFrom
<1> QED
  BY <1>5, <1>6 DEF t, q, l

-----------------------------------------------------------------------------
(* The walk along a list.                                                  *)

\* No list is longer than there are matches.
LEMMA PathLength ==
  ASSUME NEW l \in Lists, NEW q \in Seq(NodesOf(l[1])), IsInjective(q)
  PROVE  Cardinality(Matches) \in Nat /\ Len(q) <= Cardinality(Matches)
<1>1. IsFiniteSet(Dirs) /\ IsFiniteSet(Matches) /\ Cardinality(Matches) \in Nat
  <2>1. IsFiniteSet({"original"}) /\ IsFiniteSet({"original"} \cup {"reply"})
    BY FS_Singleton, FS_AddElement
  <2>2. IsFiniteSet(Dirs)
    BY <2>1 DEF Dirs
  <2> QED
    BY <2>2, ObjectAssumption, FS_Product, FS_CardinalityType DEF Matches
<1>2. /\ Len(q) \in Nat /\ DOMAIN q = 1 .. Len(q)
      /\ \A i \in 1 .. Len(q) : q[i] \in NodesOf(l[1])
      /\ \A i, j \in 1 .. Len(q) : q[i] = q[j] => i = j
  BY PathIs
<1> DEFINE f == [i \in 1 .. Len(q) |-> IF q[i] \in Conns THEN <<q[i], "original">> ELSE q[i]]
<1>3. f \in [1 .. Len(q) -> Matches]
  BY <1>2, ListsAre DEF NodesOf, Matches, Dirs
<1>4. \A i, j \in 1 .. Len(q) : f[i] = f[j] => i = j
  <2> SUFFICES ASSUME NEW i \in 1 .. Len(q), NEW j \in 1 .. Len(q), f[i] = f[j]
               PROVE  i = j
    OBVIOUS
  <2>1. CASE l[1] \in {"conn", "all"}
    <3>1. q[i] \in Conns /\ q[j] \in Conns
      BY <1>2, <2>1 DEF NodesOf
    <3> QED
      BY <1>2, <3>1
  <2>2. CASE l[1] \notin {"conn", "all"}
    <3>1. q[i] \in Matches /\ q[j] \in Matches
      BY <1>2, <2>2 DEF NodesOf
    <3>2. q[i] \notin Conns /\ q[j] \notin Conns
      BY <3>1, ObjectAssumption
    <3> QED
      BY <1>2, <3>2
  <2> QED
    BY <2>1, <2>2
<1>5. f \in Injection(1 .. Len(q), Matches)
  BY <1>3, <1>4 DEF Injection, IsInjective
<1>6. Cardinality(1 .. Len(q)) <= Cardinality(Matches)
  BY <1>1, <1>5, FS_Injection
<1>7. Cardinality(1 .. Len(q)) = Len(q)
  <2>1. \A n \in Nat : Cardinality(1 .. n) = n
    <3> TAKE n \in Nat
    <3>1. Cardinality(1 .. n) = IF 1 <= n THEN n - 1 + 1 ELSE 0
      BY FS_Interval
    <3> QED
      BY <3>1
  <2> QED
    BY <1>2, <2>1
<1> QED
  BY <1>1, <1>6, <1>7

LEMMA NodesOfPath ==
  ASSUME NEW s, NEW l \in Lists, NEW q, Path(s, l, q)
  PROVE  Nodes(s, l) = q
<1> DEFINE N == Cardinality(Matches) + 1
           After(p) == IF p = <<>> THEN s.head[l]
                       ELSE IF Last(p) = Poison THEN NULL
                       ELSE s.next[<<l[1], Last(p)>>]
           step == [p \in Seq(Pointers) |-> IF After(p) = NULL THEN p ELSE Append(p, After(p))]
           Walk(w) == w = [i \in 0 .. N |-> IF i = 0 THEN <<>> ELSE step[w[i - 1]]]
           T(i) == SubSeq(q, 1, IF i < Len(q) THEN i ELSE Len(q))
<1>1. Nodes(s, l) = (CHOOSE w : Walk(w))[N]
  BY DEF Nodes
<1>2. /\ q \in Seq(NodesOf(l[1])) /\ IsInjective(q) /\ s.head[l] = At(q, 1)
      /\ \A i \in 1 .. Len(q) : s.next[<<l[1], q[i]>>] = At(q, i + 1)
  BY DEF Path
<1>3. /\ Len(q) \in Nat
      /\ \A i \in 1 .. Len(q) : q[i] \in Pointers /\ q[i] # NULL /\ q[i] # Poison
  BY <1>2, PathIs, ListsAre, NodesAre
<1>4. N \in Nat /\ Len(q) < N
  BY <1>2, PathLength
<1>5. ASSUME NEW k \in 0 .. Len(q)
      PROVE  /\ SubSeq(q, 1, k) \in Seq(Pointers)
             /\ Len(SubSeq(q, 1, k)) = k
             /\ \A i \in 1 .. k : SubSeq(q, 1, k)[i] = q[i]
             /\ After(SubSeq(q, 1, k)) = At(q, k + 1)
  <2> DEFINE p == SubSeq(q, 1, k)
  <2>1. /\ p \in Seq(Pointers) /\ Len(p) = k
        /\ \A i \in 1 .. k : p[i] = q[i]
    <3>1. q \in Seq(Pointers) /\ k \in Nat /\ 1 \in Int
      <4>1. NodesOf(l[1]) \subseteq Pointers
        BY ListsAre, NodesAre
      <4> QED
        BY <1>2, <1>3, <4>1
    <3>2. \A i \in 1 .. k : q[i] \in Pointers
      BY <1>3
    <3> QED
      BY <1>3, <3>1, <3>2, SubSeqProperties
  <2> HIDE DEF p
  <2>2. CASE k = 0
    <3>1. p = <<>>
      BY <2>1, <2>2, EmptySeq
    <3> QED
      BY <1>2, <2>1, <2>2, <3>1 DEF p
  <2>3. CASE k > 0
    <3>1. p # <<>> /\ Last(p) = q[k] /\ k \in 1 .. Len(q)
      BY <1>3, <2>1, <2>3 DEF Last
    <3>2. After(p) = At(q, k + 1)
      <4>1. q[k] # Poison /\ s.next[<<l[1], q[k]>>] = At(q, k + 1)
        BY <1>2, <1>3, <3>1
      <4> QED
        BY <3>1, <4>1
    <3> HIDE DEF After
    <3> QED
      BY <2>1, <3>2 DEF p
  <2> HIDE DEF After
  <2> QED
    BY <1>3, <2>1, <2>2, <2>3 DEF p
<1> HIDE DEF After
<1>6. ASSUME NEW k \in 0 .. Len(q)
      PROVE  /\ k < Len(q) => step[SubSeq(q, 1, k)] = SubSeq(q, 1, k + 1)
             /\ k = Len(q) => step[SubSeq(q, 1, k)] = SubSeq(q, 1, k)
  <2> DEFINE p == SubSeq(q, 1, k)
  <2>1. /\ p \in Seq(Pointers) /\ Len(p) = k
        /\ \A i \in 1 .. k : p[i] = q[i]
        /\ After(p) = At(q, k + 1)
    BY <1>5
  <2>2. step[p] = IF After(p) = NULL THEN p ELSE Append(p, After(p))
    BY <2>1
  <2> HIDE DEF p, step
  <2>3. CASE k < Len(q)
    <3> DEFINE e == q[k + 1]
               a == Append(p, e)
               b == SubSeq(q, 1, k + 1)
    <3>1. k + 1 \in 1 .. Len(q) /\ k + 1 \in 0 .. Len(q)
      BY <1>3, <2>3
    <3>2. After(p) = e /\ e # NULL /\ e \in Pointers
      BY <1>3, <2>1, <3>1 DEF At
    <3>3. step[p] = a
      BY <2>2, <3>2
    <3>4. /\ a \in Seq(Pointers) /\ Len(a) = k + 1 /\ a[k + 1] = e
          /\ \A i \in 1 .. k : a[i] = q[i]
      <4>1. /\ a \in Seq(Pointers) /\ Len(a) = Len(p) + 1 /\ a[Len(p) + 1] = e
            /\ \A i \in 1 .. Len(p) : a[i] = p[i]
        BY <2>1, <3>2, AppendProperties
      <4> QED
        BY <2>1, <4>1
    <3>5. b \in Seq(Pointers) /\ Len(b) = k + 1 /\ \A i \in 1 .. k + 1 : b[i] = q[i]
      BY <1>5, <3>1
    <3> HIDE DEF a, b
    <3>6. \A i \in 1 .. k + 1 : a[i] = b[i]
      BY <1>3, <3>4, <3>5
    <3>7. a = b
      BY <3>4, <3>5, <3>6, SeqEqual
    <3> QED
      BY <2>3, <3>3, <3>7 DEF b, p
  <2>4. CASE k = Len(q)
    <3>1. After(p) = NULL
      BY <1>3, <2>1, <2>4 DEF At
    <3> QED
      BY <1>3, <2>2, <2>4, <3>1 DEF p
  <2> QED
    BY <1>3, <2>3, <2>4
<1> HIDE DEF step, N
<1>7. T(0) = <<>> /\ T(N) = q
  <2>1. T(0) = SubSeq(q, 1, 0) /\ T(N) = SubSeq(q, 1, Len(q))
    BY <1>3, <1>4
  <2>2. SubSeq(q, 1, 0) = <<>>
    BY <1>3, <1>5, EmptySeq
  <2>3. SubSeq(q, 1, Len(q)) = q
    <3>1. q \in Seq(Pointers)
      <4>1. NodesOf(l[1]) \subseteq Pointers
        BY ListsAre, NodesAre
      <4> QED
        BY <1>2, <4>1
    <3>2. /\ SubSeq(q, 1, Len(q)) \in Seq(Pointers)
          /\ Len(SubSeq(q, 1, Len(q))) = Len(q)
          /\ \A i \in 1 .. Len(q) : SubSeq(q, 1, Len(q))[i] = q[i]
      BY <1>3, <1>5
    <3> QED
      BY <3>1, <3>2, SeqEqual
  <2> QED
    BY <2>1, <2>2, <2>3
<1>8. ASSUME NEW i \in 1 .. N
      PROVE  step[T(i - 1)] = T(i)
  <2>1. CASE i - 1 < Len(q)
    <3>1. i - 1 \in 0 .. Len(q) /\ (i - 1) + 1 = i
      BY <1>3, <2>1
    <3>2. T(i - 1) = SubSeq(q, 1, i - 1)
      BY <2>1
    <3>3. step[SubSeq(q, 1, i - 1)] = SubSeq(q, 1, (i - 1) + 1)
      BY <1>6, <2>1, <3>1
    <3>4. T(i) = SubSeq(q, 1, i)
      <4>1. i = IF i < Len(q) THEN i ELSE Len(q)
        BY <1>3, <2>1
      <4> QED
        BY <4>1
    <3> QED
      BY <3>1, <3>2, <3>3, <3>4
  <2>2. CASE ~(i - 1 < Len(q))
    <3>1. Len(q) \in 0 .. Len(q) /\ ~(i < Len(q))
      BY <1>3, <2>2
    <3> QED
      BY <1>6, <2>2, <3>1
  <2> QED
    BY <2>1, <2>2
<1> HIDE DEF T
<1>9. Walk([i \in 0 .. N |-> T(i)])
  <2> DEFINE w == [i \in 0 .. N |-> T(i)]
  <2>1. ASSUME NEW i \in 0 .. N
        PROVE  T(i) = IF i = 0 THEN <<>> ELSE step[w[i - 1]]
    <3>1. CASE i = 0
      BY <1>7, <3>1
    <3>2. CASE i # 0
      <4>1. i \in 1 .. N /\ i - 1 \in 0 .. N
        BY <1>4, <3>2
      <4>2. w[i - 1] = T(i - 1)
        BY <4>1
      <4> QED
        BY <1>8, <3>2, <4>1, <4>2
    <3> QED
      BY <3>1, <3>2
  <2> QED
    BY <2>1
<1>10. PICK w : w = (CHOOSE v : Walk(v))
  OBVIOUS
<1>11. Walk(w)
  BY <1>9, <1>10
<1>12. /\ w[0] = T(0)
       /\ \A i \in 1 .. N : w[i] = step[w[i - 1]]
  BY <1>4, <1>7, <1>11
<1>13. \A i \in 0 .. N : w[i] = T(i)
  <2> DEFINE B == {i \in 0 .. N : w[i] # T(i)}
  <2> SUFFICES ASSUME B # {} PROVE FALSE
    OBVIOUS
  <2>1. B \subseteq Nat
    BY <1>4
  <2>2. PICK i \in B : \A j \in B : ~(<<j, i>> \in OpToRel(<, Nat))
    BY <2>1, WFMin, NatLessThanWellFounded
  <2>3. i \in 0 .. N /\ w[i] # T(i) /\ i # 0
    BY <1>12, <2>2
  <2>4. i \in 1 .. N /\ i - 1 \in 0 .. N /\ i - 1 \in Nat /\ i \in Nat /\ i - 1 < i
    BY <1>4, <2>3
  <2>5. i - 1 \notin B
    <3>1. <<i - 1, i>> \in OpToRel(<, Nat)
      BY <2>4 DEF OpToRel
    <3> QED
      BY <2>2, <3>1
  <2>6. w[i - 1] = T(i - 1)
    BY <2>4, <2>5
  <2> QED
    BY <1>8, <1>12, <2>3, <2>4, <2>6
<1> QED
  BY <1>1, <1>4, <1>7, <1>10, <1>13

-----------------------------------------------------------------------------
(* Order.                                                                  *)

\* In q, a comes before b.
Before(q, a, b) == \E i, j \in 1 .. Len(q) : i < j /\ q[i] = a /\ q[j] = b

LEMMA RemoveAbsent ==
  ASSUME NEW q, NEW e, DOMAIN q = 1 .. Len(q), e \notin ToSet(q)
  PROVE  RemoveFirst(q, e) = q
BY DEF RemoveFirst, ToSet

LEMMA BeforeRemove ==
  ASSUME NEW S, NEW q \in Seq(S), IsInjective(q), NEW e, NEW a, NEW b
  PROVE  /\ Before(RemoveFirst(q, e), a, b) => Before(q, a, b)
         /\ Before(q, a, b) /\ a # e /\ b # e => Before(RemoveFirst(q, e), a, b)
<1>1. DOMAIN q = 1 .. Len(q) /\ Len(q) \in Nat
  BY LenProperties
<1>2. CASE e \notin ToSet(q)
  BY <1>1, <1>2, RemoveAbsent
<1>3. CASE e \in ToSet(q)
  <2> DEFINE r == RemoveFirst(q, e)
  <2>1. PICK k \in 1 .. Len(q) : q[k] = e
    BY <1>1, <1>3 DEF ToSet
  <2>2. /\ Len(r) = Len(q) - 1
        /\ \A i \in 1 .. Len(r) : r[i] = IF i < k THEN q[i] ELSE q[i + 1]
    BY <2>1, AtRemove
  <2> HIDE DEF r
  <2>3. ASSUME Before(r, a, b)
        PROVE  Before(q, a, b)
    <3>1. PICK i \in 1 .. Len(r), j \in 1 .. Len(r) : i < j /\ r[i] = a /\ r[j] = b
      BY <2>3 DEF Before
    <3>2. PICK m \in 1 .. Len(q) : m = IF i < k THEN i ELSE i + 1
      BY <1>1, <2>2, <3>1
    <3>3. PICK n \in 1 .. Len(q) : n = IF j < k THEN j ELSE j + 1
      BY <1>1, <2>2, <3>1
    <3>4. m < n /\ q[m] = a /\ q[n] = b
      BY <1>1, <2>2, <3>1, <3>2, <3>3
    <3> QED
      BY <3>4 DEF Before
  <2>4. ASSUME Before(q, a, b), a # e, b # e
        PROVE  Before(r, a, b)
    <3>1. PICK i \in 1 .. Len(q), j \in 1 .. Len(q) : i < j /\ q[i] = a /\ q[j] = b
      BY <2>4 DEF Before
    <3>2. i # k /\ j # k
      BY <2>1, <2>4, <3>1
    <3>3. PICK m \in 1 .. Len(r) : m = IF i < k THEN i ELSE i - 1
      BY <1>1, <2>2, <3>1, <3>2
    <3>4. PICK n \in 1 .. Len(r) : n = IF j < k THEN j ELSE j - 1
      BY <1>1, <2>2, <3>1, <3>2
    <3>5. m < n
      BY <1>1, <3>1, <3>2, <3>3, <3>4
    <3>6. r[m] = q[i]
      BY <1>1, <2>2, <3>2, <3>3
    <3>7. r[n] = q[j]
      BY <1>1, <2>2, <3>2, <3>4
    <3> QED
      BY <3>1, <3>5, <3>6, <3>7 DEF Before
  <2> QED
    BY <2>3, <2>4 DEF r
<1> QED
  BY <1>2, <1>3

LEMMA BeforeCons ==
  ASSUME NEW S, NEW q \in Seq(S), NEW n \in S, NEW a, NEW b, Before(Cons(n, q), a, b)
  PROVE  (a = n /\ b \in ToSet(q)) \/ Before(q, a, b)
<1> DEFINE r == Cons(n, q)
<1>1. /\ Len(r) = Len(q) + 1 /\ r[1] = n
      /\ \A i \in 1 .. Len(q) : r[i + 1] = q[i]
  <2>1. /\ r \in Seq(S) /\ Len(r) = Len(q) + 1 /\ r[1] = n
        /\ \A i \in 1 .. Len(q) : r[i + 1] = q[i]
    BY ConsProperties
  <2> QED
    BY <2>1
<1>2. Len(q) \in Nat /\ DOMAIN q = 1 .. Len(q)
  BY LenProperties
<1> HIDE DEF r
<1>3. PICK i \in 1 .. Len(r), j \in 1 .. Len(r) : i < j /\ r[i] = a /\ r[j] = b
  BY DEF Before, r
<1>4. \A k \in 2 .. Len(q) + 1 : k - 1 \in 1 .. Len(q) /\ r[k] = q[k - 1]
  <2> TAKE k \in 2 .. Len(q) + 1
  <2>1. k - 1 \in 1 .. Len(q) /\ (k - 1) + 1 = k
    BY <1>2
  <2> QED
    BY <1>1, <2>1
<1>5. j \in 2 .. Len(q) + 1 /\ j - 1 \in 1 .. Len(q) /\ q[j - 1] = b
  BY <1>1, <1>2, <1>3, <1>4
<1>6. CASE i = 1
  BY <1>1, <1>2, <1>3, <1>5, <1>6 DEF ToSet
<1>7. CASE i # 1
  <2>1. i - 1 \in 1 .. Len(q) /\ q[i - 1] = a /\ i - 1 < j - 1
    BY <1>1, <1>2, <1>3, <1>4, <1>7
  <2> QED
    BY <1>5, <2>1 DEF Before
<1> QED
  BY <1>6, <1>7

LEMMA BeforeAppend ==
  ASSUME NEW S, NEW q \in Seq(S), NEW n \in S, NEW a, NEW b
  PROVE  /\ Before(q, a, b) => Before(Append(q, n), a, b)
         /\ a \in ToSet(q) => Before(Append(q, n), a, n)
<1> DEFINE r == Append(q, n)
<1>1. /\ Len(r) = Len(q) + 1 /\ r[Len(q) + 1] = n
      /\ \A i \in 1 .. Len(q) : r[i] = q[i]
  BY AppendProperties
<1>2. Len(q) \in Nat /\ DOMAIN q = 1 .. Len(q)
  BY LenProperties
<1> HIDE DEF r
<1>3. ASSUME Before(q, a, b)
      PROVE  Before(r, a, b)
  <2>1. PICK i \in 1 .. Len(q), j \in 1 .. Len(q) : i < j /\ q[i] = a /\ q[j] = b
    BY <1>3 DEF Before
  <2>2. i \in 1 .. Len(r) /\ j \in 1 .. Len(r) /\ r[i] = a /\ r[j] = b
    BY <1>1, <1>2, <2>1
  <2> QED
    BY <2>1, <2>2 DEF Before
<1>4. ASSUME a \in ToSet(q)
      PROVE  Before(r, a, n)
  <2>1. PICK i \in 1 .. Len(q) : q[i] = a
    BY <1>2, <1>4 DEF ToSet
  <2>2. /\ i \in 1 .. Len(r) /\ Len(q) + 1 \in 1 .. Len(r) /\ i < Len(q) + 1
        /\ r[i] = a /\ r[Len(q) + 1] = n
    BY <1>1, <1>2, <2>1
  <2> QED
    BY <2>2 DEF Before
<1> QED
  BY <1>3, <1>4 DEF r

\* A hit that moves passes none that is like it.
LEMMA BeforeMoved ==
  ASSUME NEW S, NEW q \in Seq(S), IsInjective(q), NEW n \in ToSet(q), NEW a, NEW b,
         Before(Moved(q, n), a, b)
  PROVE  Before(q, a, b) \/ (a = n /\ b \in ToSet(q) /\ b # n)
<1>1. n \in S
  <2>1. \E i \in 1 .. Len(q) : q[i] = n
    BY LenProperties DEF ToSet
  <2> QED
    BY <2>1, ElementOfSeq
<1>2. CASE q[1] = n
  BY <1>2 DEF Moved
<1>3. CASE q[1] # n
  <2>1. /\ RemoveFirst(q, n) \in Seq(S)
        /\ ToSet(RemoveFirst(q, n)) = ToSet(q) \ {n}
    BY RemoveFirstProperties
  <2>2. \/ a = n /\ b \in ToSet(RemoveFirst(q, n))
        \/ Before(RemoveFirst(q, n), a, b)
    BY <1>1, <1>3, <2>1, BeforeCons DEF Moved
  <2>3. Before(RemoveFirst(q, n), a, b) => Before(q, a, b)
    BY BeforeRemove
  <2> QED
    BY <2>1, <2>2, <2>3
<1> QED
  BY <1>2, <1>3

\* Two nodes may be taken out in either order.
LEMMA RemovesCommute ==
  ASSUME NEW S, NEW q \in Seq(S), IsInjective(q), NEW a, NEW b
  PROVE  RemoveFirst(RemoveFirst(q, a), b) = RemoveFirst(RemoveFirst(q, b), a)
<1>1. DOMAIN q = 1 .. Len(q) /\ Len(q) \in Nat
  BY LenProperties
<1>2. ASSUME NEW e, e \notin ToSet(q), NEW d
      PROVE  RemoveFirst(RemoveFirst(q, e), d) = RemoveFirst(RemoveFirst(q, d), e)
  <2>1. RemoveFirst(q, e) = q
    BY <1>1, <1>2, RemoveAbsent
  <2>2. RemoveFirst(q, d) \in Seq(S) /\ e \notin ToSet(RemoveFirst(q, d))
    BY <1>2, RemoveFirstProperties
  <2>3. RemoveFirst(RemoveFirst(q, d), e) = RemoveFirst(q, d)
    BY <2>2, LenProperties, RemoveAbsent
  <2> QED
    BY <2>1, <2>3
<1>3. ASSUME NEW i \in 1 .. Len(q), NEW j \in 1 .. Len(q), i < j
      PROVE  RemoveFirst(RemoveFirst(q, q[i]), q[j]) = RemoveFirst(RemoveFirst(q, q[j]), q[i])
  <2> DEFINE r == RemoveFirst(q, q[i])
             p == RemoveFirst(q, q[j])
             y == RemoveFirst(r, q[j])
             z == RemoveFirst(p, q[i])
  <2>1. /\ r \in Seq(S) /\ IsInjective(r) /\ Len(r) = Len(q) - 1
        /\ \A k \in 1 .. Len(r) : r[k] = IF k < i THEN q[k] ELSE q[k + 1]
    BY AtRemove
  <2>2. /\ p \in Seq(S) /\ IsInjective(p) /\ Len(p) = Len(q) - 1
        /\ \A k \in 1 .. Len(p) : p[k] = IF k < j THEN q[k] ELSE q[k + 1]
    BY AtRemove
  <2> HIDE DEF r, p
  <2>3. PICK h \in 1 .. Len(r) : h = j - 1 /\ r[h] = q[j]
    <3>1. j - 1 \in 1 .. Len(r) /\ ~(j - 1 < i) /\ (j - 1) + 1 = j
      BY <1>1, <1>3, <2>1
    <3>2. r[j - 1] = q[(j - 1) + 1]
      BY <2>1, <3>1
    <3> QED
      BY <3>1, <3>2
  <2>4. i \in 1 .. Len(p) /\ p[i] = q[i]
    BY <1>1, <1>3, <2>2
  <2>5. /\ y \in Seq(S) /\ Len(y) = Len(q) - 2
        /\ \A k \in 1 .. Len(y) : y[k] = IF k < h THEN r[k] ELSE r[k + 1]
    <3>1. y = RemoveFirst(r, r[h])
      BY <2>3
    <3>2. /\ y \in Seq(S) /\ Len(y) = Len(r) - 1
          /\ \A k \in 1 .. Len(y) : y[k] = IF k < h THEN r[k] ELSE r[k + 1]
      <4>1. RemoveFirst(r, r[h]) \in Seq(S)
        BY <2>1, AtRemove
      <4>2. Len(RemoveFirst(r, r[h])) = Len(r) - 1
        BY <2>1, AtRemove
      <4>3. \A k \in 1 .. Len(RemoveFirst(r, r[h])) :
               RemoveFirst(r, r[h])[k] = IF k < h THEN r[k] ELSE r[k + 1]
        BY <2>1, AtRemove
      <4> HIDE DEF y, r
      <4> QED
        BY <3>1, <4>1, <4>2, <4>3
    <3> HIDE DEF y
    <3>3. Len(r) - 1 = Len(q) - 2
      BY <1>1, <2>1
    <3> QED
      BY <3>2, <3>3
  <2>6. /\ z \in Seq(S) /\ Len(z) = Len(q) - 2
        /\ \A k \in 1 .. Len(z) : z[k] = IF k < i THEN p[k] ELSE p[k + 1]
    <3>1. z = RemoveFirst(p, p[i])
      BY <2>4
    <3>2. /\ z \in Seq(S) /\ Len(z) = Len(p) - 1
          /\ \A k \in 1 .. Len(z) : z[k] = IF k < i THEN p[k] ELSE p[k + 1]
      <4>1. RemoveFirst(p, p[i]) \in Seq(S)
        BY <2>2, <2>4, AtRemove
      <4>2. Len(RemoveFirst(p, p[i])) = Len(p) - 1
        BY <2>2, <2>4, AtRemove
      <4>3. \A k \in 1 .. Len(RemoveFirst(p, p[i])) :
               RemoveFirst(p, p[i])[k] = IF k < i THEN p[k] ELSE p[k + 1]
        BY <2>2, <2>4, AtRemove
      <4> HIDE DEF z, p
      <4> QED
        BY <3>1, <4>1, <4>2, <4>3
    <3> HIDE DEF z
    <3>3. Len(p) - 1 = Len(q) - 2
      BY <1>1, <2>2
    <3> QED
      BY <3>2, <3>3
  <2> HIDE DEF y, z
  <2>7. ASSUME NEW k \in 1 .. Len(y)
        PROVE  y[k] = z[k]
    <3>1. k \in Int /\ 1 <= k /\ k <= Len(q) - 2 /\ i \in Int /\ j \in Int /\ h = j - 1
      BY <1>1, <2>3, <2>5
    <3>2. CASE k < i
      <4>1. k < h /\ k < j /\ k \in 1 .. Len(r) /\ k \in 1 .. Len(p)
        BY <1>1, <1>3, <2>1, <2>2, <3>1, <3>2
      <4> QED
        BY <2>1, <2>2, <2>5, <2>6, <3>2, <4>1
    <3>3. CASE i <= k /\ k < h
      <4>1. k + 1 < j /\ k \in 1 .. Len(r) /\ k + 1 \in 1 .. Len(p) /\ ~(k < i)
        BY <1>1, <1>3, <2>1, <2>2, <3>1, <3>3
      <4>2. y[k] = q[k + 1]
        BY <2>1, <2>5, <3>3, <4>1
      <4>3. z[k] = q[k + 1]
        BY <2>2, <2>5, <2>6, <4>1
      <4> QED
        BY <4>2, <4>3
    <3>4. CASE h <= k
      <4>1. /\ ~(k + 1 < j) /\ ~(k + 1 < i) /\ ~(k < i) /\ ~(k < h)
            /\ k + 1 \in 1 .. Len(r) /\ k + 1 \in 1 .. Len(p)
        BY <1>1, <1>3, <2>1, <2>2, <3>1, <3>4
      <4>2. y[k] = q[(k + 1) + 1]
        BY <2>1, <2>5, <4>1
      <4>3. z[k] = q[(k + 1) + 1]
        BY <2>2, <2>5, <2>6, <4>1
      <4> QED
        BY <4>2, <4>3
    <3> QED
      BY <3>1, <3>2, <3>3, <3>4
  <2>8. y = z
    BY <2>5, <2>6, <2>7, SeqEqual
  <2> QED
    BY <2>8 DEF r, p, y, z
<1>4. CASE a \in ToSet(q) /\ b \in ToSet(q)
  <2>1. PICK i \in 1 .. Len(q), j \in 1 .. Len(q) : q[i] = a /\ q[j] = b
    BY <1>1, <1>4 DEF ToSet
  <2>2. i < j \/ j < i \/ i = j
    BY <1>1
  <2> QED
    BY <1>3, <2>1, <2>2
<1> QED
  BY <1>2, <1>4

-----------------------------------------------------------------------------
(* Insertion and removal of a connection.                                  *)

Original(c) == <<c, "original">>
Reply(c)    == <<c, "reply">>

\* The connection that a link is part of.
OwnerOf(x) == IF x[1] \in {"conn", "all"} THEN x[2] ELSE x[2][1]

LinksOf(c) == {x \in Links : OwnerOf(x) = c}
Tables(c)  == {x \in LinksOf(c) : x[1] # "active"}

LEMMA LinksOfAre ==
  ASSUME NEW c \in Conns
  PROVE  /\ Original(c) \in Matches /\ Reply(c) \in Matches /\ Original(c) # Reply(c)
         /\ Tables(c) = {<<"conn", c>>, <<"all", c>>,
                         <<"match", Original(c)>>, <<"match", Reply(c)>>}
         /\ LinksOf(c) = Tables(c) \cup {<<"active", Original(c)>>, <<"active", Reply(c)>>}
         /\ LinksOf(c) \subseteq Links
         /\ \A x \in Links : x[2] \in {c, Original(c), Reply(c)} <=> x \in LinksOf(c)
<1>1. Original(c) \in Matches /\ Reply(c) \in Matches /\ Original(c) # Reply(c)
  BY DEF Original, Reply, Matches, Dirs
<1>2. c \notin Matches
  BY ObjectAssumption
<1>3. \A m \in Matches : m \notin Conns /\ m = <<m[1], m[2]>> /\ m[2] \in Dirs
  BY ObjectAssumption DEF Matches
<1>4. ASSUME NEW x \in Links
      PROVE  /\ x[2] \in {c, Original(c), Reply(c)} <=> x \in LinksOf(c)
             /\ x \in LinksOf(c) => x \in {<<"conn", c>>, <<"all", c>>, <<"match", Original(c)>>,
                     <<"match", Reply(c)>>, <<"active", Original(c)>>, <<"active", Reply(c)>>}
  <2>1. x = <<x[1], x[2]>>
    BY LinksAre
  <2>2. CASE x \in {"conn", "all"} \X Conns
    <3>1. x[1] \in {"conn", "all"} /\ x[2] \in Conns /\ OwnerOf(x) = x[2]
      BY <2>2 DEF OwnerOf
    <3>2. x[2] # Original(c) /\ x[2] # Reply(c)
      BY <1>1, <1>3, <3>1
    <3> QED
      BY <2>1, <3>1, <3>2 DEF LinksOf
  <2>3. CASE x \in {"match", "active"} \X Matches
    <3>1. x[1] \in {"match", "active"} /\ x[2] \in Matches /\ OwnerOf(x) = x[2][1]
      BY <2>3 DEF OwnerOf
    <3>2. x[2] # c
      BY <1>2, <3>1
    <3>3. x[2] = <<x[2][1], "original">> \/ x[2] = <<x[2][1], "reply">>
      BY <1>3, <3>1 DEF Dirs
    <3>4. x[2][1] = c <=> x[2] \in {Original(c), Reply(c)}
      BY <3>3 DEF Original, Reply
    <3> QED
      BY <2>1, <3>1, <3>2, <3>4 DEF LinksOf
  <2> QED
    BY <2>2, <2>3 DEF Links
<1>5. /\ <<"conn", c>> \in Links /\ <<"all", c>> \in Links
      /\ \A m \in {Original(c), Reply(c)} : <<"match", m>> \in Links /\ <<"active", m>> \in Links
  BY <1>1 DEF Links
<1>6. LinksOf(c) = {<<"conn", c>>, <<"all", c>>, <<"match", Original(c)>>,
                    <<"match", Reply(c)>>, <<"active", Original(c)>>, <<"active", Reply(c)>>}
  <2>1. \A x \in LinksOf(c) : x \in Links
    BY DEF LinksOf
  <2>2. LinksOf(c) \subseteq {<<"conn", c>>, <<"all", c>>, <<"match", Original(c)>>,
                    <<"match", Reply(c)>>, <<"active", Original(c)>>, <<"active", Reply(c)>>}
    BY <1>4, <2>1
  <2>3. \A x \in {<<"conn", c>>, <<"all", c>>, <<"match", Original(c)>>, <<"match", Reply(c)>>,
                  <<"active", Original(c)>>, <<"active", Reply(c)>>} :
           x \in Links /\ x[2] \in {c, Original(c), Reply(c)}
    BY <1>5
  <2> QED
    BY <1>4, <2>2, <2>3
<1>7. Tables(c) = {<<"conn", c>>, <<"all", c>>, <<"match", Original(c)>>, <<"match", Reply(c)>>}
  BY <1>6 DEF Tables
<1> QED
  BY <1>1, <1>4, <1>6, <1>7 DEF LinksOf

LEMMA KeptTwice ==
  ASSUME NEW s, NEW t, NEW u, NEW F, NEW G, Kept(s, t, F), Kept(t, u, G),
         NEW H, F \cup G \subseteq H
  PROVE  Kept(s, u, H)
BY DEF Kept

\* Taking out what is not there.
LEMMA HoldsAbsent ==
  ASSUME NEW s, NEW E, NEW Q, Holds(s, E, Q), NEW l \in Lists, NEW n,
         <<l[1], n>> \notin E \/ ListOf(<<l[1], n>>) # l
  PROVE  RemoveFirst(Q[l], n) = Q[l]
<1>1. /\ Q[l] \in Seq(NodesOf(l[1])) /\ ToSet(Q[l]) = On(E, l)
      /\ \A k \in On(E, l) : ListOf(<<l[1], k>>) = l /\ <<l[1], k>> \in E
  BY HoldsIs
<1>2. n \notin ToSet(Q[l]) /\ DOMAIN Q[l] = 1 .. Len(Q[l])
  BY <1>1, LenProperties
<1> QED
  BY <1>2, RemoveAbsent

\* The lists R are the lists Q without n in those that the pointers T link.
Took(Q, R, T, n) == \A l \in Lists : R[l] = IF l[1] \in T THEN RemoveFirst(Q[l], n) ELSE Q[l]

\* Unlinking takes a node out of every list that the pair of pointers links, since it
\* is on at most one of them.
LEMMA UnlinkAnywhere ==
  ASSUME NEW s, NEW E, NEW Q, Holds(s, E, Q), NEW x \in E
  PROVE  LET t == Unlink(s, ListOf(x), x[2])
         IN  /\ Kept(s, t, E)
             /\ \E R : Holds(t, E \ {x}, R) /\ Took(Q, R, {x[1]}, x[2])
<1> DEFINE t == Unlink(s, ListOf(x), x[2])
           R == [Q EXCEPT ![ListOf(x)] = RemoveFirst(Q[ListOf(x)], x[2])]
<1>1. /\ x \in Links /\ ListOf(x) \in Lists /\ ListOf(x)[1] = x[1]
      /\ DOMAIN Q = Lists /\ x = <<x[1], x[2]>>
  BY LinksAre DEF Holds
<1>2. Holds(t, E \ {x}, R) /\ Kept(s, t, E \ {x})
  BY UnlinkHolds
<1>3. ASSUME NEW l \in Lists
      PROVE  R[l] = IF l[1] \in {x[1]} THEN RemoveFirst(Q[l], x[2]) ELSE Q[l]
  <2>1. CASE l = ListOf(x)
    BY <1>1, <2>1
  <2>2. CASE l # ListOf(x)
    <3>1. R[l] = Q[l]
      BY <1>1, <2>2
    <3>2. l[1] = x[1] => ListOf(<<l[1], x[2]>>) # l
      BY <1>1, <2>2
    <3>3. l[1] = x[1] => RemoveFirst(Q[l], x[2]) = Q[l]
      BY <3>2, HoldsAbsent
    <3> QED
      BY <3>1, <3>3
  <2> QED
    BY <2>1, <2>2
<1>4. Kept(s, t, E)
  BY <1>2 DEF Kept
<1>5. Took(Q, R, {x[1]}, x[2])
  BY <1>3 DEF Took
<1> QED
  BY <1>2, <1>4, <1>5

LEMMA RemoveMatchHolds ==
  ASSUME NEW s, NEW E, NEW Q, Holds(s, E, Q), NEW m \in Matches, <<"match", m>> \in E,
         <<"active", m>> \in E <=> active[m]
  PROVE  LET t == RemoveMatch(s, m)
         IN  /\ Kept(s, t, E)
             /\ \E R : /\ Holds(t, E \ {<<"match", m>>, <<"active", m>>}, R)
                       /\ Took(Q, R, {"match", "active"}, m)
<1> DEFINE x == <<"match", m>>
           y == <<"active", m>>
           u == Unlink(s, MatchChain(m), m)
           t == RemoveMatch(s, m)
<1>1. ListOf(x) = MatchChain(m) /\ ListOf(y) = Active
  BY DEF ListOf
<1>2. /\ Kept(s, u, E)
      /\ \E R : Holds(u, E \ {x}, R) /\ Took(Q, R, {"match"}, m)
  <2>1. u = Unlink(s, ListOf(x), x[2]) /\ x[1] = "match" /\ x[2] = m
    BY <1>1
  <2> QED
    BY <2>1, UnlinkAnywhere
<1>3. PICK P : Holds(u, E \ {x}, P) /\ Took(Q, P, {"match"}, m)
  BY <1>2
<1> HIDE DEF u
<1>4. CASE ~active[m]
  <2>1. t = u /\ E \ {x, y} = E \ {x}
    BY <1>4 DEF RemoveMatch, u
  <2>2. ASSUME NEW l \in Lists, l[1] = "active"
        PROVE  RemoveFirst(Q[l], m) = Q[l]
    BY <1>4, <2>2, HoldsAbsent
  <2>3. Took(Q, P, {"match", "active"}, m)
    BY <1>3, <2>2 DEF Took
  <2> QED
    BY <1>2, <1>3, <2>1, <2>3
<1>5. CASE active[m]
  <2>1. t = Unlink(u, ListOf(y), y[2]) /\ y \in E \ {x} /\ y[1] = "active" /\ y[2] = m
    BY <1>1, <1>5 DEF RemoveMatch, u
  <2> HIDE DEF t
  <2>2. /\ Kept(u, t, E \ {x})
        /\ \E R : Holds(t, (E \ {x}) \ {y}, R) /\ Took(P, R, {"active"}, m)
    <3> DEFINE F == E \ {x}
    <3>1. y \in F /\ Holds(u, F, P)
      BY <1>3, <2>1
    <3> HIDE DEF F, y
    <3>2. /\ Kept(u, Unlink(u, ListOf(y), y[2]), F)
          /\ \E R : Holds(Unlink(u, ListOf(y), y[2]), F \ {y}, R) /\ Took(P, R, {y[1]}, y[2])
      BY <3>1, UnlinkAnywhere
    <3> QED
      BY <2>1, <3>2 DEF F
  <2>3. PICK R : Holds(t, (E \ {x}) \ {y}, R) /\ Took(P, R, {"active"}, m)
    BY <2>2
  <2>4. Took(Q, R, {"match", "active"}, m)
    BY <1>3, <2>3 DEF Took
  <2>5. (E \ {x}) \ {y} = E \ {x, y}
    OBVIOUS
  <2>6. Kept(s, t, E)
    BY <1>2, <2>2, KeptTwice
  <2> QED
    BY <2>3, <2>4, <2>5, <2>6 DEF t
<1> QED
  BY <1>4, <1>5

\* The matches of c taken out of a list.
Without(q, c) == RemoveFirst(RemoveFirst(q, Reply(c)), Original(c))

\* What is left of a list once c is gone.
Removed(q, l, c) == IF l[1] \in {"match", "active"} THEN Without(q, c) ELSE RemoveFirst(q, c)

LEMMA FreeIs ==
  ASSUME NEW s, Memory(s), NEW c \in Conns
  PROVE  /\ Memory(Free(s, c)) /\ Free(s, c).head = s.head /\ Free(s, c).tail = s.tail
         /\ Kept(s, Free(s, c), LinksOf(c))
<1> DEFINE Clear(ptr) == [x \in Links |-> IF x[2] \in {c, Original(c), Reply(c)}
                                          THEN Poison ELSE ptr[x]]
           t == [s EXCEPT !.next = Clear(s.next), !.prev = Clear(s.prev)]
<1>1. Free(s, c) = t
  BY DEF Free, Original, Reply
<1>2. \A ptr \in [Links -> Pointers] : Clear(ptr) \in [Links -> Pointers]
  BY DEF Pointers
<1>3. Clear(s.next) \in [Links -> Pointers] /\ Clear(s.prev) \in [Links -> Pointers]
  BY <1>2, MemoryIs
<1>4. \A x \in Links \ LinksOf(c) : Clear(s.next)[x] = s.next[x] /\ Clear(s.prev)[x] = s.prev[x]
  BY LinksOfAre
<1> HIDE DEF Clear
<1>5. Memory(t) /\ t.head = s.head /\ t.tail = s.tail /\ t.next = Clear(s.next) /\ t.prev = Clear(s.prev)
  BY <1>3 DEF Memory
<1> HIDE DEF t
<1> QED
  BY <1>1, <1>4, <1>5 DEF Kept

\* From s to t the connection c and its matches are removed from the lists Q.
Drops(s, t, E, Q, c) ==
    /\ Kept(s, t, E \cup LinksOf(c))
    /\ \E R : /\ Holds(t, E \ LinksOf(c), R)
              /\ \A l \in Lists : R[l] = Removed(Q[l], l, c)

LEMMA RemoveConnectionHolds ==
  ASSUME NEW s, NEW E, NEW Q, Holds(s, E, Q), NEW c \in Conns, Tables(c) \subseteq E,
         \A m \in Matches : m[1] = c => (<<"active", m>> \in E <=> active[m])
  PROVE  Drops(s, Free(RemoveConnection(s, c), c), E, Q, c)
<1> DEFINE o  == Original(c)
           r  == Reply(c)
           s1 == RemoveMatch(s, r)
           s2 == RemoveMatch(s1, o)
           s3 == Unlink(s2, ConnChain(c), c)
           s4 == Unlink(s3, All, c)
           t  == Free(s4, c)
           E1 == E \ {<<"match", r>>, <<"active", r>>}
           E2 == E1 \ {<<"match", o>>, <<"active", o>>}
           x  == <<"conn", c>>
           y  == <<"all", c>>
<1>1. /\ o \in Matches /\ r \in Matches /\ o # r
      /\ <<"match", r>> \in E /\ <<"match", o>> \in E1 /\ x \in E2 /\ y \in E2 \ {x}
      /\ LinksOf(c) = {x, y, <<"match", o>>, <<"match", r>>, <<"active", o>>, <<"active", r>>}
      /\ <<"active", r>> \in E <=> active[r]
      /\ <<"active", o>> \in E1 <=> active[o]
      /\ LinksOf(c) \subseteq Links
  <2>1. /\ o \in Matches /\ r \in Matches /\ o # r
        /\ Tables(c) = {x, y, <<"match", o>>, <<"match", r>>}
        /\ LinksOf(c) = Tables(c) \cup {<<"active", o>>, <<"active", r>>}
        /\ LinksOf(c) \subseteq Links
    BY LinksOfAre
  <2>2. (<<"active", r>> \in E <=> active[r]) /\ (<<"active", o>> \in E <=> active[o])
    BY <2>1 DEF Original, Reply
  <2> QED
    BY <2>1, <2>2
<1>2. Free(RemoveConnection(s, c), c) = t
  BY DEF RemoveConnection, Original, Reply
<1> HIDE DEF o, r
<1>3. /\ Kept(s, s1, E)
      /\ \E R : Holds(s1, E1, R) /\ Took(Q, R, {"match", "active"}, r)
  BY <1>1, RemoveMatchHolds
<1>4. PICK Q1 : Holds(s1, E1, Q1) /\ Took(Q, Q1, {"match", "active"}, r)
  BY <1>3
<1> HIDE DEF s1
<1>5. /\ Kept(s1, s2, E1)
      /\ \E R : Holds(s2, E2, R) /\ Took(Q1, R, {"match", "active"}, o)
  BY <1>1, <1>4, RemoveMatchHolds
<1>6. PICK Q2 : Holds(s2, E2, Q2) /\ Took(Q1, Q2, {"match", "active"}, o)
  BY <1>5
<1> HIDE DEF s2
<1>7. /\ Kept(s2, s3, E2)
      /\ \E R : Holds(s3, E2 \ {x}, R) /\ Took(Q2, R, {"conn"}, c)
  <2>1. s3 = Unlink(s2, ListOf(x), x[2]) /\ x[1] = "conn" /\ x[2] = c
    BY DEF ListOf
  <2>2. x \in E2
    BY <1>1
  <2> HIDE DEF x, E2, s3
  <2>3. /\ Kept(s2, Unlink(s2, ListOf(x), x[2]), E2)
        /\ \E R : /\ Holds(Unlink(s2, ListOf(x), x[2]), (E2) \ {x}, R)
                  /\ Took(Q2, R, {x[1]}, x[2])
    BY <1>6, <2>2, UnlinkAnywhere
  <2> QED
    BY <2>1, <2>3
<1>8. PICK Q3 : Holds(s3, E2 \ {x}, Q3) /\ Took(Q2, Q3, {"conn"}, c)
  BY <1>7
<1> HIDE DEF s3
<1>9. /\ Kept(s3, s4, E2 \ {x})
      /\ \E R : Holds(s4, (E2 \ {x}) \ {y}, R) /\ Took(Q3, R, {"all"}, c)
  <2>1. s4 = Unlink(s3, ListOf(y), y[2]) /\ y[1] = "all" /\ y[2] = c
    BY DEF ListOf
  <2>2. y \in E2 \ {x}
    BY <1>1
  <2> HIDE DEF x, y, E2, s4
  <2>3. /\ Kept(s3, Unlink(s3, ListOf(y), y[2]), E2 \ {x})
        /\ \E R : /\ Holds(Unlink(s3, ListOf(y), y[2]), (E2 \ {x}) \ {y}, R)
                  /\ Took(Q3, R, {y[1]}, y[2])
    BY <1>8, <2>2, UnlinkAnywhere
  <2> QED
    BY <2>1, <2>3
<1>10. PICK Q4 : Holds(s4, (E2 \ {x}) \ {y}, Q4) /\ Took(Q3, Q4, {"all"}, c)
  BY <1>9
<1> HIDE DEF s4
<1>11. (E2 \ {x}) \ {y} = E \ LinksOf(c)
  BY <1>1
<1>12. ASSUME NEW l \in Lists
       PROVE  Q4[l] = Removed(Q[l], l, c)
  <2>1. l[1] \in {"conn", "all", "match", "active"}
    BY ListsAre
  <2>2. CASE l[1] \in {"match", "active"}
    BY <1>4, <1>6, <1>8, <1>10, <2>2 DEF Took, Removed, Without, o, r
  <2>3. CASE l[1] \in {"conn", "all"}
    BY <1>4, <1>6, <1>8, <1>10, <2>3 DEF Took, Removed
  <2> QED
    BY <2>1, <2>2, <2>3
<1>13. Kept(s, s4, E)
  <2>1. Kept(s, s2, E)
    BY <1>3, <1>5, KeptTwice
  <2>2. Kept(s, s3, E)
    BY <1>7, <2>1, KeptTwice
  <2> QED
    BY <1>9, <2>2, KeptTwice
<1>14. /\ Memory(t) /\ t.head = s4.head /\ t.tail = s4.tail /\ Kept(s4, t, LinksOf(c))
  BY <1>10, FreeIs DEF Holds
<1> HIDE DEF t
<1>15. Holds(t, E \ LinksOf(c), Q4)
  <2>1. Holds(s4, E \ LinksOf(c), Q4)
    BY <1>10, <1>11
  <2>2. \A z \in E \ LinksOf(c) : t.next[z] = s4.next[z] /\ t.prev[z] = s4.prev[z]
    BY <1>14 DEF Kept, Holds
  <2> QED
    BY <1>14, <2>1, <2>2, HoldsWrite
<1>16. Kept(s, t, E \cup LinksOf(c))
  BY <1>13, <1>14, KeptTwice
<1> QED
  BY <1>2, <1>12, <1>15, <1>16 DEF Drops

LEMMA PushHeadAnywhere ==
  ASSUME NEW s, NEW E, NEW Q, Holds(s, E, Q), NEW x \in Links, x \notin E
  PROVE  LET t == PushHead(s, ListOf(x), x[2])
         IN  /\ Kept(s, t, E \cup {x})
             /\ Holds(t, E \cup {x}, [Q EXCEPT ![ListOf(x)] = Cons(x[2], Q[ListOf(x)])])
BY PushHeadHolds

\* A null pointer written where none is in use.
LEMMA WriteHolds ==
  ASSUME NEW s, NEW E, NEW Q, Holds(s, E, Q), NEW x \in Links, x \notin E,
         NEW t, \/ t = [s EXCEPT !.next[x] = NULL]
                \/ t = [s EXCEPT !.next[x] = NULL, !.prev[x] = NULL]
  PROVE  Holds(t, E, Q) /\ Kept(s, t, {x}) /\ t.next[x] = NULL
<1>1. Memory(s) /\ s.next \in [Links -> Pointers] /\ s.prev \in [Links -> Pointers] /\ E \subseteq Links
  BY MemoryIs DEF Holds
<1>2. NULL \in Pointers
  BY NodesAre
<1>3. /\ Memory(t) /\ t.head = s.head /\ t.tail = s.tail
      /\ t.next = [s.next EXCEPT ![x] = NULL]
      /\ t.prev = s.prev \/ t.prev = [s.prev EXCEPT ![x] = NULL]
  <2>1. PICK n \in [Links -> Pointers] : n = [s.next EXCEPT ![x] = NULL]
    BY <1>1, <1>2
  <2>2. PICK v \in [Links -> Pointers] : v = [s.prev EXCEPT ![x] = NULL]
    BY <1>1, <1>2
  <2>3. CASE t = [s EXCEPT !.next[x] = NULL]
    <3>1. t = [s EXCEPT !.next = n]
      BY <2>1, <2>3
    <3>2. t.next = n /\ t.prev = s.prev /\ t.head = s.head /\ t.tail = s.tail /\ Memory(t)
      BY <1>1, <3>1 DEF Memory
    <3> QED
      BY <2>1, <3>2
  <2>4. CASE t = [s EXCEPT !.next[x] = NULL, !.prev[x] = NULL]
    <3>1. t = [s EXCEPT !.next = n, !.prev = v]
      BY <2>1, <2>2, <2>4
    <3>2. t.next = n /\ t.prev = v /\ t.head = s.head /\ t.tail = s.tail /\ Memory(t)
      BY <1>1, <3>1 DEF Memory
    <3> QED
      BY <2>1, <2>2, <3>2
  <2> QED
    BY <2>3, <2>4
<1>4. \A y \in Links : y # x => t.next[y] = s.next[y] /\ t.prev[y] = s.prev[y]
  BY <1>1, <1>3
<1>5. t.next[x] = NULL
  BY <1>1, <1>3
<1>6. Holds(t, E, Q)
  BY <1>1, <1>3, <1>4, HoldsWrite
<1> QED
  BY <1>4, <1>5, <1>6 DEF Kept

\* What becomes of a list when c is created.
Pushed(q, l, m) == IF MatchChain(m) = l THEN Cons(m, q) ELSE q
Inserted(q, l, c) == IF l[1] = "match" THEN Pushed(Pushed(q, l, Original(c)), l, Reply(c))
                     ELSE IF l = ConnChain(c) THEN Cons(c, q)
                     ELSE IF l = All THEN Append(q, c)
                     ELSE q

LEMMA InsertMatchHolds ==
  ASSUME NEW s, NEW E, NEW Q, Holds(s, E, Q), NEW m \in Matches,
         <<"match", m>> \notin E, <<"active", m>> \notin E
  PROVE  LET t == InsertMatch(s, m)
         IN  /\ Kept(s, t, E \cup {<<"match", m>>, <<"active", m>>})
             /\ t.next[<<"active", m>>] = NULL
             /\ Holds(t, E \cup {<<"match", m>>},
                      [Q EXCEPT ![MatchChain(m)] = Cons(m, Q[MatchChain(m)])])
<1> DEFINE x == <<"match", m>>
           y == <<"active", m>>
           u == Isolate(s, Active, m)
           t == InsertMatch(s, m)
<1>1. x \in Links /\ y \in Links /\ ListOf(x) = MatchChain(m) /\ x[2] = m /\ x # y
  BY DEF Links, ListOf
<1>2. u = [s EXCEPT !.next[y] = NULL, !.prev[y] = NULL]
  BY DEF Isolate, Active
<1>3. Holds(u, E, Q) /\ Kept(s, u, {y}) /\ u.next[y] = NULL
  <2>1. y \in Links /\ y \notin E
    BY <1>1
  <2> HIDE DEF u, y
  <2> QED
    BY <1>2, <2>1, WriteHolds
<1>4. t = PushHead(u, ListOf(x), x[2])
  BY <1>1 DEF InsertMatch
<1> HIDE DEF u, t
<1>5. /\ Kept(u, t, E \cup {x})
      /\ Holds(t, E \cup {x}, [Q EXCEPT ![ListOf(x)] = Cons(x[2], Q[ListOf(x)])])
  <2>1. x \in Links /\ x \notin E
    BY <1>1
  <2> HIDE DEF x
  <2>2. /\ Kept(u, PushHead(u, ListOf(x), x[2]), E \cup {x})
        /\ Holds(PushHead(u, ListOf(x), x[2]), E \cup {x},
                 [Q EXCEPT ![ListOf(x)] = Cons(x[2], Q[ListOf(x)])])
    BY <1>3, <2>1, PushHeadAnywhere
  <2> QED
    BY <1>4, <2>2
<1>6. t.next[y] = u.next[y]
  BY <1>1, <1>5 DEF Kept
<1>7. Kept(s, t, E \cup {x, y})
  BY <1>3, <1>5, KeptTwice
<1> QED
  BY <1>1, <1>3, <1>5, <1>6, <1>7 DEF t

\* From s to t the connection c is added to the lists Q, its matches idle.
Enters(s, t, E, Q, c) ==
    /\ Kept(s, t, E \cup LinksOf(c))
    /\ t.next[<<"active", Original(c)>>] = NULL
    /\ t.next[<<"active", Reply(c)>>] = NULL
    /\ \E R : /\ Holds(t, E \cup Tables(c), R)
              /\ \A l \in Lists : R[l] = Inserted(Q[l], l, c)

LEMMA InsertConnectionHolds ==
  ASSUME NEW s, NEW E, NEW Q, Holds(s, E, Q), NEW c \in Conns, LinksOf(c) \cap E = {}
  PROVE  Enters(s, InsertConnection(s, c), E, Q, c)
<1> DEFINE o  == Original(c)
           r  == Reply(c)
           x  == <<"conn", c>>
           y  == <<"all", c>>
           ao == <<"active", o>>
           ar == <<"active", r>>
           s1 == PushHead(s, ConnChain(c), c)
           s2 == [s1 EXCEPT !.next[y] = NULL]
           s3 == PushTail(s2, All, c)
           s4 == InsertMatch(s3, o)
           t  == InsertMatch(s4, r)
           Q1 == [Q EXCEPT ![ConnChain(c)] = Cons(c, Q[ConnChain(c)])]
           Q3 == [Q1 EXCEPT ![All] = Append(Q1[All], c)]
           Q4 == [Q3 EXCEPT ![MatchChain(o)] = Cons(o, Q3[MatchChain(o)])]
           Q5 == [Q4 EXCEPT ![MatchChain(r)] = Cons(r, Q4[MatchChain(r)])]
           E1 == E \cup {x}
           E3 == E1 \cup {y}
           E4 == E3 \cup {<<"match", o>>}
           E5 == E4 \cup {<<"match", r>>}
<1>1. /\ o \in Matches /\ r \in Matches /\ o # r
      /\ Tables(c) = {x, y, <<"match", o>>, <<"match", r>>}
      /\ LinksOf(c) = Tables(c) \cup {ao, ar}
      /\ LinksOf(c) \subseteq Links
  BY LinksOfAre
<1>2. /\ ListOf(x) = ConnChain(c) /\ x[2] = c /\ ListOf(y) = All /\ y[2] = c /\ x # y
      /\ ListOf(y) \in Tailed
  BY DEF ListOf, Tailed
<1>3. InsertConnection(s, c) = t
  BY DEF InsertConnection, Original, Reply
<1>4. Holds(s1, E1, Q1) /\ Kept(s, s1, E1)
  <2>1. x \in Links /\ x \notin E
    BY <1>1
  <2> HIDE DEF x
  <2>2. /\ Kept(s, PushHead(s, ListOf(x), x[2]), E \cup {x})
        /\ Holds(PushHead(s, ListOf(x), x[2]), E \cup {x},
                 [Q EXCEPT ![ListOf(x)] = Cons(x[2], Q[ListOf(x)])])
    BY <2>1, PushHeadAnywhere
  <2> QED
    BY <1>2, <2>2
<1> HIDE DEF s1
<1>5. Holds(s2, E1, Q1) /\ Kept(s1, s2, {y}) /\ s2.next[y] = NULL
  <2>1. y \in Links /\ y \notin E1
    BY <1>1, <1>2
  <2> QED
    <3>1. s2 = [s1 EXCEPT !.next[y] = NULL]
      OBVIOUS
    <3> HIDE DEF s2, y, E1, Q1
    <3> QED
      BY <1>4, <2>1, <3>1, WriteHolds
<1> HIDE DEF s2
<1>6. Holds(s3, E3, Q3) /\ Kept(s2, s3, E3)
  <2>1. y \in Links /\ y \notin E1
    BY <1>1, <1>2
  <2> HIDE DEF y, E1, Q1
  <2>2. /\ Kept(s2, PushTail(s2, ListOf(y), y[2]), E1 \cup {y})
        /\ Holds(PushTail(s2, ListOf(y), y[2]), E1 \cup {y},
                 [Q1 EXCEPT ![ListOf(y)] = Append(Q1[ListOf(y)], y[2])])
    BY <1>2, <1>5, <2>1, PushTailHolds
  <2> QED
    BY <1>2, <2>2
<1> HIDE DEF s3
<1>7. /\ Kept(s3, s4, E3 \cup {<<"match", o>>, ao}) /\ s4.next[ao] = NULL
      /\ Holds(s4, E4, Q4)
  <2>1. <<"match", o>> \notin E3 /\ ao \notin E3 /\ o \in Matches
    BY <1>1
  <2> HIDE DEF E3, Q3
  <2> QED
    BY <1>6, <2>1, InsertMatchHolds
<1> HIDE DEF s4
<1>8. /\ Kept(s4, t, E4 \cup {<<"match", r>>, ar}) /\ t.next[ar] = NULL
      /\ Holds(t, E5, Q5)
  <2>1. <<"match", r>> \notin E4 /\ ar \notin E4 /\ r \in Matches
    BY <1>1
  <2> HIDE DEF E4, Q4
  <2> QED
    BY <1>7, <2>1, InsertMatchHolds
<1> HIDE DEF t
<1>9. t.next[ao] = NULL
  <2>1. ao \in Links /\ ao \notin E4 \cup {<<"match", r>>, ar}
    BY <1>1
  <2> QED
    BY <1>7, <1>8, <2>1 DEF Kept
<1>10. Kept(s, t, E \cup LinksOf(c))
  <2> DEFINE G == E \cup LinksOf(c)
  <2>1. /\ E1 \cup {y} \subseteq G /\ E3 \subseteq G
        /\ E3 \cup {<<"match", o>>, ao} \subseteq G
        /\ E4 \cup {<<"match", r>>, ar} \subseteq G
    BY <1>1
  <2> HIDE DEF G, E1, E3, E4
  <2>2. Kept(s, s2, G)
    BY <1>4, <1>5, <2>1, KeptTwice
  <2>3. Kept(s, s3, G)
    BY <1>6, <2>1, <2>2, KeptTwice
  <2>4. Kept(s, s4, G)
    BY <1>7, <2>1, <2>3, KeptTwice
  <2> QED
    BY <1>8, <2>1, <2>4, KeptTwice DEF G
<1>11. E5 = E \cup Tables(c)
  BY <1>1
<1>12. ASSUME NEW l \in Lists
       PROVE  Q5[l] = Inserted(Q[l], l, c)
  <2>1. DOMAIN Q = Lists
    BY DEF Holds
  <2>2. /\ ConnChain(c) \in Lists /\ All \in Lists /\ MatchChain(o) \in Lists /\ MatchChain(r) \in Lists
        /\ ConnChain(c)[1] = "conn" /\ All[1] = "all"
        /\ MatchChain(o)[1] = "match" /\ MatchChain(r)[1] = "match"
    BY <1>1, KeyAssumption DEF Lists, Tailed, ConnChain, All, MatchChain
  <2>3. Q1[l] = IF l = ConnChain(c) THEN Cons(c, Q[l]) ELSE Q[l]
    BY <2>1, <2>2
  <2>4. DOMAIN Q1 = Lists
    BY <2>1
  <2> HIDE DEF Q1
  <2>5. Q3[l] = IF l = All THEN Append(Q1[l], c) ELSE Q1[l]
    BY <2>2, <2>4
  <2>6. DOMAIN Q3 = Lists
    BY <2>4
  <2> HIDE DEF Q3
  <2>7. Q4[l] = Pushed(Q3[l], l, o)
    BY <2>2, <2>6 DEF Pushed
  <2>8. DOMAIN Q4 = Lists
    BY <2>6
  <2> HIDE DEF Q4
  <2>9. Q5[l] = Pushed(Q4[l], l, r)
    BY <2>2, <2>8 DEF Pushed
  <2> HIDE DEF Q5
  <2>10. CASE l[1] = "match"
    BY <2>2, <2>3, <2>5, <2>7, <2>9, <2>10 DEF Inserted
  <2>11. CASE l[1] # "match"
    <3>1. MatchChain(o) # l /\ MatchChain(r) # l
      BY <2>2, <2>11
    <3>2. Q5[l] = Q3[l]
      BY <2>7, <2>9, <3>1 DEF Pushed
    <3>3. ConnChain(c) # All
      BY <2>2
    <3> QED
      BY <2>3, <2>5, <2>11, <3>2, <3>3 DEF Inserted
  <2> QED
    BY <2>10, <2>11
<1> HIDE DEF Q5, E5
<1> QED
  BY <1>3, <1>8, <1>9, <1>10, <1>11, <1>12 DEF Enters

-----------------------------------------------------------------------------
(* The whole state.                                                        *)

\* The pointers in use when the connections L are linked and the matches of a active.
InUse(L, a) == {x \in Links : OwnerOf(x) \in L /\ (x[1] = "active" => a[x[2]])}

\* An idle match is as recv expects it.
Idle(L, a, s) == \A m \in Matches : m[1] \in L /\ ~a[m] => s.next[<<"active", m>>] = NULL

\* The match a comes from a newer connection than b, or is the reply match of b's.
Newer(all, a, b) == Before(all, b[1], a[1]) \/ (a = Reply(b[1]) /\ b = Original(b[1]))

\* Of the matches with one key the newest comes first in its chain.
NewestFirst(Q) ==
    \A l \in Lists : \A m, n \in Matches :
        l[1] = "match" /\ KeyOf[m] = KeyOf[n] /\ Before(Q[l], m, n) => Newer(Q[All], m, n)

Shape(L, a, s, Q) ==
    /\ L \subseteq Conns
    /\ a \in [Matches -> BOOLEAN]
    /\ Holds(s, InUse(L, a), Q)
    /\ Idle(L, a, s)
    /\ NewestFirst(Q)

LInv == \E Q : Shape(linked, active, mem, Q)

LEMMA OwnersAre ==
  /\ \A c \in Conns : <<"conn", c>> \in Links /\ <<"all", c>> \in Links
                      /\ OwnerOf(<<"conn", c>>) = c /\ OwnerOf(<<"all", c>>) = c
  /\ \A m \in Matches : /\ <<"match", m>> \in Links /\ <<"active", m>> \in Links
                        /\ OwnerOf(<<"match", m>>) = m[1] /\ OwnerOf(<<"active", m>>) = m[1]
                        /\ m[1] \in Conns /\ m \in {Original(m[1]), Reply(m[1])}
                        /\ m = <<m[1], m[2]>> /\ m[2] \in Dirs
<1>1. \A m \in Matches : /\ m[1] \in Conns /\ m \in {Original(m[1]), Reply(m[1])}
                         /\ m = <<m[1], m[2]>> /\ m[2] \in Dirs
  BY DEF Matches, Dirs, Original, Reply
<1>2. \A m \in Matches : /\ <<"match", m>> \in Links /\ <<"active", m>> \in Links
                         /\ OwnerOf(<<"match", m>>) = m[1] /\ OwnerOf(<<"active", m>>) = m[1]
  BY DEF Links, OwnerOf
<1>3. \A c \in Conns : <<"conn", c>> \in Links /\ <<"all", c>> \in Links
                       /\ OwnerOf(<<"conn", c>>) = c /\ OwnerOf(<<"all", c>>) = c
  BY DEF Links, OwnerOf
<1> QED
  BY <1>1, <1>2, <1>3

LEMMA OnIs ==
  ASSUME NEW L, NEW a, NEW l \in Lists
  PROVE  /\ l[1] = "match" => On(InUse(L, a), l) = {m \in Matches : m[1] \in L /\ MatchChain(m) = l}
         /\ l[1] = "conn" => On(InUse(L, a), l) = {c \in Conns : c \in L /\ ConnChain(c) = l}
         /\ l = All => On(InUse(L, a), l) = L \cap Conns
         /\ l = Active => On(InUse(L, a), l) = {m \in Matches : m[1] \in L /\ a[m]}
<1>1. CASE l[1] = "match"
  <2>1. l # All /\ l # Active
    BY <1>1 DEF All, Active
  <2>2. \A m \in Matches : /\ <<l[1], m>> \in InUse(L, a) <=> m[1] \in L
                           /\ ListOf(<<l[1], m>>) = MatchChain(m)
    BY <1>1, OwnersAre DEF InUse, ListOf
  <2> QED
    BY <1>1, <2>1, <2>2 DEF On, NodesOf
<1>2. CASE l[1] = "conn"
  <2>1. l # All /\ l # Active
    BY <1>2 DEF All, Active
  <2>2. \A c \in Conns : /\ <<l[1], c>> \in InUse(L, a) <=> c \in L
                         /\ ListOf(<<l[1], c>>) = ConnChain(c)
    BY <1>2, OwnersAre DEF InUse, ListOf
  <2> QED
    BY <1>2, <2>1, <2>2 DEF On, NodesOf
<1>3. CASE l = All
  <2>1. l[1] = "all" /\ l # Active
    BY <1>3 DEF All, Active
  <2>2. \A c \in Conns : /\ <<l[1], c>> \in InUse(L, a) <=> c \in L
                         /\ ListOf(<<l[1], c>>) = l
    BY <1>3, <2>1, OwnersAre DEF InUse, ListOf
  <2> QED
    BY <2>1, <2>2 DEF On, NodesOf
<1>4. CASE l = Active
  <2>1. l[1] = "active" /\ l # All
    BY <1>4 DEF All, Active
  <2>2. \A m \in Matches : /\ <<l[1], m>> \in InUse(L, a) <=> m[1] \in L /\ a[m]
                           /\ ListOf(<<l[1], m>>) = l
    BY <1>4, <2>1, OwnersAre DEF InUse, ListOf
  <2> QED
    BY <2>1, <2>2 DEF On, NodesOf
<1> QED
  BY <1>1, <1>2, <1>3, <1>4

LEMMA InUseOf ==
  ASSUME NEW L, L \subseteq Conns, NEW a \in [Matches -> BOOLEAN]
  PROVE  /\ \A m \in Matches : /\ <<"active", m>> \in InUse(L, a) <=> m[1] \in L /\ a[m]
                               /\ <<"match", m>> \in InUse(L, a) <=> m[1] \in L
         /\ \A c \in Conns \ L : LinksOf(c) \cap InUse(L, a) = {}
         /\ \A c \in L : Tables(c) \subseteq InUse(L, a)
<1>1. \A m \in Matches : /\ <<"active", m>> \in InUse(L, a) <=> m[1] \in L /\ a[m]
                         /\ <<"match", m>> \in InUse(L, a) <=> m[1] \in L
  BY OwnersAre DEF InUse
<1>2. \A c \in Conns \ L : LinksOf(c) \cap InUse(L, a) = {}
  BY DEF InUse, LinksOf
<1>3. \A c \in L : Tables(c) \subseteq InUse(L, a)
  BY DEF InUse, LinksOf, Tables
<1> QED
  BY <1>1, <1>2, <1>3

\* The flags once the matches of c are idle.
Cleared(a, c) == [a EXCEPT ![<<c, "original">>] = FALSE, ![<<c, "reply">>] = FALSE]

LEMMA ClearedIs ==
  ASSUME NEW a \in [Matches -> BOOLEAN], NEW c \in Conns
  PROVE  /\ Cleared(a, c) \in [Matches -> BOOLEAN]
         /\ \A m \in Matches : Cleared(a, c)[m] = IF m[1] = c THEN FALSE ELSE a[m]
<1>1. Original(c) \in Matches /\ Reply(c) \in Matches
  BY LinksOfAre
<1>2. \A m \in Matches : m[1] = c <=> m = Original(c) \/ m = Reply(c)
  BY OwnersAre DEF Original, Reply
<1> QED
  BY <1>1, <1>2 DEF Cleared, Original, Reply

\* Which pointers are in use is told by their owner and by the flags.
LinksCleared(a, b, c) ==
    /\ \A x \in Links : x[1] = "active" => b[x[2]] = IF OwnerOf(x) = c THEN FALSE ELSE a[x[2]]
    /\ \A x \in Links : x[1] = "active" /\ OwnerOf(x) = c
                          <=> x = <<"active", Reply(c)>> \/ x = <<"active", Original(c)>>
    /\ \A x \in Links : /\ x \in LinksOf(c) <=> OwnerOf(x) = c
                        /\ x \in Tables(c) <=> OwnerOf(x) = c /\ x[1] # "active"
    /\ Tables(c) \subseteq Links

LEMMA ClearedLinks ==
  ASSUME NEW a \in [Matches -> BOOLEAN], NEW c \in Conns
  PROVE  LinksCleared(a, Cleared(a, c), c)
<1>1. \A x \in Links : x[1] = "active" => /\ x[2] \in Matches /\ OwnerOf(x) = x[2][1]
                                          /\ x = <<"active", x[2]>>
  BY LinksAre DEF NodesOf, OwnerOf
<1>2. \A x \in Links : x[1] = "active" => Cleared(a, c)[x[2]] = IF OwnerOf(x) = c THEN FALSE ELSE a[x[2]]
  <2> DEFINE b == Cleared(a, c)
  <2>1. \A m \in Matches : b[m] = IF m[1] = c THEN FALSE ELSE a[m]
    BY ClearedIs
  <2> HIDE DEF b
  <2>2. \A x \in Links : x[1] = "active" => b[x[2]] = IF OwnerOf(x) = c THEN FALSE ELSE a[x[2]]
    <3> TAKE x \in Links
    <3> HAVE x[1] = "active"
    <3>1. x[2] \in Matches /\ OwnerOf(x) = x[2][1]
      BY <1>1
    <3>2. b[x[2]] = IF x[2][1] = c THEN FALSE ELSE a[x[2]]
      BY <2>1, <3>1
    <3> QED
      BY <3>1, <3>2
  <2> QED
    BY <2>2 DEF b
<1>3. \A x \in Links : x[1] = "active" /\ OwnerOf(x) = c
                         <=> x = <<"active", Reply(c)>> \/ x = <<"active", Original(c)>>
  <2>1. Original(c) \in Matches /\ Reply(c) \in Matches /\ Original(c)[1] = c /\ Reply(c)[1] = c
    BY LinksOfAre DEF Original, Reply
  <2>2. \A m \in Matches : m[1] = c => m = Original(c) \/ m = Reply(c)
    BY OwnersAre
  <2> QED
    BY <1>1, <2>1, <2>2
<1>4. \A x \in Links : /\ x \in LinksOf(c) <=> OwnerOf(x) = c
                       /\ x \in Tables(c) <=> OwnerOf(x) = c /\ x[1] # "active"
  BY DEF LinksOf, Tables
<1>5. Tables(c) \subseteq Links
  BY DEF LinksOf, Tables
<1> QED
  BY <1>2, <1>3, <1>4, <1>5 DEF LinksCleared

LEMMA InUseAdded ==
  ASSUME NEW L, NEW a \in [Matches -> BOOLEAN], NEW c \in Conns, c \notin L
  PROVE  InUse(L \cup {c}, Cleared(a, c)) = InUse(L, a) \cup Tables(c)
<1> DEFINE b == Cleared(a, c)
<1>1. LinksCleared(a, b, c)
  BY ClearedLinks
<1> HIDE DEF b
<1>2. InUse(L \cup {c}, b) = InUse(L, a) \cup Tables(c)
  BY <1>1 DEF InUse, LinksCleared
<1> QED
  BY <1>2 DEF b

LEMMA InUseRemoved ==
  ASSUME NEW L, NEW a \in [Matches -> BOOLEAN], NEW c \in Conns
  PROVE  InUse(L \ {c}, Cleared(a, c)) = InUse(L, a) \ LinksOf(c)
<1> DEFINE b == Cleared(a, c)
<1>1. LinksCleared(a, b, c)
  BY ClearedLinks
<1> HIDE DEF b
<1>2. InUse(L \ {c}, b) = InUse(L, a) \ LinksOf(c)
  BY <1>1 DEF InUse, LinksCleared
<1> QED
  BY <1>2 DEF b

LEMMA InUseCleared ==
  ASSUME NEW L, NEW a \in [Matches -> BOOLEAN], NEW c \in Conns
  PROVE  InUse(L, Cleared(a, c))
           = (InUse(L, a) \ {<<"active", Reply(c)>>}) \ {<<"active", Original(c)>>}
<1> DEFINE b == Cleared(a, c)
<1>1. LinksCleared(a, b, c)
  BY ClearedLinks
<1> HIDE DEF b
<1>2. \A x : x \in InUse(L, b) <=> x \in InUse(L, a) /\ ~(x[1] = "active" /\ OwnerOf(x) = c)
  BY <1>1 DEF InUse, LinksCleared
<1>3. InUse(L, a) \subseteq Links
  BY DEF InUse
<1>4. InUse(L, b) = (InUse(L, a) \ {<<"active", Reply(c)>>}) \ {<<"active", Original(c)>>}
  BY <1>1, <1>2, <1>3 DEF LinksCleared
<1> QED
  BY <1>4 DEF b

\* The flags once m is active.
Raised(a, m) == [a EXCEPT ![m] = TRUE]

LEMMA InUseActive ==
  ASSUME NEW L, NEW a \in [Matches -> BOOLEAN], NEW m \in Matches, m[1] \in L
  PROVE  InUse(L, Raised(a, m)) = InUse(L, a) \cup {<<"active", m>>}
<1>1. <<"active", m>> \in Links /\ OwnerOf(<<"active", m>>) \in L
  BY OwnersAre
<1>2. \A x \in Links : x[1] = "active" => x[2] \in Matches /\ x = <<"active", x[2]>>
  BY LinksAre DEF NodesOf
<1>3. \A n \in Matches : Raised(a, m)[n] = IF n = m THEN TRUE ELSE a[n]
  BY DEF Raised
<1> QED
  BY <1>1, <1>2, <1>3 DEF InUse

LEMMA ShapeLists ==
  ASSUME NEW L, NEW a, NEW s, NEW Q, Shape(L, a, s, Q), NEW l \in Lists
  PROVE  /\ Q[l] \in Seq(NodesOf(l[1])) /\ IsInjective(Q[l]) /\ ToSet(Q[l]) = On(InUse(L, a), l)
         /\ l[1] = "match" => /\ Q[l] \in Seq(Matches)
                              /\ ToSet(Q[l]) = {m \in Matches : m[1] \in L /\ MatchChain(m) = l}
         /\ l[1] = "conn" => /\ Q[l] \in Seq(Conns)
                             /\ ToSet(Q[l]) = {c \in Conns : c \in L /\ ConnChain(c) = l}
         /\ l = All => Q[l] \in Seq(Conns) /\ ToSet(Q[l]) = L
         /\ l = Active => Q[l] \in Seq(Matches) /\ ToSet(Q[l]) = {m \in Matches : m[1] \in L /\ a[m]}
         /\ Nodes(s, l) = Q[l]
<1>1. Holds(s, InUse(L, a), Q) /\ L \subseteq Conns
  BY DEF Shape
<1>2. /\ Path(s, l, Q[l]) /\ Q[l] \in Seq(NodesOf(l[1])) /\ IsInjective(Q[l])
      /\ ToSet(Q[l]) = On(InUse(L, a), l)
  BY <1>1, HoldsIs
<1>3. Nodes(s, l) = Q[l]
  BY <1>2, NodesOfPath
<1>4. /\ l[1] = "match" => NodesOf(l[1]) = Matches
      /\ l[1] = "conn" => NodesOf(l[1]) = Conns
      /\ l = All => NodesOf(l[1]) = Conns
      /\ l = Active => NodesOf(l[1]) = Matches
  BY DEF NodesOf, All, Active
<1>5. L \cap Conns = L
  BY <1>1
<1>6. /\ l[1] = "match" => On(InUse(L, a), l) = {m \in Matches : m[1] \in L /\ MatchChain(m) = l}
      /\ l[1] = "conn" => On(InUse(L, a), l) = {c \in Conns : c \in L /\ ConnChain(c) = l}
      /\ l = All => On(InUse(L, a), l) = L \cap Conns
      /\ l = Active => On(InUse(L, a), l) = {m \in Matches : m[1] \in L /\ a[m]}
  BY OnIs
<1> DEFINE on == On(InUse(L, a), l)
           q  == Q[l]
<1> HIDE DEF on, q
<1>7. /\ q \in Seq(NodesOf(l[1])) /\ IsInjective(q) /\ ToSet(q) = on /\ Nodes(s, l) = q
  BY <1>2, <1>3 DEF on, q
<1>8. CASE l[1] = "match"
  <2>1. l # All /\ l # Active
    BY <1>8 DEF All, Active
  <2> QED
    BY <1>4, <1>6, <1>7, <1>8, <2>1 DEF on, q
<1>9. CASE l[1] = "conn"
  <2>1. l # All /\ l # Active
    BY <1>9 DEF All, Active
  <2> QED
    BY <1>4, <1>6, <1>7, <1>9, <2>1 DEF on, q
<1>10. CASE l = All
  <2>1. l[1] = "all" /\ l # Active
    BY <1>10 DEF All, Active
  <2> QED
    BY <1>4, <1>5, <1>6, <1>7, <1>10, <2>1 DEF on, q
<1>11. CASE l = Active
  <2>1. l[1] = "active" /\ l # All
    BY <1>11 DEF All, Active
  <2> QED
    BY <1>4, <1>6, <1>7, <1>11, <2>1 DEF on, q
<1>12. CASE l[1] \notin {"match", "conn"} /\ l # All /\ l # Active
  BY <1>7, <1>12 DEF on, q
<1> QED
  BY <1>8, <1>9, <1>10, <1>11, <1>12

LEMMA ListKinds ==
  /\ All \in Lists /\ Active \in Lists /\ All[1] = "all" /\ Active[1] = "active" /\ All # Active
  /\ \A m \in Matches : MatchChain(m) \in Lists /\ MatchChain(m)[1] = "match"
  /\ \A c \in Conns : ConnChain(c) \in Lists /\ ConnChain(c)[1] = "conn"
  /\ \A l \in Lists : l[1] = "all" => l = All
  /\ \A l \in Lists : l[1] = "active" => l = Active
<1>1. \A m \in Matches : KeyOf[m] \in Keys
  BY KeyAssumption
<1> QED
  BY <1>1 DEF Lists, Tailed, All, Active, MatchChain, ConnChain

\* A change of the memory leaves idle matches alone.
LEMMA StaysIdle ==
  ASSUME NEW L, L \subseteq Conns, NEW a \in [Matches -> BOOLEAN], NEW s, Idle(L, a, s),
         NEW K, NEW b, NEW t, NEW G, Kept(s, t, G),
         \A m \in Matches : m[1] \in K /\ ~b[m]
            => \/ m[1] \in L /\ ~a[m] /\ <<"active", m>> \notin G
               \/ t.next[<<"active", m>>] = NULL
  PROVE  Idle(K, b, t)
<1>1. \A m \in Matches : <<"active", m>> \in Links
  BY OwnersAre
<1> QED
  BY <1>1 DEF Idle, Kept

LEMMA CreateShape ==
  ASSUME NEW L, NEW a, NEW s, NEW Q, Shape(L, a, s, Q), NEW c \in Conns \ L
  PROVE  \E R : /\ Shape(L \cup {c}, Cleared(a, c), InsertConnection(s, c), R)
                /\ \A l \in Lists : R[l] = Inserted(Q[l], l, c)
<1> DEFINE t == InsertConnection(s, c)
           E == InUse(L, a)
           K == L \cup {c}
           b == Cleared(a, c)
<1>1. L \subseteq Conns /\ a \in [Matches -> BOOLEAN] /\ Holds(s, E, Q) /\ Idle(L, a, s) /\ NewestFirst(Q)
  BY DEF Shape
<1>2. c \in Conns /\ LinksOf(c) \cap E = {}
  BY <1>1, InUseOf
<1>3. InUse(K, b) = E \cup Tables(c)
  <2>1. L \subseteq Conns /\ a \in [Matches -> BOOLEAN] /\ c \in Conns /\ c \notin L
    BY <1>1, <1>2
  <2>2. InUse(L \cup {c}, Cleared(a, c)) = InUse(L, a) \cup Tables(c)
    BY <2>1, InUseAdded
  <2> QED
    BY <2>2
<1>4. /\ b \in [Matches -> BOOLEAN]
      /\ \A m \in Matches : b[m] = IF m[1] = c THEN FALSE ELSE a[m]
  BY <1>1, ClearedIs
<1>5. /\ Kept(s, t, E \cup LinksOf(c))
      /\ t.next[<<"active", Original(c)>>] = NULL
      /\ t.next[<<"active", Reply(c)>>] = NULL
      /\ \E R : /\ Holds(t, E \cup Tables(c), R)
                /\ \A l \in Lists : R[l] = Inserted(Q[l], l, c)
  <2> HIDE DEF E
  <2>1. Enters(s, InsertConnection(s, c), E, Q, c)
    BY <1>1, <1>2, InsertConnectionHolds
  <2> QED
    BY <2>1 DEF Enters
<1>6. PICK R : /\ Holds(t, E \cup Tables(c), R)
               /\ \A l \in Lists : R[l] = Inserted(Q[l], l, c)
  BY <1>5
<1> HIDE DEF t, b
<1>7. Idle(K, b, t)
  <2>1. ASSUME NEW m \in Matches, m[1] \in K, ~b[m]
        PROVE  \/ m[1] \in L /\ ~a[m] /\ <<"active", m>> \notin E \cup LinksOf(c)
               \/ t.next[<<"active", m>>] = NULL
    <3>1. CASE m[1] = c
      BY <1>5, <3>1, OwnersAre
    <3>2. CASE m[1] # c
      <4>1. m[1] \in L /\ ~a[m]
        BY <1>4, <2>1, <3>2
      <4>2. <<"active", m>> \notin LinksOf(c)
        BY <3>2, OwnersAre DEF LinksOf
      <4> QED
        BY <1>1, <4>1, <4>2, InUseOf
    <3> QED
      BY <3>1, <3>2
  <2> HIDE DEF E, K
  <2> QED
    BY <1>1, <1>5, <2>1, StaysIdle
<1>8. NewestFirst(R)
  <2> SUFFICES ASSUME NEW l \in Lists, NEW m \in Matches, NEW n \in Matches,
                      l[1] = "match", KeyOf[m] = KeyOf[n], Before(R[l], m, n)
               PROVE  Newer(R[All], m, n)
    BY DEF NewestFirst
  <2> DEFINE o == Original(c)
             r == Reply(c)
             q == Q[l]
             q1 == Pushed(q, l, o)
             all == Q[All]
  <2>1. R[l] = Pushed(q1, l, r)
    BY <1>6 DEF Inserted
  <2>2. R[All] = Append(all, c)
    <3>1. All \in Lists /\ All[1] = "all" /\ All # ConnChain(c)
      BY <1>2, ListKinds
    <3> QED
      BY <1>6, <3>1 DEF Inserted
  <2>3. /\ q \in Seq(Matches) /\ \A x \in ToSet(q) : x[1] \in L
        /\ all \in Seq(Conns) /\ ToSet(all) = L
    BY ShapeLists, ListKinds
  <2>4. o \in Matches /\ r \in Matches /\ o[1] = c /\ r[1] = c
    BY <1>2, LinksOfAre DEF Original, Reply
  <2> HIDE DEF o, r, q, all
  <2>5. q1 \in Seq(Matches) /\ \A x \in ToSet(q1) : x = o \/ x \in ToSet(q)
    <3>1. CASE MatchChain(o) = l
      <4>1. q1 = Cons(o, q)
        BY <3>1 DEF Pushed
      <4>2. /\ Cons(o, q) \in Seq(Matches)
            /\ Len(Cons(o, q)) = Len(q) + 1
            /\ Cons(o, q)[1] = o
            /\ \A i \in 1 .. Len(q) : Cons(o, q)[i + 1] = q[i]
        BY <2>3, <2>4, ConsProperties
      <4> HIDE DEF q1
      <4>3. ASSUME NEW x \in ToSet(q1) PROVE x = o \/ x \in ToSet(q)
        <5>1. Len(q) \in Nat /\ Len(q1) = Len(q) + 1
          BY <2>3, <4>1, <4>2, LenProperties
        <5>2. PICK i \in 1 .. Len(q1) : q1[i] = x
          BY <4>1, <4>2, LenProperties DEF ToSet
        <5>3. CASE i = 1
          BY <4>1, <4>2, <5>2, <5>3
        <5>4. CASE i # 1
          <6>1. i - 1 \in 1 .. Len(q) /\ (i - 1) + 1 = i
            BY <5>1, <5>4
          <6>2. x = q[i - 1]
            BY <4>1, <4>2, <5>2, <6>1
          <6> QED
            BY <2>3, <6>1, <6>2, LenProperties DEF ToSet
        <5> QED
          BY <5>3, <5>4
      <4> QED
        BY <4>1, <4>2, <4>3
    <3>2. CASE MatchChain(o) # l
      BY <2>3, <3>2 DEF Pushed
    <3> QED
      BY <3>1, <3>2
  <2>6. (m = r /\ n \in ToSet(q1)) \/ Before(q1, m, n)
    <3>1. CASE MatchChain(r) = l
      <4>1. Before(Cons(r, q1), m, n)
        BY <2>1, <3>1 DEF Pushed
      <4> HIDE DEF q1
      <4> QED
        BY <2>4, <2>5, <4>1, BeforeCons
    <3>2. CASE MatchChain(r) # l
      BY <2>1, <3>2 DEF Pushed
    <3> QED
      BY <3>1, <3>2
  <2>7. Before(q1, m, n) => (m = o /\ n \in ToSet(q)) \/ Before(q, m, n)
    <3>1. CASE MatchChain(o) = l
      <4>1. Before(q1, m, n) => Before(Cons(o, q), m, n)
        BY <3>1 DEF Pushed
      <4> HIDE DEF q1
      <4> QED
        BY <2>3, <2>4, <4>1, BeforeCons
    <3>2. CASE MatchChain(o) # l
      BY <3>2 DEF Pushed
    <3> QED
      BY <3>1, <3>2
  <2>8. CASE m[1] = c /\ n \in ToSet(q)
    BY <2>2, <2>3, <2>8, <1>2, BeforeAppend DEF Newer
  <2>9. CASE m = r /\ n = o
    BY <2>4, <2>9 DEF Newer, o, r
  <2>10. CASE Before(q, m, n)
    <3>1. Newer(all, m, n)
      BY <1>1, <2>10 DEF NewestFirst, q, all
    <3> QED
      BY <2>2, <2>3, <3>1, <1>2, BeforeAppend DEF Newer
  <2> QED
    BY <2>4, <2>5, <2>6, <2>7, <2>8, <2>9, <2>10
<1>9. Shape(K, b, t, R)
  BY <1>1, <1>2, <1>3, <1>4, <1>6, <1>7, <1>8 DEF Shape
<1> QED
  BY <1>6, <1>9 DEF b, t

\* With c the memory t has lost exactly what belongs to it.
Loses(L, t, Q, c) ==
    \E R : /\ Shape(L \ {c}, Cleared(active, c), t, R)
          /\ \A l \in Lists : R[l] = Removed(Q[l], l, c)

LEMMA RemoveShape ==
  ASSUME NEW L, NEW s, NEW Q, Shape(L, active, s, Q), NEW c \in L
  PROVE  Loses(L, Free(RemoveConnection(s, c), c), Q, c)
<1> DEFINE t == Free(RemoveConnection(s, c), c)
           E == InUse(L, active)
           K == L \ {c}
           b == Cleared(active, c)
<1>1. /\ L \subseteq Conns /\ active \in [Matches -> BOOLEAN] /\ Holds(s, E, Q)
      /\ Idle(L, active, s) /\ NewestFirst(Q)
  BY DEF Shape
<1>2. c \in Conns /\ Tables(c) \subseteq E
  BY <1>1, InUseOf
<1>3. InUse(K, b) = E \ LinksOf(c)
  BY <1>1, <1>2, InUseRemoved
<1>4. /\ b \in [Matches -> BOOLEAN]
      /\ \A m \in Matches : b[m] = IF m[1] = c THEN FALSE ELSE active[m]
  BY <1>1, <1>2, ClearedIs
<1>5. Drops(s, t, E, Q, c)
  <2>1. \A m \in Matches : m[1] = c => (<<"active", m>> \in E <=> active[m])
    <3>1. \A m \in Matches : <<"active", m>> \in E <=> m[1] \in L /\ active[m]
      BY <1>1, InUseOf
    <3> QED
      BY <3>1
  <2> HIDE DEF E
  <2>2. Drops(s, Free(RemoveConnection(s, c), c), E, Q, c)
    BY <1>1, <1>2, <2>1, RemoveConnectionHolds
  <2> QED
    BY <2>2
<1>6. PICK R : /\ Holds(t, E \ LinksOf(c), R)
               /\ \A l \in Lists : R[l] = Removed(Q[l], l, c)
  BY <1>5 DEF Drops
<1> HIDE DEF t, b
<1>7. Idle(K, b, t)
  <2>1. ASSUME NEW m \in Matches, m[1] \in K, ~b[m]
        PROVE  m[1] \in L /\ ~active[m] /\ <<"active", m>> \notin E \cup LinksOf(c)
    <3>1. m[1] \in L /\ m[1] # c /\ ~active[m]
      BY <1>4, <2>1
    <3>2. <<"active", m>> \notin LinksOf(c)
      BY <3>1, OwnersAre DEF LinksOf
    <3> QED
      BY <1>1, <3>1, <3>2, InUseOf
  <2> HIDE DEF E, K
  <2>2. Kept(s, t, E \cup LinksOf(c))
    BY <1>5 DEF Drops
  <2> QED
    BY <1>1, <2>1, <2>2, StaysIdle
<1>8. NewestFirst(R)
  <2> SUFFICES ASSUME NEW l \in Lists, NEW m \in Matches, NEW n \in Matches,
                      l[1] = "match", KeyOf[m] = KeyOf[n], Before(R[l], m, n)
               PROVE  Newer(R[All], m, n)
    BY DEF NewestFirst
  <2> DEFINE q == Q[l]
             q1 == RemoveFirst(q, Reply(c))
             all == Q[All]
  <2>1. R[l] = RemoveFirst(q1, Original(c))
    BY <1>6 DEF Removed, Without
  <2>2. R[All] = RemoveFirst(all, c)
    BY <1>6, ListKinds DEF Removed
  <2>3. /\ q \in Seq(Matches) /\ IsInjective(q)
        /\ all \in Seq(Conns) /\ IsInjective(all)
    BY ShapeLists, ListKinds
  <2>4. m[1] # c /\ n[1] # c
    <3>1. ToSet(R[l]) = On(E \ LinksOf(c), l)
      BY <1>6, HoldsIs
    <3>2. m \in ToSet(R[l]) /\ n \in ToSet(R[l])
      <4>1. R[l] \in Seq(NodesOf(l[1]))
        BY <1>6, HoldsIs
      <4> QED
        BY <4>1, LenProperties DEF Before, ToSet
    <3>3. <<"match", m>> \notin LinksOf(c) /\ <<"match", n>> \notin LinksOf(c)
      BY <3>1, <3>2 DEF On
    <3> QED
      BY <3>3, OwnersAre DEF LinksOf
  <2> HIDE DEF q, all
  <2>5. q1 \in Seq(Matches) /\ IsInjective(q1)
    <3>1. CASE Reply(c) \in ToSet(q)
      <4>1. PICK j \in 1 .. Len(q) : q[j] = Reply(c)
        BY <2>3, <3>1, LenProperties DEF ToSet
      <4>2. RemoveFirst(q, q[j]) \in Seq(Matches) /\ IsInjective(RemoveFirst(q, q[j]))
        BY <2>3, AtRemove
      <4> QED
        BY <4>1, <4>2
    <3>2. CASE Reply(c) \notin ToSet(q)
      <4>1. DOMAIN q = 1 .. Len(q)
        BY <2>3, LenProperties
      <4> QED
        BY <2>3, <3>2, <4>1, RemoveAbsent
    <3> QED
      BY <3>1, <3>2
  <2> HIDE DEF q1
  <2>6. Before(q1, m, n)
    BY <2>1, <2>5, BeforeRemove
  <2>7. Before(q, m, n)
    BY <2>3, <2>6, BeforeRemove DEF q1
  <2>8. Newer(all, m, n)
    BY <1>1, <2>7 DEF NewestFirst, q, all
  <2>9. Before(all, n[1], m[1]) => Before(RemoveFirst(all, c), n[1], m[1])
    BY <2>3, <2>4, BeforeRemove
  <2> QED
    BY <2>2, <2>8, <2>9 DEF Newer
<1>9. Shape(K, b, t, R)
  BY <1>1, <1>3, <1>4, <1>6, <1>7, <1>8 DEF Shape
<1> QED
  BY <1>6, <1>9 DEF b, t, Loses

LEMMA MoveShape ==
  ASSUME NEW L, NEW a, NEW s, NEW Q, Shape(L, a, s, Q), NEW m \in Matches, m[1] \in L,
         \A n \in Matches : n[1] \in L /\ KeyOf[n] = KeyOf[m] /\ n # m => Before(Q[MatchChain(m)], m, n)
  PROVE  Shape(L, a, MoveToHead(s, MatchChain(m), m),
               [Q EXCEPT ![MatchChain(m)] = Moved(Q[MatchChain(m)], m)])
<1> DEFINE l == MatchChain(m)
           x == <<"match", m>>
           t == MoveToHead(s, l, m)
           q == Q[l]
           R == [Q EXCEPT ![l] = Moved(q, m)]
           E == InUse(L, a)
<1>1. L \subseteq Conns /\ a \in [Matches -> BOOLEAN] /\ Holds(s, E, Q) /\ Idle(L, a, s) /\ NewestFirst(Q)
  BY DEF Shape
<1>2. x \in E /\ ListOf(x) = l /\ x[2] = m /\ l \in Lists /\ l[1] = "match" /\ l # All /\ All \in Lists
  BY <1>1, InUseOf, ListKinds DEF ListOf
<1>3. Holds(t, E, R) /\ Kept(s, t, E)
  <2>1. x \in E
    BY <1>2
  <2> HIDE DEF x, E
  <2>2. /\ Holds(MoveToHead(s, ListOf(x), x[2]), E, [Q EXCEPT ![ListOf(x)] = Moved(Q[ListOf(x)], x[2])])
        /\ Kept(s, MoveToHead(s, ListOf(x), x[2]), E)
    BY <1>1, <2>1, MoveToHeadHolds
  <2> QED
    BY <1>2, <2>2
<1> HIDE DEF t
<1>4. Idle(L, a, t)
  <2>1. \A n \in Matches : n[1] \in L /\ ~a[n] => <<"active", n>> \notin E
    BY <1>1, InUseOf
  <2> HIDE DEF E
  <2> QED
    BY <1>1, <1>3, <2>1, StaysIdle
<1>5. DOMAIN Q = Lists
  BY <1>1, HoldsIs, <1>2
<1>6. R[All] = Q[All] /\ R[l] = Moved(q, m) /\ \A k \in Lists : k # l => R[k] = Q[k]
  BY <1>2, <1>5
<1>7. q \in Seq(Matches) /\ IsInjective(q) /\ ToSet(q) = {n \in Matches : n[1] \in L /\ MatchChain(n) = l}
  BY <1>2, ShapeLists
<1>8. NewestFirst(R)
  <2> SUFFICES ASSUME NEW k \in Lists, NEW g \in Matches, NEW n \in Matches,
                      k[1] = "match", KeyOf[g] = KeyOf[n], Before(R[k], g, n)
               PROVE  Newer(R[All], g, n)
    BY DEF NewestFirst
  <2>1. CASE k # l
    BY <1>1, <1>6, <2>1 DEF NewestFirst
  <2>2. CASE k = l
    <3>1. Before(Moved(q, m), g, n) /\ m \in ToSet(q)
      BY <1>6, <1>7, <2>2
    <3> HIDE DEF q
    <3>2. Before(q, g, n) \/ (g = m /\ n \in ToSet(q) /\ n # m)
      BY <1>7, <3>1, BeforeMoved
    <3>3. g = m /\ n \in ToSet(q) /\ n # m => Before(q, m, n)
      BY <1>7 DEF q
    <3>4. Before(q, g, n)
      BY <3>2, <3>3
    <3>5. Newer(Q[All], g, n)
      BY <1>1, <2>2, <3>4 DEF NewestFirst, q
    <3> QED
      BY <1>6, <3>5
  <2> QED
    BY <2>1, <2>2
<1> HIDE DEF R
<1>9. Shape(L, a, t, R)
  BY <1>1, <1>3, <1>4, <1>8 DEF Shape
<1> QED
  BY <1>9 DEF t, R

LEMMA ForwardShape ==
  ASSUME NEW L, NEW a, NEW s, NEW Q, Shape(L, a, s, Q), NEW m \in Matches, m[1] \in L, ~a[m]
  PROVE  Shape(L, [a EXCEPT ![m] = TRUE], PushTail(s, Active, m),
               [Q EXCEPT ![Active] = Append(Q[Active], m)])
<1> DEFINE x == <<"active", m>>
           t == PushTail(s, Active, m)
           R == [Q EXCEPT ![Active] = Append(Q[Active], m)]
           E == InUse(L, a)
           b == [a EXCEPT ![m] = TRUE]
<1>1. L \subseteq Conns /\ a \in [Matches -> BOOLEAN] /\ Holds(s, E, Q) /\ Idle(L, a, s) /\ NewestFirst(Q)
  BY DEF Shape
<1>2. /\ x \in Links /\ x \notin E /\ ListOf(x) = Active /\ x[2] = m
      /\ ListOf(x) \in Tailed /\ s.next[x] = NULL
  BY <1>1, InUseOf, OwnersAre DEF ListOf, Tailed, Idle
<1>3. Holds(t, E \cup {x}, R) /\ Kept(s, t, E \cup {x})
  <2> HIDE DEF x, E
  <2>2. /\ Holds(PushTail(s, ListOf(x), x[2]), E \cup {x}, [Q EXCEPT ![ListOf(x)] = Append(Q[ListOf(x)], x[2])])
        /\ Kept(s, PushTail(s, ListOf(x), x[2]), E \cup {x})
    BY <1>1, <1>2, PushTailHolds
  <2> QED
    BY <1>2, <2>2
<1> HIDE DEF t
<1>4. b \in [Matches -> BOOLEAN] /\ \A n \in Matches : b[n] = IF n = m THEN TRUE ELSE a[n]
  <2>1. a \in [Matches -> BOOLEAN]
    BY <1>1
  <2>2. b \in [Matches -> BOOLEAN]
    BY <2>1
  <2>3. \A n \in Matches : b[n] = IF n = m THEN TRUE ELSE a[n]
    BY <2>1
  <2> QED
    BY <2>2, <2>3
<1>5. InUse(L, b) = E \cup {x}
  <2>1. L \subseteq Conns /\ a \in [Matches -> BOOLEAN]
    BY <1>1
  <2>2. InUse(L, Raised(a, m)) = InUse(L, a) \cup {<<"active", m>>}
    BY <2>1, InUseActive
  <2> QED
    BY <2>2 DEF Raised
<1> HIDE DEF b
<1>6. Idle(L, b, t)
  <2>1. ASSUME NEW n \in Matches, n[1] \in L, ~b[n]
        PROVE  n[1] \in L /\ ~a[n] /\ <<"active", n>> \notin E \cup {x}
    <3>1. n # m /\ ~a[n]
      BY <1>4, <2>1
    <3> QED
      BY <1>1, <2>1, <3>1, InUseOf
  <2> HIDE DEF E, x
  <2> QED
    BY <1>1, <1>3, <2>1, StaysIdle
<1>7. NewestFirst(R)
  <2>1. DOMAIN Q = Lists
    BY <1>1, HoldsIs, ListKinds
  <2>2. \A k \in Lists : k # Active => R[k] = Q[k]
    BY <2>1
  <2> HIDE DEF R
  <2>3. R[All] = Q[All] /\ \A k \in Lists : k[1] = "match" => R[k] = Q[k]
    BY <2>2, ListKinds
  <2> QED
    BY <1>1, <2>3 DEF NewestFirst
<1> HIDE DEF R
<1>8. Shape(L, b, t, R)
  BY <1>1, <1>3, <1>4, <1>5, <1>6, <1>7 DEF Shape
<1> QED
  BY <1>8 DEF b, t, R

LEMMA UnlinkedHead ==
  ASSUME NEW S, NEW q \in Seq(S), IsInjective(q), NEW j \in 1 .. Len(q), NEW e, e # q[1]
  PROVE  /\ RemoveFirst(q, e) \in Seq(S) /\ IsInjective(RemoveFirst(q, e))
         /\ At(RemoveFirst(q, e), 1) = q[1] /\ q[1] \in ToSet(RemoveFirst(q, e))
<1> DEFINE r == RemoveFirst(q, e)
<1>1. DOMAIN q = 1 .. Len(q) /\ Len(q) \in Nat /\ 1 \in 1 .. Len(q) /\ At(q, 1) = q[1] /\ q[1] \in ToSet(q)
  BY LenProperties DEF At, ToSet
<1>2. CASE e \notin ToSet(q)
  BY <1>1, <1>2, RemoveAbsent
<1>3. CASE e \in ToSet(q)
  <2>1. PICK i \in 1 .. Len(q) : q[i] = e
    BY <1>1, <1>3 DEF ToSet
  <2>2. /\ r \in Seq(S) /\ IsInjective(r) /\ Len(r) = Len(q) - 1
        /\ \A k \in Int : At(r, k) = IF k < i THEN At(q, k) ELSE At(q, k + 1)
    <3>1. RemoveFirst(q, q[i]) \in Seq(S) /\ IsInjective(RemoveFirst(q, q[i]))
      BY AtRemove
    <3>2. Len(RemoveFirst(q, q[i])) = Len(q) - 1
      BY AtRemove
    <3>3. \A k \in Int : At(RemoveFirst(q, q[i]), k) = IF k < i THEN At(q, k) ELSE At(q, k + 1)
      BY AtRemove
    <3>4. r = RemoveFirst(q, q[i])
      BY <2>1
    <3> HIDE DEF r
    <3> QED
      BY <3>1, <3>2, <3>3, <3>4
  <2> HIDE DEF r
  <2>3. i # 1 /\ 1 < i /\ 1 \in 1 .. Len(r)
    <3>1. i # 1
      BY <2>1
    <3>2. Len(r) = Len(q) - 1
      BY <2>2
    <3> QED
      BY <1>1, <3>1, <3>2
  <2>4. At(r, 1) = q[1]
    BY <2>2, <2>3, <1>1
  <2>5. r[1] \in ToSet(r) /\ r[1] = q[1]
    BY <2>2, <2>3, <2>4, LenProperties DEF At, ToSet
  <2> QED
    BY <2>2, <2>4, <2>5 DEF r
<1> QED
  BY <1>2, <1>3

\* What the sync does to the match m at the head of the active list, and to its counter match k.
Counted(s, a, k) == IF a[k] THEN Isolate(Unlink(s, Active, k), Active, k) ELSE s
Synced(s, m) == LET x == s.next[<<"active", m>>]
                IN  [SetPrev([s EXCEPT !.head[Active] = x], Active, x, NULL)
                       EXCEPT !.next[<<"active", m>>] = NULL]

LEMMA CountedHolds ==
  ASSUME NEW L, NEW a, NEW s, NEW Q, Shape(L, a, s, Q), NEW k \in Matches, k[1] \in L
  PROVE  LET u == Counted(s, a, k)
         IN  /\ Kept(s, u, InUse(L, a))
             /\ u.next[<<"active", k>>] = NULL
             /\ \E R : /\ Holds(u, InUse(L, a) \ {<<"active", k>>}, R)
                       /\ Took(Q, R, {"active"}, k)
<1> DEFINE E == InUse(L, a)
           x == <<"active", k>>
           u == Counted(s, a, k)
           v == Unlink(s, Active, k)
<1>1. L \subseteq Conns /\ a \in [Matches -> BOOLEAN] /\ Holds(s, E, Q) /\ Idle(L, a, s)
  BY DEF Shape
<1>2. /\ x \in Links /\ ListOf(x) = Active /\ x[1] = "active" /\ x[2] = k
      /\ x \in E <=> a[k]
  BY <1>1, InUseOf, OwnersAre DEF ListOf
<1>3. CASE a[k]
  <2>1. u = [v EXCEPT !.next[x] = NULL, !.prev[x] = NULL]
    BY <1>3 DEF Counted, Isolate, Active
  <2>2. /\ Kept(s, v, E)
        /\ \E R : Holds(v, E \ {x}, R) /\ Took(Q, R, {"active"}, k)
    <3>1. v = Unlink(s, ListOf(x), x[2]) /\ x \in E
      BY <1>2, <1>3
    <3> HIDE DEF E, x, v
    <3>2. /\ Kept(s, Unlink(s, ListOf(x), x[2]), E)
          /\ \E R : Holds(Unlink(s, ListOf(x), x[2]), E \ {x}, R) /\ Took(Q, R, {x[1]}, x[2])
      BY <1>1, <3>1, UnlinkAnywhere
    <3> QED
      BY <1>2, <3>1, <3>2
  <2>3. PICK R : Holds(v, E \ {x}, R) /\ Took(Q, R, {"active"}, k)
    BY <2>2
  <2> HIDE DEF v
  <2>4. x \notin E \ {x} /\ x \in E /\ {x} \subseteq E
    BY <1>2, <1>3
  <2> DEFINE F == E \ {x}
  <2>5. Holds(v, F, R) /\ x \notin F /\ x \in Links
    BY <1>2, <2>3, <2>4
  <2> HIDE DEF x, u, E, F
  <2>6. Holds(u, F, R) /\ Kept(v, u, {x}) /\ u.next[x] = NULL
    BY <2>1, <2>5, WriteHolds
  <2>7. Kept(s, u, E)
    BY <2>2, <2>4, <2>6, KeptTwice
  <2> QED
    BY <2>3, <2>6, <2>7 DEF x, u, E, F
<1>4. CASE ~a[k]
  <2>1. u = s
    BY <1>4 DEF Counted
  <2>2. E \ {x} = E /\ x \notin E
    BY <1>2, <1>4
  <2>3. s.next[x] = NULL
    BY <1>1, <1>4 DEF Idle
  <2>4. Took(Q, Q, {"active"}, k)
    <3> SUFFICES ASSUME NEW l \in Lists, l[1] = "active"
                 PROVE  RemoveFirst(Q[l], k) = Q[l]
      BY DEF Took
    <3>1. <<l[1], k>> \notin E
      BY <2>2
    <3> HIDE DEF E
    <3> QED
      BY <1>1, <3>1, HoldsAbsent
  <2>5. Kept(s, s, E)
    BY DEF Kept
  <2> QED
    BY <1>1, <2>1, <2>2, <2>3, <2>4, <2>5
<1> QED
  BY <1>3, <1>4

LEMMA SyncedIsUnlink ==
  ASSUME NEW u, Memory(u), NEW m \in Matches, u.prev[<<"active", m>>] = NULL
  PROVE  Synced(u, m) = [Unlink(u, Active, m) EXCEPT !.next[<<"active", m>>] = NULL]
BY DEF Synced, Unlink, SetNext, Active

LEMMA SyncShape ==
  ASSUME NEW L, NEW a, NEW s, NEW Q, Shape(L, a, s, Q), NEW m, m = s.head[Active], m # NULL
  PROVE  /\ m \in Matches /\ m[1] \in L /\ m = Q[Active][1] /\ Q[Active] # <<>>
         /\ \E R : /\ Shape(L, Cleared(a, m[1]), Synced(Counted(s, a, CounterMatch(m)), m), R)
                   /\ R[All] = Q[All] /\ R[Active] = Without(Q[Active], m[1])
<1> DEFINE k == CounterMatch(m)
           E == InUse(L, a)
           x == <<"active", k>>
           y == <<"active", m>>
           u == Counted(s, a, k)
           v == Unlink(u, Active, m)
           t == Synced(u, m)
           q == Q[Active]
           c == m[1]
           b == Cleared(a, c)
<1>1. L \subseteq Conns /\ a \in [Matches -> BOOLEAN] /\ Holds(s, E, Q) /\ Idle(L, a, s) /\ NewestFirst(Q)
  BY DEF Shape
<1>2. /\ q \in Seq(Matches) /\ IsInjective(q) /\ Path(s, Active, q)
      /\ ToSet(q) = {n \in Matches : n[1] \in L /\ a[n]}
  BY <1>1, ShapeLists, ListKinds, HoldsIs
<1>3. 1 \in 1 .. Len(q) /\ m = q[1] /\ m \in ToSet(q) /\ q # <<>>
  <2>1. m = At(q, 1)
    BY <1>2 DEF Path
  <2> HIDE DEF q
  <2>2. 1 \in 1 .. Len(q) /\ m = q[1]
    BY <2>1 DEF At
  <2> QED
    BY <1>2, <2>2, LenProperties, EmptySeq DEF ToSet
<1>4. m \in Matches /\ c \in L /\ a[m] /\ c \in Conns
  BY <1>1, <1>2, <1>3
<1>5. /\ k \in Matches /\ k[1] = c /\ k # m
      /\ \/ m = Original(c) /\ k = Reply(c)
         \/ m = Reply(c) /\ k = Original(c)
  <2>1. m = <<m[1], m[2]>> /\ m[2] \in Dirs /\ m[1] \in Conns
    BY <1>4, OwnersAre
  <2> QED
    BY <2>1 DEF CounterMatch, Dirs, Matches, Original, Reply
<1> HIDE DEF k
<1>6. Kept(s, u, E) /\ u.next[x] = NULL /\ \E R : Holds(u, E \ {x}, R) /\ Took(Q, R, {"active"}, k)
  <2> HIDE DEF E
  <2>1. /\ Kept(s, Counted(s, a, k), InUse(L, a))
        /\ Counted(s, a, k).next[<<"active", k>>] = NULL
        /\ \E R : /\ Holds(Counted(s, a, k), InUse(L, a) \ {<<"active", k>>}, R)
                  /\ Took(Q, R, {"active"}, k)
    BY <1>4, <1>5, CountedHolds
  <2> QED
    BY <2>1 DEF E
<1>7. PICK R1 : Holds(u, E \ {x}, R1) /\ Took(Q, R1, {"active"}, k)
  BY <1>6
<1> HIDE DEF u
<1>8. /\ x \in Links /\ y \in Links /\ x # y /\ y \in E
      /\ ListOf(y) = Active /\ y[1] = "active" /\ y[2] = m
  <2>1. \A n \in Matches : <<"active", n>> \in E <=> n[1] \in L /\ a[n]
    BY <1>1, InUseOf
  <2>2. \A n \in Matches : <<"active", n>> \in Links
    BY OwnersAre
  <2> HIDE DEF E
  <2>3. x \in Links /\ y \in Links /\ x # y /\ y \in E
    BY <1>4, <1>5, <2>1, <2>2
  <2> QED
    BY <2>3 DEF ListOf
<1>9. Memory(u) /\ u.prev[y] = NULL
  <2>1. R1[Active] = RemoveFirst(q, k) /\ Path(u, Active, R1[Active])
    BY <1>7, HoldsIs, ListKinds DEF Took
  <2> HIDE DEF q
  <2>2. /\ RemoveFirst(q, k) \in Seq(Matches) /\ IsInjective(RemoveFirst(q, k))
        /\ At(RemoveFirst(q, k), 1) = q[1] /\ q[1] \in ToSet(RemoveFirst(q, k))
    BY <1>2, <1>3, <1>5, UnlinkedHead
  <2> DEFINE r == R1[Active]
  <2> HIDE DEF r
  <2>3. /\ r \in Seq(Matches) /\ At(r, 1) = m /\ m # NULL
        /\ \A i \in 1 .. Len(r) : u.prev[<<"active", r[i]>>] = At(r, i - 1)
    BY <1>3, <2>1, <2>2 DEF r, Path, Active
  <2>4. 1 \in 1 .. Len(r) /\ r[1] = m
    BY <2>3 DEF At
  <2>5. At(r, 1 - 1) = NULL
    BY DEF At
  <2> QED
    BY <1>7, <2>3, <2>4, <2>5, HoldsIs, ListKinds
<1>10. t = [v EXCEPT !.next[y] = NULL]
  BY <1>4, <1>9, SyncedIsUnlink
<1> DEFINE F == E \ {x}
<1>11. Kept(u, v, F) /\ \E R : Holds(v, F \ {y}, R) /\ Took(R1, R, {"active"}, m)
  <2>1. v = Unlink(u, ListOf(y), y[2]) /\ y \in F
    BY <1>8
  <2>2. Holds(u, F, R1)
    BY <1>7
  <2> HIDE DEF F, y, v
  <2>3. /\ Kept(u, Unlink(u, ListOf(y), y[2]), F)
        /\ \E R : Holds(Unlink(u, ListOf(y), y[2]), F \ {y}, R) /\ Took(R1, R, {y[1]}, y[2])
    BY <2>1, <2>2, UnlinkAnywhere
  <2> QED
    BY <1>8, <2>1, <2>3
<1>12. PICK R : Holds(v, F \ {y}, R) /\ Took(R1, R, {"active"}, m)
  BY <1>11
<1> HIDE DEF v, t
<1> DEFINE G == F \ {y}
<1>13. Holds(t, G, R) /\ Kept(v, t, {y}) /\ t.next[y] = NULL
  <2>1. y \notin G /\ y \in Links /\ Holds(v, G, R)
    BY <1>8, <1>12
  <2> HIDE DEF y, G
  <2> QED
    BY <1>10, <2>1, WriteHolds
<1>14. t.next[x] = NULL
  <2>1. v.next[x] = u.next[x]
    BY <1>8, <1>11 DEF Kept
  <2>2. t.next[x] = v.next[x]
    BY <1>8, <1>13 DEF Kept
  <2> QED
    BY <1>6, <2>1, <2>2
<1>15. Kept(s, t, E)
  <2>1. F \subseteq E /\ {y} \subseteq E
    BY <1>8
  <2> HIDE DEF E, F, y
  <2>2. Kept(s, v, E)
    BY <1>6, <1>11, <2>1, KeptTwice
  <2> QED
    BY <1>13, <2>1, <2>2, KeptTwice
<1>16. R[All] = Q[All] /\ \A l \in Lists : l[1] = "match" => R[l] = Q[l]
  BY <1>7, <1>12, ListKinds DEF Took
<1>17. R[Active] = Without(q, c)
  <2>1. R[Active] = RemoveFirst(RemoveFirst(q, k), m)
    BY <1>7, <1>12, ListKinds DEF Took
  <2> HIDE DEF q
  <2>2. CASE m = Original(c) /\ k = Reply(c)
    BY <2>1, <2>2 DEF Without
  <2>3. CASE m = Reply(c) /\ k = Original(c)
    <3>1. RemoveFirst(RemoveFirst(q, k), m) = RemoveFirst(RemoveFirst(q, m), k)
      BY <1>2, RemovesCommute
    <3> QED
      BY <2>1, <2>3, <3>1 DEF Without
  <2> QED
    BY <1>5, <2>2, <2>3
<1>18. /\ b \in [Matches -> BOOLEAN]
       /\ \A n \in Matches : b[n] = IF n[1] = c THEN FALSE ELSE a[n]
  <2>1. a \in [Matches -> BOOLEAN] /\ c \in Conns
    BY <1>1, <1>4
  <2> HIDE DEF c
  <2> QED
    BY <2>1, ClearedIs
<1>19. InUse(L, b) = G
  <2>1. InUse(L, Cleared(a, c)) = (InUse(L, a) \ {<<"active", Reply(c)>>}) \ {<<"active", Original(c)>>}
    BY <1>1, <1>4, InUseCleared
  <2> QED
    BY <1>5, <2>1
<1> HIDE DEF b
<1>20. Idle(L, b, t)
  <2>1. ASSUME NEW n \in Matches, n[1] \in L, ~b[n]
        PROVE  \/ n[1] \in L /\ ~a[n] /\ <<"active", n>> \notin E
               \/ t.next[<<"active", n>>] = NULL
    <3>1. CASE n[1] = c
      <4>1. n = m \/ n = k
        BY <1>5, <3>1, OwnersAre
      <4> QED
        BY <1>13, <1>14, <4>1
    <3>2. CASE n[1] # c
      <4>1. ~a[n]
        BY <1>18, <2>1, <3>2
      <4> QED
        BY <1>1, <2>1, <4>1, InUseOf
    <3> QED
      BY <3>1, <3>2
  <2> HIDE DEF E
  <2> QED
    BY <1>1, <1>15, <2>1, StaysIdle
<1>21. NewestFirst(R)
  BY <1>1, <1>16 DEF NewestFirst
<1>22. Shape(L, b, t, R)
  BY <1>1, <1>13, <1>18, <1>19, <1>20, <1>21 DEF Shape
<1> QED
  BY <1>3, <1>4, <1>16, <1>17, <1>22 DEF k, u, t, b

-----------------------------------------------------------------------------
(* Steps.                                                                  *)

\* Of the matches with its key m is the one that a packet must find.
Latest(all, m) ==
    /\ m \in Matches /\ m[1] \in ToSet(all)
    /\ \A n \in Matches : n[1] \in ToSet(all) /\ KeyOf[n] = KeyOf[m] /\ n # m => Newer(all, m, n)

\* What happens to the two lists that callers walk, from p and q to p1 and q1.
Creates(p, q, p1, q1, c) == c \in Conns \ ToSet(p) /\ p1 = Append(p, c) /\ q1 = q
Destroys(p, q, p1, q1, c) == c \in ToSet(p) /\ p1 = RemoveFirst(p, c) /\ q1 = Without(q, c)
Forwards(p, q, p1, q1, m) ==
    Latest(p, m) /\ p1 = p /\ q1 = IF m \in ToSet(q) THEN q ELSE Append(q, m)
Syncs(p, q, p1, q1) == q # <<>> /\ p1 = p /\ q1 = Without(q, q[1][1])

ListStep(p, q, p1, q1) ==
    \/ \E c \in Conns : Creates(p, q, p1, q1, c) \/ Destroys(p, q, p1, q1, c)
    \/ \E m \in Matches : Forwards(p, q, p1, q1, m)
    \/ Syncs(p, q, p1, q1)
    \/ p1 = p /\ q1 = q

LEMMA InitShape ==
  ASSUME Init
  PROVE  Shape(linked, active, mem, [l \in Lists |-> <<>>])
<1> DEFINE E == InUse(linked, active)
           Q == [l \in Lists |-> <<>>]
<1>1. linked = {} /\ active \in [Matches -> BOOLEAN]
  BY DEF Init
<1>2. E = {}
  BY <1>1 DEF InUse
<1>3. /\ Memory(mem)
      /\ \A l \in Lists : mem.head[l] = NULL
      /\ \A l \in Tailed : mem.tail[l] = NULL
  <2>1. NULL \in Pointers /\ Poison \in Pointers
    BY DEF Pointers
  <2> QED
    BY <2>1 DEF Init, Memory
<1>4. ASSUME NEW l \in Lists
      PROVE  Path(mem, l, Q[l]) /\ ToSet(Q[l]) = On(E, l)
  <2> DEFINE q == Q[l]
  <2>1. q = <<>>
    OBVIOUS
  <2> HIDE DEF q
  <2>2. q \in Seq(NodesOf(l[1])) /\ Len(q) = 0 /\ IsInjective(q) /\ ToSet(q) = {}
    BY <2>1 DEF IsInjective, ToSet
  <2>3. Path(mem, l, q)
    BY <1>3, <2>2 DEF Path, At
  <2>4. On(E, l) = {}
    BY <1>2 DEF On
  <2> QED
    BY <2>2, <2>3, <2>4 DEF q
<1>5. Holds(mem, E, Q)
  BY <1>2, <1>3, <1>4 DEF Holds
<1>6. Idle(linked, active, mem)
  BY <1>1 DEF Idle
<1>7. NewestFirst(Q)
  BY DEF NewestFirst, Before
<1> QED
  BY <1>1, <1>5, <1>6, <1>7 DEF Shape

\* The look-up of the key k in the chain q stops at hit.
Hits(q, hit, k) == hit # 0 /\ hit = SelectInSeq(q, LAMBDA m : KeyOf[m] = k)

\* It finds the match m, the first with this key.
Finds(q, m, k) ==
    /\ m \in Matches /\ m[1] \in linked /\ KeyOf[m] = k
    /\ \A n \in Matches : n[1] \in linked /\ KeyOf[n] = k /\ n # m => Before(q, m, n)

LEMMA HitIs ==
  ASSUME NEW Q, Shape(linked, active, mem, Q), NEW k \in Keys,
         NEW q, q = Q[<<"match", BucketOf[k]>>], NEW hit, Hits(q, hit, k)
  PROVE  Finds(q, q[hit], k)
<1> DEFINE l == <<"match", BucketOf[k]>>
           I == {i \in 1 .. Len(q) : KeyOf[q[i]] = k}
<1>1. l \in Lists /\ l[1] = "match"
  BY DEF Lists
<1>2. /\ q \in Seq(Matches)
      /\ ToSet(q) = {m \in Matches : m[1] \in linked /\ MatchChain(m) = l}
  BY <1>1, ShapeLists
<1>3. Len(q) \in Nat /\ DOMAIN q = 1 .. Len(q)
  BY <1>2, LenProperties
<1>4. I \subseteq Nat /\ I # {} /\ hit = Min(I)
  BY <1>3 DEF SelectInSeq, Hits
<1>5. hit \in I
  BY <1>4, MinInSet
<1>6. q[hit] \in ToSet(q) /\ KeyOf[q[hit]] = k
  BY <1>3, <1>5 DEF ToSet
<1>7. ASSUME NEW n \in Matches, n[1] \in linked, KeyOf[n] = k, n # q[hit]
      PROVE  Before(q, q[hit], n)
  <2>1. n \in ToSet(q)
    BY <1>2, <1>7 DEF MatchChain
  <2>2. PICK j \in 1 .. Len(q) : q[j] = n
    BY <1>3, <2>1 DEF ToSet
  <2>3. j \in I /\ j # hit
    BY <1>7, <2>2
  <2>4. hit =< j
    BY <1>4, <2>3, MinIsLeast
  <2>5. hit < j
    BY <1>3, <1>5, <2>3, <2>4
  <2> QED
    BY <1>5, <2>2, <2>5 DEF Before
<1> QED
  BY <1>2, <1>6, <1>7 DEF Finds

LEMMA ListMembers ==
  ASSUME NEW Q, Shape(linked, active, mem, Q)
  PROVE  /\ Q[All] \in Seq(Conns) /\ IsInjective(Q[All]) /\ ToSet(Q[All]) = linked
         /\ Q[Active] \in Seq(Matches) /\ IsInjective(Q[Active])
         /\ ToSet(Q[Active]) = {m \in Matches : m[1] \in linked /\ active[m]}
BY ShapeLists, ListKinds

LEMMA HitIsLatest ==
  ASSUME NEW Q, Shape(linked, active, mem, Q), NEW m \in Matches, m[1] \in linked,
         \A n \in Matches : n[1] \in linked /\ KeyOf[n] = KeyOf[m] /\ n # m
                              => Before(Q[MatchChain(m)], m, n)
  PROVE  Latest(Q[All], m)
<1>1. NewestFirst(Q)
  BY DEF Shape
<1>2. MatchChain(m) \in Lists /\ MatchChain(m)[1] = "match"
  BY ListKinds
<1>3. ToSet(Q[All]) = linked
  BY ListMembers
<1> QED
  BY <1>1, <1>2, <1>3 DEF Latest, NewestFirst

\* The state after a step, and what the step does to the two lists.
After(Q) == \E R : /\ Shape(linked', active', mem', R)
                   /\ ListStep(Q[All], Q[Active], R[All], R[Active])

LEMMA CreateStep ==
  ASSUME NEW Q, Shape(linked, active, mem, Q), NEW c \in Conns, CreateRule(c)
  PROVE  After(Q)
<1>1. c \in Conns \ linked
  BY DEF CreateRule
<1>2. PICK R : /\ Shape(linked \cup {c}, Cleared(active, c), InsertConnection(mem, c), R)
               /\ \A l \in Lists : R[l] = Inserted(Q[l], l, c)
  BY <1>1, CreateShape
<1>3. Shape(linked', active', mem', R)
  BY <1>2 DEF CreateRule, Cleared
<1>4. R[All] = Append(Q[All], c) /\ R[Active] = Q[Active]
  <2>1. All # ConnChain(c) /\ Active # ConnChain(c) /\ All # Active
    BY ListKinds
  <2> QED
    BY <1>2, <2>1, ListKinds DEF Inserted
<1>5. Creates(Q[All], Q[Active], R[All], R[Active], c)
  BY <1>1, <1>4, ListMembers DEF Creates
<1> QED
  BY <1>3, <1>5 DEF After, ListStep

LEMMA RemoveStep ==
  ASSUME NEW s, NEW Q, Shape(linked, active, s, Q), NEW c \in linked, RemoveFrom(s, c)
  PROVE  \E R : /\ Shape(linked', active', mem', R)
                /\ R[All] = RemoveFirst(Q[All], c) /\ R[Active] = Without(Q[Active], c)
<1>1. PICK R : /\ Shape(linked \ {c}, Cleared(active, c), Free(RemoveConnection(s, c), c), R)
               /\ \A l \in Lists : R[l] = Removed(Q[l], l, c)
  <2>1. Loses(linked, Free(RemoveConnection(s, c), c), Q, c)
    BY RemoveShape
  <2> QED
    BY <2>1 DEF Loses
<1>2. Shape(linked', active', mem', R)
  BY <1>1 DEF RemoveFrom, Cleared
<1>3. R[All] = RemoveFirst(Q[All], c) /\ R[Active] = Without(Q[Active], c)
  BY <1>1, ListKinds DEF Removed
<1> QED
  BY <1>2, <1>3

LEMMA DestroyStep ==
  ASSUME NEW Q, Shape(linked, active, mem, Q), NEW c \in Conns, DestroyRule(c)
  PROVE  After(Q)
<1>1. c \in linked /\ RemoveFrom(mem, c)
  BY DEF DestroyRule
<1>2. PICK R : /\ Shape(linked', active', mem', R)
               /\ R[All] = RemoveFirst(Q[All], c) /\ R[Active] = Without(Q[Active], c)
  BY <1>1, RemoveStep
<1>3. Destroys(Q[All], Q[Active], R[All], R[Active], c)
  BY <1>1, <1>2, ListMembers DEF Destroys
<1> QED
  BY <1>2, <1>3 DEF After, ListStep

LEMMA ForwardStep ==
  ASSUME NEW s, NEW Q, Shape(linked, active, s, Q), NEW m \in Matches, m[1] \in linked, Forward(s, m)
  PROVE  \E R : /\ Shape(linked', active', mem', R)
                /\ R[All] = Q[All]
                /\ R[Active] = IF active[m] THEN Q[Active] ELSE Append(Q[Active], m)
<1>1. active \in [Matches -> BOOLEAN] /\ linked' = linked /\ active' = [active EXCEPT ![m] = TRUE]
  BY DEF Shape, Forward
<1>2. CASE active[m]
  <2>1. active' = active /\ mem' = s
    BY <1>1, <1>2 DEF Forward
  <2> QED
    BY <1>1, <1>2, <2>1
<1>3. CASE ~active[m]
  <2> DEFINE R == [Q EXCEPT ![Active] = Append(Q[Active], m)]
  <2>1. Shape(linked, [active EXCEPT ![m] = TRUE], PushTail(s, Active, m), R)
    BY <1>3, ForwardShape
  <2>2. mem' = PushTail(s, Active, m)
    BY <1>3 DEF Forward
  <2>3. DOMAIN Q = Lists
    BY DEF Shape, Holds
  <2>4. R[All] = Q[All] /\ R[Active] = Append(Q[Active], m)
    BY <2>3, ListKinds
  <2> HIDE DEF R
  <2> QED
    BY <1>1, <1>3, <2>1, <2>2, <2>4
<1> QED
  BY <1>2, <1>3

LEMMA RecvStep ==
  ASSUME NEW Q, Shape(linked, active, mem, Q), NEW k \in Keys, Recv(k)
  PROVE  After(Q)
<1> DEFINE l   == <<"match", BucketOf[k]>>
           q   == Q[l]
           hit == SelectInSeq(q, LAMBDA m : KeyOf[m] = k)
           m   == q[hit]
           s   == MoveToHead(mem, l, m)
           P   == [Q EXCEPT ![l] = Moved(q, m)]
<1>1. l \in Lists /\ l # All /\ l # Active /\ Nodes(mem, l) = q
  <2>1. l \in Lists /\ l[1] = "match"
    BY DEF Lists
  <2>2. Nodes(mem, l) = Q[l]
    BY <2>1, ShapeLists
  <2> QED
    BY <2>1, <2>2, ListKinds
<1>2. hit # 0 /\ (Forward(s, m) \/ RemoveFrom(s, m[1]) \/ (mem' = s /\ UNCHANGED <<linked, active>>))
  BY <1>1 DEF Recv
<1>3. /\ m \in Matches /\ m[1] \in linked /\ KeyOf[m] = k /\ MatchChain(m) = l
      /\ \A n \in Matches : n[1] \in linked /\ KeyOf[n] = k /\ n # m => Before(q, m, n)
  <2>1. Hits(q, hit, k) /\ q = Q[<<"match", BucketOf[k]>>]
    BY <1>2 DEF Hits
  <2> HIDE DEF hit, q
  <2>2. Finds(q, q[hit], k)
    BY <2>1, HitIs
  <2> QED
    BY <2>2 DEF Finds, MatchChain
<1> HIDE DEF hit, m
<1>4. Latest(Q[All], m)
  <2>1. \A n \in Matches : n[1] \in linked /\ KeyOf[n] = KeyOf[m] /\ n # m => Before(Q[MatchChain(m)], m, n)
    BY <1>3
  <2> QED
    BY <1>3, <2>1, HitIsLatest
<1>5. Shape(linked, active, s, P)
  <2>1. \A n \in Matches : n[1] \in linked /\ KeyOf[n] = KeyOf[m] /\ n # m => Before(Q[MatchChain(m)], m, n)
    BY <1>3
  <2>2. Shape(linked, active, MoveToHead(mem, MatchChain(m), m),
              [Q EXCEPT ![MatchChain(m)] = Moved(Q[MatchChain(m)], m)])
    BY <1>3, <2>1, MoveShape
  <2> QED
    BY <1>3, <2>2
<1>6. P[All] = Q[All] /\ P[Active] = Q[Active]
  <2>1. DOMAIN Q = Lists
    BY DEF Shape, Holds
  <2> QED
    BY <1>1, <2>1, ListKinds
<1> HIDE DEF s, P
<1>7. CASE Forward(s, m)
  <2>1. PICK R : /\ Shape(linked', active', mem', R)
                 /\ R[All] = P[All]
                 /\ R[Active] = IF active[m] THEN P[Active] ELSE Append(P[Active], m)
    BY <1>3, <1>5, <1>7, ForwardStep
  <2>2. m \in ToSet(Q[Active]) <=> active[m]
    BY <1>3, ListMembers
  <2>3. Forwards(Q[All], Q[Active], R[All], R[Active], m)
    BY <1>4, <1>6, <2>1, <2>2 DEF Forwards
  <2> QED
    BY <1>3, <2>1, <2>3 DEF After, ListStep
<1>8. CASE RemoveFrom(s, m[1])
  <2> DEFINE c == m[1]
  <2>1. c \in linked /\ c \in Conns
    BY <1>3, OwnersAre
  <2> HIDE DEF c
  <2>2. RemoveFrom(s, c)
    BY <1>8 DEF c
  <2>3. PICK R : /\ Shape(linked', active', mem', R)
                 /\ R[All] = RemoveFirst(P[All], c) /\ R[Active] = Without(P[Active], c)
    BY <1>5, <2>1, <2>2, RemoveStep
  <2>4. Destroys(Q[All], Q[Active], R[All], R[Active], c)
    BY <1>6, <2>1, <2>3, ListMembers DEF Destroys
  <2> QED
    BY <2>1, <2>3, <2>4 DEF After, ListStep
<1>9. CASE mem' = s /\ UNCHANGED <<linked, active>>
  <2>1. Shape(linked', active', mem', P)
    BY <1>5, <1>9
  <2> QED
    BY <1>6, <2>1 DEF After, ListStep
<1> QED
  BY <1>2, <1>7, <1>8, <1>9

LEMMA SyncStep ==
  ASSUME NEW Q, Shape(linked, active, mem, Q), SyncHead
  PROVE  After(Q)
<1> DEFINE m == mem.head[Active]
           k == CounterMatch(m)
<1>1. /\ m # NULL
      /\ linked' = linked
      /\ active' = [active EXCEPT ![m] = FALSE, ![k] = FALSE]
      /\ mem' = Synced(Counted(mem, active, k), m)
  BY DEF SyncHead, Synced, Counted
<1> HIDE DEF m
<1>2. m = mem.head[Active]
  BY DEF m
<1>3. /\ m \in Matches /\ m[1] \in linked /\ m = Q[Active][1] /\ Q[Active] # <<>>
      /\ \E R : /\ Shape(linked, Cleared(active, m[1]), Synced(Counted(mem, active, CounterMatch(m)), m), R)
                /\ R[All] = Q[All] /\ R[Active] = Without(Q[Active], m[1])
  BY <1>1, <1>2, SyncShape
<1>4. PICK R : /\ Shape(linked, Cleared(active, m[1]), Synced(Counted(mem, active, CounterMatch(m)), m), R)
               /\ R[All] = Q[All] /\ R[Active] = Without(Q[Active], m[1])
  BY <1>3
<1>5. active' = Cleared(active, m[1])
  <2>1. m = <<m[1], m[2]>> /\ m[2] \in Dirs
    BY <1>3, OwnersAre
  <2>2. active \in [Matches -> BOOLEAN] /\ m[1] \in Conns
    BY <1>3, OwnersAre DEF Shape
  <2>3. \/ m = <<m[1], "original">> /\ k = <<m[1], "reply">>
        \/ m = <<m[1], "reply">> /\ k = <<m[1], "original">>
    BY <2>1 DEF CounterMatch, Dirs
  <2>4. k \in Matches /\ m \in Matches
    BY <1>3, <2>2, <2>3 DEF Matches, Dirs
  <2> HIDE DEF k
  <2>5. CASE m = <<m[1], "original">> /\ k = <<m[1], "reply">>
    <3>1. Cleared(active, m[1]) = [active EXCEPT ![m] = FALSE, ![k] = FALSE]
      BY <2>5 DEF Cleared
    <3> QED
      BY <1>1, <3>1
  <2>6. CASE m = <<m[1], "reply">> /\ k = <<m[1], "original">>
    <3>1. Cleared(active, m[1]) = [active EXCEPT ![k] = FALSE, ![m] = FALSE]
      BY <2>6 DEF Cleared
    <3>2. [active EXCEPT ![k] = FALSE, ![m] = FALSE] = [active EXCEPT ![m] = FALSE, ![k] = FALSE]
      BY <2>2, <2>4
    <3> QED
      BY <1>1, <3>1, <3>2
  <2> QED
    BY <2>3, <2>5, <2>6
<1>6. Shape(linked', active', mem', R)
  BY <1>1, <1>4, <1>5
<1>7. Syncs(Q[All], Q[Active], R[All], R[Active])
  BY <1>3, <1>4 DEF Syncs
<1> QED
  BY <1>6, <1>7 DEF After, ListStep

LEMMA NextStep ==
  ASSUME NEW Q, Shape(linked, active, mem, Q), [Next]_vars
  PROVE  After(Q)
<1>1. CASE \E c \in Conns : CreateRule(c) \/ DestroyRule(c)
  BY <1>1, CreateStep, DestroyStep
<1>2. CASE \E k \in Keys : Recv(k)
  BY <1>2, RecvStep
<1>3. CASE SyncHead
  BY <1>3, SyncStep
<1>4. CASE UNCHANGED vars
  <2>1. Shape(linked', active', mem', Q)
    BY <1>4 DEF vars
  <2> QED
    BY <2>1 DEF After, ListStep
<1> QED
  BY <1>1, <1>2, <1>3, <1>4 DEF Next

-----------------------------------------------------------------------------
(* Theorems.                                                               *)

LEMMA LInvInit == Init => LInv
BY InitShape DEF LInv

LEMMA LInvStep == LInv /\ [Next]_vars => LInv'
<1> SUFFICES ASSUME LInv, [Next]_vars PROVE LInv'
  OBVIOUS
<1>1. PICK Q : Shape(linked, active, mem, Q)
  BY DEF LInv
<1>2. After(Q)
  BY <1>1, NextStep
<1> QED
  BY <1>2 DEF After, LInv

LEMMA LInvAlways == Spec => []LInv
<1> QED
  BY LInvInit, LInvStep, PTL DEF Spec

\* The lists end: neither a head nor a tail is ever what memory happens to hold.
THEOREM TypeCorrect == Spec => []TypeOK
<1>1. LInv => TypeOK
  <2> SUFFICES ASSUME LInv PROVE TypeOK
    OBVIOUS
  <2>1. PICK Q : Shape(linked, active, mem, Q)
    BY DEF LInv
  <2>2. Memory(mem)
    BY <2>1 DEF Shape, Holds
  <2>3. /\ mem.next \in [Links -> Pointers] /\ mem.prev \in [Links -> Pointers]
        /\ mem.head \in [Lists -> Pointers] /\ mem.tail \in [Tailed -> Pointers]
        /\ Tailed \subseteq Lists
    BY <2>2, MemoryIs
  <2>4. ASSUME NEW l \in Lists
        PROVE  mem.head[l] # Poison /\ (l \in Tailed => mem.tail[l] # Poison)
    <3>1. Path(mem, l, Q[l])
      BY <2>1, HoldsIs DEF Shape
    <3> DEFINE q == Q[l]
    <3>2. \A i : At(q, i) # Poison
      <4>1. q \in Seq(NodesOf(l[1])) /\ IsInjective(q)
        BY <3>1 DEF Path
      <4> HIDE DEF q
      <4>2. \A i : At(q, i) \in NodesOf(l[1]) \cup {NULL}
        BY <4>1, PathIs
      <4>3. Poison \notin NodesOf(l[1]) \cup {NULL}
        BY ListsAre, NodesAre
      <4> QED
        BY <4>2, <4>3
    <3> HIDE DEF q
    <3>3. mem.head[l] = At(q, 1) /\ (l \in Tailed => mem.tail[l] = At(q, Len(q)))
      BY <3>1 DEF Path, q
    <3> QED
      BY <3>2, <3>3
  <2>5. mem.head \in [Lists -> Pointers \ {Poison}]
    BY <2>3, <2>4
  <2>6. mem.tail \in [Tailed -> Pointers \ {Poison}]
    BY <2>3, <2>4
  <2>7. linked \subseteq Conns /\ active \in [Matches -> BOOLEAN]
    BY <2>1 DEF Shape
  <2> QED
    BY <2>3, <2>5, <2>6, <2>7 DEF TypeOK
<1> QED
  BY <1>1, LInvAlways, PTL

\* However packets, rules and syncs interleave, each list is doubly linked from
\* its head to its tail, and an idle match is ready to be put on the active list.
THEOREM ListsWellLinked == Spec => []WellLinked
<1>1. LInv => WellLinked
  <2> SUFFICES ASSUME LInv PROVE WellLinked
    OBVIOUS
  <2>1. PICK Q : Shape(linked, active, mem, Q)
    BY DEF LInv
  <2>2. ASSUME NEW l \in Lists
        PROVE  LET s == Nodes(mem, l)
               IN  /\ \A i \in DOMAIN s : mem.prev[<<l[1], s[i]>>] = IF i = 1 THEN NULL ELSE s[i - 1]
                   /\ l \in Tailed => mem.tail[l] = IF s = <<>> THEN NULL ELSE Last(s)
    <3> DEFINE q == Nodes(mem, l)
    <3>1. Nodes(mem, l) = Q[l]
      BY <2>1, ShapeLists
    <3>2. Path(mem, l, Q[l])
      BY <2>1, HoldsIs DEF Shape
    <3>3. Path(mem, l, q)
      BY <3>1, <3>2
    <3> HIDE DEF q
    <3>4. q \in Seq(NodesOf(l[1])) /\ DOMAIN q = 1 .. Len(q) /\ Len(q) \in Nat
      BY <3>3, LenProperties DEF Path
    <3>5. \A i \in DOMAIN q : mem.prev[<<l[1], q[i]>>] = IF i = 1 THEN NULL ELSE q[i - 1]
      <4> TAKE i \in DOMAIN q
      <4>1. i \in 1 .. Len(q) /\ (i # 1 => i - 1 \in 1 .. Len(q)) /\ (i = 1 => i - 1 \notin 1 .. Len(q))
        BY <3>4
      <4>2. mem.prev[<<l[1], q[i]>>] = At(q, i - 1)
        BY <3>3, <4>1 DEF Path
      <4> QED
        BY <4>1, <4>2 DEF At
    <3>6. l \in Tailed => mem.tail[l] = IF q = <<>> THEN NULL ELSE Last(q)
      <4>1. l \in Tailed => mem.tail[l] = At(q, Len(q))
        BY <3>3 DEF Path
      <4>2. At(q, Len(q)) = IF q = <<>> THEN NULL ELSE Last(q)
        BY <3>4, EmptySeq DEF At, Last
      <4> QED
        BY <4>1, <4>2
    <3> QED
      BY <3>5, <3>6 DEF q
  <2>3. \A m \in Matches : m[1] \in linked /\ ~active[m] => mem.next[<<"active", m>>] = NULL
    BY <2>1 DEF Shape, Idle
  <2> QED
    BY <2>2, <2>3 DEF WellLinked
<1> QED
  BY <1>1, LInvAlways, PTL

\* The hash tables hold each linked connection and each of its matches once, in
\* its bucket, and nothing else: no freed object is ever found.
THEOREM TablesExact == Spec => []ChainsExact
<1>1. LInv => ChainsExact
  <2> SUFFICES ASSUME LInv, NEW l \in Lists \ Tailed
               PROVE  /\ IsInjective(Nodes(mem, l))
                      /\ ToSet(Nodes(mem, l)) = {c \in linked : ConnChain(c) = l}
                                           \cup {m \in Matches : m[1] \in linked /\ MatchChain(m) = l}
    BY DEF ChainsExact
  <2>1. PICK Q : Shape(linked, active, mem, Q)
    BY DEF LInv
  <2>2. Nodes(mem, l) = Q[l] /\ IsInjective(Q[l]) /\ linked \subseteq Conns
    BY <2>1, ShapeLists DEF Shape
  <2>3. l[1] \in {"conn", "match"}
    BY DEF Lists, ConnChain
  <2>4. CASE l[1] = "match"
    <3>1. ToSet(Q[l]) = {m \in Matches : m[1] \in linked /\ MatchChain(m) = l}
      BY <2>1, <2>4, ShapeLists
    <3>2. \A c \in linked : ConnChain(c) # l
      BY <2>2, <2>4, ListKinds
    <3> QED
      BY <2>2, <3>1, <3>2
  <2>5. CASE l[1] = "conn"
    <3>1. ToSet(Q[l]) = {c \in Conns : c \in linked /\ ConnChain(c) = l}
      BY <2>1, <2>5, ShapeLists
    <3>2. \A m \in Matches : MatchChain(m) # l
      BY <2>5, ListKinds
    <3> QED
      BY <2>2, <3>1, <3>2
  <2> QED
    BY <2>3, <2>4, <2>5
<1> QED
  BY <1>1, LInvAlways, PTL

\* The abstract specification names matches and removals as the pointers do.
LEMMA PromiseNames ==
  /\ Promise!Matches = Matches
  /\ \A q, e : Promise!Contains(q, e) <=> Contains(q, e)
  /\ \A q, e : Promise!RemoveFirst(q, e) = RemoveFirst(q, e)
  /\ \A q, c : Promise!Without(q, c) = Without(q, c)
<1>1. Promise!Matches = Matches
  BY DEF Promise!Matches, Promise!Dirs, Matches, Dirs
<1>2. \A q, e : Promise!Contains(q, e) <=> Contains(q, e)
  BY DEF Promise!Contains, Contains
<1>3. \A q, e : Promise!RemoveFirst(q, e) = RemoveFirst(q, e)
  BY DEF Promise!RemoveFirst, RemoveFirst, Promise!RemoveAt, RemoveAt,
         Promise!SelectInSeq, SelectInSeq, Promise!Min, Min
<1>4. \A q, c : Promise!Without(q, c) = Without(q, c)
  BY <1>3 DEF Promise!Without, Without, Original, Reply
<1> QED
  BY <1>1, <1>2, <1>3, <1>4

LEMMA ContainsIs ==
  ASSUME NEW S, NEW q \in Seq(S), NEW e
  PROVE  Contains(q, e) <=> e \in ToSet(q)
BY LenProperties DEF Contains, ToSet

\* What recv finds is what the abstract specification lets it find.
LEMMA LatestIsNewest ==
  ASSUME NEW p, p = Nodes(mem, All), p \in Seq(Conns), IsInjective(p), NEW m, Latest(p, m)
  PROVE  m \in Promise!Newest(KeyOf[m])
<1> DEFINE Born(n) == Promise!SelectInSeq(p, LAMBDA c : c = n[1])
           found == {n \in Matches : KeyOf[n] = KeyOf[m] /\ Contains(p, n[1])}
<1>1. DOMAIN p = 1 .. Len(p) /\ Len(p) \in Nat
  BY LenProperties
<1>2. ASSUME NEW i \in 1 .. Len(p), NEW n, p[i] = n[1]
      PROVE  Born(n) = i
  <2>1. {j \in 1 .. Len(p) : p[j] = n[1]} = {i}
    BY <1>1, <1>2 DEF IsInjective
  <2>2. Born(n) = Promise!Min({i})
    BY <2>1 DEF Promise!SelectInSeq
  <2>3. i \in Int
    BY <1>1
  <2> HIDE DEF Born
  <2> QED
    BY <2>2, <2>3 DEF Promise!Min
<1>3. m \in found
  BY ContainsIs DEF Latest
<1> HIDE DEF Born
<1>4. ASSUME NEW n \in found
      PROVE  \/ Born(n) < Born(m)
             \/ n = m
             \/ n = <<m[1], "original">>
  <2>1. n \in Matches /\ n[1] \in ToSet(p) /\ KeyOf[n] = KeyOf[m]
    BY ContainsIs
  <2>2. n = m \/ Newer(p, m, n)
    BY <2>1 DEF Latest
  <2>3. Before(p, n[1], m[1]) => Born(n) < Born(m)
    <3>1. SUFFICES ASSUME NEW i \in 1 .. Len(p), NEW j \in 1 .. Len(p), i < j, p[i] = n[1], p[j] = m[1]
                   PROVE  Born(n) < Born(m)
      BY DEF Before
    <3>2. Born(n) = i /\ Born(m) = j
      BY <1>2, <3>1
    <3> QED
      BY <3>1, <3>2
  <2>4. m = Reply(n[1]) /\ n = Original(n[1]) => n = <<m[1], "original">>
    BY DEF Reply, Original
  <2> QED
    BY <2>2, <2>3, <2>4 DEF Newer
<1> HIDE DEF found
<1>5. m \in {x \in found : \A n \in found : \/ Born(n) < Born(x)
                                            \/ n = x
                                            \/ n = <<x[1], "original">>}
  BY <1>3, <1>4
<1> QED
  <2>1. found = {n \in Promise!Matches : KeyOf[n] = KeyOf[m] /\ Promise!Contains(p, n[1])}
    BY PromiseNames DEF found
  <2>2. p = Nodes(mem, All)
    OBVIOUS
  <2> QED
    BY <1>5, <2>1, <2>2, Zenon DEF Promise!Newest, Born

\* A step of the pointers is a step of the lists, or leaves them alone.
LEMMA PromiseStep ==
  ASSUME NEW Q, Shape(linked, active, mem, Q), NEW R, Shape(linked', active', mem', R),
         ListStep(Q[All], Q[Active], R[All], R[Active])
  PROVE  [Promise!Next]_(Promise!vars)
<1> DEFINE p == Nodes(mem, All)
           q == Nodes(mem, Active)
           p1 == Nodes(mem', All)
           q1 == Nodes(mem', Active)
<1>1. /\ p = Q[All] /\ q = Q[Active] /\ p1 = R[All] /\ q1 = R[Active]
  BY ShapeLists, ListKinds
<1>2. /\ p \in Seq(Conns) /\ IsInjective(p) /\ q \in Seq(Matches)
  BY <1>1, ListMembers
<1>3. ListStep(p, q, p1, q1)
  BY <1>1
<1>0. Nodes(mem, All)' = Nodes(mem', All) /\ Nodes(mem, Active)' = Nodes(mem', Active)
  BY DEF Nodes, All, Active
<1>4. ASSUME NEW c \in Conns, Creates(p, q, p1, q1, c)
      PROVE  Promise!CreateRule(c)
  <2>1. ~Contains(p, c) /\ p1 = Append(p, c) /\ q1 = q
    BY <1>2, <1>4, ContainsIs DEF Creates
  <2> QED
    BY <1>0, <2>1, PromiseNames DEF Promise!CreateRule
<1>5. ASSUME NEW c \in Conns, Destroys(p, q, p1, q1, c)
      PROVE  Promise!DestroyRule(c)
  <2>1. Contains(p, c) /\ p1 = RemoveFirst(p, c) /\ q1 = Promise!Without(q, c)
    BY <1>2, <1>5, ContainsIs, PromiseNames DEF Destroys
  <2> QED
    BY <1>0, <2>1, PromiseNames DEF Promise!DestroyRule
<1>6. ASSUME NEW m \in Matches, Forwards(p, q, p1, q1, m)
      PROVE  KeyOf[m] \in Keys /\ Promise!Recv(KeyOf[m])
  <2>1. Latest(p, m) /\ p1 = p /\ q1 = IF Contains(q, m) THEN q ELSE Append(q, m)
    BY <1>2, <1>6, ContainsIs DEF Forwards
  <2>2. m \in Promise!Newest(KeyOf[m])
    BY <1>2, <2>1, LatestIsNewest
  <2>3. Promise!Forward(m)
    BY <1>0, <2>1, PromiseNames DEF Promise!Forward
  <2>4. KeyOf[m] \in Keys
    BY KeyAssumption
  <2> QED
    BY <2>2, <2>3, <2>4 DEF Promise!Recv
<1>7. ASSUME Syncs(p, q, p1, q1)
      PROVE  Promise!SyncHead
  <2>1. q # <<>> /\ p1 = p /\ q1 = Promise!Without(q, Head(q)[1])
    BY <1>2, <1>7, PromiseNames DEF Syncs
  <2> QED
    BY <1>0, <2>1, PromiseNames DEF Promise!SyncHead
<1>8. p1 = p /\ q1 = q => UNCHANGED Promise!vars
  BY <1>0 DEF Promise!vars
<1> HIDE DEF p, q, p1, q1
<1> QED
  BY <1>3, <1>4, <1>5, <1>6, <1>7, <1>8 DEF ListStep, Promise!Next

\* The pointers implement the lists: whatever recv has done to the order of the
\* hash chains, a packet finds the newest match of its key; rules and syncs add to
\* and take from the two lists what the callers of the code expect.
THEOREM PointersImplementLists == Spec => ImplementsLists
<1>1. Init => Promise!Init
  <2> SUFFICES ASSUME Init PROVE Promise!Init
    OBVIOUS
  <2>1. Nodes(mem, All) = [l \in Lists |-> <<>>][All] /\ Nodes(mem, Active) = [l \in Lists |-> <<>>][Active]
    BY InitShape, ShapeLists, ListKinds
  <2>2. Nodes(mem, All) = <<>> /\ Nodes(mem, Active) = <<>>
    BY <2>1, ListKinds
  <2> QED
    BY <2>2 DEF Promise!Init
<1>2. LInv /\ [Next]_vars => [Promise!Next]_(Promise!vars)
  <2> SUFFICES ASSUME LInv, [Next]_vars PROVE [Promise!Next]_(Promise!vars)
    OBVIOUS
  <2>1. PICK Q : Shape(linked, active, mem, Q)
    BY DEF LInv
  <2>2. After(Q)
    BY <2>1, NextStep
  <2> QED
    BY <2>1, <2>2, PromiseStep DEF After
<1> QED
  BY <1>1, <1>2, LInvAlways, PTL DEF Spec, ImplementsLists, Promise!Spec

=============================================================================
