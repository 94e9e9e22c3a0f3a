--------------------------- MODULE SfeTcpProofs ---------------------------
(***************************************************************************)
(* The TCP windows of a connection, for every size of the sequence space,  *)
(* every place in it where the stream starts, and every segment length,    *)
(* window and stream that fit.                                             *)
(*                                                                         *)
(* The numbers wrap, so that they have no order.  Their positions in the   *)
(* stream, Pos, have one, and as long as everything alive spans less than  *)
(* half of the space, Diff of two numbers is the difference of their       *)
(* positions.  The invariants are stated in positions.                     *)
(***************************************************************************)
EXTENDS SfeTcp, FiniteSetTheorems, WellFoundedInduction, TLAPS

Half == M \div 2

\* How far behind the start of the stream a number is.
Pos(a) == (a - Start) % M

\* The number a stands x behind the start, however often the numbers wrapped.
At(a, x) == \E k \in Int : a = Start + x + k * M

-----------------------------------------------------------------------------
(* Serial numbers.                                                         *)

\* The sizes that the assumptions give.
LEMMA Space ==
  /\ M \in Nat /\ M > 0 /\ Len \in Nat /\ Len > 0 /\ MaxWindow \in Nat /\ MaxWindow > 0
  /\ AckWindow \in Nat /\ AckWindow > 0 /\ Stream \in Nat /\ Start \in Int
  /\ 0 <= Start /\ Start < M
  /\ Half \in Nat /\ 2 * Half <= M /\ Stream + 4 * MaxWindow + AckWindow < Half
<1>1. Half \in Int /\ 2 * Half <= M
  BY SpaceAssumption DEF Half
<1> QED
  BY <1>1, SpaceAssumption DEF Half

\* The only multiple of M between -M and M is 0.
LEMMA Multiple ==
  ASSUME NEW j \in Int, j * M < M, j * M > -M
  PROVE  j = 0
<1>1. CASE j >= 1
  <2>1. j * M >= 1 * M
    BY <1>1, Space
  <2> QED
    BY <2>1, Space
<1>2. CASE j <= -1
  <2>1. j * M <= (-1) * M
    BY <1>2, Space
  <2> QED
    BY <2>1, Space
<1> QED
  BY <1>1, <1>2

\* Quotient and remainder.
LEMMA ModQuotient ==
  ASSUME NEW x \in Int
  PROVE  /\ x % M \in 0 .. M - 1
         /\ x \div M \in Int
         /\ x = M * (x \div M) + (x % M)
<1>1. M \in Nat \ {0}
  BY Space
<1> QED
  BY <1>1

\* Multiplication distributes over the difference.
LEMMA Distributes ==
  ASSUME NEW a \in Int, NEW b \in Int, NEW c \in Int
  PROVE  (a - b) * c = a * c - b * c
  OBVIOUS

\* The remainder is the only number below M that differs by a multiple of M.
LEMMA ModIs ==
  ASSUME NEW r \in 0 .. M - 1, NEW k \in Int, NEW x \in Int, x = r + k * M
  PROVE  x % M = r
<1> DEFINE q == x \div M
           t == x % M
<1>0. M \in Int
  BY Space
<1>1. t \in 0 .. M - 1 /\ q \in Int /\ x = M * q + t
  BY ModQuotient
<1> HIDE DEF q, t
<1>2. (q - k) * M = q * M - k * M
  BY <1>0, <1>1, Distributes
<1>3. q * M \in Int /\ k * M \in Int /\ q * M = M * q
  BY <1>0, <1>1
<1>4. (q - k) * M = r - t
  BY <1>0, <1>1, <1>2, <1>3
<1>5. q - k = 0
  BY <1>0, <1>1, <1>4, Multiple
<1> QED
  BY <1>0, <1>1, <1>4, <1>5 DEF t

\* A difference that is small, up to a multiple of M, is what Diff computes.
LEMMA DiffIs ==
  ASSUME NEW a \in Int, NEW b \in Int, NEW k \in Int, NEW d \in Int, a - b = d + k * M,
         -Half <= d, d < Half
  PROVE  Diff(a, b) = d
<1> DEFINE h == Half
<1>1. M \in Int /\ M > 0 /\ h \in Int /\ 2 * h <= M
  BY Space
<1>2. k * M \in Int /\ a - b \in Int
  BY <1>1
<1> HIDE DEF h
<1>3. CASE d >= 0
  <2>1. (a - b) % M = d
    BY <1>1, <1>2, <1>3, ModIs DEF h
  <2> QED
    BY <2>1, <1>3 DEF Diff, Half
<1>4. CASE d < 0
  <2>1. (k - 1) * M = k * M - 1 * M
    BY <1>1, Distributes
  <2>2. a - b = (d + M) + (k - 1) * M
    BY <1>1, <1>2, <2>1
  <2>3. d + M \in 0 .. M - 1 /\ d + M >= h
    BY <1>1, <1>4 DEF h
  <2>4. (a - b) % M = d + M
    BY <1>2, <2>2, <2>3, ModIs
  <2> QED
    BY <1>1, <2>3, <2>4 DEF Diff, h, Half
<1> QED
  BY <1>3, <1>4

\* Diff of two numbers is the difference of where they stand.
LEMMA AtDiff ==
  ASSUME NEW a \in Int, NEW b \in Int, NEW x \in Int, NEW y \in Int, At(a, x), At(b, y),
         -Half <= x - y, x - y < Half
  PROVE  Diff(a, b) = x - y
<1>1. PICK i \in Int : a = Start + x + i * M
  BY DEF At
<1>2. PICK j \in Int : b = Start + y + j * M
  BY DEF At
<1>3. (i - j) * M = i * M - j * M /\ i * M \in Int /\ j * M \in Int
  BY Space, Distributes
<1>4. a - b = (x - y) + (i - j) * M
  BY <1>1, <1>2, <1>3, Space
<1> QED
  BY <1>4, DiffIs

\* Adding to a number moves it.
LEMMA AtShift ==
  ASSUME NEW a \in Int, NEW x \in Int, At(a, x), NEW n \in Int
  PROVE  At(a + n, x + n) /\ Plus(a, n) \in 0 .. M - 1 /\ At(Plus(a, n), x + n)
<1>1. PICK i \in Int : a = Start + x + i * M
  BY DEF At
<1>2. i * M \in Int /\ Start \in Int
  BY Space
<1>3. a + n = Start + (x + n) + i * M
  BY <1>1, <1>2
<1>4. /\ (a + n) % M \in 0 .. M - 1 /\ (a + n) \div M \in Int
      /\ a + n = M * ((a + n) \div M) + ((a + n) % M)
  BY ModQuotient
<1> DEFINE q == (a + n) \div M
           r == (a + n) % M
<1> HIDE DEF q, r
<1>5. (i - q) * M = i * M - q * M /\ M * q = q * M /\ q * M \in Int
  BY <1>4, Space, Distributes DEF q
<1>6. r = Start + (x + n) + (i - q) * M
  BY <1>2, <1>3, <1>4, <1>5 DEF q, r
<1> QED
  BY <1>3, <1>4, <1>6 DEF At, Plus, q, r

\* Pos says where a number stands.
LEMMA PosAt ==
  ASSUME NEW a \in Int
  PROVE  Pos(a) \in 0 .. M - 1 /\ At(a, Pos(a))
<1>1. a - Start \in Int /\ Start \in Int
  BY Space
<1> DEFINE q == (a - Start) \div M
<1>2. Pos(a) \in 0 .. M - 1 /\ q \in Int /\ a - Start = M * q + Pos(a)
  BY <1>1, ModQuotient DEF Pos
<1> HIDE DEF q
<1>3. M * q = q * M /\ q * M \in Int
  BY <1>2, Space
<1>4. a = Start + Pos(a) + q * M
  BY <1>1, <1>2, <1>3
<1> QED
  BY <1>2, <1>4 DEF At

\* A number stands at one position only.
LEMMA AtPos ==
  ASSUME NEW a \in Int, NEW x \in 0 .. M - 1, At(a, x)
  PROVE  Pos(a) = x
<1>1. PICK i \in Int : a = Start + x + i * M
  BY DEF At
<1>2. a - Start \in Int /\ i * M \in Int /\ Start \in Int
  BY Space
<1>3. a - Start = x + i * M
  BY <1>1, <1>2
<1> QED
  BY <1>2, <1>3, ModIs DEF Pos

\* Pos of a number.
LEMMA PosType ==
  ASSUME NEW a \in Int
  PROVE  Pos(a) \in Nat /\ Pos(a) < M
  BY PosAt, Space

\* The stream starts at 0.
LEMMA PosStart == Pos(Start) = 0
<1>1. At(Start, 0)
  <2>1. Start = Start + 0 + 0 * M
    BY Space
  <2> QED
    BY <2>1 DEF At
<1> QED
  BY <1>1, AtPos, Space

\* Two numbers of the sequence space with one position are the same.
LEMMA PosUnique ==
  ASSUME NEW a \in Seqs, NEW b \in Seqs, Pos(a) = Pos(b)
  PROVE  a = b
<1>0. a \in Int /\ b \in Int /\ a \in 0 .. M - 1 /\ b \in 0 .. M - 1
  BY Space DEF Seqs
<1>1. PICK i \in Int : a = Start + Pos(a) + i * M
  BY <1>0, PosAt DEF At
<1>2. PICK j \in Int : b = Start + Pos(b) + j * M
  BY <1>0, PosAt DEF At
<1>3. (i - j) * M = i * M - j * M /\ i * M \in Int /\ j * M \in Int
  BY Space, Distributes
<1>4. Pos(a) \in Int /\ Start \in Int
  BY <1>0, PosType, Space
<1>5. a - b = (i - j) * M
  BY <1>1, <1>2, <1>3, <1>4
<1>6. i - j = 0
  BY <1>0, <1>5, Multiple, Space
<1> QED
  BY <1>1, <1>2, <1>6

\* Diff of two numbers in the stream is the difference of their positions.
LEMMA DiffPos ==
  ASSUME NEW a \in Int, NEW b \in Int, Pos(a) < Half, Pos(b) < Half
  PROVE  Diff(a, b) = Pos(a) - Pos(b)
<1>1. /\ Pos(a) \in Nat /\ At(a, Pos(a))
      /\ Pos(b) \in Nat /\ At(b, Pos(b))
  BY PosAt, PosType
<1>2. -Half <= Pos(a) - Pos(b) /\ Pos(a) - Pos(b) < Half
  BY <1>1, Space
<1> QED
  BY <1>1, <1>2, AtDiff

\* Plus moves a number along the stream.
LEMMA PlusPos ==
  ASSUME NEW a \in Int, NEW n \in Int, 0 <= Pos(a) + n, Pos(a) + n < M
  PROVE  Plus(a, n) \in Seqs /\ Pos(Plus(a, n)) = Pos(a) + n
<1>1. Pos(a) \in Int /\ At(a, Pos(a))
  BY PosAt, PosType
<1>2. Plus(a, n) \in 0 .. M - 1 /\ At(Plus(a, n), Pos(a) + n)
  BY <1>1, AtShift
<1>3. Plus(a, n) \in Int /\ Pos(a) + n \in 0 .. M - 1
  BY <1>1, <1>2, Space
<1> QED
  BY <1>2, <1>3, AtPos DEF Seqs

\* Plus stays in the sequence space.
LEMMA PlusType ==
  ASSUME NEW a \in Int, NEW n \in Int
  PROVE  Plus(a, n) \in Seqs
<1>1. a + n \in Int
  OBVIOUS
<1> QED
  BY <1>1, ModQuotient DEF Plus, Seqs

\* Later is one of the two, and of two numbers in the stream the one that is further.
LEMMA LaterPos ==
  ASSUME NEW a \in Seqs, NEW b \in Seqs
  PROVE  /\ Later(a, b) \in Seqs
         /\ Pos(a) < Half /\ Pos(b) < Half =>
              Pos(Later(a, b)) = IF Pos(a) >= Pos(b) THEN Pos(a) ELSE Pos(b)
<1>1. a \in Int /\ b \in Int
  BY Space DEF Seqs
<1>2. Pos(a) \in Nat /\ Pos(b) \in Nat
  BY <1>1, PosType
<1>3. CASE Pos(a) < Half /\ Pos(b) < Half
  <2>1. Diff(a, b) = Pos(a) - Pos(b)
    BY <1>1, <1>3, DiffPos
  <2> QED
    BY <1>2, <1>3, <2>1 DEF Later
<1> QED
  BY <1>3 DEF Later

\* Numbers of the space that are less than half of it apart, such as those of the
\* reply direction, which do not move.
LEMMA DiffNear ==
  ASSUME NEW a \in Int, NEW b \in Int, -Half <= a - b, a - b < Half
  PROVE  Diff(a, b) = a - b
<1>1. 0 \in Int /\ a - b \in Int /\ a - b = (a - b) + 0 * M
  BY Space
<1> QED
  BY <1>1, DiffIs

-----------------------------------------------------------------------------
(* Largest elements.                                                       *)

\* A bounded set of naturals has a largest element, and Max is it.
LEMMA MaxInSet ==
  ASSUME NEW S \in SUBSET Nat, S # {}, NEW b \in Nat, \A x \in S : x <= b
  PROVE  Max(S) \in S /\ \A x \in S : x <= Max(S)
<1> DEFINE T == {n \in Nat : b - n \in S}
<1>1. T \subseteq Nat /\ T # {}
  <2>1. PICK x \in S : TRUE
    OBVIOUS
  <2>2. b - x \in Nat /\ b - (b - x) = x
    BY <2>1
  <2>3. b - x \in T
    BY <2>1, <2>2
  <2> QED
    BY <2>3
<1> DEFINE R == {ss \in Nat \X Nat : ss[1] < ss[2]}
<1>2. PICK m \in T : \A n \in T : <<n, m>> \notin R
  <2>1. IsWellFoundedOn(R, Nat)
    BY NatLessThanWellFounded DEF OpToRel
  <2> HIDE DEF T, R
  <2> QED
    BY <1>1, <2>1, WFMin
<1>3. ASSUME NEW n \in T PROVE m <= n
  <2>1. n \in Nat /\ m \in Nat
    BY <1>1
  <2>2. <<n, m>> \in Nat \X Nat /\ ~(n < m)
    BY <1>2, <2>1
  <2> QED
    BY <2>1, <2>2
<1>4. b - m \in S /\ \A x \in S : b - m >= x
  <2>1. ASSUME NEW x \in S PROVE b - m >= x
    <3>1. b - x \in T /\ x \in Nat /\ m \in Nat
      BY <1>1
    <3>2. m <= b - x
      BY <1>3, <3>1
    <3> QED
      BY <3>1, <3>2
  <2> QED
    BY <1>2, <2>1
<1> HIDE DEF T
<1>5. \E x \in S : \A y \in S : x >= y
  BY <1>4
<1>6. Max(S) \in S /\ \A y \in S : Max(S) >= y
  BY <1>5 DEF Max
<1> QED
  BY <1>6

\* The larger of two numbers.
LEMMA MaxTwo ==
  ASSUME NEW a \in Nat, NEW b \in Nat
  PROVE  Max({a, b}) = IF a >= b THEN a ELSE b
<1>1. Max({a, b}) \in {a, b} /\ \A x \in {a, b} : x <= Max({a, b})
  BY MaxInSet, a + b \in Nat, \A x \in {a, b} : x <= a + b
<1> QED
  BY <1>1

-----------------------------------------------------------------------------
(* The endpoints and the segments between them.                            *)

\* The client's data ends at multiples of Len.
Steps == {k * Len : k \in Nat}

\* A number at which a segment of the client ends, or the start of the stream.
Sent(a) == a \in Seqs /\ Pos(a) \in Steps /\ Pos(a) <= Pos(client.nxt)

EndpointTypes ==
    /\ client \in [una : Seqs, nxt : Seqs, right : Seqs]
    /\ server \in [rcv : Seqs, early : SUBSET Seqs, dups : SUBSET Seqs, right : Seqs]

\* What the endpoints know of each other: acknowledged, received, sent, allowed
\* by the window the client knows, allowed by the window the server knows.
EndpointsAgree ==
    /\ EndpointTypes
    /\ Sent(client.una) /\ Sent(client.nxt) /\ Sent(server.rcv)
    /\ Pos(client.nxt) <= Stream
    /\ Pos(client.una) <= Pos(server.rcv)
    /\ Pos(client.nxt) <= Pos(client.right)
    /\ Pos(client.right) <= Pos(server.right)
    /\ Pos(server.right) <= Pos(server.rcv) + MaxWindow
    /\ \A e \in server.early : Sent(e) /\ Pos(server.rcv) < Pos(e)
    /\ \A e \in server.dups : Sent(e) /\ Dsack

\* The segments that the client may have sent.
Data(p) ==
    /\ p \in Segments
    /\ p = Segment(p.seq)
    /\ Sent(End(p))
    /\ Pos(End(p)) = Pos(p.seq) + Len

\* The right edge of the window that an acknowledgement announces.
Right(p) == Pos(p.ack) + p.win

\* The segments that the server may have sent.
Ack(p) ==
    /\ p \in Segments
    /\ p.dir = "reply" /\ p.seq = 0 /\ p.len = 0
    /\ Sent(p.ack)
    /\ Pos(p.ack) <= Pos(server.rcv)
    /\ p.win <= MaxWindow
    /\ Right(p) <= Pos(server.right)
    /\ \A e \in p.sack : /\ Sent(e)
                         /\ Dsack \/ (Pos(p.ack) < Pos(e) /\ Pos(e) <= Pos(p.ack) + MaxWindow)

Legit(p) == Data(p) \/ Ack(p)

\* The segments on their way, before the router and inside it.
Travelling ==
    wire \cup {s.pkt : s \in slow} \cup ({f.pkt : f \in flushes} \ {None})

\* Nothing moves back.
Forward ==
    /\ Pos(client.una) <= Pos(client.una)'
    /\ Pos(client.nxt) <= Pos(client.nxt)'
    /\ Pos(client.right) <= Pos(client.right)'
    /\ Pos(server.rcv) <= Pos(server.rcv)'
    /\ Pos(server.right) <= Pos(server.right)'

USE DEF Seqs

\* Data that is sent ends a segment or more after data that ends before it.
LEMMA NextStep ==
  ASSUME NEW x \in Steps, NEW y \in Steps, x < y
  PROVE  x + Len <= y
<1>1. PICK j \in Nat : x = j * Len
  BY DEF Steps
<1>2. PICK k \in Nat : y = k * Len
  BY DEF Steps
<1>3. j < k
  <2>1. CASE j >= k
    <3>1. PICK n \in Nat : j = k + n
      BY <2>1, j - k \in Nat, j = k + (j - k)
    <3>2. j * Len = k * Len + n * Len /\ n * Len \in Nat /\ k * Len \in Nat
      BY <3>1, Space
    <3> QED
      BY <1>1, <1>2, <3>2
  <2> QED
    BY <2>1
<1>4. PICK n \in Nat : k = j + 1 + n
  BY <1>3, k - j - 1 \in Nat, k = j + 1 + (k - j - 1)
<1>5. k * Len = j * Len + Len + n * Len /\ n * Len \in Nat /\ j * Len \in Nat
  BY <1>4, Space
<1> QED
  BY <1>1, <1>2, <1>5, Space

LEMMA StepPlus ==
  ASSUME NEW x \in Steps
  PROVE  x + Len \in Steps
<1>1. PICK j \in Nat : x = j * Len
  BY DEF Steps
<1>2. x + Len = (j + 1) * Len /\ j + 1 \in Nat
  BY <1>1, Space
<1> QED
  BY <1>2 DEF Steps

LEMMA StepZero == 0 \in Steps
<1>1. 0 = 0 * Len /\ 0 \in Nat
  BY Space
<1> QED
  BY <1>1 DEF Steps

\* Every number that the endpoints know is less than half of the space from the
\* start of the stream.
LEMMA EndpointBounds ==
  ASSUME EndpointsAgree
  PROVE  /\ \A a \in {client.una, client.nxt, client.right, server.rcv, server.right} :
               /\ a \in Seqs /\ Pos(a) \in Nat
               /\ Pos(a) <= Stream + MaxWindow /\ Pos(a) < Half
         /\ \A a \in Seqs : Sent(a) => /\ Pos(a) \in Nat /\ Pos(a) <= Stream
                                       /\ Pos(a) < Half
         /\ Pos(server.rcv) <= Pos(client.nxt)
<1>1. \A a \in Seqs : a \in Int /\ Pos(a) \in Nat
  BY PosType, Space
<1>2. {client.una, client.nxt, client.right, server.rcv, server.right} \subseteq Seqs
  BY DEF EndpointsAgree, EndpointTypes
<1>3. Pos(server.rcv) <= Pos(client.nxt) /\ Pos(client.nxt) <= Stream
  BY DEF EndpointsAgree, Sent
<1>4. \A a \in Seqs : Sent(a) => Pos(a) <= Stream
  BY <1>1, <1>2, <1>3, Space DEF Sent
<1> QED
  BY <1>1, <1>2, <1>3, <1>4, Space DEF EndpointsAgree

\* A number at which data ends stays one.
LEMMA SentForward ==
  ASSUME NEW a, Sent(a), client.nxt \in Seqs, client'.nxt \in Seqs,
         Pos(client.nxt) <= Pos(client.nxt)'
  PROVE  Sent(a)'
<1>1. Pos(client.nxt) \in Nat /\ Pos(client.nxt)' \in Nat /\ Pos(a) \in Nat
  BY PosType, Space DEF Sent, Pos
<1> QED
  BY <1>1 DEF Sent, Pos

\* What has been acknowledged in order and what is ahead of it are one stream: the
\* new edge is the old one or the end of a segment that has arrived.
LEMMA ReachedEdge ==
  ASSUME NEW early \in SUBSET Seqs, NEW rcv \in Seqs, NEW S,
         S = {n \in 0 .. Cardinality(early) : \A k \in 1 .. n : Plus(rcv, k * Len) \in early}
  PROVE  Plus(rcv, Len * Max(S)) \in {rcv} \cup early
<1>1. Cardinality(early) \in Nat
  <2>1. IsFiniteSet(Seqs)
    BY FS_Interval, Space
  <2> QED
    BY <2>1, FS_Subset, FS_CardinalityType
<1>2. S \in SUBSET Nat /\ 0 \in S /\ \A x \in S : x <= Cardinality(early)
  BY <1>1
<1>3. Max(S) \in S
  BY <1>1, <1>2, MaxInSet
<1>4. PICK n \in Nat : n = Max(S) /\ n \in S
  BY <1>2, <1>3
<1>5. CASE n = 0
  <2>1. Len * n = 0 /\ rcv + 0 = rcv + 0 * M /\ rcv + 0 = rcv
    BY <1>5, Space
  <2>2. rcv % M = rcv
    BY <2>1, ModIs, Space
  <2> QED
    BY <1>4, <2>1, <2>2, Space DEF Plus
<1>6. CASE n > 0
  <2>1. n \in 1 .. n /\ Len * n = n * Len
    BY <1>4, <1>6, Space
  <2> QED
    BY <1>4, <2>1
<1> QED
  BY <1>4, <1>5, <1>6

\* What the server does with a segment of the client.
LEMMA ReceiveDataSays ==
  ASSUME EndpointsAgree, NEW p, Data(p), ReceiveData(p)
  PROVE  /\ client' = client
         /\ \/ /\ Pos(server.rcv) < Pos(End(p))
               /\ \E r \in {server.rcv} \cup server.early \cup {End(p)} :
                    /\ Pos(server.rcv) <= Pos(r)
                    /\ server' = [server EXCEPT !.rcv = r,
                                    !.early = {e \in server.early \cup {End(p)} : Pos(r) < Pos(e)}]
            \/ /\ Pos(End(p)) <= Pos(server.rcv)
               /\ server' = [server EXCEPT !.dups = IF Dsack THEN {End(p)} ELSE {}]
<1> DEFINE early == server.early \cup {End(p)}
           S == {n \in 0 .. Cardinality(early) :
                    \A k \in 1 .. n : Plus(server.rcv, k * Len) \in early}
           r == Plus(server.rcv, Len * Max(S))
<1>1. /\ server.rcv \in Seqs /\ server.early \subseteq Seqs
      /\ Sent(End(p)) /\ End(p) \in Seqs /\ \A e \in server.early : Sent(e)
  BY DEF EndpointsAgree, EndpointTypes, Data, Sent
<1>2. /\ Pos(server.rcv) \in Nat /\ Pos(server.rcv) < Half
      /\ \A e \in early : e \in Int /\ Pos(e) \in Nat /\ Pos(e) < Half
  BY <1>1, EndpointBounds, Space
<1>3. r \in {server.rcv} \cup early
  BY <1>1, ReachedEdge
<1>4. \A e \in early : Pos(server.rcv) < Pos(e) \/ e = End(p)
  BY DEF EndpointsAgree
<1>5. Diff(End(p), server.rcv) = Pos(End(p)) - Pos(server.rcv)
  BY <1>1, <1>2, DiffPos, Space
<1>6. /\ client' = client
      /\ server' = IF Diff(End(p), server.rcv) > 0
                   THEN [server EXCEPT !.rcv = r, !.early = {e \in early : Diff(e, r) > 0}]
                   ELSE [server EXCEPT !.dups = IF Dsack THEN {End(p)} ELSE {}]
  BY DEF ReceiveData
<1>7. CASE Pos(server.rcv) < Pos(End(p))
  <2>1. Pos(server.rcv) <= Pos(r) /\ Pos(r) \in Nat /\ Pos(r) < Half /\ r \in Int
    BY <1>1, <1>2, <1>3, <1>4, <1>7, Space
  <2> HIDE DEF r
  <2>2. \A e \in early : Diff(e, r) = Pos(e) - Pos(r)
    BY <1>2, <2>1, DiffPos
  <2>3. {e \in early : Diff(e, r) > 0} = {e \in early : Pos(r) < Pos(e)}
    BY <1>2, <2>1, <2>2
  <2>4. Diff(End(p), server.rcv) > 0
    BY <1>1, <1>2, <1>5, <1>7
  <2> QED
    BY <1>3, <1>6, <1>7, <2>1, <2>3, <2>4
<1>8. CASE Pos(End(p)) <= Pos(server.rcv)
  <2>1. ~(Diff(End(p), server.rcv) > 0)
    BY <1>1, <1>2, <1>5, <1>8
  <2> QED
    BY <1>6, <1>8, <2>1
<1>9. End(p) \in early /\ Pos(End(p)) \in Nat
  BY <1>2
<1>10. Pos(server.rcv) < Pos(End(p)) \/ Pos(End(p)) <= Pos(server.rcv)
  BY <1>2, <1>9
<1> QED
  BY <1>7, <1>8, <1>10, Zenon

\* What the client does with an acknowledgement.
LEMMA ReceiveAckSays ==
  ASSUME EndpointsAgree, NEW p, Ack(p), ReceiveAck(p)
  PROVE  /\ server' = server
         /\ client' \in [una : Seqs, nxt : Seqs, right : Seqs]
         /\ client'.una \in {client.una, p.ack}
         /\ client'.nxt = client.nxt
         /\ Pos(client.una)' = IF Pos(client.una) <= Pos(p.ack) THEN Pos(p.ack) ELSE Pos(client.una)
         /\ Pos(client.right)' = IF Pos(client.right) <= Right(p) THEN Right(p) ELSE Pos(client.right)
<1>1. /\ client \in [una : Seqs, nxt : Seqs, right : Seqs]
      /\ server.rcv \in Seqs
  BY DEF EndpointsAgree, EndpointTypes
<1>2. p.ack \in Seqs /\ p.win \in Seqs /\ Sent(p.ack)
  BY DEF Ack, Segments
<1>3. /\ \A a \in {client.una, client.right, p.ack} : a \in Seqs /\ Pos(a) \in Nat /\ Pos(a) < Half
      /\ Right(p) \in Nat /\ Right(p) < Half /\ Half < M
  BY <1>2, EndpointBounds, Space DEF Ack, Right
<1> DEFINE e == Plus(p.ack, p.win)
           una == Later(p.ack, client.una)
           right == Later(e, client.right)
<1>4. e \in Seqs /\ Pos(e) = Right(p)
  BY <1>2, <1>3, PlusPos, Space DEF Right
<1>5. /\ client' = [client EXCEPT !.una = una, !.right = right]
      /\ server' = server
  BY DEF ReceiveAck
<1> HIDE DEF e
<1>6. /\ una \in Seqs /\ una \in {client.una, p.ack}
      /\ Pos(una) = IF Pos(p.ack) >= Pos(client.una) THEN Pos(p.ack) ELSE Pos(client.una)
  BY <1>1, <1>2, <1>3, LaterPos DEF Later
<1>7. /\ right \in Seqs
      /\ Pos(right) = IF Pos(e) >= Pos(client.right) THEN Pos(e) ELSE Pos(client.right)
  BY <1>1, <1>3, <1>4, LaterPos
<1> HIDE DEF una, right
<1>8. /\ client' \in [una : Seqs, nxt : Seqs, right : Seqs]
      /\ client'.una = una /\ client'.nxt = client.nxt /\ client'.right = right
  BY <1>1, <1>5, <1>6, <1>7
<1>9. Pos(client.una)' = Pos(client'.una) /\ Pos(client.right)' = Pos(client'.right)
  BY DEF Pos
<1> QED
  BY <1>3, <1>4, <1>5, <1>6, <1>7, <1>8, <1>9

\* The endpoints go on agreeing when the server receives a segment of the client,
LEMMA DataMoves ==
  ASSUME EndpointsAgree, NEW p, Data(p), ReceiveData(p)
  PROVE  EndpointsAgree' /\ Forward
<1>1. EndpointTypes /\ Sent(End(p)) /\ client' = client
  BY ReceiveDataSays DEF EndpointsAgree, Data
<1>2. /\ \A a \in {client.una, client.nxt, client.right, server.rcv, server.right} :
            Pos(a) \in Nat
      /\ Pos(client.una)' = Pos(client.una)
      /\ Pos(client.nxt)' = Pos(client.nxt)
      /\ Pos(client.right)' = Pos(client.right)
      /\ Pos(server.rcv)' = Pos(server'.rcv)
      /\ Pos(server.right)' = Pos(server'.right)
  BY <1>1, EndpointBounds DEF Pos
<1>3. /\ Sent(client.una) /\ Sent(client.nxt) /\ Sent(server.rcv)
      /\ Pos(client.nxt) <= Stream
      /\ Pos(client.una) <= Pos(server.rcv)
      /\ Pos(client.nxt) <= Pos(client.right)
      /\ Pos(client.right) <= Pos(server.right)
      /\ Pos(server.right) <= Pos(server.rcv) + MaxWindow
      /\ \A e \in server.early : Sent(e) /\ Pos(server.rcv) < Pos(e)
      /\ \A e \in server.dups : Sent(e) /\ Dsack
  BY DEF EndpointsAgree
<1>4. \A a \in Seqs : /\ Pos(a) \in Nat
                      /\ Sent(a) <=> (Pos(a) \in Steps /\ Pos(a) <= Pos(client.nxt))
                      /\ Sent(a)' <=> (Pos(a) \in Steps /\ Pos(a) <= Pos(client.nxt))
  BY <1>1, PosType, Space DEF Sent, Pos
<1>5. EndpointsAgree' <=>
        /\ EndpointTypes'
        /\ Sent(client.una)' /\ Sent(client.nxt)' /\ Sent(server.rcv)'
        /\ Pos(client.nxt)' <= Stream
        /\ Pos(client.una)' <= Pos(server.rcv)'
        /\ Pos(client.nxt)' <= Pos(client.right)'
        /\ Pos(client.right)' <= Pos(server.right)'
        /\ Pos(server.right)' <= Pos(server.rcv)' + MaxWindow
        /\ \A e \in server'.early : Sent(e)' /\ Pos(server.rcv)' < Pos(e)
        /\ \A e \in server'.dups : Sent(e)' /\ Dsack
  BY DEF EndpointsAgree, Pos
<1>6. Sent(client.una)' /\ Sent(client.nxt)'
  BY <1>1, <1>3 DEF Sent, Pos
<1>7. Sent(server.rcv)' <=> (server'.rcv \in Seqs /\ Pos(server'.rcv) \in Steps
                                 /\ Pos(server'.rcv) <= Pos(client.nxt))
  BY <1>1 DEF Sent, Pos
<1>8. End(p) \in Seqs /\ Pos(End(p)) \in Nat /\ Pos(server.rcv) \in Nat
  BY <1>1, <1>2, <1>4 DEF Sent
<1>9. CASE Pos(server.rcv) < Pos(End(p))
  <2>1. PICK r \in {server.rcv} \cup server.early \cup {End(p)} :
          /\ Pos(server.rcv) <= Pos(r)
          /\ server' = [server EXCEPT !.rcv = r,
                          !.early = {e \in server.early \cup {End(p)} : Pos(r) < Pos(e)}]
    <3>1. ~(Pos(End(p)) <= Pos(server.rcv))
      BY <1>9, <1>8
    <3> QED
      BY <3>1, ReceiveDataSays, Zenon
  <2>2. Sent(r) /\ r \in Seqs /\ Pos(r) \in Nat
    BY <1>1, <1>3, <1>4, <2>1 DEF Sent
  <2>3. /\ server'.rcv = r /\ server'.right = server.right /\ server'.dups = server.dups
        /\ server'.early = {e \in server.early \cup {End(p)} : Pos(r) < Pos(e)}
    BY <1>1, <2>1 DEF EndpointTypes
  <2>8. EndpointTypes'
    <3>1. End(p) \in Seqs
      BY <1>1 DEF Sent
    <3>2. {e \in server.early \cup {End(p)} : Pos(r) < Pos(e)} \in SUBSET Seqs
      BY <1>1, <3>1 DEF EndpointTypes
    <3> QED
      BY <1>1, <2>1, <2>2, <3>2 DEF EndpointTypes
  <2>4. \A e \in server'.early : Sent(e)' /\ Pos(server.rcv)' < Pos(e)
    <3>1. ASSUME NEW e \in server'.early PROVE Sent(e)' /\ Pos(server.rcv)' < Pos(e)
      <4>1. Sent(e) /\ e \in Seqs /\ Pos(r) < Pos(e)
        BY <1>1, <1>3, <2>3 DEF Sent
      <4> QED
        BY <1>2, <1>4, <2>3, <4>1
    <3> QED
      BY <3>1
  <2>5. \A e \in server'.dups : Sent(e)' /\ Dsack
    BY <1>1, <1>3, <1>4, <2>3 DEF EndpointTypes
  <2>6. Sent(server.rcv)'
    BY <1>4, <1>7, <2>2, <2>3
  <2>7. EndpointsAgree'
    BY <1>2, <1>3, <1>5, <1>6, <2>1, <2>2, <2>3, <2>4, <2>5, <2>6, <2>8, Space
  <2> QED
    BY <1>2, <2>1, <2>2, <2>3, <2>7 DEF Forward
<1>10. CASE Pos(End(p)) <= Pos(server.rcv)
  <2>1. server' = [server EXCEPT !.dups = IF Dsack THEN {End(p)} ELSE {}]
    <3>1. ~(Pos(server.rcv) < Pos(End(p)))
      BY <1>10, <1>8
    <3> QED
      BY <3>1, ReceiveDataSays, Zenon
  <2>2. /\ server'.rcv = server.rcv /\ server'.right = server.right
        /\ server'.early = server.early
        /\ server'.dups = IF Dsack THEN {End(p)} ELSE {}
        /\ End(p) \in Seqs
        /\ EndpointTypes'
    BY <1>1, <1>8, <2>1 DEF EndpointTypes
  <2>3. \A e \in server'.early : Sent(e)' /\ Pos(server.rcv)' < Pos(e)
    BY <1>1, <1>2, <1>3, <1>4, <2>2 DEF EndpointTypes
  <2>4. \A e \in server'.dups : Sent(e)' /\ Dsack
    BY <1>1, <1>4, <2>2
  <2>5. Sent(server.rcv)'
    BY <1>3, <1>7, <2>2 DEF Sent
  <2>6. EndpointsAgree'
    BY <1>2, <1>3, <1>5, <1>6, <2>2, <2>3, <2>4, <2>5
  <2> QED
    BY <1>2, <2>2, <2>6 DEF Forward
<1>11. Pos(server.rcv) < Pos(End(p)) \/ Pos(End(p)) <= Pos(server.rcv)
  BY <1>2, <1>8, <1>4
<1> QED
  BY <1>9, <1>10, <1>11

\* and when the client receives an acknowledgement.
LEMMA AckMoves ==
  ASSUME EndpointsAgree, NEW p, Ack(p), ReceiveAck(p)
  PROVE  EndpointsAgree' /\ Forward
<1>1. /\ server' = server
      /\ client' \in [una : Seqs, nxt : Seqs, right : Seqs]
      /\ client'.una \in {client.una, p.ack}
      /\ client'.nxt = client.nxt
      /\ Pos(client.una)' = IF Pos(client.una) <= Pos(p.ack) THEN Pos(p.ack) ELSE Pos(client.una)
      /\ Pos(client.right)' = IF Pos(client.right) <= Right(p) THEN Right(p) ELSE Pos(client.right)
  BY ReceiveAckSays
<1>2. /\ EndpointTypes
      /\ Sent(client.una) /\ Sent(client.nxt) /\ Sent(server.rcv)
      /\ Pos(client.nxt) <= Stream
      /\ Pos(client.una) <= Pos(server.rcv)
      /\ Pos(client.nxt) <= Pos(client.right)
      /\ Pos(client.right) <= Pos(server.right)
      /\ Pos(server.right) <= Pos(server.rcv) + MaxWindow
      /\ \A e \in server.early : Sent(e) /\ Pos(server.rcv) < Pos(e)
      /\ \A e \in server.dups : Sent(e) /\ Dsack
  BY DEF EndpointsAgree
<1>3. /\ Sent(p.ack) /\ Pos(p.ack) <= Pos(server.rcv)
      /\ p.ack \in Seqs /\ p.win \in Nat /\ Right(p) <= Pos(server.right)
  BY Space DEF Ack, Segments
<1>4. /\ \A a \in {client.una, client.nxt, client.right, server.rcv, server.right, p.ack} :
            Pos(a) \in Nat
      /\ Right(p) \in Nat
      /\ Pos(client.nxt)' = Pos(client.nxt)
      /\ Pos(server.rcv)' = Pos(server.rcv)
      /\ Pos(server.right)' = Pos(server.right)
      /\ Pos(client.una)' = Pos(client'.una)
  BY <1>1, <1>3, EndpointBounds DEF Pos, Right
<1>5. /\ Pos(client.una) <= Pos(client.una)' /\ Pos(client.una)' <= Pos(server.rcv)'
      /\ Pos(client.right) <= Pos(client.right)' /\ Pos(client.right)' <= Pos(server.right)'
      /\ Pos(client.nxt)' <= Pos(client.right)'
      /\ Pos(server.right)' <= Pos(server.rcv)' + MaxWindow
      /\ Pos(client.nxt)' <= Stream
  BY <1>1, <1>2, <1>3, <1>4, Space
<1>6. \A a \in Seqs : Sent(a)' <=> Sent(a)
  BY <1>1 DEF Sent, Pos
<1>7. Sent(client.una)' /\ Sent(client.nxt)' /\ Sent(server.rcv)'
  BY <1>1, <1>2, <1>3 DEF Sent, Pos
<1>8. EndpointTypes'
  BY <1>1, <1>2 DEF EndpointTypes
<1>9. /\ \A e \in server'.early : Sent(e)' /\ Pos(server.rcv)' < Pos(e)
      /\ \A e \in server'.dups : Sent(e)' /\ Dsack
  BY <1>1, <1>2, <1>4, <1>6 DEF EndpointTypes
<1>10. EndpointsAgree'
  BY <1>5, <1>7, <1>8, <1>9 DEF EndpointsAgree, Pos
<1> QED
  BY <1>4, <1>5, <1>10 DEF Forward

\* Nothing the endpoints did makes a segment on its way impossible.
LEMMA LegitForward ==
  ASSUME EndpointsAgree, EndpointsAgree', Forward, NEW p, Legit(p)
  PROVE  Legit(p)'
<1>1. /\ client.nxt \in Seqs /\ client'.nxt \in Seqs /\ Pos(client.nxt) <= Pos(client.nxt)'
      /\ server.rcv \in Seqs /\ server'.rcv \in Seqs /\ Pos(server.rcv) <= Pos(server.rcv)'
      /\ server.right \in Seqs /\ server'.right \in Seqs /\ Pos(server.right) <= Pos(server.right)'
  BY DEF EndpointsAgree, EndpointTypes, Forward
<1>2. \A a : Sent(a) => Sent(a)'
  BY <1>1, SentForward
<1>3. /\ Pos(server.rcv) \in Nat /\ Pos(server.rcv)' \in Nat
      /\ Pos(server.right) \in Nat /\ Pos(server.right)' \in Nat
  BY <1>1, PosType, Space DEF Pos
<1>4. CASE Data(p)
  BY <1>2, <1>4 DEF Data, Legit, Pos, End, Plus, Segment, Segments
<1>5. CASE Ack(p)
  <2>1. /\ p \in Segments /\ p.dir = "reply" /\ p.seq = 0 /\ p.len = 0
        /\ Sent(p.ack)' /\ Pos(p.ack) <= Pos(server.rcv) /\ p.win <= MaxWindow
        /\ Right(p) <= Pos(server.right)
        /\ \A e \in p.sack : /\ Sent(e)'
                             /\ Dsack \/ (Pos(p.ack) < Pos(e) /\ Pos(e) <= Pos(p.ack) + MaxWindow)
    BY <1>2, <1>5 DEF Ack
  <2>2. Pos(p.ack) \in Nat /\ Right(p) \in Nat
    BY <2>1, PosType, Space DEF Right, Segments
  <2>3. Pos(p.ack) <= Pos(server.rcv)' /\ Right(p) <= Pos(server.right)'
    BY <1>1, <1>3, <2>1, <2>2
  <2> QED
    BY <2>1, <2>3 DEF Legit, Ack, Pos, Right, Segments
<1> QED
  BY <1>4, <1>5 DEF Legit

\* A step that changes nothing of the endpoints changes nothing they agree on.
LEMMA NothingMoves ==
  ASSUME EndpointsAgree, UNCHANGED <<client, server>>
  PROVE  EndpointsAgree' /\ Forward
<1>1. \A a \in {client.una, client.nxt, client.right, server.rcv, server.right} : Pos(a) \in Nat
  BY EndpointBounds
<1>2. EndpointsAgree'
  BY DEF EndpointsAgree, EndpointTypes, Sent, Pos
<1> QED
  BY <1>1, <1>2 DEF Forward, Pos

\* A segment that leaves the router finds endpoints that agree, and leaves them so.
LEMMA LeaveMoves ==
  ASSUME EndpointsAgree, NEW p, Legit(p), Leave(p)
  PROVE  EndpointsAgree' /\ Forward
<1>1. /\ Data(p) => p.dir = "original"
      /\ Ack(p) => p.dir = "reply"
  BY DEF Data, Ack, Segment
<1>2. CASE UNCHANGED <<client, server>>
  BY <1>2, NothingMoves
<1>3. CASE p.dir = "original" /\ ReceiveData(p)
  BY <1>1, <1>3, DataMoves DEF Legit
<1>4. CASE p.dir = "reply" /\ ReceiveAck(p)
  BY <1>1, <1>4, AckMoves DEF Legit
<1> QED
  BY <1>2, <1>3, <1>4 DEF Leave

\* A segment of data.
LEMMA SegmentSays ==
  ASSUME NEW a \in Seqs, Pos(a) \in Steps, Pos(a) + Len < M
  PROVE  /\ Segment(a) \in Segments
         /\ Segment(a).seq = a
         /\ End(Segment(a)) \in Seqs
         /\ Pos(End(Segment(a))) = Pos(a) + Len
         /\ Pos(a) + Len \in Steps
<1> DEFINE p == Segment(a)
<1>1. p \in Segments /\ p.seq = a /\ p.len = Len
  BY Space DEF Segment, Segments, Dirs
<1>2. Pos(a) \in Nat
  BY PosType, Space
<1>3. End(p) \in Seqs /\ Pos(End(p)) = Pos(a) + Len
  BY <1>1, <1>2, PlusPos, Space DEF End
<1> QED
  BY <1>1, <1>3, StepPlus

\* The client sends more data,
LEMMA SendDataMoves ==
  ASSUME EndpointsAgree, SendData
  PROVE  /\ EndpointsAgree' /\ Forward /\ server' = server
         /\ client'.una = client.una /\ client'.right = client.right
         /\ \E q : wire' = wire \cup {q} /\ Data(q)'
<1>0. PICK q : q = Segment(client.nxt)
  OBVIOUS
<1> DEFINE nxt == Plus(client.nxt, Len)
<1>1. /\ EndpointTypes
      /\ Sent(client.una) /\ Sent(client.nxt) /\ Sent(server.rcv)
      /\ Pos(client.nxt) <= Stream
      /\ Pos(client.una) <= Pos(server.rcv)
      /\ Pos(client.nxt) <= Pos(client.right)
      /\ Pos(client.right) <= Pos(server.right)
      /\ Pos(server.right) <= Pos(server.rcv) + MaxWindow
      /\ \A e \in server.early : Sent(e) /\ Pos(server.rcv) < Pos(e)
      /\ \A e \in server.dups : Sent(e) /\ Dsack
  BY DEF EndpointsAgree
<1>2. /\ \A a \in {client.una, client.nxt, client.right, server.rcv, server.right} :
            a \in Int /\ Pos(a) \in Nat /\ Pos(a) <= Stream + MaxWindow /\ Pos(a) < Half
      /\ client.nxt \in Seqs
  BY EndpointBounds, Space
<1> DEFINE edge == Plus(Start, Stream)
<1>3. edge \in Int /\ Pos(edge) = Stream
  <2>1. Pos(Start) + Stream = Stream /\ 0 <= Stream /\ Stream < M
    BY PosStart, Space
  <2> QED
    BY <2>1, PlusPos, Space
<1>4. /\ Diff(client.right, client.nxt) >= Len /\ Diff(edge, client.nxt) >= Len
      /\ wire' = wire \cup {q} /\ server' = server
      /\ client' = [client EXCEPT !.nxt = nxt]
  BY <1>0 DEF SendData, Transmit
<1> HIDE DEF edge
<1>5. /\ Pos(client.nxt) + Len <= Pos(client.right)
      /\ Pos(client.nxt) + Len <= Stream
  <2>1. Diff(client.right, client.nxt) = Pos(client.right) - Pos(client.nxt)
    BY <1>2, DiffPos
  <2>2. Diff(edge, client.nxt) = Pos(edge) - Pos(client.nxt)
    BY <1>2, <1>3, DiffPos, Space
  <2> QED
    BY <1>2, <1>3, <1>4, <2>1, <2>2, Space
<1>6. /\ q \in Segments /\ q.seq = client.nxt
      /\ End(q) \in Seqs /\ Pos(End(q)) = Pos(client.nxt) + Len
      /\ Pos(client.nxt) + Len \in Steps
  BY <1>0, <1>1, <1>2, <1>5, SegmentSays, Space DEF Sent
<1>7. nxt \in Seqs /\ Pos(nxt) = Pos(client.nxt) + Len
  <2>1. /\ client.nxt \in Int /\ Len \in Int
        /\ 0 <= Pos(client.nxt) + Len /\ Pos(client.nxt) + Len < M
    BY <1>2, <1>5, Space
  <2> QED
    BY <2>1, PlusPos
<1> HIDE DEF nxt
<1>8. /\ client'.nxt = nxt /\ client'.una = client.una /\ client'.right = client.right
      /\ EndpointTypes'
  BY <1>1, <1>4, <1>7 DEF EndpointTypes
<1>9. \A a : Sent(a)' <=> (a \in Seqs /\ Pos(a) \in Steps /\ Pos(a) <= Pos(nxt))
  BY <1>8 DEF Sent, Pos
<1>10. \A a : Sent(a) => Sent(a)'
  <2>1. \A a \in Seqs : Pos(a) \in Nat
    BY PosType, Space
  <2>2. Pos(nxt) \in Nat /\ Pos(client.nxt) <= Pos(nxt)
    BY <1>2, <1>7, Space
  <2> QED
    BY <1>2, <1>9, <2>1, <2>2 DEF Sent
<1>11. Sent(client.una)' /\ Sent(client.nxt)' /\ Sent(server.rcv)'
  <2>1. Sent(client.una)' <=> (client.una \in Seqs /\ Pos(client.una) \in Steps
                                  /\ Pos(client.una) <= Pos(nxt))
    BY <1>8 DEF Sent, Pos
  <2>2. Sent(client.nxt)' <=> (nxt \in Seqs /\ Pos(nxt) \in Steps /\ Pos(nxt) <= Pos(nxt))
    BY <1>8 DEF Sent, Pos
  <2>3. Sent(server.rcv)' <=> (server.rcv \in Seqs /\ Pos(server.rcv) \in Steps
                                  /\ Pos(server.rcv) <= Pos(nxt))
    BY <1>4, <1>8 DEF Sent, Pos
  <2> QED
    BY <1>1, <1>2, <1>6, <1>7, <2>1, <2>2, <2>3, Space DEF Sent
<1>12. /\ Pos(client.una)' = Pos(client.una) /\ Pos(client.right)' = Pos(client.right)
       /\ Pos(server.rcv)' = Pos(server.rcv) /\ Pos(server.right)' = Pos(server.right)
       /\ Pos(client.nxt)' = Pos(nxt)
  BY <1>4, <1>8 DEF Pos
<1>13. /\ \A e \in server'.early : Sent(e)' /\ Pos(server.rcv)' < Pos(e)
       /\ \A e \in server'.dups : Sent(e)' /\ Dsack
  BY <1>1, <1>4, <1>10, <1>12
<1>14. EndpointsAgree'
  <2>1. /\ Pos(client.nxt)' <= Stream
        /\ Pos(client.una)' <= Pos(server.rcv)'
        /\ Pos(client.nxt)' <= Pos(client.right)'
        /\ Pos(client.right)' <= Pos(server.right)'
        /\ Pos(server.right)' <= Pos(server.rcv)' + MaxWindow
    BY <1>1, <1>5, <1>7, <1>12
  <2> QED
    BY <1>8, <1>11, <1>13, <2>1 DEF EndpointsAgree, Pos
<1>15. Forward
  BY <1>2, <1>7, <1>12, Space DEF Forward
<1>16. Data(q)'
  <2>1. q = Segment(q.seq) /\ Pos(End(q)) = Pos(q.seq) + Len
    BY <1>0, <1>6
  <2>2. End(q) \in Seqs /\ Pos(End(q)) \in Steps /\ Pos(End(q)) <= Pos(client'.nxt)
    BY <1>2, <1>6, <1>7, <1>8, Space
  <2>3. Sent(End(q))'
    BY <2>2 DEF Sent, End, Plus, Pos
  <2>4. (q \in Segments)' /\ (q = Segment(q.seq) /\ Pos(End(q)) = Pos(q.seq) + Len)'
    BY <1>6, <2>1 DEF Segments, Segment, End, Plus, Pos
  <2> QED
    BY <2>3, <2>4 DEF Data
<1> QED
  BY <1>4, <1>8, <1>14, <1>15, <1>16

\* or the segment again that it misses an acknowledgement of.
LEMMA RetransmitMoves ==
  ASSUME EndpointsAgree, Retransmit
  PROVE  UNCHANGED <<client, server>> /\ \E q : wire' = wire \cup {q} /\ Data(q)
<1> DEFINE q == Segment(client.una)
<1>1. /\ Sent(client.una) /\ Sent(client.nxt) /\ client.una # client.nxt
      /\ UNCHANGED <<client, server>> /\ wire' = wire \cup {q}
  BY DEF EndpointsAgree, Retransmit, Transmit
<1>2. /\ Pos(client.una) \in Nat /\ Pos(client.nxt) \in Nat /\ Pos(client.nxt) < Half
      /\ client.una \in Seqs /\ client.nxt \in Seqs
  BY EndpointBounds
<1>3. Pos(client.una) < Pos(client.nxt)
  BY <1>1, <1>2, PosUnique DEF Sent
<1>4. Pos(client.una) + Len <= Pos(client.nxt)
  BY <1>1, <1>3, NextStep DEF Sent
<1>5. /\ q \in Segments /\ q.seq = client.una
      /\ End(q) \in Seqs /\ Pos(End(q)) = Pos(client.una) + Len
      /\ Pos(client.una) + Len \in Steps
  BY <1>1, <1>2, <1>4, SegmentSays, Space DEF Sent
<1>6. Sent(End(q))
  BY <1>4, <1>5 DEF Sent
<1>7. Data(q)
  BY <1>5, <1>6 DEF Data
<1> QED
  BY <1>1, <1>7

\* The server acknowledges what it has, and opens its window.
LEMMA SendAckMoves ==
  ASSUME EndpointsAgree, SendAck
  PROVE  /\ EndpointsAgree' /\ Forward /\ client' = client
         /\ server'.rcv = server.rcv /\ server'.early = server.early
         /\ \E q : /\ wire' = wire \cup {q} /\ Ack(q)'
                   /\ q.ack = server.rcv /\ q.sack \subseteq server.early \cup server.dups
                   /\ Right(q) = Pos(server'.right)
<1>1. /\ EndpointTypes
      /\ Sent(client.una) /\ Sent(client.nxt) /\ Sent(server.rcv)
      /\ Pos(client.nxt) <= Stream
      /\ Pos(client.una) <= Pos(server.rcv)
      /\ Pos(client.nxt) <= Pos(client.right)
      /\ Pos(client.right) <= Pos(server.right)
      /\ Pos(server.right) <= Pos(server.rcv) + MaxWindow
      /\ \A e \in server.early : Sent(e) /\ Pos(server.rcv) < Pos(e)
      /\ \A e \in server.dups : Sent(e) /\ Dsack
  BY DEF EndpointsAgree
<1>2. /\ \A a \in {client.una, client.nxt, client.right, server.rcv, server.right} :
            a \in Int /\ a \in Seqs /\ Pos(a) \in Nat /\ Pos(a) <= Stream + MaxWindow /\ Pos(a) < Half
      /\ Pos(server.rcv) <= Pos(client.nxt) /\ Pos(server.rcv) <= Stream
  BY <1>1, EndpointBounds, Space
<1> DEFINE edge == Plus(server.rcv, MaxWindow)
           Reply(r) == [dir |-> "reply", seq |-> 0, len |-> 0, ack |-> server.rcv,
                        win |-> Diff(r, server.rcv), sack |-> server.early \cup server.dups]
<1>3. PICK r \in {server.right, edge} :
         /\ wire' = wire \cup {Reply(r)}
         /\ server' = [server EXCEPT !.right = r, !.dups = {}]
         /\ client' = client
  BY DEF SendAck, Transmit
<1>4. edge \in Seqs /\ Pos(edge) = Pos(server.rcv) + MaxWindow
  <2>1. /\ server.rcv \in Int /\ MaxWindow \in Int
        /\ 0 <= Pos(server.rcv) + MaxWindow /\ Pos(server.rcv) + MaxWindow < M
    BY <1>2, Space
  <2> QED
    BY <2>1, PlusPos
<1> HIDE DEF edge
<1>5. /\ r \in Seqs /\ r \in Int /\ Pos(r) \in Nat /\ Pos(r) < Half
      /\ Pos(server.right) <= Pos(r) /\ Pos(r) <= Pos(server.rcv) + MaxWindow
  BY <1>1, <1>2, <1>3, <1>4, Space
<1>6. /\ Diff(r, server.rcv) = Pos(r) - Pos(server.rcv)
      /\ Diff(r, server.rcv) \in Seqs /\ Diff(r, server.rcv) <= MaxWindow
  <2>1. Diff(r, server.rcv) = Pos(r) - Pos(server.rcv)
    BY <1>2, <1>5, DiffPos
  <2>2. Pos(server.rcv) <= Pos(r)
    BY <1>1, <1>2, <1>5
  <2> QED
    BY <1>2, <1>5, <2>1, <2>2, Space
<1>7. PICK q : q = Reply(r)
  OBVIOUS
<1>8. /\ q \in Segments /\ q.dir = "reply" /\ q.seq = 0 /\ q.len = 0
      /\ q.ack = server.rcv /\ q.win = Diff(r, server.rcv)
      /\ q.sack = server.early \cup server.dups
  BY <1>1, <1>2, <1>6, <1>7, Space DEF Segments, Dirs, EndpointTypes
<1>9. /\ server'.rcv = server.rcv /\ server'.early = server.early
      /\ server'.dups = {} /\ server'.right = r
      /\ EndpointTypes'
  BY <1>1, <1>3, <1>5 DEF EndpointTypes
<1>10. /\ Pos(client.una)' = Pos(client.una) /\ Pos(client.right)' = Pos(client.right)
       /\ Pos(server.rcv)' = Pos(server.rcv) /\ Pos(server.right)' = Pos(r)
       /\ Pos(client.nxt)' = Pos(client.nxt)
  BY <1>3, <1>9 DEF Pos
<1>11. EndpointsAgree'
  <2>1. Sent(client.una)' /\ Sent(client.nxt)' /\ Sent(server.rcv)'
    BY <1>1, <1>3, <1>9 DEF Sent, Pos
  <2>2. \A e \in server'.early : Sent(e)' /\ Pos(server.rcv)' < Pos(e)
    BY <1>1, <1>3, <1>9, <1>10 DEF Sent, Pos
  <2>3. \A e \in server'.dups : Sent(e)' /\ Dsack
    BY <1>9
  <2>4. /\ Pos(client.nxt)' <= Stream
        /\ Pos(client.una)' <= Pos(server.rcv)'
        /\ Pos(client.nxt)' <= Pos(client.right)'
        /\ Pos(client.right)' <= Pos(server.right)'
        /\ Pos(server.right)' <= Pos(server.rcv)' + MaxWindow
    BY <1>1, <1>2, <1>5, <1>10
  <2> QED
    BY <1>9, <2>1, <2>2, <2>3, <2>4 DEF EndpointsAgree, Pos
<1>12. Forward
  BY <1>2, <1>5, <1>10 DEF Forward
<1>13. Right(q) = Pos(r) /\ Pos(q.ack) + q.win = Pos(r)
  BY <1>2, <1>5, <1>6, <1>8 DEF Right
<1>14. Ack(q)'
  <2>1. Sent(q.ack) /\ Pos(q.ack) = Pos(server.rcv)
    BY <1>1, <1>8
  <2>2. Sent(q.ack)' /\ (Pos(q.ack) <= Pos(server.rcv))' /\ (Right(q) <= Pos(server.right))'
    <3>1. Pos(q.ack) <= Pos(server'.rcv) /\ Right(q) <= Pos(server'.right)
      BY <1>2, <1>5, <1>8, <1>9, <1>13
    <3> QED
      BY <1>3, <2>1, <3>1 DEF Sent, Pos, Right
  <2>3. ASSUME NEW e \in q.sack
        PROVE  /\ Sent(e)
               /\ Dsack \/ (Pos(q.ack) < Pos(e) /\ Pos(e) <= Pos(q.ack) + MaxWindow)
    <3>1. CASE e \in server.early
      <4>1. Sent(e) /\ Pos(server.rcv) < Pos(e)
        BY <1>1, <3>1
      <4>2. Pos(e) \in Nat /\ Pos(e) <= Pos(client.nxt)
        BY <4>1, EndpointBounds DEF Sent
      <4>3. Pos(e) <= Pos(server.rcv) + MaxWindow
        BY <1>1, <1>2, <4>2, Space
      <4> QED
        BY <1>8, <4>1, <4>3
    <3>2. CASE e \in server.dups
      BY <1>1, <3>2
    <3> QED
      BY <1>8, <3>1, <3>2
  <2>4. \A e \in q.sack : /\ Sent(e)'
                          /\ Dsack \/ (Pos(q.ack) < Pos(e) /\ Pos(e) <= Pos(q.ack) + MaxWindow)'
    BY <1>3, <2>3 DEF Sent, Pos
  <2>5. (q \in Segments)' /\ (q.dir = "reply" /\ q.seq = 0 /\ q.len = 0 /\ q.win <= MaxWindow)'
    BY <1>6, <1>8 DEF Segments
  <2> QED
    BY <2>2, <2>4, <2>5 DEF Ack
<1> QED
  BY <1>3, <1>7, <1>8, <1>9, <1>11, <1>12, <1>13, <1>14

-----------------------------------------------------------------------------
(* The windows.                                                            *)

WindowSide == [end : Seqs, max_end : Seqs, max_win : Seqs]

\* A request: not filled in, filled in for one direction, or for both.
Requests == {None} \cup [{"original"} -> WindowSide] \cup Windows

RouterTypes ==
    /\ rule \in Windows \cup {None}
    /\ seen \in Windows
    /\ slow \subseteq [pkt : Segments, sic : Requests]
    /\ flushes \subseteq [windows : Windows, pkt : Segments \cup {None}]
    /\ sis \in Windows \cup {None}

\* A segment belongs to the protocol.
LEMMA LegitSays ==
  ASSUME NEW p, Legit(p)
  PROVE  /\ p \in Segments /\ p # None
         /\ p.dir \in Dirs /\ p.ack \in Seqs /\ p.win \in Seqs /\ p.sack \in SUBSET Seqs
         /\ p.seq \in Seqs /\ p.len \in Int /\ End(p) \in Seqs
         /\ Data(p) <=> p.dir = "original"
         /\ Ack(p) <=> p.dir = "reply"
<1>1. p \in Segments
  BY DEF Legit, Data, Ack
<1>2. p # None
  BY <1>1, NoneAssumption
<1>3. p.len \in Int /\ p.seq \in Int
  BY <1>1, Space DEF Segments
<1>4. End(p) \in Seqs
  BY <1>3, PlusType DEF End
<1>5. Data(p) => p.dir = "original"
  BY DEF Data, Segment
<1>6. Ack(p) => p.dir = "reply"
  BY DEF Ack
<1> QED
  BY <1>1, <1>2, <1>3, <1>4, <1>5, <1>6 DEF Legit, Segments

\* Both ways to compare the SACK blocks choose one of their right edges or the
\* acknowledgement itself.
LEMMA SackEdges ==
  ASSUME EndpointsAgree, NEW p, Legit(p)
  PROVE  /\ SackEdge(p) \in {p.ack} \cup p.sack
         /\ SerialSackEdge(p) \in {p.ack} \cup p.sack
         /\ SackEdge(p) \in Seqs /\ SerialSackEdge(p) \in Seqs
<1> DEFINE S == {p.ack} \cup p.sack
<1>1. S \in SUBSET Nat /\ S \subseteq Seqs /\ p.ack \in S
  BY LegitSays
<1>2. SackEdge(p) \in S
  <2>1. \A x \in S : x <= M
    BY <1>1, Space
  <2>2. S # {} /\ M \in Nat
    BY Space
  <2> HIDE DEF S
  <2>3. Max(S) \in S
    BY <1>1, <2>1, <2>2, MaxInSet
  <2> QED
    BY <2>3 DEF SackEdge, S
<1>3. \E s \in S : \A x \in S : Diff(s, x) >= 0
  <2>1. CASE Data(p)
    <3>1. S = {0}
      BY <2>1 DEF Data, Segment
    <3>2. Diff(0, 0) = 0
      BY DiffNear, Space
    <3> QED
      BY <3>1, <3>2
  <2>2. CASE Ack(p)
    <3>1. \A x \in S : Sent(x) /\ x \in Seqs /\ x \in Int
      BY <1>1, <2>2, Space DEF Ack
    <3>2. \A x \in S : Pos(x) \in Nat /\ Pos(x) < Half
      BY <1>1, <3>1, EndpointBounds
    <3> DEFINE T == {Pos(x) : x \in S}
    <3>3. T \in SUBSET Nat /\ T # {} /\ \A y \in T : y <= Half
      BY <1>1, <3>2, Space
    <3>4. Max(T) \in T /\ \A y \in T : y <= Max(T)
      <4> HIDE DEF T, S
      <4> QED
        BY <3>3, MaxInSet, Space
    <3>5. PICK s \in S : Pos(s) = Max(T)
      BY <3>4
    <3>6. ASSUME NEW x \in S PROVE Diff(s, x) >= 0
      <4>1. Pos(x) <= Pos(s)
        BY <3>4, <3>5
      <4>2. Diff(s, x) = Pos(s) - Pos(x)
        <5> HIDE DEF S
        <5> QED
          BY <3>1, <3>2, DiffPos
      <4> QED
        BY <3>2, <4>1, <4>2
    <3> QED
      BY <3>6
  <2> QED
    BY <2>1, <2>2 DEF Legit
<1>4. SerialSackEdge(p) \in S
  <2>1. SerialSackEdge(p) = CHOOSE s \in S : \A x \in S : Diff(s, x) >= 0
    BY DEF SerialSackEdge
  <2> HIDE DEF S
  <2> QED
    BY <1>3, <2>1, Zenon
<1> QED
  BY <1>1, <1>2, <1>4

\* The larger of two numbers of the space is one.
LEMMA MaxSeqs ==
  ASSUME NEW a \in Seqs, NEW b \in Seqs
  PROVE  Max({a, b}) = (IF a >= b THEN a ELSE b) /\ Max({a, b}) \in Seqs
<1>1. a \in Nat /\ b \in Nat
  OBVIOUS
<1> QED
  BY <1>1, MaxTwo

LEMMA OneInSeqs == 1 \in Seqs
<1>1. 1 < M
  BY Space
<1> QED
  BY <1>1, Space

\* What a segment teaches the windows, field by field.
LEMMA AdvanceSays ==
  ASSUME NEW w \in Windows, NEW p, Legit(p), NEW e \in Seqs
  PROVE  LET a == Advance(w, p, e)
             d == p.dir
             o == Other(p.dir)
             scaled_win == Plus(p.win, e - p.ack)
         IN  /\ a \in Windows
             /\ a[d].end = Later(End(p), w[d].end)
             /\ a[d].max_end = w[d].max_end
             /\ a[d].max_win = Max({w[d].max_win, scaled_win})
             /\ a[o].end = w[o].end
             /\ a[o].max_end = Later(Plus(e, scaled_win), w[o].max_end)
             /\ a[o].max_win = w[o].max_win
<1> DEFINE d == p.dir
           o == Other(p.dir)
           scaled_win == Plus(p.win, e - p.ack)
           mw == Max({w[d].max_win, scaled_win})
           en == Later(End(p), w[d].end)
           me == Later(Plus(e, scaled_win), w[o].max_end)
           x == [w[d] EXCEPT !.max_win = mw, !.end = en]
           y == [w[o] EXCEPT !.max_end = me]
<1>1. d \in Dirs /\ o \in Dirs /\ o # d /\ \A c \in Dirs : c = d \/ c = o
  BY LegitSays DEF Other, Dirs
<1>2. /\ w[d] \in WindowSide /\ w[o] \in WindowSide
      /\ w[d].max_win \in Seqs /\ w[d].end \in Seqs /\ w[o].max_end \in Seqs
  BY <1>1 DEF Windows, WindowSide
<1>3. scaled_win \in Seqs /\ Plus(e, scaled_win) \in Seqs /\ End(p) \in Seqs
  <2>1. p.win \in Int /\ e - p.ack \in Int /\ End(p) \in Seqs /\ e \in Int
    BY LegitSays, Space
  <2>2. scaled_win \in Seqs
    BY <2>1, PlusType
  <2>3. scaled_win \in Int
    BY <2>2, Space
  <2> QED
    BY <2>1, <2>2, <2>3, PlusType
<1>4. mw \in Seqs /\ en \in Seqs /\ me \in Seqs
  BY <1>2, <1>3, MaxSeqs, LaterPos
<1>5. Advance(w, p, e) = [w EXCEPT ![d].max_win = mw, ![d].end = en, ![o].max_end = me]
  BY DEF Advance
<1> HIDE DEF mw, en, me
<1>6. x \in WindowSide /\ y \in WindowSide
  BY <1>2, <1>4 DEF WindowSide
<1>7. /\ x.end = en /\ x.max_win = mw /\ x.max_end = w[d].max_end
      /\ y.max_end = me /\ y.end = w[o].end /\ y.max_win = w[o].max_win
  BY <1>2, <1>4 DEF WindowSide
<1>8. [w EXCEPT ![d].max_win = mw, ![d].end = en, ![o].max_end = me]
        = [w EXCEPT ![d] = x, ![o] = y]
  <2> DEFINE o2 == Other(p.dir)
  <2> HIDE DEF d, o
  <2>1. w = [c \in Dirs |-> w[c]] /\ DOMAIN w = Dirs
    BY DEF Windows
  <2>2. w[d] \in [end : Seqs, max_end : Seqs, max_win : Seqs]
    BY <1>2 DEF WindowSide
  <2> QED
    BY <1>1, <2>1, <2>2
<1> HIDE DEF x, y, d, o
<1>9. [w EXCEPT ![d] = x, ![o] = y] \in Windows
  BY <1>1, <1>6 DEF Windows, WindowSide
<1>10. [w EXCEPT ![d] = x, ![o] = y][d] = x /\ [w EXCEPT ![d] = x, ![o] = y][o] = y
  BY <1>1 DEF Windows
<1> DEFINE a == Advance(w, p, e)
<1>11. a = [w EXCEPT ![d] = x, ![o] = y]
  BY <1>5, <1>8
<1> HIDE DEF a
<1>12. a \in Windows /\ a[d] = x /\ a[o] = y
  BY <1>9, <1>10, <1>11
<1>13. /\ a \in Windows
       /\ a[d].end = en /\ a[d].max_end = w[d].max_end /\ a[d].max_win = mw
       /\ a[o].end = w[o].end /\ a[o].max_end = me /\ a[o].max_win = w[o].max_win
  BY <1>7, <1>12
<1> QED
  BY <1>13 DEF a, d, o, mw, en, me

\* What windows learn from others.
LEMMA MergeSays ==
  ASSUME NEW w \in Windows, NEW v \in Windows
  PROVE  LET m == Merge(w, v)
         IN  /\ m \in Windows
             /\ \A d \in Dirs : /\ m[d].end = Later(w[d].end, v[d].end)
                                /\ m[d].max_end = Later(w[d].max_end, v[d].max_end)
                                /\ m[d].max_win = Max({w[d].max_win, v[d].max_win})
<1>1. ASSUME NEW d \in Dirs
      PROVE  /\ Later(w[d].end, v[d].end) \in Seqs
             /\ Later(w[d].max_end, v[d].max_end) \in Seqs
             /\ Max({w[d].max_win, v[d].max_win}) \in Seqs
  <2>1. /\ w[d].end \in Seqs /\ w[d].max_end \in Seqs /\ w[d].max_win \in Seqs
        /\ v[d].end \in Seqs /\ v[d].max_end \in Seqs /\ v[d].max_win \in Seqs
    BY DEF Windows
  <2> QED
    BY <2>1, LaterPos, MaxSeqs
<1> QED
  BY <1>1 DEF Merge, Windows

\* The windows of a new rule.
LEMMA FromRequestSays ==
  ASSUME NEW w \in Windows
  PROVE  /\ FromRequest(w) \in Windows
         /\ \A d \in Dirs : /\ FromRequest(w)[d].end = w[d].end
                            /\ FromRequest(w)[d].max_end = w[d].max_end
                            /\ FromRequest(w)[d].max_win = Max({w[d].max_win, 1})
<1>1. ASSUME NEW d \in Dirs
      PROVE  /\ w[d] \in [end : Seqs, max_end : Seqs, max_win : Seqs]
             /\ Max({w[d].max_win, 1}) \in Seqs
  <2>1. w[d] \in [end : Seqs, max_end : Seqs, max_win : Seqs]
    BY DEF Windows
  <2> QED
    BY <2>1, MaxSeqs, OneInSeqs
<1> QED
  BY <1>1 DEF FromRequest, Windows

-----------------------------------------------------------------------------
(* Types.                                                                  *)

\* The steps of the router and of the network before it.
RouterNext ==
    \/ \E p \in wire : FastPath(p) \/ Flush(p) \/ SlowPath(p) \/ Lose(p)
    \/ \E s \in slow : FillInRequest(s) \/ Skip(s) \/ CreateRule(s)
    \/ PeriodicSync \/ DeliverSync \/ DestroyRule
    \/ \E f \in flushes : DeliverFlush(f)

\* Endpoints that keep to the protocol, segments that they sent, windows of numbers.
Protocol == EndpointsAgree /\ RouterTypes /\ \A p \in Travelling : Legit(p)

LEMMA ConntrackSays ==
  ASSUME EndpointsAgree, NEW p, Legit(p), NEW w \in Windows, Conntrack(p, w)
  PROVE  /\ seen' \in Windows
         /\ slow' \in {slow, slow \cup {[pkt |-> p, sic |-> None]}}
         /\ UNCHANGED <<client, server>> \/ Leave(p)
<1>1. SerialSackEdge(p) \in Seqs
  BY SackEdges
<1>2. Advance(w, p, SerialSackEdge(p)) \in Windows
  BY <1>1, AdvanceSays
<1>3. CASE Fits(w, p, SerialSackEdge(p))
  BY <1>2, <1>3 DEF Conntrack
<1>4. CASE ~Fits(w, p, SerialSackEdge(p))
  BY <1>4 DEF Conntrack
<1> QED
  BY <1>3, <1>4

\* A request is filled in with numbers.
LEMMA FilledTypes ==
  ASSUME RouterTypes, NEW s \in slow, FillInRequest(s)
  PROVE  /\ RouterTypes'
         /\ \E t : slow' = (slow \ {s}) \cup {t} /\ t.pkt = s.pkt
<1>1. /\ s \in [pkt : Segments, sic : Requests] /\ s.pkt \in Segments
      /\ seen \in Windows /\ seen["original"] \in WindowSide /\ seen["reply"] \in WindowSide
  BY DEF RouterTypes, Windows, WindowSide, Dirs
<1>2. CASE s.sic = None /\ slow' = (slow \ {s}) \cup {[s EXCEPT !.sic = [original |-> seen.original]]}
  <2>1. [original |-> seen.original] \in [{"original"} -> WindowSide]
    BY <1>1
  <2>2. [s EXCEPT !.sic = [original |-> seen.original]] \in [pkt : Segments, sic : Requests]
    BY <1>1, <2>1 DEF Requests
  <2>3. [s EXCEPT !.sic = [original |-> seen.original]].pkt = s.pkt
    BY <1>1
  <2>4. slow' \subseteq [pkt : Segments, sic : Requests]
    BY <1>2, <2>2 DEF RouterTypes
  <2> QED
    BY <1>2, <2>3, <2>4 DEF RouterTypes, FillInRequest
<1>3. CASE /\ s.sic # None /\ DOMAIN s.sic = {"original"}
           /\ slow' = (slow \ {s}) \cup
                 {[s EXCEPT !.sic = [original |-> s.sic.original, reply |-> seen.reply]]}
  <2>1. s.sic \in Requests /\ "reply" \notin DOMAIN s.sic
    BY <1>1, <1>3
  <2>2. s.sic \in [{"original"} -> WindowSide]
    <3>1. s.sic \notin Windows
      BY <2>1 DEF Windows, Dirs
    <3> QED
      BY <1>3, <2>1, <3>1 DEF Requests
  <2>3. s.sic.original \in WindowSide
    BY <2>2
  <2>4. [original |-> s.sic.original, reply |-> seen.reply] \in Windows
    BY <1>1, <2>3 DEF Windows, WindowSide, Dirs
  <2>5. [s EXCEPT !.sic = [original |-> s.sic.original, reply |-> seen.reply]]
           \in [pkt : Segments, sic : Requests]
    BY <1>1, <2>4 DEF Requests
  <2>6. [s EXCEPT !.sic = [original |-> s.sic.original, reply |-> seen.reply]].pkt = s.pkt
    BY <1>1
  <2>7. slow' \subseteq [pkt : Segments, sic : Requests]
    BY <1>3, <2>5 DEF RouterTypes
  <2> QED
    BY <1>3, <2>6, <2>7 DEF RouterTypes, FillInRequest
<1> QED
  BY <1>2, <1>3 DEF FillInRequest

\* A filled request holds windows.
LEMMA FilledSays ==
  ASSUME RouterTypes, NEW s \in slow, Filled(s)
  PROVE  s.sic \in Windows
<1>1. s.sic \in Requests /\ s.sic # None /\ DOMAIN s.sic = Dirs
  BY DEF RouterTypes, Filled
<1>2. s.sic \notin [{"original"} -> WindowSide]
  BY <1>1 DEF Dirs
<1> QED
  BY <1>1, <1>2 DEF Requests

\* Each step of the router keeps the types, moves segments that are on their way
\* along or drops them, and lets at most one of them reach its receiver.
LEMMA RouterSteps ==
  ASSUME Protocol, RouterNext
  PROVE  /\ RouterTypes'
         /\ Travelling' \subseteq Travelling
         /\ UNCHANGED <<client, server>> \/ \E p \in Travelling : Leave(p)
<1>1. /\ \A p \in wire : p \in Travelling /\ Legit(p)
      /\ \A s \in slow : s.pkt \in Travelling /\ Legit(s.pkt)
      /\ \A f \in flushes : f.pkt # None => f.pkt \in Travelling /\ Legit(f.pkt)
      /\ EndpointsAgree /\ RouterTypes
  BY DEF Protocol, Travelling
<1>2. ASSUME NEW p \in wire, FastPath(p)
      PROVE  RouterTypes' /\ Travelling' \subseteq Travelling /\ Leave(p)
  <2>1. rule \in Windows /\ SackEdge(p) \in Seqs
    BY <1>1, <1>2, SackEdges DEF FastPath, RouterTypes
  <2>2. rule' \in Windows
    BY <1>1, <1>2, <2>1, AdvanceSays DEF FastPath
  <2> QED
    BY <1>1, <1>2, <2>2 DEF FastPath, RouterTypes, Travelling
<1>3. ASSUME NEW p \in wire, Flush(p)
      PROVE  RouterTypes' /\ Travelling' \subseteq Travelling /\ UNCHANGED <<client, server>>
  <2>1. [windows |-> rule, pkt |-> p] \in [windows : Windows, pkt : Segments \cup {None}]
    BY <1>1, <1>3, LegitSays DEF Flush, RouterTypes
  <2>2. RouterTypes'
    BY <1>1, <1>3, <2>1 DEF Flush, RouterTypes
  <2>3. Travelling' \subseteq Travelling
    BY <1>1, <1>3 DEF Flush, Travelling
  <2> QED
    BY <1>3, <2>2, <2>3 DEF Flush
<1>4. ASSUME NEW p \in wire, SlowPath(p)
      PROVE  /\ RouterTypes' /\ Travelling' \subseteq Travelling
             /\ UNCHANGED <<client, server>> \/ Leave(p)
  <2>1. /\ seen' \in Windows
        /\ slow' \in {slow, slow \cup {[pkt |-> p, sic |-> None]}}
        /\ UNCHANGED <<client, server>> \/ Leave(p)
    BY <1>1, <1>4, ConntrackSays DEF SlowPath, RouterTypes
  <2>2. [pkt |-> p, sic |-> None] \in [pkt : Segments, sic : Requests]
    BY <1>1, LegitSays DEF Requests
  <2>3. RouterTypes'
    BY <1>1, <1>4, <2>1, <2>2 DEF SlowPath, RouterTypes
  <2>4. Travelling' \subseteq Travelling
    BY <1>1, <1>4, <2>1 DEF SlowPath, Travelling
  <2> QED
    BY <2>1, <2>3, <2>4
<1>5. ASSUME NEW p \in wire, Lose(p)
      PROVE  RouterTypes' /\ Travelling' \subseteq Travelling /\ UNCHANGED <<client, server>>
  BY <1>1, <1>5 DEF Lose, RouterTypes, Travelling
<1>6. ASSUME NEW s \in slow, FillInRequest(s)
      PROVE  RouterTypes' /\ Travelling' \subseteq Travelling /\ UNCHANGED <<client, server>>
  <2>1. PICK t : RouterTypes' /\ slow' = (slow \ {s}) \cup {t} /\ t.pkt = s.pkt
    BY <1>1, <1>6, FilledTypes
  <2> QED
    BY <1>1, <1>6, <2>1 DEF FillInRequest, Travelling
<1>7. ASSUME NEW s \in slow, Skip(s)
      PROVE  RouterTypes' /\ Travelling' \subseteq Travelling /\ Leave(s.pkt)
  BY <1>1, <1>7 DEF Skip, RouterTypes, Travelling
<1>8. ASSUME NEW s \in slow, CreateRule(s)
      PROVE  RouterTypes' /\ Travelling' \subseteq Travelling /\ Leave(s.pkt)
  <2>1. s.sic \in Windows
    BY <1>1, <1>8, FilledSays DEF CreateRule
  <2>2. rule' \in Windows \cup {None}
    BY <1>1, <1>8, <2>1, FromRequestSays, MergeSays DEF CreateRule, RouterTypes
  <2> QED
    BY <1>1, <1>8, <2>2 DEF CreateRule, RouterTypes, Travelling
<1>9. ASSUME PeriodicSync
      PROVE  RouterTypes' /\ Travelling' \subseteq Travelling /\ UNCHANGED <<client, server>>
  BY <1>1, <1>9 DEF PeriodicSync, RouterTypes, Travelling
<1>10. ASSUME DeliverSync
       PROVE  RouterTypes' /\ Travelling' \subseteq Travelling /\ UNCHANGED <<client, server>>
  <2>1. sis \in Windows /\ seen \in Windows
    BY <1>1, <1>10 DEF DeliverSync, RouterTypes
  <2>2. seen' \in Windows
    BY <1>10, <2>1, MergeSays DEF DeliverSync
  <2> QED
    BY <1>1, <1>10, <2>2 DEF DeliverSync, RouterTypes, Travelling
<1>11. ASSUME DestroyRule
       PROVE  RouterTypes' /\ Travelling' \subseteq Travelling /\ UNCHANGED <<client, server>>
  <2>1. [windows |-> rule, pkt |-> None] \in [windows : Windows, pkt : Segments \cup {None}]
    BY <1>1, <1>11 DEF DestroyRule, RouterTypes
  <2>2. RouterTypes'
    BY <1>1, <1>11, <2>1 DEF DestroyRule, RouterTypes
  <2>3. Travelling' \subseteq Travelling
    BY <1>1, <1>11 DEF DestroyRule, Travelling
  <2> QED
    BY <1>11, <2>2, <2>3 DEF DestroyRule
<1>12. ASSUME NEW f \in flushes, DeliverFlush(f)
       PROVE  /\ RouterTypes' /\ Travelling' \subseteq Travelling
              /\ UNCHANGED <<client, server>> \/ (f.pkt \in Travelling /\ Leave(f.pkt))
  <2>1. Merge(seen, f.windows) \in Windows
    <3>1. f.windows \in Windows /\ seen \in Windows
      BY <1>1 DEF RouterTypes
    <3> QED
      BY <3>1, MergeSays
  <2>2. CASE f.pkt = None
    BY <1>1, <1>12, <2>1, <2>2 DEF DeliverFlush, RouterTypes, Travelling
  <2>3. CASE f.pkt # None
    <3>1. Conntrack(f.pkt, Merge(seen, f.windows))
      BY <1>12, <2>3 DEF DeliverFlush
    <3>2. Legit(f.pkt) /\ f.pkt \in Travelling
      BY <1>1, <2>3
    <3>3. /\ seen' \in Windows
          /\ slow' \in {slow, slow \cup {[pkt |-> f.pkt, sic |-> None]}}
          /\ UNCHANGED <<client, server>> \/ Leave(f.pkt)
      BY <1>1, <2>1, <3>1, <3>2, ConntrackSays
    <3>4. [pkt |-> f.pkt, sic |-> None] \in [pkt : Segments, sic : Requests]
      BY <3>2, LegitSays DEF Requests
    <3>5. RouterTypes'
      BY <1>1, <1>12, <3>3, <3>4 DEF DeliverFlush, RouterTypes
    <3>6. Travelling' \subseteq Travelling
      BY <1>1, <1>12, <3>2, <3>3 DEF DeliverFlush, Travelling
    <3> QED
      BY <3>2, <3>3, <3>5, <3>6
  <2> QED
    BY <2>2, <2>3
<1> QED
  BY <1>1, <1>2, <1>3, <1>4, <1>5, <1>6, <1>7, <1>8, <1>9, <1>10, <1>11, <1>12 DEF RouterNext

LEMMA InitProtocol == Init => Protocol
<1> SUFFICES ASSUME Init PROVE Protocol
  OBVIOUS
<1> DEFINE edge == Plus(Start, MaxWindow)
<1>1. edge \in Seqs /\ Pos(edge) = MaxWindow /\ Start \in Seqs /\ Pos(Start) = 0
  <2>1. Start \in Int /\ Pos(Start) = 0 /\ 0 <= 0 + MaxWindow /\ 0 + MaxWindow < M
    BY PosStart, Space
  <2> QED
    BY <2>1, PlusPos, Space
<1> HIDE DEF edge
<1>2. /\ client = [una |-> Start, nxt |-> Start, right |-> edge]
      /\ server = [rcv |-> Start, early |-> {}, dups |-> {}, right |-> edge]
  BY DEF Init, edge
<1>3. EndpointTypes
  BY <1>1, <1>2 DEF EndpointTypes
<1>4. Sent(client.una) /\ Sent(client.nxt) /\ Sent(server.rcv)
  BY <1>1, <1>2, StepZero DEF Sent
<1>5. EndpointsAgree
  BY <1>1, <1>2, <1>3, <1>4, Space DEF EndpointsAgree
<1>6. ASSUME NEW s \in {0, Start}
      PROVE  [end |-> s, max_end |-> Plus(s, MaxWindow), max_win |-> MaxWindow]
                 \in [end : Seqs, max_end : Seqs, max_win : Seqs]
  <2>1. s \in Int /\ s \in Seqs /\ MaxWindow \in Seqs /\ MaxWindow \in Int
    BY Space
  <2>2. Plus(s, MaxWindow) \in Seqs
    BY <2>1, PlusType
  <2> QED
    BY <2>1, <2>2
<1>7. seen \in Windows
  BY <1>6 DEF Init, Windows
<1>8. RouterTypes /\ Travelling = {}
  BY <1>7 DEF Init, RouterTypes, Travelling
<1> QED
  BY <1>5, <1>8 DEF Protocol

\* What every step keeps, and that it moves nothing back.
LEMMA NextProtocol ==
  ASSUME Protocol, [Next]_vars
  PROVE  Protocol' /\ Forward
<1>1. EndpointsAgree /\ RouterTypes /\ \A p \in Travelling : Legit(p)
  BY DEF Protocol
<1>2. ASSUME EndpointsAgree', Forward, RouterTypes',
             \A p \in Travelling' : p \in Travelling \/ Legit(p)'
      PROVE  Protocol' /\ Forward
  <2>1. \A p \in Travelling' : Legit(p)'
    BY <1>1, <1>2, LegitForward
  <2> QED
    BY <1>2, <2>1 DEF Protocol
<1>3. ASSUME UNCHANGED <<rule, seen, slow, flushes, sis>>, NEW q, wire' = wire \cup {q}
      PROVE  RouterTypes' /\ Travelling' \subseteq Travelling \cup {q}
  BY <1>1, <1>3 DEF RouterTypes, Travelling
<1>4. CASE SendData
  <2>1. EndpointsAgree' /\ Forward
    BY <1>1, <1>4, SendDataMoves
  <2>2. PICK q : wire' = wire \cup {q} /\ Data(q)'
    BY <1>1, <1>4, SendDataMoves
  <2>3. RouterTypes' /\ Travelling' \subseteq Travelling \cup {q}
    BY <1>3, <1>4, <2>2 DEF SendData, Transmit
  <2> QED
    BY <1>2, <2>1, <2>2, <2>3 DEF Legit
<1>5. CASE Retransmit
  <2>1. EndpointsAgree' /\ Forward
    BY <1>1, <1>5, RetransmitMoves, NothingMoves
  <2>2. PICK q : wire' = wire \cup {q} /\ Data(q)
    BY <1>1, <1>5, RetransmitMoves
  <2>3. RouterTypes' /\ Travelling' \subseteq Travelling \cup {q}
    BY <1>3, <1>5, <2>2 DEF Retransmit, Transmit
  <2>4. Legit(q)'
    BY <1>1, <2>1, <2>2, LegitForward DEF Legit
  <2> QED
    BY <1>2, <2>1, <2>3, <2>4
<1>6. CASE SendAck
  <2>1. EndpointsAgree' /\ Forward
    BY <1>1, <1>6, SendAckMoves
  <2>2. PICK q : wire' = wire \cup {q} /\ Ack(q)'
    BY <1>1, <1>6, SendAckMoves
  <2>3. RouterTypes' /\ Travelling' \subseteq Travelling \cup {q}
    BY <1>3, <1>6, <2>2 DEF SendAck, Transmit
  <2> QED
    BY <1>2, <2>1, <2>2, <2>3 DEF Legit
<1>7. CASE RouterNext
  <2>1. /\ RouterTypes' /\ Travelling' \subseteq Travelling
        /\ UNCHANGED <<client, server>> \/ \E p \in Travelling : Leave(p)
    BY <1>7, RouterSteps
  <2>2. EndpointsAgree' /\ Forward
    BY <1>1, <2>1, NothingMoves, LeaveMoves
  <2> QED
    BY <1>2, <2>1, <2>2
<1>8. CASE UNCHANGED vars
  <2>1. EndpointsAgree' /\ Forward
    BY <1>1, <1>8, NothingMoves DEF vars
  <2>2. RouterTypes' /\ Travelling' = Travelling
    BY <1>1, <1>8 DEF vars, RouterTypes, Travelling
  <2> QED
    BY <1>2, <2>1, <2>2
<1> QED
  BY <1>4, <1>5, <1>6, <1>7, <1>8 DEF Next, RouterNext

LEMMA ProtocolKept == Spec => []Protocol
<1>1. Protocol /\ [Next]_vars => Protocol'
  BY NextProtocol
<1> QED
  BY InitProtocol, <1>1, PTL DEF Spec

LEMMA ProtocolTypes == Protocol => TypeOK
<1> SUFFICES ASSUME Protocol PROVE TypeOK
  OBVIOUS
<1>1. EndpointTypes /\ RouterTypes /\ \A p \in wire : Legit(p)
  BY DEF Protocol, EndpointsAgree, Travelling
<1>2. wire \subseteq Segments
  BY <1>1, LegitSays
<1>3. \A s \in slow : s.pkt \in Segments /\ (Filled(s) => s.sic \in Windows)
  <2>1. \A s \in slow : s.pkt \in Segments
    BY <1>1 DEF RouterTypes
  <2> QED
    BY <1>1, <2>1, FilledSays
<1>4. \A f \in flushes : f.pkt \in Segments \cup {None} /\ f.windows \in Windows
  BY <1>1 DEF RouterTypes
<1> QED
  BY <1>1, <1>2, <1>3, <1>4 DEF TypeOK, EndpointTypes, RouterTypes

\* Windows, requests and segments only hold numbers of the sequence space, however
\* often the numbers wrap (recv_tcp, update_tcp_state, sync_rule): the sums and
\* differences, taken as 32-bit numbers, never leave it.
THEOREM TypeCorrect == Spec => []TypeOK
  BY ProtocolKept, ProtocolTypes, PTL

-----------------------------------------------------------------------------
(* Edges.                                                                  *)

\* Every holder of windows.  The client sends all data and the server reports no
\* duplicates, so that the reply direction never moves.
DataSide(v) ==
    /\ v \in WindowSide
    /\ Pos(v.end) <= Pos(client.nxt)
    /\ Pos(v.max_end) <= Stream + 2 * MaxWindow
    /\ v.max_win = MaxWindow

AckSide(v) ==
    /\ v \in WindowSide
    /\ v.end = 0 /\ v.max_end = MaxWindow
    /\ MaxWindow <= v.max_win /\ v.max_win <= 2 * MaxWindow

Plausible(w) == w \in Windows /\ DataSide(w["original"]) /\ AckSide(w["reply"])

PlausibleRequest(r) ==
    r # None => /\ DataSide(r["original"])
                /\ DOMAIN r = Dirs => AckSide(r["reply"])

EdgesPlausible ==
    /\ \A w \in Known : Plausible(w)
    /\ \A s \in slow : PlausibleRequest(s.sic)

\* The difference of two numbers of the stream, added to a small number.
LEMMA PlusDifference ==
  ASSUME NEW n \in Int, NEW a \in Int, NEW b \in Int,
         0 <= n + Pos(a) - Pos(b), n + Pos(a) - Pos(b) < M
  PROVE  Plus(n, a - b) = n + Pos(a) - Pos(b)
<1>1. Pos(a) \in Int /\ Pos(b) \in Int /\ At(a, Pos(a)) /\ At(b, Pos(b))
  BY PosAt, Space
<1>2. PICK j \in Int : a = Start + Pos(a) + j * M
  BY <1>1 DEF At
<1>3. PICK k \in Int : b = Start + Pos(b) + k * M
  BY <1>1 DEF At
<1> DEFINE r == n + Pos(a) - Pos(b)
           x == n + (a - b)
<1>4. j - k \in Int /\ x = r + (j - k) * M
  <2>1. (j - k) * M = j * M - k * M
    BY Distributes, Space
  <2> QED
    BY <1>1, <1>2, <1>3, <2>1, Space
<1>5. r \in 0 .. M - 1 /\ x \in Int
  BY <1>1, Space
<1>6. x % M = r
  <2> HIDE DEF x, r
  <2> QED
    BY <1>4, <1>5, ModIs
<1> QED
  BY <1>6 DEF Plus

\* The edges of plausible windows are in the first half of the space.
LEMMA PlausibleBounds ==
  ASSUME EndpointsAgree, NEW w, Plausible(w)
  PROVE  /\ w \in Windows
         /\ \A x \in {w["original"].end, w["original"].max_end} :
               x \in Seqs /\ x \in Int /\ Pos(x) \in Nat /\ Pos(x) < Half
         /\ Pos(w["original"].end) <= Pos(client.nxt)
         /\ Pos(w["original"].max_end) <= Stream + 2 * MaxWindow
         /\ w["original"].max_win = MaxWindow
         /\ w["reply"].end = 0 /\ w["reply"].max_end = MaxWindow
         /\ MaxWindow <= w["reply"].max_win /\ w["reply"].max_win <= 2 * MaxWindow
         /\ w["reply"].max_win \in Nat
<1>1. /\ w["original"] \in WindowSide /\ w["reply"] \in WindowSide
      /\ Pos(w["original"].end) <= Pos(client.nxt)
      /\ Pos(w["original"].max_end) <= Stream + 2 * MaxWindow
  BY DEF Plausible, DataSide, AckSide
<1>2. Pos(client.nxt) \in Nat /\ Pos(client.nxt) < Half
  BY EndpointBounds
<1>3. \A x \in {w["original"].end, w["original"].max_end} :
          x \in Seqs /\ x \in Int /\ Pos(x) \in Nat
  BY <1>1, PosType, Space DEF WindowSide
<1> QED
  BY <1>1, <1>2, <1>3, Space DEF Plausible, DataSide, AckSide, WindowSide

\* Of two numbers of the reply direction, which does not move, the later one.
LEMMA LaterSame ==
  ASSUME NEW a \in Seqs
  PROVE  Later(a, a) = a
  BY DEF Later

\* Data teaches plausible windows where the client is, and nothing else.
LEMMA AdvanceData ==
  ASSUME EndpointsAgree, NEW w, Plausible(w), NEW p, Data(p), NEW e \in {p.ack} \cup p.sack
  PROVE  LET a == Advance(w, p, e)
         IN  /\ Plausible(a)
             /\ Pos(a["original"].end) =
                   IF Pos(End(p)) >= Pos(w["original"].end) THEN Pos(End(p))
                                                            ELSE Pos(w["original"].end)
             /\ a["original"].max_end = w["original"].max_end
             /\ a["reply"].max_win = w["reply"].max_win
<1> DEFINE a == Advance(w, p, e)
<1>1. p.dir = "original" /\ p.ack = 0 /\ p.win = MaxWindow /\ p.sack = {} /\ e = 0 /\ Legit(p)
  BY DEF Data, Segment, Legit
<1>2. Plus(p.win, e - p.ack) = MaxWindow /\ Plus(e, MaxWindow) = MaxWindow
  <2>1. /\ MaxWindow \in 0 .. M - 1 /\ 0 \in Int
        /\ MaxWindow + 0 = MaxWindow + 0 * M /\ MaxWindow + 0 \in Int
    BY Space
  <2>2. (MaxWindow + 0) % M = MaxWindow
    BY <2>1, ModIs
  <2>3. e - p.ack = 0 /\ e + MaxWindow = MaxWindow + 0
    BY <1>1, Space
  <2> QED
    BY <1>1, <2>2, <2>3 DEF Plus
<1>3. w \in Windows /\ e \in Seqs /\ MaxWindow \in Seqs
  BY <1>1, PlausibleBounds, Space
<1>4. /\ a \in Windows
      /\ a["original"].end = Later(End(p), w["original"].end)
      /\ a["original"].max_end = w["original"].max_end
      /\ a["original"].max_win = Max({w["original"].max_win, MaxWindow})
      /\ a["reply"].end = w["reply"].end
      /\ a["reply"].max_end = Later(MaxWindow, w["reply"].max_end)
      /\ a["reply"].max_win = w["reply"].max_win
  <2>1. LET d == p.dir
            o == Other(p.dir)
            win == Plus(p.win, e - p.ack)
        IN  /\ a \in Windows
            /\ a[d].end = Later(End(p), w[d].end)
            /\ a[d].max_end = w[d].max_end
            /\ a[d].max_win = Max({w[d].max_win, win})
            /\ a[o].end = w[o].end
            /\ a[o].max_end = Later(Plus(e, win), w[o].max_end)
            /\ a[o].max_win = w[o].max_win
    BY <1>1, <1>3, AdvanceSays
  <2>2. Other(p.dir) = "reply"
    BY <1>1 DEF Other
  <2> HIDE DEF a
  <2> QED
    BY <1>1, <1>2, <2>1, <2>2
<1> HIDE DEF a
<1>5. /\ a["original"].max_win = MaxWindow
      /\ a["reply"].end = 0 /\ a["reply"].max_end = MaxWindow
  BY <1>3, <1>4, PlausibleBounds, MaxSeqs, LaterSame
<1>6. End(p) \in Seqs /\ Pos(End(p)) \in Nat /\ Pos(End(p)) < Half /\ Pos(End(p)) <= Pos(client.nxt)
  BY EndpointBounds DEF Data, Sent
<1>7. Pos(a["original"].end) =
         IF Pos(End(p)) >= Pos(w["original"].end) THEN Pos(End(p)) ELSE Pos(w["original"].end)
  BY <1>4, <1>6, PlausibleBounds, LaterPos
<1>8. a["original"] \in WindowSide /\ a["reply"] \in WindowSide
  BY <1>4 DEF Windows, WindowSide, Dirs
<1>9. Pos(a["original"].end) <= Pos(client.nxt)
  BY <1>6, <1>7, PlausibleBounds
<1> QED
  BY <1>4, <1>5, <1>7, <1>8, <1>9, PlausibleBounds DEF Plausible, DataSide, AckSide, a

\* An acknowledgement teaches them where the window of the server ends, and how
\* large it is.
LEMMA AdvanceAck ==
  ASSUME ~Dsack, EndpointsAgree, NEW w, Plausible(w), NEW p, Ack(p), NEW e \in {p.ack} \cup p.sack
  PROVE  LET a == Advance(w, p, e)
             ahead == Pos(e) - Pos(p.ack)
             edge == Pos(e) + ahead + p.win
         IN  /\ Plausible(a)
             /\ ahead \in 0 .. MaxWindow
             /\ a["original"].end = w["original"].end
             /\ Pos(a["original"].max_end) =
                   IF edge >= Pos(w["original"].max_end) THEN edge
                                                         ELSE Pos(w["original"].max_end)
             /\ a["reply"].max_win =
                   IF w["reply"].max_win >= p.win + ahead THEN w["reply"].max_win
                                                          ELSE p.win + ahead
<1> DEFINE a == Advance(w, p, e)
           ahead == Pos(e) - Pos(p.ack)
           scaled_win == p.win + ahead
           edge == Plus(e, scaled_win)
<1>1. /\ p.dir = "reply" /\ Legit(p) /\ p.ack \in Seqs /\ p.win \in Nat /\ p.win <= MaxWindow
      /\ Sent(p.ack) /\ Sent(e) /\ p.seq = 0 /\ p.len = 0
      /\ e = p.ack \/ (Pos(p.ack) < Pos(e) /\ Pos(e) <= Pos(p.ack) + MaxWindow)
  BY Space DEF Ack, Legit, Segments
<1>2. /\ e \in Seqs /\ e \in Int /\ p.ack \in Int
      /\ Pos(e) \in Nat /\ Pos(e) <= Stream /\ Pos(p.ack) \in Nat
  BY <1>1, EndpointBounds, Space DEF Sent
<1>3. ahead \in 0 .. MaxWindow /\ scaled_win \in Nat /\ scaled_win <= 2 * MaxWindow
  BY <1>1, <1>2, Space
<1>4. scaled_win \in Seqs
  BY <1>3, Space
<1>5. Plus(p.win, e - p.ack) = scaled_win
  <2>1. p.win \in Int /\ 0 <= p.win + Pos(e) - Pos(p.ack) /\ p.win + Pos(e) - Pos(p.ack) < M
    BY <1>1, <1>2, <1>3, Space
  <2>2. Plus(p.win, e - p.ack) = p.win + Pos(e) - Pos(p.ack)
    BY <1>2, <2>1, PlusDifference
  <2> QED
    BY <1>1, <1>2, <2>2
<1> HIDE DEF ahead
<1>6. edge \in Seqs /\ Pos(edge) = Pos(e) + scaled_win
  <2>1. scaled_win \in Int /\ 0 <= Pos(e) + scaled_win /\ Pos(e) + scaled_win < M
    BY <1>2, <1>3, Space
  <2> HIDE DEF scaled_win
  <2> QED
    BY <1>2, <2>1, PlusPos
<1>7. w \in Windows
  BY PlausibleBounds
<1>8. /\ a \in Windows
      /\ a["reply"].end = Later(End(p), w["reply"].end)
      /\ a["reply"].max_end = w["reply"].max_end
      /\ a["reply"].max_win = Max({w["reply"].max_win, scaled_win})
      /\ a["original"].end = w["original"].end
      /\ a["original"].max_end = Later(edge, w["original"].max_end)
      /\ a["original"].max_win = w["original"].max_win
  <2>1. LET d == p.dir
            o == Other(p.dir)
            win == Plus(p.win, e - p.ack)
        IN  /\ a \in Windows
            /\ a[d].end = Later(End(p), w[d].end)
            /\ a[d].max_end = w[d].max_end
            /\ a[d].max_win = Max({w[d].max_win, win})
            /\ a[o].end = w[o].end
            /\ a[o].max_end = Later(Plus(e, win), w[o].max_end)
            /\ a[o].max_win = w[o].max_win
    BY <1>1, <1>2, <1>7, AdvanceSays
  <2>2. Other(p.dir) = "original"
    BY <1>1 DEF Other
  <2> HIDE DEF a, scaled_win
  <2> QED
    BY <1>1, <1>5, <2>1, <2>2
<1> HIDE DEF a, edge, scaled_win
<1>9. a["reply"].end = 0
  <2>1. 0 \in 0 .. M - 1 /\ 0 \in Int /\ 0 + 0 = 0 + 0 * M /\ 0 + 0 \in Int
    BY Space
  <2>2. (0 + 0) % M = 0
    BY <2>1, ModIs
  <2>3. End(p) = 0
    BY <1>1, <2>2 DEF End, Plus
  <2> QED
    BY <1>8, <2>1, <2>3, PlausibleBounds, LaterSame
<1>10. Pos(edge) \in Nat /\ Pos(edge) < Half /\ Pos(edge) <= Stream + 2 * MaxWindow
  BY <1>2, <1>3, <1>6, Space
<1>11. Pos(a["original"].max_end) =
          IF Pos(edge) >= Pos(w["original"].max_end) THEN Pos(edge) ELSE Pos(w["original"].max_end)
  <2>1. w["original"].max_end \in Seqs /\ Pos(w["original"].max_end) < Half
    BY PlausibleBounds
  <2> QED
    BY <1>6, <1>8, <1>10, <2>1, LaterPos
<1>12. a["reply"].max_win =
          IF w["reply"].max_win >= scaled_win THEN w["reply"].max_win ELSE scaled_win
  BY <1>4, <1>8, PlausibleBounds, MaxTwo, <1>3
<1>13. a["original"] \in WindowSide /\ a["reply"] \in WindowSide
  BY <1>8 DEF Windows, WindowSide, Dirs
<1>14. Plausible(a)
  <2>1. DataSide(a["original"])
    <3>1. Pos(a["original"].max_end) <= Stream + 2 * MaxWindow
      BY <1>10, <1>11, PlausibleBounds
    <3> QED
      BY <1>8, <1>13, <3>1, PlausibleBounds DEF DataSide
  <2>2. AckSide(a["reply"])
    <3>1. MaxWindow <= a["reply"].max_win /\ a["reply"].max_win <= 2 * MaxWindow
      BY <1>3, <1>12, PlausibleBounds, Space
    <3> QED
      BY <1>8, <1>9, <1>13, <3>1, PlausibleBounds DEF AckSide
  <2> QED
    BY <1>8, <2>1, <2>2 DEF Plausible
<1>15. Pos(edge) = Pos(e) + ahead + p.win
  BY <1>1, <1>2, <1>3, <1>6 DEF scaled_win
<1> QED
  BY <1>1, <1>2, <1>3, <1>8, <1>11, <1>12, <1>14, <1>15 DEF a, ahead, scaled_win

\* Either kind of segment leaves them plausible.
LEMMA AdvancePlausible ==
  ASSUME ~Dsack, EndpointsAgree, NEW w, Plausible(w), NEW p, Legit(p), NEW e \in {p.ack} \cup p.sack
  PROVE  Plausible(Advance(w, p, e))
<1>1. CASE Data(p)
  BY <1>1, AdvanceData
<1>2. CASE Ack(p)
  BY <1>2, AdvanceAck
<1> QED
  BY <1>1, <1>2 DEF Legit

\* Windows that learn from others know what either did.
LEMMA MergePlausible ==
  ASSUME EndpointsAgree, NEW w, Plausible(w), NEW v, Plausible(v)
  PROVE  LET m == Merge(w, v)
         IN  /\ Plausible(m)
             /\ Pos(m["original"].end) =
                   IF Pos(w["original"].end) >= Pos(v["original"].end)
                   THEN Pos(w["original"].end) ELSE Pos(v["original"].end)
             /\ Pos(m["original"].max_end) =
                   IF Pos(w["original"].max_end) >= Pos(v["original"].max_end)
                   THEN Pos(w["original"].max_end) ELSE Pos(v["original"].max_end)
             /\ m["reply"].max_win = IF w["reply"].max_win >= v["reply"].max_win
                                     THEN w["reply"].max_win ELSE v["reply"].max_win
<1> DEFINE m == Merge(w, v)
<1>1. /\ m \in Windows
      /\ \A d \in Dirs : /\ m[d].end = Later(w[d].end, v[d].end)
                         /\ m[d].max_end = Later(w[d].max_end, v[d].max_end)
                         /\ m[d].max_win = Max({w[d].max_win, v[d].max_win})
  <2>1. w \in Windows /\ v \in Windows
    BY DEF Plausible
  <2> QED
    BY <2>1, MergeSays
<1>2. "original" \in Dirs /\ "reply" \in Dirs /\ MaxWindow \in Nat /\ 0 \in Seqs /\ MaxWindow \in Seqs
  BY Space DEF Dirs
<1> HIDE DEF m
<1>3. /\ m["original"].end = Later(w["original"].end, v["original"].end)
       /\ m["original"].max_end = Later(w["original"].max_end, v["original"].max_end)
       /\ m["original"].max_win = Max({w["original"].max_win, v["original"].max_win})
       /\ m["reply"].end = Later(w["reply"].end, v["reply"].end)
       /\ m["reply"].max_end = Later(w["reply"].max_end, v["reply"].max_end)
       /\ m["reply"].max_win = Max({w["reply"].max_win, v["reply"].max_win})
  BY <1>1, <1>2
<1>4. Pos(m["original"].end) =
         IF Pos(w["original"].end) >= Pos(v["original"].end)
         THEN Pos(w["original"].end) ELSE Pos(v["original"].end)
  <2>1. /\ w["original"].end \in Seqs /\ Pos(w["original"].end) < Half
        /\ v["original"].end \in Seqs /\ Pos(v["original"].end) < Half
    BY PlausibleBounds
  <2> QED
    BY <1>3, <2>1, LaterPos
<1>5. Pos(m["original"].max_end) =
         IF Pos(w["original"].max_end) >= Pos(v["original"].max_end)
         THEN Pos(w["original"].max_end) ELSE Pos(v["original"].max_end)
  <2>1. /\ w["original"].max_end \in Seqs /\ Pos(w["original"].max_end) < Half
        /\ v["original"].max_end \in Seqs /\ Pos(v["original"].max_end) < Half
    BY PlausibleBounds
  <2> QED
    BY <1>3, <2>1, LaterPos
<1>6. /\ m["reply"].end = 0 /\ m["reply"].max_end = MaxWindow
  BY <1>2, <1>3, PlausibleBounds, LaterSame
<1>7. m["original"].max_win = MaxWindow
  BY <1>2, <1>3, PlausibleBounds, MaxTwo
<1>8. m["reply"].max_win = IF w["reply"].max_win >= v["reply"].max_win
                           THEN w["reply"].max_win ELSE v["reply"].max_win
  BY <1>2, <1>3, PlausibleBounds, MaxTwo
<1>9. m["original"] \in WindowSide /\ m["reply"] \in WindowSide
  BY <1>1 DEF Windows, WindowSide, Dirs
<1>10. DataSide(m["original"])
  <2>1. Pos(m["original"].end) <= Pos(client.nxt)
    BY <1>4, PlausibleBounds
  <2>2. Pos(m["original"].max_end) <= Stream + 2 * MaxWindow
    BY <1>5, PlausibleBounds
  <2> QED
    BY <1>7, <1>9, <2>1, <2>2 DEF DataSide
<1>11. AckSide(m["reply"])
  <2>1. MaxWindow <= m["reply"].max_win /\ m["reply"].max_win <= 2 * MaxWindow
    BY <1>8, PlausibleBounds
  <2> QED
    BY <1>6, <1>9, <2>1 DEF AckSide
<1> QED
  BY <1>1, <1>4, <1>5, <1>8, <1>10, <1>11 DEF Plausible, m

\* No window of plausible windows is zero: a rule starts with those of its request.
LEMMA FromRequestSame ==
  ASSUME EndpointsAgree, NEW w, Plausible(w)
  PROVE  FromRequest(w) = w
<1>1. w \in Windows /\ w["original"].max_win = MaxWindow /\ w["reply"].max_win >= MaxWindow
  BY PlausibleBounds
<1>2. ASSUME NEW d \in Dirs
      PROVE  [w[d] EXCEPT !.max_win = Max({@, 1})] = w[d]
  <2>1. w[d] \in [end : Seqs, max_end : Seqs, max_win : Seqs] /\ w[d].max_win \in Nat
    BY <1>1 DEF Windows
  <2>2. w[d].max_win >= 1
    BY <1>1, <2>1, Space DEF Dirs
  <2>3. Max({w[d].max_win, 1}) = w[d].max_win
    BY <2>1, <2>2, MaxTwo
  <2> QED
    BY <2>1, <2>3
<1>3. FromRequest(w) = [d \in Dirs |-> w[d]]
  BY <1>2 DEF FromRequest
<1>4. w = [d \in Dirs |-> w[d]]
  BY <1>1 DEF Windows
<1> QED
  BY <1>3, <1>4

\* A filled request is windows as good as any.
LEMMA FilledPlausible ==
  ASSUME RouterTypes, EdgesPlausible, NEW s \in slow, Filled(s)
  PROVE  Plausible(s.sic)
  BY FilledSays DEF EdgesPlausible, PlausibleRequest, Plausible, Filled

\* What is plausible stays so.
LEMMA PlausibleForward ==
  ASSUME EndpointsAgree, EndpointsAgree', Forward,
         \A w \in Known' : Plausible(w), \A s \in slow' : PlausibleRequest(s.sic)
  PROVE  EdgesPlausible'
<1>1. Pos(client.nxt) \in Nat /\ Pos(client.nxt)' \in Nat /\ Pos(client.nxt) <= Pos(client.nxt)'
  <2>1. client.nxt \in Seqs /\ client'.nxt \in Seqs
    BY DEF EndpointsAgree, EndpointTypes
  <2> QED
    BY <2>1, PosType, Space DEF Forward, Pos
<1>2. ASSUME NEW v, DataSide(v) PROVE DataSide(v)'
  <2>1. Pos(v.end) \in Nat /\ v \in WindowSide
    BY <1>2, PosType, Space DEF DataSide, WindowSide
  <2>2. Pos(v.end) <= Pos(client.nxt)'
    BY <1>1, <1>2, <2>1 DEF DataSide
  <2> QED
    BY <1>2, <2>2 DEF DataSide, WindowSide, Pos
<1>3. ASSUME NEW v, AckSide(v) PROVE AckSide(v)'
  BY <1>3 DEF AckSide, WindowSide
<1>4. \A w : Plausible(w) => Plausible(w)'
  BY <1>2, <1>3 DEF Plausible, Windows
<1>5. \A r : PlausibleRequest(r) => PlausibleRequest(r)'
  BY <1>2, <1>3 DEF PlausibleRequest, Dirs
<1>6. \A w \in Known' : Plausible(w)'
  BY <1>4
<1>7. \A s \in slow' : PlausibleRequest(s.sic)'
  BY <1>5
<1> QED
  BY <1>6, <1>7 DEF EdgesPlausible

\* conntrack learns something plausible.
LEMMA ConntrackPlausible ==
  ASSUME ~Dsack, EndpointsAgree, NEW p, Legit(p), NEW w, Plausible(w), Conntrack(p, w)
  PROVE  /\ Plausible(seen')
         /\ \A s \in slow' : s \in slow \/ s.sic = None
<1>1. SerialSackEdge(p) \in {p.ack} \cup p.sack
  BY SackEdges
<1>2. Plausible(Advance(w, p, SerialSackEdge(p)))
  BY <1>1, AdvancePlausible
<1>3. CASE Fits(w, p, SerialSackEdge(p))
  BY <1>2, <1>3 DEF Conntrack
<1>4. CASE ~Fits(w, p, SerialSackEdge(p))
  BY <1>4 DEF Conntrack
<1> QED
  BY <1>3, <1>4

\* A request is filled in with plausible windows.
LEMMA FilledInPlausible ==
  ASSUME EndpointsAgree, RouterTypes, EdgesPlausible, NEW s \in slow, FillInRequest(s)
  PROVE  \A t \in slow' : PlausibleRequest(t.sic)
<1>1. /\ s \in [pkt : Segments, sic : Requests]
      /\ DataSide(seen["original"]) /\ AckSide(seen["reply"])
      /\ \A t \in slow : PlausibleRequest(t.sic)
  BY DEF RouterTypes, EdgesPlausible, Known, Plausible
<1>2. CASE s.sic = None /\ slow' = (slow \ {s}) \cup {[s EXCEPT !.sic = [original |-> seen.original]]}
  <2> DEFINE r == [original |-> seen.original]
  <2>1. r["original"] = seen["original"] /\ DOMAIN r # Dirs
    BY DEF Dirs
  <2>2. PlausibleRequest(r)
    BY <1>1, <2>1 DEF PlausibleRequest
  <2> HIDE DEF r
  <2>3. [s EXCEPT !.sic = r].sic = r
    BY <1>1
  <2>4. slow' = (slow \ {s}) \cup {[s EXCEPT !.sic = r]}
    BY <1>2 DEF r
  <2> QED
    BY <1>1, <2>2, <2>3, <2>4
<1>3. CASE /\ s.sic # None /\ DOMAIN s.sic = {"original"}
           /\ slow' = (slow \ {s}) \cup
                 {[s EXCEPT !.sic = [original |-> s.sic.original, reply |-> seen.reply]]}
  <2> DEFINE r == [original |-> s.sic.original, reply |-> seen.reply]
  <2>1. r["original"] = s.sic["original"] /\ r["reply"] = seen["reply"]
    OBVIOUS
  <2>2. DataSide(s.sic["original"])
    BY <1>1, <1>3 DEF PlausibleRequest
  <2>3. PlausibleRequest(r)
    BY <1>1, <2>1, <2>2 DEF PlausibleRequest
  <2> HIDE DEF r
  <2>4. [s EXCEPT !.sic = r].sic = r
    BY <1>1
  <2>5. slow' = (slow \ {s}) \cup {[s EXCEPT !.sic = r]}
    BY <1>3 DEF r
  <2> QED
    BY <1>1, <2>3, <2>4, <2>5
<1> QED
  BY <1>2, <1>3 DEF FillInRequest

LEMMA InitPlausible == Init => EdgesPlausible
<1> SUFFICES ASSUME Init PROVE EdgesPlausible
  OBVIOUS
<1>1. Protocol
  BY InitProtocol
<1>2. Known = {seen} /\ slow = {}
  BY DEF Init, Known
<1>3. /\ seen["original"] = [end |-> Start, max_end |-> Plus(Start, MaxWindow), max_win |-> MaxWindow]
      /\ seen["reply"] = [end |-> 0, max_end |-> Plus(0, MaxWindow), max_win |-> MaxWindow]
  BY Space DEF Init, Dirs
<1>4. Plus(0, MaxWindow) = MaxWindow
  <2>1. MaxWindow \in 0 .. M - 1 /\ 0 + MaxWindow = MaxWindow + 0 * M /\ 0 + MaxWindow \in Int /\ 0 \in Int
    BY Space
  <2>2. (0 + MaxWindow) % M = MaxWindow
    BY <2>1, ModIs
  <2> QED
    BY <2>2 DEF Plus
<1>5. Pos(Plus(Start, MaxWindow)) = MaxWindow
  <2>1. Start \in Int /\ MaxWindow \in Int /\ 0 <= Pos(Start) + MaxWindow /\ Pos(Start) + MaxWindow < M
    BY PosStart, Space
  <2> QED
    BY <2>1, PlusPos, PosStart, Space
<1>6. seen \in Windows /\ seen["original"] \in WindowSide /\ seen["reply"] \in WindowSide
  BY <1>1 DEF Protocol, RouterTypes, Windows, WindowSide, Dirs
<1>7. Pos(client.nxt) = 0
  BY PosStart DEF Init
<1>8. DataSide(seen["original"])
  BY <1>3, <1>5, <1>6, <1>7, PosStart, Space DEF DataSide
<1>9. AckSide(seen["reply"])
  BY <1>3, <1>4, <1>6, Space DEF AckSide
<1> QED
  BY <1>2, <1>6, <1>8, <1>9 DEF EdgesPlausible, Plausible

\* All windows stay plausible.
LEMMA NextPlausible ==
  ASSUME ~Dsack, Protocol, EdgesPlausible, [Next]_vars
  PROVE  EdgesPlausible'
<1>1. /\ EndpointsAgree /\ EndpointsAgree' /\ Forward /\ RouterTypes
      /\ \A p \in wire : Legit(p)
      /\ \A f \in flushes : f.pkt # None => Legit(f.pkt)
  BY NextProtocol DEF Protocol, Travelling
<1>2. /\ Plausible(seen)
      /\ rule # None => Plausible(rule)
      /\ sis # None => Plausible(sis)
      /\ \A f \in flushes : Plausible(f.windows)
      /\ \A s \in slow : PlausibleRequest(s.sic)
  BY DEF EdgesPlausible, Known
<1>3. PlausibleRequest(None)
  BY DEF PlausibleRequest
<1>4. ASSUME /\ Plausible(seen')
             /\ rule' # None => Plausible(rule')
             /\ sis' # None => Plausible(sis')
             /\ \A f \in flushes' : Plausible(f.windows)
             /\ \A s \in slow' : PlausibleRequest(s.sic)
      PROVE  EdgesPlausible'
  <2>1. \A w \in Known' : Plausible(w)
    BY <1>4 DEF Known
  <2> QED
    BY <1>1, <1>4, <2>1, PlausibleForward
<1>5. ASSUME UNCHANGED <<rule, seen, slow, flushes, sis>> PROVE EdgesPlausible'
  BY <1>2, <1>4, <1>5
<1>6. ASSUME NEW p \in wire, FastPath(p) PROVE EdgesPlausible'
  <2>1. Plausible(rule') /\ UNCHANGED <<seen, slow, flushes, sis>>
    BY <1>1, <1>2, <1>6, SackEdges, AdvancePlausible DEF FastPath
  <2> QED
    BY <1>2, <1>4, <2>1
<1>7. ASSUME NEW p \in wire, Flush(p) PROVE EdgesPlausible'
  BY <1>2, <1>4, <1>7 DEF Flush
<1>8. ASSUME NEW p \in wire, SlowPath(p) PROVE EdgesPlausible'
  <2>1. Plausible(seen') /\ \A s \in slow' : s \in slow \/ s.sic = None
    BY <1>1, <1>2, <1>8, ConntrackPlausible DEF SlowPath
  <2>2. \A s \in slow' : PlausibleRequest(s.sic)
    BY <1>2, <1>3, <2>1
  <2> QED
    BY <1>2, <1>4, <1>8, <2>1, <2>2 DEF SlowPath
<1>9. ASSUME NEW s \in slow, FillInRequest(s) PROVE EdgesPlausible'
  <2>1. \A t \in slow' : PlausibleRequest(t.sic)
    BY <1>1, <1>9, FilledInPlausible
  <2> QED
    BY <1>2, <1>4, <1>9, <2>1 DEF FillInRequest
<1>10. ASSUME NEW s \in slow, Skip(s) PROVE EdgesPlausible'
  BY <1>2, <1>4, <1>10 DEF Skip
<1>11. ASSUME NEW s \in slow, CreateRule(s) PROVE EdgesPlausible'
  <2>1. Plausible(s.sic)
    BY <1>1, <1>11, FilledPlausible DEF CreateRule
  <2>2. rule' # None => Plausible(rule')
    BY <1>1, <1>2, <1>11, <2>1, FromRequestSame, MergePlausible DEF CreateRule
  <2> QED
    BY <1>2, <1>4, <1>11, <2>2 DEF CreateRule
<1>12. CASE PeriodicSync
  BY <1>2, <1>4, <1>12 DEF PeriodicSync
<1>13. CASE DeliverSync
  <2>1. Plausible(seen')
    BY <1>1, <1>2, <1>13, MergePlausible DEF DeliverSync
  <2> QED
    BY <1>2, <1>4, <1>13, <2>1 DEF DeliverSync
<1>14. CASE DestroyRule
  BY <1>2, <1>4, <1>14 DEF DestroyRule
<1>15. ASSUME NEW f \in flushes, DeliverFlush(f) PROVE EdgesPlausible'
  <2>1. Plausible(Merge(seen, f.windows))
    BY <1>1, <1>2, MergePlausible
  <2>2. Plausible(seen') /\ \A s \in slow' : s \in slow \/ s.sic = None
    <3>1. CASE f.pkt = None
      BY <1>15, <2>1, <3>1 DEF DeliverFlush
    <3>2. CASE f.pkt # None
      <4>1. Conntrack(f.pkt, Merge(seen, f.windows)) /\ Legit(f.pkt)
        BY <1>1, <1>15, <3>2 DEF DeliverFlush
      <4> QED
        BY <1>1, <2>1, <4>1, ConntrackPlausible
    <3> QED
      BY <3>1, <3>2
  <2>3. \A s \in slow' : PlausibleRequest(s.sic)
    BY <1>2, <1>3, <2>2
  <2> QED
    BY <1>2, <1>4, <1>15, <2>2, <2>3 DEF DeliverFlush
<1>16. ASSUME NEW p \in wire, Lose(p) PROVE EdgesPlausible'
  BY <1>5, <1>16 DEF Lose
<1>17. CASE SendData \/ Retransmit \/ SendAck \/ UNCHANGED vars
  BY <1>5, <1>17 DEF SendData, Retransmit, SendAck, Transmit, vars
<1> QED
  BY <1>6, <1>7, <1>8, <1>9, <1>10, <1>11, <1>12, <1>13, <1>14, <1>15, <1>16, <1>17 DEF Next

LEMMA PlausibleKept ==
  ASSUME ~Dsack
  PROVE  Spec => [](Protocol /\ EdgesPlausible)
<1>1. Init => Protocol /\ EdgesPlausible
  BY InitProtocol, InitPlausible
<1>2. (Protocol /\ EdgesPlausible) /\ [Next]_vars => (Protocol /\ EdgesPlausible)'
  BY NextProtocol, NextPlausible
<1> QED
  BY <1>1, <1>2, PTL DEF Spec

\* The windows v know no less than the windows w.
Dominates(v, w) ==
    /\ Pos(w["original"].end) <= Pos(v["original"].end)
    /\ Pos(w["original"].max_end) <= Pos(v["original"].max_end)
    /\ w["reply"].max_win <= v["reply"].max_win

\* Windows that know no less have edges that are no less, as serial numbers.
LEMMA DominatesEdges ==
  ASSUME EndpointsAgree, NEW w, Plausible(w), NEW v, Plausible(v), Dominates(v, w), NEW d \in Dirs
  PROVE  /\ Diff(v[d].end, w[d].end) >= 0
         /\ Diff(v[d].max_end, w[d].max_end) >= 0
         /\ v[d].max_win >= w[d].max_win
<1>1. CASE d = "original"
  <2>1. Diff(v[d].end, w[d].end) = Pos(v[d].end) - Pos(w[d].end)
    BY <1>1, PlausibleBounds, DiffPos
  <2>2. Diff(v[d].max_end, w[d].max_end) = Pos(v[d].max_end) - Pos(w[d].max_end)
    BY <1>1, PlausibleBounds, DiffPos
  <2> QED
    BY <1>1, <2>1, <2>2, PlausibleBounds, Space DEF Dominates
<1>2. CASE d = "reply"
  <2>1. Diff(0, 0) = 0 /\ Diff(MaxWindow, MaxWindow) = 0
    BY DiffNear, Space
  <2> QED
    BY <1>2, <2>1, PlausibleBounds DEF Dominates
<1> QED
  BY <1>1, <1>2 DEF Dirs

\* Windows dominate themselves, and what they were before they learnt.
LEMMA DominatesItself ==
  ASSUME EndpointsAgree, NEW w, Plausible(w)
  PROVE  Dominates(w, w)
  BY PlausibleBounds DEF Dominates

LEMMA AdvanceDominates ==
  ASSUME ~Dsack, EndpointsAgree, NEW w, Plausible(w), NEW p, Legit(p), NEW e \in {p.ack} \cup p.sack
  PROVE  Dominates(Advance(w, p, e), w)
<1> DEFINE a == Advance(w, p, e)
<1>1. Plausible(a)
  BY AdvancePlausible
<1>2. CASE Data(p)
  <2>1. /\ Pos(a["original"].end) =
              IF Pos(End(p)) >= Pos(w["original"].end) THEN Pos(End(p)) ELSE Pos(w["original"].end)
        /\ a["original"].max_end = w["original"].max_end
        /\ a["reply"].max_win = w["reply"].max_win
    BY <1>2, AdvanceData
  <2>2. Pos(End(p)) \in Nat
    BY PosType, LegitSays, Space
  <2> HIDE DEF a
  <2>3. Dominates(a, w)
    BY <2>1, <2>2, PlausibleBounds DEF Dominates
  <2> QED
    BY <2>3 DEF a
<1>3. CASE Ack(p)
  <2> DEFINE ahead == Pos(e) - Pos(p.ack)
             edge == Pos(e) + ahead + p.win
  <2>1. /\ a["original"].end = w["original"].end
        /\ Pos(a["original"].max_end) =
              IF edge >= Pos(w["original"].max_end) THEN edge ELSE Pos(w["original"].max_end)
        /\ a["reply"].max_win =
              IF w["reply"].max_win >= p.win + ahead THEN w["reply"].max_win ELSE p.win + ahead
    BY <1>3, AdvanceAck
  <2>2. ahead \in Int /\ edge \in Int /\ p.win + ahead \in Int
    <3>1. p.ack \in Int /\ e \in Int /\ p.win \in Int
      BY LegitSays, Space
    <3> QED
      BY <3>1, PosType
  <2> HIDE DEF a, ahead, edge
  <2>3. Dominates(a, w)
    BY <2>1, <2>2, PlausibleBounds DEF Dominates
  <2> QED
    BY <2>3 DEF a
<1> QED
  BY <1>2, <1>3 DEF Legit

LEMMA MergeDominates ==
  ASSUME EndpointsAgree, NEW w, Plausible(w), NEW v, Plausible(v)
  PROVE  Dominates(Merge(w, v), w) /\ Dominates(Merge(w, v), v)
<1> DEFINE m == Merge(w, v)
<1>1. /\ Pos(m["original"].end) =
            IF Pos(w["original"].end) >= Pos(v["original"].end)
            THEN Pos(w["original"].end) ELSE Pos(v["original"].end)
      /\ Pos(m["original"].max_end) =
            IF Pos(w["original"].max_end) >= Pos(v["original"].max_end)
            THEN Pos(w["original"].max_end) ELSE Pos(v["original"].max_end)
      /\ m["reply"].max_win = IF w["reply"].max_win >= v["reply"].max_win
                              THEN w["reply"].max_win ELSE v["reply"].max_win
  BY MergePlausible
<1> HIDE DEF m
<1>2. Dominates(m, w)
  BY <1>1, PlausibleBounds DEF Dominates
<1>3. Dominates(m, v)
  BY <1>1, PlausibleBounds DEF Dominates
<1> QED
  BY <1>2, <1>3 DEF m

\* What a rule knows after a step is no less than what it knew before.
LEMMA RuleDominates ==
  ASSUME ~Dsack, Protocol, EdgesPlausible, [Next]_vars, rule # None, rule' # None
  PROVE  Plausible(rule) /\ Plausible(rule') /\ Dominates(rule', rule)
<1>1. /\ EndpointsAgree /\ RouterTypes /\ Plausible(rule)
      /\ \A p \in wire : Legit(p)
  BY DEF Protocol, Travelling, EdgesPlausible, Known
<1>2. CASE rule' = rule
  BY <1>1, <1>2, DominatesItself
<1>3. ASSUME NEW p \in wire, FastPath(p)
      PROVE  Plausible(rule') /\ Dominates(rule', rule)
  <2>1. rule' = Advance(rule, p, SackEdge(p)) /\ Legit(p) /\ SackEdge(p) \in {p.ack} \cup p.sack
    BY <1>1, <1>3, SackEdges DEF FastPath
  <2> QED
    BY <1>1, <2>1, AdvancePlausible, AdvanceDominates
<1>4. ASSUME NEW s \in slow, CreateRule(s)
      PROVE  Plausible(rule') /\ Dominates(rule', rule)
  <2>1. Plausible(s.sic)
    BY <1>1, <1>4, FilledPlausible DEF CreateRule
  <2>2. rule' = Merge(rule, s.sic)
    BY <1>4 DEF CreateRule
  <2> QED
    BY <1>1, <2>1, <2>2, MergePlausible, MergeDominates
<1>5. rule' = rule \/ (\E p \in wire : FastPath(p)) \/ (\E s \in slow : CreateRule(s))
  <2>1. CASE SendData \/ Retransmit \/ SendAck
    BY <2>1 DEF SendData, Retransmit, SendAck, Transmit
  <2>2. ASSUME NEW p \in wire, Flush(p) \/ SlowPath(p) \/ Lose(p) PROVE rule' = rule
    BY <2>2 DEF Flush, SlowPath, Lose
  <2>3. ASSUME NEW s \in slow, FillInRequest(s) \/ Skip(s) PROVE rule' = rule
    BY <2>3 DEF FillInRequest, Skip
  <2>4. CASE PeriodicSync \/ DeliverSync
    BY <2>4 DEF PeriodicSync, DeliverSync
  <2>5. CASE DestroyRule
    BY <2>5 DEF DestroyRule
  <2>6. ASSUME NEW f \in flushes, DeliverFlush(f) PROVE rule' = rule
    BY <2>6 DEF DeliverFlush
  <2>7. CASE UNCHANGED vars
    BY <2>7 DEF vars
  <2> QED
    BY <2>1, <2>2, <2>3, <2>4, <2>5, <2>6, <2>7 DEF Next
<1> QED
  BY <1>1, <1>2, <1>3, <1>4, <1>5

\* No step moves an edge of a rule back or shrinks its windows, whatever old windows a
\* request brings (update_tcp_state) and in whatever order segments come (recv_tcp),
\* for a server that reports no duplicates.
THEOREM EdgesNeverRecede ==
  ASSUME ~Dsack
  PROVE  Spec => EdgesAdvance
<1> DEFINE A == rule # None /\ rule' # None =>
          \A d \in Dirs : /\ Diff(rule'[d].end, rule[d].end) >= 0
                          /\ Diff(rule'[d].max_end, rule[d].max_end) >= 0
                          /\ rule'[d].max_win >= rule[d].max_win
<1>1. Protocol /\ EdgesPlausible /\ [Next]_vars => [A]_vars
  <2> SUFFICES ASSUME Protocol, EdgesPlausible, [Next]_vars, rule # None, rule' # None, NEW d \in Dirs
               PROVE  /\ Diff(rule'[d].end, rule[d].end) >= 0
                      /\ Diff(rule'[d].max_end, rule[d].max_end) >= 0
                      /\ rule'[d].max_win >= rule[d].max_win
    OBVIOUS
  <2>1. Plausible(rule) /\ Plausible(rule') /\ Dominates(rule', rule)
    BY RuleDominates
  <2> QED
    BY <2>1, DominatesEdges DEF Protocol
<1>2. Spec => [](Protocol /\ EdgesPlausible)
  BY PlausibleKept
<1> QED
  BY <1>1, <1>2, PTL DEF Spec, EdgesAdvance

-----------------------------------------------------------------------------
(* What is known.                                                          *)

\* The windows v know of the segment p.
Taught(v, p) ==
    IF p.dir = "original" THEN Pos(End(p)) <= Pos(v["original"].end)
                          ELSE Right(p) <= Pos(v["original"].max_end)

\* Some windows of K reach to x, the end of data or the edge of a window.
KnowsEnd(K, x)  == \E w \in K : x <= Pos(w["original"].end)
KnowsEdge(K, x) == \E w \in K : x <= Pos(w["original"].max_end)

\* What segments change of the endpoints when they arrive.
Arrived == <<server.rcv, server.early, client.right>>

\* All that arrived is known to some of the windows K.
ArrivedKnown(K) ==
    /\ \A e \in {server.rcv} \cup server.early : KnowsEnd(K, Pos(e))
    /\ KnowsEdge(K, Pos(client.right))

\* And so is all that passed conntrack and is still in the stack.
PassedKnown == /\ ArrivedKnown(Known)
               /\ \A s \in slow : \E w \in Known : Taught(w, s.pkt)

\* All of the windows L know what the windows K know.
Inherits(L, K) == \A w \in K : \E v \in L : Dominates(v, w)

\* The numbers in windows.
LEMMA WindowNumbers ==
  ASSUME NEW w \in Windows
  PROVE  /\ Pos(w["original"].end) \in Nat /\ Pos(w["original"].max_end) \in Nat
         /\ w["reply"].max_win \in Nat
<1>1. /\ w["original"].end \in Int /\ w["original"].max_end \in Int
      /\ w["reply"].max_win \in Nat
  BY Space DEF Windows, Dirs
<1> QED
  BY <1>1, PosType

LEMMA KnownWindows ==
  ASSUME RouterTypes
  PROVE  Known \subseteq Windows
  BY DEF Known, RouterTypes

LEMMA SegmentNumbers ==
  ASSUME NEW p, Legit(p)
  PROVE  Pos(End(p)) \in Nat /\ Right(p) \in Nat /\ Pos(p.ack) \in Nat /\ p.win \in Nat
<1>1. End(p) \in Int /\ p.ack \in Int /\ p.win \in Nat
  BY LegitSays, Space
<1> QED
  BY <1>1, PosType DEF Right

LEMMA DominatesTrans ==
  ASSUME NEW u \in Windows, NEW v \in Windows, NEW w \in Windows, Dominates(u, v), Dominates(v, w)
  PROVE  Dominates(u, w)
  BY WindowNumbers DEF Dominates

LEMMA DominatesSame ==
  ASSUME NEW w \in Windows
  PROVE  Dominates(w, w)
  BY WindowNumbers DEF Dominates

LEMMA TaughtDominates ==
  ASSUME NEW v \in Windows, NEW w \in Windows, Dominates(v, w), NEW p, Legit(p), Taught(w, p)
  PROVE  Taught(v, p)
  BY WindowNumbers, SegmentNumbers DEF Dominates, Taught

\* Windows that learn from a segment know of it.
LEMMA AdvanceTeaches ==
  ASSUME ~Dsack, EndpointsAgree, NEW w, Plausible(w), NEW p, Legit(p), NEW e \in {p.ack} \cup p.sack
  PROVE  Taught(Advance(w, p, e), p)
<1> DEFINE a == Advance(w, p, e)
<1>1. CASE Data(p)
  <2>1. Pos(a["original"].end) =
           IF Pos(End(p)) >= Pos(w["original"].end) THEN Pos(End(p)) ELSE Pos(w["original"].end)
    BY <1>1, AdvanceData
  <2>2. p.dir = "original"
    BY <1>1, LegitSays
  <2> HIDE DEF a
  <2>3. Taught(a, p)
    BY <2>1, <2>2, SegmentNumbers, PlausibleBounds DEF Taught
  <2> QED
    BY <2>3 DEF a
<1>2. CASE Ack(p)
  <2> DEFINE ahead == Pos(e) - Pos(p.ack)
             edge == Pos(e) + ahead + p.win
  <2>1. /\ ahead \in 0 .. MaxWindow
        /\ Pos(a["original"].max_end) =
              IF edge >= Pos(w["original"].max_end) THEN edge ELSE Pos(w["original"].max_end)
    BY <1>2, AdvanceAck
  <2>2. p.dir = "reply" /\ Pos(e) \in Nat
    <3>1. e \in Int
      BY LegitSays, Space
    <3> QED
      BY <1>2, <3>1, LegitSays, PosType
  <2>3. Right(p) <= edge /\ edge \in Nat
    BY <2>1, <2>2, SegmentNumbers, Space DEF Right
  <2> HIDE DEF a, ahead, edge
  <2>4. Taught(a, p)
    BY <2>1, <2>2, <2>3, SegmentNumbers, PlausibleBounds DEF Taught
  <2> QED
    BY <2>4 DEF a
<1> QED
  BY <1>1, <1>2 DEF Legit

\* What conntrack does with its windows w when it sees p: it keeps what it knew, and
\* what it lets pass it knows of.
LEMMA ConntrackKnows ==
  ASSUME ~Dsack, EndpointsAgree, NEW p, Legit(p), NEW w, Plausible(w), Conntrack(p, w)
  PROVE  /\ Dominates(seen', w)
         /\ \/ /\ Fits(w, p, SerialSackEdge(p))
               /\ seen' = Advance(w, p, SerialSackEdge(p))
               /\ Taught(seen', p)
               /\ slow' = slow \cup {[pkt |-> p, sic |-> None]}
               /\ UNCHANGED <<client, server>>
            \/ /\ ~Fits(w, p, SerialSackEdge(p))
               /\ seen' = w
               /\ slow' = slow
               /\ IF DropInvalid THEN UNCHANGED <<client, server>> ELSE Leave(p)
<1>1. SerialSackEdge(p) \in {p.ack} \cup p.sack
  BY SackEdges
<1> DEFINE e == SerialSackEdge(p)
<1> HIDE DEF e
<1>2. Dominates(Advance(w, p, e), w) /\ Taught(Advance(w, p, e), p)
  BY <1>1, AdvanceDominates, AdvanceTeaches DEF e
<1>3. Dominates(w, w)
  BY DominatesItself
<1>4. CASE Fits(w, p, e)
  BY <1>2, <1>4 DEF Conntrack, e
<1>5. CASE ~Fits(w, p, e)
  BY <1>3, <1>5 DEF Conntrack, e
<1> QED
  BY <1>4, <1>5

\* No step loses what some windows know: windows that go away have been learnt.
LEMMA KnownInherited ==
  ASSUME ~Dsack, Protocol, EdgesPlausible, [Next]_vars
  PROVE  Inherits(Known', Known)
<1>1. /\ EndpointsAgree /\ RouterTypes
      /\ \A p \in wire : Legit(p)
      /\ \A f \in flushes : f.pkt # None => Legit(f.pkt)
  BY DEF Protocol, Travelling
<1>2. /\ Plausible(seen)
      /\ rule # None => Plausible(rule)
      /\ sis # None => Plausible(sis)
      /\ \A f \in flushes : Plausible(f.windows)
  BY DEF EdgesPlausible, Known
<1>3. \A w \in Known : Plausible(w) /\ w \in Windows /\ Dominates(w, w)
  BY <1>1, DominatesItself DEF EdgesPlausible, Plausible
<1>4. ASSUME \/ seen' = seen
             \/ seen' \in Known' /\ Dominates(seen', seen),
             \/ rule = None
             \/ \E v \in Known' : Dominates(v, rule),
             \/ sis = None
             \/ \E v \in Known' : Dominates(v, sis),
             \A f \in flushes : f \in flushes' \/ \E v \in Known' : Dominates(v, f.windows)
      PROVE  Inherits(Known', Known)
  <2>1. seen' \in Known' /\ \A f \in flushes' : f.windows \in Known'
    BY DEF Known
  <2>2. \A f \in flushes : f.windows \in Known
    BY DEF Known
  <2>3. ASSUME NEW w \in Known PROVE \E v \in Known' : Dominates(v, w)
    <3>1. CASE w = seen
      BY <1>3, <1>4, <2>1, <3>1
    <3>2. CASE w = rule /\ rule # None
      BY <1>4, <3>2
    <3>3. CASE w = sis /\ sis # None
      BY <1>4, <3>3
    <3>4. ASSUME NEW f \in flushes, w = f.windows PROVE \E v \in Known' : Dominates(v, w)
      BY <1>3, <1>4, <2>1, <2>2, <3>4
    <3> QED
      BY <3>1, <3>2, <3>3, <3>4 DEF Known
  <2> QED
    BY <2>3 DEF Inherits
<1>5. /\ rule' # None => rule' \in Known'
      /\ sis' # None => sis' \in Known'
      /\ seen' \in Known'
      /\ \A f \in flushes' : f.windows \in Known'
  BY DEF Known
<1>6. /\ rule # None => rule \in Known
      /\ sis # None => sis \in Known
      /\ seen \in Known
  BY DEF Known
<1>7. ASSUME UNCHANGED <<rule, seen, flushes, sis>> PROVE Inherits(Known', Known)
  BY <1>3, <1>4, <1>5, <1>6, <1>7
<1>8. ASSUME NEW p \in wire, FastPath(p) PROVE Inherits(Known', Known)
  <2>1. Dominates(rule', rule) /\ rule' # None
    <3>1. rule' = Advance(rule, p, SackEdge(p)) /\ Legit(p) /\ SackEdge(p) \in {p.ack} \cup p.sack
          /\ Plausible(rule)
      BY <1>1, <1>2, <1>8, SackEdges DEF FastPath
    <3>2. Plausible(rule')
      BY <1>1, <3>1, AdvancePlausible
    <3> QED
      BY <1>1, <3>1, <3>2, AdvanceDominates, NoneAssumption DEF Plausible
  <2> QED
    BY <1>3, <1>4, <1>5, <1>6, <1>8, <2>1 DEF FastPath
<1>9. ASSUME NEW p, flushes' = flushes \cup {[windows |-> rule, pkt |-> p]}, rule # None,
             UNCHANGED <<seen, sis>>
      PROVE  Inherits(Known', Known)
  <2>1. rule \in Known'
    <3>1. [windows |-> rule, pkt |-> p].windows = rule
      OBVIOUS
    <3> QED
      BY <1>5, <1>9, <3>1
  <2> QED
    BY <1>3, <1>4, <1>5, <1>6, <1>9, <2>1
<1>10. ASSUME NEW p \in wire, SlowPath(p) PROVE Inherits(Known', Known)
  <2>1. Dominates(seen', seen)
    BY <1>1, <1>2, <1>10, ConntrackKnows DEF SlowPath
  <2> QED
    BY <1>3, <1>4, <1>5, <1>6, <1>10, <2>1 DEF SlowPath
<1>11. ASSUME NEW s \in slow, CreateRule(s) PROVE Inherits(Known', Known)
  <2>1. CASE rule = None
    BY <1>3, <1>4, <1>5, <1>6, <1>11, <2>1 DEF CreateRule
  <2>2. CASE rule # None
    <3>1. Plausible(s.sic) /\ rule' = Merge(rule, s.sic)
      BY <1>1, <1>11, <2>2, FilledPlausible DEF CreateRule
    <3>2. Plausible(rule') /\ Dominates(rule', rule)
      BY <1>1, <1>2, <2>2, <3>1, MergePlausible, MergeDominates
    <3>3. rule' # None
      BY <3>2, NoneAssumption DEF Plausible
    <3> QED
      BY <1>3, <1>4, <1>5, <1>6, <1>11, <3>2, <3>3 DEF CreateRule
  <2> QED
    BY <2>1, <2>2
<1>12. CASE PeriodicSync
  BY <1>3, <1>4, <1>5, <1>6, <1>12 DEF PeriodicSync
<1>13. CASE DeliverSync
  <2>1. Dominates(seen', seen) /\ Dominates(seen', sis)
    BY <1>1, <1>2, <1>13, MergeDominates DEF DeliverSync
  <2> QED
    BY <1>3, <1>4, <1>5, <1>6, <1>13, <2>1 DEF DeliverSync
<1>14. ASSUME NEW f \in flushes, DeliverFlush(f) PROVE Inherits(Known', Known)
  <2> DEFINE w == Merge(seen, f.windows)
  <2>1. Plausible(w) /\ Dominates(w, seen) /\ Dominates(w, f.windows)
    BY <1>1, <1>2, MergePlausible, MergeDominates
  <2>2. Dominates(seen', w) /\ seen' \in Windows
    <3>1. CASE f.pkt = None
      BY <1>1, <1>14, <2>1, <3>1, DominatesItself DEF DeliverFlush, Plausible
    <3>2. CASE f.pkt # None
      <4>1. Conntrack(f.pkt, w) /\ Legit(f.pkt)
        BY <1>1, <1>14, <3>2 DEF DeliverFlush
      <4> QED
        BY <1>1, <2>1, <4>1, ConntrackKnows, ConntrackPlausible DEF Plausible
    <3> QED
      BY <3>1, <3>2
  <2> HIDE DEF w
  <2>3. Dominates(seen', seen) /\ Dominates(seen', f.windows)
    BY <1>2, <2>1, <2>2, DominatesTrans DEF Plausible
  <2>4. \A g \in flushes : g \in flushes' \/ g = f
    BY <1>14 DEF DeliverFlush
  <2> QED
    BY <1>3, <1>4, <1>5, <1>6, <1>14, <2>3, <2>4 DEF DeliverFlush
<1>15. CASE SendData \/ Retransmit \/ SendAck \/ UNCHANGED vars
  BY <1>7, <1>15 DEF SendData, Retransmit, SendAck, Transmit, vars
<1>16. ASSUME NEW p \in wire, Lose(p) PROVE Inherits(Known', Known)
  BY <1>7, <1>16 DEF Lose
<1>17. ASSUME NEW s \in slow, FillInRequest(s) \/ Skip(s) PROVE Inherits(Known', Known)
  BY <1>7, <1>17 DEF FillInRequest, Skip
<1>18. ASSUME NEW p \in wire, Flush(p) PROVE Inherits(Known', Known)
  BY <1>9, <1>18 DEF Flush
<1>19. CASE DestroyRule
  BY <1>9, <1>19 DEF DestroyRule
<1> QED
  BY <1>8, <1>10, <1>11, <1>12, <1>13, <1>14, <1>15, <1>16, <1>17, <1>18, <1>19 DEF Next

\* What the endpoints know after a segment left the router.
LEMMA LeaveSays ==
  ASSUME EndpointsAgree, NEW p, Legit(p), Leave(p)
  PROVE  /\ \A e \in {server'.rcv} \cup server'.early :
               \/ e \in {server.rcv} \cup server.early
               \/ p.dir = "original" /\ e = End(p)
         /\ \/ Pos(client'.right) = Pos(client.right)
            \/ p.dir = "reply" /\ Pos(client'.right) = Right(p)
<1>1. CASE UNCHANGED <<client, server>>
  BY <1>1
<1>2. CASE p.dir = "original" /\ ReceiveData(p)
  <2>1. Data(p)
    BY <1>2, LegitSays
  <2>2. EndpointTypes
    BY DEF EndpointsAgree
  <2>3. client' = client
    BY <1>2, <2>1, ReceiveDataSays
  <2>4. CASE \E r \in {server.rcv} \cup server.early \cup {End(p)} :
               server' = [server EXCEPT !.rcv = r,
                            !.early = {e \in server.early \cup {End(p)} : Pos(r) < Pos(e)}]
    BY <1>2, <2>2, <2>3, <2>4 DEF EndpointTypes
  <2>5. CASE server' = [server EXCEPT !.dups = IF Dsack THEN {End(p)} ELSE {}]
    BY <2>2, <2>3, <2>5 DEF EndpointTypes
  <2>6. \/ \E r \in {server.rcv} \cup server.early \cup {End(p)} :
               server' = [server EXCEPT !.rcv = r,
                            !.early = {e \in server.early \cup {End(p)} : Pos(r) < Pos(e)}]
        \/ server' = [server EXCEPT !.dups = IF Dsack THEN {End(p)} ELSE {}]
    BY <1>2, <2>1, ReceiveDataSays, Zenon
  <2> QED
    BY <2>4, <2>5, <2>6
<1>3. CASE p.dir = "reply" /\ ReceiveAck(p)
  <2>1. Ack(p)
    BY <1>3, LegitSays
  <2>2. /\ server' = server
        /\ Pos(client.right)' = IF Pos(client.right) <= Right(p) THEN Right(p) ELSE Pos(client.right)
        /\ Pos(client.right)' = Pos(client'.right)
    BY <1>3, <2>1, ReceiveAckSays DEF Pos
  <2> QED
    BY <1>3, <2>2
<1> QED
  BY <1>1, <1>2, <1>3 DEF Leave

\* What has arrived stays known when nothing is lost and windows know of the segment
\* that arrives.
LEMMA ArrivedInherited ==
  ASSUME EndpointsAgree, NEW K \in SUBSET Windows, NEW L \in SUBSET Windows, Inherits(L, K),
         ArrivedKnown(K),
         \/ UNCHANGED Arrived
         \/ \E p : Legit(p) /\ Leave(p) /\ \E v \in L : Taught(v, p)
  PROVE  /\ \A e \in {server'.rcv} \cup server'.early : KnowsEnd(L, Pos(e))
         /\ KnowsEdge(L, Pos(client'.right))
<1>1. ASSUME NEW x \in Nat, KnowsEnd(K, x) PROVE KnowsEnd(L, x)
  <2>1. PICK w \in K : x <= Pos(w["original"].end)
    BY <1>1 DEF KnowsEnd
  <2>2. PICK v \in L : Dominates(v, w)
    BY DEF Inherits
  <2> QED
    BY <2>1, <2>2, WindowNumbers DEF KnowsEnd, Dominates
<1>2. ASSUME NEW x \in Nat, KnowsEdge(K, x) PROVE KnowsEdge(L, x)
  <2>1. PICK w \in K : x <= Pos(w["original"].max_end)
    BY <1>2 DEF KnowsEdge
  <2>2. PICK v \in L : Dominates(v, w)
    BY DEF Inherits
  <2> QED
    BY <2>1, <2>2, WindowNumbers DEF KnowsEdge, Dominates
<1>3. /\ \A e \in {server.rcv} \cup server.early : KnowsEnd(L, Pos(e))
      /\ KnowsEdge(L, Pos(client.right))
  <2>1. /\ \A e \in {server.rcv} \cup server.early : Pos(e) \in Nat
        /\ Pos(client.right) \in Nat
    BY EndpointBounds, PosType, Space DEF EndpointsAgree, EndpointTypes
  <2> QED
    BY <1>1, <1>2, <2>1 DEF ArrivedKnown
<1>4. CASE UNCHANGED Arrived
  BY <1>3, <1>4 DEF Arrived
<1>5. ASSUME NEW p, Legit(p), Leave(p), NEW v \in L, Taught(v, p)
      PROVE  /\ \A e \in {server'.rcv} \cup server'.early : KnowsEnd(L, Pos(e))
             /\ KnowsEdge(L, Pos(client'.right))
  <2>1. p.dir = "original" => KnowsEnd(L, Pos(End(p)))
    BY <1>5 DEF Taught, KnowsEnd
  <2>2. p.dir = "reply" => KnowsEdge(L, Right(p))
    BY <1>5 DEF Taught, KnowsEdge
  <2> QED
    BY <1>3, <1>5, <2>1, <2>2, LeaveSays
<1> QED
  BY <1>4, <1>5

\* With DropInvalid, what passed conntrack is known, and only that arrives.
LEMMA NextPassed ==
  ASSUME ~Dsack, DropInvalid, Protocol, EdgesPlausible, PassedKnown, [Next]_vars
  PROVE  PassedKnown'
<1>1. /\ EndpointsAgree /\ RouterTypes /\ RouterTypes'
      /\ \A p \in wire : Legit(p)
      /\ \A s \in slow : Legit(s.pkt)
      /\ \A f \in flushes : f.pkt # None => Legit(f.pkt)
  BY NextProtocol DEF Protocol, Travelling
<1>2. /\ Plausible(seen)
      /\ rule # None => Plausible(rule)
      /\ \A f \in flushes : Plausible(f.windows)
  BY DEF EdgesPlausible, Known
<1>3. Known \in SUBSET Windows /\ Known' \in SUBSET Windows /\ Inherits(Known', Known)
  <2>1. Known' \subseteq Windows
    BY <1>1 DEF Known, RouterTypes, Windows, Dirs
  <2> QED
    BY <1>1, <2>1, KnownWindows, KnownInherited
<1>4. ASSUME NEW p, Legit(p), NEW w \in Known, Taught(w, p)
      PROVE  \E v \in Known' : Taught(v, p)
  <2>1. PICK v \in Known' : Dominates(v, w)
    BY <1>3 DEF Inherits
  <2> QED
    BY <1>3, <1>4, <2>1, TaughtDominates
<1>5. \A s \in slow : \E v \in Known' : Taught(v, s.pkt)
  BY <1>1, <1>4 DEF PassedKnown
<1>6. ASSUME \/ UNCHANGED Arrived
             \/ \E p : Legit(p) /\ Leave(p) /\ \E v \in Known' : Taught(v, p),
             \A t \in slow' : (\E s \in slow : t.pkt = s.pkt) \/ \E v \in Known' : Taught(v, t.pkt)
      PROVE  PassedKnown'
  <2>1. /\ \A e \in {server'.rcv} \cup server'.early : KnowsEnd(Known', Pos(e))
        /\ KnowsEdge(Known', Pos(client'.right))
    BY <1>1, <1>3, <1>6, ArrivedInherited DEF PassedKnown
  <2>2. ArrivedKnown(Known)'
    BY <2>1 DEF ArrivedKnown, KnowsEnd, KnowsEdge, Pos
  <2>3. \A t \in slow' : \E v \in Known' : Taught(v, t.pkt)
    BY <1>5, <1>6
  <2>4. (\A t \in slow : \E v \in Known : Taught(v, t.pkt))'
    BY <2>3 DEF Taught, Right, End, Plus, Pos
  <2> QED
    BY <2>2, <2>4 DEF PassedKnown
<1>7. seen' \in Known' /\ (rule' # None => rule' \in Known')
  BY DEF Known
<1>8. ASSUME NEW p, Legit(p), NEW w, Plausible(w), Conntrack(p, w)
      PROVE  PassedKnown'
  <2>1. /\ UNCHANGED <<client, server>>
        /\ \/ slow' = slow
           \/ slow' = slow \cup {[pkt |-> p, sic |-> None]} /\ Taught(seen', p)
    BY <1>1, <1>8, ConntrackKnows
  <2>2. [pkt |-> p, sic |-> None].pkt = p
    OBVIOUS
  <2> QED
    BY <1>6, <1>7, <2>1, <2>2 DEF Arrived
<1>9. ASSUME NEW p \in wire, FastPath(p) PROVE PassedKnown'
  <2>1. /\ rule' = Advance(rule, p, SackEdge(p)) /\ Legit(p) /\ SackEdge(p) \in {p.ack} \cup p.sack
        /\ Plausible(rule)
    BY <1>1, <1>2, <1>9, SackEdges DEF FastPath
  <2>2. Taught(rule', p) /\ rule' # None
    BY <1>1, <2>1, AdvanceTeaches, AdvancePlausible, NoneAssumption DEF Plausible
  <2>3. Leave(p) /\ slow' = slow
    BY <1>9 DEF FastPath
  <2> QED
    BY <1>6, <1>7, <2>1, <2>2, <2>3
<1>10. ASSUME NEW p \in wire, SlowPath(p) PROVE PassedKnown'
  BY <1>1, <1>2, <1>8, <1>10 DEF SlowPath
<1>11. ASSUME NEW s \in slow, FillInRequest(s) PROVE PassedKnown'
  <2>1. PICK t : slow' = (slow \ {s}) \cup {t} /\ t.pkt = s.pkt
    BY <1>1, <1>11, FilledTypes
  <2> QED
    BY <1>6, <1>11, <2>1 DEF FillInRequest, Arrived
<1>12. ASSUME NEW s \in slow, slow' = slow \ {s}, Leave(s.pkt) PROVE PassedKnown'
  BY <1>1, <1>5, <1>6, <1>12
<1>13. ASSUME NEW f \in flushes, DeliverFlush(f) PROVE PassedKnown'
  <2>1. Plausible(Merge(seen, f.windows))
    BY <1>1, <1>2, MergePlausible
  <2>2. CASE f.pkt = None
    BY <1>6, <1>13, <2>2 DEF DeliverFlush, Arrived
  <2>3. CASE f.pkt # None
    <3>1. Conntrack(f.pkt, Merge(seen, f.windows)) /\ Legit(f.pkt)
      BY <1>1, <1>13, <2>3 DEF DeliverFlush
    <3> QED
      BY <1>8, <2>1, <3>1
  <2> QED
    BY <2>2, <2>3
<1>14. ASSUME UNCHANGED <<client, server, slow>> PROVE PassedKnown'
  BY <1>6, <1>14 DEF Arrived
<1>15. ASSUME UNCHANGED slow, UNCHANGED Arrived PROVE PassedKnown'
  BY <1>6, <1>15
<1>16. CASE SendData
  BY <1>1, <1>15, <1>16, SendDataMoves DEF SendData, Transmit, Arrived
<1>17. CASE SendAck
  BY <1>1, <1>15, <1>17, SendAckMoves DEF SendAck, Transmit, Arrived
<1>18. CASE Retransmit \/ PeriodicSync \/ DeliverSync \/ DestroyRule \/ UNCHANGED vars
  BY <1>14, <1>18 DEF Retransmit, Transmit, PeriodicSync, DeliverSync, DestroyRule, vars
<1>19. ASSUME NEW p \in wire, Flush(p) \/ Lose(p) PROVE PassedKnown'
  BY <1>14, <1>19 DEF Flush, Lose
<1>20. ASSUME NEW s \in slow, Skip(s) \/ CreateRule(s) PROVE PassedKnown'
  BY <1>12, <1>20 DEF Skip, CreateRule
<1> QED
  BY <1>9, <1>10, <1>11, <1>13, <1>16, <1>17, <1>18, <1>19, <1>20 DEF Next

LEMMA InitPassed == Init => PassedKnown
<1> SUFFICES ASSUME Init PROVE PassedKnown
  OBVIOUS
<1>1. Protocol /\ EdgesPlausible
  BY InitProtocol, InitPlausible
<1>2. /\ seen \in Known /\ slow = {} /\ server.early = {}
      /\ seen["original"].end = server.rcv
      /\ seen["original"].max_end = client.right
  BY DEF Init, Known, Dirs
<1>3. Pos(server.rcv) \in Nat /\ Pos(client.right) \in Nat
  BY <1>1, EndpointBounds DEF Protocol
<1> QED
  BY <1>2, <1>3 DEF PassedKnown, ArrivedKnown, KnowsEnd, KnowsEdge

\* What is known in positions is known in serial numbers.
LEMMA KnownSays ==
  ASSUME Protocol, EdgesPlausible, ArrivedKnown(Known)
  PROVE  NothingForgotten
<1>1. EndpointsAgree /\ \A w \in Known : Plausible(w)
  BY DEF Protocol, EdgesPlausible
<1>2. ASSUME NEW e \in {server.rcv} \cup server.early
      PROVE  \E w \in Known : Diff(w["original"].end, e) >= 0
  <2>1. e \in Int /\ Pos(e) \in Nat /\ Pos(e) < Half
    BY <1>1, EndpointBounds, Space DEF EndpointsAgree, Sent
  <2>2. PICK w \in Known : Pos(e) <= Pos(w["original"].end)
    BY DEF ArrivedKnown, KnowsEnd
  <2>3. /\ w["original"].end \in Int /\ Pos(w["original"].end) \in Nat
        /\ Pos(w["original"].end) < Half
    BY <1>1, PlausibleBounds
  <2>4. Diff(w["original"].end, e) = Pos(w["original"].end) - Pos(e)
    BY <2>1, <2>3, DiffPos
  <2> QED
    BY <2>1, <2>2, <2>3, <2>4
<1>3. \E w \in Known : Diff(w["original"].max_end, client.right) >= 0
  <2>1. client.right \in Int /\ Pos(client.right) \in Nat /\ Pos(client.right) < Half
    BY <1>1, EndpointBounds, Space
  <2>2. PICK w \in Known : Pos(client.right) <= Pos(w["original"].max_end)
    BY DEF ArrivedKnown, KnowsEdge
  <2>3. /\ w["original"].max_end \in Int /\ Pos(w["original"].max_end) \in Nat
        /\ Pos(w["original"].max_end) < Half
    BY <1>1, PlausibleBounds
  <2>4. Diff(w["original"].max_end, client.right) = Pos(w["original"].max_end) - Pos(client.right)
    BY <2>1, <2>3, DiffPos
  <2> QED
    BY <2>1, <2>2, <2>3, <2>4
<1> QED
  BY <1>2, <1>3 DEF NothingForgotten

\* However many segments the router handles at once, what reached the endpoints is
\* known to a rule, to conntrack or to a message between the two (recv_tcp,
\* sync_rule, update_tcp_state), if the firewall drops what conntrack finds invalid.
THEOREM NothingForgottenDropping ==
  ASSUME ~Dsack, DropInvalid
  PROVE  Spec => []NothingForgotten
<1> DEFINE I == Protocol /\ EdgesPlausible /\ PassedKnown
<1>1. Init => I
  BY InitProtocol, InitPlausible, InitPassed
<1>2. I /\ [Next]_vars => I'
  BY NextProtocol, NextPlausible, NextPassed
<1>3. I => NothingForgotten
  BY KnownSays DEF PassedKnown
<1> QED
  BY <1>1, <1>2, <1>3, PTL DEF Spec

-----------------------------------------------------------------------------
(* Acknowledgements in order.                                              *)

Received(e) == Pos(e) <= Pos(server.rcv) \/ e \in server.early

Replies == {p \in Travelling : p.dir = "reply"}

\* The SACK blocks report what arrived, a later acknowledgement announces no
\* smaller edge, and the client knows the edge of what it has been acknowledged.
Orderly ==
    /\ Pos(client.right) <= Pos(client.una) + MaxWindow
    /\ \A p \in Replies : /\ \A e \in p.sack : Received(e)
                          /\ Pos(p.ack) < Pos(client.una) => Right(p) <= Pos(client.right)
    /\ \A p, q \in Replies : Pos(p.ack) < Pos(q.ack) => Right(p) <= Right(q)

LEMMA InitOrderly == Init => Orderly
<1> SUFFICES ASSUME Init PROVE Orderly
  OBVIOUS
<1>1. Protocol
  BY InitProtocol
<1>2. Replies = {}
  BY DEF Init, Replies, Travelling
<1>3. Pos(client.right) <= Pos(client.una) + MaxWindow
  <2>1. Start \in Int /\ MaxWindow \in Int /\ 0 <= Pos(Start) + MaxWindow /\ Pos(Start) + MaxWindow < M
        /\ Pos(Start) \in Int
    BY PosStart, Space
  <2>2. Pos(Plus(Start, MaxWindow)) = Pos(Start) + MaxWindow
    BY <2>1, PlusPos
  <2> QED
    BY <2>1, <2>2, Space DEF Init
<1> QED
  BY <1>2, <1>3 DEF Orderly

\* What the server has stays received.
LEMMA ReceivedForward ==
  ASSUME EndpointsAgree, EndpointsAgree', NEW e \in Seqs, Received(e),
         Forward,
         \/ server'.early = server.early
         \/ \E a : server'.early = {x \in server.early \cup {a} : Pos(server'.rcv) < Pos(x)}
  PROVE  Pos(e) <= Pos(server'.rcv) \/ e \in server'.early
<1>1. /\ Pos(e) \in Nat /\ Pos(server.rcv) \in Nat /\ Pos(server'.rcv) \in Nat
      /\ Pos(server.rcv) <= Pos(server'.rcv)
  <2>1. server.rcv \in Seqs /\ server'.rcv \in Seqs
    BY DEF EndpointsAgree, EndpointTypes
  <2> QED
    BY <2>1, PosType, Space DEF Forward, Pos
<1> QED
  BY <1>1 DEF Received

\* A reply in numbers.
LEMMA ReplySays ==
  ASSUME Protocol, NEW p \in Replies
  PROVE  /\ p \in Travelling /\ Legit(p) /\ Ack(p)
         /\ Pos(p.ack) \in Nat /\ Right(p) \in Nat /\ p.sack \subseteq Seqs
         /\ Pos(p.ack) <= Pos(server.rcv) /\ Right(p) <= Pos(p.ack) + MaxWindow
         /\ Right(p) <= Pos(server.right)
<1>1. p \in Travelling /\ p.dir = "reply" /\ Legit(p)
  BY DEF Replies, Protocol
<1>2. Ack(p) /\ Pos(p.ack) \in Nat /\ p.win \in Nat
  BY <1>1, LegitSays, SegmentNumbers
<1> QED
  BY <1>1, <1>2, LegitSays, SegmentNumbers, Space DEF Ack, Right

LEMMA NextOrderly ==
  ASSUME ~Dsack, Protocol, Orderly, [Next]_vars
  PROVE  Orderly'
<1>1. /\ EndpointsAgree /\ Protocol' /\ EndpointsAgree' /\ Forward
  BY NextProtocol DEF Protocol
<1>2. /\ \A a \in {client.una, client.right, server.rcv, server.right} : Pos(a) \in Nat
      /\ \A a \in {client'.una, client'.right, server'.rcv, server'.right} : Pos(a) \in Nat
      /\ Pos(server.rcv) <= Pos(server'.rcv) /\ Pos(client.una) <= Pos(server.rcv)
  <2>1. /\ client.una \in Seqs /\ client.right \in Seqs /\ server.rcv \in Seqs /\ server.right \in Seqs
        /\ client'.una \in Seqs /\ client'.right \in Seqs /\ server'.rcv \in Seqs
        /\ server'.right \in Seqs
    BY <1>1 DEF EndpointsAgree, EndpointTypes
  <2>2. \A a \in Seqs : Pos(a) \in Nat
    BY PosType, Space
  <2>3. Pos(server.rcv) <= Pos(server'.rcv)
    BY <1>1 DEF Forward, Pos
  <2>4. Pos(client.una) <= Pos(server.rcv)
    BY <1>1 DEF EndpointsAgree
  <2> QED
    BY <2>1, <2>2, <2>3, <2>4
<1>3. ASSUME Pos(client'.right) <= Pos(client'.una) + MaxWindow,
             \A p \in Replies' :
                /\ \A e \in p.sack : Pos(e) <= Pos(server'.rcv) \/ e \in server'.early
                /\ Pos(p.ack) < Pos(client'.una) => Right(p) <= Pos(client'.right),
             \A p, q \in Replies' : Pos(p.ack) < Pos(q.ack) => Right(p) <= Right(q)
      PROVE  Orderly'
  BY <1>3 DEF Orderly, Received, Right, Pos
<1>4. ASSUME \/ server'.early = server.early
             \/ \E a : server'.early = {x \in server.early \cup {a} : Pos(server'.rcv) < Pos(x)},
             NEW p \in Replies
      PROVE  \A e \in p.sack : Pos(e) <= Pos(server'.rcv) \/ e \in server'.early
  BY <1>1, <1>4, ReplySays, ReceivedForward DEF Orderly
<1>5. ASSUME client'.una = client.una, client'.right = client.right, Replies' \subseteq Replies,
             \/ server'.early = server.early
             \/ \E a : server'.early = {x \in server.early \cup {a} : Pos(server'.rcv) < Pos(x)}
      PROVE  Orderly'
  BY <1>3, <1>4, <1>5 DEF Orderly
<1>6. ASSUME Travelling' \subseteq Travelling PROVE Replies' \subseteq Replies
  BY <1>6 DEF Replies
<1>7. ASSUME NEW q, wire' = wire \cup {q}, UNCHANGED <<slow, flushes>>
      PROVE  Travelling' \subseteq Travelling \cup {q}
  BY <1>7 DEF Travelling
<1>8. ASSUME NEW q, Data(q) \/ Data(q)', Travelling' \subseteq Travelling \cup {q}
      PROVE  Replies' \subseteq Replies
  <2>1. q.dir = "original"
    BY <1>8 DEF Data, Segment
  <2> QED
    BY <1>8, <2>1 DEF Replies
<1>9. CASE SendData
  <2>1. PICK q : wire' = wire \cup {q} /\ Data(q)'
    BY <1>1, <1>9, SendDataMoves
  <2>2. Replies' \subseteq Replies
    BY <1>7, <1>8, <1>9, <2>1 DEF SendData, Transmit
  <2> QED
    BY <1>1, <1>5, <1>9, <2>2, SendDataMoves
<1>10. CASE Retransmit
  <2>1. PICK q : wire' = wire \cup {q} /\ Data(q)
    BY <1>1, <1>10, RetransmitMoves
  <2>2. Replies' \subseteq Replies
    BY <1>7, <1>8, <1>10, <2>1 DEF Retransmit, Transmit
  <2> QED
    BY <1>1, <1>5, <1>10, <2>2, RetransmitMoves
<1>11. CASE SendAck
  <2>1. PICK q : /\ wire' = wire \cup {q} /\ Ack(q)'
                 /\ q.ack = server.rcv /\ q.sack \subseteq server.early \cup server.dups
                 /\ Right(q) = Pos(server'.right)
    BY <1>1, <1>11, SendAckMoves
  <2>2. Travelling' \subseteq Travelling \cup {q}
    BY <1>7, <1>11, <2>1 DEF SendAck, Transmit
  <2>3. Replies' \subseteq Replies \cup {q}
    BY <2>2 DEF Replies
  <2>4. client' = client /\ server'.rcv = server.rcv /\ server'.early = server.early
    BY <1>1, <1>11, SendAckMoves
  <2>5. server.dups = {}
    BY <1>1 DEF EndpointsAgree, EndpointTypes
  <2>6. Pos(server.right) <= Pos(server'.right)
    BY <1>1 DEF Forward, Pos
  <2>7. ASSUME NEW p \in Replies'
        PROVE  /\ \A e \in p.sack : Pos(e) <= Pos(server'.rcv) \/ e \in server'.early
               /\ Pos(p.ack) < Pos(client'.una) => Right(p) <= Pos(client'.right)
    <3>1. CASE p = q
      BY <1>2, <2>1, <2>4, <2>5, <3>1
    <3>2. CASE p \in Replies
      BY <1>4, <2>4, <3>2 DEF Orderly
    <3> QED
      BY <2>3, <3>1, <3>2
  <2>8. ASSUME NEW p \in Replies', NEW r \in Replies', Pos(p.ack) < Pos(r.ack)
        PROVE  Right(p) <= Right(r)
    <3>1. CASE p \in Replies /\ r \in Replies
      BY <2>8, <3>1 DEF Orderly
    <3>2. CASE p \in Replies /\ r = q
      BY <1>2, <2>1, <2>6, <3>2, ReplySays
    <3>3. CASE p = q /\ r \in Replies
      BY <1>2, <2>1, <2>8, <3>3, ReplySays
    <3>4. CASE p = q /\ r = q
      BY <1>2, <2>1, <2>8, <3>4
    <3> QED
      BY <2>3, <3>1, <3>2, <3>3, <3>4
  <2>9. Pos(client'.right) <= Pos(client'.una) + MaxWindow
    BY <2>4 DEF Orderly
  <2>10. \A p, r \in Replies' : Pos(p.ack) < Pos(r.ack) => Right(p) <= Right(r)
    BY <2>8
  <2> QED
    BY <1>3, <2>7, <2>9, <2>10
<1>12. ASSUME Replies' \subseteq Replies, NEW p \in Travelling, Leave(p) PROVE Orderly'
  <2>1. Legit(p)
    BY DEF Protocol
  <2>2. CASE UNCHANGED <<client, server>>
    BY <1>5, <1>12, <2>2
  <2>3. CASE p.dir = "original" /\ ReceiveData(p)
    <3>1. Data(p) /\ EndpointTypes
      BY <1>1, <2>1, <2>3, LegitSays DEF EndpointsAgree
    <3>2. client' = client
      BY <1>1, <2>3, <3>1, ReceiveDataSays
    <3>3. \/ \E r \in {server.rcv} \cup server.early \cup {End(p)} :
               server' = [server EXCEPT !.rcv = r,
                            !.early = {e \in server.early \cup {End(p)} : Pos(r) < Pos(e)}]
          \/ server' = [server EXCEPT !.dups = IF Dsack THEN {End(p)} ELSE {}]
      BY <1>1, <2>3, <3>1, ReceiveDataSays, ZenonT(60)
    <3>4. \/ server'.early = server.early
          \/ server'.early = {x \in server.early \cup {End(p)} : Pos(server'.rcv) < Pos(x)}
      BY <3>1, <3>3 DEF EndpointTypes
    <3> QED
      BY <1>5, <1>12, <3>2, <3>4
  <2>4. CASE p.dir = "reply" /\ ReceiveAck(p)
    <3>1. Ack(p) /\ p \in Replies
      BY <2>1, <2>4, LegitSays DEF Replies
    <3>2. /\ server' = server
          /\ Pos(client'.una) = IF Pos(client.una) <= Pos(p.ack) THEN Pos(p.ack) ELSE Pos(client.una)
          /\ Pos(client'.right) = IF Pos(client.right) <= Right(p) THEN Right(p) ELSE Pos(client.right)
      BY <1>1, <2>4, <3>1, ReceiveAckSays DEF Pos
    <3>3. Pos(client'.right) <= Pos(client'.una) + MaxWindow
      BY <1>2, <3>1, <3>2, ReplySays, Space DEF Orderly
    <3>4. ASSUME NEW q \in Replies', Pos(q.ack) < Pos(client'.una)
          PROVE  Right(q) <= Pos(client'.right)
      <4>1. q \in Replies /\ Right(q) \in Nat /\ Right(p) \in Nat /\ Pos(q.ack) \in Nat
        BY <1>12, <3>1, ReplySays
      <4>2. CASE Pos(q.ack) < Pos(client.una)
        <5>1. Right(q) <= Pos(client.right)
          BY <4>1, <4>2 DEF Orderly
        <5> QED
          BY <1>2, <3>2, <4>1, <5>1
      <4>3. CASE Pos(q.ack) < Pos(p.ack)
        <5>1. Right(q) <= Right(p)
          BY <3>1, <4>1, <4>3 DEF Orderly
        <5> QED
          BY <1>2, <3>2, <4>1, <5>1
      <4> QED
        BY <3>2, <3>4, <4>2, <4>3
    <3>5. \A q \in Replies' : \A e \in q.sack : Pos(e) <= Pos(server'.rcv) \/ e \in server'.early
      BY <1>4, <1>12, <3>2
    <3>6. \A q, r \in Replies' : Pos(q.ack) < Pos(r.ack) => Right(q) <= Right(r)
      BY <1>12 DEF Orderly
    <3> QED
      BY <1>3, <3>3, <3>4, <3>5, <3>6
  <2> QED
    BY <1>12, <2>2, <2>3, <2>4 DEF Leave
<1>13. CASE RouterNext
  <2>1. /\ Travelling' \subseteq Travelling
        /\ UNCHANGED <<client, server>> \/ \E p \in Travelling : Leave(p)
    BY <1>13, RouterSteps
  <2> QED
    BY <1>5, <1>6, <1>12, <2>1
<1>14. CASE UNCHANGED vars
  <2>1. Travelling' = Travelling
    BY <1>14 DEF vars, Travelling
  <2> QED
    BY <1>5, <1>6, <1>14, <2>1 DEF vars
<1> QED
  BY <1>9, <1>10, <1>11, <1>13, <1>14 DEF Next, RouterNext

-----------------------------------------------------------------------------
(* The tests.                                                              *)

\* The difference to a number that is not reduced to the sequence space.
LEMMA DiffShift ==
  ASSUME NEW a \in Int, NEW b \in Int, NEW n \in Int, NEW c \in Int, c = b + n,
         -Half <= Pos(a) - Pos(b) - n, Pos(a) - Pos(b) - n < Half
  PROVE  Diff(a, c) = Pos(a) - Pos(b) - n
<1>1. Pos(a) \in Int /\ Pos(b) \in Int /\ At(a, Pos(a)) /\ At(b, Pos(b))
  BY PosAt, Space
<1>2. At(b + n, Pos(b) + n)
  BY <1>1, AtShift
<1>3. /\ Pos(b) + n \in Int /\ Pos(a) - (Pos(b) + n) = Pos(a) - Pos(b) - n
  BY <1>1
<1> QED
  BY <1>1, <1>2, <1>3, AtDiff

\* A segment is useful if it is ahead of what its receiver has.
LEMMA UsefulSays ==
  ASSUME Protocol, NEW p \in Travelling
  PROVE  /\ p.dir = "original" => (Useful(p) <=> Pos(server.rcv) < Pos(End(p)))
         /\ p.dir = "reply" => (Useful(p) <=> Pos(client.una) <= Pos(p.ack))
<1>1. EndpointsAgree /\ Legit(p)
  BY DEF Protocol
<1>2. /\ \A a \in {client.una, server.rcv} : a \in Int /\ Pos(a) \in Nat /\ Pos(a) < Half
  BY <1>1, EndpointBounds, Space
<1>3. ASSUME p.dir = "original"
      PROVE  Useful(p) <=> Pos(server.rcv) < Pos(End(p))
  <2>1. End(p) \in Int /\ Pos(End(p)) \in Nat /\ Pos(End(p)) < Half
    BY <1>1, <1>3, LegitSays, EndpointBounds, Space DEF Data, Sent
  <2>2. Diff(End(p), server.rcv) = Pos(End(p)) - Pos(server.rcv)
    BY <1>2, <2>1, DiffPos
  <2> QED
    BY <1>2, <1>3, <2>1, <2>2 DEF Useful
<1>4. ASSUME p.dir = "reply"
      PROVE  Useful(p) <=> Pos(client.una) <= Pos(p.ack)
  <2>1. p.ack \in Int /\ Pos(p.ack) \in Nat /\ Pos(p.ack) < Half
    BY <1>1, <1>4, LegitSays, EndpointBounds, Space DEF Ack, Sent
  <2>2. Diff(p.ack, client.una) = Pos(p.ack) - Pos(client.una)
    BY <1>2, <2>1, DiffPos
  <2> QED
    BY <1>2, <1>4, <2>1, <2>2 DEF Useful
<1> QED
  BY <1>3, <1>4

\* Windows that know of all that arrived find no useful segment outside.
LEMMA UsefulFits ==
  ASSUME ~Dsack, Protocol, Orderly, NEW w, Plausible(w), ArrivedKnown({w}),
         NEW p \in Travelling, Useful(p), NEW e \in {p.ack} \cup p.sack
  PROVE  Fits(w, p, e)
<1> DEFINE o == w["original"]
           r == w["reply"]
<1>1. EndpointsAgree /\ Legit(p)
  BY DEF Protocol
<1>2. /\ o.end \in Int /\ o.max_end \in Int
      /\ Pos(o.end) \in Nat /\ Pos(o.max_end) \in Nat
      /\ Pos(o.end) <= Pos(client.nxt)
      /\ Pos(o.max_end) <= Stream + 2 * MaxWindow
      /\ o.max_win = MaxWindow
      /\ r.end = 0 /\ r.max_end = MaxWindow
      /\ MaxWindow <= r.max_win /\ r.max_win <= 2 * MaxWindow /\ r.max_win \in Nat
  BY <1>1, PlausibleBounds
<1>3. /\ Pos(server.rcv) <= Pos(o.end)
      /\ \A x \in server.early : Pos(x) <= Pos(o.end)
      /\ Pos(client.right) <= Pos(o.max_end)
  BY DEF ArrivedKnown, KnowsEnd, KnowsEdge
<1>4. /\ \A a \in {client.una, client.nxt, client.right, server.rcv, server.right} :
            a \in Int /\ Pos(a) \in Nat /\ Pos(a) <= Stream + MaxWindow
      /\ Pos(client.nxt) <= Stream
      /\ Pos(client.nxt) <= Pos(client.right)
      /\ Pos(client.right) <= Pos(server.rcv) + MaxWindow
      /\ Pos(client.right) <= Pos(client.una) + MaxWindow
  BY <1>1, EndpointBounds, Space DEF EndpointsAgree, Orderly
<1> HIDE DEF o, r
<1>5. CASE Data(p)
  <2>1. /\ p.dir = "original" /\ p.seq \in Int /\ Pos(p.seq) \in Nat /\ e = 0
        /\ End(p) \in Int /\ Pos(End(p)) \in Nat
        /\ Pos(End(p)) = Pos(p.seq) + Len /\ Pos(End(p)) <= Pos(client.nxt)
    <3>1. p.seq \in Int /\ End(p) \in Int
      BY <1>1, LegitSays, Space
    <3> QED
      BY <1>5, <3>1, PosType DEF Data, Sent, Segment
  <2>2. Pos(server.rcv) < Pos(End(p))
    BY <2>1, UsefulSays
  <2>3. Diff(p.seq, o.max_end + 1) <= 0
    <3>1. /\ -Half <= Pos(p.seq) - Pos(o.max_end) - 1 /\ Pos(p.seq) - Pos(o.max_end) - 1 < Half
          /\ Pos(p.seq) - Pos(o.max_end) - 1 <= 0
      BY <1>2, <1>3, <1>4, <2>1, Space
    <3> QED
      BY <1>2, <2>1, <3>1, DiffShift
  <2>4. Diff(End(p), o.end - r.max_win - 1) >= 0
    <3> DEFINE n == -r.max_win - 1
    <3>1. n \in Int /\ o.end - r.max_win - 1 = o.end + n /\ o.end + n \in Int
      BY <1>2
    <3>2. /\ -Half <= Pos(End(p)) - Pos(o.end) - n /\ Pos(End(p)) - Pos(o.end) - n < Half
          /\ Pos(End(p)) - Pos(o.end) - n >= 0
      BY <1>2, <1>3, <1>4, <2>1, <2>2, Space
    <3> HIDE DEF n
    <3> QED
      BY <1>2, <2>1, <3>1, <3>2, DiffShift
  <2>5. Diff(e, r.end + 1) <= 0
    BY <1>2, <2>1, DiffNear, Space
  <2>6. Diff(e, r.end - o.max_win - AckWindow - 1) >= 0
    BY <1>2, <2>1, DiffNear, Space
  <2> QED
    BY <2>1, <2>3, <2>4, <2>5, <2>6 DEF Fits, Other, o, r
<1>6. CASE Ack(p)
  <2>1. /\ p.dir = "reply" /\ p.seq = 0 /\ p.len = 0 /\ p \in Replies
        /\ Pos(p.ack) \in Nat /\ Pos(p.ack) <= Pos(server.rcv)
        /\ e = p.ack \/ (Pos(p.ack) < Pos(e) /\ Pos(e) <= Pos(p.ack) + MaxWindow)
        /\ e \in Int /\ Pos(e) \in Nat
    <3>1. p.ack \in Int /\ e \in Int
      BY <1>1, LegitSays, Space
    <3> QED
      BY <1>6, <3>1, PosType DEF Ack, Replies
  <2>2. End(p) = 0
    <3>1. 0 \in 0 .. M - 1 /\ 0 \in Int /\ 0 + 0 = 0 + 0 * M /\ 0 + 0 \in Int
      BY Space
    <3>2. (0 + 0) % M = 0
      BY <3>1, ModIs
    <3> QED
      BY <2>1, <3>2 DEF End, Plus
  <2>3. Pos(client.una) <= Pos(p.ack)
    BY <2>1, UsefulSays
  <2>4. Pos(e) <= Pos(o.end)
    <3>1. CASE e = p.ack
      BY <1>2, <1>3, <1>4, <2>1, <3>1
    <3>2. CASE e \in p.sack
      <4>1. Received(e)
        BY <2>1, <3>2 DEF Orderly
      <4> QED
        BY <1>2, <1>3, <1>4, <2>1, <4>1 DEF Received
    <3> QED
      BY <3>1, <3>2
  <2>5. Diff(p.seq, r.max_end + 1) <= 0
    BY <1>2, <2>1, DiffNear, Space
  <2>6. Diff(End(p), r.end - o.max_win - 1) >= 0
    BY <1>2, <2>2, DiffNear, Space
  <2>7. Diff(e, o.end + 1) <= 0
    <3>1. /\ -Half <= Pos(e) - Pos(o.end) - 1 /\ Pos(e) - Pos(o.end) - 1 < Half
          /\ Pos(e) - Pos(o.end) - 1 <= 0
      BY <1>2, <1>4, <2>1, <2>4, Space
    <3> QED
      BY <1>2, <2>1, <3>1, DiffShift
  <2>8. Diff(e, o.end - r.max_win - AckWindow - 1) >= 0
    <3> DEFINE n == -r.max_win - AckWindow - 1
    <3>1. n \in Int /\ o.end - r.max_win - AckWindow - 1 = o.end + n /\ o.end + n \in Int
      BY <1>2, Space
    <3>2. Pos(e) >= Pos(client.una)
      BY <1>4, <2>1, <2>3
    <3>3. /\ -Half <= Pos(e) - Pos(o.end) - n /\ Pos(e) - Pos(o.end) - n < Half
          /\ Pos(e) - Pos(o.end) - n >= 0
      BY <1>2, <1>4, <2>1, <2>4, <3>2, Space
    <3> HIDE DEF n
    <3> QED
      BY <1>2, <2>1, <3>1, <3>3, DiffShift
  <2> QED
    BY <2>1, <2>5, <2>6, <2>7, <2>8 DEF Fits, Other, o, r
<1> QED
  BY <1>1, <1>5, <1>6 DEF Legit

\* A segment that is not useful changes nothing when it arrives.
LEMMA UselessSays ==
  ASSUME ~Dsack, Protocol, Orderly, NEW p \in Travelling, ~Useful(p), Leave(p)
  PROVE  UNCHANGED Arrived
<1>1. EndpointsAgree /\ Legit(p) /\ EndpointTypes
  BY DEF Protocol, EndpointsAgree
<1>2. CASE UNCHANGED <<client, server>>
  BY <1>2 DEF Arrived
<1>3. CASE p.dir = "original" /\ ReceiveData(p)
  <2>1. Data(p) /\ ~(Pos(server.rcv) < Pos(End(p)))
    BY <1>1, <1>3, LegitSays, UsefulSays
  <2>2. client' = client /\ server' = [server EXCEPT !.dups = IF Dsack THEN {End(p)} ELSE {}]
    BY <1>1, <1>3, <2>1, ReceiveDataSays, Zenon
  <2> QED
    BY <1>1, <2>2 DEF Arrived, EndpointTypes
<1>4. CASE p.dir = "reply" /\ ReceiveAck(p)
  <2>1. Ack(p) /\ p \in Replies /\ ~(Pos(client.una) <= Pos(p.ack))
    BY <1>1, <1>4, LegitSays, UsefulSays DEF Replies
  <2>2. /\ Pos(client.una) \in Nat /\ Pos(client.right) \in Nat /\ Pos(p.ack) \in Nat
        /\ client.right \in Seqs
    BY <1>1, EndpointBounds, SegmentNumbers
  <2>3. Right(p) <= Pos(client.right) /\ Right(p) \in Nat
    BY <1>1, <2>1, <2>2, SegmentNumbers DEF Orderly
  <2>4. /\ server' = server /\ client'.right \in Seqs
        /\ Pos(client'.right) = IF Pos(client.right) <= Right(p) THEN Right(p) ELSE Pos(client.right)
    BY <1>1, <1>4, <2>1, ReceiveAckSays DEF Pos
  <2>5. Pos(client'.right) = Pos(client.right)
    BY <2>2, <2>3, <2>4
  <2>6. client'.right = client.right
    BY <2>2, <2>4, <2>5, PosUnique
  <2> QED
    BY <2>4, <2>6 DEF Arrived
<1> QED
  BY <1>2, <1>3, <1>4, Zenon DEF Leave

-----------------------------------------------------------------------------
(* One segment at a time.                                                  *)

\* A router that handles one segment at a time has one of them in the stack, or one
\* last message of a rule to deliver, and neither while there is a rule.
Lone ==
    /\ slow = {} \/ \E s : slow = {s}
    /\ flushes = {} \/ \E f : flushes = {f}
    /\ slow = {} \/ flushes = {}
    /\ rule # None => slow = {} /\ flushes = {}

\* The windows that know the most: those of the rule, of the message about its
\* removal, and otherwise those of conntrack.
Leader(v) ==
    \/ rule # None /\ v = rule
    \/ rule = None /\ flushes = {} /\ v = seen
    \/ rule = None /\ \E f \in flushes : v = f.windows

\* A request holds what conntrack knows.
Copied(r, v) ==
    r # None => /\ r["original"] = v["original"]
                /\ DOMAIN r = Dirs => r["reply"] = v["reply"]

Leads(v) ==
    /\ ArrivedKnown({v})
    /\ \A w \in Known : Dominates(v, w)
    /\ \A s \in slow : Taught(v, s.pkt)

LeaderKnows ==
    /\ \A v : Leader(v) => Leads(v)
    /\ \A s \in slow : Copied(s.sic, seen)

\* A router with room for a segment has none.
LEMMA RoomMeansNone ==
  ASSUME Cpus = 1, Lone, Busy < Cpus
  PROVE  slow = {} /\ flushes = {}
<1>1. Cardinality({}) = 0 /\ \A x : Cardinality({x}) = 1
  BY FS_EmptySet, FS_Singleton
<1>2. /\ slow = {} \/ Cardinality(slow) = 1
      /\ flushes = {} \/ Cardinality(flushes) = 1
  BY <1>1 DEF Lone
<1>3. Cardinality(slow) \in {0, 1} /\ Cardinality(flushes) \in {0, 1}
  BY <1>1, <1>2
<1>4. Cardinality(slow) + Cardinality(flushes) < 1
  BY DEF Busy
<1>5. Cardinality(slow) = 0 /\ Cardinality(flushes) = 0
  BY <1>3, <1>4
<1> QED
  BY <1>2, <1>5

\* It never has two.
LEMMA NextLone ==
  ASSUME Cpus = 1, Lone, [Next]_vars
  PROVE  Lone'
<1>1. CASE UNCHANGED <<rule, slow, flushes>>
  BY <1>1 DEF Lone
<1>2. CASE SendData \/ Retransmit \/ SendAck \/ PeriodicSync \/ DeliverSync \/ UNCHANGED vars
  BY <1>1, <1>2 DEF SendData, Retransmit, SendAck, Transmit, PeriodicSync, DeliverSync, vars
<1>3. ASSUME NEW p \in wire, FastPath(p) PROVE Lone'
  BY <1>3 DEF FastPath, Lone
<1>4. ASSUME NEW p \in wire, Flush(p) PROVE Lone'
  BY <1>4, RoomMeansNone DEF Flush, Lone
<1>5. ASSUME NEW p \in wire, Lose(p) PROVE Lone'
  BY <1>1, <1>5 DEF Lose
<1>6. ASSUME NEW p, NEW w, Conntrack(p, w), slow = {}, rule = None, UNCHANGED rule, flushes' = {}
      PROVE  Lone'
  <2>1. slow' \in {{}, {[pkt |-> p, sic |-> None]}}
    BY <1>6 DEF Conntrack
  <2> QED
    BY <1>6, <2>1 DEF Lone
<1>7. ASSUME NEW p \in wire, SlowPath(p) PROVE Lone'
  BY <1>6, <1>7, RoomMeansNone DEF SlowPath
<1>8. ASSUME NEW s \in slow, NEW t, slow' = (slow \ {s}) \cup {t}, UNCHANGED <<rule, flushes>>
      PROVE  Lone'
  BY <1>8 DEF Lone
<1>9. ASSUME NEW s \in slow, FillInRequest(s) PROVE Lone'
  BY <1>8, <1>9 DEF FillInRequest
<1>10. ASSUME NEW s \in slow, slow' = slow \ {s}, UNCHANGED flushes PROVE Lone'
  BY <1>10 DEF Lone
<1>11. ASSUME NEW s \in slow, Skip(s) \/ CreateRule(s) PROVE Lone'
  BY <1>10, <1>11 DEF Skip, CreateRule
<1>12. CASE DestroyRule
  BY <1>12, RoomMeansNone DEF DestroyRule, Lone
<1>13. ASSUME NEW f \in flushes, DeliverFlush(f) PROVE Lone'
  <2>1. slow = {} /\ rule = None /\ flushes' = {} /\ UNCHANGED rule
    BY <1>13 DEF Lone, DeliverFlush
  <2>2. CASE f.pkt = None
    BY <1>13, <2>1, <2>2 DEF DeliverFlush, Lone
  <2>3. CASE f.pkt # None
    BY <1>6, <1>13, <2>1, <2>3 DEF DeliverFlush
  <2> QED
    BY <2>2, <2>3
<1> QED
  BY <1>2, <1>3, <1>4, <1>5, <1>7, <1>9, <1>11, <1>12, <1>13 DEF Next

\* Windows that dominate two others dominate what one learns from the other.
LEMMA DominatesMerge ==
  ASSUME EndpointsAgree, NEW u, Plausible(u), NEW w, Plausible(w), NEW v, Plausible(v),
         Dominates(u, w), Dominates(u, v)
  PROVE  Dominates(u, Merge(w, v))
<1> DEFINE m == Merge(w, v)
<1>1. /\ Pos(m["original"].end) =
            IF Pos(w["original"].end) >= Pos(v["original"].end)
            THEN Pos(w["original"].end) ELSE Pos(v["original"].end)
      /\ Pos(m["original"].max_end) =
            IF Pos(w["original"].max_end) >= Pos(v["original"].max_end)
            THEN Pos(w["original"].max_end) ELSE Pos(v["original"].max_end)
      /\ m["reply"].max_win = IF w["reply"].max_win >= v["reply"].max_win
                              THEN w["reply"].max_win ELSE v["reply"].max_win
  BY MergePlausible
<1> HIDE DEF m
<1>2. Dominates(u, m)
  BY <1>1 DEF Dominates
<1> QED
  BY <1>2 DEF m

\* Windows learn nothing from windows they dominate.
LEMMA MergeSame ==
  ASSUME EndpointsAgree, NEW w, Plausible(w), NEW v, Plausible(v), Dominates(w, v)
  PROVE  Merge(w, v) = w
<1> DEFINE m == Merge(w, v)
<1>1. \A d \in Dirs : /\ Diff(w[d].end, v[d].end) >= 0
                      /\ Diff(w[d].max_end, v[d].max_end) >= 0
                      /\ w[d].max_win >= v[d].max_win
  BY DominatesEdges
<1>2. ASSUME NEW d \in Dirs
      PROVE  w[d] = [end |-> Later(w[d].end, v[d].end),
                     max_end |-> Later(w[d].max_end, v[d].max_end),
                     max_win |-> Max({w[d].max_win, v[d].max_win})]
  <2>1. /\ w[d] \in [end : Seqs, max_end : Seqs, max_win : Seqs]
        /\ w[d].max_win \in Nat /\ v[d].max_win \in Nat
    BY DEF Plausible, Windows
  <2>2. Max({w[d].max_win, v[d].max_win}) = w[d].max_win
    BY <1>1, <2>1, MaxTwo
  <2>3. Later(w[d].end, v[d].end) = w[d].end /\ Later(w[d].max_end, v[d].max_end) = w[d].max_end
    BY <1>1 DEF Later
  <2> QED
    BY <2>1, <2>2, <2>3
<1>3. w = [d \in Dirs |-> w[d]]
  BY DEF Plausible, Windows
<1> QED
  BY <1>2, <1>3 DEF Merge

\* The leader is among the windows that are kept.
LEMMA LeaderSays ==
  ASSUME Protocol, EdgesPlausible, NEW v, Leader(v)
  PROVE  v \in Known /\ Plausible(v) /\ v \in Windows
<1>1. v \in Known
  BY DEF Leader, Known
<1> QED
  BY <1>1 DEF EdgesPlausible, Plausible

\* A new leader that knows what the old one knew, what the others learnt and what
\* arrived.
LEMMA LeaderStep ==
  ASSUME Protocol, EdgesPlausible, LeaderKnows, NEW u, Leader(u), NEW v \in Windows, Dominates(v, u),
         \A x : Leader(x)' => x = v,
         \A w \in Known' : w \in Known \/ Dominates(v, w),
         \/ UNCHANGED Arrived
         \/ \E p : Legit(p) /\ Leave(p) /\ Taught(v, p),
         \A t \in slow' : (\E s \in slow : t.pkt = s.pkt) \/ Taught(v, t.pkt),
         \A t \in slow' : Copied(t.sic, seen')
  PROVE  LeaderKnows'
<1>1. /\ EndpointsAgree /\ RouterTypes
      /\ \A s \in slow : Legit(s.pkt)
  BY DEF Protocol, Travelling
<1>2. u \in Windows /\ Leads(u) /\ Known \subseteq Windows
  BY <1>1, LeaderSays, KnownWindows DEF LeaderKnows
<1>3. /\ \A e \in {server'.rcv} \cup server'.early : KnowsEnd({v}, Pos(e))
      /\ KnowsEdge({v}, Pos(client'.right))
  <2> DEFINE K == {u}
             L == {v}
  <2>1. K \in SUBSET Windows /\ L \in SUBSET Windows /\ Inherits(L, K)
    BY <1>2 DEF Inherits
  <2>2. /\ ArrivedKnown(K)
        /\ \/ UNCHANGED Arrived
           \/ \E p : Legit(p) /\ Leave(p) /\ \E x \in L : Taught(x, p)
    BY <1>2 DEF Leads
  <2> HIDE DEF K, L
  <2>3. /\ \A e \in {server'.rcv} \cup server'.early : KnowsEnd(L, Pos(e))
        /\ KnowsEdge(L, Pos(client'.right))
    BY <1>1, <2>1, <2>2, ArrivedInherited
  <2> QED
    BY <2>3 DEF L
<1>4. \A w \in Known' : Dominates(v, w)
  <2>1. ASSUME NEW w \in Known PROVE Dominates(v, w)
    <3>1. Dominates(u, w) /\ w \in Windows
      BY <1>2 DEF Leads
    <3> QED
      BY <1>2, <3>1, DominatesTrans
  <2> QED
    BY <2>1
<1>5. \A t \in slow' : Taught(v, t.pkt)
  <2>1. \A s \in slow : Taught(v, s.pkt)
    BY <1>1, <1>2, TaughtDominates DEF Leads
  <2> QED
    BY <2>1
<1>6. ASSUME NEW x, Leader(x)' PROVE Leads(x)'
  <2>1. x = v
    BY <1>6
  <2>2. ArrivedKnown({x})'
    BY <1>3, <2>1 DEF ArrivedKnown, KnowsEnd, KnowsEdge, Pos
  <2>3. (\A w \in Known : Dominates(x, w))'
    BY <1>4, <2>1 DEF Dominates, Pos
  <2>4. (\A s \in slow : Taught(x, s.pkt))'
    BY <1>5, <2>1 DEF Taught, Right, End, Plus, Pos
  <2> QED
    BY <2>2, <2>3, <2>4 DEF Leads
<1>7. (\A s \in slow : Copied(s.sic, seen))'
  BY DEF Copied, Dirs
<1> QED
  BY <1>6, <1>7 DEF LeaderKnows

\* Windows that learnt from one that led, or led themselves, find every useful
\* segment inside; what conntrack finds invalid tells nobody anything.
LEMMA ConntrackLeads ==
  ASSUME ~Dsack, Protocol, EdgesPlausible, Orderly, LeaderKnows, NEW u, Leader(u),
         NEW w, Plausible(w), Dominates(w, u), NEW p \in Travelling, Conntrack(p, w)
  PROVE  /\ Plausible(seen') /\ Dominates(seen', w)
         /\ UNCHANGED Arrived
         /\ \/ slow' = slow
            \/ slow' = slow \cup {[pkt |-> p, sic |-> None]} /\ Taught(seen', p)
<1>1. EndpointsAgree /\ Legit(p) /\ RouterTypes
  BY DEF Protocol
<1>2. Plausible(seen') /\ Dominates(seen', w)
  BY <1>1, ConntrackPlausible, ConntrackKnows
<1>3. CASE Fits(w, p, SerialSackEdge(p))
  BY <1>1, <1>2, <1>3, ConntrackKnows DEF Arrived
<1>4. CASE ~Fits(w, p, SerialSackEdge(p))
  <2>1. u \in Windows /\ w \in Windows /\ ArrivedKnown({u})
    BY LeaderSays DEF LeaderKnows, Leads, Plausible
  <2>2. ArrivedKnown({w})
    <3>1. /\ \A e \in {server.rcv} \cup server.early : Pos(e) \in Nat
          /\ Pos(client.right) \in Nat
      BY <1>1, EndpointBounds, PosType, Space DEF EndpointsAgree, EndpointTypes
    <3> QED
      BY <2>1, <3>1, WindowNumbers DEF ArrivedKnown, KnowsEnd, KnowsEdge, Dominates
  <2>3. SerialSackEdge(p) \in {p.ack} \cup p.sack
    BY <1>1, SackEdges
  <2>4. ~Useful(p)
    BY <1>4, <2>2, <2>3, UsefulFits
  <2>5. slow' = slow /\ (UNCHANGED <<client, server>> \/ Leave(p))
    BY <1>4 DEF Conntrack
  <2>6. UNCHANGED Arrived
    BY <2>4, <2>5, UselessSays DEF Arrived
  <2> QED
    BY <1>2, <2>5, <2>6
<1> QED
  BY <1>3, <1>4

\* With one segment at a time there is always a leader, and it knows everything.
LEMMA NextLeader ==
  ASSUME ~Dsack, Cpus = 1, Protocol, EdgesPlausible, Orderly, Lone, LeaderKnows, [Next]_vars
  PROVE  LeaderKnows'
<1>1. /\ EndpointsAgree /\ RouterTypes
      /\ \A p \in wire : Legit(p) /\ p \in Travelling
      /\ \A s \in slow : Legit(s.pkt)
      /\ \A f \in flushes : f.pkt # None => Legit(f.pkt) /\ f.pkt \in Travelling
  BY DEF Protocol, Travelling
<1>2. /\ Plausible(seen)
      /\ rule # None => Plausible(rule)
      /\ sis # None => Plausible(sis)
      /\ \A f \in flushes : Plausible(f.windows)
      /\ \A w : Plausible(w) => w \in Windows /\ w # None /\ Dominates(w, w)
  BY <1>1, DominatesItself, NoneAssumption DEF EdgesPlausible, Known, Plausible
<1>3. /\ rule # None => slow = {} /\ flushes = {}
      /\ slow # {} => rule = None /\ flushes = {}
      /\ flushes # {} => rule = None /\ slow = {}
      /\ \A s, t \in slow : s = t
      /\ \A f, g \in flushes : f = g
  BY DEF Lone
<1>4. \A v : Leader(v) => Leads(v) /\ v \in Known /\ Plausible(v) /\ v \in Windows
  BY LeaderSays DEF LeaderKnows
<1>5. \A s \in slow : Copied(s.sic, seen)
  BY DEF LeaderKnows
<1>6. \E u : Leader(u)
  BY DEF Leader
<1>7. \A u, v : Leader(u) /\ Leader(v) => u = v
  BY <1>3 DEF Leader
<1>8. Copied(None, seen')
  BY DEF Copied
<1>9. ASSUME UNCHANGED <<rule, seen, slow, flushes, sis>>, UNCHANGED Arrived
      PROVE  LeaderKnows'
  <2>1. PICK u : Leader(u)
    BY <1>6
  <2>2. \A x : Leader(x)' => x = u
    BY <1>7, <1>9, <2>1 DEF Leader
  <2>3. \A w \in Known' : w \in Known
    BY <1>9 DEF Known
  <2> QED
    BY <1>2, <1>4, <1>5, <1>9, <2>1, <2>2, <2>3, LeaderStep
<1>10. ASSUME NEW p \in wire, FastPath(p) PROVE LeaderKnows'
  <2>1. /\ Leader(rule) /\ rule # None /\ slow = {} /\ flushes = {} /\ Plausible(rule)
        /\ Leave(p) /\ UNCHANGED <<seen, slow, flushes, sis>>
    BY <1>2, <1>3, <1>10 DEF FastPath, Leader
  <2>2. rule' = Advance(rule, p, SackEdge(p)) /\ Legit(p) /\ SackEdge(p) \in {p.ack} \cup p.sack
    BY <1>1, <1>10, SackEdges DEF FastPath
  <2>3. Plausible(rule') /\ Dominates(rule', rule) /\ Taught(rule', p)
    BY <1>1, <2>1, <2>2, AdvancePlausible, AdvanceDominates, AdvanceTeaches
  <2>4. \A x : Leader(x)' => x = rule'
    BY <1>2, <2>3 DEF Leader
  <2>5. \A w \in Known' : w \in Known \/ Dominates(rule', w)
    BY <1>2, <2>1, <2>3 DEF Known
  <2> QED
    BY <1>2, <2>1, <2>2, <2>3, <2>4, <2>5, LeaderStep
<1>11. ASSUME rule # None, rule' = None, NEW p, flushes' = flushes \cup {[windows |-> rule, pkt |-> p]},
              UNCHANGED <<client, server, seen, slow, sis>>
       PROVE  LeaderKnows'
  <2>1. Leader(rule) /\ slow = {} /\ flushes = {} /\ Plausible(rule)
    BY <1>2, <1>3, <1>11 DEF Leader
  <2>2. [windows |-> rule, pkt |-> p].windows = rule
    OBVIOUS
  <2>3. \A x : Leader(x)' => x = rule
    BY <1>11, <2>1, <2>2 DEF Leader
  <2>4. \A w \in Known' : w \in Known
    BY <1>11, <2>1, <2>2 DEF Known
  <2> QED
    BY <1>2, <1>11, <2>1, <2>3, <2>4, LeaderStep DEF Arrived
<1>12. ASSUME NEW p \in Travelling, NEW w, Plausible(w), NEW u, Leader(u), Dominates(w, u),
              Conntrack(p, w), rule' = None, flushes' = {}, slow = {}, UNCHANGED sis
       PROVE  LeaderKnows'
  <2>1. /\ Plausible(seen') /\ Dominates(seen', w)
        /\ UNCHANGED Arrived
        /\ \/ slow' = slow
           \/ slow' = slow \cup {[pkt |-> p, sic |-> None]} /\ Taught(seen', p)
    BY <1>12, ConntrackLeads
  <2>2. /\ [pkt |-> p, sic |-> None].pkt = p /\ [pkt |-> p, sic |-> None].sic = None
    OBVIOUS
  <2>3. Dominates(seen', u)
    BY <1>2, <1>4, <1>12, <2>1, DominatesTrans
  <2>4. \A x : Leader(x)' => x = seen'
    BY <1>12 DEF Leader
  <2>5. \A x \in Known' : x \in Known \/ Dominates(seen', x)
    BY <1>2, <1>12, <2>1 DEF Known
  <2>6. /\ \A t \in slow' : Taught(seen', t.pkt)
        /\ \A t \in slow' : Copied(t.sic, seen')
    BY <1>8, <1>12, <2>1, <2>2
  <2> QED
    BY <1>2, <1>12, <2>1, <2>3, <2>4, <2>5, <2>6, LeaderStep
<1>13. ASSUME NEW p \in wire, SlowPath(p) PROVE LeaderKnows'
  <2>1. slow = {} /\ flushes = {}
    BY <1>13, RoomMeansNone DEF SlowPath
  <2>2. Leader(seen)
    BY <1>13, <2>1 DEF SlowPath, Leader
  <2> QED
    BY <1>1, <1>2, <1>12, <1>13, <2>1, <2>2 DEF SlowPath
<1>14. ASSUME NEW s \in slow, FillInRequest(s) PROVE LeaderKnows'
  <2>1. Leader(seen) /\ rule = None /\ flushes = {} /\ slow = {s}
    BY <1>3, <1>14 DEF Leader
  <2>2. s \in [pkt : Segments, sic : Requests] /\ UNCHANGED <<client, server, rule, seen, flushes, sis>>
    BY <1>1, <1>14 DEF RouterTypes, FillInRequest
  <2>3. ASSUME NEW r, slow' = (slow \ {s}) \cup {[s EXCEPT !.sic = r]}, Copied(r, seen)
        PROVE  LeaderKnows'
    <3>1. [s EXCEPT !.sic = r].sic = r /\ [s EXCEPT !.sic = r].pkt = s.pkt
      BY <2>2
    <3>2. \A t \in slow' : t.pkt = s.pkt /\ Copied(t.sic, seen')
      BY <2>1, <2>2, <2>3, <3>1
    <3>3. \A x : Leader(x)' => x = seen
      BY <2>1, <2>2 DEF Leader
    <3>4. \A w \in Known' : w \in Known
      BY <2>2 DEF Known
    <3> QED
      BY <1>2, <2>1, <2>2, <3>2, <3>3, <3>4, LeaderStep DEF Arrived
  <2>4. CASE s.sic = None /\ slow' = (slow \ {s}) \cup {[s EXCEPT !.sic = [original |-> seen.original]]}
    <3>1. Copied([original |-> seen.original], seen)
      BY DEF Copied, Dirs
    <3> QED
      BY <2>3, <2>4, <3>1
  <2>5. CASE /\ s.sic # None /\ DOMAIN s.sic = {"original"}
             /\ slow' = (slow \ {s}) \cup
                   {[s EXCEPT !.sic = [original |-> s.sic.original, reply |-> seen.reply]]}
    <3>1. Copied([original |-> s.sic.original, reply |-> seen.reply], seen)
      BY <1>5, <2>5 DEF Copied
    <3> QED
      BY <2>3, <2>5, <3>1
  <2> QED
    BY <1>14, <2>4, <2>5 DEF FillInRequest
<1>15. ASSUME NEW s \in slow, slow' = slow \ {s}, Leave(s.pkt), rule' = None \/ rule' = seen,
              UNCHANGED <<seen, flushes, sis>>
       PROVE  LeaderKnows'
  <2>1. Leader(seen) /\ rule = None /\ flushes = {} /\ slow = {s}
    BY <1>3 DEF Leader
  <2>2. slow' = {} /\ Taught(seen, s.pkt)
    BY <1>4, <1>15, <2>1 DEF Leads
  <2>3. \A x : Leader(x)' => x = seen
    BY <1>2, <1>15, <2>1 DEF Leader
  <2>4. \A w \in Known' : w \in Known
    BY <1>15, <2>1 DEF Known
  <2> QED
    BY <1>1, <1>2, <1>15, <2>1, <2>2, <2>3, <2>4, LeaderStep
<1>16. ASSUME NEW s \in slow, CreateRule(s) PROVE LeaderKnows'
  <2>1. rule = None
    BY <1>3
  <2>2. s.sic = seen
    <3>1. Filled(s) /\ Copied(s.sic, seen) /\ s.sic \in Windows /\ seen \in Windows
      BY <1>1, <1>2, <1>5, <1>16, FilledSays DEF CreateRule
    <3>2. s.sic["original"] = seen["original"] /\ s.sic["reply"] = seen["reply"]
      BY <3>1 DEF Filled, Copied
    <3>3. s.sic = [d \in Dirs |-> s.sic[d]] /\ seen = [d \in Dirs |-> seen[d]]
      BY <3>1 DEF Windows
    <3>4. \A d \in Dirs : s.sic[d] = seen[d]
      BY <3>2 DEF Dirs
    <3> QED
      BY <3>3, <3>4
  <2>3. rule' \in {seen, None}
    BY <1>1, <1>2, <1>16, <2>1, <2>2, FromRequestSame DEF CreateRule
  <2> QED
    BY <1>15, <1>16, <2>3 DEF CreateRule
<1>17. ASSUME NEW s \in slow, Skip(s) PROVE LeaderKnows'
  BY <1>3, <1>15, <1>17 DEF Skip
<1>18. CASE PeriodicSync
  <2>1. /\ Leader(rule) /\ slow = {} /\ flushes = {} /\ Plausible(rule)
        /\ UNCHANGED <<client, server, rule, seen, slow, flushes>> /\ sis' = rule
    BY <1>2, <1>3, <1>18 DEF PeriodicSync, Leader
  <2>2. \A x : Leader(x)' => x = rule
    BY <1>18, <2>1 DEF Leader, PeriodicSync
  <2>3. \A w \in Known' : w \in Known
    BY <1>18, <2>1 DEF Known, PeriodicSync
  <2> QED
    BY <1>2, <2>1, <2>2, <2>3, LeaderStep DEF Arrived
<1>19. CASE DeliverSync
  <2>1. /\ sis # None /\ seen' = Merge(seen, sis) /\ sis' = None
        /\ UNCHANGED <<client, server, rule, slow, flushes>>
    BY <1>19 DEF DeliverSync
  <2>2. seen \in Known /\ sis \in Known
    BY <2>1 DEF Known
  <2>3. PICK u : Leader(u)
    BY <1>6
  <2>4. Plausible(u) /\ Dominates(u, seen) /\ Dominates(u, sis)
    BY <1>4, <2>2, <2>3 DEF Leads
  <2>5. Dominates(u, seen')
    BY <1>1, <1>2, <2>1, <2>4, DominatesMerge
  <2>6. u = seen => seen' = seen
    BY <1>1, <1>2, <2>1, <2>4, MergeSame
  <2>7. \A x : Leader(x)' => x = u
    BY <1>7, <2>1, <2>3, <2>6 DEF Leader
  <2>8. \A w \in Known' : w \in Known \/ Dominates(u, w)
    BY <2>1, <2>5 DEF Known
  <2>9. \A t \in slow' : Copied(t.sic, seen')
    BY <1>3, <1>5, <2>1, <2>3, <2>6 DEF Leader
  <2> QED
    BY <1>2, <2>1, <2>3, <2>4, <2>7, <2>8, <2>9, LeaderStep DEF Arrived
<1>20. ASSUME NEW f \in flushes, DeliverFlush(f) PROVE LeaderKnows'
  <2> DEFINE w == Merge(seen, f.windows)
  <2>1. Leader(f.windows) /\ slow = {} /\ rule = None /\ flushes = {f} /\ Plausible(f.windows)
    BY <1>2, <1>3 DEF Leader
  <2>2. Plausible(w) /\ Dominates(w, f.windows) /\ Dominates(w, seen)
    BY <1>1, <1>2, MergePlausible, MergeDominates
  <2>3. rule' = None /\ flushes' = {} /\ UNCHANGED sis
    BY <1>20, <2>1 DEF DeliverFlush
  <2>4. CASE f.pkt = None
    <3>1. seen' = w /\ UNCHANGED <<client, server, slow>>
      BY <1>20, <2>4 DEF DeliverFlush
    <3> HIDE DEF w
    <3>2. \A x : Leader(x)' => x = w
      BY <2>3, <3>1 DEF Leader
    <3>3. \A x \in Known' : x \in Known \/ Dominates(w, x)
      BY <1>2, <2>2, <2>3, <3>1 DEF Known
    <3> QED
      BY <1>2, <2>1, <2>2, <3>1, <3>2, <3>3, LeaderStep DEF Arrived
  <2>5. CASE f.pkt # None
    <3>1. Conntrack(f.pkt, w) /\ f.pkt \in Travelling
      BY <1>1, <1>20, <2>5 DEF DeliverFlush
    <3> HIDE DEF w
    <3> QED
      BY <1>12, <2>1, <2>2, <2>3, <3>1
  <2> QED
    BY <2>4, <2>5
<1>21. ASSUME NEW p \in wire, Flush(p) PROVE LeaderKnows'
  BY <1>11, <1>21 DEF Flush
<1>22. CASE DestroyRule
  BY <1>11, <1>22 DEF DestroyRule
<1>23. ASSUME NEW p \in wire, Lose(p) PROVE LeaderKnows'
  BY <1>9, <1>23 DEF Lose, Arrived
<1>24. CASE SendData
  BY <1>1, <1>9, <1>24, SendDataMoves DEF SendData, Transmit, Arrived
<1>25. CASE SendAck
  BY <1>1, <1>9, <1>25, SendAckMoves DEF SendAck, Transmit, Arrived
<1>26. CASE Retransmit \/ UNCHANGED vars
  BY <1>9, <1>26 DEF Retransmit, Transmit, vars, Arrived
<1> QED
  BY <1>10, <1>13, <1>14, <1>16, <1>17, <1>18, <1>19, <1>20, <1>21, <1>22, <1>23, <1>24, <1>25, <1>26
     DEF Next

LEMMA InitLeader == Init => Lone /\ LeaderKnows
<1> SUFFICES ASSUME Init PROVE Lone /\ LeaderKnows
  OBVIOUS
<1>1. Protocol /\ EdgesPlausible /\ PassedKnown
  BY InitProtocol, InitPlausible, InitPassed
<1>2. slow = {} /\ flushes = {} /\ rule = None /\ sis = None /\ Known = {seen}
  BY DEF Init, Known
<1>3. ArrivedKnown({seen})
  BY <1>1, <1>2 DEF PassedKnown
<1>4. Dominates(seen, seen)
  BY <1>1, <1>2, DominatesItself DEF EdgesPlausible, Protocol
<1>5. \A v : Leader(v) => v = seen
  BY <1>2 DEF Leader
<1>6. Leads(seen)
  BY <1>2, <1>3, <1>4 DEF Leads
<1> QED
  BY <1>2, <1>5, <1>6 DEF Lone, LeaderKnows

\* What holds of a router that handles one segment at a time.
Led == Protocol /\ EdgesPlausible /\ Orderly /\ Lone /\ LeaderKnows

LEMMA LedKept ==
  ASSUME ~Dsack, Cpus = 1
  PROVE  Spec => []Led
<1>1. Init => Led
  BY InitProtocol, InitPlausible, InitOrderly, InitLeader DEF Led
<1>2. Led /\ [Next]_vars => Led'
  BY NextProtocol, NextPlausible, NextOrderly, NextLone, NextLeader DEF Led
<1> QED
  BY <1>1, <1>2, PTL DEF Spec

\* Whoever leads finds every useful segment inside.
LEMMA LeaderFits ==
  ASSUME ~Dsack, Led, NEW v, Leader(v), NEW p \in wire, Useful(p), NEW e \in {p.ack} \cup p.sack
  PROVE  Fits(v, p, e)
<1>1. Plausible(v)
  BY LeaderSays DEF Led
<1>2. ArrivedKnown({v}) /\ p \in Travelling
  BY DEF Led, LeaderKnows, Leads, Travelling
<1> QED
  BY <1>1, <1>2, UsefulFits DEF Led

LEMMA WireSackEdges ==
  ASSUME Led, NEW p \in wire
  PROVE  SackEdge(p) \in {p.ack} \cup p.sack /\ SerialSackEdge(p) \in {p.ack} \cup p.sack
<1>1. Legit(p) /\ EndpointsAgree
  BY DEF Led, Protocol, Travelling
<1> QED
  BY <1>1, SackEdges

\* With one segment at a time the tests of recv_tcp remove no rule because of a segment
\* that still tells its receiver something: the rule knows of all that arrived.
THEOREM UsefulSegmentsAccepted ==
  ASSUME ~Dsack, Cpus = 1
  PROVE  Spec => []UsefulSegmentsFit
<1>1. Led => UsefulSegmentsFit
  <2> SUFFICES ASSUME Led, rule # None, NEW p \in wire, Useful(p)
               PROVE  Fits(rule, p, SackEdge(p))
    BY DEF UsefulSegmentsFit
  <2>1. Leader(rule)
    BY DEF Leader
  <2> QED
    BY <2>1, WireSackEdges, LeaderFits
<1> QED
  BY <1>1, LedKept, PTL

\* With one segment at a time conntrack can go on with the flow as soon as the last
\* message of the rule is delivered (sync_rule, update_tcp_state).
THEOREM FlowHandedBack ==
  ASSUME ~Dsack, Cpus = 1
  PROVE  Spec => []HandedBack
<1>1. Led => HandedBack
  <2> SUFFICES ASSUME Led, rule = None, flushes = {}, NEW p \in wire, Useful(p)
               PROVE  Fits(seen, p, SerialSackEdge(p))
    BY DEF HandedBack
  <2>1. Leader(seen)
    BY DEF Leader
  <2> QED
    BY <2>1, WireSackEdges, LeaderFits
<1> QED
  BY <1>1, LedKept, PTL

\* With one segment at a time nothing that passed the router is forgotten, whatever the
\* firewall does with segments that conntrack finds invalid.
THEOREM NothingForgottenAlone ==
  ASSUME ~Dsack, Cpus = 1
  PROVE  Spec => []NothingForgotten
<1>1. Led => NothingForgotten
  <2> SUFFICES ASSUME Led PROVE NothingForgotten
    OBVIOUS
  <2>1. PICK v : Leader(v)
    BY DEF Leader
  <2>2. v \in Known /\ ArrivedKnown({v})
    BY <2>1, LeaderSays DEF Led, LeaderKnows, Leads
  <2>3. ArrivedKnown(Known)
    BY <2>2 DEF ArrivedKnown, KnowsEnd, KnowsEdge
  <2> QED
    BY <2>3, KnownSays DEF Led
<1> QED
  BY <1>1, LedKept, PTL

\* What "Maximum window size seen" says (sfe_ipv4.c:153) is true of a connection whose
\* server reports no duplicates.
THEOREM WindowsAsAnnounced ==
  ASSUME ~Dsack
  PROVE  Spec => []LargestWindow
<1>1. Protocol /\ EdgesPlausible => LargestWindow
  <2> SUFFICES ASSUME Protocol, EdgesPlausible, rule # None, NEW d \in Dirs
               PROVE  rule[d].max_win <= 2 * MaxWindow
    BY DEF LargestWindow
  <2>1. Plausible(rule) /\ EndpointsAgree
    BY DEF EdgesPlausible, Known, Protocol
  <2>2. rule["original"].max_win = MaxWindow /\ rule["reply"].max_win <= 2 * MaxWindow
    BY <2>1, PlausibleBounds
  <2> QED
    BY <2>2, Space DEF Dirs
<1> QED
  BY <1>1, PlausibleKept, PTL

=============================================================================
