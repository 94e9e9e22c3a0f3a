--------------------------- MODULE SfeListLinks ---------------------------
(***************************************************************************)
(* The intrusive lists of sfe_ipv4.c at the level of its pointers: the     *)
(* chains of the two hash tables, the "all connections" list and the       *)
(* active list.  Every action is one critical section of si->lock.         *)
(*                                                                         *)
(* mem holds every pointer of the four lists.  A list is named by <<f, b>> *)
(* where f names the pair of pointers that links it and b a hash bucket (0 *)
(* for the two lists that are not hashed).  Memory that is not allocated   *)
(* reads Poison: kmalloc does not clear it and kfree leaves it to others.  *)
(***************************************************************************)
EXTENDS Naturals, FiniteSets, SequencesExt

CONSTANTS
    Conns,          \* sfe_ipv4_connection objects, each with two matches
    Keys,           \* what packets are looked up by: a device and a 5-tuple
    KeyOf,          \* the key a packet finds a match by
    BucketOf,       \* the bucket of conn_match_hash of each key
    ConnBucketOf,   \* the bucket of conn_hash of each connection
    NULL,
    Poison

VARIABLES
    linked, \* connections that are in the tables
    active, \* the active flag of the matches
    mem     \* next and prev of every node, head and tail of every list

vars == <<linked, active, mem>>

Dirs    == {"original", "reply"}
Matches == Conns \X Dirs

ASSUME KeyAssumption ==
    /\ KeyOf \in [Matches -> Keys]
    /\ BucketOf \in [Keys -> Nat]
    /\ ConnBucketOf \in [Conns -> Nat]
    /\ NULL # Poison

\* A pointer to an object is none to another, nor null, nor what memory happens to hold.
ASSUME ObjectAssumption ==
    /\ IsFiniteSet(Conns)
    /\ Conns \cap Matches = {}
    /\ {NULL, Poison} \cap (Conns \cup Matches) = {}

Pointers == Conns \cup Matches \cup {NULL, Poison}

Links == ({"conn", "all"} \X Conns) \cup ({"match", "active"} \X Matches)

All    == <<"all", 0>>
Active == <<"active", 0>>
ConnChain(c)  == <<"conn", ConnBucketOf[c]>>
MatchChain(m) == <<"match", BucketOf[KeyOf[m]]>>

Tailed == {All, Active}
Lists  == Tailed \cup {ConnChain(c) : c \in Conns} \cup {<<"match", BucketOf[k]>> : k \in Keys}

CounterMatch(m) == <<m[1], IF m[2] = "original" THEN "reply" ELSE "original">>

Init ==
    /\ linked = {}
    /\ active = [m \in Matches |-> FALSE]
    /\ mem = [next |-> [x \in Links |-> Poison],
              prev |-> [x \in Links |-> Poison],
              head |-> [l \in Lists |-> NULL],
              tail |-> [l \in Tailed |-> NULL]]

-----------------------------------------------------------------------------
(* Pointer assignments: s is the memory before, the value the memory after. *)

SetNext(s, l, n, v) == IF n = NULL THEN [s EXCEPT !.head[l] = v]
                                   ELSE [s EXCEPT !.next[<<l[1], n>>] = v]

\* A hash chain has no tail.
SetPrev(s, l, n, v) == IF n # NULL THEN [s EXCEPT !.prev[<<l[1], n>>] = v]
                       ELSE IF l \in Tailed THEN [s EXCEPT !.tail[l] = v]
                       ELSE s

\* Wrong: the node behind n goes on pointing to n.
UnlinkForward(s, l, n) == SetNext(s, l, s.prev[<<l[1], n>>], s.next[<<l[1], n>>])

Unlink(s, l, n) ==
    LET p == s.prev[<<l[1], n>>]
        x == s.next[<<l[1], n>>]
    IN  SetPrev(SetNext(s, l, p, x), l, x, p)

Isolate(s, l, n) == [s EXCEPT !.next[<<l[1], n>>] = NULL, !.prev[<<l[1], n>>] = NULL]

PushHead(s, l, n) ==
    LET h == s.head[l]
    IN  [SetPrev(s, l, h, n) EXCEPT !.head[l] = n,
                                    !.next[<<l[1], n>>] = h,
                                    !.prev[<<l[1], n>>] = NULL]

\* The next pointer of n is left alone.
PushTail(s, l, n) ==
    LET t == s.tail[l]
    IN  [SetNext(s, l, t, n) EXCEPT !.tail[l] = n, !.prev[<<l[1], n>>] = t]

\* A hit behind the head of a hash chain is moved to the head.
MoveToHead(s, l, n) == IF s.head[l] = n THEN s ELSE PushHead(Unlink(s, l, n), l, n)

\* The nodes of a list in order; a walk that goes astray stops somewhere.
Nodes(s, l) ==
    LET After(q) == IF q = <<>> THEN s.head[l]
                    ELSE IF Last(q) = Poison THEN NULL
                    ELSE s.next[<<l[1], Last(q)>>]
        step == [q \in Seq(Pointers) |-> IF After(q) = NULL THEN q ELSE Append(q, After(q))]
        walk[i \in 0 .. Cardinality(Matches) + 1] == IF i = 0 THEN <<>> ELSE step[walk[i - 1]]
    IN  walk[Cardinality(Matches) + 1]

-----------------------------------------------------------------------------
(* insert, remove and find, and what recv and the periodic sync do to the  *)
(* active list.                                                            *)

\* Wrong: the pointers of the active list are left as kmalloc returned them.
InsertMatchUncleared(s, m) == PushHead(s, MatchChain(m), m)

InsertMatch(s, m) == PushHead(Isolate(s, Active, m), MatchChain(m), m)

InsertConnection(s, c) ==
    LET hashed == PushHead(s, ConnChain(c), c)
        listed == PushTail([hashed EXCEPT !.next[<<"all", c>>] = NULL], All, c)
    IN  InsertMatch(InsertMatch(listed, <<c, "original">>), <<c, "reply">>)

\* Wrong: the match stays on the active list.
RemoveMatchListed(s, m) == Unlink(s, MatchChain(m), m)

RemoveMatch(s, m) ==
    LET unhashed == Unlink(s, MatchChain(m), m)
    IN  IF active[m] THEN Unlink(unhashed, Active, m) ELSE unhashed

Free(s, c) ==
    LET Clear(ptr) == [x \in Links |->
                         IF x[2] \in {c, <<c, "original">>, <<c, "reply">>}
                         THEN Poison ELSE ptr[x]]
    IN  [s EXCEPT !.next = Clear(s.next), !.prev = Clear(s.prev)]

\* Wrong: only the original match is removed.
RemoveConnectionOriginal(s, c) ==
    Unlink(Unlink(RemoveMatch(s, <<c, "original">>), ConnChain(c), c), All, c)

RemoveConnection(s, c) ==
    LET unmatched == RemoveMatch(RemoveMatch(s, <<c, "reply">>), <<c, "original">>)
    IN  Unlink(Unlink(unmatched, ConnChain(c), c), All, c)

\* create_rule finds no connection of the same tuple.
CreateRule(c) ==
    /\ c \notin linked
    /\ linked' = linked \cup {c}
    /\ active' = [active EXCEPT ![<<c, "original">>] = FALSE, ![<<c, "reply">>] = FALSE]
    /\ mem' = InsertConnection(mem, c)

RemoveFrom(s, c) ==
    /\ linked' = linked \ {c}
    /\ active' = [active EXCEPT ![<<c, "original">>] = FALSE, ![<<c, "reply">>] = FALSE]
    /\ mem' = Free(RemoveConnection(s, c), c)

DestroyRule(c) ==
    /\ c \in linked
    /\ RemoveFrom(mem, c)

Forward(s, m) ==
    /\ active' = [active EXCEPT ![m] = TRUE]
    /\ mem' = IF active[m] THEN s ELSE PushTail(s, Active, m)
    /\ UNCHANGED linked

\* The first match of the chain with the key, wherever hits have moved it.
Recv(k) ==
    LET chain == <<"match", BucketOf[k]>>
        hit   == SelectInSeq(Nodes(mem, chain), LAMBDA m : KeyOf[m] = k)
    IN  /\ hit # 0
        /\ LET m == Nodes(mem, chain)[hit]
               s == MoveToHead(mem, chain, m)
           IN  \/ Forward(s, m)
               \/ RemoveFrom(s, m[1])
               \/ mem' = s /\ UNCHANGED <<linked, active>>

SyncHead ==
    LET m == mem.head[Active]
        k == CounterMatch(m)
        s == IF active[k] THEN Isolate(Unlink(mem, Active, k), Active, k) ELSE mem
        x == s.next[<<"active", m>>]
    IN  /\ m # NULL
        /\ active' = [active EXCEPT ![m] = FALSE, ![k] = FALSE]
        /\ mem' = [SetPrev([s EXCEPT !.head[Active] = x], Active, x, NULL)
                      EXCEPT !.next[<<"active", m>>] = NULL]
        /\ UNCHANGED linked

Next ==
    \/ \E c \in Conns : CreateRule(c) \/ DestroyRule(c)
    \/ \E k \in Keys : Recv(k)
    \/ SyncHead

Spec == Init /\ [][Next]_vars

-----------------------------------------------------------------------------
(* Properties.                                                             *)

TypeOK ==
    /\ linked \subseteq Conns
    /\ active \in [Matches -> BOOLEAN]
    /\ {mem.next, mem.prev} \subseteq [Links -> Pointers]
    /\ mem.head \in [Lists -> Pointers \ {Poison}]
    /\ mem.tail \in [Tailed -> Pointers \ {Poison}]

\* Each list is doubly linked from its head to its tail without dangling
\* pointers, and an idle match has a null next pointer, which recv relies on
\* when it links the match at the tail of the active list without setting it.
WellLinked ==
    /\ \A l \in Lists :
          LET s == Nodes(mem, l)
          IN  /\ \A i \in DOMAIN s :
                    mem.prev[<<l[1], s[i]>>] = IF i = 1 THEN NULL ELSE s[i - 1]
              /\ l \in Tailed => mem.tail[l] = IF s = <<>> THEN NULL ELSE Last(s)
    /\ \A m \in Matches : m[1] \in linked /\ ~active[m] => mem.next[<<"active", m>>] = NULL

\* Both hash tables hold the linked connections and their matches, each once
\* and in its bucket.
ChainsExact ==
    \A l \in Lists \ Tailed :
        /\ IsInjective(Nodes(mem, l))
        /\ ToSet(Nodes(mem, l)) = {c \in linked : ConnChain(c) = l}
                             \cup {m \in Matches : m[1] \in linked /\ MatchChain(m) = l}

Promise == INSTANCE SfeLists WITH
              all_connections <- Nodes(mem, All),
              active_list     <- Nodes(mem, Active)

\* The pointers implement the lists, and reordering the hash chains never
\* changes which of several matches with one key a packet finds.
ImplementsLists == Promise!Spec
=============================================================================
