------------------------ MODULE FastClassifierProofs ------------------------
(***************************************************************************)
(* The safety of the fast classifier, for any number of contexts, objects  *)
(* and entries and every threshold.                                        *)
(*                                                                         *)
(* The argument is about one window: from the deletion of an entry to its  *)
(* event nothing has been undone yet, and after it everything that carries *)
(* the number of the entry (packets, connections, the rule, the last       *)
(* message) is gone, about to be undone, or of an entry that is in late.   *)
(***************************************************************************)
EXTENDS FastClassifier, FiniteSetTheorems, TLAPS

\* The event has not been handled yet.
Before == job[Gc] \in {"idle", "event"}

\* The conntrack entry of i is there and its event is still to come.
Current(i) == Live(i) /\ Before

Hashed == \A o \in Objects : o \in table <=> conn[o] # None

\* The table in a form the provers can use without Cardinality.
AtMostOne == /\ \A a, b \in table : a = b
             /\ size = IF table = {} THEN 0 ELSE 1

Dying == job[Gc] # "idle" => entry # None /\ entry.dying

Loading == phase = "load" => at \in DOMAIN InitOrder

PacketsCurrent == \A p \in Cpus : packet[p] # None => packet[p] \in late \/ Current(packet[p])

ConnsCurrent == \A o \in table : conn[o].ct \in late \/ Current(conn[o].ct)

RuleCurrent ==
    rule # None => rule \in late \/ (Live(rule) /\ job[Gc] \notin {"done", "unhash"})

\* What will make conntrack_event send DONE for i: an offloaded connection, or a
\* context that is about to mark one.
Marked(i) == \/ \E o \in table : conn[o].offloaded
             \/ \E p \in Cpus : job[p] = "flag" /\ packet[p] = i

AnnouncedCurrent ==
    announced # None =>
        \/ announced \in late
        \/ /\ Live(announced)
           /\ \/ Before /\ Marked(announced)
              \/ job[Gc] \in {"destroy_done", "done"}

\* The object of a context that is to create a rule has earned it.
Earned(o) == o \in table /\ (conn[o].offload_permit \/ conn[o].hits >= OffloadAt)

CreatorsEarned ==
    \A p \in Cpus : job[p] = "create" => packet[p] \in late \/ Earned(held[p])

FlagsToCome ==
    late = {} => \A p \in Cpus : job[p] = "flag" => announced = packet[p]

IInv ==
    /\ TypeOK
    /\ Hashed
    /\ AtMostOne
    /\ Dying
    /\ Loading
    /\ PacketsCurrent
    /\ ConnsCurrent
    /\ RuleCurrent
    /\ AnnouncedCurrent
    /\ HeldObjectsLive
    /\ CreatorsEarned
    /\ FlagsToCome
    /\ FlagAgrees

-----------------------------------------------------------------------------
(* Each step keeps the invariant.                                          *)

\* The orders of registration have the lengths that the bounds of at use.
LEMMA Orders == /\ Len(InitOrder) = 6 /\ DOMAIN InitOrder = 1 .. 6
                /\ Len(ExitOrder) = 8 /\ DOMAIN ExitOrder = 1 .. 8
  BY DEF InitOrder, ExitOrder

\* The empty classifier satisfies the invariant.
LEMMA InitInv == Init => IInv
  BY Orders, ContextsAssumption, NumbersAssumption
  DEF Init, IInv, TypeOK, Hashed, AtMostOne, Dying, Loading, PacketsCurrent, ConnsCurrent,
      RuleCurrent, AnnouncedCurrent, HeldObjectsLive, CreatorsEarned, FlagsToCome, FlagAgrees,
      GcJobs, Routing, Holding, Contexts

\* What the conntrack entry is where the code relies on it.
LEMMA EntryType ==
  ASSUME IInv, entry # None
  PROVE  entry \in Entries /\ entry.id \in Ids
  BY DEF IInv, TypeOK, Entries

\* A connection of the table that is overwritten with one of the same entry, that
\* is requested and marked if it was, and has had as many packets.
Grown == /\ conn' \in [Objects -> Connections \cup {None}]
         /\ \A x \in Objects :
              /\ conn'[x] = None <=> conn[x] = None
              /\ conn[x] # None =>
                   /\ conn'[x].ct = conn[x].ct
                   /\ conn[x].offload_permit => conn'[x].offload_permit
                   /\ conn[x].offloaded => conn'[x].offloaded
                   /\ conn'[x].hits \in Int /\ conn[x].hits \in Int
                   /\ conn'[x].hits >= conn[x].hits

\* A connection of the table that grows leaves every other as it is.
LEMMA OneGrows ==
  ASSUME IInv, NEW o \in table, NEW c \in Connections,
         conn' = [conn EXCEPT ![o] = c],
         c.ct = conn[o].ct, c.hits >= conn[o].hits,
         conn[o].offload_permit => c.offload_permit,
         conn[o].offloaded => c.offloaded
  PROVE  Grown
<1>1. o \in Objects /\ conn[o] # None /\ conn[o] \in Connections /\ c # None
  BY NoneAssumption DEF IInv, TypeOK, Hashed
<1>2. conn \in [Objects -> Connections \cup {None}]
  BY DEF IInv, TypeOK
<1>3. conn' \in [Objects -> Connections \cup {None}]
  BY <1>2
<1>4. ASSUME NEW x \in Objects
      PROVE  /\ conn'[x] = None <=> conn[x] = None
             /\ conn[x] # None =>
                  /\ conn'[x].ct = conn[x].ct
                  /\ conn[x].offload_permit => conn'[x].offload_permit
                  /\ conn[x].offloaded => conn'[x].offloaded
                  /\ conn'[x].hits \in Int /\ conn[x].hits \in Int
                  /\ conn'[x].hits >= conn[x].hits
  <2>1. CASE x = o
    <3>1. conn'[x] = c /\ c.hits \in Int /\ conn[o].hits \in Int
      BY <1>1, <1>2, <2>1 DEF Connections
    <3> QED
      BY <1>1, <2>1, <3>1
  <2>2. CASE x # o
    <3>1. conn'[x] = conn[x]
      BY <1>2, <2>2
    <3>2. conn[x] # None => conn[x].hits \in Int
      BY <1>2 DEF Connections
    <3> QED
      BY <3>1, <3>2
  <2> QED
    BY <2>1, <2>2
<1> QED
  BY <1>3, <1>4 DEF Grown

\* Setting one of the two marks of a connection.
LEMMA MarkShape ==
  ASSUME NEW x \in Connections, NEW c,
         \/ c = [x EXCEPT !.offloaded = TRUE]
         \/ c = [x EXCEPT !.offload_permit = TRUE]
  PROVE  /\ c \in Connections /\ c.ct = x.ct /\ c.hits = x.hits /\ c.hits \in Int
         /\ c = [x EXCEPT !.offloaded = TRUE] =>
              c.offloaded /\ c.offload_permit = x.offload_permit
         /\ c = [x EXCEPT !.offload_permit = TRUE] =>
              c.offload_permit /\ c.offloaded = x.offloaded
<1>1. c \in Connections
  BY DEF Connections
<1>2. c.ct = x.ct /\ c.hits = x.hits
  BY DEF Connections
<1>3. x.hits \in Int
  BY DEF Connections
<1>4. c = [x EXCEPT !.offloaded = TRUE] => c.offloaded /\ c.offload_permit = x.offload_permit
  BY DEF Connections
<1>5. c = [x EXCEPT !.offload_permit = TRUE] => c.offload_permit /\ c.offloaded = x.offloaded
  BY DEF Connections
<1> QED
  BY <1>1, <1>2, <1>3, <1>4, <1>5

\* Counting a hit.
LEMMA HitGrows ==
  ASSUME IInv, NEW o \in table, conn' = Hit(o)
  PROVE  Grown /\ \A x \in table : conn'[x].offloaded = conn[x].offloaded
<1>1. o \in Objects /\ conn[o] # None /\ conn[o] \in Connections
  BY DEF IInv, TypeOK, Hashed
<1>2. DEFINE h == IF conn[o].hits < OffloadAt THEN conn[o].hits + 1 ELSE conn[o].hits
             c == [conn[o] EXCEPT !.hits = h]
<1>3. conn' = [conn EXCEPT ![o] = c]
  BY DEF Hit
<1>4. h \in 0 .. OffloadAt /\ h >= conn[o].hits
  BY <1>1, NumbersAssumption DEF Connections
<1> HIDE DEF h
<1>5. /\ c \in Connections
      /\ c.ct = conn[o].ct /\ c.offload_permit = conn[o].offload_permit
      /\ c.offloaded = conn[o].offloaded /\ c.hits = h
  BY <1>1, <1>4 DEF Connections
<1> HIDE DEF c
<1>6. Grown
  BY <1>3, <1>4, <1>5, OneGrows
<1>7. \A x \in table : conn'[x].offloaded = conn[x].offloaded
  BY <1>3, <1>5 DEF IInv, TypeOK
<1> QED
  BY <1>6, <1>7

\* What only grows keeps everything that is said of connections, except perhaps
\* that a flag agrees with the messages.
LEMMA GrowthKeeps ==
  ASSUME IInv, Grown, table' = table, size' = size, entry' = entry, late' = late,
         announced' = announced, job'[Gc] = job[Gc],
         \A p \in Cpus : job[p] = "flag" => job'[p] = "flag" /\ packet'[p] = packet[p]
  PROVE  /\ Hashed' /\ AtMostOne' /\ ConnsCurrent' /\ AnnouncedCurrent'
         /\ \A o \in table : Earned(o) => Earned(o)'
<1>1. table \subseteq Objects /\ \A o \in table : conn[o] # None
  BY DEF IInv, TypeOK, Hashed
<1>2. Hashed'
  BY DEF IInv, Grown, Hashed
<1>3. AtMostOne'
  BY DEF IInv, AtMostOne
<1>4. ConnsCurrent'
  BY <1>1 DEF IInv, Grown, ConnsCurrent, Current, Before, Live
<1>5. AnnouncedCurrent'
  BY <1>1 DEF IInv, Grown, AnnouncedCurrent, Before, Live, Marked
<1>6. ASSUME NEW o \in table, Earned(o) PROVE Earned(o)'
  BY <1>1, <1>6, NumbersAssumption DEF Grown, Earned
<1> QED
  BY <1>2, <1>3, <1>4, <1>5, <1>6

\* A context that leaves post_routing before it has sent a message.
LEMMA LeaveKeeps ==
  ASSUME IInv, NEW p \in Cpus, job[p] # "flag", Leave(p),
         UNCHANGED <<kernel, conns, outside, module, late>>
  PROVE  IInv'
<1>1. job'[Gc] = job[Gc] /\ \A q \in Cpus \ {p} : job'[q] = job[q] /\ packet'[q] = packet[q]
                                                 /\ held'[q] = held[q]
  BY ContextsAssumption DEF Leave, IInv, TypeOK, Contexts
<1>2. job'[p] = "idle" /\ packet'[p] = None /\ held'[p] = None
  BY DEF Leave, IInv, TypeOK, Contexts
<1>3. TypeOK'
  BY <1>1, <1>2 DEF Leave, IInv, TypeOK, Contexts, Routing, Holding, kernel, conns, outside, module
<1>4. AnnouncedCurrent'
  BY <1>1 DEF IInv, AnnouncedCurrent, Marked, Before, Live, kernel, conns, outside
<1>5. PacketsCurrent' /\ HeldObjectsLive' /\ CreatorsEarned' /\ FlagsToCome'
  BY <1>1, <1>2 DEF IInv, PacketsCurrent, HeldObjectsLive, CreatorsEarned, FlagsToCome,
     Current, Before, Live, Earned, kernel, conns, outside
<1>6. /\ Hashed' /\ AtMostOne' /\ Dying' /\ Loading' /\ ConnsCurrent' /\ RuleCurrent'
      /\ FlagAgrees'
  BY <1>1 DEF IInv, Hashed, AtMostOne, Dying, Loading, ConnsCurrent, RuleCurrent, FlagAgrees,
     Current, Before, Live, kernel, conns, outside, module
<1> QED
  BY <1>3, <1>4, <1>5, <1>6 DEF IInv

\* A context leaves after update_rule.
LEMMA UpdateRuleKeeps == ASSUME IInv, NEW p \in Cpus, UpdateRule(p) PROVE IInv'
  BY LeaveKeeps DEF UpdateRule

\* A context gives up.
LEMMA ResolveFailKeeps == ASSUME IInv, NEW p \in Cpus, ResolveFail(p) PROVE IInv'
  BY LeaveKeeps DEF ResolveFail

\* A new entry, or a packet of the one there is.
LEMMA ConntrackKeeps == ASSUME IInv, NEW p \in Cpus, Conntrack(p) PROVE IInv'
<1>1. TypeOK'
  <2>0. /\ entry' \in Entries \cup {None} /\ born' \in 0 .. MaxEntries
    <3>1. CASE UNCHANGED kernel
      BY <3>1 DEF IInv, TypeOK, kernel
    <3>2. CASE /\ born < MaxEntries /\ born' = born + 1
               /\ entry' = [id |-> born + 1, dying |-> FALSE]
      <4>1. born + 1 \in Ids
        BY <3>2, NumbersAssumption DEF IInv, TypeOK, Ids
      <4> QED
        BY <3>2, <4>1 DEF Entries, Ids
    <3> QED
      BY <3>1, <3>2 DEF Conntrack
  <2>1. /\ packet' \in [Cpus -> Ids \cup {None}] /\ DOMAIN job' = Contexts
        /\ job'[Gc] = job[Gc]
    BY ContextsAssumption, EntryType DEF Conntrack, IInv, TypeOK, Contexts, contexts
  <2>2. ASSUME NEW q \in Cpus
        PROVE  /\ job'[q] \in Routing \cup {"idle"}
               /\ packet'[q] # None <=> job'[q] \in Routing
               /\ held'[q] # None <=> job'[q] \in Holding
    <3>1. q \in Contexts
      BY DEF Contexts
    <3>2. entry # None => entry.id # None
      BY EntryType, NoneAssumption DEF Ids
    <3> QED
      BY <3>1, <3>2 DEF Conntrack, IInv, TypeOK, Routing, Holding, contexts
  <2> QED
    BY <2>0, <2>1, <2>2 DEF Conntrack, IInv, TypeOK, conns, outside, contexts, module
<1>2. Dying'
  BY ContextsAssumption DEF Dying, TypeOK, Contexts, Conntrack, kernel, contexts,
     IInv
<1>3. PacketsCurrent'
  BY ContextsAssumption DEF PacketsCurrent, TypeOK, Contexts, Current, Before, Live,
     Routing, Conntrack, kernel, contexts, IInv, Dying
<1>4. ConnsCurrent'
  BY ContextsAssumption DEF ConnsCurrent, TypeOK, Contexts, Current, Before, Live,
     Conntrack, kernel, conns, contexts, IInv
<1>5. RuleCurrent'
  BY ContextsAssumption DEF RuleCurrent, TypeOK, Contexts, Live, Conntrack, kernel,
     outside, contexts, IInv
<1>6. AnnouncedCurrent'
  BY ContextsAssumption DEF AnnouncedCurrent, TypeOK, Contexts, Live, Before,
     Marked, Conntrack, kernel, conns, outside, contexts, IInv
<1>7. HeldObjectsLive'
  BY DEF HeldObjectsLive, TypeOK, Holding, Routing, Conntrack, conns, contexts, IInv
<1>8. CreatorsEarned'
  BY ContextsAssumption DEF CreatorsEarned, TypeOK, Earned, Contexts, Holding,
     Conntrack, conns, contexts, IInv
<1>9. FlagsToCome'
  BY ContextsAssumption DEF FlagsToCome, TypeOK, Contexts, Routing, Conntrack,
     outside, contexts, IInv
<1>10. Hashed' /\ AtMostOne' /\ Loading' /\ FlagAgrees'
  BY DEF Hashed, AtMostOne, Loading, FlagAgrees, Conntrack, conns, outside, module,
     IInv
<1> QED
  BY <1>1, <1>2, <1>3, <1>4, <1>5, <1>6, <1>7, <1>8, <1>9, <1>10 DEF IInv

\* The deletion of the entry.
LEMMA KillKeeps == ASSUME IInv, Kill PROVE IInv'
<1>0. /\ entry' \in Entries /\ entry'.id = entry.id /\ entry'.dying /\ entry' # None
  BY EntryType, NoneAssumption DEF Kill, Entries
<1>1. TypeOK'
  BY ContextsAssumption, <1>0 DEF TypeOK, GcJobs, Routing, Holding, Contexts,
     Entries, Connections, Ids, Kill, conns, outside, module, IInv
<1>2. Dying'
  BY ContextsAssumption, <1>0 DEF Dying, TypeOK, Contexts, Kill, IInv
<1>3. PacketsCurrent'
  BY ContextsAssumption, <1>0 DEF PacketsCurrent, TypeOK, Contexts, Current, Before,
     Live, Routing, Kill, IInv
<1>4. ConnsCurrent'
  BY ContextsAssumption, <1>0 DEF ConnsCurrent, TypeOK, Contexts, Current, Before,
     Live, Kill, conns, IInv
<1>5. RuleCurrent'
  BY ContextsAssumption, <1>0 DEF RuleCurrent, TypeOK, Contexts, Live, Kill,
     outside, IInv
<1>6. AnnouncedCurrent'
  BY ContextsAssumption, <1>0 DEF AnnouncedCurrent, TypeOK, Contexts, Live, Before,
     Marked, Kill, conns, outside, IInv
<1>7. CreatorsEarned'
  BY ContextsAssumption DEF CreatorsEarned, TypeOK, Earned, Contexts, Holding, Kill,
     conns, IInv
<1>8. FlagsToCome'
  BY ContextsAssumption DEF FlagsToCome, TypeOK, Contexts, Routing, Kill, outside,
     IInv
<1>9. Hashed' /\ AtMostOne' /\ Loading' /\ HeldObjectsLive' /\ FlagAgrees'
  BY DEF Hashed, AtMostOne, Loading, HeldObjectsLive, FlagAgrees, Kill, conns,
     outside, module, IInv
<1> QED
  BY <1>1, <1>2, <1>3, <1>4, <1>5, <1>6, <1>7, <1>8, <1>9 DEF IInv

\* An event that nobody hears makes its entry late.
LEMMA UnheardKeeps == ASSUME IInv, Unheard PROVE IInv'
<1>1. TypeOK'
  BY ContextsAssumption, EntryType DEF TypeOK, GcJobs, Routing, Holding, Contexts,
     Entries, Connections, Ids, Unheard, kernel, conns, outside, module, IInv, Dying
<1>2. Dying'
  BY ContextsAssumption DEF Dying, TypeOK, Contexts, Unheard, kernel, IInv
<1>3. PacketsCurrent'
  BY ContextsAssumption DEF PacketsCurrent, TypeOK, Contexts, Current, Before, Live,
     Routing, Unheard, kernel, IInv
<1>4. ConnsCurrent'
  BY ContextsAssumption DEF ConnsCurrent, TypeOK, Contexts, Current, Before, Live,
     Unheard, kernel, conns, IInv
<1>5. RuleCurrent'
  BY ContextsAssumption DEF RuleCurrent, TypeOK, Contexts, Live, Unheard, kernel,
     outside, IInv
<1>6. AnnouncedCurrent'
  BY ContextsAssumption DEF AnnouncedCurrent, TypeOK, Contexts, Live, Before,
     Marked, Unheard, kernel, conns, outside, IInv
<1>7. HeldObjectsLive'
  BY DEF HeldObjectsLive, TypeOK, Holding, Routing, Unheard, conns, IInv
<1>8. CreatorsEarned'
  BY ContextsAssumption DEF CreatorsEarned, TypeOK, Earned, Contexts, Holding,
     Unheard, conns, IInv
<1>9. FlagsToCome'
  BY ContextsAssumption DEF FlagsToCome, TypeOK, Contexts, Routing, Unheard,
     outside, IInv
<1>10. FlagAgrees'
  BY DEF FlagAgrees, TypeOK, Unheard, conns, outside, IInv
<1>11. Hashed' /\ AtMostOne' /\ Loading'
  BY DEF Hashed, AtMostOne, Loading, Unheard, conns, module, IInv
<1> QED
  BY <1>1, <1>2, <1>3, <1>4, <1>5, <1>6, <1>7, <1>8, <1>9, <1>10, <1>11 DEF IInv

\* With the entry, everything current has gone.
LEMMA UnhashKeeps == ASSUME IInv, Unhash PROVE IInv'
<1>1. TypeOK'
  BY ContextsAssumption DEF TypeOK, GcJobs, Routing, Holding, Contexts, Entries,
     Connections, Ids, Unhash, conns, outside, module, IInv
<1>2. Dying'
  BY ContextsAssumption DEF Dying, TypeOK, Contexts, Unhash, IInv
<1>3. PacketsCurrent'
  BY ContextsAssumption DEF PacketsCurrent, TypeOK, Contexts, Current, Before, Live,
     Routing, Unhash, IInv
<1>4. ConnsCurrent'
  BY ContextsAssumption DEF ConnsCurrent, TypeOK, Contexts, Current, Before, Live,
     Unhash, conns, IInv
<1>5. RuleCurrent'
  BY ContextsAssumption DEF RuleCurrent, TypeOK, Contexts, Live, Unhash, outside,
     IInv
<1>6. AnnouncedCurrent'
  BY ContextsAssumption DEF AnnouncedCurrent, TypeOK, Contexts, Live, Before,
     Marked, Unhash, conns, outside, IInv
<1>7. CreatorsEarned'
  BY ContextsAssumption DEF CreatorsEarned, TypeOK, Earned, Contexts, Holding,
     Unhash, conns, IInv
<1>8. FlagsToCome'
  BY ContextsAssumption DEF FlagsToCome, TypeOK, Contexts, Routing, Unhash, outside,
     IInv
<1>9. Hashed' /\ AtMostOne' /\ Loading' /\ HeldObjectsLive' /\ FlagAgrees'
  BY DEF Hashed, AtMostOne, Loading, HeldObjectsLive, FlagAgrees, Unhash, conns,
     outside, module, IInv
<1> QED
  BY <1>1, <1>2, <1>3, <1>4, <1>5, <1>6, <1>7, <1>8, <1>9 DEF IInv

\* A rule that the engine removes.
LEMMA EngineFlushKeeps == ASSUME IInv, EngineFlush PROVE IInv'
<1>1. TypeOK'
  BY DEF TypeOK, GcJobs, Routing, Holding, Entries, Connections, Ids, EngineFlush,
     kernel, conns, contexts, module, IInv
<1>2. RuleCurrent'
  BY DEF RuleCurrent, TypeOK, Live, EngineFlush, kernel, contexts, IInv
<1>3. /\ Hashed' /\ AtMostOne' /\ Dying' /\ Loading' /\ PacketsCurrent'
      /\ ConnsCurrent' /\ AnnouncedCurrent' /\ HeldObjectsLive' /\ CreatorsEarned'
      /\ FlagsToCome' /\ FlagAgrees'
  BY DEF Hashed, AtMostOne, Dying, Loading, PacketsCurrent, ConnsCurrent,
     AnnouncedCurrent, HeldObjectsLive, CreatorsEarned, FlagsToCome, FlagAgrees,
     Current, Before, Live, Marked, Earned, EngineFlush, kernel, conns, contexts,
     module, IInv
<1> QED
  BY <1>1, <1>2, <1>3 DEF IInv

\* The look-up misses: the context goes on without the lock.
LEMMA MissKeeps ==
  ASSUME IInv, NEW p \in Cpus, job[p] = "routing", job' = [job EXCEPT ![p] = "resolve"],
         UNCHANGED <<kernel, conns, outside, packet, held, module, late>>
  PROVE  IInv'
<1>1. job'[Gc] = job[Gc] /\ job'[p] = "resolve" /\ \A q \in Cpus \ {p} : job'[q] = job[q]
  BY ContextsAssumption DEF IInv, TypeOK, Contexts
<1>2. TypeOK'
  BY <1>1 DEF IInv, TypeOK, Contexts, Routing, Holding, kernel, conns, outside, module
<1>3. AnnouncedCurrent'
  BY <1>1 DEF IInv, AnnouncedCurrent, Marked, Before, Live, kernel, conns, outside
<1>4. PacketsCurrent' /\ HeldObjectsLive' /\ CreatorsEarned' /\ FlagsToCome'
  BY <1>1 DEF IInv, PacketsCurrent, HeldObjectsLive, CreatorsEarned, FlagsToCome,
     Current, Before, Live, Earned, kernel, conns, outside
<1>5. /\ Hashed' /\ AtMostOne' /\ Dying' /\ Loading' /\ ConnsCurrent' /\ RuleCurrent'
      /\ FlagAgrees'
  BY <1>1 DEF IInv, Hashed, AtMostOne, Dying, Loading, ConnsCurrent, RuleCurrent, FlagAgrees,
     Current, Before, Live, kernel, conns, outside, module
<1> QED
  BY <1>2, <1>3, <1>4, <1>5 DEF IInv

\* A connection that is closing is only counted.
LEMMA ClosingKeeps ==
  ASSUME IInv, NEW p \in Cpus, NEW o \in table, job[p] = "routing", Closing(p, o),
         UNCHANGED <<kernel, outside, module, late>>
  PROVE  IInv'
<1>1. job'[Gc] = job[Gc] /\ \A q \in Cpus \ {p} : job'[q] = job[q] /\ packet'[q] = packet[q]
                                                 /\ held'[q] = held[q]
  BY ContextsAssumption DEF Closing, Leave, IInv, TypeOK, Contexts
<1>2. job'[p] = "idle" /\ packet'[p] = None /\ held'[p] = None
  BY DEF Closing, Leave, IInv, TypeOK, Contexts
<1>3. Grown /\ \A x \in table : conn'[x].offloaded = conn[x].offloaded
  BY HitGrows DEF Closing
<1>4. TypeOK'
  BY <1>1, <1>2, <1>3
  DEF Closing, Leave, Grown, IInv, TypeOK, Contexts, Routing, Holding, kernel, outside, module
<1>5. /\ Hashed' /\ AtMostOne' /\ ConnsCurrent' /\ AnnouncedCurrent'
      /\ \A x \in table : Earned(x) => Earned(x)'
  BY <1>1, <1>3, GrowthKeeps DEF Closing, kernel, outside
<1>6. PacketsCurrent' /\ HeldObjectsLive' /\ CreatorsEarned' /\ FlagsToCome'
  <2>1. \A q \in Cpus : Earned(held[q]) => held[q] \in table
    BY DEF Earned
  <2> QED
    BY <2>1, <1>1, <1>2, <1>5 DEF Closing, IInv, PacketsCurrent, HeldObjectsLive, CreatorsEarned,
       FlagsToCome, Current, Before, Live, kernel, outside
<1>7. Dying' /\ Loading' /\ RuleCurrent'
  BY <1>1 DEF IInv, Dying, Loading, RuleCurrent, Live, kernel, outside, module
<1>8. FlagAgrees'
  BY <1>3 DEF Closing, Grown, IInv, TypeOK, Hashed, FlagAgrees, outside
<1> QED
  BY <1>4, <1>5, <1>6, <1>7, <1>8 DEF IInv

\* A connection that is due is offloaded next, and one that is not is updated.
LEMMA FoundKeeps ==
  ASSUME IInv, NEW p \in Cpus, NEW o \in table, job[p] = "routing", Found(p, o),
         UNCHANGED <<kernel, outside, module, late>>
  PROVE  IInv'
<1>1. job'[Gc] = job[Gc] /\ \A q \in Cpus \ {p} : job'[q] = job[q] /\ held'[q] = held[q]
  BY ContextsAssumption DEF Found, IInv, TypeOK, Contexts
<1>2. /\ job'[p] = IF Due(conn'[o]) THEN "create" ELSE "update"
      /\ held'[p] = o /\ packet' = packet /\ o \in Objects /\ o # None
  BY NoneAssumption DEF Found, IInv, TypeOK, Contexts
<1>3. Grown /\ \A x \in table : conn'[x].offloaded = conn[x].offloaded
  BY HitGrows DEF Found
<1>4. TypeOK'
  BY <1>1, <1>2, <1>3
  DEF Found, Grown, IInv, TypeOK, Contexts, Routing, Holding, kernel, outside, module
<1>5. /\ Hashed' /\ AtMostOne' /\ ConnsCurrent' /\ AnnouncedCurrent'
      /\ \A x \in table : Earned(x) => Earned(x)'
  BY <1>1, <1>2, <1>3, GrowthKeeps DEF Found, kernel, outside
<1>6. CreatorsEarned'
  <2>1. \A q \in Cpus : Earned(held[q]) => held[q] \in table
    BY DEF Earned
  <2>2. job'[p] = "create" => Earned(held[p])'
    BY <1>2 DEF Found, Due, Earned
  <2> QED
    BY <2>1, <2>2, <1>1, <1>2, <1>5 DEF IInv, CreatorsEarned
<1>7. PacketsCurrent' /\ HeldObjectsLive' /\ FlagsToCome'
  BY <1>1, <1>2 DEF Found, IInv, PacketsCurrent, HeldObjectsLive, FlagsToCome,
     Current, Before, Live, kernel, outside
<1>8. Dying' /\ Loading' /\ RuleCurrent'
  BY <1>1 DEF IInv, Dying, Loading, RuleCurrent, Live, kernel, outside, module
<1>9. FlagAgrees'
  BY <1>3 DEF Found, Grown, IInv, TypeOK, Hashed, FlagAgrees, outside
<1> QED
  BY <1>4, <1>5, <1>6, <1>7, <1>8, <1>9 DEF IInv

\* The look-up under the lock.
LEMMA PostRoutingKeeps == ASSUME IInv, NEW p \in Cpus, PostRouting(p) PROVE IInv'
  BY MissKeeps, ClosingKeeps, FoundKeeps DEF PostRouting, kernel, outside, module, conns

\* The insertion looks the tuple up again under the lock.
LEMMA AddConnKeeps == ASSUME IInv, NEW p \in Cpus, AddConn(p) PROVE IInv'
<1>1. PICK o \in Objects : /\ conn[o] = None
                           /\ IF table = {}
                              THEN /\ conn' = [conn EXCEPT ![o] = NewConnection(p)]
                                   /\ table' = table \cup {o}
                                   /\ size' = size + 1
                              ELSE UNCHANGED conns
  BY DEF AddConn
<1>2. job[p] = "resolve" /\ Leave(p) /\ UNCHANGED <<kernel, outside, module, late>>
  BY DEF AddConn
<1>3. CASE table # {}
  BY <1>1, <1>2, <1>3, LeaveKeeps
<1>4. CASE table = {}
  <2> DEFINE c == NewConnection(p)
  <2>1. conn' = [conn EXCEPT ![o] = c] /\ table' = {o} /\ size' = size + 1
    BY <1>1, <1>4
  <2>2. /\ job'[Gc] = job[Gc]
        /\ \A q \in Cpus \ {p} : job'[q] = job[q] /\ packet'[q] = packet[q] /\ held'[q] = held[q]
    BY <1>2, ContextsAssumption DEF Leave, IInv, TypeOK, Contexts
  <2>3. job'[p] = "idle" /\ packet'[p] = None /\ held'[p] = None
    BY <1>2 DEF Leave, IInv, TypeOK, Contexts
  <2>4. packet[p] \in Ids /\ packet[p] # None
    BY <1>2 DEF IInv, TypeOK, Routing
  <2>5. c \in Connections /\ c # None /\ c.ct = packet[p] /\ ~c.offloaded
    <3>1. c \in Connections
      BY <2>4, NumbersAssumption DEF NewConnection, Connections
    <3> QED
      BY <3>1, NoneAssumption DEF NewConnection
  <2> HIDE DEF c
  <2>6. conn' \in [Objects -> Connections \cup {None}] /\ conn'[o] = c
    BY <2>1, <2>5 DEF IInv, TypeOK
  <2>7. TypeOK'
    BY <1>2, <2>1, <2>2, <2>3, <2>6
    DEF Leave, IInv, TypeOK, Contexts, Routing, Holding, kernel, outside, module
  <2>8. Hashed' /\ AtMostOne'
    BY <1>4, <2>1, <2>5, <2>6 DEF IInv, TypeOK, Hashed, AtMostOne
  <2>9. ConnsCurrent'
    BY <1>2, <2>1, <2>2, <2>4, <2>5, <2>6
    DEF IInv, ConnsCurrent, PacketsCurrent, Current, Before, Live, kernel
  <2>10. AnnouncedCurrent'
    BY <1>2, <1>4, <2>1, <2>2 DEF IInv, AnnouncedCurrent, Marked, Before, Live, kernel, outside
  <2>11. PacketsCurrent' /\ HeldObjectsLive' /\ CreatorsEarned' /\ FlagsToCome'
    BY <1>2, <1>4, <2>2, <2>3 DEF IInv, PacketsCurrent, HeldObjectsLive, CreatorsEarned,
       FlagsToCome, Current, Before, Live, Earned, kernel, outside
  <2>12. Dying' /\ Loading' /\ RuleCurrent'
    BY <1>2, <2>2 DEF IInv, Dying, Loading, RuleCurrent, Live, kernel, outside, module
  <2>13. FlagAgrees'
    BY <2>1, <2>5, <2>6 DEF FlagAgrees
  <2> QED
    BY <2>7, <2>8, <2>9, <2>10, <2>11, <2>12, <2>13 DEF IInv
<1> QED
  BY <1>3, <1>4

\* A rule is made for an entry that is current or late.
LEMMA CreateRuleKeeps == ASSUME IInv, NEW p \in Cpus, CreateRule(p) PROVE IInv'
<1>1. TypeOK'
  BY ContextsAssumption, SMTT(30) DEF TypeOK, GcJobs, Routing, Holding, Contexts, Entries,
     Connections, Ids, CreateRule, Leave, kernel, conns, module, IInv
<1>2. Dying'
  BY ContextsAssumption DEF Dying, TypeOK, Contexts, CreateRule, Leave, kernel, IInv
<1>3. PacketsCurrent'
  BY ContextsAssumption DEF PacketsCurrent, TypeOK, Contexts, Current, Before, Live,
     Routing, CreateRule, Leave, kernel, IInv
<1>4. ConnsCurrent'
  BY ContextsAssumption DEF ConnsCurrent, TypeOK, Contexts, Current, Before, Live,
     CreateRule, Leave, kernel, conns, IInv
<1>5. RuleCurrent'
  BY ContextsAssumption DEF RuleCurrent, TypeOK, Contexts, Live, CreateRule, Leave,
     kernel, IInv, PacketsCurrent, Current, Before, Routing
<1>6. AnnouncedCurrent'
  BY ContextsAssumption DEF AnnouncedCurrent, TypeOK, Contexts, Live, Before,
     Marked, CreateRule, Leave, kernel, conns, IInv
<1>7. HeldObjectsLive'
  BY DEF HeldObjectsLive, TypeOK, Holding, Routing, CreateRule, Leave, conns, IInv
<1>8. CreatorsEarned'
  BY ContextsAssumption DEF CreatorsEarned, TypeOK, Earned, Contexts, Holding,
     CreateRule, Leave, conns, IInv
<1>9. FlagsToCome'
  BY ContextsAssumption DEF FlagsToCome, TypeOK, Contexts, Routing, CreateRule,
     Leave, IInv
<1>10. Hashed' /\ AtMostOne' /\ Loading' /\ FlagAgrees'
  BY DEF Hashed, AtMostOne, Loading, FlagAgrees, CreateRule, conns, module, IInv
<1> QED
  BY <1>1, <1>2, <1>3, <1>4, <1>5, <1>6, <1>7, <1>8, <1>9, <1>10 DEF IInv

\* OFFLOADED is sent for an entry that is current or late.
LEMMA AnnounceKeeps == ASSUME IInv, NEW p \in Cpus, Announce(p) PROVE IInv'
<1>1. TypeOK'
  BY ContextsAssumption DEF TypeOK, GcJobs, Routing, Holding, Contexts, Entries,
     Connections, Ids, Announce, kernel, conns, module, IInv
<1>2. Dying'
  BY ContextsAssumption DEF Dying, TypeOK, Contexts, Announce, kernel, IInv
<1>3. PacketsCurrent'
  BY ContextsAssumption DEF PacketsCurrent, TypeOK, Contexts, Current, Before, Live,
     Routing, Announce, kernel, IInv
<1>4. ConnsCurrent'
  BY ContextsAssumption DEF ConnsCurrent, TypeOK, Contexts, Current, Before, Live,
     Announce, kernel, conns, IInv
<1>5. RuleCurrent'
  BY ContextsAssumption DEF RuleCurrent, TypeOK, Contexts, Live, Announce, kernel,
     IInv
<1>6. AnnouncedCurrent'
  BY ContextsAssumption DEF AnnouncedCurrent, TypeOK, Contexts, Live, Before,
     Marked, Announce, kernel, conns, IInv, PacketsCurrent, Current, Routing
<1>7. CreatorsEarned'
  BY ContextsAssumption DEF CreatorsEarned, TypeOK, Earned, Contexts, Holding,
     Announce, conns, IInv
<1>8. FlagsToCome'
  BY ContextsAssumption DEF FlagsToCome, TypeOK, Contexts, Routing, Announce, IInv,
     PacketsCurrent, Current, Live
<1>9. FlagAgrees'
  BY DEF FlagAgrees, TypeOK, Announce, conns, IInv, PacketsCurrent, ConnsCurrent,
     Current, Live, Routing
<1>10. Hashed' /\ AtMostOne' /\ Loading' /\ HeldObjectsLive'
  BY DEF Hashed, AtMostOne, Loading, HeldObjectsLive, Announce, conns, module, IInv
<1> QED
  BY <1>1, <1>2, <1>3, <1>4, <1>5, <1>6, <1>7, <1>8, <1>9, <1>10 DEF IInv

\* The flag is set in an object of the table, or the context is late.
LEMMA SetOffloadedKeeps == ASSUME IInv, NEW p \in Cpus, SetOffloaded(p) PROVE IInv'
<1>1. /\ job'[Gc] = job[Gc] /\ job[p] = "flag" /\ held[p] \in Objects /\ held[p] # None
      /\ \A q \in Cpus \ {p} : job'[q] = job[q] /\ packet'[q] = packet[q] /\ held'[q] = held[q]
  BY ContextsAssumption DEF SetOffloaded, Leave, IInv, TypeOK, Contexts, Holding
<1>2. job'[p] = "idle" /\ packet'[p] = None /\ held'[p] = None
  BY DEF SetOffloaded, Leave, IInv, TypeOK, Contexts
<1>3. /\ Grown
      /\ \A x \in table : x # held[p] => conn'[x].offloaded = conn[x].offloaded
      /\ held[p] \in table => conn'[held[p]].offloaded
  <2>1. CASE held[p] \notin table
    <3>1. conn' = conn
      BY <1>1, <2>1 DEF SetOffloaded, IInv, Hashed
    <3>2. \A x \in Objects : conn[x] # None => conn[x].hits \in Int
      BY DEF IInv, TypeOK, Connections
    <3> QED
      BY <3>1, <3>2, <2>1 DEF Grown, IInv, TypeOK
  <2>2. CASE held[p] \in table
    <3> DEFINE o == held[p]
               c == [conn[o] EXCEPT !.offloaded = TRUE]
    <3>1. conn[o] # None /\ conn[o] \in Connections
      BY <1>1, <2>2 DEF IInv, TypeOK, Hashed
    <3>2. conn' = [conn EXCEPT ![o] = c]
      BY <3>1 DEF SetOffloaded
    <3>3. /\ c \in Connections /\ c.ct = conn[o].ct /\ c.offload_permit = conn[o].offload_permit
          /\ c.offloaded /\ c.hits = conn[o].hits /\ c.hits \in Int
      BY <3>1, MarkShape
    <3> HIDE DEF c
    <3>4. Grown
      <4>1. c.hits >= conn[o].hits
        BY <3>3
      <4>2. conn[o].offload_permit => c.offload_permit
        BY <3>3, Zenon
      <4>3. conn[o].offloaded => c.offloaded
        BY <3>3, Zenon
      <4> QED
        BY <2>2, <3>2, <3>3, <4>1, <4>2, <4>3, OneGrows
    <3>5. conn'[o].offloaded /\ \A x \in table : x # o => conn'[x].offloaded = conn[x].offloaded
      BY <1>1, <3>2, <3>3 DEF IInv, TypeOK
    <3> QED
      BY <3>4, <3>5
  <2> QED
    BY <2>1, <2>2
<1>4. TypeOK'
  BY <1>1, <1>2, <1>3 DEF SetOffloaded, Leave, Grown, IInv, TypeOK, Contexts, Routing, Holding,
     kernel, outside, module
<1>5. Hashed' /\ AtMostOne' /\ ConnsCurrent'
  BY <1>1, <1>3 DEF SetOffloaded, Grown, IInv, TypeOK, Hashed, AtMostOne, ConnsCurrent,
     Current, Before, Live, kernel
<1>6. ASSUME NEW x \in table, Earned(x) PROVE Earned(x)'
  BY <1>3, <1>6, NumbersAssumption DEF SetOffloaded, Grown, Earned, IInv, TypeOK, Hashed
<1>7. PacketsCurrent' /\ HeldObjectsLive' /\ CreatorsEarned' /\ FlagsToCome'
  <2>1. \A q \in Cpus : Earned(held[q]) => held[q] \in table
    BY DEF Earned
  <2> QED
    BY <2>1, <1>1, <1>2, <1>6 DEF SetOffloaded, IInv, PacketsCurrent, HeldObjectsLive,
       CreatorsEarned, FlagsToCome, Current, Before, Live, kernel, outside
<1>8. AnnouncedCurrent'
  <2>1. Marked(announced) /\ announced \notin late /\ announced # None => Marked(announced)'
    <3>1. ASSUME NEW x \in table, conn[x].offloaded PROVE Marked(announced)'
      BY <1>3, <3>1 DEF SetOffloaded, Grown, Marked, IInv, TypeOK, Hashed
    <3>2. ASSUME NEW q \in Cpus, job[q] = "flag", packet[q] = announced,
                 announced \notin late, announced # None
          PROVE  Marked(announced)'
      <4>1. CASE q = p
        <5>1. held[p] \in table
          BY <1>1, <3>2, <4>1 DEF IInv, HeldObjectsLive
        <5> QED
          BY <1>3, <5>1 DEF SetOffloaded, Marked
      <4>2. CASE q # p
        BY <1>1, <3>2, <4>2 DEF Marked, SetOffloaded, outside
      <4> QED
        BY <4>1, <4>2
    <3> QED
      BY <3>1, <3>2 DEF Marked
  <2> QED
    BY <2>1, <1>1 DEF SetOffloaded, IInv, AnnouncedCurrent, Before, Live, kernel, outside
<1>9. Dying' /\ Loading' /\ RuleCurrent'
  BY <1>1 DEF SetOffloaded, IInv, Dying, Loading, RuleCurrent, Live, kernel, outside, module
<1>10. FlagAgrees'
  <2> SUFFICES ASSUME late = {}, NEW x \in table, conn'[x].offloaded
               PROVE  announced = conn'[x].ct
    BY DEF SetOffloaded, FlagAgrees, outside
  <2>1. conn'[x].ct = conn[x].ct /\ x \in Objects
    BY <1>3 DEF Grown, IInv, TypeOK, Hashed
  <2>2. CASE x # held[p]
    BY <1>3, <2>1, <2>2 DEF IInv, FlagAgrees
  <2>3. CASE x = held[p]
    <3>1. announced = packet[p] /\ packet[p] # None
      BY <1>1 DEF IInv, TypeOK, FlagsToCome, Routing
    <3>2. Live(packet[p]) /\ Live(conn[x].ct)
      BY <3>1 DEF IInv, PacketsCurrent, ConnsCurrent, Current
    <3> QED
      BY <2>1, <3>1, <3>2 DEF Live
  <2> QED
    BY <2>2, <2>3
<1> QED
  BY <1>4, <1>5, <1>7, <1>8, <1>9, <1>10 DEF IInv

\* The event: who is in post_routing with a packet of the entry is late from now on.
LEMMA ConntrackEventKeeps == ASSUME IInv, ConntrackEvent PROVE IInv'
<1>1. TypeOK'
  <2>1. conn' \in [Objects -> Connections \cup {None}] /\ table' = {}
    BY DEF ConntrackEvent, IInv, TypeOK
  <2>2. size' = 0
    BY DEF ConntrackEvent, IInv, AtMostOne
  <2>3. late' \subseteq Ids
    BY EntryType DEF ConntrackEvent, Overtake, IInv, TypeOK, Dying
  <2>4. /\ job'[Gc] \in {"destroy", "destroy_done"} /\ DOMAIN job' = Contexts
        /\ \A q \in Cpus : job'[q] = job[q]
    BY ContextsAssumption DEF ConntrackEvent, IInv, TypeOK, Contexts
  <2> QED
    BY <2>1, <2>2, <2>3, <2>4 DEF ConntrackEvent, IInv, TypeOK, GcJobs, kernel, outside, module
<1>2. Hashed'
  BY DEF Hashed, TypeOK, ConntrackEvent, Overtake, InRouting, IInv
<1>3. AtMostOne'
  BY DEF AtMostOne, TypeOK, ConntrackEvent, Overtake, InRouting, IInv
<1>4. Dying'
  BY ContextsAssumption DEF Dying, TypeOK, Contexts, ConntrackEvent, Overtake,
     InRouting, kernel, IInv
<1>5. PacketsCurrent'
  BY ContextsAssumption DEF PacketsCurrent, TypeOK, Contexts, Current, Before, Live,
     Routing, ConntrackEvent, Overtake, InRouting, kernel, IInv
<1>6. ConnsCurrent'
  BY ContextsAssumption DEF ConnsCurrent, TypeOK, Contexts, Current, Before, Live,
     ConntrackEvent, Overtake, InRouting, kernel, IInv
<1>7. RuleCurrent'
  BY ContextsAssumption DEF RuleCurrent, TypeOK, Contexts, Live, ConntrackEvent,
     Overtake, InRouting, kernel, outside, IInv
<1>8. AnnouncedCurrent'
  BY ContextsAssumption DEF AnnouncedCurrent, TypeOK, Contexts, Live, Before,
     Marked, ConntrackEvent, Overtake, InRouting, kernel, outside, IInv, Routing
<1>9. HeldObjectsLive'
  BY DEF HeldObjectsLive, TypeOK, Holding, Routing, ConntrackEvent, Overtake,
     InRouting, IInv, Current, Live, PacketsCurrent
<1>10. CreatorsEarned'
  BY ContextsAssumption DEF CreatorsEarned, TypeOK, Earned, Contexts, Holding,
     ConntrackEvent, Overtake, InRouting, IInv, Current, Live, Routing,
     PacketsCurrent, HeldObjectsLive
<1>11. FlagsToCome'
  BY ContextsAssumption DEF FlagsToCome, TypeOK, Contexts, Routing, ConntrackEvent,
     Overtake, InRouting, outside, IInv
<1>12. FlagAgrees'
  BY DEF FlagAgrees, TypeOK, ConntrackEvent, Overtake, InRouting, outside, IInv
<1>13. Loading'
  BY DEF Loading, ConntrackEvent, module, IInv
<1> QED
  BY <1>1, <1>2, <1>3, <1>4, <1>5, <1>6, <1>7, <1>8, <1>9, <1>10, <1>11, <1>12,
     <1>13 DEF IInv

\* No rule of the entry is left.
LEMMA DestroyRuleKeeps == ASSUME IInv, DestroyRule PROVE IInv'
<1>1. TypeOK'
  BY ContextsAssumption DEF TypeOK, GcJobs, Routing, Holding, Contexts, Entries,
     Connections, Ids, DestroyRule, kernel, conns, module, IInv
<1>2. Dying'
  BY ContextsAssumption DEF Dying, TypeOK, Contexts, DestroyRule, kernel, IInv
<1>3. PacketsCurrent'
  BY ContextsAssumption DEF PacketsCurrent, TypeOK, Contexts, Current, Before, Live,
     Routing, DestroyRule, kernel, IInv
<1>4. ConnsCurrent'
  BY ContextsAssumption DEF ConnsCurrent, TypeOK, Contexts, Current, Before, Live,
     DestroyRule, kernel, conns, IInv
<1>5. RuleCurrent'
  BY ContextsAssumption DEF RuleCurrent, TypeOK, Contexts, Live, DestroyRule,
     kernel, IInv
<1>6. AnnouncedCurrent'
  BY ContextsAssumption DEF AnnouncedCurrent, TypeOK, Contexts, Live, Before,
     Marked, DestroyRule, kernel, conns, IInv
<1>7. CreatorsEarned'
  BY ContextsAssumption DEF CreatorsEarned, TypeOK, Earned, Contexts, Holding,
     DestroyRule, conns, IInv
<1>8. FlagsToCome'
  BY ContextsAssumption DEF FlagsToCome, TypeOK, Contexts, Routing, DestroyRule,
     IInv
<1>9. Hashed' /\ AtMostOne' /\ Loading' /\ HeldObjectsLive' /\ FlagAgrees'
  BY DEF Hashed, AtMostOne, Loading, HeldObjectsLive, FlagAgrees, DestroyRule,
     conns, module, IInv
<1> QED
  BY <1>1, <1>2, <1>3, <1>4, <1>5, <1>6, <1>7, <1>8, <1>9 DEF IInv

\* No message of the entry is left undone.
LEMMA SendDoneKeeps == ASSUME IInv, SendDone PROVE IInv'
<1>1. TypeOK'
  BY ContextsAssumption DEF TypeOK, GcJobs, Routing, Holding, Contexts, Entries,
     Connections, Ids, SendDone, kernel, conns, module, IInv
<1>2. Dying'
  BY ContextsAssumption DEF Dying, TypeOK, Contexts, SendDone, kernel, IInv
<1>3. PacketsCurrent'
  BY ContextsAssumption DEF PacketsCurrent, TypeOK, Contexts, Current, Before, Live,
     Routing, SendDone, kernel, IInv
<1>4. ConnsCurrent'
  BY ContextsAssumption DEF ConnsCurrent, TypeOK, Contexts, Current, Before, Live,
     SendDone, kernel, conns, IInv
<1>5. RuleCurrent'
  BY ContextsAssumption DEF RuleCurrent, TypeOK, Contexts, Live, SendDone, kernel,
     IInv
<1>6. AnnouncedCurrent'
  BY ContextsAssumption DEF AnnouncedCurrent, TypeOK, Contexts, Live, Before,
     Marked, SendDone, kernel, conns, IInv
<1>7. CreatorsEarned'
  BY ContextsAssumption DEF CreatorsEarned, TypeOK, Earned, Contexts, Holding,
     SendDone, conns, IInv
<1>8. FlagsToCome'
  BY ContextsAssumption DEF FlagsToCome, TypeOK, Contexts, Routing, SendDone, IInv,
     PacketsCurrent, Current, Before
<1>9. FlagAgrees'
  BY DEF FlagAgrees, TypeOK, SendDone, conns, IInv, ConnsCurrent, Current, Before
<1>10. Hashed' /\ AtMostOne' /\ Loading' /\ HeldObjectsLive'
  BY DEF Hashed, AtMostOne, Loading, HeldObjectsLive, SendDone, conns, module, IInv
<1> QED
  BY <1>1, <1>2, <1>3, <1>4, <1>5, <1>6, <1>7, <1>8, <1>9, <1>10 DEF IInv

\* A request only sets offload_permit.
LEMMA OffloadRequestKeeps == ASSUME IInv, OffloadRequest PROVE IInv'
<1>1. PICK o \in table : conn' = [conn EXCEPT ![o].offload_permit = TRUE]
  BY DEF OffloadRequest, SbFindConn
<1>2. o \in Objects /\ conn[o] # None /\ conn[o] \in Connections
  BY DEF IInv, TypeOK, Hashed
<1>3. DEFINE c == [conn[o] EXCEPT !.offload_permit = TRUE]
<1>4. conn' = [conn EXCEPT ![o] = c]
  BY <1>1
<1>5. /\ c \in Connections /\ c.ct = conn[o].ct /\ c.offload_permit
      /\ c.offloaded = conn[o].offloaded /\ c.hits = conn[o].hits /\ c.hits \in Int
  BY <1>2, MarkShape
<1> HIDE DEF c
<1>6. Grown
  <2>1. c.hits >= conn[o].hits
    BY <1>5
  <2>2. conn[o].offload_permit => c.offload_permit
    BY <1>5, Zenon
  <2>3. conn[o].offloaded => c.offloaded
    BY <1>5, Zenon
  <2> QED
    BY <1>4, <1>5, <2>1, <2>2, <2>3, OneGrows
<1>7. \A x \in table : conn'[x].offloaded = conn[x].offloaded
  BY <1>4, <1>5 DEF IInv, TypeOK
<1>8. TypeOK'
  BY <1>6 DEF OffloadRequest, Grown, IInv, TypeOK, kernel, outside, contexts, module
<1>9. /\ Hashed' /\ AtMostOne' /\ ConnsCurrent' /\ AnnouncedCurrent'
      /\ \A x \in table : Earned(x) => Earned(x)'
  BY <1>6, GrowthKeeps DEF OffloadRequest, kernel, outside, contexts
<1>10. /\ Dying' /\ Loading' /\ RuleCurrent' /\ PacketsCurrent' /\ HeldObjectsLive'
       /\ FlagsToCome'
  BY DEF OffloadRequest, IInv, Dying, Loading, RuleCurrent, PacketsCurrent, HeldObjectsLive,
     FlagsToCome, Current, Before, Live, kernel, outside, contexts, module
<1>11. CreatorsEarned'
  <2>1. \A q \in Cpus : Earned(held[q]) => held[q] \in table
    BY DEF Earned
  <2> QED
    BY <2>1, <1>9 DEF OffloadRequest, IInv, CreatorsEarned, contexts
<1>12. FlagAgrees'
  BY <1>6, <1>7 DEF OffloadRequest, Grown, IInv, TypeOK, Hashed, FlagAgrees, outside
<1> QED
  BY <1>8, <1>9, <1>10, <1>11, <1>12 DEF IInv

\* Loading.
LEMMA RegisterKeeps == ASSUME IInv, Register PROVE IInv'
<1>1. TypeOK'
  <2>1. at \in 1 .. 6 /\ at' \in 1 .. 8 /\ phase' \in {"load", "up"}
    BY Orders DEF Register, Proceed, IInv, TypeOK, Loading
  <2>2. hooks' \subseteq {InitOrder[i] : i \in DOMAIN InitOrder}
    BY <2>1, Orders DEF Register, IInv, TypeOK
  <2> QED
    BY <2>1, <2>2, Orders DEF Register, IInv, TypeOK, kernel, conns, outside, contexts
<1>2. Loading'
  BY Orders DEF Loading, TypeOK, Register, Proceed, IInv
<1>3. /\ Hashed' /\ AtMostOne' /\ Dying' /\ PacketsCurrent' /\ ConnsCurrent'
      /\ RuleCurrent' /\ AnnouncedCurrent' /\ HeldObjectsLive' /\ CreatorsEarned'
      /\ FlagsToCome' /\ FlagAgrees'
  BY DEF Hashed, AtMostOne, Dying, PacketsCurrent, ConnsCurrent, RuleCurrent,
     AnnouncedCurrent, HeldObjectsLive, CreatorsEarned, FlagsToCome, FlagAgrees,
     Current, Before, Live, Marked, Earned, Register, kernel, conns, outside,
     contexts, IInv
<1> QED
  BY <1>1, <1>2, <1>3 DEF IInv

\* Loading fails.
LEMMA FailKeeps == ASSUME IInv, Fail PROVE IInv'
<1>1. TypeOK'
  BY Orders DEF TypeOK, GcJobs, Routing, Holding, Entries, Connections, Ids, Fail,
     kernel, conns, outside, contexts, IInv
<1>2. Loading'
  BY Orders DEF Loading, TypeOK, Fail, IInv
<1>3. /\ Hashed' /\ AtMostOne' /\ Dying' /\ PacketsCurrent' /\ ConnsCurrent'
      /\ RuleCurrent' /\ AnnouncedCurrent' /\ HeldObjectsLive' /\ CreatorsEarned'
      /\ FlagsToCome' /\ FlagAgrees'
  BY DEF Hashed, AtMostOne, Dying, PacketsCurrent, ConnsCurrent, RuleCurrent,
     AnnouncedCurrent, HeldObjectsLive, CreatorsEarned, FlagsToCome, FlagAgrees,
     Current, Before, Live, Marked, Earned, Fail, kernel, conns, outside, contexts,
     IInv
<1> QED
  BY <1>1, <1>2, <1>3 DEF IInv

\* Unloading begins.
LEMMA RemoveKeeps == ASSUME IInv, Remove PROVE IInv'
<1>1. TypeOK'
  BY DEF TypeOK, GcJobs, Routing, Holding, Entries, Connections, Ids, Remove,
     kernel, conns, outside, contexts, IInv
<1>2. Loading'
  BY DEF Loading, TypeOK, Remove, IInv
<1>3. /\ Hashed' /\ AtMostOne' /\ Dying' /\ PacketsCurrent' /\ ConnsCurrent'
      /\ RuleCurrent' /\ AnnouncedCurrent' /\ HeldObjectsLive' /\ CreatorsEarned'
      /\ FlagsToCome' /\ FlagAgrees'
  BY DEF Hashed, AtMostOne, Dying, PacketsCurrent, ConnsCurrent, RuleCurrent,
     AnnouncedCurrent, HeldObjectsLive, CreatorsEarned, FlagsToCome, FlagAgrees,
     Current, Before, Live, Marked, Earned, Remove, kernel, conns, outside,
     contexts, IInv
<1> QED
  BY <1>1, <1>2, <1>3 DEF IInv

\* Unloading destroys the rule.
LEMMA UnregisterKeeps == ASSUME IInv, Unregister PROVE IInv'
<1>1. TypeOK'
  BY Orders DEF TypeOK, GcJobs, Routing, Holding, Entries, Connections, Ids,
     Unregister, Proceed, kernel, conns, contexts, IInv
<1>2. Loading'
  BY Orders DEF Loading, TypeOK, Unregister, Proceed, IInv
<1>3. RuleCurrent'
  BY DEF RuleCurrent, TypeOK, Live, Unregister, Proceed, kernel, contexts, IInv
<1>4. /\ Hashed' /\ AtMostOne' /\ Dying' /\ PacketsCurrent' /\ ConnsCurrent'
      /\ AnnouncedCurrent' /\ HeldObjectsLive' /\ CreatorsEarned' /\ FlagsToCome'
      /\ FlagAgrees'
  BY DEF Hashed, AtMostOne, Dying, PacketsCurrent, ConnsCurrent, AnnouncedCurrent,
     HeldObjectsLive, CreatorsEarned, FlagsToCome, FlagAgrees, Current, Before,
     Live, Marked, Earned, Unregister, kernel, conns, contexts, IInv
<1> QED
  BY <1>1, <1>2, <1>3, <1>4 DEF IInv

-----------------------------------------------------------------------------
(* The theorems.                                                           *)

\* The invariant is inductive.
LEMMA StepInv == IInv /\ [Next]_vars => IInv'
<1> SUFFICES ASSUME IInv, [Next]_vars PROVE IInv'
  OBVIOUS
<1>1. ASSUME NEW p \in Cpus,
             \/ Conntrack(p) \/ PostRouting(p) \/ UpdateRule(p) \/ ResolveFail(p)
             \/ AddConn(p) \/ CreateRule(p) \/ Announce(p) \/ SetOffloaded(p)
      PROVE  IInv'
  BY <1>1, ConntrackKeeps, PostRoutingKeeps, UpdateRuleKeeps, ResolveFailKeeps, AddConnKeeps,
     CreateRuleKeeps, AnnounceKeeps, SetOffloadedKeeps
<1>2. CASE Kill \/ Unheard \/ ConntrackEvent \/ DestroyRule \/ SendDone \/ Unhash
  BY <1>2, KillKeeps, UnheardKeeps, ConntrackEventKeeps, DestroyRuleKeeps, SendDoneKeeps,
     UnhashKeeps
<1>3. CASE EngineFlush \/ OffloadRequest
  BY <1>3, EngineFlushKeeps, OffloadRequestKeeps
<1>4. CASE Register \/ Fail \/ Remove \/ Unregister
  BY <1>4, RegisterKeeps, FailKeeps, RemoveKeeps, UnregisterKeeps
<1>5. CASE UNCHANGED vars
  BY <1>5 DEF vars, kernel, conns, outside, contexts, module, IInv, TypeOK, Hashed, AtMostOne,
     Dying, Loading, PacketsCurrent, ConnsCurrent, RuleCurrent, AnnouncedCurrent,
     HeldObjectsLive, CreatorsEarned, FlagsToCome, FlagAgrees, Current, Before, Live, Marked, Earned
<1> QED
  BY <1>1, <1>2, <1>3, <1>4, <1>5 DEF Next

\* The invariant holds in every state.
THEOREM Invariance == Spec => []IInv
  BY InitInv, StepInv, PTL DEF Spec

\* Every variable has its type: sfe_connections_size is never negative, and
\* post_routing has a packet and an object where the code uses them.
THEOREM TypeCorrect == Spec => []TypeOK
<1>1. IInv => TypeOK
  BY DEF IInv
<1> QED
  BY <1>1, Invariance, PTL

\* However many contexts add a connection of the tuple at once, the table has at
\* most one, it is allocated, and the size counts it.
THEOREM TableStaysSound == Spec => []TableSound
<1>1. IInv => TableSound
  <2> SUFFICES ASSUME IInv PROVE TableSound
    OBVIOUS
  <2>1. CASE table = {}
    BY <2>1, FS_EmptySet DEF IInv, Hashed, AtMostOne, TableSound
  <2>2. CASE table # {}
    <3>1. PICK o \in table : table = {o}
      BY <2>2 DEF IInv, AtMostOne
    <3>2. Cardinality(table) = 1
      BY <3>1, FS_Singleton
    <3> QED
      BY <2>2, <3>2 DEF IInv, Hashed, AtMostOne, TableSound
  <2> QED
    BY <2>1, <2>2
<1> QED
  BY <1>1, Invariance, PTL

\* What each part of the invariant says of entries, objects and messages.
LEMMA InvariantSays ==
  IInv => /\ DanglingOnlyFromRaces
          /\ OrphansOnlyFromRaces
          /\ AnnouncedIsUndone
  BY DEF IInv, ConnsCurrent, RuleCurrent, AnnouncedCurrent, Current,
     DanglingOnlyFromRaces, OrphansOnlyFromRaces, AnnouncedIsUndone

\* A connection of the table outlives its conntrack entry only after a race: a
\* packet was in the hooks when the event came, or nobody was listening.
THEOREM ConnsFollowEntries == Spec => []DanglingOnlyFromRaces
<1> QED
  BY InvariantSays, Invariance, PTL

\* A rule of the engine outlives its conntrack entry only after such a race.
THEOREM RulesFollowEntries == Spec => []OrphansOnlyFromRaces
<1> QED
  BY InvariantSays, Invariance, PTL

\* The connection that post_routing goes on with after it has dropped the lock is
\* still allocated, unless the event of its entry came in between.
THEOREM HeldObjectsStayLive == Spec => []HeldObjectsLive
<1>1. IInv => HeldObjectsLive
  BY DEF IInv
<1> QED
  BY <1>1, Invariance, PTL

\* Listeners that were told OFFLOADED are told DONE by the time the entry is gone,
\* unless there was such a race.
THEOREM ListenersAgree == Spec => []AnnouncedIsUndone
<1> QED
  BY InvariantSays, Invariance, PTL

\* While no event has overtaken a packet, a connection marked offloaded is the one
\* that the listeners were told of last.
THEOREM FlagsAgreeWithMessages == Spec => []FlagAgrees
<1>1. IInv => FlagAgrees
  BY DEF IInv
<1> QED
  BY <1>1, Invariance, PTL

\* A rule is made only for a connection that has had offload_at_pkts packets or
\* has been asked for, or by a context that was overtaken.
THEOREM RulesStayEarned == Spec => RulesAreEarned
<1> DEFINE A == rule' # None /\ rule' # rule =>
                  \/ \E o \in table : conn[o].offload_permit \/ conn[o].hits >= OffloadAt
                  \/ rule' \in late
<1>1. IInv /\ [Next]_vars => [A]_vars
  <2> SUFFICES ASSUME IInv, Next PROVE A
    OBVIOUS
  <2>1. ASSUME NEW p \in Cpus, CreateRule(p) PROVE A
    BY <2>1 DEF CreateRule, IInv, CreatorsEarned, Earned
  <2>2. ASSUME NEW p \in Cpus,
               \/ Conntrack(p) \/ PostRouting(p) \/ UpdateRule(p) \/ ResolveFail(p)
               \/ AddConn(p) \/ Announce(p) \/ SetOffloaded(p)
        PROVE  A
    BY <2>2 DEF Conntrack, PostRouting, UpdateRule, ResolveFail, AddConn, Announce, SetOffloaded,
       outside
  <2>3. CASE \/ Kill \/ Unheard \/ ConntrackEvent \/ DestroyRule \/ SendDone \/ Unhash
             \/ EngineFlush \/ OffloadRequest \/ Register \/ Fail \/ Remove \/ Unregister
    BY <2>3 DEF Kill, Unheard, ConntrackEvent, DestroyRule, SendDone, Unhash, EngineFlush,
       OffloadRequest, Register, Fail, Remove, Unregister, outside
  <2> QED
    BY <2>1, <2>2, <2>3 DEF Next
<1> QED
  BY <1>1, Invariance, PTL DEF Spec, RulesAreEarned

=============================================================================
