--------------------------- MODULE SfeIPv4Refines ---------------------------
(***************************************************************************)
(* The forwarding engine implements the rule table, for any number of      *)
(* connections, contexts, devices, tuples and requests.                    *)
(*                                                                         *)
(* What a caller sees of a tuple is the one linked connection that has it  *)
(* (UniqueTuples).  Only four kinds of step change that: the insertion,    *)
(* the removal, a forwarded packet and the head of the active list in the  *)
(* periodic sync.  A connection that is being flushed is no longer seen,   *)
(* it is the message that its owner carries (SingleOwner).                 *)
(***************************************************************************)
EXTENDS SfeIPv4Proofs

Rules   == [t \in Tuples |-> RuleOf(t)]
Counts  == [t \in Tuples |-> CountOf(t)]
Carried == [p \in Cpus \cup {"timer"} |-> IF p = "timer" THEN sis ELSE CarriedBy(p)]

-----------------------------------------------------------------------------
(* The abstract steps in the names of this module.                         *)

\* A step that creates the rule of a request is a step of the table.
LEMMA TableCreate ==
  ASSUME NEW s \in Sics, Rules[s.tuple] = None, Rules' = [Rules EXCEPT ![s.tuple] = s],
         Counts' = Counts, Carried' = Carried
  PROVE  Table!Next
  BY DEF Table!Next, Table!Create, Rules, Counts, Carried

\* A step that counts a packet of a rule is a step of the table.
LEMMA TableForward ==
  ASSUME NEW t \in Tuples, NEW d \in Dirs, Rules[t] # None,
         Counts' = [Counts EXCEPT ![t][d] = @ + 1],
         Rules' = Rules, Carried' = Carried
  PROVE  Table!Next
  BY DEF Table!Next, Table!Forward, Rules, Counts, Carried, Dirs, Table!Dirs

\* A step that moves the counts of a rule into the message of the context that
\* removes it is a step of the table.
LEMMA TableRemove ==
  ASSUME NEW p \in Cpus, NEW t \in Tuples, Rules[t] # None, Carried[p] = None,
         Carried' = [Carried EXCEPT ![p] = [tuple |-> t, count |-> Counts[t]]],
         Counts' = [Counts EXCEPT ![t] = Zero],
         Rules' = [Rules EXCEPT ![t] = None]
  PROVE  Table!Next
  BY DEF Table!Next, Table!Remove, Table!Carry, Rules, Counts, Carried,
     Zero, Table!Zero, Dirs, Table!Dirs

\* A step that moves the counts of a rule into the message of the timer is a step
\* of the table.
LEMMA TableCollect ==
  ASSUME NEW t \in Tuples, Rules[t] # None, Carried["timer"] = None,
         Carried' = [Carried EXCEPT !["timer"] = [tuple |-> t, count |-> Counts[t]]],
         Counts' = [Counts EXCEPT ![t] = Zero],
         Rules' = Rules
  PROVE  Table!Next
  BY DEF Table!Next, Table!Collect, Table!Carry, Table!Timer, Rules, Counts, Carried,
     Zero, Table!Zero, Dirs, Table!Dirs

\* A step that takes the message from its carrier is a step of the table.
LEMMA TableDeliver ==
  ASSUME NEW p \in Cpus \cup {"timer"}, Carried[p] # None,
         Carried' = [Carried EXCEPT ![p] = None], Rules' = Rules, Counts' = Counts
  PROVE  Table!Next
  BY DEF Table!Next, Table!Deliver, Table!Carrier, Table!Timer, Rules, Counts, Carried

\* A step that changes nothing of the table is a stutter of it.
LEMMA TableStutter ==
  ASSUME Rules' = Rules, Counts' = Counts, Carried' = Carried
  PROVE  UNCHANGED Table!vars
  BY DEF Table!vars, Rules, Counts, Carried

-----------------------------------------------------------------------------
(* What the tables look like from outside.                                 *)

\* A linked connection is what its tuple shows.
LEMMA ShownByTuple ==
  ASSUME IInv, NEW c \in Linked
  PROVE  /\ c \in Conns /\ rule[c] \in Sics /\ rule[c].tuple \in Tuples /\ rule[c] # None
         /\ FindConnection(rule[c].tuple) = {c}
         /\ RuleOf(rule[c].tuple) = rule[c]
         /\ CountOf(rule[c].tuple) = rx[c]
<1>1. c \in Conns /\ rule[c] # None /\ rule[c] \in Sics
  BY DEF IInv, TypeOK, Linked
<1>2. rule[c].tuple \in Tuples
  BY <1>1, SicsAssumption
<1>3. FindConnection(rule[c].tuple) = {c}
  BY DEF IInv, UniqueTuples, FindConnection
<1>4. (CHOOSE e \in {c} : TRUE) = c
  OBVIOUS
<1> QED
  BY <1>1, <1>2, <1>3, <1>4 DEF RuleOf, CountOf

\* A tuple that no linked connection has shows nothing.
LEMMA ShownEmpty ==
  ASSUME NEW t, FindConnection(t) = {}
  PROVE  RuleOf(t) = None /\ CountOf(t) = Zero
  BY DEF RuleOf, CountOf

\* What is shown depends on the rules and counts of linked connections only.
LEMMA SameShown ==
  ASSUME Linked' = Linked, \A c \in Linked : rule'[c] = rule[c] /\ rx'[c] = rx[c]
  PROVE  Rules' = Rules /\ Counts' = Counts
<1>1. ASSUME NEW t \in Tuples PROVE RuleOf(t)' = RuleOf(t) /\ CountOf(t)' = CountOf(t)
  <2>1. FindConnection(t)' = FindConnection(t)
    BY DEF FindConnection
  <2>2. CASE FindConnection(t) = {}
    BY <2>1, <2>2 DEF RuleOf, CountOf
  <2>3. CASE FindConnection(t) # {}
    <3>1. (CHOOSE c \in FindConnection(t) : TRUE) \in Linked
      BY <2>3 DEF FindConnection
    <3> QED
      BY <2>1, <2>3, <3>1 DEF RuleOf, CountOf
  <2> QED
    BY <2>2, <2>3
<1> QED
  BY <1>1 DEF Rules, Counts

\* What a context carries depends on where it is and on the connection it owns.
LEMMA SameCarried ==
  ASSUME sis' = sis,
         \A p \in Cpus :
            /\ pc[p] \in {"flush", "sync"} <=> pc'[p] \in {"flush", "sync"}
            /\ pc[p] \in {"flush", "sync"} =>
                 /\ own'[p] = own[p]
                 /\ rule'[own[p]] = rule[own[p]] /\ rx'[own[p]] = rx[own[p]]
  PROVE  Carried' = Carried
<1>1. ASSUME NEW p \in Cpus PROVE CarriedBy(p)' = CarriedBy(p)
  BY <1>1 DEF CarriedBy, SyncMessage
<1> QED
  BY <1>1 DEF Carried

\* The other contexts own other connections.
LEMMA OwnersDiffer ==
  ASSUME IInv, NEW p \in Cpus, NEW q \in Cpus, p # q, pc[q] \in {"flush", "sync"}
  PROVE  /\ own[q] \in Conns /\ heap[own[q]] = "unlinked" /\ own[q] # own[p]
  BY NoneAssumption DEF IInv, TypeOK, SingleOwner, Flushing

-----------------------------------------------------------------------------
(* The steps.                                                              *)

\* Inserting a connection creates the rule of its tuple.
LEMMA InsertRefines ==
  ASSUME IInv, NEW p \in Cpus, NEW c \in Conns, CreateRuleInsert(p, c)
  PROVE  Table!Next
<1>0. PICK s \in Sics : s = request[p]
  BY DEF CreateRuleInsert, IInv, TypeOK
<1>1. s \in Sics /\ s.tuple \in Tuples
  BY SicsAssumption
<1>2. heap[c] = "free" /\ FindConnection(s.tuple) = {}
  BY <1>0 DEF CreateRuleInsert, FillIn
<1>3. /\ heap' = [heap EXCEPT ![c] = "linked"] /\ rule' = [rule EXCEPT ![c] = s]
      /\ rx' = [rx EXCEPT ![c] = Zero] /\ UNCHANGED <<own, sis>>
      /\ pc[p] = "create" /\ pc' = [pc EXCEPT ![p] = "idle"]
  BY <1>0 DEF CreateRuleInsert, FillIn, InsertConnection, timer
<1>4. Linked' = Linked \cup {c} /\ c \notin Linked
  BY <1>2, <1>3 DEF Linked, IInv, TypeOK
<1>5. \A e \in Conns : /\ e # c => rule'[e] = rule[e] /\ rx'[e] = rx[e]
                       /\ e = c => rule'[e] = s /\ rx'[e] = Zero
  BY <1>3 DEF IInv, TypeOK
<1>6. Linked \subseteq Conns
  BY DEF Linked
<1>7. \A t \in Tuples : t # s.tuple => FindConnection(t)' = FindConnection(t)
  <2> SUFFICES ASSUME NEW t \in Tuples, t # s.tuple, NEW e
               PROVE  e \in FindConnection(t)' <=> e \in FindConnection(t)
    BY Zenon
  <2>1. e \in FindConnection(t)' <=> e \in Linked' /\ rule'[e].tuple = t
    BY DEF FindConnection
  <2>2. e \in FindConnection(t) <=> e \in Linked /\ rule[e].tuple = t
    BY DEF FindConnection
  <2> QED
    BY <1>4, <1>5, <1>6, <2>1, <2>2
<1>8. FindConnection(s.tuple)' = {c}
  BY <1>2, <1>4, <1>5, <1>6 DEF FindConnection
<1>9. RuleOf(s.tuple)' = s /\ CountOf(s.tuple)' = Zero
  <2>1. (CHOOSE e \in {c} : TRUE) = c
    OBVIOUS
  <2> QED
    BY <1>5, <1>8, <2>1 DEF RuleOf, CountOf
<1>10. ASSUME NEW t \in Tuples, t # s.tuple
       PROVE  RuleOf(t)' = RuleOf(t) /\ CountOf(t)' = CountOf(t)
  <2>1. CASE FindConnection(t) = {}
    BY <1>7, <1>10, <2>1 DEF RuleOf, CountOf
  <2>2. CASE FindConnection(t) # {}
    <3>1. (CHOOSE e \in FindConnection(t) : TRUE) \in Linked
      BY <2>2 DEF FindConnection
    <3> QED
      BY <1>4, <1>5, <1>6, <1>7, <1>10, <2>2, <3>1 DEF RuleOf, CountOf
  <2> QED
    BY <2>1, <2>2
<1>11. Rules' = [Rules EXCEPT ![s.tuple] = s] /\ Rules[s.tuple] = None
  <2>1. \A t \in Tuples : RuleOf(t)' = IF t = s.tuple THEN s ELSE RuleOf(t)
    BY <1>9, <1>10
  <2> QED
    BY <1>1, <1>2, <2>1, ShownEmpty DEF Rules
<1>12. Counts' = Counts
  <2>1. \A t \in Tuples : CountOf(t)' = CountOf(t)
    BY <1>2, <1>9, <1>10, ShownEmpty
  <2> QED
    BY <2>1 DEF Counts
<1>13. Carried' = Carried
  <2>1. ASSUME NEW q \in Cpus, pc[q] \in {"flush", "sync"}
        PROVE  own[q] \in Conns /\ own[q] # c
    BY <2>1, <1>2, NoneAssumption DEF IInv, TypeOK, SingleOwner, Flushing
  <2>2. \A q \in Cpus : pc[q] \in {"flush", "sync"} <=> pc'[q] \in {"flush", "sync"}
    BY <1>3 DEF IInv, TypeOK
  <2> QED
    BY <1>3, <1>5, <2>1, <2>2, SameCarried
<1> QED
  BY <1>1, <1>11, <1>12, <1>13, TableCreate

\* Taking a connection out of the tables removes its rule, and the context that
\* does it carries the counts.
LEMMA RemoveRefines ==
  ASSUME IInv, NEW p \in Cpus, NEW c \in Linked, pc[p] \in {"idle", "sweep"},
         StartFlush(p, c), UNCHANGED sis
  PROVE  Table!Next
<1>0. PICK t \in Tuples : t = rule[c].tuple
  BY ShownByTuple
<1>1. /\ c \in Conns /\ rule[c] # None /\ FindConnection(t) = {c}
      /\ RuleOf(t) = rule[c] /\ CountOf(t) = rx[c]
  BY <1>0, ShownByTuple
<1>2. /\ heap' = [heap EXCEPT ![c] = "unlinked"] /\ rule' = rule /\ rx' = rx
      /\ pc' = [pc EXCEPT ![p] = "flush"] /\ own' = [own EXCEPT ![p] = c]
  BY DEF StartFlush, RemoveConnection
<1>3. Linked' = Linked \ {c}
  BY <1>1, <1>2 DEF Linked, IInv, TypeOK
<1>4. FindConnection(t)' = {}
  BY <1>1, <1>2, <1>3 DEF FindConnection
<1>5. \A u \in Tuples : u # t => FindConnection(u)' = FindConnection(u)
  BY <1>0, <1>2, <1>3 DEF FindConnection
<1>6. Rules' = [Rules EXCEPT ![t] = None]
  <2>1. RuleOf(t)' = None
    BY <1>4 DEF RuleOf
  <2>2. ASSUME NEW u \in Tuples, u # t PROVE RuleOf(u)' = RuleOf(u)
    <3>1. FindConnection(u)' = FindConnection(u)
      BY <1>5, <2>2
    <3> QED
      BY <1>2, <3>1 DEF RuleOf
  <2> QED
    BY <1>1, <2>1, <2>2 DEF Rules
<1>7. Counts' = [Counts EXCEPT ![t] = Zero]
  <2>1. CountOf(t)' = Zero
    BY <1>4 DEF CountOf
  <2>2. ASSUME NEW u \in Tuples, u # t PROVE CountOf(u)' = CountOf(u)
    <3>1. FindConnection(u)' = FindConnection(u)
      BY <1>5, <2>2
    <3> QED
      BY <1>2, <3>1 DEF CountOf
  <2> QED
    BY <1>1, <2>1, <2>2 DEF Counts
<1>8. Carried[p] = None /\ Carried' = [Carried EXCEPT ![p] = [tuple |-> t, count |-> Counts[t]]]
  <2>1. CarriedBy(p) = None
    BY DEF CarriedBy
  <2>2. CarriedBy(p)' = [tuple |-> t, count |-> rx[c]]
    BY <1>0, <1>2 DEF CarriedBy, SyncMessage, IInv, TypeOK
  <2>3. \A q \in Cpus : q # p => CarriedBy(q)' = CarriedBy(q)
    BY <1>2 DEF CarriedBy, SyncMessage, IInv, TypeOK
  <2>4. p # "timer" /\ Counts[t] = rx[c]
    BY <1>1, TimerAssumption DEF Counts
  <2> QED
    BY <2>1, <2>2, <2>3, <2>4 DEF Carried
<1>9. Rules[t] # None
  BY <1>1 DEF Rules
<1> QED
  BY <1>1, <1>6, <1>7, <1>8, <1>9, TableRemove

\* A step that leaves the shown connections and the carried ones alone is a
\* stutter of the table.
LEMMA QuietRefines ==
  ASSUME UNCHANGED <<heap, rule, rx, own, sis>>,
         \A p \in Cpus : pc[p] \in {"flush", "sync"} <=> pc'[p] \in {"flush", "sync"}
  PROVE  UNCHANGED Table!vars
<1>1. Rules' = Rules /\ Counts' = Counts
  BY SameShown DEF Linked
<1>2. Carried' = Carried
  BY SameCarried
<1> QED
  BY <1>1, <1>2, TableStutter

\* A context that is done with the message of the connection it owns, because the
\* callback has run or because there is none, has delivered it.
LEMMA HandOverRefines ==
  ASSUME IInv, NEW p \in Cpus, pc[p] \in {"flush", "sync"},
         NEW next \in {"free", "discard"}, pc' = [pc EXCEPT ![p] = next],
         UNCHANGED <<heap, rule, own, sis>>,
         \A c \in Conns : c # own[p] => rx'[c] = rx[c]
  PROVE  Table!Next
<1>1. /\ own[p] \in Conns /\ heap[own[p]] = "unlinked"
      /\ rule[own[p]] \in Sics
  BY NoneAssumption DEF IInv, TypeOK, SingleOwner, Flushing
<1>2. Rules' = Rules /\ Counts' = Counts
  <2>1. Linked' = Linked /\ own[p] \notin Linked /\ Linked \subseteq Conns
    BY <1>1 DEF Linked
  <2> QED
    BY <2>1, SameShown
<1>3. CarriedBy(p) # None /\ CarriedBy(p)' = None
  <2>1. SyncMessage(own[p]) \in Messages
    BY <1>1, SicsAssumption DEF SyncMessage, Messages, IInv, TypeOK
  <2> QED
    BY <2>1, NoneAssumption DEF CarriedBy, IInv, TypeOK
<1>4. ASSUME NEW q \in Cpus, q # p PROVE CarriedBy(q)' = CarriedBy(q)
  <2>1. pc'[q] = pc[q]
    BY <1>4 DEF IInv, TypeOK
  <2>2. CASE pc[q] \in {"flush", "sync"}
    <3>1. own[q] \in Conns /\ own[q] # own[p]
      BY <1>4, <2>2, OwnersDiffer
    <3> QED
      BY <2>1, <3>1 DEF CarriedBy, SyncMessage
  <2>3. CASE pc[q] \notin {"flush", "sync"}
    BY <2>1, <2>3 DEF CarriedBy
  <2> QED
    BY <2>2, <2>3
<1>5. p # "timer"
  BY TimerAssumption
<1>6. Carried[p] # None /\ Carried' = [Carried EXCEPT ![p] = None]
  BY <1>3, <1>4, <1>5 DEF Carried
<1> QED
  BY <1>2, <1>6, TableDeliver

\* Reading the callback decides whether the message is delivered to it.
LEMMA FlushReadCallbackRefines ==
  ASSUME IInv, NEW p \in Cpus, FlushReadCallback(p)
  PROVE  Table!Next \/ UNCHANGED Table!vars
<1>1. UNCHANGED <<heap, rule, rx, own, sis>> /\ pc[p] = "flush"
  BY DEF FlushReadCallback, tables, counts, timer
<1>2. CASE sync_rule_callback
  <2>1. pc' = [pc EXCEPT ![p] = "sync"]
    BY <1>2 DEF FlushReadCallback
  <2>2. \A q \in Cpus : pc[q] \in {"flush", "sync"} <=> pc'[q] \in {"flush", "sync"}
    BY <1>1, <2>1 DEF IInv, TypeOK
  <2> QED
    BY <1>1, <2>2, QuietRefines
<1>3. CASE ~sync_rule_callback
  <2>1. pc' = [pc EXCEPT ![p] = "discard"]
    BY <1>3 DEF FlushReadCallback
  <2> QED
    BY <1>1, <2>1, HandOverRefines
<1> QED
  BY <1>2, <1>3

\* The last sync of a flushed connection delivers its message.
LEMMA FlushSyncRefines ==
  ASSUME IInv, NEW p \in Cpus, FlushSync(p)
  PROVE  Table!Next
<1>1. /\ pc[p] = "sync" /\ pc' = [pc EXCEPT ![p] = "free"]
      /\ UNCHANGED <<heap, rule, own, sis>>
      /\ rx' = [rx EXCEPT ![own[p]] = Zero]
  BY DEF FlushSync, ResetCounts, tables, timer
<1>2. \A c \in Conns : c # own[p] => rx'[c] = rx[c]
  BY <1>1 DEF IInv, TypeOK
<1> QED
  BY <1>1, <1>2, HandOverRefines

\* Freeing the object of a connection is not seen from outside.
LEMMA FlushFreeRefines ==
  ASSUME IInv, NEW p \in Cpus, FlushFree(p)
  PROVE  UNCHANGED Table!vars
<1>1. PICK c \in Conns : c = own[p] /\ heap[c] = "unlinked"
  BY NoneAssumption DEF FlushFree, IInv, TypeOK, SingleOwner, Flushing
<1>2. /\ heap' = [heap EXCEPT ![c] = "free"] /\ rule' = [rule EXCEPT ![c] = None]
      /\ rx' = [rx EXCEPT ![c] = Zero] /\ sis' = sis
      /\ own' = [own EXCEPT ![p] = None]
      /\ pc[p] \in {"free", "discard"}
      /\ \A q \in Cpus : q # p => pc'[q] = pc[q]
      /\ pc'[p] \in {"idle", "sweep"}
  BY <1>1 DEF FlushFree, timer, IInv, TypeOK
<1>3. \A e \in Conns : e # c => rule'[e] = rule[e] /\ rx'[e] = rx[e]
  BY <1>2 DEF IInv, TypeOK
<1>4. Rules' = Rules /\ Counts' = Counts
  <2>1. Linked' = Linked /\ c \notin Linked /\ Linked \subseteq Conns
    BY <1>1, <1>2 DEF Linked, IInv, TypeOK
  <2> QED
    BY <1>3, <2>1, SameShown
<1>5. Carried' = Carried
  <2>1. ASSUME NEW q \in Cpus
        PROVE  /\ pc[q] \in {"flush", "sync"} <=> pc'[q] \in {"flush", "sync"}
               /\ pc[q] \in {"flush", "sync"} =>
                    /\ own'[q] = own[q]
                    /\ rule'[own[q]] = rule[own[q]] /\ rx'[own[q]] = rx[own[q]]
    <3>1. CASE q = p
      BY <1>2, <3>1
    <3>2. CASE q # p
      <4>1. own'[q] = own[q] /\ pc'[q] = pc[q]
        BY <1>2, <3>2 DEF IInv, TypeOK
      <4>2. pc[q] \in {"flush", "sync"} => own[q] \in Conns /\ own[q] # c
        BY <1>1, <3>2, OwnersDiffer
      <4> QED
        BY <1>3, <4>1, <4>2
    <3> QED
      BY <3>1, <3>2
  <2> QED
    BY <1>2, <2>1, SameCarried
<1> QED
  BY <1>4, <1>5, TableStutter

\* A forwarded packet is counted at the rule of the tuple of its connection.
LEMMA ForwardRefines ==
  ASSUME IInv, NEW m \in Matches, m[1] \in Linked, Forward(m)
  PROVE  Table!Next
<1>0. PICK c \in Linked, d \in Dirs : m = <<c, d>>
  BY DEF Matches
<1>1. PICK t \in Tuples : t = rule[c].tuple
  BY ShownByTuple
<1>2. /\ c \in Conns /\ rule[c] # None /\ FindConnection(t) = {c}
      /\ RuleOf(t) = rule[c] /\ CountOf(t) = rx[c]
  BY <1>1, ShownByTuple
<1>3. /\ rx' = [rx EXCEPT ![c][d] = @ + 1]
      /\ UNCHANGED <<heap, rule, pc, own, sis>>
  BY <1>0 DEF Forward, tables, callers, timer
<1>4. \A e \in Conns : e # c => rx'[e] = rx[e]
  BY <1>3 DEF IInv, TypeOK
<1>5. rx'[c] = [rx[c] EXCEPT ![d] = @ + 1]
  BY <1>2, <1>3 DEF IInv, TypeOK
<1>6. \A u : FindConnection(u)' = FindConnection(u)
  BY <1>3 DEF FindConnection, Linked
<1>7. Rules' = Rules
  <2>1. ASSUME NEW u \in Tuples PROVE RuleOf(u)' = RuleOf(u)
    <3>1. FindConnection(u)' = FindConnection(u)
      BY <1>6
    <3> QED
      BY <1>3, <3>1 DEF RuleOf
  <2> QED
    BY <2>1 DEF Rules
<1>8. Counts' = [Counts EXCEPT ![t][d] = @ + 1]
  <2>1. CountOf(t)' = [CountOf(t) EXCEPT ![d] = @ + 1]
    <3>1. (CHOOSE e \in {c} : TRUE) = c
      OBVIOUS
    <3> QED
      BY <1>2, <1>5, <1>6, <3>1 DEF CountOf
  <2>2. ASSUME NEW u \in Tuples, u # t PROVE CountOf(u)' = CountOf(u)
    <3>1. FindConnection(u)' = FindConnection(u)
      BY <1>6
    <3>2. CASE FindConnection(u) = {}
      BY <3>1, <3>2 DEF CountOf
    <3>3. CASE FindConnection(u) # {}
      <4>1. PICK e \in Linked : e = (CHOOSE f \in FindConnection(u) : TRUE) /\ rule[e].tuple = u
        BY <3>3 DEF FindConnection
      <4>2. e \in Conns /\ e # c
        BY <1>1, <2>2, <4>1 DEF Linked
      <4> QED
        BY <1>4, <3>1, <3>3, <4>1, <4>2 DEF CountOf
    <3> QED
      BY <3>2, <3>3
  <2> QED
    BY <2>1, <2>2 DEF Counts
<1>9. Carried' = Carried
  <2>1. \A q \in Cpus : pc[q] \in {"flush", "sync"} => own[q] \in Conns /\ own[q] # c
    BY NoneAssumption DEF IInv, TypeOK, SingleOwner, Flushing, Linked
  <2> QED
    BY <1>3, <1>4, <2>1, SameCarried
<1>10. Rules[t] # None
  BY <1>2 DEF Rules
<1> QED
  BY <1>7, <1>8, <1>9, <1>10, TableForward

\* A round of a sweep removes one rule, or ends the sweep.
LEMMA SweepRoundRefines ==
  ASSUME IInv, NEW p \in Cpus, pc[p] \in {"idle", "sweep"}, NEW devs \in SUBSET Devs,
         SweepRound(p, devs), UNCHANGED sis
  PROVE  Table!Next \/ UNCHANGED Table!vars
<1>1. CASE /\ pc' = [pc EXCEPT ![p] = "idle"]
           /\ UNCHANGED <<tables, counts, own>>
  <2>1. UNCHANGED <<heap, rule, rx, own>>
    BY <1>1 DEF tables, counts
  <2>2. \A q \in Cpus : pc[q] \in {"flush", "sync"} <=> pc'[q] \in {"flush", "sync"}
    BY <1>1 DEF IInv, TypeOK
  <2> QED
    BY <2>1, <2>2, QuietRefines
<1>2. CASE \E c \in Linked : StartFlush(p, c)
  BY <1>2, RemoveRefines
<1> QED
  BY <1>1, <1>2, SweepRoundCases

\* The head of the active list leaves with the counts of its connection.
LEMMA SyncHeadRefines ==
  ASSUME IInv, SisExact, timer_pc # "call", active_list # <<>>, NEW q, SyncHead(q),
         UNCHANGED <<heap, rule, pc, own>>
  PROVE  Table!Next
<1>3. PICK c \in Linked : c = Head(active_list)[1]
  BY HeadIsLinked
<1>4. PICK t \in Tuples : t = rule[c].tuple
  BY ShownByTuple
<1>5. /\ c \in Conns /\ rule[c] # None /\ FindConnection(t) = {c}
      /\ RuleOf(t) = rule[c] /\ CountOf(t) = rx[c]
  BY <1>4, ShownByTuple
<1>6. /\ rx' = [rx EXCEPT ![c] = Zero]
      /\ sis' = [tuple |-> t, count |-> rx[c]]
  BY <1>3, <1>4 DEF SyncHead, ResetCounts, SyncMessage
<1>7. \A e \in Conns : e # c => rx'[e] = rx[e]
  BY <1>6 DEF IInv, TypeOK
<1>8. rx'[c] = Zero
  BY <1>5, <1>6 DEF IInv, TypeOK
<1>9. \A u : FindConnection(u)' = FindConnection(u)
  BY DEF FindConnection, Linked
<1>10. Rules' = Rules
  <2>1. ASSUME NEW u \in Tuples PROVE RuleOf(u)' = RuleOf(u)
    <3>1. FindConnection(u)' = FindConnection(u)
      BY <1>9
    <3> QED
      BY <3>1 DEF RuleOf
  <2> QED
    BY <2>1 DEF Rules
<1>11. Counts' = [Counts EXCEPT ![t] = Zero]
  <2>1. CountOf(t)' = Zero
    <3>1. (CHOOSE e \in {c} : TRUE) = c
      OBVIOUS
    <3> QED
      BY <1>5, <1>8, <1>9, <3>1 DEF CountOf
  <2>2. ASSUME NEW u \in Tuples, u # t PROVE CountOf(u)' = CountOf(u)
    <3>1. FindConnection(u)' = FindConnection(u)
      BY <1>9
    <3>2. CASE FindConnection(u) = {}
      BY <3>1, <3>2 DEF CountOf
    <3>3. CASE FindConnection(u) # {}
      <4>1. PICK e \in Linked : e = (CHOOSE f \in FindConnection(u) : TRUE) /\ rule[e].tuple = u
        BY <3>3 DEF FindConnection
      <4>2. e \in Conns /\ e # c
        BY <1>4, <2>2, <4>1 DEF Linked
      <4> QED
        BY <1>7, <3>1, <3>3, <4>1, <4>2 DEF CountOf
    <3> QED
      BY <3>2, <3>3
  <2> QED
    BY <2>1, <2>2 DEF Counts
<1>12. \A p \in Cpus : CarriedBy(p)' = CarriedBy(p)
  <2>1. \A p \in Cpus : pc[p] \in {"flush", "sync"} => own[p] \in Conns /\ own[p] # c
    BY NoneAssumption DEF IInv, TypeOK, SingleOwner, Flushing, Linked
  <2> QED
    BY <1>7, <2>1 DEF CarriedBy, SyncMessage
<1>13. Carried["timer"] = None /\ Counts[t] = rx[c] /\ Rules[t] # None
  BY <1>5 DEF Carried, SisExact, Counts, Rules
<1>14. Carried' = [Carried EXCEPT !["timer"] = [tuple |-> t, count |-> Counts[t]]]
  BY <1>6, <1>12, <1>13, TimerAssumption DEF Carried
<1> QED
  BY <1>10, <1>11, <1>13, <1>14, TableCollect

-----------------------------------------------------------------------------
(* Every step of the engine is a step of the table or none.                *)

\* Every packet handler: a packet is counted, or takes its rule away.
LEMMA PacketRefines ==
  ASSUME IInv, NEW p \in Cpus, Packet(p)
  PROVE  Table!Next
<1>1. PICK dev \in Devs, t \in Tuples :
          RecvUdp(p, dev, t) \/ RecvTcp(p, dev, t) \/ RecvIcmp(p, dev, t)
  BY DEF Packet
<1>2. PICK m \in FindMatch(dev, t) : pc[p] = "idle" /\ (Forward(m) \/ FlushOnPacket(p, m))
  BY <1>1 DEF RecvUdp, RecvTcp, RecvIcmp
<1>3. m \in Matches /\ m[1] \in Linked
  BY FoundMatchIsLinked
<1>4. CASE Forward(m)
  BY <1>3, <1>4, ForwardRefines
<1>5. CASE FlushOnPacket(p, m)
  BY <1>2, <1>3, <1>5, RemoveRefines DEF FlushOnPacket, timer
<1> QED
  BY <1>2, <1>4, <1>5

\* Every request of a connection manager.
LEMMA RequestRefines ==
  ASSUME IInv, NEW p \in Cpus, Request(p)
  PROVE  Table!Next \/ UNCHANGED Table!vars
<1>1. CASE \E s \in Sics : CreateRuleCheck(p, s)
  <2>1. /\ UNCHANGED <<heap, rule, rx, own, sis>>
        /\ pc[p] = "idle" /\ pc' = [pc EXCEPT ![p] = "create"]
    BY <1>1 DEF CreateRuleCheck, tables, counts, timer
  <2>2. \A q \in Cpus : pc[q] \in {"flush", "sync"} <=> pc'[q] \in {"flush", "sync"}
    BY <2>1 DEF IInv, TypeOK
  <2> QED
    BY <2>1, <2>2, QuietRefines
<1>2. CASE \E t \in Tuples : DestroyRule(p, t)
  <2>1. PICK c \in Linked : pc[p] = "idle" /\ StartFlush(p, c) /\ UNCHANGED sis
    BY <1>2 DEF DestroyRule, FindConnection, timer
  <2> QED
    BY <2>1, RemoveRefines
<1>3. CASE \E devs \in SweepArgs : DestroyAllRulesForDev(p, devs)
  <2>1. PICK devs \in SUBSET Devs : DestroyAllRulesForDev(p, devs)
    BY <1>3, HotplugAssumption DEF SweepArgs
  <2> QED
    BY <2>1, SweepRoundRefines DEF DestroyAllRulesForDev, timer
<1> QED
  BY <1>1, <1>2, <1>3 DEF Request

\* Whatever a context inside the engine does next.
LEMMA ContinueRefines ==
  ASSUME IInv, NEW p \in Cpus, Continue(p)
  PROVE  Table!Next \/ UNCHANGED Table!vars
<1>1. CASE CreateRuleFail(p)
  <2>1. /\ UNCHANGED <<heap, rule, rx, own, sis>>
        /\ pc[p] = "create" /\ pc' = [pc EXCEPT ![p] = "idle"]
    BY <1>1 DEF CreateRuleFail, tables, counts, timer
  <2>2. \A q \in Cpus : pc[q] \in {"flush", "sync"} <=> pc'[q] \in {"flush", "sync"}
    BY <2>1 DEF IInv, TypeOK
  <2> QED
    BY <2>1, <2>2, QuietRefines
<1>2. CASE AnotherRound(p)
  <2>1. sweep[p] \in SUBSET Devs
    BY DEF IInv, TypeOK
  <2> QED
    BY <1>2, <2>1, SweepRoundRefines DEF AnotherRound, timer
<1> QED
  BY <1>1, <1>2, InsertRefines, FlushReadCallbackRefines, FlushSyncRefines, FlushFreeRefines
     DEF Continue

\* One turn of the loop of the periodic sync.
LEMMA SyncWalkRefines ==
  ASSUME IInv, SisExact, timer_pc # "call", NEW q, SyncWalk(q), UNCHANGED <<tables, callers>>
  PROVE  Table!Next \/ UNCHANGED Table!vars
<1>1. UNCHANGED <<heap, rule, pc, own>>
  BY DEF tables, callers
<1>2. CASE q = 0 \/ active_list = <<>>
  BY <1>1, <1>2, QuietRefines DEF SyncWalk, SyncDone, counts
<1>3. CASE ~(q = 0 \/ active_list = <<>>)
  BY <1>1, <1>3, SyncHeadRefines DEF SyncWalk
<1> QED
  BY <1>2, <1>3

\* The periodic sync.
LEMMA TimerRefines ==
  ASSUME IInv, SisExact, Timer
  PROVE  Table!Next \/ UNCHANGED Table!vars
<1>1. CASE SyncStart
  BY <1>1, QuietRefines DEF SyncStart, tables, counts, callers
<1>2. CASE SyncEnter
  BY <1>2, SyncWalkRefines DEF SyncEnter
<1>3. CASE SyncRelock
  BY <1>3, SyncWalkRefines DEF SyncRelock
<1>4. CASE SyncCall
  <2>1. /\ UNCHANGED <<heap, rule, rx, pc, own>> /\ sis' = None /\ timer_pc = "call"
    BY <1>4 DEF SyncCall, tables, counts, callers
  <2>2. Rules' = Rules /\ Counts' = Counts
    BY <2>1, SameShown DEF Linked
  <2>3. \A p \in Cpus : CarriedBy(p)' = CarriedBy(p)
    BY <2>1 DEF CarriedBy, SyncMessage
  <2>4. Carried["timer"] # None /\ Carried' = [Carried EXCEPT !["timer"] = None]
    BY <2>1, <2>3, TimerAssumption DEF Carried, IInv, TypeOK
  <2> QED
    BY <2>2, <2>4, TableDeliver
<1> QED
  BY <1>1, <1>2, <1>3, <1>4 DEF Timer

\* The kernel and the managers around the engine change nothing of the table.
LEMMA EnvironmentRefines ==
  ASSUME IInv,
         \/ \E b \in BOOLEAN : RegisterSyncRuleCallback(b)
         \/ \E d \in Hotplug : UnregisterDevice(d)
  PROVE  UNCHANGED Table!vars
<1>1. UNCHANGED <<heap, rule, rx, pc, own, sis>>
  BY DEF RegisterSyncRuleCallback, UnregisterDevice, tables, counts, callers, timer
<1> QED
  BY <1>1, QuietRefines

\* Every step of the engine is a step of the table or leaves the table alone.
LEMMA NextRefines ==
  ASSUME IInv, SisExact, [Next]_vars
  PROVE  [Table!Next]_(Table!vars)
<1>1. CASE UNCHANGED vars
  <2>1. UNCHANGED <<heap, rule, rx, pc, own, sis>>
    BY <1>1 DEF vars, tables, counts, callers, timer
  <2> QED
    BY <2>1, QuietRefines
<1>2. CASE Next
  BY <1>2, PacketRefines, RequestRefines, ContinueRefines, TimerRefines, EnvironmentRefines
     DEF Next
<1> QED
  BY <1>1, <1>2

\* The empty engine is the empty table.
LEMMA InitRefines == Init => Table!Init
<1> SUFFICES ASSUME Init PROVE Table!Init
  OBVIOUS
<1>1. \A t \in Tuples : FindConnection(t) = {}
  BY DEF Init, FindConnection, Linked
<1>2. \A t \in Tuples : RuleOf(t) = None /\ CountOf(t) = Zero
  BY <1>1, ShownEmpty
<1>3. \A p \in Cpus : CarriedBy(p) = None
  BY DEF Init, CarriedBy
<1>4. sis = None
  BY DEF Init
<1> QED
  BY <1>2, <1>3, <1>4
     DEF Table!Init, Table!Carrier, Table!Timer, Table!Zero, Zero, Table!Dirs, Dirs

\* The forwarding engine implements the rule table: in every interleaving of
\* requests, packets, flushes and the periodic sync, callers see at most one rule
\* for a tuple, and the counts of a rule leave it in exactly one message.
THEOREM Refinement == Spec => ImplementsRuleTable
<1>1. Init => SisExact
  BY DEF Init, SisExact
<1> QED
  BY <1>1, Invariance, InitRefines, SisStep, NextRefines, PTL
     DEF Spec, ImplementsRuleTable, Table!Spec

=============================================================================
