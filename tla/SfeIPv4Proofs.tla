--------------------------- MODULE SfeIPv4Proofs ---------------------------
(***************************************************************************)
(* The safety of the forwarding engine for any number of connections,      *)
(* contexts, devices, tuples and requests.  IInv is inductive: there is    *)
(* one lemma per action, and what removal does to the two lists, which     *)
(* three kinds of action share, is a lemma of its own.                     *)
(***************************************************************************)
EXTENDS SfeIPv4, DataLemmas

\* The empty tables sfe_ipv4_init leaves satisfy the inductive invariant.
LEMMA InitIInv == Init => IInv
<1> SUFFICES ASSUME Init PROVE IInv
  OBVIOUS
<1> USE DEF Init
<1>1. TypeOK
  <2>1. /\ all_connections \in Seq(Conns) /\ active_list \in Seq(Matches)
        /\ active \in [Matches -> BOOLEAN]
    BY EmptySeq
  <2>2. /\ rx \in [Conns -> [Dirs -> Nat]]
        /\ unreported \in [Tuples -> [Dirs -> Int]]
    BY DEF Zero
  <2>3. /\ heap \in [Conns -> {"free", "linked", "unlinked"}]
        /\ rule \in [Conns -> Sics \cup {None}]
        /\ \A c \in Conns : rule[c] = None <=> heap[c] = "free"
    OBVIOUS
  <2>4. /\ pc \in [Cpus -> PcValues]
        /\ own \in [Cpus -> Conns \cup {None}]
        /\ request \in [Cpus -> Sics \cup {None}]
        /\ sweep \in [Cpus -> SUBSET Devs]
        /\ \A p \in Cpus : pc[p] = "create" => request[p] # None
    BY DEF PcValues
  <2>5. num_connections \in Nat /\ dev_refs \in [Devs -> Int] /\ quota \in Nat
    OBVIOUS
  <2>6. /\ sync_rule_callback \in BOOLEAN
        /\ registered \subseteq Devs
        /\ timer_pc \in {"armed", "enter", "call", "relock"}
        /\ sis \in Messages \cup {None}
        /\ timer_pc = "call" => sis # None
    OBVIOUS
  <2> QED
    BY <2>1, <2>2, <2>3, <2>4, <2>5, <2>6 DEF TypeOK
<1>2. TablesAgree
  BY EmptySeq DEF TablesAgree, Linked, IsInjective, ToSet
<1>3. UniqueTuples /\ UnsyncedIsActive
  BY DEF UniqueTuples, UnsyncedIsActive, Linked
<1>4. ActiveListExact
  BY EmptySeq DEF ActiveListExact, Linked, IsInjective, ToSet
<1>5. SingleOwner
  BY DEF SingleOwner, Flushing
<1> QED
  BY <1>1, <1>2, <1>3, <1>4, <1>5 DEF IInv

\* Removing a linked connection keeps both lists exact.
LEMMA RemoveLists ==
    ASSUME IInv, NEW c \in Linked, RemoveConnection(c)
    PROVE  /\ Linked' = Linked \ {c}
           /\ all_connections' \in Seq(Conns)
           /\ num_connections' \in Nat
           /\ TablesAgree'
           /\ active_list' \in Seq(Matches)
           /\ ActiveListExact'
<1> USE DEF IInv
<1>1. Linked' = Linked \ {c} /\ c \in Conns
  BY DEF RemoveConnection, Linked, TypeOK
<1>2. /\ all_connections' \in Seq(Conns)
      /\ num_connections' \in Nat
      /\ TablesAgree'
  <2>1. /\ all_connections' \in Seq(Conns)
        /\ IsInjective(all_connections')
        /\ ToSet(all_connections') = Linked \ {c}
        /\ Len(all_connections') = Len(all_connections) - 1
    BY RemoveFirstProperties DEF RemoveConnection, TypeOK, TablesAgree
  <2> QED
    BY <1>1, <2>1, LenProperties DEF RemoveConnection, TablesAgree
<1>3. active_list' \in Seq(Matches) /\ ActiveListExact'
  <2> DEFINE ro == <<c, "original">>
             rr == <<c, "reply">>
             l1 == Deactivate(active_list, rr)
  <2>1. /\ active_list \in Seq(Matches)
        /\ IsInjective(active_list)
        /\ ToSet(active_list) = {m \in Matches : m[1] \in Linked /\ active[m]}
    BY DEF TypeOK, ActiveListExact
  <2>2. ro \in Matches /\ rr \in Matches
    BY <1>1 DEF Matches, Dirs
  <2>3. /\ l1 \in Seq(Matches)
        /\ IsInjective(l1)
        /\ ToSet(l1) = ToSet(active_list) \ {rr}
    <3>1. CASE active[rr]
      BY <2>1, <3>1, RemoveFirstProperties DEF Deactivate
    <3>2. CASE ~active[rr]
      BY <2>1, <3>2 DEF Deactivate
    <3> QED
      BY <3>1, <3>2
  <2>4. active_list' = Deactivate(l1, ro)
    BY DEF RemoveConnection
  <2> HIDE DEF l1
  <2>5. /\ active_list' \in Seq(Matches)
        /\ IsInjective(active_list')
        /\ ToSet(active_list') = ToSet(l1) \ {ro}
    <3>1. CASE active[ro]
      BY <2>3, <2>4, <3>1, RemoveFirstProperties DEF Deactivate
    <3>2. CASE ~active[ro]
      <4>1. ro \notin ToSet(l1)
        BY <2>1, <2>3, <3>2
      <4> QED
        BY <2>3, <2>4, <3>2, <4>1 DEF Deactivate
    <3> QED
      BY <3>1, <3>2
  <2>6. \A m \in Matches : m[1] = c <=> m = ro \/ m = rr
    BY DEF Matches, Dirs
  <2>7. active' = active
    BY DEF RemoveConnection
  <2>8. ToSet(active_list') = {m \in Matches : m[1] \in Linked' /\ active'[m]}
    BY <1>1, <2>1, <2>3, <2>5, <2>6, <2>7
  <2> QED
    BY <2>5, <2>8 DEF ActiveListExact
<1> QED
  BY <1>1, <1>2, <1>3

\* Removing a connection and becoming the context that flushes it keeps the
\* invariant: no other context had it, because it was still linked.
LEMMA StartFlushStep ==
    ASSUME IInv, NEW p \in Cpus, NEW c \in Linked,
           pc[p] \in {"idle", "sweep"}, StartFlush(p, c),
           sweep' \in [Cpus -> SUBSET Devs],
           UNCHANGED <<request, timer, env, unreported>>
    PROVE  IInv'
<1> USE DEF IInv, StartFlush
<1>1. /\ Linked' = Linked \ {c}
      /\ all_connections' \in Seq(Conns) /\ num_connections' \in Nat /\ TablesAgree'
      /\ active_list' \in Seq(Matches) /\ ActiveListExact'
  BY RemoveLists
<1>2. c \in Conns /\ heap[c] = "linked" /\ own[p] = None /\ c # None
  BY NoneAssumption DEF Linked, SingleOwner, Flushing
<1>3. UNCHANGED <<rule, dev_refs, rx, active>>
  BY DEF RemoveConnection
<1>4. heap' = [heap EXCEPT ![c] = "unlinked"]
  BY DEF RemoveConnection
<1>5. TypeOK'
  <2>1. /\ heap' \in [Conns -> {"free", "linked", "unlinked"}]
        /\ pc' \in [Cpus -> PcValues]
        /\ own' \in [Cpus -> Conns \cup {None}]
    BY <1>2, <1>4 DEF TypeOK, PcValues, Flushing
  <2>2. \A e \in Conns : rule'[e] = None <=> heap'[e] = "free"
    BY <1>2, <1>3, <1>4 DEF TypeOK
  <2>3. \A q \in Cpus : pc'[q] = "create" => request'[q] # None
    BY DEF TypeOK
  <2> QED
    BY <1>1, <1>3, <2>1, <2>2, <2>3 DEF TypeOK, timer, env
<1>6. UniqueTuples' /\ UnsyncedIsActive'
  BY <1>1, <1>3 DEF UniqueTuples, UnsyncedIsActive
<1>7. SingleOwner'
  <2>1. \A q \in Cpus : own'[q] = IF q = p THEN c ELSE own[q]
    BY DEF TypeOK
  <2>2. \A e \in Conns : heap'[e] = IF e = c THEN "unlinked" ELSE heap[e]
    BY <1>4 DEF TypeOK
  <2>3. \A q \in Cpus : own[q] # c
    BY <1>2 DEF SingleOwner
  <2>4. \A q \in Cpus : pc'[q] = IF q = p THEN "flush" ELSE pc[q]
    BY DEF TypeOK
  <2>5. \A e \in Conns : heap'[e] = "unlinked" => \E q \in Cpus : own'[q] = e
    <3>1. ASSUME NEW e \in Conns, heap'[e] = "unlinked", e # c
          PROVE  \E q \in Cpus : own'[q] = e
      <4>1. PICK q \in Cpus : own[q] = e
        BY <2>2, <3>1 DEF SingleOwner
      <4>2. q # p
        BY <1>2, <3>1, <4>1, NoneAssumption
      <4> QED
        BY <2>1, <4>1, <4>2
    <3> QED
      BY <2>1, <3>1
  <2>6. \A q \in Cpus : own'[q] # None => heap'[own'[q]] = "unlinked"
    BY <1>2, <2>1, <2>2, <2>3 DEF SingleOwner, TypeOK
  <2>7. \A q, r \in Cpus : own'[q] = own'[r] /\ own'[q] # None => q = r
    BY <2>1, <2>3 DEF SingleOwner
  <2>8. \A q \in Cpus : own'[q] # None <=> pc'[q] \in Flushing
    BY <1>2, <2>1, <2>4 DEF SingleOwner, Flushing
  <2> QED
    BY <2>5, <2>6, <2>7, <2>8 DEF SingleOwner
<1> QED
  BY <1>1, <1>5, <1>6, <1>7

\* Testing the devices of a request before the lock is taken changes no table.
LEMMA CreateRuleCheckStep ==
    ASSUME IInv, NEW p \in Cpus, NEW s \in Sics, CreateRuleCheck(p, s)
    PROVE  IInv'
<1> USE DEF IInv
<1>0. /\ pc[p] = "idle"
      /\ pc' = [pc EXCEPT ![p] = "create"]
      /\ request' = [request EXCEPT ![p] = s]
      /\ UNCHANGED <<heap, rule, all_connections, num_connections, dev_refs, rx, active,
                     active_list, own, sweep, timer_pc, quota, sis, sync_rule_callback,
                     registered, unreported>>
  BY DEF CreateRuleCheck, tables, counts, timer, env
<1>1. TypeOK'
  <2>1. pc' \in [Cpus -> PcValues] /\ request' \in [Cpus -> Sics \cup {None}]
    BY <1>0 DEF TypeOK, PcValues
  <2>2. \A q \in Cpus : pc'[q] = "create" => request'[q] # None
    BY <1>0, NoneAssumption DEF TypeOK
  <2> QED
    BY <1>0, <2>1, <2>2 DEF TypeOK
<1>2. TablesAgree' /\ UniqueTuples' /\ UnsyncedIsActive' /\ ActiveListExact'
  BY <1>0 DEF TablesAgree, UniqueTuples, UnsyncedIsActive, ActiveListExact, Linked
<1>3. SingleOwner'
  BY <1>0 DEF SingleOwner, Flushing, TypeOK
<1> QED
  BY <1>1, <1>2, <1>3

\* A create_rule that returns -EADDRINUSE or -ENOMEM changes no table.
LEMMA CreateRuleFailStep ==
    ASSUME IInv, NEW p \in Cpus, CreateRuleFail(p)
    PROVE  IInv'
<1> USE DEF IInv, CreateRuleFail, tables, counts, timer, env
<1>1. TypeOK'
  <2>1. pc' \in [Cpus -> PcValues] /\ request' \in [Cpus -> Sics \cup {None}]
    BY DEF TypeOK, PcValues
  <2>2. \A q \in Cpus : pc'[q] = "create" => request'[q] # None
    BY DEF TypeOK
  <2> QED
    BY <2>1, <2>2 DEF TypeOK
<1>2. TablesAgree' /\ UniqueTuples' /\ UnsyncedIsActive' /\ ActiveListExact'
  BY DEF TablesAgree, UniqueTuples, UnsyncedIsActive, ActiveListExact, Linked
<1>3. SingleOwner'
  BY DEF SingleOwner, Flushing, TypeOK
<1> QED
  BY <1>1, <1>2, <1>3

\* Linking a new connection keeps the invariant: its tuple was looked up under
\* the same lock, and its matches start idle with counters at zero.
LEMMA CreateRuleInsertStep ==
    ASSUME IInv, NEW p \in Cpus, NEW c \in Conns, CreateRuleInsert(p, c)
    PROVE  IInv'
<1> DEFINE s == request[p]
<1> USE DEF IInv
<1>1. /\ pc[p] = "create" /\ s \in Sics /\ heap[c] = "free"
      /\ FindConnection(s.tuple) = {}
  BY DEF CreateRuleInsert, FillIn, TypeOK
<1>2. /\ heap' = [heap EXCEPT ![c] = "linked"]
      /\ rule' = [rule EXCEPT ![c] = s]
      /\ all_connections' = Append(all_connections, c)
      /\ num_connections' = num_connections + 1
      /\ dev_refs' = [d \in Devs |-> dev_refs[d] + Uses(s, d)]
      /\ rx' = [rx EXCEPT ![c] = Zero]
      /\ active' = [m \in Matches |-> m[1] # c /\ active[m]]
      /\ pc' = [pc EXCEPT ![p] = "idle"]
      /\ request' = [request EXCEPT ![p] = None]
      /\ UNCHANGED <<active_list, own, sweep, timer_pc, quota, sis, sync_rule_callback,
                     registered, unreported>>
  BY DEF CreateRuleInsert, FillIn, InsertConnection, HoldDevs, timer, env
<1> HIDE DEF s
<1>3. Linked' = Linked \cup {c} /\ c \notin Linked
  BY <1>1, <1>2 DEF Linked, TypeOK
<1>4. /\ all_connections' \in Seq(Conns)
      /\ num_connections' \in Nat
      /\ TablesAgree'
  <2>1. /\ all_connections' \in Seq(Conns)
        /\ IsInjective(all_connections')
        /\ ToSet(all_connections') = Linked'
        /\ Len(all_connections') = Len(all_connections) + 1
    BY <1>2, <1>3, AppendElement DEF TypeOK, TablesAgree
  <2> QED
    BY <1>2, <2>1 DEF TypeOK, TablesAgree
<1>5. \A m \in Matches : active'[m] <=> m[1] # c /\ active[m]
  BY <1>2
<1>6. TypeOK'
  <2>1. /\ heap' \in [Conns -> {"free", "linked", "unlinked"}]
        /\ rule' \in [Conns -> Sics \cup {None}]
        /\ \A e \in Conns : rule'[e] = None <=> heap'[e] = "free"
    BY <1>1, <1>2, NoneAssumption DEF TypeOK
  <2>2. rx' \in [Conns -> [Dirs -> Nat]]
    BY <1>2 DEF TypeOK, Zero
  <2>3. active' \in [Matches -> BOOLEAN]
    BY <1>2
  <2>4. dev_refs' \in [Devs -> Int]
    BY <1>2 DEF TypeOK, Uses
  <2>5. /\ pc' \in [Cpus -> PcValues] /\ request' \in [Cpus -> Sics \cup {None}]
        /\ \A q \in Cpus : pc'[q] = "create" => request'[q] # None
    BY <1>2 DEF TypeOK, PcValues
  <2> QED
    BY <1>2, <1>4, <2>1, <2>2, <2>3, <2>4, <2>5 DEF TypeOK
<1>7. UniqueTuples'
  <2>1. \A e \in Linked : rule[e].tuple # s.tuple
    BY <1>1 DEF FindConnection
  <2>2. /\ rule'[c] = s
        /\ \A e \in Linked : rule'[e] = rule[e]
    BY <1>2, <1>3 DEF TypeOK, Linked
  <2> QED
    BY <1>3, <2>1, <2>2 DEF UniqueTuples
<1>8. UnsyncedIsActive'
  <2>1. \A e \in Linked : rx'[e] = rx[e]
    BY <1>2, <1>3 DEF TypeOK, Linked
  <2>2. \A d \in Dirs : rx'[c][d] = 0
    BY <1>2 DEF TypeOK, Zero
  <2>3. \A e \in Linked, d \in Dirs : <<e, d>> \in Matches /\ <<e, d>>[1] = e
    BY DEF Linked, Matches
  <2> QED
    BY <1>3, <1>5, <2>1, <2>2, <2>3 DEF UnsyncedIsActive
<1>9. ActiveListExact'
  <2>1. {m \in Matches : m[1] \in Linked' /\ active'[m]}
          = {m \in Matches : m[1] \in Linked /\ active[m]}
    BY <1>3, <1>5
  <2> QED
    BY <1>2, <2>1 DEF ActiveListExact
<1>10. SingleOwner'
  BY <1>1, <1>2 DEF SingleOwner, Flushing, TypeOK
<1> QED
  BY <1>4, <1>6, <1>7, <1>8, <1>9, <1>10

\* Reading the callback pointer in a flush changes no table.
LEMMA FlushReadCallbackStep ==
    ASSUME IInv, NEW p \in Cpus, FlushReadCallback(p)
    PROVE  IInv'
<1> USE DEF IInv
<1>1. /\ pc[p] = "flush"
      /\ pc' = [pc EXCEPT ![p] = IF sync_rule_callback THEN "sync" ELSE "discard"]
      /\ UNCHANGED <<heap, rule, all_connections, num_connections, dev_refs, rx, active,
                     active_list, own, request, sweep, timer_pc, quota, sis,
                     sync_rule_callback, registered, unreported>>
  BY DEF FlushReadCallback, tables, counts, timer, env
<1>2. \/ pc' = [pc EXCEPT ![p] = "sync"]
      \/ pc' = [pc EXCEPT ![p] = "discard"]
  BY <1>1
<1>3. TypeOK'
  <2>1. pc' \in [Cpus -> PcValues]
    BY <1>2 DEF TypeOK, PcValues, Flushing
  <2>2. \A q \in Cpus : pc'[q] = "create" => request'[q] # None
    BY <1>1, <1>2 DEF TypeOK
  <2> QED
    BY <1>1, <2>1, <2>2 DEF TypeOK
<1>4. TablesAgree' /\ UniqueTuples' /\ UnsyncedIsActive' /\ ActiveListExact'
  BY <1>1 DEF TablesAgree, UniqueTuples, UnsyncedIsActive, ActiveListExact, Linked
<1>5. SingleOwner'
  BY <1>1, <1>2 DEF SingleOwner, Flushing, TypeOK
<1> QED
  BY <1>3, <1>4, <1>5

\* Taking the counts of a message off the unreported packets keeps their type.
LEMMA ReportType ==
    ASSUME TypeOK, NEW count \in [Dirs -> Nat], NEW t
    PROVE  Report(count, t) \in [Tuples -> [Dirs -> Int]]
<1>1. CASE t \in Tuples
  <2>1. unreported[t] \in [Dirs -> Int]
    BY <1>1 DEF TypeOK
  <2>2. [d \in Dirs |-> unreported[t][d] - count[d]] \in [Dirs -> Int]
    BY <2>1
  <2> QED
    BY <2>2 DEF Report, TypeOK
<1>2. CASE t \notin Tuples
  BY <1>2 DEF Report, TypeOK
<1> QED
  BY <1>1, <1>2

\* The last message of a connection restarts only counters of an unlinked one.
LEMMA FlushSyncStep ==
    ASSUME IInv, NEW p \in Cpus, FlushSync(p)
    PROVE  IInv'
<1> DEFINE c == own[p]
<1> USE DEF IInv
<1>1. /\ pc[p] = "sync"
      /\ rx' = [rx EXCEPT ![c] = Zero]
      /\ unreported' = Report(rx[c], rule[c].tuple)
      /\ pc' = [pc EXCEPT ![p] = "free"]
      /\ UNCHANGED <<heap, rule, all_connections, num_connections, dev_refs, active,
                     active_list, own, request, sweep, timer_pc, quota, sis,
                     sync_rule_callback, registered>>
  BY DEF FlushSync, ResetCounts, tables, timer, env
<1>2. c \in Conns /\ heap[c] = "unlinked"
  BY <1>1 DEF SingleOwner, Flushing, TypeOK
<1> HIDE DEF c
<1>3. TypeOK'
  <2>1. /\ pc' \in [Cpus -> PcValues]
        /\ \A q \in Cpus : pc'[q] = "create" => request'[q] # None
    BY <1>1 DEF TypeOK, PcValues, Flushing
  <2>2. rx' \in [Conns -> [Dirs -> Nat]]
    BY <1>1 DEF TypeOK, Zero
  <2>3. unreported' \in [Tuples -> [Dirs -> Int]]
    BY <1>1, <1>2, ReportType DEF TypeOK
  <2> QED
    BY <1>1, <2>1, <2>2, <2>3 DEF TypeOK
<1>4. TablesAgree' /\ UniqueTuples' /\ ActiveListExact'
  BY <1>1 DEF TablesAgree, UniqueTuples, ActiveListExact, Linked
<1>5. UnsyncedIsActive'
  BY <1>1, <1>2 DEF UnsyncedIsActive, Linked, TypeOK
<1>6. SingleOwner'
  BY <1>1 DEF SingleOwner, Flushing, TypeOK
<1> QED
  BY <1>3, <1>4, <1>5, <1>6

\* Freeing an unlinked connection takes it from its only owner and leaves the
\* linked ones alone.
LEMMA FlushFreeStep ==
    ASSUME IInv, NEW p \in Cpus, FlushFree(p)
    PROVE  IInv'
<1> DEFINE c == own[p]
<1> USE DEF IInv
<1>1. /\ pc[p] \in {"free", "discard"}
      /\ heap' = [heap EXCEPT ![c] = "free"]
      /\ rule' = [rule EXCEPT ![c] = None]
      /\ rx' = [rx EXCEPT ![c] = Zero]
      /\ active' = [m \in Matches |-> m[1] # c /\ active[m]]
      /\ dev_refs' = [d \in Devs |-> dev_refs[d] - Uses(rule[c], d)]
      /\ \/ unreported' = Report(rx[c], rule[c].tuple)
         \/ unreported' = unreported
      /\ \/ pc' = [pc EXCEPT ![p] = "idle"]
         \/ pc' = [pc EXCEPT ![p] = "sweep"]
      /\ own' = [own EXCEPT ![p] = None]
      /\ UNCHANGED <<all_connections, num_connections, active_list, request, sweep,
                     timer_pc, quota, sis, sync_rule_callback, registered>>
  BY DEF FlushFree, PutDevs, timer, env
<1>2. c \in Conns /\ heap[c] = "unlinked" /\ c # None
  BY <1>1 DEF SingleOwner, Flushing, TypeOK
<1>3. \A q \in Cpus : own[q] = c => q = p
  BY <1>2 DEF SingleOwner
<1>4. /\ \A q \in Cpus : own'[q] = IF q = p THEN None ELSE own[q]
      /\ \A e \in Conns : heap'[e] = IF e = c THEN "free" ELSE heap[e]
      /\ \A q \in Cpus : q # p => pc'[q] = pc[q]
      /\ pc'[p] \notin Flushing
  BY <1>1 DEF TypeOK, Flushing
<1> HIDE DEF c
<1>5. Linked' = Linked /\ c \notin Linked
  BY <1>1, <1>2 DEF Linked, TypeOK
<1>6. TypeOK'
  <2>1. /\ heap' \in [Conns -> {"free", "linked", "unlinked"}]
        /\ rule' \in [Conns -> Sics \cup {None}]
        /\ \A e \in Conns : rule'[e] = None <=> heap'[e] = "free"
    BY <1>1, <1>2 DEF TypeOK
  <2>2. /\ rx' \in [Conns -> [Dirs -> Nat]]
        /\ unreported' \in [Tuples -> [Dirs -> Int]]
    <3>1. rx' \in [Conns -> [Dirs -> Nat]]
      BY <1>1 DEF TypeOK, Zero
    <3>2. unreported \in [Tuples -> [Dirs -> Int]] /\ rx[c] \in [Dirs -> Nat]
      BY <1>2 DEF TypeOK
    <3>3. Report(rx[c], rule[c].tuple) \in [Tuples -> [Dirs -> Int]]
      BY <3>2, ReportType
    <3> QED
      BY <1>1, <3>1, <3>2, <3>3
  <2>3. active' \in [Matches -> BOOLEAN]
    BY <1>1
  <2>4. dev_refs' \in [Devs -> Int]
    BY <1>1 DEF TypeOK, Uses
  <2>5. /\ pc' \in [Cpus -> PcValues]
        /\ own' \in [Cpus -> Conns \cup {None}]
        /\ \A q \in Cpus : pc'[q] = "create" => request'[q] # None
    BY <1>1 DEF TypeOK, PcValues
  <2>6. UNCHANGED <<all_connections, num_connections, active_list, request, sweep,
                    timer_pc, quota, sis, sync_rule_callback, registered>>
    BY <1>1
  <2>7. /\ all_connections' \in Seq(Conns) /\ active_list' \in Seq(Matches)
        /\ num_connections' \in Nat /\ quota' \in Nat
    BY <2>6 DEF TypeOK
  <2>8. /\ sync_rule_callback' \in BOOLEAN
        /\ registered' \subseteq Devs
        /\ request' \in [Cpus -> Sics \cup {None}]
        /\ sweep' \in [Cpus -> SUBSET Devs]
        /\ timer_pc' \in {"armed", "enter", "call", "relock"}
        /\ sis' \in Messages \cup {None}
        /\ timer_pc' = "call" => sis' # None
    BY <2>6 DEF TypeOK
  <2> QED
    BY <2>1, <2>2, <2>3, <2>4, <2>5, <2>7, <2>8 DEF TypeOK
<1>7. TablesAgree'
  BY <1>1, <1>5 DEF TablesAgree
<1>8. \A e \in Linked : rule'[e] = rule[e] /\ rx'[e] = rx[e]
  BY <1>1, <1>5 DEF Linked, TypeOK
<1>9. \A m \in Matches : m[1] \in Linked => (active'[m] <=> active[m])
  BY <1>1, <1>5
<1>10. UniqueTuples'
  BY <1>5, <1>8 DEF UniqueTuples
<1>11. UnsyncedIsActive'
  <2>1. \A e \in Linked, d \in Dirs : <<e, d>> \in Matches /\ <<e, d>>[1] = e
    BY DEF Linked, Matches
  <2> QED
    BY <1>5, <1>8, <1>9, <2>1 DEF UnsyncedIsActive
<1>12. ActiveListExact'
  <2>1. {m \in Matches : m[1] \in Linked' /\ active'[m]}
          = {m \in Matches : m[1] \in Linked /\ active[m]}
    BY <1>5, <1>9
  <2> QED
    BY <1>1, <2>1 DEF ActiveListExact
<1>13. SingleOwner'
  <2>1. ASSUME NEW e \in Conns, heap'[e] = "unlinked"
        PROVE  \E q \in Cpus : own'[q] = e
    <3>1. e # c /\ heap[e] = "unlinked"
      BY <1>4, <2>1
    <3>2. PICK q \in Cpus : own[q] = e
      BY <3>1 DEF SingleOwner
    <3> QED
      BY <1>4, <3>1, <3>2 DEF c
  <2>2. \A q \in Cpus : own'[q] # None => heap'[own'[q]] = "unlinked"
    BY <1>3, <1>4 DEF SingleOwner, TypeOK
  <2>3. \A q, r \in Cpus : own'[q] = own'[r] /\ own'[q] # None => q = r
    BY <1>4 DEF SingleOwner
  <2>4. \A q \in Cpus : own'[q] # None <=> pc'[q] \in Flushing
    BY <1>4 DEF SingleOwner
  <2> QED
    BY <2>1, <2>2, <2>3, <2>4 DEF SingleOwner
<1> QED
  BY <1>6, <1>7, <1>10, <1>11, <1>12, <1>13

\* Counting a packet of a linked connection lists its match in the same
\* critical section.
LEMMA ForwardStep ==
    ASSUME IInv, NEW m \in Matches, m[1] \in Linked, Forward(m)
    PROVE  IInv'
<1> DEFINE c == m[1]
           d == m[2]
<1> USE DEF IInv
<1>1. /\ rx' = [rx EXCEPT ![c][d] = @ + 1]
      /\ active' = [active EXCEPT ![m] = TRUE]
      /\ active_list' = IF active[m] THEN active_list ELSE Append(active_list, m)
      /\ unreported' = [unreported EXCEPT ![rule[c].tuple][d] = @ + 1]
      /\ UNCHANGED <<heap, rule, all_connections, num_connections, dev_refs, pc, own, request,
                     sweep, timer_pc, quota, sis, sync_rule_callback, registered>>
  BY DEF Forward, Activate, tables, callers, timer, env
<1>2. c \in Conns /\ d \in Dirs /\ m = <<c, d>>
  BY DEF Matches
<1>3. Linked' = Linked
  BY <1>1 DEF Linked
<1>4. \A n \in Matches : active'[n] <=> (n = m \/ active[n])
  BY <1>1 DEF TypeOK
<1> HIDE DEF c, d
<1>5. active_list' \in Seq(Matches) /\ ActiveListExact'
  <2>1. /\ active_list \in Seq(Matches)
        /\ IsInjective(active_list)
        /\ ToSet(active_list) = {n \in Matches : n[1] \in Linked /\ active[n]}
    BY DEF TypeOK, ActiveListExact
  <2>2. CASE active[m]
    <3>1. active_list' = active_list
      BY <1>1, <2>2
    <3>2. {n \in Matches : n[1] \in Linked' /\ active'[n]}
            = {n \in Matches : n[1] \in Linked /\ active[n]}
      BY <1>3, <1>4, <2>2
    <3> QED
      BY <2>1, <3>1, <3>2 DEF ActiveListExact
  <2>3. CASE ~active[m]
    <3>1. active_list' = Append(active_list, m) /\ m \notin ToSet(active_list)
      BY <1>1, <2>1, <2>3
    <3>2. /\ active_list' \in Seq(Matches)
          /\ IsInjective(active_list')
          /\ ToSet(active_list') = ToSet(active_list) \cup {m}
      BY <2>1, <3>1, AppendElement
    <3>3. {n \in Matches : n[1] \in Linked' /\ active'[n]}
            = ToSet(active_list) \cup {m}
      BY <1>3, <1>4, <2>1
    <3> QED
      BY <3>2, <3>3 DEF ActiveListExact
  <2> QED
    BY <2>2, <2>3
<1>6. TypeOK'
  <2>1. rx' \in [Conns -> [Dirs -> Nat]]
    BY <1>1, <1>2 DEF TypeOK
  <2>2. unreported' \in [Tuples -> [Dirs -> Int]]
    <3>1. CASE rule[c].tuple \in Tuples
      BY <1>1, <1>2, <3>1 DEF TypeOK
    <3>2. CASE rule[c].tuple \notin Tuples
      BY <1>1, <3>2 DEF TypeOK
    <3> QED
      BY <3>1, <3>2
  <2>3. active' \in [Matches -> BOOLEAN]
    BY <1>1 DEF TypeOK
  <2> QED
    BY <1>1, <1>5, <2>1, <2>2, <2>3 DEF TypeOK
<1>7. TablesAgree' /\ UniqueTuples' /\ SingleOwner'
  BY <1>1, <1>3 DEF TablesAgree, UniqueTuples, SingleOwner
<1>8. UnsyncedIsActive'
  <2>1. ASSUME NEW e \in Linked, NEW g \in Dirs, rx'[e][g] > 0
        PROVE  active'[<<e, g>>]
    <3>1. e \in Conns /\ <<e, g>> \in Matches
      BY DEF Linked, Matches
    <3>2. CASE e = c /\ g = d
      BY <1>2, <1>4, <3>1, <3>2
    <3>3. CASE ~(e = c /\ g = d)
      <4>1. rx'[e][g] = rx[e][g]
        BY <1>1, <1>2, <3>1, <3>3 DEF TypeOK
      <4> QED
        BY <1>4, <2>1, <3>1, <4>1 DEF UnsyncedIsActive
    <3> QED
      BY <3>2, <3>3
  <2> QED
    BY <1>3, <2>1 DEF UnsyncedIsActive
<1> QED
  BY <1>5, <1>6, <1>7, <1>8

\* A match found for a packet belongs to a linked connection.
LEMMA FoundMatchIsLinked ==
    ASSUME NEW dev, NEW t, NEW m \in FindMatch(dev, t)
    PROVE  m \in Matches /\ m[1] \in Linked
BY DEF FindMatch

\* A packet that takes its connection out of the tables keeps the invariant.
LEMMA FlushOnPacketStep ==
    ASSUME IInv, NEW p \in Cpus, pc[p] = "idle", NEW m \in Matches, m[1] \in Linked,
           FlushOnPacket(p, m)
    PROVE  IInv'
<1>1. StartFlush(p, m[1]) /\ UNCHANGED <<request, sweep, timer, env, unreported>>
  BY DEF FlushOnPacket
<1>2. sweep' \in [Cpus -> SUBSET Devs]
  BY <1>1 DEF IInv, TypeOK
<1> QED
  BY <1>1, <1>2, StartFlushStep

\* Every packet handler of sfe_ipv4_recv keeps the invariant.
LEMMA PacketStep ==
    ASSUME IInv, NEW p \in Cpus, Packet(p)
    PROVE  IInv'
<1>1. PICK dev \in Devs, t \in Tuples :
          RecvUdp(p, dev, t) \/ RecvTcp(p, dev, t) \/ RecvIcmp(p, dev, t)
  BY DEF Packet
<1>2. PICK m \in FindMatch(dev, t) :
          pc[p] = "idle" /\ (Forward(m) \/ FlushOnPacket(p, m))
  BY <1>1 DEF RecvUdp, RecvTcp, RecvIcmp
<1> QED
  BY <1>2, FoundMatchIsLinked, ForwardStep, FlushOnPacketStep

\* destroy_rule keeps the invariant.
LEMMA DestroyRuleStep ==
    ASSUME IInv, NEW p \in Cpus, NEW t \in Tuples, DestroyRule(p, t)
    PROVE  IInv'
<1>1. PICK c \in Linked : pc[p] = "idle" /\ StartFlush(p, c)
  BY DEF DestroyRule, FindConnection
<1>2. UNCHANGED <<request, sweep, timer, env, unreported>>
  BY DEF DestroyRule
<1>3. sweep' \in [Cpus -> SUBSET Devs]
  BY <1>2 DEF IInv, TypeOK
<1> QED
  BY <1>1, <1>2, <1>3, StartFlushStep

\* A round of destroy_all_rules_for_dev ends the call, or takes a connection that is
\* linked, because it is on the list.
LEMMA SweepRoundCases ==
    ASSUME IInv, NEW p, NEW devs, SweepRound(p, devs)
    PROVE  \/ /\ pc' = [pc EXCEPT ![p] = "idle"]
              /\ sweep' = [sweep EXCEPT ![p] = {}]
              /\ UNCHANGED <<tables, counts, own>>
           \/ /\ \E c \in Linked : StartFlush(p, c)
              /\ sweep' = [sweep EXCEPT ![p] = devs]
<1> DEFINE hits == {i \in DOMAIN all_connections :
                      LET s == rule[all_connections[i]]
                      IN  s.src_dev \in devs \/ s.dest_dev \in devs}
<1>1. CASE hits = {}
  BY <1>1 DEF SweepRound
<1>2. CASE hits # {}
  <2>1. /\ StartFlush(p, all_connections[Min(hits)])
        /\ sweep' = [sweep EXCEPT ![p] = devs]
    BY <1>2 DEF SweepRound
  <2>2. DOMAIN all_connections = 1..Len(all_connections) /\ Len(all_connections) \in Nat
    BY LenProperties DEF IInv, TypeOK
  <2>3. hits \subseteq Nat
    BY <2>2
  <2>4. Min(hits) \in DOMAIN all_connections
    <3> HIDE DEF hits
    <3>1. Min(hits) \in hits
      BY <1>2, <2>3, MinInSet
    <3> QED
      BY <3>1 DEF hits
  <2> HIDE DEF hits
  <2>5. all_connections[Min(hits)] \in Linked
    BY <2>4 DEF IInv, TablesAgree, ToSet
  <2> QED
    BY <2>1, <2>5
<1> QED
  BY <1>1, <1>2

\* A round of destroy_all_rules_for_dev keeps the invariant.
LEMMA SweepRoundStep ==
    ASSUME IInv, NEW p \in Cpus, pc[p] \in {"idle", "sweep"}, NEW devs \in SUBSET Devs,
           SweepRound(p, devs), UNCHANGED <<request, timer, env, unreported>>
    PROVE  IInv'
<1> USE DEF IInv
<1>1. CASE /\ pc' = [pc EXCEPT ![p] = "idle"]
           /\ sweep' = [sweep EXCEPT ![p] = {}]
           /\ UNCHANGED <<tables, counts, own>>
  <2>1. UNCHANGED <<heap, rule, all_connections, num_connections, dev_refs, rx, active,
                    active_list, own, request, timer_pc, quota, sis, sync_rule_callback,
                    registered, unreported>>
    BY <1>1 DEF tables, counts, timer, env
  <2>2. TypeOK'
    <3>1. /\ pc' \in [Cpus -> PcValues] /\ sweep' \in [Cpus -> SUBSET Devs]
          /\ \A q \in Cpus : pc'[q] = "create" => request'[q] # None
      BY <1>1, <2>1 DEF TypeOK, PcValues
    <3> QED
      BY <2>1, <3>1 DEF TypeOK
  <2>3. TablesAgree' /\ UniqueTuples' /\ UnsyncedIsActive' /\ ActiveListExact'
    BY <2>1 DEF TablesAgree, UniqueTuples, UnsyncedIsActive, ActiveListExact, Linked
  <2>4. SingleOwner'
    BY <1>1, <2>1 DEF SingleOwner, Flushing, TypeOK
  <2> QED
    BY <2>2, <2>3, <2>4
<1>2. CASE /\ \E c \in Linked : StartFlush(p, c)
           /\ sweep' = [sweep EXCEPT ![p] = devs]
  <2>1. sweep' \in [Cpus -> SUBSET Devs]
    BY <1>2 DEF TypeOK
  <2> QED
    BY <1>2, <2>1, StartFlushStep
<1> QED
  BY <1>1, <1>2, SweepRoundCases

\* Every operation a connection manager calls keeps the invariant.
LEMMA RequestStep ==
    ASSUME IInv, NEW p \in Cpus, Request(p)
    PROVE  IInv'
<1>1. CASE \E s \in Sics : CreateRuleCheck(p, s)
  BY <1>1, CreateRuleCheckStep
<1>2. CASE \E t \in Tuples : DestroyRule(p, t)
  BY <1>2, DestroyRuleStep
<1>3. CASE \E devs \in SweepArgs : DestroyAllRulesForDev(p, devs)
  <2>1. PICK devs \in SUBSET Devs : DestroyAllRulesForDev(p, devs)
    BY <1>3, HotplugAssumption DEF SweepArgs
  <2> QED
    BY <2>1, SweepRoundStep DEF DestroyAllRulesForDev
<1> QED
  BY <1>1, <1>2, <1>3 DEF Request

\* Whatever a context inside the engine does next keeps the invariant.
LEMMA ContinueStep ==
    ASSUME IInv, NEW p \in Cpus, Continue(p)
    PROVE  IInv'
<1>1. CASE AnotherRound(p)
  <2>1. sweep[p] \in SUBSET Devs
    BY DEF IInv, TypeOK
  <2> QED
    BY <1>1, <2>1, SweepRoundStep DEF AnotherRound
<1> QED
  BY <1>1, CreateRuleFailStep, CreateRuleInsertStep, FlushReadCallbackStep, FlushSyncStep,
     FlushFreeStep DEF Continue

\* Entering the periodic sync changes no table.
LEMMA SyncStartStep ==
    ASSUME IInv, SyncStart
    PROVE  IInv'
<1> USE DEF IInv
<1>1. /\ timer_pc' = "enter"
      /\ UNCHANGED <<heap, rule, all_connections, num_connections, dev_refs, rx, active,
                     active_list, pc, own, request, sweep, quota, sis,
                     sync_rule_callback, registered, unreported>>
  BY DEF SyncStart, tables, counts, callers, env
<1>2. TypeOK'
  BY <1>1 DEF TypeOK
<1>3. TablesAgree' /\ UniqueTuples' /\ UnsyncedIsActive' /\ ActiveListExact' /\ SingleOwner'
  BY <1>1 DEF TablesAgree, UniqueTuples, UnsyncedIsActive, ActiveListExact, Linked, SingleOwner
<1> QED
  BY <1>2, <1>3

\* The head of the active list is an active match of a linked connection.
LEMMA HeadIsLinked ==
    ASSUME IInv, active_list # <<>>
    PROVE  LET m == Head(active_list)
           IN  m = active_list[1] /\ m \in Matches /\ m[1] \in Linked /\ active[m]
<1>1. /\ DOMAIN active_list = 1..Len(active_list) /\ Len(active_list) \in Nat \ {0}
      /\ Head(active_list) = active_list[1]
  BY EmptySeq, LenProperties, HeadTailProperties DEF IInv, TypeOK
<1>2. Head(active_list) \in ToSet(active_list)
  BY <1>1 DEF ToSet
<1> QED
  BY <1>1, <1>2 DEF IInv, ActiveListExact

\* Taking the head of the active list off it, with its counter match, keeps
\* the list exact and leaves no packet count behind on an unlisted match.
LEMMA SyncHeadStep ==
    ASSUME IInv, NEW q \in Nat \ {0}, active_list # <<>>, SyncHead(q),
           UNCHANGED <<tables, callers, env, unreported>>
    PROVE  IInv'
<1> DEFINE m == Head(active_list)
           k == CounterMatch(m)
           c == m[1]
           l == Deactivate(active_list, k)
<1> USE DEF IInv
<1>1. /\ active_list' = Tail(l)
      /\ active' = [active EXCEPT ![m] = FALSE, ![k] = FALSE]
      /\ rx' = [rx EXCEPT ![c] = Zero]
      /\ sis' = [tuple |-> rule[c].tuple, count |-> rx[c]]
      /\ quota' = q - 1
      /\ timer_pc' = "call"
      /\ UNCHANGED <<heap, rule, all_connections, num_connections, dev_refs, pc, own, request,
                     sweep, sync_rule_callback, registered, unreported>>
  BY DEF SyncHead, UnlistPair, SyncMessage, ResetCounts, tables, callers, env
<1>2. /\ active_list \in Seq(Matches)
      /\ IsInjective(active_list)
      /\ ToSet(active_list) = {n \in Matches : n[1] \in Linked /\ active[n]}
  BY DEF TypeOK, ActiveListExact
<1>3. m = active_list[1] /\ m \in Matches /\ m[1] \in Linked /\ active[m]
  BY HeadIsLinked
<1>4. m \in ToSet(active_list) /\ c \in Conns
  BY <1>2, <1>3 DEF Linked
<1>5. k \in Matches /\ k # m /\ k[1] = c
  BY <1>3 DEF CounterMatch, Matches, Dirs
<1>6. \A n \in Matches : n[1] = c <=> n = m \/ n = k
  BY <1>3 DEF CounterMatch, Matches, Dirs
<1>7. Linked' = Linked
  BY <1>1 DEF Linked
<1> HIDE DEF k, c, m
<1>8. \A n \in Matches : active'[n] <=> n[1] # c /\ active[n]
  BY <1>1, <1>3, <1>5, <1>6 DEF TypeOK
<1>9. /\ l \in Seq(Matches)
      /\ IsInjective(l)
      /\ l # <<>> /\ l[1] = m
      /\ ToSet(l) = ToSet(active_list) \ {k}
  <2>1. CASE active[k]
    BY <1>2, <1>3, <1>4, <1>5, <2>1, RemoveFirstProperties DEF Deactivate
  <2>2. CASE ~active[k]
    BY <1>2, <1>3, <1>4, <2>2 DEF Deactivate
  <2> QED
    BY <2>1, <2>2
<1> HIDE DEF l
<1>10. active_list' \in Seq(Matches) /\ ActiveListExact'
  <2>1. /\ active_list' \in Seq(Matches)
        /\ IsInjective(active_list')
        /\ ToSet(active_list') = ToSet(active_list) \ {k, m}
    BY <1>1, <1>9, TailProperties
  <2>2. ToSet(active_list') = {n \in Matches : n[1] \in Linked' /\ active'[n]}
    BY <1>2, <1>6, <1>7, <1>8, <2>1
  <2> QED
    BY <2>1, <2>2 DEF ActiveListExact
<1>11. TypeOK'
  <2>1. rx' \in [Conns -> [Dirs -> Nat]]
    BY <1>1 DEF TypeOK, Zero
  <2>2. active' \in [Matches -> BOOLEAN]
    BY <1>1 DEF TypeOK
  <2>3. sis' \in Messages /\ sis' # None
    <3>1. rule[c] \in Sics
      BY <1>3, <1>4 DEF TypeOK, Linked, c
    <3>2. rule[c].tuple \in Tuples /\ rx[c] \in [Dirs -> Nat]
      BY <1>4, <3>1, SicsAssumption DEF TypeOK
    <3>3. sis' \in Messages
      BY <1>1, <3>2 DEF Messages
    <3> QED
      BY <3>3, NoneAssumption
  <2>4. quota' \in Nat
    BY <1>1
  <2> QED
    BY <1>1, <1>10, <2>1, <2>2, <2>3, <2>4 DEF TypeOK
<1>12. TablesAgree' /\ UniqueTuples' /\ SingleOwner'
  BY <1>1, <1>7 DEF TablesAgree, UniqueTuples, SingleOwner
<1>13. UnsyncedIsActive'
  <2>1. ASSUME NEW e \in Linked, NEW d \in Dirs, rx'[e][d] > 0
        PROVE  active'[<<e, d>>]
    <3>1. e \in Conns /\ <<e, d>> \in Matches
      BY DEF Linked, Matches
    <3>2. e # c /\ rx'[e] = rx[e]
      BY <1>1, <1>4, <2>1, <3>1 DEF TypeOK, Zero
    <3> QED
      BY <1>8, <2>1, <3>1, <3>2 DEF UnsyncedIsActive
  <2> QED
    BY <1>7, <2>1 DEF UnsyncedIsActive
<1> QED
  BY <1>10, <1>11, <1>12, <1>13

\* One turn of the loop of the periodic sync keeps the invariant.
LEMMA SyncWalkStep ==
    ASSUME IInv, NEW q \in Nat, SyncWalk(q), UNCHANGED <<tables, callers, env, unreported>>
    PROVE  IInv'
<1>1. CASE q = 0 \/ active_list = <<>>
  <2> USE DEF IInv
  <2>1. /\ timer_pc' = "armed" /\ quota' = 0
        /\ UNCHANGED <<heap, rule, all_connections, num_connections, dev_refs, rx, active,
                       active_list, pc, own, request, sweep, sis, sync_rule_callback,
                       registered, unreported>>
    BY <1>1 DEF SyncWalk, SyncDone, tables, counts, callers, env
  <2>2. TypeOK'
    BY <2>1 DEF TypeOK
  <2>3. TablesAgree' /\ UniqueTuples' /\ UnsyncedIsActive' /\ ActiveListExact' /\ SingleOwner'
    BY <2>1 DEF TablesAgree, UniqueTuples, UnsyncedIsActive, ActiveListExact, Linked, SingleOwner
  <2> QED
    BY <2>2, <2>3
<1>2. CASE ~(q = 0 \/ active_list = <<>>)
  BY <1>2, SyncHeadStep DEF SyncWalk
<1> QED
  BY <1>1, <1>2

\* Delivering the message of the timer without the lock changes no table.
LEMMA SyncCallStep ==
    ASSUME IInv, SyncCall
    PROVE  IInv'
<1> USE DEF IInv
<1>1. /\ timer_pc = "call"
      /\ unreported' = Report(sis.count, sis.tuple)
      /\ sis' = None
      /\ timer_pc' = "relock"
      /\ UNCHANGED <<heap, rule, all_connections, num_connections, dev_refs, rx, active,
                     active_list, pc, own, request, sweep, quota, sync_rule_callback,
                     registered>>
  BY DEF SyncCall, tables, counts, callers, env
<1>2. sis \in Messages
  BY <1>1 DEF TypeOK
<1>3. unreported' \in [Tuples -> [Dirs -> Int]]
  <2>1. sis.count \in [Dirs -> Nat]
    BY <1>2 DEF Messages
  <2> QED
    BY <1>1, <2>1, ReportType
<1>4. TypeOK'
  BY <1>1, <1>3 DEF TypeOK
<1>5. TablesAgree' /\ UniqueTuples' /\ UnsyncedIsActive' /\ ActiveListExact' /\ SingleOwner'
  BY <1>1 DEF TablesAgree, UniqueTuples, UnsyncedIsActive, ActiveListExact, Linked, SingleOwner
<1> QED
  BY <1>4, <1>5

\* The quota of a period is a natural number.
LEMMA QuotaType ==
    ASSUME TypeOK
    PROVE  (num_connections + SyncShare - 1) \div SyncShare \in Nat
<1>1. ASSUME NEW a \in Nat, NEW b \in Nat \ {0}
      PROVE  a \div b \in Nat
  OBVIOUS
<1>2. num_connections + SyncShare - 1 \in Nat
  BY BoundsAssumption DEF TypeOK
<1> QED
  BY <1>1, <1>2, BoundsAssumption

\* Every step of the timer keeps the invariant.
LEMMA TimerStep ==
    ASSUME IInv, Timer
    PROVE  IInv'
<1>1. CASE SyncEnter
  BY <1>1, QuotaType, SyncWalkStep DEF SyncEnter, IInv
<1>2. CASE SyncRelock
  <2>1. quota \in Nat
    BY DEF IInv, TypeOK
  <2> QED
    BY <1>2, <2>1, SyncWalkStep DEF SyncRelock
<1> QED
  BY <1>1, <1>2, SyncStartStep, SyncCallStep DEF Timer

\* Registering the callback and unregistering a device keep the invariant.
LEMMA EnvironmentStep ==
    ASSUME IInv,
           \/ \E b \in BOOLEAN : RegisterSyncRuleCallback(b)
           \/ \E d \in Hotplug : UnregisterDevice(d)
    PROVE  IInv'
<1> USE DEF IInv
<1>1. /\ sync_rule_callback' \in BOOLEAN /\ registered' \subseteq Devs
      /\ UNCHANGED <<heap, rule, all_connections, num_connections, dev_refs, rx, active,
                     active_list, pc, own, request, sweep, timer_pc, quota, sis, unreported>>
  BY DEF RegisterSyncRuleCallback, UnregisterDevice, tables, counts, callers, timer, TypeOK
<1>2. TypeOK'
  BY <1>1 DEF TypeOK
<1>3. TablesAgree' /\ UniqueTuples' /\ UnsyncedIsActive' /\ ActiveListExact' /\ SingleOwner'
  BY <1>1 DEF TablesAgree, UniqueTuples, UnsyncedIsActive, ActiveListExact, Linked, SingleOwner
<1> QED
  BY <1>2, <1>3

\* The invariant is inductive.
LEMMA NextIInv == IInv /\ [Next]_vars => IInv'
<1> SUFFICES ASSUME IInv, [Next]_vars PROVE IInv'
  OBVIOUS
<1>1. CASE Next
  BY <1>1, PacketStep, RequestStep, ContinueStep, TimerStep, EnvironmentStep DEF Next
<1>2. CASE UNCHANGED vars
  <2>1. UNCHANGED <<heap, rule, all_connections, num_connections, dev_refs, rx, active,
                    active_list, pc, own, request, sweep, timer_pc, quota, sis,
                    sync_rule_callback, registered, unreported>>
    BY <1>2 DEF vars, tables, counts, callers, timer, env
  <2>2. TypeOK'
    BY <2>1 DEF TypeOK, IInv
  <2>3. TablesAgree' /\ UniqueTuples' /\ UnsyncedIsActive' /\ ActiveListExact' /\ SingleOwner'
    BY <2>1 DEF TablesAgree, UniqueTuples, UnsyncedIsActive, ActiveListExact, Linked, SingleOwner,
                IInv
  <2> QED
    BY <2>2, <2>3 DEF IInv
<1> QED
  BY <1>1, <1>2

\* IInv is an inductive invariant of the engine, for any number of objects,
\* contexts, devices, tuples and requests.
THEOREM Invariance == Spec => []IInv
BY InitIInv, NextIInv, PTL DEF Spec

\* Every variable keeps its type; an object has a rule exactly while it is
\* allocated, and the timer has a message whenever it is about to deliver one.
THEOREM TypeCorrect == Spec => []TypeOK
<1>1. IInv => TypeOK
  BY DEF IInv
<1> QED
  BY <1>1, Invariance, PTL

\* The list of connections, the linked objects and num_connections agree.
THEOREM TablesAlwaysAgree == Spec => []TablesAgree
<1>1. IInv => TablesAgree
  BY DEF IInv
<1> QED
  BY <1>1, Invariance, PTL

\* create_rule never links two connections with one original tuple.
THEOREM TuplesStayUnique == Spec => []UniqueTuples
<1>1. IInv => UniqueTuples
  BY DEF IInv
<1> QED
  BY <1>1, Invariance, PTL

\* The active list is the set of flagged matches of linked connections: the
\* timer never reaches a match of a removed connection.
THEOREM ActiveListStaysExact == Spec => []ActiveListExact
<1>1. IInv => ActiveListExact
  BY DEF IInv
<1> QED
  BY <1>1, Invariance, PTL

\* No packet count waits outside the active list.
THEOREM UnsyncedStaysActive == Spec => []UnsyncedIsActive
<1>1. IInv => UnsyncedIsActive
  BY DEF IInv
<1> QED
  BY <1>1, Invariance, PTL

\* A removed connection is flushed by the context that removed it and no other.
THEOREM OwnerIsUnique == Spec => []SingleOwner
<1>1. IInv => SingleOwner
  BY DEF IInv
<1> QED
  BY <1>1, Invariance, PTL

-----------------------------------------------------------------------------
(* The books of the engine: the holds on devices and the packets that are   *)
(* forwarded and not yet reported are sums over the connections.            *)

\* The connections that are allocated, linked or being flushed.
Held == {c \in Conns : heap[c] # "free"}

\* Those of them whose rule is for the tuple t.
OfTuple(t) == {c \in Conns : heap[c] # "free" /\ rule[c].tuple = t}

UsesOf(d)   == [c \in Conns |-> Uses(rule[c], d)]
CountsOf(d) == [c \in Conns |-> rx[c][d]]

\* What is unreported and not in the message of the timer.
Owed(t, d) ==
    unreported[t][d] - (IF sis # None /\ sis.tuple = t THEN sis.count[d] ELSE 0)

Balanced  == \A d \in Devs : dev_refs[d] = Total(UsesOf(d), Held)
Conserved == \A t \in Tuples, d \in Dirs : Owed(t, d) = Total(CountsOf(d), OfTuple(t))

\* The timer holds a message only between the critical section that made it and
\* the callback.
SisExact == timer_pc # "call" => sis = None

\* A context that has reported its connection has nothing left to report.
SyncedIsZero == \A p \in Cpus : pc[p] = "free" => rx[own[p]] = Zero

Books == Balanced /\ Conserved /\ SyncedIsZero /\ SisExact

\* The sets and functions that are summed up.
LEMMA BooksType ==
  ASSUME IInv
  PROVE  /\ IsFiniteSet(Held) /\ Held \subseteq Conns
         /\ \A t : IsFiniteSet(OfTuple(t)) /\ OfTuple(t) \subseteq Held
         /\ \A d : \A c \in Conns : UsesOf(d)[c] \in Int /\ UsesOf(d)[c] = Uses(rule[c], d)
         /\ \A d \in Dirs : \A c \in Conns : CountsOf(d)[c] \in Int /\ CountsOf(d)[c] = rx[c][d]
         /\ \A c \in Held : rule[c] \in Sics /\ rule[c].tuple \in Tuples
<1>1. Held \subseteq Conns /\ \A t : OfTuple(t) \subseteq Held
  BY DEF OfTuple, Held
<1>2. IsFiniteSet(Held) /\ \A t : IsFiniteSet(OfTuple(t))
  BY <1>1, FiniteAssumption, FS_Subset
<1>3. \A d : \A c \in Conns : UsesOf(d)[c] \in Int /\ UsesOf(d)[c] = Uses(rule[c], d)
  BY DEF UsesOf, Uses
<1>4. \A d \in Dirs : \A c \in Conns : CountsOf(d)[c] \in Int /\ CountsOf(d)[c] = rx[c][d]
  BY DEF CountsOf, IInv, TypeOK
<1>5. \A c \in Held : rule[c] \in Sics /\ rule[c].tuple \in Tuples
  BY SicsAssumption DEF Held, IInv, TypeOK
<1> QED
  BY <1>1, <1>2, <1>3, <1>4, <1>5

\* The sum that DevRefsBalanced is about is the total of UsesOf.
LEMMA UsesTotal ==
  ASSUME IInv, NEW d
  PROVE  MapThenSumSet(LAMBDA c : Uses(rule[c], d), Held) = Total(UsesOf(d), Held)
<1> DEFINE f == UsesOf(d)
           iter == CHOOSE it : it =
                     [s \in SUBSET Held |->
                        IF s = {} THEN 0
                        ELSE Uses(rule[CHOOSE x \in s : TRUE], d) + it[s \ {CHOOSE x \in s : TRUE}]]
<1>1. MapThenSumSet(LAMBDA c : Uses(rule[c], d), Held) = iter[Held]
  BY Zenon DEF MapThenSumSet, MapThenFoldSet
<1>2. \A T \in SUBSET Held : T # {} =>
        /\ (CHOOSE x \in T : TRUE) \in T
        /\ f[CHOOSE x \in T : TRUE] = Uses(rule[CHOOSE x \in T : TRUE], d)
  BY BooksType
<1>3. IsFiniteSet(Held) /\ \A x \in Held : f[x] \in Int
  BY BooksType
<1>4. PICK g : IsSum(g, Held, f)
  BY <1>3, SumExists
<1> HIDE DEF f
<1>5. g = [T \in SUBSET Held |-> IF T = {} THEN 0
                 ELSE Uses(rule[CHOOSE x \in T : TRUE], d) + g[T \ {CHOOSE x \in T : TRUE}]]
  <2>1. ASSUME NEW T \in SUBSET Held, T # {}
        PROVE  g[T] = Uses(rule[CHOOSE x \in T : TRUE], d) + g[T \ {CHOOSE x \in T : TRUE}]
    <3>1. PICK c \in T : c = CHOOSE x \in T : TRUE
      BY <1>2, <2>1
    <3>2. g[T] = f[c] + g[T \ {c}] /\ f[c] = Uses(rule[c], d)
      BY <1>2, <1>4, <2>1, <3>1 DEF IsSum
    <3> QED
      BY <3>1, <3>2
  <2> QED
    BY <1>4, <2>1 DEF IsSum
<1>6. iter = [T \in SUBSET Held |-> IF T = {} THEN 0
                 ELSE Uses(rule[CHOOSE x \in T : TRUE], d) + iter[T \ {CHOOSE x \in T : TRUE}]]
  BY <1>5, Zenon
<1> HIDE DEF iter
<1>7. \A T \in SUBSET Held : iter[T] = IF T = {} THEN 0
                 ELSE Uses(rule[CHOOSE x \in T : TRUE], d) + iter[T \ {CHOOSE x \in T : TRUE}]
  BY <1>6, Zenon
<1>8. Adds(iter, Held, f)
  BY <1>2, <1>7 DEF Adds
<1>9. iter[Held] = Total(f, Held)
  BY <1>3, <1>4, <1>8, AddsIsSum, TotalIs
<1> QED
  BY <1>1, <1>9 DEF f

\* The sum that PacketsConserved is about is the total of CountsOf.
LEMMA CountsTotal ==
  ASSUME IInv, NEW t \in Tuples, NEW d \in Dirs
  PROVE  MapThenSumSet(LAMBDA c : rx[c][d], OfTuple(t)) = Total(CountsOf(d), OfTuple(t))
<1> DEFINE f == CountsOf(d)
           iter == CHOOSE it : it =
                     [s \in SUBSET OfTuple(t) |->
                        IF s = {} THEN 0
                        ELSE rx[CHOOSE x \in s : TRUE][d] + it[s \ {CHOOSE x \in s : TRUE}]]
<1>1. MapThenSumSet(LAMBDA c : rx[c][d], OfTuple(t)) = iter[OfTuple(t)]
  BY Zenon DEF MapThenSumSet, MapThenFoldSet
<1>0. OfTuple(t) \subseteq Conns
  BY DEF OfTuple, Held
<1>2. \A T \in SUBSET OfTuple(t) : T # {} =>
        /\ (CHOOSE x \in T : TRUE) \in T
        /\ f[CHOOSE x \in T : TRUE] = rx[CHOOSE x \in T : TRUE][d]
  BY <1>0, BooksType
<1>3. IsFiniteSet(OfTuple(t)) /\ \A x \in OfTuple(t) : f[x] \in Int
  BY <1>0, BooksType
<1>4. PICK g : IsSum(g, OfTuple(t), f)
  BY <1>3, SumExists
<1> HIDE DEF f
<1>5. g = [T \in SUBSET OfTuple(t) |-> IF T = {} THEN 0
                 ELSE rx[CHOOSE x \in T : TRUE][d] + g[T \ {CHOOSE x \in T : TRUE}]]
  <2>1. ASSUME NEW T \in SUBSET OfTuple(t), T # {}
        PROVE  g[T] = rx[CHOOSE x \in T : TRUE][d] + g[T \ {CHOOSE x \in T : TRUE}]
    <3>1. PICK c \in T : c = CHOOSE x \in T : TRUE
      BY <1>2, <2>1
    <3>2. g[T] = f[c] + g[T \ {c}] /\ f[c] = rx[c][d]
      BY <1>2, <1>4, <2>1, <3>1 DEF IsSum
    <3> QED
      BY <3>1, <3>2
  <2> QED
    BY <1>4, <2>1 DEF IsSum
<1>6. iter = [T \in SUBSET OfTuple(t) |-> IF T = {} THEN 0
                 ELSE rx[CHOOSE x \in T : TRUE][d] + iter[T \ {CHOOSE x \in T : TRUE}]]
  BY <1>5, Zenon
<1> HIDE DEF iter
<1>7. \A T \in SUBSET OfTuple(t) : iter[T] = IF T = {} THEN 0
                 ELSE rx[CHOOSE x \in T : TRUE][d] + iter[T \ {CHOOSE x \in T : TRUE}]
  BY <1>6, Zenon
<1>8. Adds(iter, OfTuple(t), f)
  BY <1>2, <1>7 DEF Adds
<1>9. iter[OfTuple(t)] = Total(f, OfTuple(t))
  BY <1>3, <1>4, <1>8, AddsIsSum, TotalIs
<1> QED
  BY <1>1, <1>9 DEF f

-----------------------------------------------------------------------------
(* What the steps do to the sums.                                          *)

\* The holds stay in balance when no connection is allocated, freed or filled in.
LEMMA SameBalanced ==
  ASSUME Balanced, Held' = Held, UNCHANGED <<rule, dev_refs>>
  PROVE  Balanced'
<1>1. ASSUME NEW d \in Devs PROVE UsesOf(d)' = UsesOf(d)
  BY DEF UsesOf
<1> QED
  BY <1>1 DEF Balanced

\* Counting or reporting packets of one connection c keeps the books.
LEMMA CountChange ==
  ASSUME IInv, Conserved, NEW c \in Held, Held' = Held, rule' = rule,
         rx' \in [Conns -> [Dirs -> Nat]],
         \A e \in Conns : e # c => rx'[e] = rx[e],
         \A t \in Tuples, d \in Dirs :
            Owed(t, d)' = IF t = rule[c].tuple THEN Owed(t, d) + rx'[c][d] - rx[c][d]
                                               ELSE Owed(t, d)
  PROVE  Conserved'
<1> SUFFICES ASSUME NEW t \in Tuples, NEW d \in Dirs
             PROVE  Owed(t, d)' = Total(CountsOf(d)', OfTuple(t)')
  BY DEF Conserved
<1> DEFINE S == OfTuple(t)
           f == CountsOf(d)
           h == CountsOf(d)'
<1>1. OfTuple(t)' = S
  BY DEF OfTuple, Held
<1>2. /\ IsFiniteSet(S) /\ S \subseteq Conns /\ c \in Conns
      /\ \A e \in Conns : f[e] \in Int /\ f[e] = rx[e][d]
  BY BooksType
<1>3. \A e \in Conns : h[e] \in Int /\ h[e] = rx'[e][d]
  BY DEF CountsOf
<1>4. \A e \in Conns : e # c => f[e] = h[e]
  BY <1>2, <1>3
<1>5. Owed(t, d) = Total(f, S)
  BY DEF Conserved
<1>6. c \in S <=> t = rule[c].tuple
  BY DEF OfTuple, Held
<1> HIDE DEF S, f, h
<1>7. CASE c \in S
  <2>1. \A e \in S : f[e] \in Int /\ (e # c => f[e] = h[e])
    BY <1>2, <1>4
  <2>2. Total(h, S) = Total(f, S) + h[c] - f[c]
    BY <1>2, <1>3, <1>7, <2>1, TotalChange
  <2> QED
    BY <1>1, <1>2, <1>3, <1>5, <1>6, <1>7, <2>2 DEF h
<1>8. CASE c \notin S
  <2>1. \A e \in S : f[e] \in Int /\ f[e] = h[e]
    BY <1>2, <1>4, <1>8
  <2>2. Total(h, S) = Total(f, S)
    BY <1>2, <2>1, TotalSame
  <2> QED
    BY <1>1, <1>5, <1>6, <1>8, <2>2 DEF h
<1> QED
  BY <1>7, <1>8

\* Nothing is counted or reported.
LEMMA SameConserved ==
  ASSUME Conserved, Held' = Held, UNCHANGED <<rule, rx>>,
         \A t \in Tuples, d \in Dirs : Owed(t, d)' = Owed(t, d)
  PROVE  Conserved'
<1>1. ASSUME NEW t \in Tuples, NEW d \in Dirs
      PROVE  CountsOf(d)' = CountsOf(d) /\ OfTuple(t)' = OfTuple(t)
  BY DEF CountsOf, OfTuple, Held
<1> QED
  BY <1>1 DEF Conserved

\* A step that touches neither connections nor messages keeps the books.
LEMMA QuietBooks ==
  ASSUME IInv, Books, Held' = Held, UNCHANGED <<rule, dev_refs, rx, unreported, sis>>,
         timer_pc' = timer_pc \/ (timer_pc' # "call" /\ timer_pc # "call"),
         \A p \in Cpus : pc'[p] = "free" => pc[p] = "free" /\ own'[p] = own[p]
  PROVE  Books'
<1>1. Balanced'
  BY SameBalanced DEF Books
<1>2. \A t \in Tuples, d \in Dirs : Owed(t, d)' = Owed(t, d)
  BY DEF Owed
<1>3. Conserved'
  BY <1>2, SameConserved DEF Books
<1>4. SyncedIsZero' /\ SisExact'
  BY DEF SyncedIsZero, SisExact, Books
<1> QED
  BY <1>1, <1>3, <1>4 DEF Books

\* Filling in a connection takes its holds; it starts with no packets.
LEMMA InsertBooks ==
  ASSUME IInv, Books, NEW p \in Cpus, NEW c \in Conns, CreateRuleInsert(p, c), IInv'
  PROVE  Books'
<1>0. PICK s \in Sics : s = request[p]
  BY DEF CreateRuleInsert, IInv, TypeOK
<1>1. /\ heap[c] = "free"
      /\ heap' = [heap EXCEPT ![c] = "linked"]
      /\ rule' = [rule EXCEPT ![c] = s]
      /\ rx' = [rx EXCEPT ![c] = Zero]
      /\ dev_refs' = [d \in Devs |-> dev_refs[d] + Uses(s, d)]
      /\ pc' = [pc EXCEPT ![p] = "idle"]
      /\ UNCHANGED <<own, sis, timer_pc, unreported>>
  BY <1>0 DEF CreateRuleInsert, FillIn, InsertConnection, HoldDevs, timer
<1>2. Held' = Held \cup {c} /\ c \notin Held
  BY <1>1 DEF Held, IInv, TypeOK
<1>3. \A e \in Conns : e # c => rule'[e] = rule[e] /\ rx'[e] = rx[e]
  BY <1>1 DEF IInv, TypeOK
<1>4. rule'[c] = s /\ rx'[c] = Zero
  BY <1>1 DEF IInv, TypeOK
<1>5. Balanced'
  <2> SUFFICES ASSUME NEW d \in Devs
               PROVE  dev_refs'[d] = Total(UsesOf(d)', Held')
    BY DEF Balanced
  <2> DEFINE f == UsesOf(d)
             h == UsesOf(d)'
  <2>1. /\ IsFiniteSet(Held) /\ Held \subseteq Conns
        /\ \A e \in Conns : f[e] \in Int /\ f[e] = Uses(rule[e], d)
    BY BooksType
  <2>2. \A e \in Conns : h[e] \in Int /\ h[e] = Uses(rule'[e], d)
    BY DEF UsesOf, Uses
  <2>3. dev_refs[d] = Total(f, Held) /\ dev_refs'[d] = dev_refs[d] + Uses(s, d)
    BY <1>1 DEF Books, Balanced
  <2> HIDE DEF f, h
  <2>4. \A e \in Held : f[e] \in Int /\ f[e] = h[e]
    BY <1>2, <1>3, <2>1, <2>2
  <2>5. Total(f, Held) = Total(h, Held) /\ Total(f, Held) \in Int
    BY <2>1, <2>4, TotalSame, TotalType
  <2>6. \A e \in Held \cup {c} : h[e] \in Int
    BY <2>1, <2>2
  <2>7. Total(h, Held \cup {c}) = h[c] + Total(h, Held)
    BY <1>2, <2>1, <2>6, TotalAdd
  <2>8. h[c] = Uses(s, d) /\ h[c] \in Int
    BY <1>4, <2>2
  <2> QED
    BY <1>2, <2>3, <2>5, <2>7, <2>8 DEF h
<1>6. Conserved'
  <2> SUFFICES ASSUME NEW t \in Tuples, NEW d \in Dirs
               PROVE  Owed(t, d)' = Total(CountsOf(d)', OfTuple(t)')
    BY DEF Conserved
  <2> DEFINE f == CountsOf(d)
             h == CountsOf(d)'
             S == OfTuple(t)
  <2>1. /\ IsFiniteSet(S) /\ S \subseteq Conns /\ c \notin S
        /\ \A e \in Conns : f[e] \in Int /\ f[e] = rx[e][d]
    BY <1>2, BooksType
  <2>2. \A e \in Conns : h[e] \in Int /\ h[e] = rx'[e][d]
    BY DEF CountsOf, IInv, TypeOK
  <2>3. Owed(t, d)' = Total(f, S)
    BY <1>1 DEF Books, Conserved, Owed
  <2>4. OfTuple(t)' = IF t = s.tuple THEN S \cup {c} ELSE S
    <3>1. \A e \in Held : rule'[e] = rule[e]
      BY <1>2, <1>3 DEF Held
    <3> QED
      BY <1>2, <1>4, <3>1 DEF OfTuple, Held
  <2> HIDE DEF f, h, S
  <2>5. \A e \in S : f[e] \in Int /\ f[e] = h[e]
    BY <1>3, <2>1, <2>2
  <2>6. Total(f, S) = Total(h, S) /\ Total(f, S) \in Int
    BY <2>1, <2>5, TotalSame, TotalType
  <2>7. \A e \in S \cup {c} : h[e] \in Int
    BY <2>1, <2>2
  <2>8. Total(h, S \cup {c}) = h[c] + Total(h, S)
    BY <2>1, <2>7, TotalAdd
  <2>9. h[c] = 0
    BY <1>4, <2>2 DEF Zero
  <2> QED
    BY <2>3, <2>4, <2>6, <2>8, <2>9 DEF h
<1>7. SyncedIsZero' /\ SisExact'
  BY <1>1, <1>3 DEF Books, SyncedIsZero, SisExact, SingleOwner, Flushing, IInv, TypeOK
<1> QED
  BY <1>5, <1>6, <1>7 DEF Books

\* Unlinking a connection moves it to the context that flushes it: its holds and
\* its packets stay in the books.
LEMMA RemoveBooks ==
  ASSUME IInv, Books, NEW p \in Cpus, NEW c \in Linked, StartFlush(p, c),
         UNCHANGED <<sis, timer_pc, unreported>>
  PROVE  Books'
<1>1. /\ heap' = [heap EXCEPT ![c] = "unlinked"] /\ UNCHANGED <<rule, dev_refs, rx>>
      /\ pc' = [pc EXCEPT ![p] = "flush"] /\ own' = [own EXCEPT ![p] = c]
  BY DEF StartFlush, RemoveConnection
<1>2. Held' = Held
  BY <1>1 DEF Held, Linked, IInv, TypeOK
<1>3. \A q \in Cpus : pc'[q] = "free" => pc[q] = "free" /\ own'[q] = own[q]
  BY <1>1 DEF IInv, TypeOK
<1>4. timer_pc' = timer_pc /\ UNCHANGED <<rule, dev_refs, rx, unreported, sis>>
  BY <1>1
<1> QED
  BY <1>2, <1>3, <1>4, QuietBooks

\* The last sync of a connection reports all its packets.
LEMMA FlushSyncBooks ==
  ASSUME IInv, Books, NEW p \in Cpus, FlushSync(p), IInv'
  PROVE  Books'
<1>0. PICK c \in Held : c = own[p] /\ heap[c] = "unlinked"
  BY NoneAssumption DEF FlushSync, IInv, TypeOK, SingleOwner, Flushing, Held
<1>1. /\ rx' = [rx EXCEPT ![c] = Zero]
      /\ unreported' = Report(rx[c], rule[c].tuple)
      /\ pc' = [pc EXCEPT ![p] = "free"]
      /\ UNCHANGED <<heap, rule, dev_refs, own, timer_pc, sis>>
  BY <1>0 DEF FlushSync, ResetCounts, tables, timer
<1>2. Held' = Held /\ c \in Conns
  BY <1>1 DEF Held
<1>3. \A e \in Conns : rx'[e] = IF e = c THEN Zero ELSE rx[e]
  BY <1>1 DEF IInv, TypeOK
<1>4. \A t \in Tuples, d \in Dirs :
        Owed(t, d)' = IF t = rule[c].tuple THEN Owed(t, d) + rx'[c][d] - rx[c][d]
                                           ELSE Owed(t, d)
  <2> SUFFICES ASSUME NEW t \in Tuples, NEW d \in Dirs
               PROVE  Owed(t, d)' = IF t = rule[c].tuple THEN Owed(t, d) + rx'[c][d] - rx[c][d]
                                                         ELSE Owed(t, d)
    OBVIOUS
  <2>1. unreported'[t][d] = IF t = rule[c].tuple THEN unreported[t][d] - rx[c][d]
                                                 ELSE unreported[t][d]
    BY <1>1 DEF Report, IInv, TypeOK
  <2>2. rx'[c][d] = 0 /\ rx[c][d] \in Int /\ unreported[t][d] \in Int
    BY <1>2, <1>3 DEF Zero, IInv, TypeOK
  <2>3. sis # None => sis.count[d] \in Int
    BY DEF Messages, IInv, TypeOK
  <2> QED
    BY <1>1, <2>1, <2>2, <2>3 DEF Owed
<1>5. rx' \in [Conns -> [Dirs -> Nat]]
  BY DEF IInv, TypeOK
<1>6. Conserved'
  BY <1>1, <1>2, <1>3, <1>4, <1>5, CountChange DEF Books
<1>7. Balanced'
  BY <1>1, <1>2, SameBalanced DEF Books
<1>8. SyncedIsZero' /\ SisExact'
  BY <1>0, <1>1, <1>2, <1>3 DEF Books, SyncedIsZero, SisExact, SingleOwner, Flushing, IInv, TypeOK
<1> QED
  BY <1>6, <1>7, <1>8 DEF Books

\* Freeing a connection gives back its holds, and its packets are reported by then
\* or given up.
LEMMA FlushFreeBooks ==
  ASSUME IInv, Books, NEW p \in Cpus, FlushFree(p), IInv'
  PROVE  Books'
<1>0. PICK c \in Held : c = own[p] /\ heap[c] = "unlinked"
  BY NoneAssumption DEF FlushFree, IInv, TypeOK, SingleOwner, Flushing, Held
<1>1. /\ heap' = [heap EXCEPT ![c] = "free"]
      /\ rule' = [rule EXCEPT ![c] = None]
      /\ rx' = [rx EXCEPT ![c] = Zero]
      /\ dev_refs' = [d \in Devs |-> dev_refs[d] - Uses(rule[c], d)]
      /\ pc[p] \in {"free", "discard"}
      /\ unreported' = IF pc[p] = "discard" THEN Report(rx[c], rule[c].tuple) ELSE unreported
      /\ own' = [own EXCEPT ![p] = None]
      /\ UNCHANGED <<timer_pc, sis>>
  BY <1>0 DEF FlushFree, PutDevs, timer
<1>2. Held' = Held \ {c} /\ c \in Conns
  BY <1>1 DEF Held, IInv, TypeOK
<1>3. \A e \in Conns : e # c => rule'[e] = rule[e] /\ rx'[e] = rx[e]
  BY <1>1 DEF IInv, TypeOK
<1>4. Balanced'
  <2> SUFFICES ASSUME NEW d \in Devs
               PROVE  dev_refs'[d] = Total(UsesOf(d)', Held')
    BY DEF Balanced
  <2> DEFINE f == UsesOf(d)
             h == UsesOf(d)'
  <2>1. /\ IsFiniteSet(Held) /\ Held \subseteq Conns
        /\ \A e \in Conns : f[e] \in Int /\ f[e] = Uses(rule[e], d)
    BY BooksType
  <2>2. \A e \in Conns : h[e] \in Int /\ h[e] = Uses(rule'[e], d)
    BY DEF UsesOf, Uses
  <2>3. dev_refs[d] = Total(f, Held) /\ dev_refs'[d] = dev_refs[d] - Uses(rule[c], d)
    BY <1>1 DEF Books, Balanced
  <2> HIDE DEF f, h
  <2>4. \A e \in Held : f[e] \in Int
    BY <2>1
  <2>5. Total(f, Held \ {c}) = Total(f, Held) - f[c]
    BY <2>1, <2>4, TotalRemove
  <2>6. \A e \in Held \ {c} : f[e] \in Int /\ f[e] = h[e]
    BY <1>3, <2>1, <2>2
  <2>7. IsFiniteSet(Held \ {c})
    BY <2>1, FS_Subset
  <2>8. Total(f, Held \ {c}) = Total(h, Held \ {c})
    BY <2>6, <2>7, TotalSame
  <2> QED
    BY <1>2, <2>1, <2>3, <2>5, <2>8 DEF h
<1>5. Conserved'
  <2> SUFFICES ASSUME NEW t \in Tuples, NEW d \in Dirs
               PROVE  Owed(t, d)' = Total(CountsOf(d)', OfTuple(t)')
    BY DEF Conserved
  <2> DEFINE f == CountsOf(d)
             h == CountsOf(d)'
             S == OfTuple(t)
  <2>1. /\ IsFiniteSet(S) /\ S \subseteq Held /\ Held \subseteq Conns
        /\ \A e \in Conns : f[e] \in Int /\ f[e] = rx[e][d]
    BY BooksType
  <2>2. \A e \in Conns : h[e] \in Int /\ h[e] = rx'[e][d]
    BY DEF CountsOf, IInv, TypeOK
  <2>3. Owed(t, d) = Total(f, S)
    BY DEF Books, Conserved
  <2>4. OfTuple(t)' = S \ {c}
    <3>1. \A e \in Held \ {c} : rule'[e] = rule[e]
      BY <1>3, <2>1
    <3> QED
      BY <1>2, <3>1 DEF OfTuple, Held
  <2>5. c \in S <=> t = rule[c].tuple
    BY DEF OfTuple, Held
  <2>6. Owed(t, d)' = IF t = rule[c].tuple THEN Owed(t, d) - rx[c][d] ELSE Owed(t, d)
    <3>1. CASE pc[p] = "discard"
      <4>1. unreported'[t][d] = IF t = rule[c].tuple THEN unreported[t][d] - rx[c][d]
                                                     ELSE unreported[t][d]
        BY <1>1, <3>1 DEF Report, IInv, TypeOK
      <4>2. rx[c][d] \in Int /\ unreported[t][d] \in Int
        BY <1>2 DEF IInv, TypeOK
      <4>3. sis # None => sis.count[d] \in Int
        BY DEF Messages, IInv, TypeOK
      <4> QED
        BY <1>1, <4>1, <4>2, <4>3 DEF Owed
    <3>2. CASE pc[p] = "free"
      <4>1. rx[c][d] = 0
        BY <1>0, <3>2 DEF Books, SyncedIsZero, Zero
      <4>2. unreported'[t][d] = unreported[t][d] /\ unreported[t][d] \in Int
        BY <1>1, <3>2 DEF IInv, TypeOK
      <4>3. sis # None => sis.count[d] \in Int
        BY DEF Messages, IInv, TypeOK
      <4> QED
        BY <1>1, <4>1, <4>2, <4>3 DEF Owed
    <3> QED
      BY <1>1, <3>1, <3>2
  <2> HIDE DEF f, h, S
  <2>7. \A e \in S : f[e] \in Int
    BY <2>1
  <2>8. Total(f, S \ {c}) = IF c \in S THEN Total(f, S) - f[c] ELSE Total(f, S)
    <3>1. CASE c \in S
      BY <2>1, <2>7, <3>1, TotalRemove
    <3>2. CASE c \notin S
      <4>1. S \ {c} = S
        BY <3>2
      <4> QED
        BY <3>2, <4>1
    <3> QED
      BY <3>1, <3>2
  <2>9. \A e \in S \ {c} : f[e] \in Int /\ f[e] = h[e]
    BY <1>3, <2>1, <2>2
  <2>10. IsFiniteSet(S \ {c})
    BY <2>1, FS_Subset
  <2>11. Total(f, S \ {c}) = Total(h, S \ {c})
    BY <2>9, <2>10, TotalSame
  <2> QED
    BY <1>2, <2>1, <2>3, <2>4, <2>5, <2>6, <2>8, <2>11 DEF h
<1>6. SyncedIsZero' /\ SisExact'
  <2>1. ASSUME NEW q \in Cpus, pc'[q] = "free" PROVE rx'[own'[q]] = Zero
    <3>1. q # p
      BY <1>1, <2>1, NoneAssumption DEF IInv, TypeOK, SingleOwner, Flushing
    <3>2. pc[q] = "free" /\ own'[q] = own[q]
      BY <1>1, <2>1, <3>1 DEF FlushFree, IInv, TypeOK
    <3>3. own[q] \in Conns /\ own[q] # c
      BY <1>0, <3>1, <3>2, NoneAssumption DEF IInv, TypeOK, SingleOwner, Flushing
    <3> QED
      BY <1>3, <3>2, <3>3 DEF Books, SyncedIsZero
  <2> QED
    BY <1>1, <2>1 DEF Books, SyncedIsZero, SisExact
<1> QED
  BY <1>4, <1>5, <1>6 DEF Books

\* A forwarded packet is counted in its connection.
LEMMA ForwardBooks ==
  ASSUME IInv, Books, NEW m \in Matches, m[1] \in Linked, Forward(m), IInv'
  PROVE  Books'
<1>0. PICK c \in Held, x \in Dirs : m = <<c, x>> /\ heap[c] = "linked"
  BY DEF Matches, Linked, Held
<1>1. /\ rx' = [rx EXCEPT ![c][x] = @ + 1]
      /\ unreported' = [unreported EXCEPT ![rule[c].tuple][x] = @ + 1]
      /\ UNCHANGED <<heap, rule, dev_refs, pc, own, timer_pc, sis>>
  BY <1>0 DEF Forward, tables, callers, timer
<1>2. Held' = Held /\ c \in Conns
  BY <1>1 DEF Held
<1>3. \A e \in Conns : e # c => rx'[e] = rx[e]
  BY <1>1 DEF IInv, TypeOK
<1>4. \A t \in Tuples, d \in Dirs :
        Owed(t, d)' = IF t = rule[c].tuple THEN Owed(t, d) + rx'[c][d] - rx[c][d]
                                           ELSE Owed(t, d)
  <2> SUFFICES ASSUME NEW t \in Tuples, NEW d \in Dirs
               PROVE  Owed(t, d)' = IF t = rule[c].tuple THEN Owed(t, d) + rx'[c][d] - rx[c][d]
                                                         ELSE Owed(t, d)
    OBVIOUS
  <2>1. unreported'[t][d] = IF t = rule[c].tuple /\ d = x THEN unreported[t][d] + 1
                                                          ELSE unreported[t][d]
    BY <1>1 DEF IInv, TypeOK
  <2>2. /\ rx'[c][d] = IF d = x THEN rx[c][d] + 1 ELSE rx[c][d]
        /\ rx[c][d] \in Int /\ unreported[t][d] \in Int
    BY <1>1, <1>2 DEF IInv, TypeOK
  <2>3. sis # None => sis.count[d] \in Int
    BY DEF Messages, IInv, TypeOK
  <2> QED
    BY <1>1, <2>1, <2>2, <2>3 DEF Owed
<1>5. rx' \in [Conns -> [Dirs -> Nat]]
  BY DEF IInv, TypeOK
<1>6. Conserved'
  BY <1>1, <1>2, <1>3, <1>4, <1>5, CountChange DEF Books
<1>7. Balanced'
  BY <1>1, <1>2, SameBalanced DEF Books
<1>8. SyncedIsZero'
  <2>1. ASSUME NEW q \in Cpus, pc[q] = "free" PROVE own[q] \in Conns /\ own[q] # c
    BY <1>0, <2>1, NoneAssumption DEF IInv, TypeOK, SingleOwner, Flushing
  <2> QED
    BY <1>1, <1>3, <2>1 DEF Books, SyncedIsZero
<1>9. SisExact'
  BY <1>1 DEF Books, SisExact
<1> QED
  BY <1>6, <1>7, <1>8, <1>9 DEF Books

\* The head of the active list moves its packets into the message of the timer.
LEMMA SyncHeadBooks ==
  ASSUME IInv, Books, NEW q, timer_pc # "call", active_list # <<>>, SyncHead(q),
         UNCHANGED <<tables, callers, unreported>>, IInv'
  PROVE  Books'
<1>0. PICK c \in Held : c = Head(active_list)[1] /\ heap[c] = "linked"
  BY HeadIsLinked DEF Held, Linked
<1>1. /\ rx' = [rx EXCEPT ![c] = Zero]
      /\ sis' = [tuple |-> rule[c].tuple, count |-> rx[c]]
      /\ timer_pc' = "call" /\ sis = None
      /\ UNCHANGED <<heap, rule, dev_refs, pc, own, unreported>>
  BY <1>0 DEF SyncHead, ResetCounts, SyncMessage, tables, callers, Books, SisExact
<1>2. Held' = Held /\ c \in Conns
  BY <1>1 DEF Held
<1>3. \A e \in Conns : rx'[e] = IF e = c THEN Zero ELSE rx[e]
  BY <1>1 DEF IInv, TypeOK
<1>4. sis' # None
  BY <1>1 DEF IInv, TypeOK
<1>5. \A t \in Tuples, d \in Dirs :
        Owed(t, d)' = IF t = rule[c].tuple THEN Owed(t, d) + rx'[c][d] - rx[c][d]
                                           ELSE Owed(t, d)
  <2> SUFFICES ASSUME NEW t \in Tuples, NEW d \in Dirs
               PROVE  Owed(t, d)' = IF t = rule[c].tuple THEN Owed(t, d) + rx'[c][d] - rx[c][d]
                                                         ELSE Owed(t, d)
    OBVIOUS
  <2>1. Owed(t, d) = unreported[t][d] /\ unreported[t][d] \in Int
    BY <1>1 DEF Owed, IInv, TypeOK
  <2>2. Owed(t, d)' = unreported[t][d] - (IF rule[c].tuple = t THEN rx[c][d] ELSE 0)
    BY <1>1, <1>4 DEF Owed
  <2>3. rx'[c][d] = 0 /\ rx[c][d] \in Int
    BY <1>2, <1>3 DEF Zero, IInv, TypeOK
  <2> QED
    BY <2>1, <2>2, <2>3
<1>6. rx' \in [Conns -> [Dirs -> Nat]]
  BY DEF IInv, TypeOK
<1>7. Conserved'
  BY <1>1, <1>2, <1>3, <1>5, <1>6, CountChange DEF Books
<1>8. Balanced'
  BY <1>1, <1>2, SameBalanced DEF Books
<1>9. SyncedIsZero' /\ SisExact'
  <2>1. \A p \in Cpus : pc[p] = "free" => own[p] \in Conns
    BY DEF IInv, TypeOK, SingleOwner, Flushing
  <2> QED
    BY <1>1, <1>3, <2>1 DEF Books, SyncedIsZero, SisExact
<1> QED
  BY <1>7, <1>8, <1>9 DEF Books

\* The callback takes the message of the timer.
LEMMA SyncCallBooks ==
  ASSUME IInv, Books, SyncCall
  PROVE  Books'
<1>1. /\ UNCHANGED <<heap, rule, dev_refs, rx, pc, own>>
      /\ sis # None /\ sis' = None /\ timer_pc' = "relock"
      /\ unreported' = Report(sis.count, sis.tuple)
  BY DEF SyncCall, tables, counts, callers, IInv, TypeOK
<1>2. Held' = Held
  BY <1>1 DEF Held
<1>3. \A t \in Tuples, d \in Dirs : Owed(t, d)' = Owed(t, d)
  <2> SUFFICES ASSUME NEW t \in Tuples, NEW d \in Dirs PROVE Owed(t, d)' = Owed(t, d)
    OBVIOUS
  <2>1. unreported[t][d] \in Int /\ sis.count[d] \in Int
    BY <1>1 DEF Messages, IInv, TypeOK
  <2>2. unreported'[t][d] = IF t = sis.tuple THEN unreported[t][d] - sis.count[d]
                                             ELSE unreported[t][d]
    BY <1>1 DEF Report, IInv, TypeOK
  <2> QED
    BY <1>1, <2>1, <2>2 DEF Owed
<1>4. Balanced' /\ Conserved'
  BY <1>1, <1>2, <1>3, SameBalanced, SameConserved DEF Books
<1>5. SyncedIsZero' /\ SisExact'
  BY <1>1 DEF Books, SyncedIsZero, SisExact
<1> QED
  BY <1>4, <1>5 DEF Books

\* A step that is none of these keeps the books: it is a request or a test of the
\* context that takes it, and touches no connection.
LEMMA StayBooks ==
  ASSUME IInv, Books, UNCHANGED <<tables, rx, timer_pc, sis, unreported>>,
         NEW p \in Cpus, NEW next \in PcValues \ {"free"},
         pc' = [pc EXCEPT ![p] = next], own' = own
  PROVE  Books'
<1>1. timer_pc' = timer_pc /\ UNCHANGED <<heap, rule, dev_refs, rx, unreported, sis>>
  BY DEF tables
<1>2. Held' = Held
  BY <1>1 DEF Held
<1>3. \A q \in Cpus : pc'[q] = "free" => pc[q] = "free" /\ own'[q] = own[q]
  BY DEF IInv, TypeOK
<1> QED
  BY <1>1, <1>2, <1>3, QuietBooks

\* Every packet handler keeps the books.
LEMMA PacketBooks ==
  ASSUME IInv, Books, NEW p \in Cpus, Packet(p), IInv'
  PROVE  Books'
<1>1. PICK dev \in Devs, t \in Tuples :
          RecvUdp(p, dev, t) \/ RecvTcp(p, dev, t) \/ RecvIcmp(p, dev, t)
  BY DEF Packet
<1>2. PICK m \in FindMatch(dev, t) : Forward(m) \/ FlushOnPacket(p, m)
  BY <1>1 DEF RecvUdp, RecvTcp, RecvIcmp
<1>3. m \in Matches /\ m[1] \in Linked
  BY FoundMatchIsLinked
<1>4. CASE Forward(m)
  BY <1>3, <1>4, ForwardBooks
<1>5. CASE FlushOnPacket(p, m)
  BY <1>3, <1>5, RemoveBooks DEF FlushOnPacket, timer
<1> QED
  BY <1>2, <1>4, <1>5

\* A round of destroy_all_rules_for_dev keeps the books.
LEMMA SweepRoundBooks ==
  ASSUME IInv, Books, NEW p \in Cpus, NEW devs \in SUBSET Devs, SweepRound(p, devs),
         UNCHANGED <<timer, unreported>>
  PROVE  Books'
<1>1. CASE \E c \in Linked : StartFlush(p, c)
  BY <1>1, RemoveBooks DEF timer
<1>2. CASE /\ pc' = [pc EXCEPT ![p] = "idle"]
           /\ UNCHANGED <<tables, counts, own>>
  BY <1>2, StayBooks DEF timer, counts, PcValues
<1> QED
  BY <1>1, <1>2, SweepRoundCases

\* Every request of a connection manager keeps the books.
LEMMA RequestBooks ==
  ASSUME IInv, Books, NEW p \in Cpus, Request(p)
  PROVE  Books'
<1>1. CASE \E s \in Sics : CreateRuleCheck(p, s)
  BY <1>1, StayBooks DEF CreateRuleCheck, counts, timer, PcValues
<1>2. CASE \E t \in Tuples : DestroyRule(p, t)
  <2>1. PICK c \in Linked : StartFlush(p, c) /\ UNCHANGED <<timer, unreported>>
    BY <1>2 DEF DestroyRule, FindConnection
  <2> QED
    BY <2>1, RemoveBooks DEF timer
<1>3. CASE \E devs \in SweepArgs : DestroyAllRulesForDev(p, devs)
  <2>1. PICK devs \in SUBSET Devs : DestroyAllRulesForDev(p, devs)
    BY <1>3, HotplugAssumption DEF SweepArgs
  <2> QED
    BY <2>1, SweepRoundBooks DEF DestroyAllRulesForDev
<1> QED
  BY <1>1, <1>2, <1>3 DEF Request

\* Whatever a context inside the engine does next keeps the books.
LEMMA ContinueBooks ==
  ASSUME IInv, Books, NEW p \in Cpus, Continue(p), IInv'
  PROVE  Books'
<1>1. CASE CreateRuleFail(p)
  BY <1>1, StayBooks DEF CreateRuleFail, counts, timer, PcValues
<1>2. CASE FlushReadCallback(p)
  <2>1. PICK next \in {"sync", "discard"} : pc' = [pc EXCEPT ![p] = next]
    BY <1>2 DEF FlushReadCallback
  <2>2. next \in PcValues \ {"free"}
    BY DEF PcValues, Flushing
  <2> QED
    BY <1>2, <2>1, <2>2, StayBooks DEF FlushReadCallback, counts, timer
<1>3. CASE AnotherRound(p)
  <2>1. sweep[p] \in SUBSET Devs
    BY DEF IInv, TypeOK
  <2> QED
    BY <1>3, <2>1, SweepRoundBooks DEF AnotherRound
<1> QED
  BY <1>1, <1>2, <1>3, InsertBooks, FlushSyncBooks, FlushFreeBooks DEF Continue

\* Every step of the timer keeps the books.
LEMMA TimerBooks ==
  ASSUME IInv, Books, Timer, IInv'
  PROVE  Books'
<1>1. CASE SyncCall
  BY <1>1, SyncCallBooks
<1>2. CASE \/ SyncStart
           \/ timer_pc # "call" /\ SyncDone /\ UNCHANGED <<tables, callers, env, unreported>>
  <2>1. /\ UNCHANGED <<heap, rule, dev_refs, rx, unreported, sis, pc, own>>
        /\ timer_pc' # "call" /\ timer_pc # "call"
    BY <1>2 DEF SyncStart, SyncDone, tables, counts, callers
  <2>2. Held' = Held
    BY <2>1 DEF Held
  <2> QED
    BY <2>1, <2>2, QuietBooks
<1>3. CASE \E q : /\ timer_pc # "call" /\ active_list # <<>> /\ SyncHead(q)
                  /\ UNCHANGED <<tables, callers, env, unreported>>
  BY <1>3, SyncHeadBooks
<1> QED
  BY <1>1, <1>2, <1>3 DEF Timer, SyncEnter, SyncRelock, SyncWalk

\* The books are kept by every step.
LEMMA NextBooks == IInv /\ Books /\ [Next]_vars /\ IInv' => Books'
<1> SUFFICES ASSUME IInv, Books, [Next]_vars, IInv' PROVE Books'
  OBVIOUS
<1>1. CASE UNCHANGED <<tables, counts, callers, timer, unreported>>
  <2>1. UNCHANGED <<heap, rule, dev_refs, rx, unreported, sis, timer_pc, pc, own>>
    BY <1>1 DEF tables, counts, callers, timer
  <2>2. Held' = Held
    BY <2>1 DEF Held
  <2> QED
    BY <2>1, <2>2, QuietBooks
<1>2. CASE \/ \E b \in BOOLEAN : RegisterSyncRuleCallback(b)
           \/ \E d \in Hotplug : UnregisterDevice(d)
  BY <1>1, <1>2 DEF RegisterSyncRuleCallback, UnregisterDevice
<1>3. CASE UNCHANGED vars
  BY <1>1, <1>3 DEF vars
<1> QED
  BY <1>2, <1>3, PacketBooks, RequestBooks, ContinueBooks, TimerBooks DEF Next

\* Only the critical section of the timer that hands over to the callback makes a
\* message, and the callback takes it.
LEMMA SisStep == SisExact /\ [Next]_vars => SisExact'
<1> SUFFICES ASSUME SisExact, [Next]_vars PROVE SisExact'
  OBVIOUS
<1>1. CASE UNCHANGED timer
  BY <1>1 DEF SisExact, timer
<1>2. CASE Timer
  BY <1>2 DEF SisExact, Timer, SyncStart, SyncEnter, SyncCall, SyncRelock, SyncWalk,
     SyncDone, SyncHead
<1>3. CASE \E p \in Cpus : Packet(p)
  BY <1>1, <1>3 DEF Packet, RecvUdp, RecvTcp, RecvIcmp, Forward, FlushOnPacket
<1>4. CASE \E p \in Cpus : Request(p)
  BY <1>1, <1>4 DEF Request, CreateRuleCheck, DestroyRule, DestroyAllRulesForDev
<1>5. CASE \E p \in Cpus : Continue(p)
  BY <1>1, <1>5 DEF Continue, CreateRuleFail, CreateRuleInsert, FillIn, FlushReadCallback,
     FlushSync, FlushFree, AnotherRound
<1>6. CASE \/ \E b \in BOOLEAN : RegisterSyncRuleCallback(b)
           \/ \E d \in Hotplug : UnregisterDevice(d)
  BY <1>1, <1>6 DEF RegisterSyncRuleCallback, UnregisterDevice
<1>7. CASE UNCHANGED vars
  BY <1>1, <1>7 DEF vars
<1> QED
  BY <1>2, <1>3, <1>4, <1>5, <1>6, <1>7 DEF Next

\* The empty engine has empty books.
LEMMA InitBooks == Init => Books
<1> SUFFICES ASSUME Init PROVE Books
  OBVIOUS
<1>1. Held = {} /\ \A t : OfTuple(t) = {}
  BY DEF Init, OfTuple, Held
<1>2. Balanced
  BY <1>1, TotalEmpty DEF Init, Balanced
<1>3. \A t \in Tuples, d \in Dirs : Owed(t, d) = 0
  BY DEF Init, Owed, Zero
<1>4. Conserved
  BY <1>1, <1>3, TotalEmpty DEF Conserved
<1>5. SyncedIsZero /\ SisExact
  BY DEF Init, SyncedIsZero, SisExact
<1> QED
  BY <1>2, <1>4, <1>5 DEF Books

\* The books are kept, whatever the interleaving of packets, requests, flushes and
\* the periodic sync.
LEMMA BooksKept == Spec => [](IInv /\ Books)
<1> QED
  BY InitIInv, InitBooks, NextIInv, NextBooks, PTL DEF Spec

\* The engine holds a device once for every direction of a connection that uses it,
\* from the insertion until the connection has been flushed: no hold is lost or left
\* behind when sweeps, flushes and creations interleave.
THEOREM DevRefsStayBalanced == Spec => []DevRefsBalanced
<1>1. IInv /\ Books => DevRefsBalanced
  BY UsesTotal DEF Books, Balanced, DevRefsBalanced, Held
<1> QED
  BY <1>1, BooksKept, PTL

\* Every packet that was forwarded and is not reported yet is counted in one
\* connection of its tuple or in the message of the timer: syncs that race with
\* flushes and with the re-creation of a rule neither lose a packet nor report it
\* twice.
THEOREM PacketsStayConserved == Spec => []PacketsConserved
<1>1. ASSUME IInv, Books PROVE PacketsConserved
  <2> SUFFICES ASSUME NEW t \in Tuples, NEW d \in Dirs
               PROVE  unreported[t][d] =
                        MapThenSumSet(LAMBDA c : rx[c][d],
                                      {c \in Conns : heap[c] # "free" /\ rule[c].tuple = t})
                        + (IF sis # None /\ sis.tuple = t THEN sis.count[d] ELSE 0)
    BY DEF PacketsConserved
  <2>1. Owed(t, d) = MapThenSumSet(LAMBDA c : rx[c][d],
                                   {c \in Conns : heap[c] # "free" /\ rule[c].tuple = t})
    BY <1>1, CountsTotal DEF Books, Conserved, OfTuple
  <2>2. unreported[t][d] \in Int /\ (sis # None => sis.count[d] \in Int)
    BY <1>1 DEF Messages, IInv, TypeOK
  <2> QED
    BY <2>1, <2>2 DEF Owed
<1> QED
  BY <1>1, BooksKept, PTL
=============================================================================
