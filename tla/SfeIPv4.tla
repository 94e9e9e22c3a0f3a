------------------------------ MODULE SfeIPv4 ------------------------------
(***************************************************************************)
(* The IPv4 shortcut forwarding engine (sfe_ipv4.c): the table of          *)
(* accelerated connections that packets are forwarded from, the rule       *)
(* operations of the connection managers, and the periodic synchronisation *)
(* that reports traffic back to them.                                      *)
(*                                                                         *)
(* All tables are protected by one spinlock, si->lock.  A critical section *)
(* is one action here; what the code does between an unlock and the next   *)
(* lock is an action of its own, taken by the context (Cpus, the timer)    *)
(* that is between the two.  Every context can be preempted there by all   *)
(* the others.                                                             *)
(*                                                                         *)
(* A 5-tuple is one value.  A connection is matched in its original        *)
(* direction by (src_dev, tuple) and in its reply direction by             *)
(* (dest_dev, reply), where reply is the translated and reversed tuple.    *)
(***************************************************************************)
EXTENDS Integers, FiniteSets, SequencesExt

CONSTANTS
    Conns,      \* sfe_ipv4_connection objects the allocator can hand out
    Cpus,       \* contexts that run operations of the engine
    Devs,       \* net devices
    Tuples,     \* 5-tuples
    TcpTuples,  \* the tuples whose protocol is TCP
    Sics,       \* sfe_connection_create requests
    Hotplug,    \* devices that may go down and be unregistered meanwhile
    SyncShare,  \* divisor of the quota of a periodic sync (64 in the code)
    MaxRx,      \* bound on a per-period packet counter
    None

ASSUME SicsAssumption ==
    Sics \subseteq [tuple : Tuples, reply : Tuples, src_dev : Devs, dest_dev : Devs]
ASSUME HotplugAssumption == Hotplug \subseteq Devs
ASSUME FiniteAssumption == IsFiniteSet(Conns)
ASSUME BoundsAssumption == SyncShare \in Nat \ {0} /\ MaxRx \in Nat

Dirs     == {"original", "reply"}
Messages == [tuple : Tuples, count : [Dirs -> Nat]]     \* sfe_connection_sync

ASSUME TimerAssumption == "timer" \notin Cpus
ASSUME NoneAssumption == None \notin Conns \cup Sics \cup Messages

VARIABLES
    heap,               \* is an object free, linked in the tables, or unlinked
    rule,               \* the create request a connection was filled in from
    rx,                 \* rx_packet_count of its two connection matches
    active,             \* the active flag of its two connection matches
    all_connections,    \* the "all connections" list, head first
    active_list,        \* the active list, head first
    num_connections,
    dev_refs,           \* holds the engine has on each device
    sync_rule_callback, \* is a callback registered
    registered,         \* devices whose reg_state is NETREG_REGISTERED
    pc,                 \* what each context does next
    own,                \* the unlinked connection a context is flushing
    request,            \* the create request a context has checked
    sweep,              \* the devices a destroy_all_rules_for_dev call sweeps
    timer_pc,           \* what the periodic sync does next
    quota,              \* matches the running sync may still visit
    sis,                \* the sync message the timer is about to deliver
    unreported          \* ghost: packets forwarded and not yet reported

tables  == <<heap, rule, all_connections, num_connections, dev_refs>>
counts  == <<rx, active, active_list>>
callers == <<pc, own, request, sweep>>
timer   == <<timer_pc, quota, sis>>
env     == <<sync_rule_callback, registered>>
vars    == <<tables, counts, callers, timer, env, unreported>>

Matches == Conns \X Dirs
Zero    == [d \in Dirs |-> 0]

Flushing == {"flush", "sync", "free", "discard"}
PcValues == {"idle", "create", "sweep"} \cup Flushing

TypeOK ==
    /\ heap \in [Conns -> {"free", "linked", "unlinked"}]
    /\ rule \in [Conns -> Sics \cup {None}]
    /\ rx \in [Conns -> [Dirs -> Nat]]
    /\ active \in [Matches -> BOOLEAN]
    /\ all_connections \in Seq(Conns)
    /\ active_list \in Seq(Matches)
    /\ num_connections \in Nat
    /\ dev_refs \in [Devs -> Int]
    /\ sync_rule_callback \in BOOLEAN
    /\ registered \subseteq Devs
    /\ pc \in [Cpus -> PcValues]
    /\ own \in [Cpus -> Conns \cup {None}]
    /\ request \in [Cpus -> Sics \cup {None}]
    /\ sweep \in [Cpus -> SUBSET Devs]
    /\ timer_pc \in {"armed", "enter", "call", "relock"}
    /\ quota \in Nat
    /\ sis \in Messages \cup {None}
    /\ unreported \in [Tuples -> [Dirs -> Int]]
    /\ \A c \in Conns : rule[c] = None <=> heap[c] = "free"
    /\ \A p \in Cpus : pc[p] = "create" => request[p] # None
    /\ timer_pc = "call" => sis # None

Init ==
    /\ heap = [c \in Conns |-> "free"]
    /\ rule = [c \in Conns |-> None]
    /\ rx = [c \in Conns |-> Zero]
    /\ active = [m \in Matches |-> FALSE]
    /\ all_connections = <<>>
    /\ active_list = <<>>
    /\ num_connections = 0
    /\ dev_refs = [d \in Devs |-> 0]
    /\ sync_rule_callback = FALSE
    /\ registered = Devs
    /\ pc = [p \in Cpus |-> "idle"]
    /\ own = [p \in Cpus |-> None]
    /\ request = [p \in Cpus |-> None]
    /\ sweep = [p \in Cpus |-> {}]
    /\ timer_pc = "armed"
    /\ quota = 0
    /\ sis = None
    /\ unreported = [t \in Tuples |-> Zero]

-----------------------------------------------------------------------------
(* Lookups.                                                                *)

Linked == {c \in Conns : heap[c] = "linked"}

\* The connection hash is keyed by the original tuple only, not by device.
FindConnection(t) == {c \in Linked : rule[c].tuple = t}

Key(c, d) == IF d = "original" THEN <<rule[c].src_dev, rule[c].tuple>>
                               ELSE <<rule[c].dest_dev, rule[c].reply>>

CounterMatch(m) == <<m[1], IF m[2] = "original" THEN "reply" ELSE "original">>

\* A hash chain is walked from its head, and both matches of a connection are
\* pushed on the head, the reply one last: among matches with the same key, the
\* most recent one is found.  Moving a match that was hit to the head of its
\* chain never passes an older match over a newer one with the same key.
FindMatch(dev, t) ==
    LET hits == {m \in Matches : /\ m[1] \in Linked
                                 /\ Key(m[1], m[2]) = <<dev, t>>}
        Age(m) == CHOOSE i \in DOMAIN all_connections : all_connections[i] = m[1]
    IN  {m \in hits : \A n \in hits : \/ Age(n) < Age(m)
                                      \/ n[1] = m[1] /\ (n = m \/ m[2] = "reply")}

-----------------------------------------------------------------------------
(* Linking and unlinking a connection, under si->lock.                     *)

Uses(s, d) == (IF s.src_dev = d THEN 1 ELSE 0) + (IF s.dest_dev = d THEN 1 ELSE 0)

HoldDevs(s) == [d \in Devs |-> dev_refs[d] + Uses(s, d)]

\* Wrong: the device of the reply direction is not released.
PutSrcDev(s) == [dev_refs EXCEPT ![s.src_dev] = @ - 1]

PutDevs(s) == [d \in Devs |-> dev_refs[d] - Uses(s, d)]

\* Wrong: the connection is not counted.
InsertConnectionUncounted(c, s) ==
    /\ heap' = [heap EXCEPT ![c] = "linked"]
    /\ rule' = [rule EXCEPT ![c] = s]
    /\ all_connections' = Append(all_connections, c)
    /\ dev_refs' = HoldDevs(s)
    /\ UNCHANGED num_connections

InsertConnection(c, s) ==
    /\ heap' = [heap EXCEPT ![c] = "linked"]
    /\ rule' = [rule EXCEPT ![c] = s]
    /\ all_connections' = Append(all_connections, c)
    /\ num_connections' = num_connections + 1
    /\ dev_refs' = HoldDevs(s)

Deactivate(list, m) == IF active[m] THEN RemoveFirst(list, m) ELSE list

\* The active flags of the removed matches keep their value.
RemoveConnection(c) ==
    /\ heap' = [heap EXCEPT ![c] = "unlinked"]
    /\ all_connections' = RemoveFirst(all_connections, c)
    /\ num_connections' = num_connections - 1
    /\ active_list' = Deactivate(Deactivate(active_list, <<c, "reply">>), <<c, "original">>)
    /\ UNCHANGED <<rule, dev_refs, rx, active>>

\* A context that removed a connection flushes it after it has dropped the lock.
StartFlush(p, c) ==
    /\ RemoveConnection(c)
    /\ pc' = [pc EXCEPT ![p] = "flush"]
    /\ own' = [own EXCEPT ![p] = c]

\* gen_sync fills in a message with both counters of c, which restart from zero.
SyncMessage(c) == [tuple |-> rule[c].tuple, count |-> rx[c]]

\* Wrong: the counter of the reply match goes on.
ResetOriginal(c) == rx' = [rx EXCEPT ![c]["original"] = 0]

ResetCounts(c) == rx' = [rx EXCEPT ![c] = Zero]

Report(count, t) == [unreported EXCEPT ![t] = [d \in Dirs |-> @[d] - count[d]]]

-----------------------------------------------------------------------------
(* Operations of the connection managers.                                  *)

RegisterSyncRuleCallback(b) ==
    /\ sync_rule_callback' = b
    /\ UNCHANGED <<tables, counts, callers, timer, registered, unreported>>

\* reg_state is tested before the lock is taken.  -EINVAL changes nothing.
CreateRuleCheck(p, s) ==
    /\ pc[p] = "idle"
    /\ {s.src_dev, s.dest_dev} \subseteq registered
    /\ pc' = [pc EXCEPT ![p] = "create"]
    /\ request' = [request EXCEPT ![p] = s]
    /\ UNCHANGED <<tables, counts, own, sweep, timer, env, unreported>>

\* -EADDRINUSE (which only refreshes the TCP windows) or -ENOMEM.
CreateRuleFail(p) ==
    /\ pc[p] = "create"
    /\ pc' = [pc EXCEPT ![p] = "idle"]
    /\ request' = [request EXCEPT ![p] = None]
    /\ UNCHANGED <<tables, counts, own, sweep, timer, env, unreported>>

\* The allocated object is filled in and linked.
FillIn(p, c) ==
    /\ heap[c] = "free"
    /\ InsertConnection(c, request[p])
    /\ rx' = [rx EXCEPT ![c] = Zero]
    /\ active' = [m \in Matches |-> m[1] # c /\ active[m]]
    /\ pc' = [pc EXCEPT ![p] = "idle"]
    /\ request' = [request EXCEPT ![p] = None]
    /\ UNCHANGED <<active_list, own, sweep, timer, env, unreported>>

\* Wrong: no look-up under the lock that covers the insertion.
CreateRuleInsertUnchecked(p, c) ==
    /\ pc[p] = "create"
    /\ FillIn(p, c)

CreateRuleInsert(p, c) ==
    /\ pc[p] = "create"
    /\ FindConnection(request[p].tuple) = {}
    /\ FillIn(p, c)

\* A miss changes nothing.
DestroyRule(p, t) ==
    /\ pc[p] = "idle"
    /\ \E c \in FindConnection(t) : StartFlush(p, c)
    /\ UNCHANGED <<request, sweep, timer, env, unreported>>

\* One round: the first connection of the list that uses a swept device is
\* removed and flushed, then the list is scanned again from its head.
SweepRound(p, devs) ==
    LET hits == {i \in DOMAIN all_connections :
                   LET s == rule[all_connections[i]]
                   IN  s.src_dev \in devs \/ s.dest_dev \in devs}
    IN  IF hits = {}
        THEN /\ pc' = [pc EXCEPT ![p] = "idle"]
             /\ sweep' = [sweep EXCEPT ![p] = {}]
             /\ UNCHANGED <<tables, counts, own>>
        ELSE /\ StartFlush(p, all_connections[Min(hits)])
             /\ sweep' = [sweep EXCEPT ![p] = devs]

\* The argument: one device, or Devs for the NULL that matches every connection.
SweepArgs == {{d} : d \in Hotplug} \cup {Devs}

DestroyAllRulesForDev(p, devs) ==
    /\ pc[p] = "idle"
    /\ SweepRound(p, devs)
    /\ UNCHANGED <<request, timer, env, unreported>>

\* Wrong: the scan is not started again, only one connection is removed.
AnotherRoundStops(p) ==
    /\ pc[p] = "sweep"
    /\ pc' = [pc EXCEPT ![p] = "idle"]
    /\ sweep' = [sweep EXCEPT ![p] = {}]
    /\ UNCHANGED <<tables, counts, own, request, timer, env, unreported>>

AnotherRound(p) ==
    /\ pc[p] = "sweep"
    /\ SweepRound(p, sweep[p])
    /\ UNCHANGED <<request, timer, env, unreported>>

-----------------------------------------------------------------------------
(* sfe_ipv4_flush_sfe_ipv4_connection: runs without the lock, on a         *)
(* connection that only this context can still reach.                      *)

\* Wrong: without a callback the flush returns before it frees the connection.
FlushReadCallbackReturns(p) ==
    /\ pc[p] = "flush"
    /\ pc' = [pc EXCEPT ![p] = IF sync_rule_callback THEN "sync" ELSE "idle"]
    /\ UNCHANGED <<tables, counts, own, request, sweep, timer, env, unreported>>

FlushReadCallback(p) ==
    /\ pc[p] = "flush"
    /\ pc' = [pc EXCEPT ![p] = IF sync_rule_callback THEN "sync" ELSE "discard"]
    /\ UNCHANGED <<tables, counts, own, request, sweep, timer, env, unreported>>

FlushSync(p) ==
    /\ pc[p] = "sync"
    /\ ResetCounts(own[p])
    /\ unreported' = Report(rx[own[p]], rule[own[p]].tuple)
    /\ pc' = [pc EXCEPT ![p] = "free"]
    /\ UNCHANGED <<tables, active, active_list, own, request, sweep, timer, env>>

\* Without a callback the counts are lost with the connection.
FlushFree(p) ==
    LET c == own[p]
    IN  /\ pc[p] \in {"free", "discard"}
        /\ heap' = [heap EXCEPT ![c] = "free"]
        /\ rule' = [rule EXCEPT ![c] = None]
        /\ rx' = [rx EXCEPT ![c] = Zero]
        /\ active' = [m \in Matches |-> m[1] # c /\ active[m]]
        /\ dev_refs' = PutDevs(rule[c])
        /\ unreported' = IF pc[p] = "discard" THEN Report(rx[c], rule[c].tuple)
                                              ELSE unreported
        /\ pc' = [pc EXCEPT ![p] = IF sweep[p] = {} THEN "idle" ELSE "sweep"]
        /\ own' = [own EXCEPT ![p] = None]
        /\ UNCHANGED <<all_connections, num_connections, active_list, request, sweep, timer, env>>

-----------------------------------------------------------------------------
(* Packets.                                                                *)

\* Wrong: one listed match is taken to do for the connection.
ActivateConnection(m) ==
    IF active[m] \/ active[CounterMatch(m)]
    THEN UNCHANGED <<active, active_list>>
    ELSE /\ active' = [active EXCEPT ![m] = TRUE]
         /\ active_list' = Append(active_list, m)

Activate(m) ==
    /\ active' = [active EXCEPT ![m] = TRUE]
    /\ active_list' = IF active[m] THEN active_list ELSE Append(active_list, m)

\* The packet passes every test: it is counted and its match is active.
Forward(m) ==
    /\ rx[m[1]][m[2]] < MaxRx
    /\ rx' = [rx EXCEPT ![m[1]][m[2]] = @ + 1]
    /\ Activate(m)
    /\ unreported' = [unreported EXCEPT ![rule[m[1]].tuple][m[2]] = @ + 1]
    /\ UNCHANGED <<tables, callers, timer, env>>

\* Wrong: the connection is removed and nobody flushes it.
FlushOnPacketLeaks(p, m) ==
    /\ RemoveConnection(m[1])
    /\ UNCHANGED <<callers, timer, env, unreported>>

\* The packet fails a test that also takes the connection out of the fast path.
FlushOnPacket(p, m) ==
    /\ StartFlush(p, m[1])
    /\ UNCHANGED <<request, sweep, timer, env, unreported>>

\* Flush: IP options or first fragment, ttl < 2, larger than the MTU.  A packet
\* without a match, or whose clone cannot be unshared, changes nothing.
RecvUdp(p, dev, t) ==
    /\ t \notin TcpTuples
    /\ pc[p] = "idle"
    /\ \E m \in FindMatch(dev, t) : Forward(m) \/ FlushOnPacket(p, m)

\* Flush: as for UDP, SYN/RST/FIN or no ACK, any failed window or option test.
RecvTcp(p, dev, t) ==
    /\ t \in TcpTuples
    /\ pc[p] = "idle"
    /\ \E m \in FindMatch(dev, t) : Forward(m) \/ FlushOnPacket(p, m)

\* An ICMP error about a packet of the reversed tuple sent through dev.
RecvIcmp(p, dev, t) ==
    /\ pc[p] = "idle"
    /\ \E m \in FindMatch(dev, t) : FlushOnPacket(p, m)

-----------------------------------------------------------------------------
(* The periodic sync timer.                                                *)

\* Without a callback the timer is only armed again.
SyncStart ==
    /\ timer_pc = "armed"
    /\ sync_rule_callback
    /\ timer_pc' = "enter"
    /\ UNCHANGED <<tables, counts, callers, quota, sis, env, unreported>>

SyncDone ==
    /\ timer_pc' = "armed"
    /\ quota' = 0
    /\ UNCHANGED <<counts, sis>>

\* Wrong: the counter match loses its flag but not its place in the list.
UnlistHead(m) == Tail(active_list)

\* The head m of the list leaves it, and its counter match if that is listed too.
UnlistPair(m) == Tail(Deactivate(active_list, CounterMatch(m)))

SyncHead(q) ==
    LET m == Head(active_list)
    IN  /\ active_list' = UnlistPair(m)
        /\ active' = [active EXCEPT ![m] = FALSE, ![CounterMatch(m)] = FALSE]
        /\ sis' = SyncMessage(m[1])
        /\ ResetCounts(m[1])
        /\ quota' = q - 1
        /\ timer_pc' = "call"

SyncWalk(q) == IF q = 0 \/ active_list = <<>> THEN SyncDone ELSE SyncHead(q)

\* Wrong: the quota is rounded down.
SyncEnterRoundsDown ==
    /\ timer_pc = "enter"
    /\ SyncWalk(num_connections \div SyncShare)
    /\ UNCHANGED <<tables, callers, env, unreported>>

SyncEnter ==
    /\ timer_pc = "enter"
    /\ SyncWalk((num_connections + SyncShare - 1) \div SyncShare)
    /\ UNCHANGED <<tables, callers, env, unreported>>

\* The callback runs without the lock.
SyncCall ==
    /\ timer_pc = "call"
    /\ unreported' = Report(sis.count, sis.tuple)
    /\ sis' = None
    /\ timer_pc' = "relock"
    /\ UNCHANGED <<tables, counts, callers, quota, env>>

SyncRelock ==
    /\ timer_pc = "relock"
    /\ SyncWalk(quota)
    /\ UNCHANGED <<tables, callers, env, unreported>>

-----------------------------------------------------------------------------
\* The kernel starts to unregister a device.
UnregisterDevice(d) ==
    /\ registered' = registered \ {d}
    /\ UNCHANGED <<tables, counts, callers, timer, sync_rule_callback, unreported>>

Packet(p) == \E dev \in Devs, t \in Tuples :
                RecvUdp(p, dev, t) \/ RecvTcp(p, dev, t) \/ RecvIcmp(p, dev, t)

Request(p) ==
    \/ \E s \in Sics : CreateRuleCheck(p, s)
    \/ \E t \in Tuples : DestroyRule(p, t)
    \/ \E devs \in SweepArgs : DestroyAllRulesForDev(p, devs)

\* What a context that is inside the engine does next.
Continue(p) ==
    \/ CreateRuleFail(p)
    \/ \E c \in Conns : CreateRuleInsert(p, c)
    \/ FlushReadCallback(p)
    \/ FlushSync(p)
    \/ FlushFree(p)
    \/ AnotherRound(p)

Timer == SyncStart \/ SyncEnter \/ SyncCall \/ SyncRelock

Next ==
    \/ \E p \in Cpus : Packet(p) \/ Request(p) \/ Continue(p)
    \/ Timer
    \/ \E b \in BOOLEAN : RegisterSyncRuleCallback(b)
    \/ \E d \in Hotplug : UnregisterDevice(d)

Spec == Init /\ [][Next]_vars

\* A context inside the engine runs on: it spins only on si->lock, which is held
\* for bounded critical sections.  The timer is always armed again.  Packets,
\* requests and the registration of the callback are up to the environment.
Fairness ==
    /\ \A p \in Cpus : WF_vars(Continue(p))
    /\ WF_vars(Timer)

FairSpec == Spec /\ Fairness

-----------------------------------------------------------------------------
(* Properties.                                                             *)

\* The connection list, the set of linked objects and the counter the sync
\* quota is computed from agree after every interleaving of insertions and
\* removals (insert and remove_sfe_ipv4_connection).
TablesAgree ==
    /\ IsInjective(all_connections)
    /\ ToSet(all_connections) = Linked
    /\ num_connections = Len(all_connections)

\* Two rules never share an original tuple, though the devices a request was
\* checked against may have changed before it is inserted (create_rule).
UniqueTuples ==
    \A c, e \in Linked : rule[c].tuple = rule[e].tuple => c = e

\* The active list holds each flagged match of a linked connection once and
\* nothing else: no match of a removed or freed connection can be reached from
\* it by the timer (recv, remove_connection_match, periodic_sync).
ActiveListExact ==
    /\ IsInjective(active_list)
    /\ ToSet(active_list) = {m \in Matches : m[1] \in Linked /\ active[m]}

\* A match that counted packets since its last sync is on the active list, so
\* that some later period reports them.
UnsyncedIsActive ==
    \A c \in Linked, d \in Dirs : rx[c][d] > 0 => active[<<c, d>>]

\* An unlinked connection belongs to exactly one context, the one that removed
\* it, until that context frees it: no double flush, no leak, no use after free.
SingleOwner ==
    /\ \A c \in Conns : heap[c] = "unlinked" => \E p \in Cpus : own[p] = c
    /\ \A p \in Cpus : own[p] # None => heap[own[p]] = "unlinked"
    /\ \A p, q \in Cpus : own[p] = own[q] /\ own[p] # None => p = q
    /\ \A p \in Cpus : own[p] # None <=> pc[p] \in Flushing

\* The inductive invariant behind the safety properties above.
IInv ==
    /\ TypeOK
    /\ TablesAgree
    /\ UniqueTuples
    /\ ActiveListExact
    /\ UnsyncedIsActive
    /\ SingleOwner

\* The holds on a device are those of the connections that use it, also while
\* they are being flushed (dev_hold in create_rule, dev_put in the flush).
DevRefsBalanced ==
    \A d \in Devs :
        dev_refs[d] = MapThenSumSet(LAMBDA c : Uses(rule[c], d),
                                    {c \in Conns : heap[c] # "free"})

\* Every packet forwarded and not yet reported for a tuple is counted in one
\* connection of that tuple, linked or being flushed, or in the message the
\* timer holds: the syncs that race with flushes and with the re-creation of a
\* rule neither lose nor repeat a packet.
PacketsConserved ==
    \A t \in Tuples, d \in Dirs :
        unreported[t][d] =
            MapThenSumSet(LAMBDA c : rx[c][d],
                          {c \in Conns : heap[c] # "free" /\ rule[c].tuple = t})
            + (IF sis # None /\ sis.tuple = t THEN sis.count[d] ELSE 0)

\* What the connection managers see of the tables.
RuleOf(t) ==
    IF FindConnection(t) = {} THEN None
    ELSE rule[CHOOSE c \in FindConnection(t) : TRUE]

CountOf(t) ==
    IF FindConnection(t) = {} THEN Zero
    ELSE rx[CHOOSE c \in FindConnection(t) : TRUE]

CarriedBy(p) ==
    IF pc[p] \in {"flush", "sync"} THEN SyncMessage(own[p]) ELSE None

Table == INSTANCE SfeRuleTable WITH
            rules   <- [t \in Tuples |-> RuleOf(t)],
            count   <- [t \in Tuples |-> CountOf(t)],
            carried <- [p \in Cpus \cup {"timer"} |->
                           IF p = "timer" THEN sis ELSE CarriedBy(p)]

\* The engine implements the rule table: whatever the interleaving, callers
\* see one rule per tuple, and each count leaves in exactly one message.
ImplementsRuleTable == Table!Spec

\* A count of forwarded packets is reported and restarted, however much other
\* traffic competes for the quota, unless the callback is unregistered.
TrafficReported ==
    \A c \in Conns, d \in Dirs :
        rx[c][d] > 0 ~> (rx[c][d] = 0 \/ ~sync_rule_callback)

\* A removed connection is freed and its devices are released.
RemovedIsFreed ==
    \A c \in Conns : heap[c] = "unlinked" ~> heap[c] = "free"
\* A sweep of a device that is being unregistered releases it for good: the scan
\* that starts again after each flush comes to an end, and nothing takes a hold
\* on the device afterwards, but for a request that was checked before (the
\* reg_state test of create_rule, destroy_all_rules_for_dev).
SweptIsReleased ==
    \A d \in Hotplug :
        /\ d \notin registered
        /\ \E p \in Cpus : d \in sweep[p]
        /\ \A p \in Cpus : pc[p] = "create" => Uses(request[p], d) = 0
        ~> [](dev_refs[d] = 0)
=============================================================================
