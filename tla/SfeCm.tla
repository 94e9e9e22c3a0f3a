------------------------------- MODULE SfeCm -------------------------------
(***************************************************************************)
(* The connection manager (sfe_cm.c) between conntrack and the forwarding  *)
(* engine, for one 5-tuple whose conntrack entries come and go.  Its       *)
(* post-routing hook makes a rule for a packet of a known connection, its  *)
(* conntrack event removes the rule, its sync callback extends the timeout *)
(* of the entry for traffic that conntrack no longer sees, and a device    *)
(* that goes down takes the rule with it.                                  *)
(*                                                                         *)
(* The manager keeps no state of its own but what it has registered; it    *)
(* registers step by step when it is loaded and unregisters step by step   *)
(* when it is unloaded, while packets and events go on.  The engine is the *)
(* table of rules it promises (SfeRuleTable), with the times it reports.   *)
(* Conntrack is modelled from what the manager uses of it.                 *)
(***************************************************************************)
EXTENDS Integers, Sequences

CONSTANTS
    Cpus,           \* contexts that handle packets and device events
    Timeout,        \* lifetime that conntrack gives an entry it sees a packet of
    Horizon,        \* bound on the clock
    MaxEntries,     \* bound on the entries that the tuple has one after the other
    LongWalks,      \* may a periodic sync last longer than a jiffy
    ChainEvents,    \* CONFIG_NF_CONNTRACK_CHAIN_EVENTS
    None

ASSUME TimeAssumption == {Timeout, Horizon, MaxEntries} \subseteq Nat

Gc       == "gc"        \* where conntrack destroys entries
Timer    == "timer"     \* the periodic sync of the engine
Contexts == Cpus \cup {Gc, Timer}

ASSUME ContextsAssumption == Cpus \cap {Gc, Timer} = {}

Ids      == 1 .. MaxEntries
Entries  == [id : Ids, expires : Int, dying : BOOLEAN]
Rules    == [entry : Ids, last_sync : Nat, active : BOOLEAN]

ASSUME NoneAssumption == None \notin Int \cup Entries \cup Rules

VARIABLES
    now,        \* jiffies
    entry,      \* the conntrack entry of the tuple, or None
    born,       \* how many entries the tuple has had
    rule,       \* the rule of the tuple in the engine, or None
    job,        \* what each context does next
    request,    \* what post_routing has read of conntrack, per context
    unlinked,   \* last_sync_jiffies of the rule a context has taken out
    message,    \* delta_jiffies of the message a context is about to deliver
    sync_start, \* now_jiffies of the running periodic sync
    phase,      \* load, up, unload or gone
    at,         \* the next step of loading or unloading
    hooks,      \* what the manager has registered
    orphaned    \* ghost: entries that died when nobody could remove their rule

kernel == <<entry, born>>
engine == <<rule, unlinked, message, sync_start>>
module == <<phase, at, hooks>>
vars   == <<now, kernel, engine, job, request, module, orphaned>>

-----------------------------------------------------------------------------
(* The engine.                                                             *)

Idle(p) == job[p] = "idle" /\ unlinked[p] = None /\ message[p] = None

Unlink(p) ==
    /\ unlinked' = [unlinked EXCEPT ![p] = rule.last_sync]
    /\ rule' = None

\* Wrong: the connection is flushed again later.
FlushAgain(p) ==
    /\ unlinked[p] # None
    /\ message' = [message EXCEPT ![p] = IF "sync" \in hooks THEN now - unlinked[p] ELSE None]
    /\ UNCHANGED <<now, kernel, rule, unlinked, sync_start, job, request, module, orphaned>>

\* The flush makes the last message, if a callback is registered.
Flush(p) ==
    /\ unlinked[p] # None
    /\ unlinked' = [unlinked EXCEPT ![p] = None]
    /\ message' = [message EXCEPT ![p] = IF "sync" \in hooks THEN now - unlinked[p] ELSE None]
    /\ UNCHANGED <<now, kernel, rule, sync_start, job, request, module, orphaned>>

\* periodic_sync reads the clock and the callback and walks the active list.
SyncStart ==
    /\ job[Timer] = "idle"
    /\ "sync" \in hooks
    /\ sync_start' = now
    /\ job' = [job EXCEPT ![Timer] = "walk"]
    /\ UNCHANGED <<now, kernel, rule, unlinked, message, request, module, orphaned>>

SyncHead ==
    /\ job[Timer] = "walk"
    /\ message[Timer] = None
    /\ rule # None
    /\ rule.active
    /\ message' = [message EXCEPT ![Timer] = sync_start - rule.last_sync]
    /\ rule' = [rule EXCEPT !.last_sync = sync_start, !.active = FALSE]
    /\ UNCHANGED <<now, kernel, unlinked, sync_start, job, request, module, orphaned>>

\* The quota is used up or the list is empty.
SyncEnd ==
    /\ job[Timer] = "walk"
    /\ message[Timer] = None
    /\ job' = [job EXCEPT ![Timer] = "idle"]
    /\ UNCHANGED <<now, kernel, engine, request, module, orphaned>>

-----------------------------------------------------------------------------
(* Conntrack.                                                              *)

Live == entry # None /\ ~entry.dying /\ entry.expires > now

\* A packet in the stack makes an entry, or refreshes the one it finds and goes
\* on to post_routing, which refuses an entry not yet confirmed or assured.
Conntrack(p) ==
    /\ job[p] = "slow"
    /\ unlinked[p] = None
    /\ message[p] = None
    /\ \/ /\ entry = None
          /\ born < MaxEntries
          /\ entry' = [id |-> born + 1, expires |-> now + Timeout, dying |-> FALSE]
          /\ born' = born + 1
          /\ job' = [job EXCEPT ![p] = "idle"]
          /\ UNCHANGED request
       \/ /\ Live
          /\ entry' = [entry EXCEPT !.expires = now + Timeout]
          /\ UNCHANGED born
          /\ \/ /\ "post_routing" \in hooks
                /\ job' = [job EXCEPT ![p] = "routing"]
                /\ request' = [request EXCEPT ![p] = entry.id]
             \/ /\ job' = [job EXCEPT ![p] = "idle"]
                /\ UNCHANGED request
       \/ /\ ~Live
          /\ job' = [job EXCEPT ![p] = "idle"]
          /\ UNCHANGED <<kernel, request>>
    /\ UNCHANGED <<now, engine, module, orphaned>>

Requested(id) == \E p \in Cpus : request[p] = id

\* An entry is deleted, on request or because it expired.
Kill ==
    /\ Idle(Gc)
    /\ entry # None
    /\ entry' = [entry EXCEPT !.dying = TRUE]
    /\ job' = [job EXCEPT ![Gc] = IF "conntrack" \in hooks THEN "event" ELSE "unhash"]
    /\ orphaned' = IF "conntrack" \in hooks THEN orphaned ELSE orphaned \cup {entry.id}
    /\ UNCHANGED <<now, born, engine, request, module>>

Unhash ==
    /\ job[Gc] = "unhash"
    /\ unlinked[Gc] = None
    /\ message[Gc] = None
    /\ entry' = None
    /\ job' = [job EXCEPT ![Gc] = "idle"]
    /\ UNCHANGED <<now, born, engine, request, module, orphaned>>

-----------------------------------------------------------------------------
(* The connection manager.                                                 *)

\* Wrong: sync_rule takes the increment for the time that is left.
SyncRuleAssigns(p) ==
    /\ message[p] # None
    /\ message' = [message EXCEPT ![p] = None]
    /\ entry' = IF entry # None /\ entry.expires > now
                THEN [entry EXCEPT !.expires = now + message[p]]
                ELSE entry
    /\ UNCHANGED <<now, born, rule, unlinked, sync_start, job, request, module, orphaned>>

\* sync_rule extends the entry it finds, whichever it is.
SyncRule(p) ==
    /\ message[p] # None
    /\ message' = [message EXCEPT ![p] = None]
    /\ entry' = IF entry # None /\ entry.expires > now
                THEN [entry EXCEPT !.expires = @ + message[p]]
                ELSE entry
    /\ UNCHANGED <<now, born, rule, unlinked, sync_start, job, request, module, orphaned>>

\* A packet the engine does not take goes up the stack.
Miss(p) ==
    /\ Idle(p)
    /\ rule = None \/ "receive" \notin hooks
    /\ job' = [job EXCEPT ![p] = "slow"]
    /\ UNCHANGED <<now, kernel, engine, request, module, orphaned>>

Forward(p) ==
    /\ Idle(p)
    /\ rule # None
    /\ "receive" \in hooks
    /\ rule' = [rule EXCEPT !.active = TRUE]
    /\ UNCHANGED <<now, kernel, unlinked, message, sync_start, job, request, module, orphaned>>

\* A packet that the engine must not take removes the rule first.
FlushOnPacket(p) ==
    /\ Idle(p)
    /\ rule # None
    /\ "receive" \in hooks
    /\ Unlink(p)
    /\ job' = [job EXCEPT ![p] = "slow"]
    /\ UNCHANGED <<now, kernel, message, sync_start, request, module, orphaned>>

\* The end of post_routing.  The engine makes a rule, has one, or cannot.
CreateRule(p) ==
    /\ job[p] = "routing"
    /\ rule' \in IF rule # None THEN {rule}
                 ELSE {None, [entry |-> request[p], last_sync |-> now, active |-> FALSE]}
    /\ request' = [request EXCEPT ![p] = None]
    /\ job' = [job EXCEPT ![p] = "idle"]
    /\ UNCHANGED <<now, kernel, unlinked, message, sync_start, module, orphaned>>

\* Wrong: a rule with traffic that was not reported yet is kept.
ConntrackEventWhenSynced ==
    /\ job[Gc] = "event"
    /\ job' = [job EXCEPT ![Gc] = "unhash"]
    /\ IF rule = None \/ rule.active THEN UNCHANGED <<rule, unlinked>> ELSE Unlink(Gc)
    /\ orphaned' = IF Requested(entry.id) THEN orphaned \cup {entry.id} ELSE orphaned
    /\ UNCHANGED <<now, kernel, message, sync_start, request, module>>

\* conntrack_event calls destroy_rule, and waits for its flush.
ConntrackEvent ==
    /\ job[Gc] = "event"
    /\ job' = [job EXCEPT ![Gc] = "unhash"]
    /\ IF rule = None THEN UNCHANGED <<rule, unlinked>> ELSE Unlink(Gc)
    /\ orphaned' = IF Requested(entry.id) THEN orphaned \cup {entry.id} ELSE orphaned
    /\ UNCHANGED <<now, kernel, message, sync_start, request, module>>

\* device_event and inet_event call destroy_all_rules_for_dev.
DeviceEvent(p) ==
    /\ Idle(p)
    /\ rule # None
    /\ "devices" \in hooks
    /\ Unlink(p)
    /\ UNCHANGED <<now, kernel, message, sync_start, job, request, module, orphaned>>

-----------------------------------------------------------------------------
(* Loading and unloading.                                                  *)

InitOrder == <<"devices", "post_routing", "conntrack", "receive", "sync">>
ExitOrder == <<"sync", "receive", "barrier", "rules", "conntrack", "post_routing", "devices">>

Proceed(order, last) ==
    IF at < Len(order) THEN at' = at + 1 /\ UNCHANGED phase ELSE at' = 1 /\ phase' = last

\* sfe_cm_init
Register ==
    /\ phase = "load"
    /\ hooks' = hooks \cup {InitOrder[at]}
    /\ Proceed(InitOrder, "up")
    /\ UNCHANGED <<now, kernel, engine, job, request, orphaned>>

\* Wrong: a failed initialisation keeps what it has registered.
FailKeepsDevices ==
    /\ phase = "load"
    /\ InitOrder[at] = "post_routing" \/ (InitOrder[at] = "conntrack" /\ ~ChainEvents)
    /\ phase' = "gone"
    /\ UNCHANGED <<now, kernel, engine, job, request, at, hooks, orphaned>>

\* The post-routing hook cannot be registered, or the conntrack notifier.  The
\* latter fails only without ChainEvents, where the label exit4, which would
\* unregister the hook, is not compiled in.
Fail ==
    /\ phase = "load"
    /\ InitOrder[at] = "post_routing" \/ (InitOrder[at] = "conntrack" /\ ~ChainEvents)
    /\ phase' = "gone"
    /\ hooks' = hooks \ {"devices"}
    /\ UNCHANGED <<now, kernel, engine, job, request, at, orphaned>>

Remove ==
    /\ phase = "up"
    /\ phase' = "unload"
    /\ UNCHANGED <<now, kernel, engine, job, request, at, hooks, orphaned>>

\* sfe_cm_exit.  rcu_barrier waits for call_rcu callbacks, of which there are
\* none, and destroy_all_rules_for_dev for its own flushes, which find no
\* callback.
Unregister ==
    /\ phase = "unload"
    /\ hooks' = hooks \ {ExitOrder[at]}
    /\ rule' = IF ExitOrder[at] = "rules" THEN None ELSE rule
    /\ Proceed(ExitOrder, "gone")
    /\ UNCHANGED <<now, kernel, unlinked, message, sync_start, job, request, orphaned>>

\* post_routing is over within the jiffy in which conntrack saw the packet.
Tick ==
    /\ now < Horizon
    /\ job[Timer] = "walk" => LongWalks
    /\ \A p \in Cpus : request[p] = None
    /\ now' = now + 1
    /\ UNCHANGED <<kernel, engine, job, request, module, orphaned>>

Init ==
    /\ now = 0
    /\ entry = None
    /\ born = 0
    /\ rule = None
    /\ job = [p \in Contexts |-> "idle"]
    /\ request = [p \in Cpus |-> None]
    /\ unlinked = [p \in Contexts |-> None]
    /\ message = [p \in Contexts |-> None]
    /\ sync_start = 0
    /\ phase = "load"
    /\ at = 1
    /\ hooks = {}
    /\ orphaned = {}

Next ==
    \/ \E p \in Contexts : Flush(p) \/ SyncRule(p)
    \/ SyncStart \/ SyncHead \/ SyncEnd
    \/ Kill \/ Unhash \/ ConntrackEvent
    \/ \E p \in Cpus : \/ Miss(p) \/ Forward(p) \/ FlushOnPacket(p)
                       \/ Conntrack(p) \/ CreateRule(p) \/ DeviceEvent(p)
    \/ Register \/ Fail \/ Remove \/ Unregister
    \/ Tick

Spec == Init /\ [][Next]_vars

-----------------------------------------------------------------------------
(* Properties.                                                             *)

\* Every variable keeps its type; a context holds a request only inside
\* post_routing, and makes the message of a rule it took out only once.
TypeOK ==
    /\ now \in Nat
    /\ entry \in Entries \cup {None}
    /\ born \in 0 .. MaxEntries
    /\ rule \in Rules \cup {None}
    /\ job \in [Contexts -> {"idle", "slow", "routing", "walk", "event", "unhash"}]
    /\ request \in [Cpus -> Ids \cup {None}]
    /\ unlinked \in [Contexts -> Nat \cup {None}]
    /\ message \in [Contexts -> Int \cup {None}]
    /\ sync_start \in Nat
    /\ orphaned \subseteq Ids
    /\ \A p \in Cpus : job[p] = "routing" <=> request[p] # None
    /\ \A p \in Contexts : unlinked[p] = None \/ message[p] = None

\* A rule outlives the conntrack entry it was made from (conntrack_event) only
\* if post_routing still held a request of that entry when the event came, or
\* if the entry died while the manager was not listening.
OrphansOnlyFromRaces ==
    rule # None /\ (entry = None \/ entry.id # rule.entry) => rule.entry \in orphaned

\* The same of a request, which may still become a rule.
RequestsKnown ==
    \A p \in Cpus :
        request[p] # None /\ (entry = None \/ entry.id # request[p]) => request[p] \in orphaned

\* An entry on its way out has been dealt with before it is gone.
DyingHandled ==
    /\ job[Gc] \in {"idle", "event", "unhash"}
    /\ job[Gc] # "idle" => entry # None /\ entry.dying
    /\ job[Gc] = "event" => unlinked[Gc] = None /\ message[Gc] = None
    /\ job[Gc] = "unhash" => /\ rule # None /\ rule.entry = entry.id => entry.id \in orphaned
                             /\ Requested(entry.id) => entry.id \in orphaned
    /\ unlinked[Timer] = None

\* The inductive invariant behind OrphansOnlyFromRaces.
IInv == TypeOK /\ OrphansOnlyFromRaces /\ RequestsKnown /\ DyingHandled

\* While a rule takes the packets away from conntrack, its entry lasts at least
\* a Timeout from the last sync of the rule (sync_rule, delta_jiffies), whatever
\* other messages are delivered and however late they are.
KeepsAlive ==
    rule # None /\ Live /\ entry.id = rule.entry =>
        entry.expires + (IF message[Timer] = None THEN 0 ELSE message[Timer])
            >= rule.last_sync + Timeout

\* Entries are told apart, and nobody holds an entry to come.
IdsKnown ==
    /\ entry # None => entry.id <= born
    /\ rule # None => rule.entry <= born
    /\ \A p \in Cpus : request[p] # None => request[p] <= born

\* No time noted anywhere is ahead of the clock, and no increment is negative.
TimesPast ==
    /\ job[Timer] = "walk" => sync_start = now
    /\ rule # None => rule.last_sync <= now
    /\ \A p \in Contexts : unlinked[p] # None => unlinked[p] <= now
    /\ \A p \in Contexts : message[p] # None => message[p] >= 0

\* Conntrack has just refreshed an entry that post_routing holds.
RequestsFresh ==
    \A p \in Cpus : entry # None /\ entry.id = request[p] => entry.expires >= now + Timeout

\* The inductive invariant behind KeepsAlive, if no sync lasts longer than a
\* jiffy.
AliveInv == TypeOK /\ IdsKnown /\ TimesPast /\ RequestsFresh /\ KeepsAlive

\* delta_jiffies is "Time to be added to the current timeout to keep the
\* connection alive" (sfe_cm.h:132).
IncrementsAreTime == \A p \in Contexts : message[p] # None => message[p] >= 0

\* A manager that is gone, after unloading or because loading failed
\* (sfe_cm_init, sfe_cm_exit), has left nothing registered.
GoneIsClean == phase = "gone" => hooks = {}

\* "Destroy all connections." (sfe_cm.c:1186): unloading leaves no rule of the
\* manager in the engine.
ExitLeavesNoRules == phase = "gone" => rule = None
=============================================================================
