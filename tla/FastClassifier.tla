--------------------------- MODULE FastClassifier ---------------------------
(***************************************************************************)
(* The fast classifier (fast-classifier.c), the other connection manager   *)
(* of the engine, for one 5-tuple whose conntrack entries come and go.     *)
(* Unlike sfe_cm.c it keeps connections of its own, in fc_conn_ht under    *)
(* sfe_connections_lock: the first packet of a connection adds it, and a   *)
(* rule is made when it has had enough packets or when somebody asks for   *)
(* it over netlink.  Listeners are told when a connection is OFFLOADED and *)
(* when it is DONE.                                                        *)
(*                                                                         *)
(* A critical section of sfe_connections_lock is one action, and so is     *)
(* each stretch of code between two of them.  post_routing goes on using a *)
(* connection after it has dropped the lock, while the conntrack event may *)
(* free it: what it reads then is what the freed memory holds.             *)
(***************************************************************************)
EXTENDS Integers, FiniteSets, Sequences

CONSTANTS
    Cpus,           \* contexts that handle packets
    Objects,        \* sfe_connection objects the allocator can hand out
    OffloadAt,      \* offload_at_pkts
    SameBucket,     \* do the tuple and its translation hash to one bucket
    MaxEntries,     \* bound on the entries that the tuple has one after the other
    None

ASSUME NumbersAssumption == {OffloadAt, MaxEntries} \subseteq Nat
ASSUME BucketAssumption == SameBucket \in BOOLEAN
ASSUME ObjectsAssumption == IsFiniteSet(Objects)

Gc       == "gc"        \* where conntrack destroys entries
Contexts == Cpus \cup {Gc}

ASSUME ContextsAssumption == Gc \notin Cpus

Ids         == 1 .. MaxEntries
Entries     == [id : Ids, dying : BOOLEAN]
Connections == [ct : Ids, hits : 0 .. OffloadAt, offload_permit : BOOLEAN, offloaded : BOOLEAN]

ASSUME NoneAssumption == None \notin Int \cup Entries \cup Connections \cup Objects

VARIABLES
    entry,      \* the conntrack entry of the tuple, or None
    born,       \* how many entries the tuple has had
    conn,       \* what each object holds, None if it is free
    table,      \* the objects in fc_conn_ht
    size,       \* sfe_connections_size
    rule,       \* the entry whose packet made the rule in the engine, or None
    announced,  \* the entry of the last message sent if that was OFFLOADED, or None
    job,        \* what each context does next
    packet,     \* the entry of the packet in post_routing, which holds it
    held,       \* the object post_routing uses after it has dropped the lock
    phase,      \* load, up, unload or gone
    at,         \* the next step of loading or unloading
    hooks,      \* what the classifier has registered
    late        \* ghost: entries whose event came before their last packet, or
                \* never

kernel   == <<entry, born>>
conns    == <<conn, table, size>>
outside  == <<rule, announced>>
contexts == <<job, packet, held>>
module   == <<phase, at, hooks>>
vars     == <<kernel, conns, outside, contexts, module, late>>

Routing == {"routing", "resolve", "create", "announce", "flag", "update"}
Holding == {"create", "announce", "flag", "update"}

-----------------------------------------------------------------------------
(* Conntrack and the engine.                                               *)

\* A packet that the engine leaves to the stack makes an entry, which is not
\* confirmed until it has left, or meets one and reaches post_routing.
Conntrack(p) ==
    /\ job[p] = "idle"
    /\ \/ /\ entry = None
          /\ born < MaxEntries
          /\ entry' = [id |-> born + 1, dying |-> FALSE]
          /\ born' = born + 1
          /\ UNCHANGED contexts
       \/ /\ entry # None
          /\ ~entry.dying
          /\ "post_routing" \in hooks
          /\ job' = [job EXCEPT ![p] = "routing"]
          /\ packet' = [packet EXCEPT ![p] = entry.id]
          /\ UNCHANGED <<kernel, held>>
    /\ UNCHANGED <<conns, outside, module, late>>

InRouting(id) == \E p \in Cpus : packet[p] = id

\* An entry is deleted, on request or because it expired.
Kill ==
    /\ job[Gc] = "idle"
    /\ entry # None
    /\ entry' = [entry EXCEPT !.dying = TRUE]
    /\ job' = [job EXCEPT ![Gc] = "event"]
    /\ UNCHANGED <<born, conns, outside, packet, held, module, late>>

\* Nobody listens to the event.
Unheard ==
    /\ job[Gc] = "event"
    /\ "conntrack" \notin hooks
    /\ late' = late \cup {entry.id}
    /\ job' = [job EXCEPT ![Gc] = "unhash"]
    /\ UNCHANGED <<kernel, conns, outside, packet, held, module>>

Unhash ==
    /\ job[Gc] = "unhash"
    /\ entry' = None
    /\ job' = [job EXCEPT ![Gc] = "idle"]
    /\ UNCHANGED <<born, conns, outside, packet, held, module, late>>

\* The engine removes the rule by itself: for a packet it must not forward (TCP
\* closing, fragments, ...) or because device_event or inet_event sweep a device.
EngineFlush ==
    /\ rule # None
    /\ {"receive", "devices"} \cap hooks # {}
    /\ rule' = None
    /\ UNCHANGED <<kernel, conns, announced, contexts, module, late>>

-----------------------------------------------------------------------------
(* post_routing.                                                           *)

Leave(p) ==
    /\ job' = [job EXCEPT ![p] = "idle"]
    /\ packet' = [packet EXCEPT ![p] = None]
    /\ held' = [held EXCEPT ![p] = None]

\* hits is only ever compared with offload_at_pkts: it need not count on.
Hit(o) == [conn EXCEPT ![o].hits = IF @ < OffloadAt THEN @ + 1 ELSE @]

\* Wrong: a connection is offloaded at its second packet.
DueAtOnce(c) == ~c.offloaded

Due(c) == ~c.offloaded /\ (c.offload_permit \/ c.hits >= OffloadAt)

\* Wrong: a connection that is closing is freed at once.
ClosingDropped(p, o) ==
    /\ Due(Hit(o)[o])
    /\ conn' = [conn EXCEPT ![o] = None]
    /\ table' = table \ {o}
    /\ size' = size - 1
    /\ Leave(p)

\* update_protocol refuses a connection that is closing.
Closing(p, o) ==
    /\ Due(Hit(o)[o])
    /\ conn' = Hit(o)
    /\ Leave(p)
    /\ UNCHANGED <<table, size>>

\* The connection is used after the lock has been dropped.
Found(p, o) ==
    /\ conn' = Hit(o)
    /\ job' = [job EXCEPT ![p] = IF Due(conn'[o]) THEN "create" ELSE "update"]
    /\ held' = [held EXCEPT ![p] = o]
    /\ UNCHANGED <<table, size, packet>>

\* The look-up, under the lock.
PostRouting(p) ==
    /\ job[p] = "routing"
    /\ \/ /\ table = {}
          /\ job' = [job EXCEPT ![p] = "resolve"]
          /\ UNCHANGED <<conns, packet, held>>
       \/ \E o \in table : Closing(p, o) \/ Found(p, o)
    /\ UNCHANGED <<kernel, outside, module, late>>

\* offloaded is read, and update_rule called, without the lock.  It changes the
\* TCP windows of a rule and nothing else.
UpdateRule(p) ==
    /\ job[p] = "update"
    /\ Leave(p)
    /\ UNCHANGED <<kernel, conns, outside, module, late>>

\* A device, a neighbour or a bridge is not found, or there is no memory.
ResolveFail(p) ==
    /\ job[p] = "resolve"
    /\ Leave(p)
    /\ UNCHANGED <<kernel, conns, outside, module, late>>

NewConnection(p) ==
    [ct |-> packet[p], hits |-> 0, offload_permit |-> FALSE, offloaded |-> FALSE]

\* Wrong: no look-up under the lock that covers the insertion.
AddConnUnchecked(p) ==
    /\ job[p] = "resolve"
    /\ \E o \in Objects : /\ conn[o] = None
                          /\ conn' = [conn EXCEPT ![o] = NewConnection(p)]
                          /\ table' = table \cup {o}
                          /\ size' = size + 1
    /\ Leave(p)
    /\ UNCHANGED <<kernel, outside, module, late>>

\* add_conn, under the lock; a duplicate is freed again.  No reference is taken
\* on the conntrack entry.
AddConn(p) ==
    /\ job[p] = "resolve"
    /\ \E o \in Objects :
          /\ conn[o] = None
          /\ IF table = {}
             THEN /\ conn' = [conn EXCEPT ![o] = NewConnection(p)]
                  /\ table' = table \cup {o}
                  /\ size' = size + 1
             ELSE UNCHANGED conns
    /\ Leave(p)
    /\ UNCHANGED <<kernel, outside, module, late>>

\* Wrong: the result of create_rule is ignored.
CreateRuleIgnored(p) ==
    /\ job[p] = "create"
    /\ rule' \in IF rule # None THEN {rule} ELSE {packet[p], None}
    /\ job' = [job EXCEPT ![p] = "flag"]
    /\ UNCHANGED <<kernel, conns, announced, packet, held, module, late>>

\* create_rule is given conn->sic.  The engine makes a rule or has one
\* (-EADDRINUSE), or refuses.  Freed memory may still hold the request, or
\* anything: the rule is then made, refused, or one of another tuple.
CreateRule(p) ==
    /\ job[p] = "create"
    /\ \/ /\ rule' \in IF rule # None THEN {rule}
                       ELSE {packet[p]} \cup (IF conn[held[p]] = None THEN {None} ELSE {})
          /\ job' = [job EXCEPT ![p] = "announce"]
          /\ UNCHANGED <<packet, held>>
       \/ /\ Leave(p)
          /\ UNCHANGED rule
    /\ UNCHANGED <<kernel, conns, announced, module, late>>

Announce(p) ==
    /\ job[p] = "announce"
    /\ announced' = packet[p]
    /\ job' = [job EXCEPT ![p] = "flag"]
    /\ UNCHANGED <<kernel, conns, rule, packet, held, module, late>>

\* Written without the lock, into whatever the object is by now.
SetOffloaded(p) ==
    /\ job[p] = "flag"
    /\ conn' = IF conn[held[p]] = None THEN conn
               ELSE [conn EXCEPT ![held[p]].offloaded = TRUE]
    /\ Leave(p)
    /\ UNCHANGED <<kernel, table, size, outside, module, late>>

-----------------------------------------------------------------------------
(* conntrack_event and the offload request.                                *)

Overtake == IF InRouting(entry.id) THEN late \cup {entry.id} ELSE late

\* Wrong: the size is counted down whether or not there was a connection.
ConntrackEventMiscounts ==
    /\ job[Gc] = "event"
    /\ "conntrack" \in hooks
    /\ conn' = [o \in Objects |-> IF o \in table THEN None ELSE conn[o]]
    /\ table' = {}
    /\ size' = size - 1
    /\ job' = [job EXCEPT ![Gc] = IF \E o \in table : conn[o].offloaded
                                  THEN "destroy_done" ELSE "destroy"]
    /\ late' = Overtake
    /\ UNCHANGED <<kernel, outside, packet, held, module>>

\* Wrong: only a connection that was offloaded is removed.
ConntrackEventOffloaded ==
    /\ job[Gc] = "event"
    /\ "conntrack" \in hooks
    /\ LET gone == {o \in table : conn[o].offloaded}
       IN  /\ conn' = [o \in Objects |-> IF o \in gone THEN None ELSE conn[o]]
           /\ table' = table \ gone
           /\ size' = IF gone = {} THEN size ELSE size - 1
           /\ job' = [job EXCEPT ![Gc] = IF gone = {} THEN "destroy" ELSE "destroy_done"]
    /\ late' = Overtake
    /\ UNCHANGED <<kernel, outside, packet, held, module>>

\* The connection leaves the table and is freed, under the lock.
ConntrackEvent ==
    /\ job[Gc] = "event"
    /\ "conntrack" \in hooks
    /\ conn' = [o \in Objects |-> IF o \in table THEN None ELSE conn[o]]
    /\ table' = {}
    /\ size' = IF table = {} THEN size ELSE size - 1
    /\ job' = [job EXCEPT ![Gc] = IF \E o \in table : conn[o].offloaded
                                  THEN "destroy_done" ELSE "destroy"]
    /\ late' = Overtake
    /\ UNCHANGED <<kernel, outside, packet, held, module>>

\* Wrong: an offloaded connection is only announced to be done.
DestroyRuleUnlessDone ==
    /\ job[Gc] \in {"destroy", "destroy_done"}
    /\ rule' = IF job[Gc] = "destroy" THEN None ELSE rule
    /\ job' = [job EXCEPT ![Gc] = IF @ = "destroy" THEN "unhash" ELSE "done"]
    /\ UNCHANGED <<kernel, conns, announced, packet, held, module, late>>

\* Wrong: a rule that the engine has removed already needs no message.
DestroyRuleSilent ==
    /\ job[Gc] \in {"destroy", "destroy_done"}
    /\ rule' = None
    /\ job' = [job EXCEPT ![Gc] = IF @ = "destroy" \/ rule = None THEN "unhash" ELSE "done"]
    /\ UNCHANGED <<kernel, conns, announced, packet, held, module, late>>

\* destroy_rule is called by tuple, whether or not there was a connection.
DestroyRule ==
    /\ job[Gc] \in {"destroy", "destroy_done"}
    /\ rule' = None
    /\ job' = [job EXCEPT ![Gc] = IF @ = "destroy" THEN "unhash" ELSE "done"]
    /\ UNCHANGED <<kernel, conns, announced, packet, held, module, late>>

SendDone ==
    /\ job[Gc] = "done"
    /\ announced' = None
    /\ job' = [job EXCEPT ![Gc] = "unhash"]
    /\ UNCHANGED <<kernel, conns, rule, packet, held, module, late>>

\* The request names the translated destination, as the messages do, and
\* sb_find_conn takes the bucket from what the request names; the connection is
\* in the bucket of its own tuple.
SbFindConn == IF SameBucket THEN table ELSE {}

\* A request that finds nothing is only counted.
OffloadRequest ==
    /\ "genl" \in hooks
    /\ \E o \in SbFindConn : conn' = [conn EXCEPT ![o].offload_permit = TRUE]
    /\ UNCHANGED <<kernel, table, size, outside, contexts, module, late>>

-----------------------------------------------------------------------------
(* Loading and unloading.                                                  *)

InitOrder == <<"devices", "post_routing", "conntrack", "genl", "receive", "sync">>
ExitOrder == <<"sync", "receive", "barrier", "rules", "genl", "conntrack",
               "post_routing", "devices">>

Proceed(order, last) ==
    IF at < Len(order) THEN at' = at + 1 /\ UNCHANGED phase ELSE at' = 1 /\ phase' = last

\* fast_classifier_init
Register ==
    /\ phase = "load"
    /\ hooks' = hooks \cup {InitOrder[at]}
    /\ Proceed(InitOrder, "up")
    /\ UNCHANGED <<kernel, conns, outside, contexts, late>>

\* The post-routing hooks or the netlink family cannot be registered: what is
\* registered by then is undone in reverse order (exit5 to exit3).
Fail ==
    /\ phase = "load"
    /\ InitOrder[at] \in {"post_routing", "genl"}
    /\ phase' = "gone"
    /\ hooks' = hooks \ {"devices", "post_routing", "conntrack"}
    /\ UNCHANGED <<kernel, conns, outside, contexts, at, late>>

Remove ==
    /\ phase = "up"
    /\ phase' = "unload"
    /\ UNCHANGED <<kernel, conns, outside, contexts, at, hooks, late>>

\* fast_classifier_exit.  The rules are destroyed, the connections are not.
Unregister ==
    /\ phase = "unload"
    /\ hooks' = hooks \ {ExitOrder[at]}
    /\ rule' = IF ExitOrder[at] = "rules" THEN None ELSE rule
    /\ Proceed(ExitOrder, "gone")
    /\ UNCHANGED <<kernel, conns, announced, contexts, late>>

Init ==
    /\ entry = None
    /\ born = 0
    /\ conn = [o \in Objects |-> None]
    /\ table = {}
    /\ size = 0
    /\ rule = None
    /\ announced = None
    /\ job = [p \in Contexts |-> "idle"]
    /\ packet = [p \in Cpus |-> None]
    /\ held = [p \in Cpus |-> None]
    /\ phase = "load"
    /\ at = 1
    /\ hooks = {}
    /\ late = {}

Next ==
    \/ \E p \in Cpus :
          \/ Conntrack(p) \/ PostRouting(p) \/ UpdateRule(p)
          \/ ResolveFail(p) \/ AddConn(p)
          \/ CreateRule(p) \/ Announce(p) \/ SetOffloaded(p)
    \/ Kill \/ Unheard \/ ConntrackEvent \/ DestroyRule \/ SendDone \/ Unhash
    \/ EngineFlush \/ OffloadRequest
    \/ Register \/ Fail \/ Remove \/ Unregister

Spec == Init /\ [][Next]_vars

\* Packets of an entry that lives keep coming, a context finishes what it does
\* with one, and neither update_protocol nor the engine refuses a connection
\* for ever.
PacketsGoOn ==
    \A p \in Cpus :
       /\ WF_vars(Conntrack(p))
       /\ WF_vars(PostRouting(p) \/ UpdateRule(p) \/ AddConn(p) \/ ResolveFail(p))
       /\ WF_vars(CreateRule(p) \/ Announce(p) \/ SetOffloaded(p))
       /\ SF_vars(PostRouting(p) /\ \E o \in table : Found(p, o))
       /\ SF_vars(CreateRule(p) /\ job'[p] = "announce")

BusySpec == Spec /\ PacketsGoOn

-----------------------------------------------------------------------------
(* Properties.                                                             *)

GcJobs == {"idle", "event", "destroy", "destroy_done", "done", "unhash"}

Live(id) == entry # None /\ entry.id = id

\* Every variable has its type; a context has a packet exactly while it is in
\* post_routing, and an object exactly where the code uses one without the lock.
\* sfe_connections_size never goes below zero.
TypeOK ==
    /\ entry \in Entries \cup {None}
    /\ born \in 0 .. MaxEntries
    /\ conn \in [Objects -> Connections \cup {None}]
    /\ table \subseteq Objects
    /\ size \in Nat
    /\ {rule, announced} \subseteq Ids \cup {None}
    /\ DOMAIN job = Contexts /\ job[Gc] \in GcJobs
    /\ packet \in [Cpus -> Ids \cup {None}]
    /\ held \in [Cpus -> Objects \cup {None}]
    /\ \A p \in Cpus : /\ job[p] \in Routing \cup {"idle"}
                       /\ packet[p] # None <=> job[p] \in Routing
                       /\ held[p] # None <=> job[p] \in Holding
    /\ phase \in {"load", "up", "unload", "gone"}
    /\ at \in 1 .. Len(ExitOrder)
    /\ hooks \subseteq {InitOrder[i] : i \in DOMAIN InitOrder}
    /\ late \subseteq Ids

\* Two packets that both miss in the look-up of post_routing (line 1053) and
\* resolve their devices without the lock leave one connection for the tuple, no
\* object is lost or freed twice, and sfe_connections_size counts the table.
TableSound ==
    /\ \A o \in Objects : o \in table <=> conn[o] # None
    /\ Cardinality(table) <= 1
    /\ size = Cardinality(table)

\* conn->ct (line 1200) holds no reference.  It outlives its entry in the table
\* only when post_routing was still at work on a packet of that entry when the
\* destroy event came, or the event found no listener.
DanglingOnlyFromRaces ==
    \A o \in table : Live(conn[o].ct) \/ conn[o].ct \in late

\* A rule in the engine outlives the entry whose packet made it only in the same
\* races: create_rule, called without the lock (line 1073), after destroy_rule.
OrphansOnlyFromRaces ==
    rule # None => Live(rule) \/ rule \in late

\* post_routing uses a connection that has been freed, once it has dropped the
\* lock, only if the destroy event overtook it: the reference that the packet
\* has on its entry does not keep the connection.
HeldObjectsLive ==
    \A p \in Cpus : held[p] # None => held[p] \in table \/ packet[p] \in late

\* For an entry that OFFLOADED was sent for, DONE is sent by the time it is gone,
\* whoever removed the rule, except after a race.  Sending is the call: that the
\* family is registered and memory is there for the message is not claimed.
AnnouncedIsUndone ==
    announced # None => Live(announced) \/ announced \in late

\* While no event has overtaken a packet, a connection marked offloaded is one
\* whose OFFLOADED was the last message: messages and flags agree although
\* neither the message (line 1092) nor the flag (line 1093) is under the lock.
FlagAgrees ==
    late = {} => \A o \in table : conn[o].offloaded => announced = conn[o].ct

\* No rule is made for a connection before it has had offload_at_pkts packets or
\* somebody has asked for it, except by a context that was overtaken.
RulesAreEarned ==
    [][rule' # None /\ rule' # rule =>
         \/ \E o \in table : conn[o].offload_permit \/ conn[o].hits >= OffloadAt
         \/ rule' \in late]_vars

\* "auto offload connection once we have this many packets" (line 816): while
\* its packets keep coming, a connection that has had that many gets a rule in
\* the engine, until its entry dies or the classifier is unloaded.
AutoOffload ==
    \A id \in Ids :
       (\E o \in table : conn[o].ct = id /\ conn[o].hits >= OffloadAt)
          ~> (rule # None \/ ~Live(id) \/ entry.dying \/ phase \in {"unload", "gone"})

=============================================================================
