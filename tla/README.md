# A verification development for shortcut-fe and the modem's PCIe driver

The repository is a feed of OpenWrt packages.  Most of it is packaging (makefiles,
patches, LuCI pages, rule lists) and drivers imported from vendors.  Two parts have
core logic of their own that a model checker and a prover can say something about:

* **shortcut-fe**, the connection accelerator: a forwarding engine in the kernel that
  takes packets of established connections out of the network stack, and the two
  connection managers that decide what it accelerates;
* **quectel_MHI**, the driver of PCIe modems, of which the power management is what
  several threads and the modem itself must agree on.

This directory holds TLA+ modules that model them, TLC configurations that check them on
small instances, and TLAPS proofs that hold for every instance.

Paths below are relative to `src/shortcut-fe/` and, where they begin with `core/` or
`controllers/`, to `src/quectel_MHI/src/`.

## 1. Inventory

### The parts and their state

| part | source | state | operations |
|---|---|---|---|
| IPv4 engine | `shortcut-fe/src/sfe_ipv4.c` | connection hash, connection-match hash, "all connections" list, active list, `num_connections`, counters per match, holds on devices, callback pointer, timer | `sfe_ipv4_recv` (UDP, TCP, ICMP), `create_rule`, `destroy_rule`, `update_rule`, `mark_rule`, `destroy_all_rules_for_dev`, `register_sync_rule_callback`, `periodic_sync` |
| TCP windows | same file, 1492-1566, 1719-1882, 2392-2434 | `end`, `max_end`, `max_win`, `win_scale` per match | check and advance on every segment, merge with what conntrack saw |
| packet rewriting | same file, 636-758, 1316-1403 | none (pure) | address and port translation, incremental checksums |
| flow cookies | same file, `CONFIG_NF_FLOW_COOKIE` | table of cookies, switch in sysfs | allocate, look up, clear |
| debug device | same file, 2966-3440 | position of a reader, `debug_read_seq` | dump the tables as XML, clear the statistics |
| IPv6 engine | `shortcut-fe/src/sfe_ipv6.c` | as IPv4 | as IPv4 |
| connection manager | `shortcut-fe/src/sfe_cm.c` | hooks and callbacks that are registered; the rest of its state is conntrack's | `post_routing`, `conntrack_event`, `sync_rule`, device and address notifiers, init, exit |
| fast classifier | `fast-classifier/src/fast-classifier.c` | `fc_conn_ht` under `sfe_connections_lock`, counters, a netlink family | as the connection manager, plus offload after a number of hits or on a netlink request |
| modem power management | `core/mhi_pm.c`, `core/mhi_main.c`, `controllers/mhi_qti.c` | `pm_state`, `dev_state`, `ee`, the list of transitions for `st_worker`, `syserr_worker`, `pm_mutex`, runtime PM, `powered_on` | handling of state events, mission mode, recovery from a crash, runtime suspend and resume, removal |

### How they interact

* The engine's tables are protected by one spinlock, `si->lock`.  A packet, a call of
  a connection manager and the timer each take it for one critical section and then
  go on without it.
* A connection manager calls the engine from a netfilter hook (`create_rule`), from
  conntrack's event (`destroy_rule`) and from notifiers (`destroy_all_rules_for_dev`).
* The engine calls the connection manager back (`sync_rule_callback`) **without** the
  lock: from the timer, with the counts of one connection at a time, and from a
  flush, with the last counts of a connection that was just removed.  The callback
  looks the connection up in conntrack by its tuple and adds the counts, extends the
  timeout and merges the TCP windows.
* The fast classifier has a table of its own, under `sfe_connections_lock`.  It drops
  that lock before it calls the engine and tells its netlink listeners, and takes it
  again in conntrack's event, which frees the connection.
* conntrack, the network stack, devices and netlink readers are outside; they are
  modelled as the environment, from how this code uses them.
* In the modem's driver a tasklet handles the events with which the modem reports its
  state, a threaded interrupt notices that it has crashed, two workers bring it up and
  recover it, and runtime PM and the removal of the PCI device come from the kernel's
  core.  All move `pm_state` along one table of allowed transitions, under a spinlock
  (`pm_lock`); the long operations exclude each other by `pm_mutex`.

### What is hard

1. *Unlink, unlock, flush.*  Every removal unlinks a connection under the lock and
   flushes and frees it after.  Packets, the timer, other removals and the creation of
   a rule with the same tuple run in between.
2. *The timer drops the lock for each callback* in the middle of a walk over the
   active list, whose elements other contexts remove meanwhile.
3. *A connection is on the active list twice*, once per direction; the sync of one
   direction also takes the other out of the middle of the list.
4. *Counts travel in messages* that can be overtaken by the flush of the connection
   and by its re-creation.
5. *A hash chain is reordered by every hit*, under matches with the same key.
6. *`kmalloc` does not clear memory*, and the active list relies on a pointer being
   null from before.
7. *A create request is checked before the lock is taken*; devices and conntrack
   entries may go away in between.
8. *Sequence numbers wrap.*
9. *Exit runs against everything that is still registered.*
10. *The classifier uses a connection after it has dropped the lock*, and neither the
    connection nor the flag nor the message to the listeners is under it any more.
11. *Two variables for one state*: `dev_state` follows the modem's events, `pm_state` the
    table, and each is read where the other is meant.
12. *A recovery gives up `pm_mutex` in the middle*, and nobody waits for it.
13. *Every wait for the modem may time out*, and the answer may come afterwards.

### What makes each part correct

* Engine tables: the lists, the flags, the counter and the objects agree; one rule per
  tuple; every removed connection is flushed and freed once, by whoever removed it;
  holds on devices balance; every forwarded packet is reported once; what is reported
  is reported eventually; to the connection managers the engine is a table of rules.
* Lists: pointers form the lists they are meant to form after any sequence of
  operations; a packet finds the newest match of its key.
* TCP windows: window edges never move back; a segment inside the window both sides
  agreed on passes; conntrack and engine agree after a merge.
* Connection managers: no rule survives its conntrack entry or the module; a busy
  flow keeps its conntrack entry.
* Fast classifier, besides: one connection per tuple; a connection is not used after it
  is freed; listeners are told the truth; a rule is made only for who has earned it.
* Modem: the states agree; a suspended modem is in M3; a transfer is not stuck because
  the modem sleeps; an error is processed; a removal ends, and nothing works on the
  rings once it has freed them.

`PROJECT.json` lists the hazards with the line where each bites, and the properties
that would catch it.

## 2. Modules

| module | models |
|---|---|
| `SfeRuleTable` | abstract specification: what the engine promises to its callers |
| `SfeIPv4` | the engine at the level of critical sections |
| `DataLemmas` | lemmas about sequences, least numbers and sums over finite sets |
| `SfeIPv4Proofs` | proofs about `SfeIPv4` |
| `SfeIPv4Refines` | proof that `SfeIPv4` implements `SfeRuleTable` |
| `SfeLists` | abstract specification: what the lists and hash chains promise to the engine |
| `SfeListLinks` | the pointers that implement them |
| `SfeListLinksProofs` | proofs about `SfeListLinks`, and that it implements `SfeLists` |
| `SfeTcp` | the TCP windows of one connection in the engine and in conntrack |
| `SfeTcpProofs` | proofs about `SfeTcp` |
| `SfeCm` | the connection manager around one tuple |
| `SfeCmProofs` | proofs about `SfeCm` |
| `FastClassifier` | the fast classifier around one tuple |
| `FastClassifierProofs` | proofs about `FastClassifier` |
| `MhiPm` | power management of the modem |
| `MhiPmProofs` | proofs about `MhiPm` |
| `MCSfeIPv4`, `MCSfeListLinks`, `MCSfeTcp`, `MCSfeCm`, `MCFastClassifier`, `MCMhiPm` | instances for TLC |

The modules meet at interfaces.  `SfeListLinks` implements `SfeLists`, which is how
`SfeIPv4` sees its lists.  `SfeIPv4` implements `SfeRuleTable`, which is how `SfeCm`
and `SfeTcp` see the engine: `SfeCm` adds the times that messages carry and the
conntrack entry they are for, `SfeTcp` the windows, and `FastClassifier` sees of it only
whether there is a rule and whose packet made it.  `MhiPm` has no interface with the others.

Definitions whose comment begins with `Wrong:` are not part of any specification.  Each
is a plausible mistake in the code next to it; put in its place, it breaks one property,
which is how each property is known to be able to fail.

### `SfeIPv4`

One action per critical section of `si->lock`, plus one for each stretch of code that
runs between two of them and does something.  `pc[p]` is where a context `p` is
between critical sections, `own[p]` the unlinked connection it is flushing,
`request[p]` the create request it has checked against `reg_state`, `sweep[p]` the
devices its `destroy_all_rules_for_dev` is about.  `timer_pc`, `quota` and `sis` are
the same for the timer.

| code | action |
|---|---|
| `sfe_ipv4_create_rule`, test of `reg_state` | `CreateRuleCheck` |
| ... `-EADDRINUSE`, `-ENOMEM` | `CreateRuleFail` |
| ... allocation, fill-in, `insert_sfe_ipv4_connection` | `CreateRuleInsert` |
| `sfe_ipv4_destroy_rule` | `DestroyRule` |
| `sfe_ipv4_destroy_all_rules_for_dev`, first and later rounds | `DestroyAllRulesForDev`, `AnotherRound` |
| `sfe_ipv4_flush_sfe_ipv4_connection`: read the callback, call it, free | `FlushReadCallback`, `FlushSync`, `FlushFree` |
| `sfe_ipv4_recv_udp`, `_tcp`, `_icmp` | `RecvUdp`, `RecvTcp`, `RecvIcmp` |
| `sfe_ipv4_periodic_sync`: enter, first turn, callback, next turn | `SyncStart`, `SyncEnter`, `SyncCall`, `SyncRelock` |
| `sfe_ipv4_register_sync_rule_callback` | `RegisterSyncRuleCallback` |

Abstractions.  A 5-tuple is one value, and address translation is the pair of the
original and the reply tuple.  Which test of a packet fails is a choice: a packet that
finds a match is either forwarded or takes the connection out of the tables, as the
handler's tests decide from data that is not modelled; packets the handler leaves to
the stack change nothing.  An allocation may fail at any time.  Hash chains are
replaced by what a look-up finds in them (the newest match of a key), which
`SfeListLinks` shows to be what the chains deliver.  `update_rule` and `mark_rule`
change window edges and a mark that nothing here reads.  `unreported` is a ghost: per
tuple and direction, the packets forwarded minus the packets reported.

### `SfeListLinks`

`mem` holds every `next`, `prev`, `head` and `tail` of the four lists; insertions,
removals, the move of a hit to the head of its chain, activation and the two removals
of a sync are the pointer assignments of the code, in its order where order matters.
Freshly allocated and freed memory reads `Poison`.  Every action is one critical
section, so there is no interleaving here: what is hard is the sequence of operations.

### `SfeTcp`

A client sends data, a server acknowledges it, both keep to the protocol, and the
network before the router loses, repeats and reorders.  Whether a segment takes the
fast or the slow path depends on whether there is a rule when it arrives.

| code | action |
|---|---|
| `sfe_ipv4_recv_tcp`, window tests passed, state advanced | `FastPath` (`Fits`, `Advance`) |
| ... a test failed: remove, flush | `Flush`, `DeliverFlush` |
| `sfe_ipv4_process_tcp_option_sack` | `SackEdge` |
| `sfe_cm_post_routing`: copy the windows; leave the packet alone | `FillInRequest`, `Skip` |
| `sfe_ipv4_create_rule`, `sfe_ipv4_update_tcp_state` | `CreateRule` (`FromRequest`, `Merge`) |
| `sfe_ipv4_periodic_sync`, `sfe_cm_sync_rule` | `PeriodicSync`, `DeliverSync` |
| any other removal of the rule | `DestroyRule`, `DeliverFlush` |

Sequence numbers are numbers modulo `M`, compared as the code compares them: as serial
numbers by `(s32)(a - b)`, and as plain numbers in the SACK option and for `max_win`.
conntrack's own tracking (external) makes the same tests and advances the same way,
with serial numbers in the SACK option too.

Abstractions.  One connection, data in one direction, segments of one length, a window
scale of 0 (the code scales a window on reading and never again), no SYN, FIN or RST
(the engine flushes on them, which is `DestroyRule`).  post_routing copies the windows
without conntrack's lock; the model lets conntrack change between the two directions,
and reads the three numbers of a direction at once.  Connections without sequence
checking are outside.  What conntrack finds invalid goes on without an entry, or is
dropped if the firewall says so (`DropInvalid`).

### `SfeCm`

One 5-tuple, whose conntrack entries (`entry`, numbered by `born`) come and go.
`job[p]` is what a context does next: a packet in the stack (`slow`), inside
post_routing with `request[p]` (`routing`), the timer's walk (`walk`), conntrack's
destruction of an entry (`event`, `unhash`).  `unlinked[p]` and `message[p]` are a rule
taken out but not flushed and the increment of a message not yet delivered.

| code | action |
|---|---|
| `sfe_cm_recv`: not accelerated; forwarded; the engine removes the rule | `Miss`, `Forward`, `FlushOnPacket` |
| `sfe_cm_post_routing`: look up the entry; end in `create_rule` | `Conntrack`, `CreateRule` |
| `sfe_cm_conntrack_event`, `sfe_ipv4_destroy_rule` | `ConntrackEvent` |
| flush, `sfe_ipv4_gen_sync_sfe_ipv4_connection` | `Flush` |
| `sfe_cm_sync_rule` | `SyncRule` |
| `sfe_ipv4_periodic_sync` | `SyncStart`, `SyncHead`, `SyncEnd` |
| `sfe_cm_device_event`, `sfe_cm_inet_event` | `DeviceEvent` |
| `sfe_cm_init`, its failure exits, `sfe_cm_exit` | `Register`, `Fail`, `Remove`, `Unregister` |
| conntrack, the clock (external) | `Kill`, `Unhash`, `Tick` |

Abstractions.  Fixed timeouts, the assured bit of UDP entries and the reasons for which
post_routing refuses a packet are one choice: it goes on or it does not.  post_routing
is over within the jiffy in which conntrack refreshed the entry (it runs in a softirq
on one packet), so `Tick` waits for it; nothing else is bounded in time, and messages
may be delivered arbitrarily late.  `rcu_barrier` waits for callbacks posted by
`call_rcu`, of which there are none, and so for no reader: it is a step that does
nothing.  `orphaned` is a ghost: the entries whose rule nobody could have removed.

### `FastClassifier`

One 5-tuple, whose conntrack entries come and go as in `SfeCm`.  `table` and `size` are
`fc_conn_ht` and `sfe_connections_size`; `conn[o]` is what an object of the allocator
holds, so that a pointer to freed memory (`held[p]`) reads whatever is there by now.
`job[p]` is what a context does next inside post_routing.

| code | action |
|---|---|
| `fast_classifier_post_routing` up to the drop of the lock | `PostRouting` (`Hit`, `Due`, `Closing`) |
| ... a connection that is offloaded already | `UpdateRule` |
| ... resolve the devices, then fail or add the connection | `ResolveFail`, `AddConn` |
| ... after the drop: create the rule, tell the listeners, set the flag | `CreateRule`, `Announce`, `SetOffloaded` |
| `fast_classifier_conntrack_event`: table and message; after the drop | `ConntrackEvent`; `DestroyRule`, `SendDone` |
| `fast_classifier_offload_genl_msg` | `OffloadRequest` |
| notifiers, and removals by the engine itself | `EngineFlush` |
| `fast_classifier_init`, its failure exits, `fast_classifier_exit` | `Register`, `Fail`, `Remove`, `Unregister` |
| conntrack (external) | `Conntrack`, `Kill`, `Unheard`, `Unhash` |

Abstractions.  Marks and the reasons for which post_routing refuses a packet are one
choice.  `sync_rule` is the code of `sfe_cm_sync_rule`, which `SfeCm` and `SfeTcp`
model, and touches nothing here.  A request names the translated destination, and the
bucket is computed from it, while connections are added under the original tuple:
`SameBucket` says whether the two hash to one bucket.  Without it a request never finds
the connection of a translated flow.  `late` is a ghost: the entries whose destroy event
came while a packet of theirs was still in post_routing, or found nobody listening.

### `MhiPm`

One thread per place that moves the states: the `tasklet` of the control events, `st`
and `syserr` for the two workers, `rpm` for runtime PM and `remove` for the removal of
the PCI device; `job[t]` is what it does next.  The interrupt thread does all it does in
one action.  An action is what runs under one hold of `pm_lock`, or between two waits.

| code | action |
|---|---|
| `mhi_ctrl_ev_task`, its look at the modem when there is no event | `CtrlEvTask`, `LookAtModem` |
| `mhi_process_ctrl_ev_ring` | `M0Transition`, `RingDoorbells`, `M1Transition`, `M3Transition`, `SysErrEvent`, `MissionModeEvent`, `TaskletDone` |
| `mhi_intvec_threaded_handlr` | `IntvecThread` |
| `mhi_pm_st_worker`, `mhi_ready_state_transition`, `mhi_init_mmio` | `StWorker`, `ReadyWait`, `ReadyTransition`, `ReadyTimeout`, `InitMmio` |
| `mhi_pm_mission_mode_transition`, `__mhi_device_get_sync`, `mhi_create_devices` | `MissionWake`, `MissionWait`, `MissionTimeout`, `MissionEe`, `MissionCheck`, `CreateDevice`, `AddDevice` |
| `mhi_pm_sys_err_worker`, `mhi_status_cb` | `SysErrWorker`, `SysErrForbidden` |
| `mhi_pm_disable_transition`, of a recovery or of the removal | `DisableTransition`, `ResetModem`, `ResetTimeout`, `KillTasklet`, `DestroyDevices`, `FlushWorkers`, `ResetRings`, `Disable` |
| `mhi_pci_remove`, `mhi_power_down` | `RemoveDevice`, `PowerOff`, `PowerDown`, `Free` |
| `mhi_runtime_suspend`, `mhi_pm_suspend` | `RuntimeSuspend`, `EnterM3`, `RpmWait`, `RpmTimeout` |
| `mhi_runtime_resume`, `mhi_pm_resume` | `RuntimeResume`, `RpmWait`, `RpmTimeout` |
| `mhi_queue_skb` | `Queue` |
| the modem (external) | `Boot`, `Obey`, `Idle`, `Crash`, `Transfer` |

Abstractions.  The modem starts in its mission-mode firmware: the boot loaders, the
download of firmware (whose worker is no longer scheduled by this version),
emergency download and RAM dumps are left out, so that `ee` has the values a running
modem reports and `PBL`, what may be read of a crashed one.  The transfer rings are one
transfer that waits to be rung.  `dev_wake` is not counted because this version of the
code does not count it: the doorbell is rung if `dev_state` is M2 at that moment.  Suspend
and resume of the system take the same steps as those of runtime PM.  Reading a register
of a modem that has crashed may say anything (`ExecEnvs`).  `races` is a history: a wait
has timed out (`timeout`), a READY transition that was still queued ran inside a recovery
(`crossed`), or the removal began while a recovery had given up `pm_mutex`
(`overtaken`).

## 3. What is checked

| run | instance | shows |
|---|---|---|
| `engine_safety` | 2 connections, 2 contexts and the timer, 2 rules with one reply key, one device that goes down, `MaxRx` 1 | all invariants of `SfeIPv4` |
| `engine_liveness` | 2 connections, 1 context and the timer, 2 rules on a device that may go away, quota of one match per period | counts get reported, removed connections get freed, a device that has gone is released for good; every step of the engine is a step of `SfeRuleTable` or none |
| `list_pointers` | 3 connections in shared chains, two reply matches with one key | the pointers are sound and implement `SfeLists` |
| `tcp_one_context` | 2 segments on the wire, one in the router, 4 segments of data across the wrap | neither the rule nor conntrack rejects a segment that is still useful |
| `tcp_two_contexts` | 2 segments in the router with stale requests and late messages, across the wrap | what passed is always known to somebody; a rule's edges only advance |
| `tcp_duplicate_sack` | as the first, with duplicate SACKs | **violation**: `max_win` is not a window |
| `manager_lifecycle` | 2 contexts, the timer and conntrack, 2 entries, 3 jiffies, the manager loaded and unloaded | rules follow their entries and keep them alive; a manager that is gone has left nothing registered |
| `manager_exit` | 1 context | **violation**: a rule is left behind |
| `manager_increment` | a periodic sync longer than a jiffy | **violation**: a negative increment |
| `classifier_lifecycle` | 2 contexts, conntrack, 2 objects, 3 entries, offload after 2 packets, netlink requests, the classifier loaded and unloaded | table, rule, flag and messages follow the entries, except after the one race that is named |
| `classifier_offload` | 1 context, 1 entry | **violation**: a connection is never offloaded a second time |
| `modem_power` | one session, one crash | states agree, nothing works on freed rings, transfers, errors and the removal come to their end |

### Bounds, and why they are enough

* *Engine.*  Two contexts and the timer make every pair of operations meet between any
  two critical sections; two connections make the sharing of a reply key, the reuse of
  an object after `kfree`, the re-creation of a tuple while its old connection is being
  flushed, and both matches of a connection on the active list next to another one.
  `MaxRx` is one because a counter matters here by being zero or not and by the sums it
  enters.  `SyncShare` is the 64 of the code; 1 lets a period handle everything, 2 makes
  connections compete for a quota of one.
* *Lists.*  Three connections, so that a removal from the middle exists in every list;
  buckets are shared so that chains hold matches with equal and with different keys.
* *TCP.*  `M` = 64 with windows of 4, so that everything alive spans less than half the
  space (`SpaceAssumption`), as with 32 bits; `Start` lies just below the wrap, so that
  edges, acknowledgements and SACK blocks all cross it.  `Stream` is twice the window,
  since only then must `max_end` have advanced for the last segments to fit.
* *Manager.*  Two entries, so that a late message can meet the next one; a `Timeout` of
  2 and a clock of 3, so that an entry expires under a rule unless its sync extends it;
  two contexts, so that one can be in post_routing while another removes the rule.

* *Classifier.*  Two contexts, so that both may be the first packet, or one may hold a
  connection that the other loses; two objects, so that a freed one comes back as another
  connection or not; three entries, so that a context can be late by two; `OffloadAt` 2,
  so that the first packet is not yet enough.
* *Modem.*  One crash and with it one recovery, which the removal, runtime PM and the
  events of the modem can meet at every step: every suspend and resume can be repeated
  for ever, and the recovery brings back the state in which it began.

`CHECK_DEADLOCK` is off where the system really ends: the TCP stream, a classifier that
is unloaded, a modem that is removed.

### Fairness

`engine_liveness` assumes weak fairness of `Continue(p)` (a context inside the engine
goes on: all it waits for is `si->lock`, which is held for bounded critical sections) and of
`Timer` (the timer re-arms itself at the end of every period).  Nothing is assumed of
packets, requests or devices; they may go on for ever, and the counts of one connection
are still reported although others compete for the quota, because a synced match leaves
the list and comes back at its tail.

`classifier_offload` assumes that packets keep coming and that post_routing goes on with
each (`BusySpec`); what it refutes does not depend on anything else.

`modem_power` assumes that threads go on and that `wait_event_timeout` returns, by the
event or by the timeout (weak fairness of a worker together with its timeout); that a
modem that has not crashed does what it is asked for; that the tasklet empties the ring
now and then (strong fairness of `TaskletDone`: the modem cannot fill it for ever faster
than the host handles it); and that a mutex and `tasklet_kill` let whoever waits through
in the end (strong fairness of `Session` and `Removal`), which the kernel's mutex and
`tasklet_kill` provide.  Nothing is assumed of crashes, transfers, suspends or the
removal.

### What a counterexample of the code shows

* `tcp_duplicate_sack` (`sfe_ipv4.c:1544`, `:1549`): SACK edges are compared as plain
  numbers.  A duplicate SACK of data below the wrap, with an acknowledgement above it,
  makes `scaled_win` wrap; `max_win` becomes a number close to 2^32 and is merged into
  conntrack.  From then on the tests that use it refuse next to nothing.
* `manager_exit` (`sfe_cm.c:1188`): the rules are destroyed before the post-routing hook
  is unregistered, so that a packet in between makes one that stays.
* `manager_increment` (`sfe_ipv4.c:2877`): the clock is read once before a walk that
  waits for its callbacks; a rule made during it is younger, and the increment that
  should keep its connection alive shortens its life instead.
* `classifier_offload` (`fast-classifier.c:1059`): the flag that a connection is offloaded
  is never cleared while it lives.  Once the engine has removed the rule by itself, the
  connection stays in the slow path, although `fast-classifier.c:816` says "auto offload
  connection once we have this many packets".

### Limits of what holds

* `UsefulSegmentsFit` and `HandedBack` hold with one segment in the router at a time.
  With two they do not: between the copy of the windows and `create_rule`, or while a
  message is on its way, a second segment advances windows that the first does not know,
  and a rule may start with windows that are too old.  The engine then removes it at the
  first segment that does not fit, and the flow goes on in the slow path.  What remains
  true with two is that nothing is forgotten and that edges only advance.
* `NothingForgotten` needs a firewall that drops invalid segments: one that forwards
  them lets pass what nobody records.
* `KeepsAlive` needs a sync that is over within a jiffy; see `manager_increment`.  It is
  about the entry a rule was made from: a late message may also extend the next entry
  of the tuple, which the property allows because it only makes that live longer.
* `OrphansOnlyFromRaces` names the race it excepts: conntrack's event misses a rule
  that post_routing is about to make.  Such a rule stays until a packet flushes it, its
  device goes down or the manager exits.
* `GoneIsClean` needs `CONFIG_NF_CONNTRACK_CHAIN_EVENTS`, which the package sets
  (`Makefile:58`).  The undo of the post-routing hook (`sfe_cm.c:1139`) is compiled in only
  there, where nothing can fail after the hook, so the run does not reach it; with `ChainEvents = FALSE` in `MCSfeCm.cfg` a load that fails leaves the hook
  registered.
* The classifier's properties except what is in `late`: a packet that holds its entry
  does not keep the connection of the entry, and what it does after the event (use a
  freed object, make a rule, send OFFLOADED) nobody undoes.  The run shows that this is the
  only way in which any of it happens.
* `AnnouncedIsUndone` and `FlagAgrees` are about the calls that send OFFLOADED and DONE.
  The netlink family is registered after the hooks (`InitOrder`) and unregistered before
  them (`ExitOrder`), and a message needs memory: a call may reach no listener, and at exit
  listeners learn from the family's removal, not from a DONE, that nothing is offloaded.
* `SweptIsReleased` excepts a `create_rule` that tested `reg_state` before the device left
  and takes the lock after the sweep: the rule it makes keeps the device until the rule is
  removed for another reason.  The property is that nothing else does, and that the sweep ends.
* `PacketsConserved` takes the counts of a flush that finds no callback for settled:
  nobody is there to be told (`sfe_ipv4.c:1159`), and they are gone with the connection.
* The modem's properties except the races by name, each of which is needed.  `crossed`: a
  recovery waits for `st_worker` with `pm_state` at SYS_ERR_PROCESS, from which a queued
  READY transition may move it; both then write `dev_state`.  `overtaken`: nobody waits for
  `syserr_worker`, which works on when the removal has freed the rings.  `timeout`: the
  wake doorbell is not rung for a modem that enters M2 a moment later, the wait of a
  resume times out, and runtime PM stays in its error state.
* `mhi_create_devices` runs without a lock after the last look at `pm_state`; the sweep of
  a recovery or a removal may be over before the device is added.  The model has the
  steps, and no property is stated about it.
* `mhi_ctrl_ev_task` reads a register after it has looked at `pm_state` and says why that
  is safe (`core/mhi_main.c:1695-1699`): no way that the state changes in between.  In the
  model the removal's `PowerDown` does change it there, to LD_ERR_FATAL_DETECT.  What the
  tasklet reads then cannot move `pm_state` back, since the table leads from there only to
  SHUTDOWN_PROCESS; no property is stated about the read itself.

## 4. What is proved

The proofs assume what the modules assume of their constants: finitely many connection
objects, requests over the given tuples and devices, `SyncShare` positive, `None` not a
value of anything, the timer and conntrack's context different from the contexts that
handle packets, pointers to different objects different from each other, from null and
from what freed memory holds, and in `SfeTcp` that everything alive spans less than half the sequence
space.  They hold for any number of contexts, connections, devices, tuples, entries and
crashes, for any hash functions, and for any sequence space, stream, window and number of segments.

| theorem | states |
|---|---|
| `SfeIPv4Proofs`: `Invariance` | `Spec => []IInv` |
| `TypeCorrect`, `TablesAlwaysAgree`, `TuplesStayUnique`, `ActiveListStaysExact`, `UnsyncedStaysActive`, `OwnerIsUnique` | its conjuncts, invariants of `engine_safety` |
| `DevRefsStayBalanced`, `PacketsStayConserved` | the two sums, `DevRefsBalanced` and `PacketsConserved` |
| `SfeIPv4Refines`: `Refinement` | `Spec => ImplementsRuleTable` |
| `SfeListLinksProofs`: `TypeCorrect`, `ListsWellLinked`, `TablesExact` | `TypeOK`, `WellLinked`, `ChainsExact` |
| `PointersImplementLists` | `Spec => ImplementsLists` |
| `SfeTcpProofs`: `TypeCorrect` | `TypeOK` |
| `EdgesNeverRecede` | `EdgesAdvance`, without duplicate SACKs |
| `NothingForgottenDropping` | `NothingForgotten`, without duplicate SACKs, if the firewall drops what is invalid |
| `UsefulSegmentsAccepted`, `FlowHandedBack`, `NothingForgottenAlone` | `UsefulSegmentsFit`, `HandedBack`, `NothingForgotten`, without duplicate SACKs, with one segment at a time |
| `WindowsAsAnnounced` | `LargestWindow`, without duplicate SACKs |
| `SfeCmProofs`: `Invariance` | `Spec => []IInv` |
| `TypeCorrect`, `OrphansExplained` | `TypeOK`, `OrphansOnlyFromRaces` |
| `RuleKeepsEntryAlive` | `KeepsAlive`, if no sync lasts longer than a jiffy |
| `NothingLeftRegistered` | `GoneIsClean`, with `CONFIG_NF_CONNTRACK_CHAIN_EVENTS` |
| `FastClassifierProofs`: `Invariance` | `Spec => []IInv` |
| `TypeCorrect`, `TableStaysSound` | `TypeOK`, `TableSound` |
| `ConnsFollowEntries`, `RulesFollowEntries`, `HeldObjectsStayLive` | `DanglingOnlyFromRaces`, `OrphansOnlyFromRaces`, `HeldObjectsLive` |
| `ListenersAgree`, `FlagsAgreeWithMessages` | `AnnouncedIsUndone`, `FlagAgrees` |
| `RulesStayEarned` | `RulesAreEarned` |
| `MhiPmProofs`: `Invariance`, `TypeCorrect` | `Spec => []IInv`, `TypeOK` |
| `ContextOutlives` | `ContextOutlivesWork` |
| `StatesAgree`, `SuspendedStaysAsleep` | `DevStateAgrees`, `SuspendedIsM3` |

**The engine.**  `IInv` is the conjunction of the invariants, and none is inductive
alone.  A removal takes a connection out of the all-connections list by its value, which
keeps list and objects in step only if the list has no duplicates (`TablesAgree`), and a
flush frees only what no other context owns (`SingleOwner`), or an object would become
free while linked.  `ActiveListExact` is kept by the removal of both matches because it
says that an unflagged match is not on the list; the periodic sync needs it to know that
the head it handles is linked.  `UniqueTuples` is what makes "the connection of the
tuple" one connection.  `DataLemmas` states once what removing the first occurrence,
taking the tail and appending do to the elements and to the injectivity of a sequence;
the three operators are the only operations on both lists.  There is one lemma per
action and `NextIInv` combines them.

**Its books.**  `DevRefsBalanced` and `PacketsConserved` are sums over the connections in
memory.  The fold that sums is a recursive function on subsets; `DataLemmas` proves by
well-founded induction on their cardinality that the function exists and that every sum
that is defined like it is the one total, and from that what adding an element, removing
one and changing the number of one do (`TotalAdd`, `TotalRemove`, `TotalChange`).  Each
action then changes at most one summand on each side.  `Books` adds two facts: a
context that has reported its connection has nothing left to report when it frees it
(`SyncedIsZero`), and the timer has a message only until it has delivered it (`SisExact`).

**The refinement.**  The abstract table is read off the linked connection of each tuple,
and the messages off what each context is flushing and what the timer is about to
deliver.  `UniqueTuples` makes the first a function, `SingleOwner` the second, and
`SisExact` is what it needs of the timer.  Four kinds of step change what a caller sees
(insertion, removal, a forwarded packet, the head of the active list in a sync), one
lemma each; the callbacks deliver a message; for all others the lemmas show that nothing is
seen to change.

**The pointers.**  `WellLinked` and `ChainsExact` speak of what a walk from a head meets,
and a walk is a recursive function: an assignment in the middle of a list changes all of
it.  The invariant says instead that there is a sequence of nodes for each list
(`LInv == \E Q : Shape(linked, active, mem, Q)`) that memory spells out: `Holds` relates
every `head`, `tail`, `next` and `prev` to the neighbours in `Q`, and says that the
pointers of `InUse`, all those of linked connections and the active ones of flagged
matches, lie on one list each and no other pointer on any.  Each assignment of the code is one lemma
about one list (push at the head, append, unlink, move to the head) that also says that
no pointer of another list is touched, and a handler chains them.  Two facts more are
needed.  An idle match has a null `active_next` (`Idle`): recv appends it without setting
that pointer.  Of two matches in a chain with the same key the newer comes first
(`NewestFirst`); moving a match to the head keeps this only because a look-up stops at
the first of its key.  The walks come back at the end: over a list that `Holds` they
give `Q[l]`, by induction on its length for this one function.  The step of the invariant and
the step of the refinement are one lemma (`NextStep`): it says what `Q` becomes and which
action of `SfeLists` that is; the removal that a FIN or a RST causes is a `DestroyRule`
there.  A sync takes the counter match of the head and then the head off the active
list, whichever they are, a removal the reply and then the original; `Without` has one
order for both, and removing two different matches commutes.

**The windows.**  Sequence numbers wrap and so have no order; their positions in the
stream (`Pos`, how far behind the start a number is) have one, and within half the space
the serial difference of the code is the difference of positions (`DiffPos`).  Everything
is stated in positions.  `Protocol` says what the segments on their way may be, given
what the endpoints have sent and received; `EdgesPlausible` that all windows anywhere (in
the rule, in conntrack, in requests and messages) lie between what was sent and
announced.  `EdgesAdvance` follows from it, since within half the space a comparison
tells the later of two edges.  `PassedKnown` says that what has arrived at an endpoint is
known to the rule, to conntrack or to a message between them, and that for a segment in
the stack conntrack already knows it; that is where a firewall comes in that drops what
conntrack has not recorded.  With one segment at a time more is true (`LeaderKnows`): the rule while
there is one, then the message about its removal, then conntrack knows all that anybody
knows (`Leader`), so that a segment that is still useful fits (`LeaderFits`).  This needs
of the acknowledgements that they come in order (`Orderly`): a later one announces no
smaller edge, and its SACK blocks report what has arrived.  Duplicate SACKs are excluded
because with them `max_win` is no window; `tcp_duplicate_sack` shows it.

**The manager.**  That a rule without its entry is an orphan is not inductive: the rule
may come from a request, and the entry may be about to go.  `RequestsKnown` says of
requests what the property says of rules, and `DyingHandled` that between conntrack's
event and the end of the entry neither a rule nor a request of it is left that is not
an orphan.  `KeepsAlive` needs three facts more (`AliveInv`): entries to come are unknown
to rules and requests (`IdsKnown`), so that a new entry owes nothing to an old rule; no
time noted is ahead of the clock (`TimesPast`), so that every message only adds; and an
entry that post_routing holds has just been refreshed (`RequestsFresh`), so that a new
rule starts with a full `Timeout`.  The step that matters is `SyncHead`: what the rule's
clock gains, the timer's message owes.

**The classifier.**  That everything follows its entry except after a race is not
inductive: between the deletion of an entry and its event, and between the event and the
end of `DestroyRule` and `SendDone`, connection, rule and announcement may be those of an
entry that is not live.  `IInv` says what is true in that window (they are those of the
entry that conntrack is destroying, `Dying`), of every packet inside post_routing (its
entry is live or late, `PacketsCurrent`), of every object it holds (in the table and of
its own entry, or late, `HeldObjectsLive`), and that a context about to create a rule has
earned it (`CreatorsEarned`) or to set the flag has announced (`FlagsToCome`).  Since the
lock is not held, each of these has to survive every step of every other context.

**The modem, its removal.**  A removal first moves `pm_state` to a state from which the
table leads only towards DISABLE, and the recoveries, the events and the transitions that
ran then are waited for one after the other; each of the four facts (`StaysDisabled`,
`NoRecovery`, `NoEvents`, `NoTransitions`) holds from its wait to the end, because none
of them can begin again in those states (`RemovalOwnsState`, `Ways`).  A removal that
overtakes a recovery has none of this, which is why the property names it.
`TypeCorrect` includes that `pm_mutex` is held by exactly the thread that is in a section
it protects, on every error path too.

**The modem, its sleep.**  `SInv` says what the modem, the ring of its events and the
states of the host may be together.  Asleep is what the modem is only while it is asked to
be (`mhictrl`), and that it fell asleep is the last it says, once (`SleepsWhenAsked`).
Runtime PM can ask only once a session has been through mission mode, and each session
gets there through one READY and one mission-mode event (`StartsOnce`, `OneMission`);
before that, and inside a recovery, which forbids runtime PM and waits for it, runtime PM
is at rest (`RuntimeRests`).  A recovery keeps `pm_state` in error until it makes the
modem READY itself, or a READY of `st_worker` has crossed it (`RecoverySays`), the one case
in which `pm_state` gets to M0, M2 or M3 without the `dev_state` that belongs to it.  `SuspendSays` follows runtime PM
through suspend and resume: where it stands, `pm_state` stands, or there was an error.

### Only model-checked

* `TrafficReported`, `RemovedIsFreed`, `SweptIsReleased`, `QueuedIsRung`,
  `ErrorIsProcessed`, `RemovalEnds`: liveness under fairness, out of the prover's reach.
* The four counterexamples.

## 5. What is not modelled

* `update_rule` and `mark_rule`: marks and window edges set from netlink-side callers,
  which the models' state does not include.
* Packet rewriting and checksums; the debug device; flow cookies; statistics.
* The IPv6 engine: the same code with wider addresses; a difference between the two
  files would not be seen here.
* Of the fast classifier: marks, its `sync_rule`, the threshold in sysfs while it changes,
  counters and the debug output.
* Of the modem's driver: boot loaders and the download of firmware, emergency download,
  RAM dumps, the commands that start and stop channels, the data rings, the user-space
  interface and the network device on top, the reset through debugfs.
* Kernel memory: moves of packet data, the lifetime of `skb`s, RCU beyond what exit
  waits for.
* The other packages of the feed; `PROJECT.json` lists the larger ones with the reason.

## 6. Plan

1. *A data ring of the modem*: the write pointer, the doorbell and the completion, with
   the ring reset by a recovery.
2. *`FlowCookie`*: the table, the switch in sysfs, and a look-up that does not test it.
3. *Checksums* as pure operators over a reduced width against a reference definition.
4. *The exit of the engine*: the sweep of the table before the timer is stopped.
5. *`update_rule`, `mark_rule`, the cursor of the debug device.*
