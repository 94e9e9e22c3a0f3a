----------------------------- MODULE SfeCmProofs -----------------------------
(***************************************************************************)
(* The connection manager for any number of contexts and of entries, any   *)
(* Timeout and any clock: rules outlive their entries only after the race  *)
(* that OrphansOnlyFromRaces names, and keep their entries alive.          *)
(***************************************************************************)
EXTENDS SfeCm, TLAPS

\* What every step of the proofs uses of the constants and the types.
LEMMA Constants ==
    /\ Timeout \in Nat /\ MaxEntries \in Nat /\ Horizon \in Nat
    /\ Gc \in Contexts /\ Timer \in Contexts /\ Gc # Timer
    /\ Cpus \subseteq Contexts
    /\ Gc \notin Cpus /\ Timer \notin Cpus
    /\ None \notin Int /\ None \notin Ids /\ None \notin Entries /\ None \notin Rules
<1>1. None \notin Ids
  BY NoneAssumption, TimeAssumption DEF Ids
<1> QED
  BY <1>1, TimeAssumption, ContextsAssumption, NoneAssumption DEF Contexts, Gc, Timer

\* Typing is preserved by every step.
LEMMA TypeStep == TypeOK /\ DyingHandled /\ [Next]_vars => TypeOK'
<1> SUFFICES ASSUME TypeOK, DyingHandled, [Next]_vars PROVE TypeOK'
  OBVIOUS
<1> USE Constants DEF TypeOK
<1>1. ASSUME NEW p \in Contexts, Flush(p) PROVE TypeOK'
  BY <1>1 DEF Flush, kernel, module
<1>2. ASSUME NEW p \in Contexts, SyncRule(p) PROVE TypeOK'
  BY <1>2 DEF SyncRule, kernel, module, Entries
<1>3. SyncStart => TypeOK'
  BY DEF SyncStart, kernel, module
<1>4. SyncHead => TypeOK'
  <2> SUFFICES ASSUME SyncHead PROVE TypeOK'
    OBVIOUS
  <2>1. rule \in Rules /\ rule.last_sync \in Nat
    BY DEF SyncHead, Rules
  <2>2. sync_start - rule.last_sync \in Int
    BY <2>1
  <2>3. rule' \in Rules
    BY <2>1 DEF SyncHead, Rules
  <2>4. message' \in [Contexts -> Int \cup {None}]
    BY <2>2 DEF SyncHead
  <2>5. \A p \in Contexts : unlinked'[p] = None \/ message'[p] = None
    BY DEF SyncHead, DyingHandled, kernel
  <2> QED
    BY <2>3, <2>4, <2>5 DEF SyncHead, kernel, module
<1>5. SyncEnd => TypeOK'
  BY DEF SyncEnd, kernel, module, engine
<1>6. Kill => TypeOK'
  BY DEF Kill, module, engine, Entries
<1>7. Unhash => TypeOK'
  BY DEF Unhash, module, engine
<1>8. ConntrackEvent => TypeOK'
  BY DEF ConntrackEvent, Unlink, kernel, module, DyingHandled, Entries, Rules
<1>9. ASSUME NEW p \in Cpus, Miss(p) PROVE TypeOK'
  BY <1>9 DEF Miss, Idle, kernel, module, engine
<1>10. ASSUME NEW p \in Cpus, Forward(p) PROVE TypeOK'
  BY <1>10 DEF Forward, kernel, module, Rules
<1>11. ASSUME NEW p \in Cpus, FlushOnPacket(p) PROVE TypeOK'
  BY <1>11 DEF FlushOnPacket, Unlink, Idle, kernel, module, Rules
<1>12. ASSUME NEW p \in Cpus, Conntrack(p) PROVE TypeOK'
  <2>1. born < MaxEntries =>
          [id |-> born + 1, expires |-> now + Timeout, dying |-> FALSE] \in Entries
    BY DEF Entries, Ids
  <2>2. Live => [entry EXCEPT !.expires = now + Timeout] \in Entries
    BY DEF Live, Entries
  <2>3. entry' \in Entries \cup {None}
    BY <1>12, <2>1, <2>2 DEF Conntrack, kernel
  <2>4. born' \in 0 .. MaxEntries
    BY <1>12 DEF Conntrack, kernel
  <2>5. job' \in [Contexts -> {"idle", "slow", "routing", "walk", "event", "unhash"}]
    BY <1>12 DEF Conntrack
  <2>6. request' \in [Cpus -> Ids \cup {None}]
    BY <1>12 DEF Conntrack, Live, Entries
  <2>7. \A q \in Cpus : job'[q] = "routing" <=> request'[q] # None
    BY <1>12 DEF Conntrack, Live, Entries
  <2> QED
    BY <1>12, <2>3, <2>4, <2>5, <2>6, <2>7 DEF Conntrack, engine
<1>13. ASSUME NEW p \in Cpus, CreateRule(p) PROVE TypeOK'
  <2>1. request[p] \in Ids /\ p \in Contexts
    BY <1>13 DEF CreateRule
  <2>2. [entry |-> request[p], last_sync |-> now, active |-> FALSE] \in Rules
    BY <2>1 DEF Rules
  <2>3. rule' \in Rules \cup {None}
    BY <1>13, <2>2 DEF CreateRule
  <2>4. \A q \in Cpus : job'[q] = "routing" <=> request'[q] # None
    BY <1>13 DEF CreateRule
  <2> QED
    BY <1>13, <2>4, <2>3 DEF CreateRule, kernel, module
<1>14. ASSUME NEW p \in Cpus, DeviceEvent(p) PROVE TypeOK'
  BY <1>14 DEF DeviceEvent, Unlink, Idle, kernel, module, Rules
<1>15. Register \/ Fail \/ Remove => TypeOK'
  BY DEF Register, Fail, Remove, kernel, engine
<1>16. Unregister => TypeOK'
  BY DEF Unregister, kernel
<1>17. Tick => TypeOK'
  BY DEF Tick, kernel, engine, module
<1>18. UNCHANGED vars => TypeOK'
  BY DEF vars, kernel, engine, module
<1> QED
  BY <1>1, <1>2, <1>3, <1>4, <1>5, <1>6, <1>7, <1>8, <1>9, <1>10, <1>11, <1>12,
     <1>13, <1>14, <1>15, <1>16, <1>17, <1>18 DEF Next

\* The initial state satisfies the inductive invariant: nothing has happened.
LEMMA InitIInv == Init => IInv
<1> SUFFICES ASSUME Init PROVE IInv
  OBVIOUS
<1> USE Constants DEF Init
<1>1. TypeOK
  BY DEF TypeOK
<1>2. OrphansOnlyFromRaces /\ RequestsKnown
  BY DEF OrphansOnlyFromRaces, RequestsKnown
<1>3. DyingHandled
  BY DEF DyingHandled
<1> QED
  BY <1>1, <1>2, <1>3 DEF IInv

\* sync_rule extends the entry it finds, if that has not expired, and leaves its
\* identity alone.
LEMMA SyncKeepsEntry ==
    ASSUME TypeOK, NEW p \in Contexts, SyncRule(p)
    PROVE  /\ entry' = None <=> entry = None
           /\ entry # None => entry'.id = entry.id /\ entry'.dying = entry.dying
           /\ entry # None /\ entry.expires > now => entry'.expires = entry.expires + message[p]
           /\ entry # None /\ ~(entry.expires > now) => entry'.expires = entry.expires
<1>1. CASE entry # None /\ entry.expires > now
  <2>1. [entry EXCEPT !.expires = @ + message[p]] \in Entries
    BY <1>1 DEF TypeOK, Entries, SyncRule
  <2>2. entry' = [entry EXCEPT !.expires = @ + message[p]]
    BY <1>1 DEF SyncRule
  <2>3. /\ entry'.id = entry.id /\ entry'.dying = entry.dying
        /\ entry'.expires = entry.expires + message[p]
    BY <1>1, <2>2, Constants DEF TypeOK, Entries
  <2> QED
    BY <1>1, <2>1, <2>2, <2>3, Constants
<1>2. CASE ~(entry # None /\ entry.expires > now)
  BY <1>2 DEF SyncRule
<1> QED
  BY <1>1, <1>2

\* The deletion of an entry changes nothing else of it until it is gone.
LEMMA KillKeepsEntry ==
    ASSUME TypeOK, Kill
    PROVE  /\ entry # None /\ entry' # None /\ entry'.dying
           /\ entry'.id = entry.id /\ entry'.expires = entry.expires
<1>1. entry \in Entries /\ entry # None /\ entry' = [entry EXCEPT !.dying = TRUE]
  BY DEF Kill, TypeOK
<1>2. /\ entry' \in Entries /\ entry'.dying
      /\ entry'.id = entry.id /\ entry'.expires = entry.expires
  BY <1>1 DEF Entries
<1> QED
  BY <1>1, <1>2, Constants

\* A packet refreshes the entry it finds, and makes one only where there is none.
LEMMA ConntrackKeepsEntry ==
    ASSUME TypeOK, NEW p \in Cpus, Conntrack(p), entry # None
    PROVE  /\ entry' # None /\ entry'.id = entry.id /\ entry'.dying = entry.dying
           /\ \/ entry' = entry /\ request' = request
              \/ Live /\ entry'.expires = now + Timeout
<1>1. entry \in Entries
  BY DEF TypeOK
<1>2. CASE entry' = entry /\ request' = request
  BY <1>2
<1>3. CASE Live /\ entry' = [entry EXCEPT !.expires = now + Timeout]
  <2>1. /\ entry' \in Entries /\ entry'.id = entry.id /\ entry'.dying = entry.dying
        /\ entry'.expires = now + Timeout
    BY <1>1, <1>3, Constants DEF Entries, TypeOK
  <2> QED
    BY <1>3, <2>1, Constants
<1> QED
  BY <1>2, <1>3 DEF Conntrack, kernel

\* Otherwise it makes one that nobody has held before.
LEMMA ConntrackMakesEntry ==
    ASSUME TypeOK, NEW p \in Cpus, Conntrack(p), entry = None, entry' # None
    PROVE  /\ entry'.id = born + 1 /\ born' = born + 1
           /\ entry'.expires = now + Timeout /\ request' = request
  BY DEF Conntrack, Live, kernel

\* Only the race and the deaf manager make orphans, in every step.
LEMMA OrphanStep == IInv /\ [Next]_vars => OrphansOnlyFromRaces'
<1> SUFFICES ASSUME IInv, [Next]_vars PROVE OrphansOnlyFromRaces'
  OBVIOUS
<1> USE Constants DEF IInv, OrphansOnlyFromRaces
<1>1. ASSUME NEW p \in Contexts, Flush(p) PROVE OrphansOnlyFromRaces'
  BY <1>1 DEF Flush, kernel
<1>2. ASSUME NEW p \in Contexts, SyncRule(p) PROVE OrphansOnlyFromRaces'
  BY <1>2, SyncKeepsEntry DEF SyncRule
<1>3. SyncStart \/ SyncEnd => OrphansOnlyFromRaces'
  BY DEF SyncStart, SyncEnd, kernel, engine
<1>4. SyncHead => OrphansOnlyFromRaces'
  BY DEF SyncHead, kernel, TypeOK, Rules
<1>5. Kill => OrphansOnlyFromRaces'
  BY KillKeepsEntry DEF Kill, engine
<1>6. Unhash => OrphansOnlyFromRaces'
  BY DEF Unhash, engine, DyingHandled
<1>7. ConntrackEvent => OrphansOnlyFromRaces'
  BY DEF ConntrackEvent, Unlink
<1>8. ASSUME NEW p \in Cpus, Miss(p) PROVE OrphansOnlyFromRaces'
  BY <1>8 DEF Miss, kernel, engine
<1>9. ASSUME NEW p \in Cpus, Forward(p) PROVE OrphansOnlyFromRaces'
  BY <1>9 DEF Forward, kernel, TypeOK, Rules
<1>10. ASSUME NEW p \in Cpus, FlushOnPacket(p) \/ DeviceEvent(p) PROVE OrphansOnlyFromRaces'
  BY <1>10 DEF FlushOnPacket, DeviceEvent, Unlink
<1>11. ASSUME NEW p \in Cpus, Conntrack(p) PROVE OrphansOnlyFromRaces'
  BY <1>11, ConntrackKeepsEntry DEF Conntrack, Live, kernel, engine
<1>12. ASSUME NEW p \in Cpus, CreateRule(p) PROVE OrphansOnlyFromRaces'
  <2>1. request[p] # None
    BY <1>12 DEF CreateRule, TypeOK
  <2> QED
    BY <1>12, <2>1 DEF CreateRule, kernel, RequestsKnown
<1>13. Register \/ Fail \/ Remove \/ Tick => OrphansOnlyFromRaces'
  BY DEF Register, Fail, Remove, Tick, kernel, engine
<1>14. Unregister => OrphansOnlyFromRaces'
  BY DEF Unregister, kernel
<1>15. UNCHANGED vars => OrphansOnlyFromRaces'
  BY DEF vars, kernel, engine
<1> QED
  BY <1>1, <1>2, <1>3, <1>4, <1>5, <1>6, <1>7, <1>8, <1>9, <1>10, <1>11, <1>12,
     <1>13, <1>14, <1>15 DEF Next

\* A request outlives its entry only as an orphan, after every step.
LEMMA RequestStep == IInv /\ [Next]_vars => RequestsKnown'
<1> SUFFICES ASSUME IInv, [Next]_vars PROVE RequestsKnown'
  OBVIOUS
<1> USE Constants DEF IInv, RequestsKnown
<1>1. ASSUME NEW p \in Contexts, Flush(p) PROVE RequestsKnown'
  BY <1>1 DEF Flush, kernel
<1>2. ASSUME NEW p \in Contexts, SyncRule(p) PROVE RequestsKnown'
  BY <1>2, SyncKeepsEntry DEF SyncRule
<1>3. SyncStart \/ SyncHead \/ SyncEnd => RequestsKnown'
  BY DEF SyncStart, SyncHead, SyncEnd, kernel
<1>4. Kill => RequestsKnown'
  BY KillKeepsEntry DEF Kill
<1>5. Unhash => RequestsKnown'
  BY DEF Unhash, DyingHandled, Requested
<1>6. ConntrackEvent => RequestsKnown'
  BY DEF ConntrackEvent, kernel
<1>7. ASSUME NEW p \in Cpus, Miss(p) \/ Forward(p) \/ FlushOnPacket(p) \/ DeviceEvent(p)
      PROVE  RequestsKnown'
  BY <1>7 DEF Miss, Forward, FlushOnPacket, DeviceEvent, kernel
<1>8. ASSUME NEW p \in Cpus, Conntrack(p) PROVE RequestsKnown'
  BY <1>8, ConntrackKeepsEntry DEF Conntrack, Live, kernel, TypeOK
<1>9. ASSUME NEW p \in Cpus, CreateRule(p) PROVE RequestsKnown'
  BY <1>9 DEF CreateRule, kernel, TypeOK
<1>10. Register \/ Fail \/ Remove \/ Unregister \/ Tick => RequestsKnown'
  BY DEF Register, Fail, Remove, Unregister, Tick, kernel
<1>11. UNCHANGED vars => RequestsKnown'
  BY DEF vars, kernel
<1> QED
  BY <1>1, <1>2, <1>3, <1>4, <1>5, <1>6, <1>7, <1>8, <1>9, <1>10, <1>11 DEF Next

\* The context that destroys entries keeps its order, in every step.
LEMMA DyingStep == IInv /\ [Next]_vars => DyingHandled'
<1> SUFFICES ASSUME IInv, [Next]_vars PROVE DyingHandled'
  OBVIOUS
<1> USE Constants DEF IInv, DyingHandled
<1>1. ASSUME NEW p \in Contexts, Flush(p) PROVE DyingHandled'
  BY <1>1 DEF Flush, kernel, TypeOK, Requested
<1>2. ASSUME NEW p \in Contexts, SyncRule(p) PROVE DyingHandled'
  <2>1. /\ entry' = None <=> entry = None
        /\ entry # None => entry'.id = entry.id /\ entry'.dying = entry.dying
    BY <1>2, SyncKeepsEntry
  <2>2. message'[Gc] = message[Gc] \/ message'[Gc] = None
    BY <1>2 DEF SyncRule, TypeOK
  <2> QED
    BY <1>2, <2>1, <2>2 DEF SyncRule, Requested
<1>3. SyncStart \/ SyncEnd => DyingHandled'
  BY DEF SyncStart, SyncEnd, kernel, engine, TypeOK, Requested
<1>4. SyncHead => DyingHandled'
  BY DEF SyncHead, kernel, TypeOK, Rules, Requested
<1>5. Kill => DyingHandled'
  BY KillKeepsEntry DEF Kill, Idle, engine, TypeOK, Requested
<1>6. Unhash => DyingHandled'
  BY DEF Unhash, engine, TypeOK, Requested
<1>7. ConntrackEvent => DyingHandled'
  BY DEF ConntrackEvent, Unlink, kernel, TypeOK, Requested
<1>8. ASSUME NEW p \in Cpus, Miss(p) PROVE DyingHandled'
  BY <1>8 DEF Miss, kernel, engine, TypeOK, Requested
<1>9. ASSUME NEW p \in Cpus, Forward(p) PROVE DyingHandled'
  BY <1>9 DEF Forward, kernel, TypeOK, Rules, Requested
<1>10. ASSUME NEW p \in Cpus, FlushOnPacket(p) PROVE DyingHandled'
  BY <1>10 DEF FlushOnPacket, Unlink, kernel, TypeOK, Requested
<1>11. ASSUME NEW p \in Cpus, DeviceEvent(p) PROVE DyingHandled'
  BY <1>11 DEF DeviceEvent, Unlink, kernel, TypeOK, Requested
<1>12. ASSUME NEW p \in Cpus, Conntrack(p) PROVE DyingHandled'
  BY <1>12, ConntrackKeepsEntry DEF Conntrack, Live, kernel, engine, TypeOK, Requested
<1>13. ASSUME NEW p \in Cpus, CreateRule(p) PROVE DyingHandled'
  <2>1. request[p] # None /\ p # Gc /\ p # Timer
    BY <1>13 DEF CreateRule, TypeOK
  <2>2. \A id \in Ids : Requested(id)' => Requested(id)
    BY <1>13 DEF CreateRule, Requested, TypeOK
  <2>3. rule' = rule \/ rule' = None \/ (rule' # None /\ rule'.entry = request[p])
    BY <1>13 DEF CreateRule
  <2>4. rule' # None /\ rule'.entry = entry.id =>
           (rule # None /\ rule.entry = entry.id) \/ Requested(entry.id)
    BY <1>13, <2>3 DEF Requested
  <2>5. entry # None => entry.id \in Ids
    BY DEF TypeOK, Entries
  <2> QED
    BY <1>13, <2>1, <2>2, <2>4, <2>5 DEF CreateRule, kernel, TypeOK
<1>14. Register \/ Fail \/ Remove \/ Tick => DyingHandled'
  BY DEF Register, Fail, Remove, Tick, kernel, engine, Requested
<1>15. Unregister => DyingHandled'
  BY DEF Unregister, kernel, Requested
<1>16. UNCHANGED vars => DyingHandled'
  BY DEF vars, kernel, engine, Requested
<1> QED
  BY <1>1, <1>2, <1>3, <1>4, <1>5, <1>6, <1>7, <1>8, <1>9, <1>10, <1>11, <1>12,
     <1>13, <1>14, <1>15, <1>16 DEF Next

\* Requests, dying entries and orphans stay accounted for as long as the manager
\* and conntrack run.
THEOREM Invariance == Spec => []IInv
<1>1. IInv /\ [Next]_vars => IInv'
  BY TypeStep, OrphanStep, RequestStep, DyingStep DEF IInv
<1> QED
  BY InitIInv, <1>1, PTL DEF Spec

\* Every variable of the manager, the engine's side and conntrack's keeps its
\* type, for every number of contexts and entries.
THEOREM TypeCorrect == Spec => []TypeOK
<1>1. IInv => TypeOK
  BY DEF IInv
<1> QED
  BY Invariance, <1>1, PTL

\* conntrack_event leaves a rule behind its entry only if post_routing was at
\* work on that entry, or nobody was listening.
THEOREM OrphansExplained == Spec => []OrphansOnlyFromRaces
<1>1. IInv => OrphansOnlyFromRaces
  BY DEF IInv
<1> QED
  BY Invariance, <1>1, PTL

-----------------------------------------------------------------------------
(* A rule keeps its entry alive, if no sync lasts longer than a jiffy.     *)

\* Nothing has a time yet.
LEMMA InitAlive == Init => AliveInv
<1> SUFFICES ASSUME Init PROVE AliveInv
  OBVIOUS
<1> USE Constants DEF Init
<1>1. TypeOK
  BY InitIInv DEF IInv
<1>2. IdsKnown /\ KeepsAlive
  BY DEF IdsKnown, KeepsAlive
<1>3. TimesPast /\ RequestsFresh
  BY DEF TimesPast, RequestsFresh
<1> QED
  BY <1>1, <1>2, <1>3 DEF AliveInv

\* An entry that conntrack makes is new to the rule and to every request.
LEMMA IdsStep == IInv /\ IdsKnown /\ [Next]_vars => IdsKnown'
<1> SUFFICES ASSUME TypeOK, IdsKnown, [Next]_vars PROVE IdsKnown'
  BY DEF IInv
<1> USE Constants DEF IdsKnown
<1>1. ASSUME NEW p \in Contexts, Flush(p) PROVE IdsKnown'
  BY <1>1 DEF Flush, kernel
<1>2. ASSUME NEW p \in Contexts, SyncRule(p) PROVE IdsKnown'
  BY <1>2, SyncKeepsEntry DEF SyncRule
<1>3. SyncStart \/ SyncEnd => IdsKnown'
  BY DEF SyncStart, SyncEnd, kernel, engine
<1>4. SyncHead => IdsKnown'
  BY DEF SyncHead, kernel, TypeOK, Rules
<1>5. Kill => IdsKnown'
  BY KillKeepsEntry DEF Kill, engine
<1>6. Unhash \/ ConntrackEvent => IdsKnown'
  BY DEF Unhash, ConntrackEvent, Unlink, kernel, engine
<1>7. ASSUME NEW p \in Cpus, Miss(p) PROVE IdsKnown'
  BY <1>7 DEF Miss, kernel, engine
<1>8. ASSUME NEW p \in Cpus, Forward(p) PROVE IdsKnown'
  BY <1>8 DEF Forward, kernel, TypeOK, Rules
<1>9. ASSUME NEW p \in Cpus, FlushOnPacket(p) \/ DeviceEvent(p) PROVE IdsKnown'
  BY <1>9 DEF FlushOnPacket, DeviceEvent, Unlink, kernel
<1>10. ASSUME NEW p \in Cpus, Conntrack(p) PROVE IdsKnown'
  <2>1. /\ born \in Nat /\ born' \in {born, born + 1} /\ rule' = rule
        /\ rule # None => rule.entry \in Nat
        /\ \A q \in Cpus : request[q] \in Nat \/ request[q] = None
        /\ entry # None => entry.id \in Nat
    BY <1>10 DEF Conntrack, kernel, engine, TypeOK, Rules, Entries, Ids
  <2>2. entry' # None => entry'.id <= born'
    BY <1>10, <2>1, ConntrackKeepsEntry, ConntrackMakesEntry
  <2>3. \A q \in Cpus : request'[q] # None => request'[q] <= born'
    BY <1>10, <2>1 DEF Conntrack, Live, TypeOK
  <2> QED
    BY <2>1, <2>2, <2>3
<1>11. ASSUME NEW p \in Cpus, CreateRule(p) PROVE IdsKnown'
  <2>1. request[p] # None
    BY <1>11 DEF CreateRule, TypeOK
  <2> QED
    BY <1>11, <2>1 DEF CreateRule, kernel, TypeOK
<1>12. Register \/ Fail \/ Remove \/ Tick => IdsKnown'
  BY DEF Register, Fail, Remove, Tick, kernel, engine
<1>13. Unregister => IdsKnown'
  BY DEF Unregister, kernel
<1>14. UNCHANGED vars => IdsKnown'
  BY DEF vars, kernel, engine
<1> QED
  BY <1>1, <1>2, <1>3, <1>4, <1>5, <1>6, <1>7, <1>8, <1>9, <1>10, <1>11, <1>12,
     <1>13, <1>14 DEF Next

\* No increment is negative: a periodic sync is over before the clock moves on.
LEMMA TimesStep == ~LongWalks /\ IInv /\ TimesPast /\ [Next]_vars => TimesPast'
<1> SUFFICES ASSUME ~LongWalks, TypeOK, DyingHandled, TimesPast, [Next]_vars PROVE TimesPast'
  BY DEF IInv
<1> USE Constants DEF TimesPast
<1>1. ASSUME NEW p \in Contexts, Flush(p) PROVE TimesPast'
  BY <1>1 DEF Flush, TypeOK
<1>2. ASSUME NEW p \in Contexts, SyncRule(p) PROVE TimesPast'
  BY <1>2 DEF SyncRule, TypeOK
<1>3. SyncStart \/ SyncEnd => TimesPast'
  BY DEF SyncStart, SyncEnd, engine, TypeOK
<1>4. SyncHead => TimesPast'
  BY DEF SyncHead, TypeOK, Rules
<1>5. Kill \/ Unhash => TimesPast'
  BY DEF Kill, Unhash, engine, TypeOK
<1>6. ConntrackEvent => TimesPast'
  BY DEF ConntrackEvent, Unlink, TypeOK
<1>7. ASSUME NEW p \in Cpus, Miss(p) PROVE TimesPast'
  BY <1>7 DEF Miss, engine, TypeOK
<1>8. ASSUME NEW p \in Cpus, Forward(p) PROVE TimesPast'
  BY <1>8 DEF Forward, TypeOK, Rules
<1>9. ASSUME NEW p \in Cpus, FlushOnPacket(p) \/ DeviceEvent(p) PROVE TimesPast'
  BY <1>9 DEF FlushOnPacket, DeviceEvent, Unlink, TypeOK
<1>10. ASSUME NEW p \in Cpus, Conntrack(p) PROVE TimesPast'
  BY <1>10 DEF Conntrack, engine, TypeOK
<1>11. ASSUME NEW p \in Cpus, CreateRule(p) PROVE TimesPast'
  BY <1>11 DEF CreateRule, TypeOK
<1>12. Register \/ Fail \/ Remove => TimesPast'
  BY DEF Register, Fail, Remove, engine
<1>13. Unregister => TimesPast'
  BY DEF Unregister
<1>14. Tick => TimesPast'
  BY DEF Tick, engine, TypeOK, Rules
<1>15. UNCHANGED vars => TimesPast'
  BY DEF vars, engine
<1> QED
  BY <1>1, <1>2, <1>3, <1>4, <1>5, <1>6, <1>7, <1>8, <1>9, <1>10, <1>11, <1>12,
     <1>13, <1>14, <1>15 DEF Next

\* A request is over before the refresh that it followed grows old.
LEMMA FreshStep ==
    IInv /\ IdsKnown /\ TimesPast /\ RequestsFresh /\ [Next]_vars => RequestsFresh'
<1> SUFFICES ASSUME TypeOK, IdsKnown, TimesPast, RequestsFresh, [Next]_vars
             PROVE  RequestsFresh'
  BY DEF IInv
<1> USE Constants DEF RequestsFresh
<1>1. ASSUME NEW p \in Contexts, Flush(p) PROVE RequestsFresh'
  BY <1>1 DEF Flush, kernel
<1>2. ASSUME NEW p \in Contexts, SyncRule(p) PROVE RequestsFresh'
  <2>1. message[p] \in Nat
    BY <1>2 DEF SyncRule, TypeOK, TimesPast
  <2>2. entry # None => entry.expires \in Int
    BY DEF TypeOK, Entries
  <2> QED
    BY <1>2, <2>1, <2>2, SyncKeepsEntry DEF SyncRule, TypeOK
<1>3. SyncStart \/ SyncHead \/ SyncEnd => RequestsFresh'
  BY DEF SyncStart, SyncHead, SyncEnd, kernel
<1>4. Kill => RequestsFresh'
  BY KillKeepsEntry DEF Kill
<1>5. Unhash \/ ConntrackEvent => RequestsFresh'
  BY DEF Unhash, ConntrackEvent, kernel
<1>6. ASSUME NEW p \in Cpus, Miss(p) \/ Forward(p) \/ FlushOnPacket(p) \/ DeviceEvent(p)
      PROVE  RequestsFresh'
  BY <1>6 DEF Miss, Forward, FlushOnPacket, DeviceEvent, kernel
<1>7. ASSUME NEW p \in Cpus, Conntrack(p) PROVE RequestsFresh'
  <2>1. now' = now /\ now + Timeout \in Int
    BY <1>7 DEF Conntrack, TypeOK
  <2>2. CASE entry # None
    BY <1>7, <2>1, <2>2, ConntrackKeepsEntry
  <2>3. CASE entry = None /\ entry' # None
    <3>1. \A q \in Cpus : request[q] # born + 1
      BY DEF IdsKnown, TypeOK, Ids
    <3> QED
      BY <1>7, <2>1, <2>3, <3>1, ConntrackMakesEntry
  <2> QED
    BY <2>2, <2>3
<1>8. ASSUME NEW p \in Cpus, CreateRule(p) PROVE RequestsFresh'
  <2>1. entry # None => entry.id # None
    BY DEF TypeOK, Entries
  <2> QED
    BY <1>8, <2>1 DEF CreateRule, kernel, TypeOK
<1>9. Register \/ Fail \/ Remove \/ Unregister => RequestsFresh'
  BY DEF Register, Fail, Remove, Unregister, kernel
<1>10. Tick => RequestsFresh'
  BY DEF Tick, kernel, TypeOK, Entries
<1>11. UNCHANGED vars => RequestsFresh'
  BY DEF vars, kernel
<1> QED
  BY <1>1, <1>2, <1>3, <1>4, <1>5, <1>6, <1>7, <1>8, <1>9, <1>10, <1>11 DEF Next

\* The entry of a rule lasts a Timeout from the last sync, after every step.
LEMMA KeepsStep ==
    IInv /\ IdsKnown /\ TimesPast /\ RequestsFresh /\ KeepsAlive /\ [Next]_vars => KeepsAlive'
<1> SUFFICES ASSUME TypeOK, DyingHandled, IdsKnown, TimesPast, RequestsFresh, KeepsAlive,
                    [Next]_vars
             PROVE  KeepsAlive'
  BY DEF IInv
<1> USE Constants
<1> DEFINE Owed == IF message[Timer] = None THEN 0 ELSE message[Timer]
<1>a. /\ Owed \in Nat /\ now \in Nat
      /\ entry # None => entry.expires \in Int /\ entry.id \in Nat
      /\ rule # None => rule.last_sync \in Nat /\ rule.entry \in Nat
  BY DEF TypeOK, TimesPast, Entries, Rules, Ids
<1>b. ASSUME UNCHANGED <<now, entry, rule>>, message'[Timer] = message[Timer]
      PROVE  KeepsAlive'
  BY <1>b DEF KeepsAlive, Live
<1>1. ASSUME NEW p \in Contexts, Flush(p) PROVE KeepsAlive'
  <2>1. p # Timer
    BY <1>1 DEF Flush, DyingHandled
  <2> QED
    BY <1>1, <1>b, <2>1 DEF Flush, kernel, TypeOK
<1>2. ASSUME NEW p \in Contexts, SyncRule(p) PROVE KeepsAlive'
  <2>1. message[p] \in Nat /\ rule' = rule /\ now' = now
    BY <1>2 DEF SyncRule, TypeOK, TimesPast
  <2>2. message' = [message EXCEPT ![p] = None] /\ message \in [Contexts -> Int \cup {None}]
    BY <1>2 DEF SyncRule, TypeOK
  <2>3. Live' => /\ Live /\ entry'.id = entry.id
                 /\ entry'.expires = entry.expires + message[p]
    BY <1>2, <2>1, <1>a, SyncKeepsEntry DEF Live
  <2>4. Live' /\ rule # None /\ entry'.id = rule.entry =>
           entry.expires + Owed >= rule.last_sync + Timeout
    BY <2>3 DEF KeepsAlive
  <2>5. CASE p = Timer
    <3>1. Owed = message[p] /\ Owed' = 0
      BY <2>1, <2>2, <2>5
    <3> QED
      BY <1>a, <2>1, <2>3, <2>4, <3>1 DEF KeepsAlive, Live
  <2>6. CASE p # Timer
    <3>1. Owed' = Owed
      BY <2>2, <2>6
    <3> QED
      BY <1>a, <2>1, <2>3, <2>4, <3>1 DEF KeepsAlive, Live
  <2> QED
    BY <2>5, <2>6
<1>3. SyncStart \/ SyncEnd => KeepsAlive'
  BY <1>b DEF SyncStart, SyncEnd, kernel, engine
<1>4. SyncHead => KeepsAlive'
  <2> SUFFICES ASSUME SyncHead PROVE KeepsAlive'
    OBVIOUS
  <2>1. /\ rule # None /\ sync_start = now /\ message[Timer] = None
        /\ entry' = entry /\ now' = now
    BY DEF SyncHead, kernel, TimesPast
  <2>2. rule'.entry = rule.entry /\ rule'.last_sync = now
    BY <2>1 DEF SyncHead, TypeOK, Rules
  <2>3. message'[Timer] = now - rule.last_sync
    BY <2>1 DEF SyncHead, TypeOK
  <2>4. message'[Timer] # None
    BY <1>a, <2>1, <2>3
  <2> QED
    BY <1>a, <2>1, <2>2, <2>3, <2>4 DEF KeepsAlive, Live
<1>5. Kill => KeepsAlive'
  BY KillKeepsEntry DEF KeepsAlive, Live
<1>6. Unhash => KeepsAlive'
  BY DEF Unhash, KeepsAlive, Live
<1>7. ConntrackEvent => KeepsAlive'
  BY <1>b DEF ConntrackEvent, Unlink, kernel, KeepsAlive
<1>8. ASSUME NEW p \in Cpus, Miss(p) PROVE KeepsAlive'
  BY <1>8, <1>b DEF Miss, kernel, engine
<1>9. ASSUME NEW p \in Cpus, Forward(p) PROVE KeepsAlive'
  <2>1. /\ rule # None /\ rule'.entry = rule.entry /\ rule'.last_sync = rule.last_sync
        /\ UNCHANGED <<now, entry, message>>
    BY <1>9 DEF Forward, TypeOK, Rules, kernel
  <2> QED
    BY <2>1 DEF KeepsAlive, Live
<1>10. ASSUME NEW p \in Cpus, FlushOnPacket(p) \/ DeviceEvent(p) PROVE KeepsAlive'
  BY <1>10 DEF FlushOnPacket, DeviceEvent, Unlink, KeepsAlive
<1>11. ASSUME NEW p \in Cpus, Conntrack(p) PROVE KeepsAlive'
  <2>1. UNCHANGED <<now, rule, message>>
    BY <1>11 DEF Conntrack, engine
  <2>2. CASE entry # None
    <3>1. entry' = entry \/ (Live /\ entry'.id = entry.id /\ entry'.expires = now + Timeout)
      BY <1>11, <2>2, ConntrackKeepsEntry
    <3>2. rule # None => rule.last_sync <= now
      BY DEF TimesPast
    <3> QED
      BY <1>a, <2>1, <3>1, <3>2 DEF KeepsAlive, Live
  <2>3. CASE entry = None
    <3>1. entry' # None => entry'.id = born + 1
      BY <1>11, <2>3, ConntrackMakesEntry
    <3>2. rule # None => rule.entry <= born
      BY DEF IdsKnown
    <3>3. born \in Nat
      BY DEF TypeOK
    <3> QED
      BY <1>a, <2>1, <3>1, <3>2, <3>3 DEF KeepsAlive, Live
  <2> QED
    BY <2>2, <2>3
<1>12. ASSUME NEW p \in Cpus, CreateRule(p) PROVE KeepsAlive'
  <2>1. UNCHANGED <<now, entry, message>>
    BY <1>12 DEF CreateRule, kernel
  <2>2. \/ rule' = rule
        \/ rule' = None
        \/ rule' # None /\ rule'.entry = request[p] /\ rule'.last_sync = now
    BY <1>12 DEF CreateRule
  <2>3. entry # None /\ entry.id = request[p] => entry.expires >= now + Timeout
    BY DEF RequestsFresh
  <2> QED
    BY <1>a, <2>1, <2>2, <2>3 DEF KeepsAlive, Live
<1>13. Register \/ Fail \/ Remove => KeepsAlive'
  BY <1>b DEF Register, Fail, Remove, kernel, engine
<1>14. Unregister => KeepsAlive'
  BY DEF Unregister, kernel, KeepsAlive, Live
<1>15. Tick => KeepsAlive'
  <2> SUFFICES ASSUME Tick PROVE KeepsAlive'
    OBVIOUS
  <2>1. now' = now + 1 /\ UNCHANGED <<entry, rule, message>>
    BY DEF Tick, kernel, engine
  <2>2. Live' => Live
    BY <1>a, <2>1 DEF Live
  <2> QED
    BY <2>1, <2>2 DEF KeepsAlive
<1>16. UNCHANGED vars => KeepsAlive'
  BY <1>b DEF vars, kernel, engine
<1> QED
  BY <1>1, <1>2, <1>3, <1>4, <1>5, <1>6, <1>7, <1>8, <1>9, <1>10, <1>11, <1>12,
     <1>13, <1>14, <1>15, <1>16 DEF Next

\* While a rule keeps packets from conntrack, the manager keeps the entry: it
\* lasts at least a Timeout from the last sync of the rule, for every number of
\* contexts, entries and late messages, if no sync lasts longer than a jiffy.
THEOREM RuleKeepsEntryAlive ==
    ASSUME ~LongWalks
    PROVE  Spec => []KeepsAlive
<1>1. IInv /\ AliveInv /\ [Next]_vars => AliveInv'
  BY TypeStep, IdsStep, TimesStep, FreshStep, KeepsStep DEF AliveInv, IInv
<1>2. AliveInv => KeepsAlive
  BY DEF AliveInv
<1> QED
  BY InitAlive, Invariance, <1>1, <1>2, PTL DEF Spec

-----------------------------------------------------------------------------
(* Loading and unloading, when the conntrack notifier cannot fail.         *)

\* What is registered is what loading has come to, or what unloading has left.
StepsTaken ==
    /\ hooks \subseteq {"devices", "post_routing", "conntrack", "receive", "sync"}
    /\ phase \in {"load", "up", "unload", "gone"}
    /\ phase = "load" => at \in 1 .. 5 /\ (at <= 2 => hooks \subseteq {"devices"})
    /\ phase = "up" => at = 1
    /\ phase = "unload" => at \in 1 .. 7 /\ \A i \in 1 .. at - 1 : ExitOrder[i] \notin hooks
    /\ phase = "gone" => hooks = {}

\* Every step of loading adds its registration, of unloading removes it.
LEMMA StepsStep == ChainEvents /\ StepsTaken /\ [Next]_vars => StepsTaken'
<1> SUFFICES ASSUME ChainEvents, StepsTaken, [Next]_vars PROVE StepsTaken'
  OBVIOUS
<1> USE DEF StepsTaken
<1>1. ASSUME UNCHANGED module PROVE StepsTaken'
  BY <1>1 DEF module
<1>2. Register => StepsTaken'
  <2> SUFFICES ASSUME Register PROVE StepsTaken'
    OBVIOUS
  <2>1. at \in 1 .. 5 /\ hooks' = hooks \cup {InitOrder[at]}
    BY DEF Register
  <2>2. InitOrder[at] \in {"devices", "post_routing", "conntrack", "receive", "sync"}
    BY <2>1 DEF InitOrder
  <2>3. at = 1 => InitOrder[at] = "devices"
    BY DEF InitOrder
  <2>4. Len(InitOrder) = 5
    BY DEF InitOrder
  <2>5. \/ at < 5 /\ at' = at + 1 /\ phase' = "load"
        \/ at = 5 /\ at' = 1 /\ phase' = "up"
    BY <2>1, <2>4 DEF Register, Proceed
  <2>6. hooks' \subseteq {"devices", "post_routing", "conntrack", "receive", "sync"}
    BY <2>1, <2>2
  <2>7. at = 1 => hooks' \subseteq {"devices"}
    <3>1. phase = "load" /\ (at = 1 => hooks \subseteq {"devices"})
      BY <2>1 DEF Register
    <3> QED
      BY <2>1, <2>3, <3>1
  <2>8. CASE at < 5
    <3>1. at' = at + 1 /\ phase' = "load"
      BY <2>5, <2>8
    <3>2. at' \in 1 .. 5 /\ (at' <= 2 => at = 1)
      BY <2>1, <2>8, <3>1
    <3> QED
      BY <2>6, <2>7, <3>1, <3>2
  <2>9. CASE at = 5
    BY <2>5, <2>6, <2>9
  <2> QED
    BY <2>1, <2>8, <2>9
<1>3. Fail => StepsTaken'
  <2> SUFFICES ASSUME Fail PROVE StepsTaken'
    OBVIOUS
  <2>1. at = 2
    BY DEF Fail, InitOrder
  <2> QED
    BY <2>1 DEF Fail
<1>4. Remove => StepsTaken'
  BY DEF Remove
<1>5. Unregister => StepsTaken'
  <2> SUFFICES ASSUME Unregister PROVE StepsTaken'
    OBVIOUS
  <2>1. /\ at \in 1 .. 7 /\ hooks' = hooks \ {ExitOrder[at]}
        /\ \A i \in 1 .. at - 1 : ExitOrder[i] \notin hooks
    BY DEF Unregister
  <2>2. Len(ExitOrder) = 7
    BY DEF ExitOrder
  <2>3. \/ at < 7 /\ at' = at + 1 /\ phase' = "unload"
        \/ at = 7 /\ at' = 1 /\ phase' = "gone"
    BY <2>1, <2>2 DEF Unregister, Proceed
  <2>4. \A i \in 1 .. at : ExitOrder[i] \notin hooks'
    BY <2>1
  <2>5. at = 7 => hooks' = {}
    <3>1. /\ ExitOrder[1] = "sync" /\ ExitOrder[2] = "receive" /\ ExitOrder[5] = "conntrack"
          /\ ExitOrder[6] = "post_routing" /\ ExitOrder[7] = "devices"
      BY DEF ExitOrder
    <3>2. at = 7 => /\ ExitOrder[1] \notin hooks' /\ ExitOrder[2] \notin hooks'
                    /\ ExitOrder[5] \notin hooks' /\ ExitOrder[6] \notin hooks'
                    /\ ExitOrder[7] \notin hooks'
      BY <2>4
    <3> QED
      BY <2>1, <3>1, <3>2
  <2>6. hooks' \subseteq {"devices", "post_routing", "conntrack", "receive", "sync"}
    BY <2>1
  <2>7. CASE at < 7
    <3>1. at' \in 1 .. 7 /\ at' - 1 = at /\ phase' = "unload"
      BY <2>1, <2>3, <2>7
    <3> QED
      BY <2>4, <2>6, <3>1
  <2>8. CASE at = 7
    BY <2>3, <2>5, <2>6, <2>8
  <2> QED
    BY <2>1, <2>7, <2>8
<1>6. [Next]_vars => Register \/ Fail \/ Remove \/ Unregister \/ UNCHANGED module
  BY DEF Next, vars, Flush, SyncRule, SyncStart, SyncHead, SyncEnd, Kill, Unhash,
         ConntrackEvent, Miss, Forward, FlushOnPacket, Conntrack, CreateRule, DeviceEvent, Tick
<1> QED
  BY <1>1, <1>2, <1>3, <1>4, <1>5, <1>6

\* A manager that is gone has left nothing registered, wherever loading failed
\* and whatever else was going on, if the conntrack notifier cannot fail.
THEOREM NothingLeftRegistered ==
    ASSUME ChainEvents
    PROVE  Spec => []GoneIsClean
<1>1. Init => StepsTaken
  BY DEF Init, StepsTaken
<1>2. StepsTaken => GoneIsClean
  BY DEF StepsTaken, GoneIsClean
<1> QED
  BY <1>1, <1>2, StepsStep, PTL DEF Spec
=============================================================================
