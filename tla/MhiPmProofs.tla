----------------------------- MODULE MhiPmProofs -----------------------------
(***************************************************************************)
(* Who holds pm_mutex, and what the removal of the modem can rely on, for  *)
(* any number of crashes.                                                  *)
(*                                                                         *)
(* The argument is the table of transitions: the removal moves pm_state to *)
(* LD_ERR_FATAL_DETECT, SHUTDOWN_PROCESS and DISABLE, each of which nobody  *)
(* else may leave or enter, except a worker that makes the modem READY.    *)
(* What the removal has waited for therefore does not start again, unless  *)
(* a recovery was past its test of pm_state when the removal overtook it.  *)
(*                                                                         *)
(* That dev_state and pm_state agree, and that a suspended device is in M3, *)
(* rests on the order of the modem's events: it says that it sleeps once,  *)
(* last, and only while it is asked to, and whoever starts a session has   *)
(* waited for runtime PM and forgotten the events of the last one.         *)
(***************************************************************************)
EXTENDS MhiPm, SequenceTheorems, TLAPS

\* What the worker of a recovery and the removal do next.
Ends == {"lock", "kill", "sweep", "flush", "rings"}
StepsTyped == /\ job["syserr"] \in Ends \cup {"idle", "forbid", "reset", "ready", "set", "mmio"}
              /\ job["remove"] \in Ends \cup {"idle", "get", "fatal", "disable", "free", "gone"}

\* The removal moves pm_state where nobody else can take it from.
RemovalOwnsState ==
    /\ pm_state = "DISABLE" => job["remove"] \in {"free", "gone"}
    /\ job["remove"] = "lock" => pm_state = "LD_ERR_FATAL_DETECT"
    /\ job["remove"] \in {"kill", "sweep", "flush", "rings", "disable"}
          => pm_state = "SHUTDOWN_PROCESS"

\* What the removal has waited for stays as it is, unless it has overtaken a recovery.
StaysDisabled == job["remove"] \in {"free", "gone"} => pm_state = "DISABLE"
NoRecovery ==
    job["remove"] \in {"kill", "sweep", "flush", "rings", "disable", "free", "gone"}
       => job["syserr"] \in {"idle", "forbid", "lock"}
NoEvents ==
    job["remove"] \in {"sweep", "flush", "rings", "disable", "free", "gone"}
       => job["tasklet"] = "idle"
NoTransitions ==
    job["remove"] \in {"rings", "disable", "free", "gone"}
       => job["st"] = "idle" /\ transitions = <<>>

IInv ==
    /\ TypeOK
    /\ StepsTyped
    /\ RemovalOwnsState
    /\ "overtaken" \in races \/ (StaysDisabled /\ NoRecovery /\ NoEvents /\ NoTransitions)
    /\ ~mhi_ctxt => job["remove"] = "gone"

-----------------------------------------------------------------------------
\* The states of the table, one by one.
LEMMA PmStatesAre ==
    PmStates = {"DISABLE", "POR", "M0", "M2", "M3_ENTER", "M3", "M3_EXIT", "SYS_ERR_DETECT",
                "SYS_ERR_PROCESS", "SHUTDOWN_PROCESS", "LD_ERR_FATAL_DETECT"}
BY DEF PmStates, mhi_state_transitions

\* The driver starts with every variable in its type.
LEMMA TypeInit == Init => TypeOK
<1> SUFFICES ASSUME Init PROVE TypeOK
  OBVIOUS
<1>1. /\ syserr_work \in BOOLEAN /\ resume \in BOOLEAN /\ allowed \in BOOLEAN
      /\ powered_on \in BOOLEAN /\ children \in BOOLEAN /\ mhi_ctxt \in BOOLEAN
  BY Zenon DEF Init
<1> QED
  BY <1>1, NoneAssumption, MaxErrorsAssumption, PmStatesAre DEF Init, TypeOK, Threads, Steps,
     Section, Awake

\* Every action keeps the types, takes pm_mutex where a section begins and gives it up
\* where it ends.
LEMMA TypeInductive == TypeOK /\ [Next]_vars => TypeOK'
<1> SUFFICES ASSUME TypeOK, [Next]_vars PROVE TypeOK'
  OBVIOUS
<1> USE NoneAssumption, MaxErrorsAssumption, PmStatesAre
    DEF TypeOK, Threads, Steps, Section, host, device, works, runtime, clients, Awake
<1>1. CASE Boot
  BY <1>1 DEF Boot
<1>2. CASE Obey
  <2> DEFINE Kinds == {"M0", "M1", "M3", "SYS_ERR", "AMSS"}
  <2>1. events' \in Seq(Kinds)
    <3>1. \A s \in Seq(Kinds) : events \o s \in Seq(Kinds)
      BY ConcatProperties
    <3>2. <<"M0", "AMSS">> \in Seq(Kinds) /\ <<"M0">> \in Seq(Kinds)
      OBVIOUS
    <3>3. Append(events, "M3") \in Seq(Kinds)
      OBVIOUS
    <3>4. events' \in {events \o <<"M0", "AMSS">>, events \o <<"M0">>, Append(events, "M3")}
      BY <1>2 DEF Obey
    <3> QED
      BY <3>1, <3>2, <3>3, <3>4
  <2>2. modem' \in Awake
    BY <1>2 DEF Obey
  <2> QED
    BY <1>2, <2>1, <2>2 DEF Obey
<1>3. CASE Idle
  BY <1>3 DEF Idle
<1>4. CASE Crash
  BY <1>4 DEF Crash
<1>5. CASE Transfer
  BY <1>5 DEF Transfer
<1>6. CASE Queue
  BY <1>6, SMTT(30) DEF Queue, InError, WakeGet, RequestResume, Suspending, CanResume
<1>7. CASE CtrlEvTask
  BY <1>7 DEF CtrlEvTask, RegAccess, EventAccess, Goto, InError
<1>8. CASE LookAtModem
  <2>1. syserr_work' \in BOOLEAN
    BY <1>8, Zenon DEF LookAtModem, Reaches, Goto
  <2> QED
    BY <1>8, <2>1 DEF LookAtModem, Reaches, Goto
<1>9. CASE M0Transition
  BY <1>9 DEF M0Transition, TrySet, Reaches, Receive, Goto
<1>10. CASE RingDoorbells
  BY <1>10 DEF RingDoorbells, Goto
<1>11. CASE M1Transition
  BY <1>11 DEF M1Transition, Reaches, Receive
<1>12. CASE M3Transition
  BY <1>12 DEF M3Transition, TrySet, Receive, Reaches
<1>13. CASE SysErrEvent
  BY <1>13 DEF SysErrEvent, TrySet, Reaches, Receive
<1>14. CASE MissionModeEvent
  BY <1>14 DEF MissionModeEvent, Receive
<1>15. CASE TaskletDone
  BY <1>15 DEF TaskletDone, Goto
<1>16. CASE IntvecThread
  <2>1. syserr_work' \in BOOLEAN /\ allowed' \in BOOLEAN
    BY <1>16, Zenon DEF IntvecThread, DetectError, Reaches, RegAccess, ExecEnvs, Awake
  <2> QED
    BY <1>16, <2>1 DEF IntvecThread, DetectError, Reaches, RegAccess, ExecEnvs, Awake
<1>17. CASE StWorker
  BY <1>17 DEF StWorker, Goto
<1>18. CASE MissionWake
  BY <1>18, SMTT(30) DEF MissionWake, WakeGet, RequestResume, Goto, Suspending, CanResume
<1>19. CASE MissionWait
  BY <1>19 DEF MissionWait, InError, Goto
<1>20. CASE MissionEe
  BY <1>20 DEF MissionEe, RegAccess, ExecEnvs, Goto, Awake
<1>21. CASE MissionCheck
  BY <1>21 DEF MissionCheck, InError, Goto
<1>22. CASE CreateDevice
  BY <1>22 DEF CreateDevice, Goto
<1>23. CASE AddDevice
  BY <1>23 DEF AddDevice, Goto
<1>24. CASE MissionTimeout
  BY <1>24 DEF MissionTimeout, InError, Goto
<1>25. CASE SysErrWorker
  <2>1. syserr_work' \in BOOLEAN /\ allowed' \in BOOLEAN /\ resume' \in BOOLEAN
    BY <1>25, Zenon DEF SysErrWorker, CanResume, Goto
  <2> QED
    BY <1>25, <2>1 DEF SysErrWorker, CanResume, Goto
<1>26. CASE SysErrForbidden
  BY <1>26 DEF SysErrForbidden, Goto
<1>27. CASE ResetModem
  BY <1>27 DEF ResetModem, Goto
<1>28. CASE ResetTimeout
  BY <1>28 DEF ResetTimeout, Finish, Goto
<1>29. CASE RemoveDevice
  BY <1>29 DEF RemoveDevice, CanResume, Goto
<1>30. CASE PowerOff
  <2>1. powered_on' \in BOOLEAN
    BY <1>30, Zenon DEF PowerOff, Goto
  <2> QED
    BY <1>30, <2>1 DEF PowerOff, Goto
<1>31. CASE PowerDown
  BY <1>31 DEF PowerDown, TrySet, Goto, Reaches
<1>32. CASE Disable
  BY <1>32 DEF Disable, TrySet, Goto, Reaches
<1>33. CASE Free
  <2>1. mhi_ctxt' \in BOOLEAN
    BY <1>33, Zenon DEF Free, Goto
  <2> QED
    BY <1>33, <2>1 DEF Free, Goto
<1>34. CASE RuntimeSuspend
  <2>1. resume' \in BOOLEAN
    BY <1>34, Zenon DEF RuntimeSuspend, InError, WakeGet, Abort, Goto, Finish
  <2> QED
    BY <1>34, <2>1, SMTT(30) DEF RuntimeSuspend, InError, WakeGet, Abort, Goto, Finish
<1>35. CASE RpmWait
  <2>1. resume' \in BOOLEAN
    BY <1>35, Zenon DEF RpmWait, InError, Finish, Abort, Awaited, Goto
  <2> QED
    BY <1>35, <2>1 DEF RpmWait, InError, Finish, Abort, Awaited, Goto
<1>36. CASE EnterM3
  <2>1. resume' \in BOOLEAN
    BY <1>36, Zenon DEF EnterM3, TrySet, Reaches, Abort, Goto, Finish
  <2> QED
    BY <1>36, <2>1 DEF EnterM3, TrySet, Reaches, Abort, Goto, Finish
<1>37. CASE RuntimeResume
  <2>1. resume' \in BOOLEAN
    BY <1>37, Zenon DEF RuntimeResume, Reaches, InError, Abort, Goto, Finish
  <2> QED
    BY <1>37, <2>1 DEF RuntimeResume, Reaches, InError, Abort, Goto, Finish
<1>38. CASE RpmTimeout
  <2>1. resume' \in BOOLEAN /\ allowed' \in BOOLEAN /\ syserr_work' \in BOOLEAN
    BY <1>38, Zenon DEF RpmTimeout, InError, DetectError, Abort, Awaited, Finish, Goto, Reaches, RegAccess, ExecEnvs, Awake
  <2> QED
    BY <1>38, <2>1 DEF RpmTimeout, InError, DetectError, Abort, Awaited, Finish, Goto, Reaches, RegAccess, ExecEnvs, Awake
<1>39. CASE \E w \in {"st", "syserr"} : ReadyTransition(w)
  <2>1. PICK w \in {"st", "syserr"} : ReadyTransition(w)
    BY <1>39
  <2>2. races' \subseteq {"timeout", "crossed", "overtaken"}
    BY <2>1 DEF ReadyTransition
  <2>3. pm_state' \in PmStates /\ dev_state' \in {"RESET", "READY", "M0", "M2", "M3"}
    BY <2>1 DEF ReadyTransition, TrySet
  <2>4. \/ Finish(w)
        \/ Goto(w, "mmio") /\ UNCHANGED pm_mutex
    <3>1. CASE Reaches("POR")
      BY <2>1, <3>1, Zenon DEF ReadyTransition
    <3>2. CASE ~Reaches("POR")
      BY <2>1, <3>2, Zenon DEF ReadyTransition
    <3> QED
      BY <3>1, <3>2
  <2>5. job[w] = "set" /\ UNCHANGED <<ee, device, works, runtime, clients, mhi_ctxt>>
    BY <2>1 DEF ReadyTransition
  <2> QED
    BY <2>2, <2>3, <2>4, <2>5 DEF Finish, Goto
<1>48. CASE \E w \in {"st", "syserr"} : ReadyWait(w)
  <2>1. PICK w \in {"st", "syserr"} : ReadyWait(w)
    BY <1>48
  <2>2. Finish(w) \/ (Goto(w, "set") /\ UNCHANGED pm_mutex)
    BY <2>1, Zenon DEF ReadyWait
  <2>3. job[w] = "ready" /\ UNCHANGED <<host, device, works, runtime, clients, mhi_ctxt, races>>
    BY <2>1 DEF ReadyWait
  <2> QED
    BY <2>2, <2>3 DEF Finish, Goto
<1>40. CASE \E w \in {"st", "syserr"} : InitMmio(w)
  BY <1>40 DEF InitMmio, RegAccess, Finish, Goto
<1>41. CASE \E w \in {"st", "syserr"} : ReadyTimeout(w)
  BY <1>41 DEF ReadyTimeout, Finish, Goto
<1>42. CASE \E w \in {"syserr", "remove"} : DisableTransition(w)
  BY <1>42 DEF DisableTransition, TrySet, Reaches, Target, Goto
<1>43. CASE \E w \in {"syserr", "remove"} : KillTasklet(w)
  BY <1>43 DEF KillTasklet, Goto
<1>44. CASE \E w \in {"syserr", "remove"} : DestroyDevices(w)
  <2>1. children' \in BOOLEAN
    BY <1>44, Zenon DEF DestroyDevices, Goto
  <2> QED
    BY <1>44, <2>1 DEF DestroyDevices, Goto
<1>45. CASE \E w \in {"syserr", "remove"} : FlushWorkers(w)
  BY <1>45 DEF FlushWorkers, Goto
<1>46. CASE \E w \in {"syserr", "remove"} : ResetRings(w)
  BY <1>46 DEF ResetRings, Goto
<1>47. CASE UNCHANGED vars
  BY <1>47 DEF vars
<1> QED
  BY <1>1, <1>2, <1>3, <1>4, <1>5, <1>6, <1>7, <1>8, <1>9, <1>10, <1>11, <1>12, <1>13, <1>14, <1>15, <1>16, <1>17, <1>18, <1>19, <1>20, <1>21, <1>22, <1>23, <1>24, <1>25, <1>26, <1>27, <1>28, <1>29, <1>30, <1>31, <1>32, <1>33, <1>34, <1>35, <1>36, <1>37, <1>38, <1>39, <1>40, <1>41, <1>42, <1>43, <1>44, <1>45, <1>46, <1>47, <1>48 DEF Next, Modem, Tasklet, St, Ready, Session, SysErr, Removal, Rpm

-----------------------------------------------------------------------------
\* Where pm_state may go from the states that a removal moves it through.
LEMMA Ways ==
    /\ mhi_state_transitions["LD_ERR_FATAL_DETECT"] = {"LD_ERR_FATAL_DETECT", "SHUTDOWN_PROCESS"}
    /\ mhi_state_transitions["SHUTDOWN_PROCESS"] = {"DISABLE", "LD_ERR_FATAL_DETECT"}
    /\ mhi_state_transitions["DISABLE"] = {"POR"}
    /\ \A s \in PmStates \ {"DISABLE"} : "LD_ERR_FATAL_DETECT" \in mhi_state_transitions[s]
BY DEF mhi_state_transitions, Fatal, PmStates

\* Each action keeps the rest of the invariant.
LEMMA Inductive == IInv /\ [Next]_vars => IInv'
<1> SUFFICES ASSUME IInv, [Next]_vars
             PROVE  /\ StepsTyped'
                    /\ RemovalOwnsState'
                    /\ ("overtaken" \in races \/ (StaysDisabled /\ NoRecovery /\ NoEvents
                                                  /\ NoTransitions))'
                    /\ (~mhi_ctxt => job["remove"] = "gone")'
  BY TypeInductive DEF IInv
<1> USE Ways, PmStatesAre DEF IInv, TypeOK, Threads, Steps, Section, Ends, StepsTyped,
        RemovalOwnsState, StaysDisabled, NoRecovery, NoEvents, NoTransitions, host, device,
        works, runtime, clients
<1>1. CASE Boot
  BY <1>1 DEF Boot
<1>2. CASE Obey
  BY <1>2 DEF Obey
<1>3. CASE Idle
  BY <1>3 DEF Idle
<1>4. CASE Crash
  BY <1>4 DEF Crash
<1>5. CASE Transfer
  BY <1>5 DEF Transfer
<1>6. CASE Queue
  BY <1>6 DEF Queue, InError
<1>7. CASE CtrlEvTask
  BY <1>7 DEF CtrlEvTask, RegAccess, EventAccess, Goto, InError
<1>8. CASE LookAtModem
  BY <1>8 DEF LookAtModem, Reaches, Goto
<1>9. CASE M0Transition
  BY <1>9, SMTT(30) DEF M0Transition, TrySet, Reaches, Receive, Goto
<1>10. CASE RingDoorbells
  BY <1>10 DEF RingDoorbells, Goto
<1>11. CASE M1Transition
  BY <1>11 DEF M1Transition, Reaches, Receive
<1>12. CASE M3Transition
  BY <1>12 DEF M3Transition, TrySet, Receive, Reaches
<1>13. CASE SysErrEvent
  BY <1>13 DEF SysErrEvent, TrySet, Reaches, Receive
<1>14. CASE MissionModeEvent
  BY <1>14 DEF MissionModeEvent, Receive
<1>15. CASE TaskletDone
  BY <1>15 DEF TaskletDone, Goto
<1>16. CASE IntvecThread
  BY <1>16 DEF IntvecThread, DetectError, Reaches, RegAccess
<1>17. CASE StWorker
  BY <1>17 DEF StWorker, Goto
<1>18. CASE MissionWake
  BY <1>18 DEF MissionWake, Goto
<1>19. CASE MissionWait
  BY <1>19 DEF MissionWait, InError, Goto
<1>20. CASE MissionEe
  BY <1>20 DEF MissionEe, RegAccess, Goto
<1>21. CASE MissionCheck
  BY <1>21 DEF MissionCheck, InError, Goto
<1>22. CASE CreateDevice
  BY <1>22 DEF CreateDevice, Goto
<1>23. CASE AddDevice
  BY <1>23 DEF AddDevice, Goto
<1>24. CASE MissionTimeout
  BY <1>24 DEF MissionTimeout, InError, Goto
<1>25. CASE SysErrWorker
  BY <1>25 DEF SysErrWorker, Goto
<1>26. CASE SysErrForbidden
  BY <1>26 DEF SysErrForbidden, Goto
<1>27. CASE ResetModem
  BY <1>27 DEF ResetModem, Goto
<1>28. CASE ResetTimeout
  BY <1>28 DEF ResetTimeout, Finish, Goto
<1>29. CASE RemoveDevice
  BY <1>29 DEF RemoveDevice, Goto
<1>30. CASE PowerOff
  BY <1>30 DEF PowerOff, Goto
<1>31. CASE PowerDown
  BY <1>31 DEF PowerDown, TrySet, Goto, Reaches
<1>32. CASE Disable
  BY <1>32 DEF Disable, TrySet, Goto, Reaches
<1>33. CASE Free
  BY <1>33 DEF Free, Goto
<1>34. CASE RuntimeSuspend
  BY <1>34 DEF RuntimeSuspend, InError, Abort, Goto, Finish
<1>35. CASE RpmWait
  BY <1>35 DEF RpmWait, InError, Finish, Abort, Awaited, Goto
<1>36. CASE EnterM3
  BY <1>36 DEF EnterM3, TrySet, Reaches, Abort, Goto, Finish
<1>37. CASE RuntimeResume
  BY <1>37 DEF RuntimeResume, Reaches, InError, Abort, Goto, Finish
<1>38. CASE RpmTimeout
  BY <1>38 DEF RpmTimeout, InError, DetectError, Abort, Awaited, Finish, Goto, Reaches, RegAccess
<1>39. CASE \E w \in {"st", "syserr"} : ReadyWait(w) \/ ReadyTransition(w)
  BY <1>39 DEF ReadyWait, ReadyTransition, TrySet, Reaches, Finish, Goto
<1>40. CASE \E w \in {"st", "syserr"} : InitMmio(w)
  BY <1>40 DEF InitMmio, RegAccess, Finish, Goto
<1>41. CASE \E w \in {"st", "syserr"} : ReadyTimeout(w)
  BY <1>41 DEF ReadyTimeout, Finish, Goto
<1>42. CASE \E w \in {"syserr", "remove"} : DisableTransition(w)
  <2>1. CASE DisableTransition("remove")
    <3>1. pm_state = "LD_ERR_FATAL_DETECT" /\ Reaches("SHUTDOWN_PROCESS")
      BY <2>1 DEF DisableTransition, Reaches
    <3>2. pm_state' = "SHUTDOWN_PROCESS" /\ job' = [job EXCEPT !["remove"] = "kill"]
      BY <2>1, <3>1 DEF DisableTransition, TrySet, Target, Goto
    <3>3. job["syserr"] \in {"idle", "forbid", "lock", "sweep", "flush", "rings"}
      BY <2>1, NoneAssumption DEF DisableTransition
    <3>4. "overtaken" \in races' \/ job["syserr"] \in {"idle", "forbid", "lock"}
      BY <2>1, <3>3 DEF DisableTransition
    <3>5. mhi_ctxt
      BY <2>1 DEF DisableTransition
    <3> QED
      BY <2>1, <3>2, <3>3, <3>4, <3>5 DEF DisableTransition
  <2>2. CASE DisableTransition("syserr")
    <3>1. job["remove"] \in {"lock", "kill", "sweep", "flush", "rings", "disable"}
             => ~Reaches("SYS_ERR_PROCESS")
      BY DEF Reaches
    <3>2. CASE Reaches("SYS_ERR_PROCESS")
      BY <2>2, <3>1, <3>2 DEF DisableTransition, TrySet, Target, Goto, Reaches
    <3>3. CASE ~Reaches("SYS_ERR_PROCESS")
      BY <2>2, <3>3 DEF DisableTransition, TrySet, Target, Goto
    <3> QED
      BY <3>2, <3>3
  <2> QED
    BY <1>42, <2>1, <2>2
<1>43. CASE \E w \in {"syserr", "remove"} : KillTasklet(w)
  BY <1>43 DEF KillTasklet, Goto
<1>44. CASE \E w \in {"syserr", "remove"} : DestroyDevices(w)
  BY <1>44 DEF DestroyDevices, Goto
<1>45. CASE \E w \in {"syserr", "remove"} : FlushWorkers(w)
  BY <1>45 DEF FlushWorkers, Goto
<1>46. CASE \E w \in {"syserr", "remove"} : ResetRings(w)
  BY <1>46 DEF ResetRings, Goto
<1>47. CASE UNCHANGED vars
  BY <1>47 DEF vars
<1> QED
  BY <1>1, <1>2, <1>3, <1>4, <1>5, <1>6, <1>7, <1>8, <1>9, <1>10, <1>11, <1>12, <1>13, <1>14, <1>15, <1>16, <1>17, <1>18, <1>19, <1>20, <1>21, <1>22, <1>23, <1>24, <1>25, <1>26, <1>27, <1>28, <1>29, <1>30, <1>31, <1>32, <1>33, <1>34, <1>35, <1>36, <1>37, <1>38, <1>39, <1>40, <1>41, <1>42, <1>43, <1>44, <1>45, <1>46, <1>47
  DEF Next, Modem, Tasklet, St, Ready, Session, SysErr, Removal, Rpm

-----------------------------------------------------------------------------
\* Every variable keeps its type, and no path through the power management keeps
\* pm_mutex longer than its section or gives up one that another thread holds.
THEOREM TypeCorrect == Spec => []TypeOK
<1> QED
  BY TypeInit, TypeInductive, PTL DEF Spec

\* The removal is alone with pm_state once it has taken it, and alone with the rings
\* once it has waited, whatever the other threads were doing.
THEOREM Invariance == Spec => []IInv
<1>1. Init => IInv
  BY TypeInit DEF IInv, Init, StepsTyped, RemovalOwnsState, StaysDisabled, NoRecovery,
     NoEvents, NoTransitions, Threads, Ends
<1> QED
  BY <1>1, Inductive, PTL DEF Spec

\* The tasklet, st_worker and a recovery are through with the rings and the interrupts
\* when the removal frees them, and cannot start again: pm_state is where it stays, and
\* only a removal that began in the middle of a recovery is none the wiser.
THEOREM ContextOutlives == Spec => []ContextOutlivesWork
<1>1. IInv => ContextOutlivesWork
  BY DEF IInv, NoRecovery, NoEvents, NoTransitions, ContextOutlivesWork
<1> QED
  BY <1>1, Invariance, PTL

-----------------------------------------------------------------------------
(* Where the host takes the modem to be.                                   *)

Has(s, x)    == \E i \in 1 .. Len(s) : s[i] = x
Once(s, x)   == \A i, j \in 1 .. Len(s) : s[i] = x /\ s[j] = x => i = j
SleepLast(s) == \A i \in 1 .. Len(s) : s[i] = "M3" => i = Len(s)

Low   == {"M3_ENTER", "M3", "M3_EXIT"}
Error == {"SYS_ERR_DETECT", "SYS_ERR_PROCESS", "SHUTDOWN_PROCESS", "LD_ERR_FATAL_DETECT"}

\* Runtime PM is at rest, with the device awake.
Quiet == job["rpm"] = "idle" /\ rpm_status # "suspended"

\* It will not suspend the device any more, or has nothing to power down.
Settled == \/ ~powered_on
           \/ ~allowed /\ job["syserr"] # "forbid" /\ Quiet

\* The first mission mode is announced by one event and carried out once: the modem
\* has still to boot, the event is in the ring, the work in the list or in st_worker.
Mission == {"wake", "wait_m0", "ee"}
NoMission ==
    /\ modem \notin {"reset", "ready"} /\ ~Has(events, "AMSS")
    /\ ~Has(transitions, "MISSION_MODE") /\ job["st"] \notin Mission
OneMission ==
    /\ modem \in {"reset", "ready"}
          => ~Has(events, "AMSS") /\ ~Has(transitions, "MISSION_MODE") /\ job["st"] \notin Mission
    /\ Has(events, "AMSS") => ~Has(transitions, "MISSION_MODE") /\ job["st"] \notin Mission
    /\ Has(transitions, "MISSION_MODE") => job["st"] \notin Mission
    /\ Once(events, "AMSS") /\ Once(transitions, "MISSION_MODE")

FirstSession ==
    /\ OneMission
    /\ ee \in {"AMSS", "PBL"} => NoMission
    /\ ee # "AMSS" => Quiet

\* A recovery forbids runtime PM and waits for it before it goes on; the removal
\* powers it off.
RuntimeFlags ==
    /\ powered_on <=> job["remove"] \in {"idle", "get"}
    /\ ~powered_on => job["rpm"] = "idle"
    /\ job["syserr"] # "idle" => ~allowed
    /\ ~allowed => job["syserr"] = "forbid" \/ Settled
    /\ pm_state = "SYS_ERR_PROCESS" => Settled
    /\ "crossed" \in races => Settled

\* Runtime PM suspends a device that has been in mission mode, and none that a
\* recovery or the removal is at work on.
RuntimeRests == RuntimeFlags /\ (Settled \/ FirstSession)

\* st_worker has still to make the modem READY.
ReadyPending == Has(transitions, "READY") \/ job["st"] \in {"ready", "set"}

\* Before that the modem is silent and neither sleeps nor is asked to.
StartsOnce ==
    /\ Has(transitions, "READY") => transitions[1] = "READY" /\ job["st"] = "idle"
    /\ Once(transitions, "READY")
    /\ ReadyPending => /\ modem \in {"reset", "ready", "SYS_ERR"}
                       /\ events = <<>>
                       /\ mhictrl = "none"
                       /\ pm_state \in Error \cup {"POR"}
                       /\ job["syserr"] \notin {"rings", "ready", "set", "mmio"}
                       /\ job["remove"] \notin {"rings", "disable", "free", "gone"}
    /\ ReadyPending \/ job["st"] = "mmio" =>
          ee # "AMSS" /\ job["rpm"] = "idle" /\ pm_state \notin Low

\* Asleep only when asked to be, and what the modem says of it comes last.
SleepsWhenAsked ==
    /\ mhictrl = "M3" => pm_state \in {"M3_ENTER", "M3", "DISABLE"} \cup Error
    /\ Has(events, "M3") => pm_state \in {"M3_ENTER", "DISABLE"} \cup Error
    /\ pm_state = "M3_ENTER" => /\ mhictrl = "M3"
                                /\ SleepLast(events)
                                /\ Has(events, "M3") => modem \in {"M3", "SYS_ERR"}
    /\ pm_state = "M3" => mhictrl = "M3" /\ events = <<>> /\ modem \in {"M3", "SYS_ERR"}

\* A recovery keeps pm_state in error until it makes the modem READY, unless the
\* READY of st_worker crosses it.
RecoverySays ==
    /\ job["syserr"] \in {"reset", "kill", "sweep", "flush", "rings", "ready", "set", "mmio"}
          => pm_state \notin Low
    /\ job["syserr"] \in {"kill", "sweep", "flush", "rings", "ready", "set", "mmio"}
          => mhictrl # "M3"
    /\ job["syserr"] \in {"ready", "set", "mmio"} => ~Has(events, "M3")
    /\ job["syserr"] \in {"reset", "kill", "sweep", "flush", "rings", "ready", "set"}
          => pm_state \in Error \cup {"DISABLE"} \/ "crossed" \in races

\* Where runtime PM is, pm_state is, or the modem has crashed.
SuspendSays == powered_on =>
    /\ rpm_status = "suspended" /\ job["rpm"] = "idle" => pm_state \in Error \cup {"M3"}
    /\ job["rpm"] = "wait_m3" =>
          pm_state \in Error \cup {"M3"} \/ (pm_state = "M3_ENTER" /\ dev_state # "M3")
    /\ job["rpm"] = "wait_resume" =>
          pm_state \notin Low \/ (pm_state = "M3_EXIT" /\ dev_state # "M0")
    /\ job["rpm"] \in {"wait_m0", "enter"} \/ (job["rpm"] = "idle" /\ rpm_status = "active")
          => pm_state \notin Low

-----------------------------------------------------------------------------
(* Sequences.                                                              *)

\* What the first element taken from a sequence, and one added to it, change of what
\* it has.
LEMMA HasTail ==
  ASSUME NEW S, NEW s \in Seq(S), s # <<>>
  PROVE  /\ \A x : Has(Tail(s), x) => Has(s, x)
         /\ \A x : Once(s, x) => Once(Tail(s), x)
         /\ Once(s, Head(s)) => ~Has(Tail(s), Head(s))
         /\ Has(s, Head(s)) /\ Head(s) = s[1]
<1>1. /\ Len(s) \in Nat /\ Len(s) >= 1 /\ Len(Tail(s)) = Len(s) - 1
      /\ \A i \in 1 .. Len(Tail(s)) : Tail(s)[i] = s[i + 1]
      /\ Head(s) = s[1]
  OBVIOUS
<1>2. \A i \in 1 .. Len(Tail(s)) : i + 1 \in 1 .. Len(s) /\ i + 1 # 1
  BY <1>1
<1>3. 1 \in 1 .. Len(s)
  BY <1>1
<1> QED
  BY <1>1, <1>2, <1>3 DEF Has, Once

LEMMA HasAppend ==
  ASSUME NEW S, NEW s \in Seq(S), NEW y \in S
  PROVE  /\ Append(s, y) # <<>>
         /\ \A x : Has(Append(s, y), x) <=> Has(s, x) \/ x = y
         /\ \A x : Once(s, x) /\ (x # y \/ ~Has(s, x)) => Once(Append(s, y), x)
         /\ s # <<>> => Append(s, y)[1] = s[1]
         /\ SleepLast(s) /\ ~Has(s, "M3") => SleepLast(Append(s, y))
<1> DEFINE a == Append(s, y)
<1>1. /\ Len(s) \in Nat /\ Len(a) = Len(s) + 1
      /\ \A i \in 1 .. Len(s) : a[i] = s[i]
      /\ a[Len(s) + 1] = y
  BY AppendProperties, LenProperties
<1>2. a # <<>> /\ (s # <<>> => 1 \in 1 .. Len(s))
  <2>1. s # <<>> => Len(s) # 0
    BY EmptySeq
  <2> QED
    BY <1>1, <2>1, AppendProperties
<1> HIDE DEF a
<1>3. /\ \A i : i \in 1 .. Len(a) <=> i \in 1 .. Len(s) \/ i = Len(s) + 1
      /\ Len(s) + 1 \notin 1 .. Len(s)
  BY <1>1
<1>4. \A x : Has(a, x) <=> Has(s, x) \/ x = y
  BY <1>1, <1>3 DEF Has
<1>5. \A x : Once(s, x) /\ (x # y \/ ~Has(s, x)) => Once(a, x)
  BY <1>1, <1>3 DEF Has, Once
<1>6. SleepLast(s) /\ ~Has(s, "M3") => SleepLast(a)
  BY <1>1, <1>3 DEF Has, SleepLast
<1>7. s # <<>> => a[1] = s[1]
  BY <1>1, <1>2
<1> QED
  BY <1>2, <1>4, <1>5, <1>6, <1>7 DEF a

LEMMA HasNothing ==
  /\ \A x : ~Has(<<>>, x) /\ Once(<<>>, x)
  /\ \A s : ~Has(s, "M3") => SleepLast(s)
  BY DEF Has, Once, SleepLast

\* A sequence whose M3 comes last is empty once that is taken.
LEMMA EndsTail ==
  ASSUME NEW S, NEW s \in Seq(S), s # <<>>, SleepLast(s)
  PROVE  SleepLast(Tail(s)) /\ (Head(s) = "M3" => Tail(s) = <<>>)
<1> DEFINE t == Tail(s)
<1>1. /\ Len(s) \in Nat /\ Len(s) >= 1 /\ Len(t) = Len(s) - 1 /\ t \in Seq(S)
      /\ \A i \in 1 .. Len(t) : t[i] = s[i + 1]
      /\ Head(s) = s[1]
  OBVIOUS
<1>2. Len(t) = 0 => t = <<>>
  BY <1>1, EmptySeq
<1> HIDE DEF t
<1>3. \A i \in 1 .. Len(s) : s[i] = "M3" => i = Len(s)
  BY DEF SleepLast
<1>4. ASSUME NEW i \in 1 .. Len(t), t[i] = "M3" PROVE i = Len(t)
  <2>1. i \in Int /\ i + 1 \in 1 .. Len(s) /\ s[i + 1] = "M3"
    BY <1>1, <1>4
  <2> QED
    BY <1>1, <1>3, <2>1
<1>5. Head(s) = "M3" => Len(t) = 0
  BY <1>1, <1>3
<1>6. SleepLast(t) /\ (Head(s) = "M3" => t = <<>>)
  BY <1>2, <1>4, <1>5 DEF SleepLast
<1> QED
  BY <1>6 DEF t

\* What the modem says when it boots.
LEMMA HasBoot ==
  ASSUME NEW S, NEW s \in Seq(S), "M0" \in S, "AMSS" \in S
  PROVE  /\ s \o <<"M0", "AMSS">> = Append(Append(s, "M0"), "AMSS")
         /\ s \o <<"M0">> = Append(s, "M0")
         /\ Append(s, "M0") \in Seq(S)
<1>1. /\ Append(s, "M0") \in Seq(S) /\ <<"M0">> \in Seq(S) /\ <<"AMSS">> \in Seq(S)
      /\ <<"M0", "AMSS">> = Append(<<"M0">>, "AMSS")
  BY AppendProperties
<1>2. /\ Append(s, "M0") = s \o <<"M0">>
      /\ Append(<<"M0">>, "AMSS") = <<"M0">> \o <<"AMSS">>
      /\ Append(Append(s, "M0"), "AMSS") = Append(s, "M0") \o <<"AMSS">>
  BY <1>1, AppendIsConcat
<1>3. (s \o <<"M0">>) \o <<"AMSS">> = s \o (<<"M0">> \o <<"AMSS">>)
  BY <1>1, ConcatAssociative
<1> QED
  BY <1>1, <1>2, <1>3

\* From where the states can be reached.
LEMMA Reachable ==
  ASSUME pm_state \in PmStates
  PROVE  /\ Reaches("POR") <=> pm_state \in {"DISABLE", "POR", "SYS_ERR_PROCESS"}
         /\ Reaches("M0") <=> pm_state \in {"POR", "M0", "M2", "M3_EXIT"}
         /\ Reaches("M2") <=> pm_state \in {"M0", "M2"}
         /\ Reaches("M3_ENTER") <=> pm_state \in {"M0", "M3_ENTER"}
         /\ Reaches("M3") <=> pm_state \in {"M3_ENTER", "M3"}
         /\ Reaches("M3_EXIT") <=> pm_state \in {"M3", "M3_EXIT"}
         /\ Reaches("SYS_ERR_DETECT")
               <=> pm_state \in {"POR", "M0", "M2", "M3_ENTER", "M3", "M3_EXIT", "SYS_ERR_DETECT"}
         /\ Reaches("SYS_ERR_PROCESS") <=> pm_state \in {"SYS_ERR_DETECT", "SYS_ERR_PROCESS"}
         /\ Reaches("SHUTDOWN_PROCESS") <=> pm_state # "DISABLE"
         /\ Reaches("LD_ERR_FATAL_DETECT") <=> pm_state # "DISABLE"
         /\ Reaches("DISABLE") <=> pm_state \in {"POR", "SHUTDOWN_PROCESS", "DISABLE"}
  BY PmStatesAre DEF Reaches, mhi_state_transitions, Fatal

\* The types and the table of pm_state, for all the steps below.
LEMMA Typed ==
  ASSUME IInv
  PROVE  /\ pm_state \in PmStates /\ PmStates = Error \cup Low \cup {"DISABLE", "POR", "M0", "M2"}
         /\ job \in [{"tasklet", "st", "syserr", "rpm", "remove"} -> Steps]
         /\ job["syserr"] \in Ends \cup {"idle", "forbid", "reset", "ready", "set", "mmio"}
         /\ job["remove"] \in Ends \cup {"idle", "get", "fatal", "disable", "free", "gone"}
         /\ pm_state = "DISABLE" => job["remove"] \in {"free", "gone"}
         /\ job["remove"] = "lock" => pm_state = "LD_ERR_FATAL_DETECT"
         /\ events \in Seq({"M0", "M1", "M3", "SYS_ERR", "AMSS"})
         /\ transitions \in Seq({"READY", "MISSION_MODE"})
<1>1. pm_state \in PmStates /\ job \in [Threads -> Steps]
      /\ events \in Seq({"M0", "M1", "M3", "SYS_ERR", "AMSS"})
      /\ transitions \in Seq({"READY", "MISSION_MODE"})
  BY DEF IInv, TypeOK
<1>2. PmStates = Error \cup Low \cup {"DISABLE", "POR", "M0", "M2"}
  BY PmStatesAre DEF Error, Low
<1>3. StepsTyped /\ RemovalOwnsState
  BY DEF IInv
<1>4. pm_state = "DISABLE" => job["remove"] \in {"free", "gone"}
  BY <1>3 DEF RemovalOwnsState
<1>5. job["remove"] = "lock" => pm_state = "LD_ERR_FATAL_DETECT"
  BY <1>3 DEF RemovalOwnsState
<1>6. /\ job["syserr"] \in Ends \cup {"idle", "forbid", "reset", "ready", "set", "mmio"}
      /\ job["remove"] \in Ends \cup {"idle", "get", "fatal", "disable", "free", "gone"}
  BY <1>3 DEF StepsTyped
<1>7. job \in [{"tasklet", "st", "syserr", "rpm", "remove"} -> Steps]
  BY <1>1, Zenon DEF Threads
<1> QED
  BY <1>1, <1>2, <1>4, <1>5, <1>6, <1>7, Zenon

\* What receiving an event, and taking a transition, leaves of the sequences.
LEMMA ReceiveSays ==
  ASSUME IInv, NEW e, Receive(e)
  PROVE  /\ Has(events, e) /\ events # <<>>
         /\ \A x : Has(events', x) => Has(events, x)
         /\ \A x : Once(events, x) => Once(events', x)
         /\ Once(events, e) => ~Has(events', e)
         /\ SleepLast(events) => SleepLast(events') /\ (e = "M3" => events' = <<>>)
<1>1. events \in Seq({"M0", "M1", "M3", "SYS_ERR", "AMSS"}) /\ events # <<>>
      /\ events' = Tail(events) /\ Head(events) = e
  BY Typed DEF Receive
<1> QED
  BY <1>1, HasTail, EndsTail

LEMMA TakeSays ==
  ASSUME IInv, transitions # <<>>, transitions' = Tail(transitions)
  PROVE  /\ \A x : Has(transitions', x) => Has(transitions, x)
         /\ \A x : Once(transitions, x) => Once(transitions', x)
         /\ Once(transitions, Head(transitions)) => ~Has(transitions', Head(transitions))
         /\ Has(transitions, Head(transitions)) /\ Head(transitions) = transitions[1]
         /\ Head(transitions) \in {"READY", "MISSION_MODE"}
<1>1. transitions \in Seq({"READY", "MISSION_MODE"})
  BY Typed
<1>2. Head(transitions) \in {"READY", "MISSION_MODE"}
  BY <1>1
<1> QED
  BY <1>1, <1>2, HasTail

LEMMA SaySays ==
  ASSUME IInv, NEW y \in {"M0", "M1", "M3", "SYS_ERR", "AMSS"}, events' = Append(events, y)
  PROVE  /\ events' # <<>>
         /\ \A x : Has(events', x) <=> Has(events, x) \/ x = y
         /\ \A x : Once(events, x) /\ (x # y \/ ~Has(events, x)) => Once(events', x)
         /\ SleepLast(events) /\ ~Has(events, "M3") => SleepLast(events')
<1> DEFINE S == {"M0", "M1", "M3", "SYS_ERR", "AMSS"}
           b == Append(events, y)
<1>1. events \in Seq(S) /\ y \in S
  BY Typed
<1>2. events' = b
  OBVIOUS
<1> HIDE DEF S
<1>3. /\ b # <<>>
      /\ \A x : Has(b, x) <=> Has(events, x) \/ x = y
      /\ \A x : Once(events, x) /\ (x # y \/ ~Has(events, x)) => Once(b, x)
      /\ SleepLast(events) /\ ~Has(events, "M3") => SleepLast(b)
  BY <1>1, HasAppend
<1> HIDE DEF b
<1> QED
  BY <1>2, <1>3

LEMMA BootSays ==
  ASSUME IInv, events' = events \o <<"M0", "AMSS">>
  PROVE  /\ events' # <<>>
         /\ \A x : Has(events', x) <=> Has(events, x) \/ x \in {"M0", "AMSS"}
         /\ \A x : Once(events, x) /\ (x \notin {"M0", "AMSS"} \/ ~Has(events, x))
               => Once(events', x)
<1> DEFINE S == {"M0", "M1", "M3", "SYS_ERR", "AMSS"}
           a == Append(events, "M0")
<1>1. events \in Seq(S) /\ a \in Seq(S) /\ events' = Append(a, "AMSS")
      /\ "M0" \in S /\ "AMSS" \in S
  BY Typed, HasBoot
<1> HIDE DEF S
<1>2. /\ \A x : Has(a, x) <=> Has(events, x) \/ x = "M0"
      /\ \A x : Once(events, x) /\ (x # "M0" \/ ~Has(events, x)) => Once(a, x)
  BY <1>1, HasAppend
<1> HIDE DEF a
<1> DEFINE b == Append(a, "AMSS")
<1>3. /\ b # <<>>
      /\ \A x : Has(b, x) <=> Has(a, x) \/ x = "AMSS"
      /\ \A x : Once(a, x) /\ (x # "AMSS" \/ ~Has(a, x)) => Once(b, x)
  BY <1>1, HasAppend
<1>4. events' = b
  BY <1>1
<1> HIDE DEF b
<1> QED
  BY <1>2, <1>3, <1>4

LEMMA MissionSays ==
  ASSUME IInv, transitions' = Append(transitions, "MISSION_MODE")
  PROVE  /\ \A x : Has(transitions', x) <=> Has(transitions, x) \/ x = "MISSION_MODE"
         /\ \A x : Once(transitions, x) /\ (x # "MISSION_MODE" \/ ~Has(transitions, x))
               => Once(transitions', x)
         /\ transitions # <<>> => transitions'[1] = transitions[1]
  BY Typed, HasAppend

-----------------------------------------------------------------------------
(* The steps.                                                              *)

\* Once a recovery has stopped runtime PM, or the removal has powered it off, it rests.
LEMMA RuntimeFlagsStep ==
  ASSUME IInv, RuntimeRests, [Next]_vars
  PROVE  RuntimeFlags' /\ (Settled => Settled')
<1>1. ASSUME \/ Boot \/ Obey \/ Idle \/ Crash \/ Transfer \/ Queue \/ CtrlEvTask
      PROVE  UNCHANGED <<job["remove"], job["syserr"], job["rpm"], powered_on, allowed, rpm_status,
                         pm_state, races>>
  BY <1>1, Typed
     DEF Boot, Obey, Idle, Crash, Transfer, Queue, CtrlEvTask, Goto, host, device, works,
         runtime, clients, vars
<1>2. ASSUME \/ RingDoorbells \/ MissionModeEvent \/ TaskletDone \/ StWorker
            \/ MissionWake \/ MissionWait \/ MissionEe
      PROVE  UNCHANGED <<job["remove"], job["syserr"], job["rpm"], powered_on, allowed, rpm_status,
                         pm_state, races>>
  BY <1>2, Typed
     DEF RingDoorbells, MissionModeEvent, TaskletDone, StWorker, MissionWake, MissionWait,
         MissionEe, Goto, host, device, works, runtime, clients, vars
<1>3. ASSUME \/ MissionCheck \/ CreateDevice \/ AddDevice \/ InitMmio("st")
            \/ UNCHANGED vars
      PROVE  UNCHANGED <<job["remove"], job["syserr"], job["rpm"], powered_on, allowed, rpm_status,
                         pm_state, races>>
  BY <1>3, Typed
     DEF MissionCheck, CreateDevice, AddDevice, InitMmio, Goto, Finish, host, device, works,
         runtime, clients, vars
<1> USE Typed, Reachable
    DEF RuntimeFlags, Settled, Quiet, host, device, works, runtime, clients, vars
<1>0. RuntimeFlags /\ (Settled \/ (ee # "AMSS" => Quiet))
  BY DEF RuntimeRests, FirstSession
<1>4. ASSUME UNCHANGED <<job["remove"], job["syserr"], job["rpm"], powered_on, allowed, rpm_status,
                         pm_state, races>>
      PROVE  RuntimeFlags' /\ (Settled => Settled')
  BY <1>0, <1>4
<1>5. CASE LookAtModem
  BY <1>0, <1>5 DEF LookAtModem, Goto
<1>6. CASE M0Transition
  BY <1>0, <1>6 DEF M0Transition, TrySet, Receive, Goto
<1>7. CASE M1Transition
  BY <1>0, <1>7 DEF M1Transition, Receive
<1>8. CASE M3Transition
  BY <1>0, <1>8 DEF M3Transition, TrySet, Receive
<1>9. CASE SysErrEvent
  BY <1>0, <1>9 DEF SysErrEvent, TrySet, Receive
<1>10. CASE IntvecThread
  BY <1>0, <1>10 DEF IntvecThread, DetectError, ExecEnvs
<1>11. CASE MissionTimeout
  BY <1>0, <1>11 DEF MissionTimeout, Goto
<1>12. CASE SysErrWorker
  BY <1>0, <1>12 DEF SysErrWorker, Goto
<1>13. CASE SysErrForbidden
  BY <1>0, <1>13 DEF SysErrForbidden, Goto
<1>14. CASE ResetModem
  BY <1>0, <1>14 DEF ResetModem, Goto
<1>15. CASE ResetTimeout
  BY <1>0, <1>15 DEF ResetTimeout, Finish, Goto
<1>16. CASE RemoveDevice
  BY <1>0, <1>16 DEF RemoveDevice, Goto
<1>17. CASE PowerOff
  BY <1>0, <1>17 DEF PowerOff, Goto
<1>18. CASE PowerDown
  BY <1>0, <1>18 DEF PowerDown, TrySet, Goto
<1>19. CASE Disable
  BY <1>0, <1>19 DEF Disable, TrySet, Goto
<1>20. CASE Free
  BY <1>0, <1>20 DEF Free, Goto
<1>21. CASE RuntimeSuspend
  BY <1>0, <1>21 DEF RuntimeSuspend, InError, WakeGet, Abort, Finish, Goto
<1>22. CASE RpmWait
  BY <1>0, <1>22 DEF RpmWait, InError, Awaited, Abort, Finish, Goto
<1>23. CASE EnterM3
  BY <1>0, <1>23 DEF EnterM3, TrySet, Abort, Finish, Goto
<1>24. CASE RuntimeResume
  BY <1>0, <1>24 DEF RuntimeResume, InError, Abort, Finish, Goto
<1>25. CASE RpmTimeout
  BY <1>0, <1>25 DEF RpmTimeout, InError, Awaited, DetectError, ExecEnvs, Abort, Finish, Goto
<1>26. CASE ReadyWait("st") \/ ReadyTransition("st")
  BY <1>0, <1>26 DEF ReadyWait, ReadyTransition, TrySet, Finish, Goto
<1>27. CASE ReadyWait("syserr") \/ ReadyTransition("syserr")
  BY <1>0, <1>27 DEF ReadyWait, ReadyTransition, TrySet, Finish, Goto
<1>28. CASE InitMmio("syserr")
  BY <1>0, <1>28 DEF InitMmio, RegAccess, Finish, Goto
<1>29. CASE \E w \in {"st", "syserr"} : ReadyTimeout(w)
  BY <1>0, <1>29 DEF ReadyTimeout, Finish, Goto
<1>30. CASE DisableTransition("syserr")
  BY <1>0, <1>30 DEF DisableTransition, TrySet, Target, Goto
<1>31. CASE DisableTransition("remove")
  BY <1>0, <1>31 DEF DisableTransition, TrySet, Target, Goto
<1>32. CASE \E w \in {"syserr", "remove"} : KillTasklet(w)
  BY <1>0, <1>32 DEF KillTasklet, Goto
<1>33. CASE \E w \in {"syserr", "remove"} : DestroyDevices(w)
  BY <1>0, <1>33 DEF DestroyDevices, Goto
<1>34. CASE \E w \in {"syserr", "remove"} : FlushWorkers(w)
  BY <1>0, <1>34 DEF FlushWorkers, Goto
<1>35. CASE \E w \in {"syserr", "remove"} : ResetRings(w)
  BY <1>0, <1>35 DEF ResetRings, Goto
<1> QED
  BY <1>1, <1>2, <1>3, <1>4, <1>5, <1>6, <1>7, <1>8, <1>9, <1>10, <1>11, <1>12, <1>13, <1>14,
     <1>15, <1>16, <1>17, <1>18, <1>19, <1>20, <1>21, <1>22, <1>23, <1>24, <1>25, <1>26,
     <1>27, <1>28, <1>29, <1>30, <1>31, <1>32, <1>33, <1>34, <1>35
     DEF Next, Modem, Tasklet, St, Ready, Session, SysErr, Removal, Rpm

\* A mission mode is announced once before the first recovery, and runtime PM waits for it.
LEMMA FirstSessionStep ==
  ASSUME IInv, RuntimeRests, ~Settled', [Next]_vars
  PROVE  FirstSession'
<1>1. ASSUME \/ Transfer \/ CtrlEvTask \/ LookAtModem \/ RingDoorbells \/ TaskletDone
            \/ IntvecThread \/ SysErrWorker
      PROVE  UNCHANGED <<job["st"], job["rpm"], rpm_status, modem, events, transitions, ee>>
  BY <1>1, Typed
     DEF Transfer, CtrlEvTask, LookAtModem, RingDoorbells, TaskletDone, IntvecThread,
         SysErrWorker, Goto, host, device, works, runtime, clients, vars
<1>2. ASSUME \/ SysErrForbidden \/ ResetTimeout \/ RemoveDevice \/ PowerOff
            \/ PowerDown \/ Disable \/ Free
      PROVE  UNCHANGED <<job["st"], job["rpm"], rpm_status, modem, events, transitions, ee>>
  BY <1>2, Typed
     DEF SysErrForbidden, ResetTimeout, RemoveDevice, PowerOff, PowerDown, Disable, Free,
         Goto, Finish, host, device, works, runtime, clients, vars
<1>3. ASSUME \/ ReadyWait("syserr") \/ ReadyTransition("syserr") \/ InitMmio("syserr")
            \/ \E w \in {"syserr", "remove"} : KillTasklet(w)
            \/ \E u \in {"syserr", "remove"} : DestroyDevices(u)
            \/ \E v \in {"syserr", "remove"} : FlushWorkers(v)
            \/ UNCHANGED vars
      PROVE  UNCHANGED <<job["st"], job["rpm"], rpm_status, modem, events, transitions, ee>>
  BY <1>3, Typed
     DEF ReadyWait, ReadyTransition, InitMmio, KillTasklet, DestroyDevices, FlushWorkers,
         Finish, Goto,
         host, device, works, runtime, clients, vars
<1> USE Typed, HasNothing
    DEF RuntimeFlags, Settled, Quiet, FirstSession, OneMission, NoMission, Mission, Awake,
        host, device, works, runtime, clients, vars
<1>0. RuntimeFlags /\ FirstSession /\ ~Settled
  BY RuntimeFlagsStep DEF RuntimeRests
<1>4. ASSUME UNCHANGED <<job["st"], job["rpm"], rpm_status, modem, events, transitions, ee>>
      PROVE  FirstSession'
  BY <1>0, <1>4
<1>5. CASE Boot
  BY <1>0, <1>5 DEF Boot
<1>6. CASE Obey
  BY <1>0, <1>6, SaySays, BootSays DEF Obey
<1>7. CASE Idle
  BY <1>0, <1>7, SaySays DEF Idle
<1>8. CASE Crash
  BY <1>0, <1>8, SaySays DEF Crash
<1>9. CASE Queue
  BY <1>0, <1>9, SaySays DEF Queue, WakeGet
<1>10. CASE M0Transition
  BY <1>0, <1>10, ReceiveSays DEF M0Transition, TrySet, Goto
<1>11. CASE M1Transition
  BY <1>0, <1>11, ReceiveSays DEF M1Transition
<1>12. CASE M3Transition
  BY <1>0, <1>12, ReceiveSays DEF M3Transition, TrySet
<1>13. CASE SysErrEvent
  BY <1>0, <1>13, ReceiveSays DEF SysErrEvent, TrySet
<1>14. CASE MissionModeEvent
  BY <1>0, <1>14, ReceiveSays, MissionSays DEF MissionModeEvent
<1>15. CASE StWorker
  BY <1>0, <1>15, TakeSays DEF StWorker, Goto
<1>16. CASE MissionWake
  BY <1>0, <1>16, SaySays DEF MissionWake, WakeGet, Goto
<1>17. CASE MissionWait
  BY <1>0, <1>17 DEF MissionWait, InError, Goto
<1>18. CASE MissionEe
  BY <1>0, <1>18 DEF MissionEe, ExecEnvs, Goto
<1>19. CASE MissionCheck
  BY <1>0, <1>19 DEF MissionCheck, Goto
<1>20. CASE CreateDevice
  BY <1>0, <1>20 DEF CreateDevice, Goto
<1>21. CASE AddDevice
  BY <1>0, <1>21 DEF AddDevice, Goto
<1>22. CASE MissionTimeout
  BY <1>0, <1>22 DEF MissionTimeout, Goto
<1>23. CASE ResetModem
  BY <1>0, <1>23 DEF ResetModem, Goto
<1>24. CASE RuntimeSuspend
  BY <1>0, <1>24, SaySays DEF RuntimeSuspend, InError, WakeGet, Abort, Finish, Goto
<1>25. CASE RpmWait
  BY <1>0, <1>25 DEF RpmWait, InError, Awaited, Abort, Finish, Goto
<1>26. CASE EnterM3
  BY <1>0, <1>26 DEF EnterM3, TrySet, Abort, Finish, Goto
<1>27. CASE RuntimeResume
  BY <1>0, <1>27 DEF RuntimeResume, InError, Abort, Finish, Goto
<1>28. CASE RpmTimeout
  BY <1>0, <1>28 DEF RpmTimeout, InError, Awaited, DetectError, ExecEnvs, Abort, Finish, Goto
<1>29. CASE ReadyWait("st") \/ ReadyTransition("st")
  BY <1>0, <1>29 DEF ReadyWait, ReadyTransition, TrySet, Finish, Goto
<1>30. CASE InitMmio("st")
  BY <1>0, <1>30 DEF InitMmio, RegAccess, Finish, Goto
<1>31. CASE \E w \in {"st", "syserr"} : ReadyTimeout(w)
  BY <1>0, <1>31 DEF ReadyTimeout, Finish, Goto
<1>32. CASE DisableTransition("syserr")
  BY <1>0, <1>32 DEF DisableTransition, TrySet, Target, Goto
<1>33. CASE DisableTransition("remove")
  BY <1>0, <1>33 DEF DisableTransition, TrySet, Target, Goto
<1>34. CASE \E w \in {"syserr", "remove"} : ResetRings(w)
  BY <1>0, <1>34 DEF ResetRings, Goto
<1> QED
  BY <1>1, <1>2, <1>3, <1>4, <1>5, <1>6, <1>7, <1>8, <1>9, <1>10, <1>11, <1>12, <1>13, <1>14,
     <1>15, <1>16, <1>17, <1>18, <1>19, <1>20, <1>21, <1>22, <1>23, <1>24, <1>25, <1>26,
     <1>27, <1>28, <1>29, <1>30, <1>31, <1>32, <1>33, <1>34
     DEF Next, Modem, Tasklet, St, Ready, Session, SysErr, Removal, Rpm

\* Nobody but st_worker starts the modem, once, with the READY it is created with.
LEMMA StartsOnceStep ==
  ASSUME IInv, RuntimeRests, StartsOnce, [Next]_vars
  PROVE  StartsOnce'
<1>1. ASSUME \/ Transfer \/ CtrlEvTask \/ RingDoorbells \/ TaskletDone
            \/ UNCHANGED vars
      PROVE  UNCHANGED <<job["st"], job["syserr"], job["remove"], job["rpm"], transitions, modem,
                         events, mhictrl, pm_state, ee>>
  BY <1>1, Typed
     DEF Transfer, CtrlEvTask, RingDoorbells, TaskletDone, Goto, host, device, works,
         runtime, clients, vars
<1> USE Typed, Reachable, HasNothing
    DEF StartsOnce, ReadyPending, Error, Low, Mission, Awake, RegAccess, host, device, works,
        runtime, clients, vars
<1>0. /\ RuntimeFlags /\ (Settled => job["rpm"] = "idle")
      /\ RuntimeFlags' /\ (Settled => Settled')
  BY RuntimeFlagsStep DEF RuntimeRests, RuntimeFlags, Settled, Quiet
<1>2. ASSUME UNCHANGED <<job["st"], job["syserr"], job["remove"], job["rpm"], transitions, modem,
                         events, mhictrl, pm_state, ee>>
      PROVE  StartsOnce'
  BY <1>0, <1>2
<1>3. CASE Boot
  BY <1>0, <1>3 DEF Boot
<1>4. CASE Obey
  BY <1>0, <1>4, SaySays, BootSays DEF Obey
<1>5. CASE Idle
  BY <1>0, <1>5, SaySays DEF Idle
<1>6. CASE Crash
  BY <1>0, <1>6, SaySays DEF Crash
<1>7. CASE Queue
  BY <1>0, <1>7, SaySays DEF Queue, WakeGet
<1>8. CASE LookAtModem
  BY <1>0, <1>8 DEF LookAtModem, Goto
<1>9. CASE M0Transition
  BY <1>0, <1>9, ReceiveSays DEF M0Transition, TrySet, Goto
<1>10. CASE M1Transition
  BY <1>0, <1>10, ReceiveSays DEF M1Transition
<1>11. CASE M3Transition
  BY <1>0, <1>11, ReceiveSays DEF M3Transition, TrySet
<1>12. CASE SysErrEvent
  BY <1>0, <1>12, ReceiveSays DEF SysErrEvent, TrySet
<1>13. CASE MissionModeEvent
  BY <1>0, <1>13, ReceiveSays, MissionSays DEF MissionModeEvent
<1>14. CASE IntvecThread
  BY <1>0, <1>14 DEF IntvecThread, DetectError, ExecEnvs
<1>15. CASE StWorker
  BY <1>0, <1>15, TakeSays DEF StWorker, Goto
<1>16. CASE MissionWake
  BY <1>0, <1>16, SaySays DEF MissionWake, WakeGet, Goto
<1>17. CASE MissionWait
  BY <1>0, <1>17 DEF MissionWait, InError, Goto
<1>18. CASE MissionEe
  BY <1>0, <1>18 DEF MissionEe, ExecEnvs, Goto
<1>19. CASE MissionCheck
  BY <1>0, <1>19 DEF MissionCheck, Goto
<1>20. CASE CreateDevice
  BY <1>0, <1>20 DEF CreateDevice, Goto
<1>21. CASE AddDevice
  BY <1>0, <1>21 DEF AddDevice, Goto
<1>22. CASE MissionTimeout
  BY <1>0, <1>22 DEF MissionTimeout, Goto
<1>23. CASE SysErrWorker
  BY <1>0, <1>23 DEF SysErrWorker, Goto
<1>24. CASE SysErrForbidden
  BY <1>0, <1>24 DEF SysErrForbidden, Goto
<1>25. CASE ResetModem
  BY <1>0, <1>25 DEF ResetModem, Goto
<1>26. CASE ResetTimeout
  BY <1>0, <1>26 DEF ResetTimeout, Finish, Goto
<1>27. CASE RemoveDevice
  BY <1>0, <1>27 DEF RemoveDevice, Goto
<1>28. CASE PowerOff
  BY <1>0, <1>28 DEF PowerOff, Goto
<1>29. CASE PowerDown
  BY <1>0, <1>29 DEF PowerDown, TrySet, Goto
<1>30. CASE Disable
  BY <1>0, <1>30 DEF Disable, TrySet, Goto
<1>31. CASE Free
  BY <1>0, <1>31 DEF Free, Goto
<1>32. CASE RuntimeSuspend
  BY <1>0, <1>32, SaySays DEF RuntimeSuspend, InError, WakeGet, Abort, Finish, Goto
<1>33. CASE RpmWait
  BY <1>0, <1>33 DEF RpmWait, InError, Awaited, Abort, Finish, Goto
<1>34. CASE EnterM3
  BY <1>0, <1>34 DEF EnterM3, TrySet, Abort, Finish, Goto
<1>35. CASE RuntimeResume
  BY <1>0, <1>35 DEF RuntimeResume, InError, Abort, Finish, Goto
<1>36. CASE RpmTimeout
  BY <1>0, <1>36 DEF RpmTimeout, InError, Awaited, DetectError, ExecEnvs, Abort, Finish, Goto
<1>37. CASE ReadyWait("st") \/ ReadyTransition("st")
  BY <1>0, <1>37 DEF ReadyWait, ReadyTransition, TrySet, Finish, Goto
<1>38. CASE ReadyWait("syserr") \/ ReadyTransition("syserr")
  BY <1>0, <1>38 DEF ReadyWait, ReadyTransition, TrySet, Finish, Goto
<1>39. CASE InitMmio("st")
  BY <1>0, <1>39 DEF InitMmio, RegAccess, Finish, Goto
<1>40. CASE InitMmio("syserr")
  BY <1>0, <1>40 DEF InitMmio, RegAccess, Finish, Goto
<1>41. CASE \E w \in {"st", "syserr"} : ReadyTimeout(w)
  BY <1>0, <1>41 DEF ReadyTimeout, Finish, Goto
<1>42. CASE DisableTransition("syserr")
  BY <1>0, <1>42 DEF DisableTransition, TrySet, Target, Goto
<1>43. CASE DisableTransition("remove")
  BY <1>0, <1>43 DEF DisableTransition, TrySet, Target, Goto
<1>44. CASE \E w \in {"syserr", "remove"} : KillTasklet(w)
  BY <1>0, <1>44 DEF KillTasklet, Goto
<1>45. CASE \E w \in {"syserr", "remove"} : DestroyDevices(w)
  BY <1>0, <1>45 DEF DestroyDevices, Goto
<1>46. CASE \E w \in {"syserr", "remove"} : FlushWorkers(w)
  BY <1>0, <1>46 DEF FlushWorkers, Goto
<1>47. CASE \E w \in {"syserr", "remove"} : ResetRings(w)
  BY <1>0, <1>47 DEF ResetRings, Goto
<1> QED
  BY <1>1, <1>2, <1>3, <1>4, <1>5, <1>6, <1>7, <1>8, <1>9, <1>10, <1>11, <1>12, <1>13, <1>14,
     <1>15, <1>16, <1>17, <1>18, <1>19, <1>20, <1>21, <1>22, <1>23, <1>24, <1>25, <1>26,
     <1>27, <1>28, <1>29, <1>30, <1>31, <1>32, <1>33, <1>34, <1>35, <1>36, <1>37, <1>38,
     <1>39, <1>40, <1>41, <1>42, <1>43, <1>44, <1>45, <1>46, <1>47
     DEF Next, Modem, Tasklet, St, Ready, Session, SysErr, Removal, Rpm

\* The modem sleeps only while the host has asked it to.
LEMMA SleepsWhenAskedStep ==
  ASSUME IInv, RuntimeRests, StartsOnce, SleepsWhenAsked, RecoverySays, [Next]_vars
  PROVE  SleepsWhenAsked'
<1>1. ASSUME \/ Transfer \/ CtrlEvTask \/ RingDoorbells \/ TaskletDone \/ StWorker
            \/ MissionWait \/ MissionEe \/ MissionCheck
      PROVE  UNCHANGED <<mhictrl, pm_state, events, modem>>
  BY <1>1, Typed
     DEF Transfer, CtrlEvTask, RingDoorbells, TaskletDone, StWorker, MissionWait, MissionEe,
         MissionCheck, Goto, host, device, works, runtime, clients, vars
<1>2. ASSUME \/ CreateDevice \/ AddDevice \/ MissionTimeout \/ SysErrWorker
            \/ SysErrForbidden \/ ResetTimeout \/ RemoveDevice \/ PowerOff
      PROVE  UNCHANGED <<mhictrl, pm_state, events, modem>>
  BY <1>2, Typed
     DEF CreateDevice, AddDevice, MissionTimeout, SysErrWorker, SysErrForbidden,
         ResetTimeout, RemoveDevice, PowerOff, Goto, Finish, host, device, works, runtime,
         clients, vars
<1>3. ASSUME \/ Free \/ RpmWait
            \/ \E w \in {"st", "syserr"} : ReadyTimeout(w)
            \/ \E u \in {"syserr", "remove"} : KillTasklet(u)
            \/ \E v \in {"syserr", "remove"} : DestroyDevices(v)
            \/ \E y \in {"syserr", "remove"} : FlushWorkers(y)
            \/ UNCHANGED vars
      PROVE  UNCHANGED <<mhictrl, pm_state, events, modem>>
  BY <1>3, Typed
     DEF Free, RpmWait, ReadyTimeout, KillTasklet, DestroyDevices, FlushWorkers, Goto, Abort,
         Finish, host, device, works, runtime, clients, vars
<1> USE Typed, Reachable, HasNothing
    DEF SleepsWhenAsked, Error, Low, host, device, works, runtime, clients, vars
<1>0. /\ ReadyPending => mhictrl = "none" /\ events = <<>>
      /\ ReadyPending \/ job["st"] = "mmio" => pm_state \notin Low
      /\ job["st"] \in {"ready", "set"} => ReadyPending
      /\ job["syserr"] \in {"reset", "kill", "sweep", "flush", "rings", "ready", "set", "mmio"}
            => pm_state \notin Low
      /\ job["syserr"] \in {"kill", "sweep", "flush", "rings", "ready", "set", "mmio"}
            => mhictrl # "M3"
      /\ job["syserr"] \in {"ready", "set", "mmio"} => ~Has(events, "M3")
  BY DEF StartsOnce, ReadyPending, RecoverySays
<1>4. ASSUME UNCHANGED <<mhictrl, pm_state, events, modem>>
      PROVE  SleepsWhenAsked'
  BY <1>0, <1>4
<1>5. CASE Boot
  BY <1>0, <1>5 DEF Boot
<1>6. CASE Obey
  BY <1>0, <1>6, SaySays, BootSays DEF Obey
<1>7. CASE Idle
  BY <1>0, <1>7, SaySays DEF Idle
<1>8. CASE Crash
  BY <1>0, <1>8, SaySays DEF Crash
<1>9. CASE Queue
  BY <1>0, <1>9, SaySays DEF Queue, WakeGet
<1>10. CASE LookAtModem
  BY <1>0, <1>10 DEF LookAtModem, Goto
<1>11. CASE M0Transition
  BY <1>0, <1>11, ReceiveSays DEF M0Transition, TrySet, Goto
<1>12. CASE M1Transition
  BY <1>0, <1>12, ReceiveSays DEF M1Transition
<1>13. CASE M3Transition
  BY <1>0, <1>13, ReceiveSays DEF M3Transition, TrySet
<1>14. CASE SysErrEvent
  BY <1>0, <1>14, ReceiveSays DEF SysErrEvent, TrySet
<1>15. CASE MissionModeEvent
  BY <1>0, <1>15, ReceiveSays, MissionSays DEF MissionModeEvent
<1>16. CASE IntvecThread
  BY <1>0, <1>16 DEF IntvecThread, DetectError, ExecEnvs
<1>17. CASE MissionWake
  BY <1>0, <1>17, SaySays DEF MissionWake, WakeGet, Goto
<1>18. CASE ResetModem
  BY <1>0, <1>18 DEF ResetModem, Goto
<1>19. CASE PowerDown
  BY <1>0, <1>19 DEF PowerDown, TrySet, Goto
<1>20. CASE Disable
  BY <1>0, <1>20 DEF Disable, TrySet, Goto
<1>21. CASE RuntimeSuspend
  BY <1>0, <1>21, SaySays DEF RuntimeSuspend, InError, WakeGet, Abort, Finish, Goto
<1>22. CASE EnterM3
  BY <1>0, <1>22 DEF EnterM3, TrySet, Abort, Finish, Goto
<1>23. CASE RuntimeResume
  BY <1>0, <1>23 DEF RuntimeResume, InError, Abort, Finish, Goto
<1>24. CASE RpmTimeout
  BY <1>0, <1>24 DEF RpmTimeout, InError, Awaited, DetectError, ExecEnvs, Abort, Finish, Goto
<1>25. CASE ReadyWait("st") \/ ReadyTransition("st")
  BY <1>0, <1>25 DEF ReadyWait, ReadyTransition, TrySet, Finish, Goto
<1>26. CASE ReadyWait("syserr") \/ ReadyTransition("syserr")
  BY <1>0, <1>26 DEF ReadyWait, ReadyTransition, TrySet, Finish, Goto
<1>27. CASE InitMmio("st")
  BY <1>0, <1>27 DEF InitMmio, RegAccess, Finish, Goto
<1>28. CASE InitMmio("syserr")
  BY <1>0, <1>28 DEF InitMmio, RegAccess, Finish, Goto
<1>29. CASE DisableTransition("syserr")
  BY <1>0, <1>29 DEF DisableTransition, TrySet, Target, Goto
<1>30. CASE DisableTransition("remove")
  BY <1>0, <1>30 DEF DisableTransition, TrySet, Target, Goto
<1>31. CASE \E w \in {"syserr", "remove"} : ResetRings(w)
  BY <1>0, <1>31 DEF ResetRings, Goto
<1> QED
  BY <1>1, <1>2, <1>3, <1>4, <1>5, <1>6, <1>7, <1>8, <1>9, <1>10, <1>11, <1>12, <1>13, <1>14,
     <1>15, <1>16, <1>17, <1>18, <1>19, <1>20, <1>21, <1>22, <1>23, <1>24, <1>25, <1>26,
     <1>27, <1>28, <1>29, <1>30, <1>31
     DEF Next, Modem, Tasklet, St, Ready, Session, SysErr, Removal, Rpm

\* A recovery finds the modem awake, and leaves no word of its sleep behind.
LEMMA RecoveryStep ==
  ASSUME IInv, RuntimeRests, StartsOnce, RecoverySays, [Next]_vars
  PROVE  RecoverySays'
<1>1. ASSUME \/ Boot \/ Transfer \/ CtrlEvTask \/ RingDoorbells \/ TaskletDone
            \/ StWorker \/ MissionWait \/ MissionEe
      PROVE  UNCHANGED <<job["syserr"], pm_state, mhictrl, events, races>>
  BY <1>1, Typed
     DEF Boot, Transfer, CtrlEvTask, RingDoorbells, TaskletDone, StWorker, MissionWait,
         MissionEe, Goto, host, device, works, runtime, clients, vars
<1>2. ASSUME \/ MissionCheck \/ CreateDevice \/ AddDevice \/ RemoveDevice \/ PowerOff
            \/ Free \/ RpmWait
            \/ UNCHANGED vars
      PROVE  UNCHANGED <<job["syserr"], pm_state, mhictrl, events, races>>
  BY <1>2, Typed
     DEF MissionCheck, CreateDevice, AddDevice, RemoveDevice, PowerOff, Free, RpmWait, Goto,
         Abort, Finish, host, device, works, runtime, clients, vars
<1> USE Typed, Reachable, HasNothing
    DEF RecoverySays, Error, Low, RegAccess, host, device, works, runtime, clients, vars
<1>0. /\ RuntimeFlags
      /\ Settled => job["rpm"] = "idle" /\ (powered_on => rpm_status # "suspended")
      /\ job["syserr"] \notin {"idle", "forbid"} => Settled
      /\ ReadyPending \/ job["st"] = "mmio" => pm_state \notin Low
      /\ ReadyPending => pm_state # "DISABLE"
      /\ job["st"] \in {"ready", "set"} => ReadyPending
  BY DEF RuntimeRests, RuntimeFlags, Settled, Quiet, StartsOnce, ReadyPending, Error
<1>3. ASSUME UNCHANGED <<job["syserr"], pm_state, mhictrl, events, races>>
      PROVE  RecoverySays'
  BY <1>0, <1>3
<1>4. CASE Obey
  BY <1>0, <1>4, SaySays, BootSays DEF Obey
<1>5. CASE Idle
  BY <1>0, <1>5, SaySays DEF Idle
<1>6. CASE Crash
  BY <1>0, <1>6, SaySays DEF Crash
<1>7. CASE Queue
  BY <1>0, <1>7, SaySays DEF Queue, WakeGet
<1>8. CASE LookAtModem
  BY <1>0, <1>8 DEF LookAtModem, Goto
<1>9. CASE M0Transition
  BY <1>0, <1>9, ReceiveSays DEF M0Transition, TrySet, Goto
<1>10. CASE M1Transition
  BY <1>0, <1>10, ReceiveSays DEF M1Transition
<1>11. CASE M3Transition
  BY <1>0, <1>11, ReceiveSays DEF M3Transition, TrySet
<1>12. CASE SysErrEvent
  BY <1>0, <1>12, ReceiveSays DEF SysErrEvent, TrySet
<1>13. CASE MissionModeEvent
  BY <1>0, <1>13, ReceiveSays, MissionSays DEF MissionModeEvent
<1>14. CASE IntvecThread
  BY <1>0, <1>14 DEF IntvecThread, DetectError, ExecEnvs
<1>15. CASE MissionWake
  BY <1>0, <1>15, SaySays DEF MissionWake, WakeGet, Goto
<1>16. CASE MissionTimeout
  BY <1>0, <1>16 DEF MissionTimeout, Goto
<1>17. CASE SysErrWorker
  BY <1>0, <1>17 DEF SysErrWorker, Goto
<1>18. CASE SysErrForbidden
  BY <1>0, <1>18 DEF SysErrForbidden, Goto
<1>19. CASE ResetModem
  BY <1>0, <1>19 DEF ResetModem, Goto
<1>20. CASE ResetTimeout
  BY <1>0, <1>20 DEF ResetTimeout, Finish, Goto
<1>21. CASE PowerDown
  BY <1>0, <1>21 DEF PowerDown, TrySet, Goto
<1>22. CASE Disable
  BY <1>0, <1>22 DEF Disable, TrySet, Goto
<1>23. CASE RuntimeSuspend
  BY <1>0, <1>23, SaySays DEF RuntimeSuspend, InError, WakeGet, Abort, Finish, Goto
<1>24. CASE EnterM3
  BY <1>0, <1>24 DEF EnterM3, TrySet, Abort, Finish, Goto
<1>25. CASE RuntimeResume
  BY <1>0, <1>25 DEF RuntimeResume, InError, Abort, Finish, Goto
<1>26. CASE RpmTimeout
  BY <1>0, <1>26 DEF RpmTimeout, InError, Awaited, DetectError, ExecEnvs, Abort, Finish, Goto
<1>27. CASE ReadyWait("st") \/ ReadyTransition("st")
  BY <1>0, <1>27 DEF ReadyWait, ReadyTransition, TrySet, Finish, Goto
<1>28. CASE ReadyWait("syserr") \/ ReadyTransition("syserr")
  BY <1>0, <1>28 DEF ReadyWait, ReadyTransition, TrySet, Finish, Goto
<1>29. CASE InitMmio("st")
  BY <1>0, <1>29 DEF InitMmio, RegAccess, Finish, Goto
<1>30. CASE InitMmio("syserr")
  BY <1>0, <1>30 DEF InitMmio, RegAccess, Finish, Goto
<1>31. CASE \E w \in {"st", "syserr"} : ReadyTimeout(w)
  BY <1>0, <1>31 DEF ReadyTimeout, Finish, Goto
<1>32. CASE DisableTransition("syserr")
  BY <1>0, <1>32 DEF DisableTransition, TrySet, Target, Goto
<1>33. CASE DisableTransition("remove")
  BY <1>0, <1>33 DEF DisableTransition, TrySet, Target, Goto
<1>34. CASE \E w \in {"syserr", "remove"} : KillTasklet(w)
  BY <1>0, <1>34 DEF KillTasklet, Goto
<1>35. CASE \E w \in {"syserr", "remove"} : DestroyDevices(w)
  BY <1>0, <1>35 DEF DestroyDevices, Goto
<1>36. CASE \E w \in {"syserr", "remove"} : FlushWorkers(w)
  BY <1>0, <1>36 DEF FlushWorkers, Goto
<1>37. CASE \E w \in {"syserr", "remove"} : ResetRings(w)
  BY <1>0, <1>37 DEF ResetRings, Goto
<1> QED
  BY <1>1, <1>2, <1>3, <1>4, <1>5, <1>6, <1>7, <1>8, <1>9, <1>10, <1>11, <1>12, <1>13, <1>14,
     <1>15, <1>16, <1>17, <1>18, <1>19, <1>20, <1>21, <1>22, <1>23, <1>24, <1>25, <1>26,
     <1>27, <1>28, <1>29, <1>30, <1>31, <1>32, <1>33, <1>34, <1>35, <1>36, <1>37
     DEF Next, Modem, Tasklet, St, Ready, Session, SysErr, Removal, Rpm

\* pm_state and dev_state move together, and a suspended device stays in M3.
LEMMA SuspendStep ==
  ASSUME IInv, RuntimeRests, StartsOnce, SleepsWhenAsked, RecoverySays, SuspendSays,
         DevStateAgrees, [Next]_vars
  PROVE  SuspendSays' /\ DevStateAgrees'
<1>1. ASSUME \/ Boot \/ Obey \/ Idle \/ Crash \/ Transfer \/ Queue \/ CtrlEvTask
            \/ RingDoorbells
      PROVE  UNCHANGED <<powered_on, rpm_status, job["rpm"], pm_state, dev_state, races>>
  BY <1>1, Typed
     DEF Boot, Obey, Idle, Crash, Transfer, Queue, CtrlEvTask, RingDoorbells, Goto, host,
         device, works, runtime, clients, vars
<1>2. ASSUME \/ MissionModeEvent \/ TaskletDone \/ StWorker \/ MissionWake
            \/ MissionWait \/ MissionEe \/ MissionCheck \/ CreateDevice
      PROVE  UNCHANGED <<powered_on, rpm_status, job["rpm"], pm_state, dev_state, races>>
  BY <1>2, Typed
     DEF MissionModeEvent, TaskletDone, StWorker, MissionWake, MissionWait, MissionEe,
         MissionCheck, CreateDevice, Goto, host, device, works, runtime, clients, vars
<1>3. ASSUME \/ AddDevice \/ SysErrWorker \/ SysErrForbidden \/ ResetModem
            \/ RemoveDevice \/ Free \/ InitMmio("st") \/ InitMmio("syserr")
      PROVE  UNCHANGED <<powered_on, rpm_status, job["rpm"], pm_state, dev_state, races>>
  BY <1>3, Typed
     DEF AddDevice, SysErrWorker, SysErrForbidden, ResetModem, RemoveDevice, Free, InitMmio,
         Goto, Finish, host, device, works, runtime, clients, vars
<1>4. ASSUME \/ \E w \in {"syserr", "remove"} : KillTasklet(w)
            \/ \E w \in {"syserr", "remove"} : DestroyDevices(w)
            \/ \E u \in {"syserr", "remove"} : FlushWorkers(u)
            \/ \E v \in {"syserr", "remove"} : ResetRings(v)
            \/ UNCHANGED vars
      PROVE  UNCHANGED <<powered_on, rpm_status, job["rpm"], pm_state, dev_state, races>>
  BY <1>4, Typed
     DEF KillTasklet, DestroyDevices, FlushWorkers, ResetRings, Goto, host, device, works,
         runtime, clients, vars
<1> USE Typed, Reachable, HasNothing
    DEF SuspendSays, DevStateAgrees, Error, Low, host, device, works, runtime, clients, vars
<1>0. /\ powered_on <=> job["remove"] \in {"idle", "get"}
      /\ ~powered_on => job["rpm"] = "idle"
      /\ pm_state = "SYS_ERR_PROCESS" \/ "crossed" \in races
            => job["rpm"] = "idle" /\ (powered_on => rpm_status # "suspended")
      /\ job["st"] \in {"ready", "set"} => ReadyPending /\ pm_state \in Error \cup {"POR"}
      /\ Has(events, "M3") => pm_state \in {"M3_ENTER", "DISABLE"} \cup Error
      /\ pm_state = "M3" => events = <<>>
      /\ job["syserr"] \in {"ready", "set"}
            => pm_state \in Error \cup {"DISABLE"} \/ "crossed" \in races
  BY DEF RuntimeRests, RuntimeFlags, Settled, Quiet, StartsOnce, ReadyPending, SleepsWhenAsked,
         RecoverySays
<1>5. ASSUME UNCHANGED <<powered_on, rpm_status, job["rpm"], pm_state, dev_state, races>>
      PROVE  SuspendSays' /\ DevStateAgrees'
  BY <1>0, <1>5
<1>6. CASE LookAtModem
  BY <1>0, <1>6 DEF LookAtModem, Goto
<1>7. CASE M0Transition
  BY <1>0, <1>7, ReceiveSays DEF M0Transition, TrySet, Goto
<1>8. CASE M1Transition
  BY <1>0, <1>8, ReceiveSays DEF M1Transition
<1>9. CASE M3Transition
  BY <1>0, <1>9, ReceiveSays DEF M3Transition, TrySet
<1>10. CASE SysErrEvent
  BY <1>0, <1>10, ReceiveSays DEF SysErrEvent, TrySet
<1>11. CASE IntvecThread
  BY <1>0, <1>11 DEF IntvecThread, DetectError, ExecEnvs
<1>12. CASE MissionTimeout
  BY <1>0, <1>12 DEF MissionTimeout, Goto
<1>13. CASE ResetTimeout
  BY <1>0, <1>13 DEF ResetTimeout, Finish, Goto
<1>14. CASE PowerOff
  BY <1>0, <1>14 DEF PowerOff, Goto
<1>15. CASE PowerDown
  BY <1>0, <1>15 DEF PowerDown, TrySet, Goto
<1>16. CASE Disable
  BY <1>0, <1>16 DEF Disable, TrySet, Goto
<1>17. CASE RuntimeSuspend
  BY <1>0, <1>17, SaySays DEF RuntimeSuspend, InError, WakeGet, Abort, Finish, Goto
<1>18. CASE RpmWait
  BY <1>0, <1>18 DEF RpmWait, InError, Awaited, Abort, Finish, Goto
<1>19. CASE EnterM3
  BY <1>0, <1>19 DEF EnterM3, TrySet, Abort, Finish, Goto
<1>20. CASE RuntimeResume
  BY <1>0, <1>20 DEF RuntimeResume, InError, Abort, Finish, Goto
<1>21. CASE RpmTimeout
  BY <1>0, <1>21 DEF RpmTimeout, InError, Awaited, DetectError, ExecEnvs, Abort, Finish, Goto
<1>22. CASE ReadyWait("st") \/ ReadyTransition("st")
  BY <1>0, <1>22 DEF ReadyWait, ReadyTransition, TrySet, Finish, Goto
<1>23. CASE ReadyWait("syserr") \/ ReadyTransition("syserr")
  BY <1>0, <1>23 DEF ReadyWait, ReadyTransition, TrySet, Finish, Goto
<1>24. CASE \E w \in {"st", "syserr"} : ReadyTimeout(w)
  BY <1>0, <1>24 DEF ReadyTimeout, Finish, Goto
<1>25. CASE DisableTransition("syserr")
  BY <1>0, <1>25 DEF DisableTransition, TrySet, Target, Goto
<1>26. CASE DisableTransition("remove")
  BY <1>0, <1>26 DEF DisableTransition, TrySet, Target, Goto
<1> QED
  BY <1>1, <1>2, <1>3, <1>4, <1>5, <1>6, <1>7, <1>8, <1>9, <1>10, <1>11, <1>12, <1>13, <1>14,
     <1>15, <1>16, <1>17, <1>18, <1>19, <1>20, <1>21, <1>22, <1>23, <1>24, <1>25, <1>26
     DEF Next, Modem, Tasklet, St, Ready, Session, SysErr, Removal, Rpm

\* All of it.
SInv == /\ RuntimeRests /\ StartsOnce /\ SleepsWhenAsked
        /\ RecoverySays /\ SuspendSays /\ DevStateAgrees

LEMMA InitSessions == Init => SInv
<1> SUFFICES ASSUME Init PROVE SInv
  OBVIOUS
<1>1. events = <<>> /\ ~Has(transitions, "MISSION_MODE") /\ Once(transitions, "MISSION_MODE")
      /\ Once(transitions, "READY") /\ Has(transitions, "READY") /\ transitions[1] = "READY"
  BY DEF Init, Has, Once
<1>2. RuntimeRests
  BY <1>1, HasNothing DEF Init, RuntimeRests, RuntimeFlags, Settled, FirstSession, OneMission,
     Quiet, Threads, Mission
<1>3. StartsOnce
  BY <1>1 DEF Init, StartsOnce, ReadyPending, Threads, Error, Low
<1>4. SleepsWhenAsked /\ RecoverySays /\ SuspendSays /\ DevStateAgrees
  BY <1>1, HasNothing DEF Init, SleepsWhenAsked, RecoverySays, SuspendSays,
     DevStateAgrees, Threads, Low
<1> QED
  BY <1>2, <1>3, <1>4 DEF SInv

\* Where runtime PM, st_worker, a recovery and the modem are agrees in every state.
LEMMA SessionsAgree == Spec => [](IInv /\ SInv)
<1>1. IInv /\ SInv /\ [Next]_vars => SInv'
  <2> SUFFICES ASSUME IInv, SInv, [Next]_vars PROVE SInv'
    OBVIOUS
  <2>1. RuntimeRests'
    BY RuntimeFlagsStep, FirstSessionStep DEF SInv, RuntimeRests
  <2>2. StartsOnce' /\ SleepsWhenAsked' /\ RecoverySays'
    BY StartsOnceStep, SleepsWhenAskedStep, RecoveryStep DEF SInv
  <2>3. SuspendSays' /\ DevStateAgrees'
    BY SuspendStep DEF SInv
  <2> QED
    BY <2>1, <2>2, <2>3 DEF SInv
<1> QED
  BY InitSessions, <1>1, Invariance, PTL DEF Spec

\* The events of the modem set dev_state before and apart from pm_state; the two agree
\* all the same, because the modem sleeps, and says so, only while the host has asked
\* it to, and only a READY that crosses a recovery sets one without the other.
THEOREM StatesAgree == Spec => []DevStateAgrees
<1>1. SInv => DevStateAgrees
  BY DEF SInv
<1> QED
  BY <1>1, SessionsAgree, PTL

\* A device that runtime PM has suspended is in M3 unless it has crashed or is going
\* away (the MHI_ASSERT of mhi_pm.c:1116), however events, crashes and recoveries come.
THEOREM SuspendedStaysAsleep == Spec => []SuspendedIsM3
<1>1. IInv /\ SInv => SuspendedIsM3
  BY DEF SInv, SuspendSays, SuspendedIsM3, Error, InError
<1> QED
  BY <1>1, SessionsAgree, PTL

=============================================================================
