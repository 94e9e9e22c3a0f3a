------------------------------- MODULE MhiPm -------------------------------
(* Power management of the modem's PCIe driver (quectel_MHI).              *)
(*                                                                         *)
(* The modem tells the host what state it is in through a ring of events;  *)
(* the host asks it for another one through a register.  Between them are  *)
(* the tasklet that handles the events, the interrupt thread that notices a *)
(* crashed modem, two workers (st_worker, syserr_worker), the runtime power *)
(* management and the removal of the PCI device.  pm_state is what they    *)
(* agree on: each tries to move it along a table of allowed transitions,   *)
(* under a spinlock; pm_mutex orders the long operations, and the recovery *)
(* from a crash gives it up in the middle.  An action is what runs under   *)
(* one hold of the spinlock, or between two waits.                         *)
EXTENDS Naturals, Sequences

CONSTANTS
    MaxErrors,   \* bound: how often the modem crashes
    None         \* nobody holds pm_mutex

ASSUME MaxErrorsAssumption == MaxErrors \in Nat

VARIABLES
    pm_state, dev_state, ee,   \* what the host takes the modem to be in
    modem,        \* what the modem is in
    mhictrl,      \* the state that the host has last asked the modem for
    events,       \* the control event ring
    errors,       \* how often the modem has crashed
    transitions,  \* transition_list, the work of st_worker
    syserr_work,  \* syserr_worker is scheduled
    job,          \* job[t]: what thread t does next
    pm_mutex,     \* the thread that holds it
    rpm_status,   \* runtime PM: "active", "suspended", or "error" once a callback failed
    resume,       \* runtime PM has been asked to resume
    allowed,      \* runtime PM is allowed (pm_runtime_forbid has not been called)
    powered_on,   \* mhi_dev->powered_on
    children,     \* the devices of the modem's channels are registered
    queued,       \* a transfer: "none", "queued" in the ring, "rung" when the modem was told
    mhi_ctxt,     \* the rings' memory and the interrupts are there
    races         \* history: the races and timeouts that have happened

host    == <<pm_state, dev_state, ee>>
device  == <<modem, mhictrl, events, errors>>
works   == <<transitions, syserr_work>>
runtime == <<rpm_status, resume, allowed, powered_on>>
clients == <<children, queued>>
vars    == <<host, device, works, job, pm_mutex, runtime, clients, mhi_ctxt, races>>

Threads == {"tasklet", "st", "syserr", "rpm", "remove"}

ASSUME NoneAssumption == None \notin Threads

Goto(t, step) == job' = [job EXCEPT ![t] = step]

-----------------------------------------------------------------------------
(* pm_state.  A failed download of firmware (FW_DL_ERR) does not happen: the *)
(* worker that downloads it is not scheduled any more.                     *)

Fatal == {"SYS_ERR_DETECT", "SHUTDOWN_PROCESS", "LD_ERR_FATAL_DETECT"}

mhi_state_transitions ==
    [DISABLE             |-> {"POR"},
     POR                 |-> {"POR", "DISABLE", "M0"} \cup Fatal,
     M0                  |-> {"M2", "M3_ENTER"} \cup Fatal,
     M2                  |-> {"M0"} \cup Fatal,
     M3_ENTER            |-> {"M3"} \cup Fatal,
     M3                  |-> {"M3_EXIT"} \cup Fatal,
     M3_EXIT             |-> {"M0"} \cup Fatal,
     SYS_ERR_DETECT      |-> {"SYS_ERR_PROCESS", "SHUTDOWN_PROCESS", "LD_ERR_FATAL_DETECT"},
     SYS_ERR_PROCESS     |-> {"POR", "SHUTDOWN_PROCESS", "LD_ERR_FATAL_DETECT"},
     SHUTDOWN_PROCESS    |-> {"DISABLE", "LD_ERR_FATAL_DETECT"},
     LD_ERR_FATAL_DETECT |-> {"LD_ERR_FATAL_DETECT", "SHUTDOWN_PROCESS"}]

PmStates == DOMAIN mhi_state_transitions

\* The caller of mhi_tryset_pm_state compares the result with what it asked for:
\* a state that is already there counts as reached.
Reaches(s) == s = pm_state \/ s \in mhi_state_transitions[pm_state]
TrySet(s)  == pm_state' = IF Reaches(s) THEN s ELSE pm_state

InError(s)     == s \in {"SYS_ERR_DETECT", "SYS_ERR_PROCESS", "SHUTDOWN_PROCESS",
                         "LD_ERR_FATAL_DETECT"}
RegAccess(s)   == s \notin {"DISABLE", "M3", "LD_ERR_FATAL_DETECT"}
EventAccess(s) == s # "DISABLE" /\ ~InError(s)
Suspending(s)  == s \in {"M3_ENTER", "M3"}

-----------------------------------------------------------------------------
(* The modem.                                                              *)

Awake == {"M0", "M1", "M2", "M3"}

\* What mhi_get_exec_env may read.
ExecEnvs == IF modem \in Awake THEN {"AMSS"} ELSE {"AMSS", "PBL"}

Boot ==
    /\ modem = "reset"
    /\ modem' = "ready"
    /\ UNCHANGED <<host, mhictrl, events, errors, works, job, pm_mutex, runtime,
                   clients, mhi_ctxt, races>>

\* The modem does what it was asked for and says so; after a boot it also says
\* that its firmware runs.
Obey ==
    /\ \/ /\ mhictrl = "M0"
          /\ modem \in {"ready", "M3"}
          /\ modem' = "M0"
          /\ events' = events \o IF modem = "ready" THEN <<"M0", "AMSS">> ELSE <<"M0">>
       \/ /\ mhictrl = "M3"
          /\ modem \in {"M0", "M1"}
          /\ modem' = "M3"
          /\ events' = Append(events, "M3")
    /\ UNCHANGED <<host, mhictrl, errors, works, job, pm_mutex, runtime, clients,
                   mhi_ctxt, races>>

\* It has nothing to do and asks to be let into M2.
Idle ==
    /\ modem = "M0"
    /\ modem' = "M1"
    /\ events' = Append(events, "M1")
    /\ UNCHANGED <<host, mhictrl, errors, works, job, pm_mutex, runtime, clients,
                   mhi_ctxt, races>>

\* It crashes, and may be able to say so.
Crash ==
    /\ errors < MaxErrors
    /\ modem # "SYS_ERR"
    /\ modem' = "SYS_ERR"
    /\ errors' = errors + 1
    /\ \/ /\ modem \in {"M0", "M1", "M2"}
          /\ events' = Append(events, "SYS_ERR")
       \/ UNCHANGED events
    /\ UNCHANGED <<host, mhictrl, works, job, pm_mutex, runtime, clients, mhi_ctxt, races>>

Transfer ==
    /\ queued = "rung"
    /\ modem \in {"M0", "M1", "M2"}
    /\ queued' = "none"
    /\ UNCHANGED <<host, device, works, job, pm_mutex, runtime, children, mhi_ctxt, races>>

-----------------------------------------------------------------------------
(* Waking the modem and asking for a resume.                               *)

\* mhi_assert_dev_wake: the doorbell is rung if the host takes the modem to be in
\* M2; nothing is counted.
WakeGet ==
    IF dev_state = "M2" /\ modem = "M2"
    THEN modem' = "M0" /\ events' = Append(events, "M0")
    ELSE UNCHANGED <<modem, events>>

\* A request to resume that comes while the device is being suspended is served
\* afterwards, one for an active device has no effect.
CanResume ==
    \/ rpm_status = "suspended" /\ job["rpm"] = "idle"
    \/ job["rpm"] \in {"wait_m0", "enter", "wait_m3"}

\* Wrong: a device that is still entering M3 is not asked.
RequestResumeFromM3 == resume' = (resume \/ (pm_state = "M3" /\ CanResume))

\* runtime_get and runtime_put
RequestResume == resume' = (resume \/ (Suspending(pm_state) /\ CanResume))

\* A client puts a transfer into its ring.
Queue ==
    /\ children
    /\ queued = "none"
    /\ ~InError(pm_state)
    /\ queued' = IF pm_state = "M0" THEN "rung" ELSE "queued"
    /\ WakeGet
    /\ RequestResume
    /\ UNCHANGED <<host, mhictrl, errors, works, job, pm_mutex, rpm_status, allowed,
                   powered_on, children, mhi_ctxt, races>>

-----------------------------------------------------------------------------
(* The tasklet of the control events.                                      *)

\* pm_state is looked at here, and not again while there are events.  A tasklet that
\* was scheduled for events it has handled meanwhile finds none, and does nothing more
\* unless the modem has crashed.
CtrlEvTask ==
    /\ job["tasklet"] = "idle"
    /\ mhi_ctxt
    /\ RegAccess(pm_state)
    /\ EventAccess(pm_state)
    /\ events # <<>> \/ modem = "SYS_ERR"
    /\ Goto("tasklet", IF events = <<>> THEN "look" ELSE "events")
    /\ UNCHANGED <<host, device, works, pm_mutex, runtime, clients, mhi_ctxt, races>>

Receive(e) ==
    /\ job["tasklet"] = "events"
    /\ events # <<>>
    /\ Head(events) = e
    /\ events' = Tail(events)

\* dev_state is set whether or not pm_state follows.
M0Transition ==
    /\ Receive("M0")
    /\ dev_state' = "M0"
    /\ TrySet("M0")
    /\ Goto("tasklet", IF Reaches("M0") THEN "doorbells" ELSE "events")
    /\ UNCHANGED <<ee, modem, mhictrl, errors, works, pm_mutex, runtime, clients,
                   mhi_ctxt, races>>

\* The rings that are not empty are rung, without a look at pm_state.
RingDoorbells ==
    /\ job["tasklet"] = "doorbells"
    /\ queued' = IF queued = "queued" THEN "rung" ELSE queued
    /\ Goto("tasklet", "events")
    /\ UNCHANGED <<host, device, works, pm_mutex, runtime, children, mhi_ctxt, races>>

\* Wrong: only pm_state is set.
M1TransitionPmOnly ==
    /\ Receive("M1")
    /\ IF Reaches("M2")
       THEN /\ pm_state' = "M2"
            /\ mhictrl' = "M2"
            /\ modem' = IF modem = "M1" THEN "M2" ELSE modem
       ELSE UNCHANGED <<pm_state, mhictrl, modem>>
    /\ UNCHANGED <<dev_state, ee, errors, works, job, pm_mutex, runtime, clients, mhi_ctxt,
                   races>>

\* dev_wake is never counted, so that M2 is never left at once.
M1Transition ==
    /\ Receive("M1")
    /\ IF Reaches("M2")
       THEN /\ pm_state' = "M2"
            /\ dev_state' = "M2"
            /\ mhictrl' = "M2"
            /\ modem' = IF modem = "M1" THEN "M2" ELSE modem
       ELSE UNCHANGED <<pm_state, dev_state, mhictrl, modem>>
    /\ UNCHANGED <<ee, errors, works, job, pm_mutex, runtime, clients, mhi_ctxt, races>>

M3Transition ==
    /\ Receive("M3")
    /\ dev_state' = "M3"
    /\ TrySet("M3")
    /\ UNCHANGED <<ee, modem, mhictrl, errors, works, job, pm_mutex, runtime, clients,
                   mhi_ctxt, races>>

\* Wrong: the worker is not scheduled.
SysErrEventUnscheduled ==
    /\ Receive("SYS_ERR")
    /\ TrySet("SYS_ERR_DETECT")
    /\ UNCHANGED <<dev_state, ee, modem, mhictrl, errors, works, job, pm_mutex, runtime,
                   clients, mhi_ctxt, races>>

SysErrEvent ==
    /\ Receive("SYS_ERR")
    /\ TrySet("SYS_ERR_DETECT")
    /\ syserr_work' = (syserr_work \/ Reaches("SYS_ERR_DETECT"))
    /\ UNCHANGED <<dev_state, ee, modem, mhictrl, errors, transitions, job, pm_mutex,
                   runtime, clients, mhi_ctxt, races>>

MissionModeEvent ==
    /\ Receive("AMSS")
    /\ transitions' = Append(transitions, "MISSION_MODE")
    /\ UNCHANGED <<host, modem, mhictrl, errors, syserr_work, job, pm_mutex, runtime,
                   clients, mhi_ctxt, races>>

TaskletDone ==
    /\ job["tasklet"] = "events"
    /\ events = <<>>
    /\ Goto("tasklet", "idle")
    /\ UNCHANGED <<host, device, works, pm_mutex, runtime, clients, mhi_ctxt, races>>

\* No events: the modem may have crashed without a word.
LookAtModem ==
    /\ job["tasklet"] = "look"
    /\ IF modem = "SYS_ERR" /\ Reaches("SYS_ERR_DETECT")
       THEN pm_state' = "SYS_ERR_DETECT" /\ syserr_work' = TRUE
       ELSE UNCHANGED <<pm_state, syserr_work>>
    /\ Goto("tasklet", "idle")
    /\ UNCHANGED <<dev_state, ee, device, transitions, pm_mutex, runtime, clients, mhi_ctxt,
                   races>>

\* What mhi_intvec_threaded_handlr does about a crashed modem.  One that the host
\* knew to be in its boot loader is left to the controller, which forbids
\* runtime PM and no more.
DetectError ==
    IF /\ RegAccess(pm_state)
       /\ modem = "SYS_ERR"
       /\ pm_state # "SYS_ERR_DETECT"
       /\ Reaches("SYS_ERR_DETECT")
    THEN /\ pm_state' = "SYS_ERR_DETECT"
         /\ \E env \in ExecEnvs :
               IF ee = env /\ env = "PBL"
               THEN allowed' = FALSE /\ UNCHANGED syserr_work
               ELSE syserr_work' = TRUE /\ UNCHANGED allowed
    ELSE UNCHANGED <<pm_state, syserr_work, allowed>>

\* The thread of the interrupt.
IntvecThread ==
    /\ mhi_ctxt
    /\ DetectError
    /\ pm_state' # pm_state
    /\ UNCHANGED <<dev_state, ee, device, transitions, job, pm_mutex, rpm_status, resume,
                   powered_on, clients, mhi_ctxt, races>>

-----------------------------------------------------------------------------
(* The transition to READY, made by st_worker after power-up and by          *)
(* syserr_worker, under pm_mutex, at the end of a recovery.                *)

Finish(w) ==
    /\ Goto(w, "idle")
    /\ pm_mutex' = IF pm_mutex = w THEN None ELSE pm_mutex

\* The wait for the modem ends, without a lock; only a fatal error is looked at.
ReadyWait(w) ==
    /\ job[w] = "ready"
    /\ \/ pm_state = "LD_ERR_FATAL_DETECT" /\ Finish(w)
       \/ /\ pm_state # "LD_ERR_FATAL_DETECT"
          /\ modem \in Awake \cup {"ready"}
          /\ Goto(w, "set")
          /\ UNCHANGED pm_mutex
    /\ UNCHANGED <<host, device, works, runtime, clients, mhi_ctxt, races>>

\* dev_state is set whether or not pm_state follows, and whatever has happened to the
\* modem and to pm_state since the wait.
ReadyTransition(w) ==
    /\ job[w] = "set"
    /\ TrySet("POR")
    /\ dev_state' = "READY"
    /\ IF Reaches("POR") THEN Goto(w, "mmio") /\ UNCHANGED pm_mutex ELSE Finish(w)
    /\ races' = IF w = "st" /\ pm_state = "SYS_ERR_PROCESS"
                THEN races \cup {"crossed"} ELSE races
    /\ UNCHANGED <<ee, device, works, runtime, clients, mhi_ctxt>>

ReadyTimeout(w) ==
    /\ job[w] = "ready"
    /\ modem \in {"reset", "SYS_ERR"}
    /\ Finish(w)
    /\ races' = races \cup {"timeout"}
    /\ UNCHANGED <<host, device, works, runtime, clients, mhi_ctxt>>

\* The modem is told where the rings are and asked for M0.
InitMmio(w) ==
    /\ job[w] = "mmio"
    /\ mhictrl' = IF RegAccess(pm_state) THEN "M0" ELSE mhictrl
    /\ Finish(w)
    /\ UNCHANGED <<host, modem, events, errors, works, runtime, clients, mhi_ctxt, races>>

-----------------------------------------------------------------------------
(* st_worker.                                                              *)

StWorker ==
    /\ job["st"] = "idle"
    /\ transitions # <<>>
    /\ transitions' = Tail(transitions)
    /\ Goto("st", IF Head(transitions) = "READY" THEN "ready" ELSE "wake")
    /\ UNCHANGED <<host, device, syserr_work, pm_mutex, runtime, clients, mhi_ctxt, races>>

\* __mhi_device_get_sync: the modem is woken and waited for.
MissionWake ==
    /\ job["st"] = "wake"
    /\ WakeGet
    /\ RequestResume
    /\ Goto("st", "wait_m0")
    /\ UNCHANGED <<host, mhictrl, errors, works, pm_mutex, rpm_status, allowed, powered_on,
                   clients, mhi_ctxt, races>>

MissionWait ==
    /\ job["st"] = "wait_m0"
    /\ pm_state = "M0" \/ InError(pm_state)
    /\ Goto("st", IF InError(pm_state) THEN "idle" ELSE "ee")
    /\ UNCHANGED <<host, device, works, pm_mutex, runtime, clients, mhi_ctxt, races>>

MissionTimeout ==
    /\ job["st"] = "wait_m0"
    /\ pm_state # "M0"
    /\ ~InError(pm_state)
    /\ Goto("st", "idle")
    /\ races' = races \cup {"timeout"}
    /\ UNCHANGED <<host, device, works, pm_mutex, runtime, clients, mhi_ctxt>>

\* ee is read from the modem, also when a recovery or the removal has set it.
MissionEe ==
    /\ job["st"] = "ee"
    /\ ee' \in IF RegAccess(pm_state) THEN ExecEnvs ELSE {ee}
    /\ Goto("st", "check")
    /\ UNCHANGED <<pm_state, dev_state, device, works, pm_mutex, runtime, clients,
                   mhi_ctxt, races>>

MissionCheck ==
    /\ job["st"] = "check"
    /\ Goto("st", IF ee = "AMSS" /\ ~InError(pm_state) THEN "create" ELSE "idle")
    /\ UNCHANGED <<host, device, works, pm_mutex, runtime, clients, mhi_ctxt, races>>

\* mhi_create_devices, without a lock: a channel of the modem's environment that
\* has no device yet gets one, which is registered afterwards.
CreateDevice ==
    /\ job["st"] = "create"
    /\ Goto("st", IF ee = "AMSS" /\ ~children THEN "add" ELSE "idle")
    /\ UNCHANGED <<host, device, works, pm_mutex, runtime, clients, mhi_ctxt, races>>

AddDevice ==
    /\ job["st"] = "add"
    /\ children' = TRUE
    /\ Goto("st", "idle")
    /\ UNCHANGED <<host, device, works, pm_mutex, runtime, queued, mhi_ctxt, races>>

-----------------------------------------------------------------------------
(* The end of a session: a recovery ("syserr") or the removal ("remove").   *)

\* The controller is told first; it forbids runtime PM, which resumes a suspended
\* device.
SysErrWorker ==
    /\ job["syserr"] = "idle"
    /\ syserr_work
    /\ syserr_work' = FALSE
    /\ allowed' = FALSE
    /\ Goto("syserr", IF allowed THEN "forbid" ELSE "lock")
    /\ resume' = (resume \/ (allowed /\ CanResume))
    /\ UNCHANGED <<host, device, transitions, pm_mutex, rpm_status, powered_on, clients,
                   mhi_ctxt, races>>

SysErrForbidden ==
    /\ job["syserr"] = "forbid"
    /\ \/ job["rpm"] = "idle" /\ rpm_status # "suspended"
       \/ job["remove"] = "gone"
    /\ Goto("syserr", "lock")
    /\ UNCHANGED <<host, device, works, pm_mutex, runtime, clients, mhi_ctxt, races>>

Target(w) == IF w = "syserr" THEN "SYS_ERR_PROCESS" ELSE "SHUTDOWN_PROCESS"

\* The removal leaves the modem alone: its link is taken to be dead.
DisableTransition(w) ==
    /\ job[w] = "lock"
    /\ pm_mutex = None
    /\ TrySet(Target(w))
    /\ IF Reaches(Target(w))
       THEN /\ ee' = "DISABLE"
            /\ dev_state' = "RESET"
            /\ pm_mutex' = w
            /\ Goto(w, IF w = "syserr" THEN "reset" ELSE "kill")
       ELSE /\ Goto(w, IF w = "syserr" THEN "idle" ELSE "free")
            /\ UNCHANGED <<ee, dev_state, pm_mutex>>
    /\ races' = IF w = "remove" /\ job["syserr"] \in {"sweep", "flush", "rings"}
                THEN races \cup {"overtaken"} ELSE races
    /\ UNCHANGED <<device, works, runtime, clients, mhi_ctxt>>

ResetModem ==
    /\ job["syserr"] = "reset"
    /\ modem' = "reset"
    /\ mhictrl' = "none"
    /\ Goto("syserr", "kill")
    /\ UNCHANGED <<host, events, errors, works, pm_mutex, runtime, clients, mhi_ctxt, races>>

\* Wrong: the error path does not unlock.
ResetTimeoutLocked ==
    /\ job["syserr"] = "reset"
    /\ Goto("syserr", "idle")
    /\ races' = races \cup {"timeout"}
    /\ UNCHANGED <<host, device, works, pm_mutex, runtime, clients, mhi_ctxt>>

\* The modem does not get out of reset: the recovery ends here.
ResetTimeout ==
    /\ job["syserr"] = "reset"
    /\ Finish("syserr")
    /\ races' = races \cup {"timeout"}
    /\ UNCHANGED <<host, device, works, runtime, clients, mhi_ctxt>>

\* Wrong: pm_mutex is kept while the workers are waited for.
KillTaskletLocked(w) ==
    /\ job[w] = "kill"
    /\ job["tasklet"] = "idle"
    /\ Goto(w, "sweep")
    /\ UNCHANGED <<host, device, works, pm_mutex, runtime, clients, mhi_ctxt, races>>

\* tasklet_kill waits for the tasklet; pm_mutex is given up.
KillTasklet(w) ==
    /\ job[w] = "kill"
    /\ job["tasklet"] = "idle"
    /\ pm_mutex' = None
    /\ Goto(w, "sweep")
    /\ UNCHANGED <<host, device, works, runtime, clients, mhi_ctxt, races>>

DestroyDevices(w) ==
    /\ job[w] = "sweep"
    /\ children' = FALSE
    /\ queued' = "none"
    /\ Goto(w, "flush")
    /\ UNCHANGED <<host, device, works, pm_mutex, runtime, mhi_ctxt, races>>

\* Wrong: st_worker is not waited for.
FlushNothing(w) ==
    /\ job[w] = "flush"
    /\ Goto(w, "rings")
    /\ UNCHANGED <<host, device, works, pm_mutex, runtime, clients, mhi_ctxt, races>>

FlushWorkers(w) ==
    /\ job[w] = "flush"
    /\ job["st"] = "idle"
    /\ transitions = <<>>
    /\ Goto(w, "rings")
    /\ UNCHANGED <<host, device, works, pm_mutex, runtime, clients, mhi_ctxt, races>>

\* What the modem has put into the event ring is forgotten.
ResetRings(w) ==
    /\ job[w] = "rings"
    /\ pm_mutex = None
    /\ pm_mutex' = w
    /\ events' = <<>>
    /\ Goto(w, IF w = "syserr" THEN "ready" ELSE "disable")
    /\ UNCHANGED <<host, modem, mhictrl, errors, works, runtime, clients, mhi_ctxt, races>>

-----------------------------------------------------------------------------
(* The removal of the device.                                              *)

\* pm_runtime_get_sync: no suspension can start from now on.
RemoveDevice ==
    /\ job["remove"] = "idle"
    /\ Goto("remove", "get")
    /\ resume' = (resume \/ CanResume)
    /\ UNCHANGED <<host, device, works, pm_mutex, rpm_status, allowed, powered_on, clients,
                   mhi_ctxt, races>>

PowerOff ==
    /\ job["remove"] = "get"
    /\ job["rpm"] = "idle"
    /\ rpm_status # "suspended"
    /\ pm_mutex = None
    /\ powered_on' = FALSE
    /\ Goto("remove", "fatal")
    /\ UNCHANGED <<host, device, works, pm_mutex, rpm_status, resume, allowed, clients,
                   mhi_ctxt, races>>

PowerDown ==
    /\ job["remove"] = "fatal"
    /\ pm_mutex = None
    /\ TrySet("LD_ERR_FATAL_DETECT")
    /\ Goto("remove", "lock")
    /\ UNCHANGED <<dev_state, ee, device, works, pm_mutex, runtime, clients, mhi_ctxt, races>>

Disable ==
    /\ job["remove"] = "disable"
    /\ TrySet("DISABLE")
    /\ pm_mutex' = None
    /\ Goto("remove", "free")
    /\ UNCHANGED <<dev_state, ee, device, works, runtime, clients, mhi_ctxt, races>>

\* The interrupts and the memory of the rings are given back; then runtime PM is
\* disabled.
Free ==
    /\ job["remove"] = "free"
    /\ mhi_ctxt' = FALSE
    /\ Goto("remove", "gone")
    /\ UNCHANGED <<host, device, works, pm_mutex, runtime, clients, races>>

-----------------------------------------------------------------------------
(* Runtime PM.  A sleep of the system takes the same steps: the PCI core      *)
(* resumes the device before it asks it to suspend.                        *)

\* A callback that fails for another reason than -EBUSY ends runtime PM.
Abort ==
    /\ rpm_status' = "error"
    /\ resume' = FALSE
    /\ Finish("rpm")

RuntimeSuspend ==
    /\ job["rpm"] = "idle"
    /\ job["remove"] \notin {"get", "gone"}
    /\ rpm_status = "active"
    /\ allowed
    /\ pm_mutex = None
    /\ \/ /\ ~powered_on
          /\ rpm_status' = "suspended"
          /\ UNCHANGED <<job, pm_mutex, resume, modem, events>>
       \/ /\ powered_on
          /\ ee = "AMSS"
          /\ IF pm_state = "DISABLE" \/ InError(pm_state)
             THEN Abort /\ UNCHANGED <<modem, events>>
             ELSE /\ WakeGet
                  /\ pm_mutex' = "rpm"
                  /\ Goto("rpm", "wait_m0")
                  /\ UNCHANGED <<rpm_status, resume>>
    /\ UNCHANGED <<host, mhictrl, errors, works, allowed, powered_on, clients, mhi_ctxt, races>>

\* What a wait of runtime PM is for.
Awaited == CASE job["rpm"] \in {"wait_m0", "wait_resume"} -> "M0"
             [] job["rpm"] = "wait_m3" -> "M3"
             [] OTHER -> None

\* The wait ends; a state of error ends it too.
RpmWait ==
    /\ Awaited # None
    /\ dev_state = Awaited \/ InError(pm_state)
    /\ \/ InError(pm_state) /\ Abort
       \/ /\ ~InError(pm_state)
          /\ job["rpm"] = "wait_m0"
          /\ Goto("rpm", "enter")
          /\ UNCHANGED <<rpm_status, resume, pm_mutex>>
       \/ /\ ~InError(pm_state)
          /\ job["rpm"] # "wait_m0"
          /\ rpm_status' = IF job["rpm"] = "wait_m3" THEN "suspended" ELSE "active"
          /\ Finish("rpm")
          /\ UNCHANGED resume
    /\ UNCHANGED <<host, device, works, allowed, powered_on, clients, mhi_ctxt, races>>

\* After a resume that takes too long the modem is looked at.
RpmTimeout ==
    /\ Awaited # None
    /\ dev_state # Awaited
    /\ ~InError(pm_state)
    /\ Abort
    /\ races' = races \cup {"timeout"}
    /\ IF job["rpm"] = "wait_resume" THEN DetectError
       ELSE UNCHANGED <<pm_state, syserr_work, allowed>>
    /\ UNCHANGED <<dev_state, ee, device, transitions, powered_on, clients, mhi_ctxt>>

\* Wrong: the state that has been reached is not looked at.
EnterM3Unchecked ==
    /\ job["rpm"] = "enter"
    /\ TrySet("M3_ENTER")
    /\ mhictrl' = "M3"
    /\ Goto("rpm", "wait_m3")
    /\ UNCHANGED <<dev_state, ee, modem, events, errors, works, pm_mutex, runtime, clients,
                   mhi_ctxt, races>>

\* pm_state may have changed since the wait.
EnterM3 ==
    /\ job["rpm"] = "enter"
    /\ TrySet("M3_ENTER")
    /\ IF Reaches("M3_ENTER")
       THEN /\ mhictrl' = "M3"
            /\ Goto("rpm", "wait_m3")
            /\ UNCHANGED <<rpm_status, resume, pm_mutex>>
       ELSE Abort /\ UNCHANGED mhictrl
    /\ UNCHANGED <<dev_state, ee, modem, events, errors, works, allowed, powered_on, clients,
                   mhi_ctxt, races>>

RuntimeResume ==
    /\ job["rpm"] = "idle"
    /\ job["remove"] # "gone"
    /\ rpm_status = "suspended"
    /\ resume
    /\ pm_mutex = None
    /\ \/ /\ ~powered_on \/ pm_state = "DISABLE"
          /\ rpm_status' = "active"
          /\ resume' = FALSE
          /\ UNCHANGED <<pm_state, mhictrl, job, pm_mutex>>
       \/ /\ powered_on
          /\ pm_state # "DISABLE"
          /\ IF ~InError(pm_state) /\ Reaches("M3_EXIT")
             THEN /\ pm_state' = "M3_EXIT"
                  /\ mhictrl' = "M0"
                  /\ pm_mutex' = "rpm"
                  /\ Goto("rpm", "wait_resume")
                  /\ resume' = FALSE
                  /\ UNCHANGED rpm_status
             ELSE Abort /\ UNCHANGED <<pm_state, mhictrl>>
    /\ UNCHANGED <<dev_state, ee, modem, events, errors, works, allowed, powered_on, clients,
                   mhi_ctxt, races>>

-----------------------------------------------------------------------------
(* Specification.                                                          *)

\* mhi_async_power_up has returned; the modem is starting.
Init ==
    /\ pm_state = "POR"
    /\ dev_state = "RESET"
    /\ ee = "MAX"
    /\ modem = "reset"
    /\ mhictrl = "none"
    /\ events = <<>>
    /\ errors = 0
    /\ transitions = <<"READY">>
    /\ syserr_work = FALSE
    /\ job = [t \in Threads |-> "idle"]
    /\ pm_mutex = None
    /\ rpm_status = "active"
    /\ resume = FALSE
    /\ allowed = TRUE
    /\ powered_on = TRUE
    /\ children = FALSE
    /\ queued = "none"
    /\ mhi_ctxt = TRUE
    /\ races = {}

Modem   == Boot \/ Obey \/ Transfer
Tasklet == \/ LookAtModem \/ M0Transition \/ RingDoorbells \/ M1Transition
           \/ M3Transition \/ SysErrEvent \/ MissionModeEvent \/ TaskletDone
St      == \/ StWorker \/ MissionWake \/ MissionWait \/ MissionEe \/ MissionCheck
           \/ CreateDevice \/ AddDevice
Ready(w)   == ReadyWait(w) \/ ReadyTransition(w) \/ InitMmio(w)
Session(w) == \/ DisableTransition(w) \/ KillTasklet(w) \/ DestroyDevices(w)
              \/ FlushWorkers(w) \/ ResetRings(w)
SysErr  == SysErrWorker \/ SysErrForbidden \/ ResetModem
Removal == PowerOff \/ PowerDown \/ Disable \/ Free
Rpm     == RpmWait \/ EnterM3 \/ RuntimeResume

Next ==
    \/ Modem \/ Idle \/ Crash \/ Queue
    \/ CtrlEvTask \/ Tasklet \/ IntvecThread
    \/ St \/ MissionTimeout
    \/ \E w \in {"st", "syserr"} : Ready(w) \/ ReadyTimeout(w)
    \/ SysErr \/ ResetTimeout
    \/ \E w \in {"syserr", "remove"} : Session(w)
    \/ RemoveDevice \/ Removal
    \/ RuntimeSuspend \/ Rpm \/ RpmTimeout

\* Threads go on, wait_event_timeout returns, and a modem that is not crashed does
\* what it is asked for.  The tasklet catches up with the event ring now and then,
\* and a mutex, runtime PM or tasklet_kill lets whoever waits through in the end.
Fairness ==
    /\ WF_vars(Modem) /\ WF_vars(IntvecThread)
    /\ WF_vars(CtrlEvTask \/ Tasklet) /\ SF_vars(TaskletDone)
    /\ WF_vars(St \/ MissionTimeout)
    /\ \A w \in {"st", "syserr"} : WF_vars(Ready(w) \/ ReadyTimeout(w))
    /\ WF_vars(SysErr) /\ SF_vars(Removal)
    /\ \A w \in {"syserr", "remove"} : SF_vars(Session(w))
    /\ WF_vars(Rpm \/ RpmTimeout)

Spec == Init /\ [][Next]_vars /\ Fairness

-----------------------------------------------------------------------------
(* Properties.                                                             *)

\* What pm_mutex protects, for the threads that take it.
Steps == {"idle", "events", "doorbells", "look", "ready", "set", "mmio", "wake", "wait_m0", "ee",
          "check", "create", "add", "forbid", "lock", "reset", "kill", "sweep", "flush",
          "rings", "get", "fatal", "disable", "free", "gone", "enter", "wait_m3",
          "wait_resume"}
Section == {"reset", "kill", "ready", "set", "mmio", "disable", "wait_m0", "enter",
            "wait_m3", "wait_resume"}

\* Every variable has its type, and pm_mutex is held by exactly the thread that is in a
\* section it protects: no error path keeps it, none gives up another's.
TypeOK ==
    /\ pm_state \in PmStates
    /\ dev_state \in {"RESET", "READY", "M0", "M2", "M3"}
    /\ ee \in {"MAX", "AMSS", "PBL", "DISABLE"}
    /\ modem \in Awake \cup {"reset", "ready", "SYS_ERR"}
    /\ mhictrl \in {"none", "M0", "M2", "M3"}
    /\ events \in Seq({"M0", "M1", "M3", "SYS_ERR", "AMSS"})
    /\ errors \in 0 .. MaxErrors
    /\ transitions \in Seq({"READY", "MISSION_MODE"})
    /\ job \in [Threads -> Steps]
    /\ pm_mutex \in {None, "syserr", "rpm", "remove"}
    /\ \A w \in {"syserr", "rpm", "remove"} : pm_mutex = w <=> job[w] \in Section
    /\ rpm_status \in {"active", "suspended", "error"}
    /\ syserr_work \in BOOLEAN /\ resume \in BOOLEAN /\ allowed \in BOOLEAN
    /\ powered_on \in BOOLEAN /\ children \in BOOLEAN /\ mhi_ctxt \in BOOLEAN
    /\ queued \in {"none", "queued", "rung"}
    /\ races \subseteq {"timeout", "crossed", "overtaken"}

\* MHI_ASSERT(mhi_cntrl->pm_state != MHI_PM_M3, ...), mhi_pm.c:1116: a device that
\* runtime PM has suspended, and that is neither crashed nor going away, is in M3.
SuspendedIsM3 ==
    rpm_status = "suspended" /\ job["rpm"] = "idle" /\ powered_on /\ ~InError(pm_state)
       => pm_state = "M3"

\* dev_state is written before and apart from pm_state; where the host takes the
\* modem to be agrees with its power state all the same.
DevStateAgrees ==
    pm_state \in {"M0", "M2", "M3"} => dev_state = pm_state \/ "crossed" \in races

\* Nothing works on the rings once the removal has freed them, unless it began
\* while a recovery had given up pm_mutex.
ContextOutlivesWork ==
    ~mhi_ctxt => \/ /\ job["tasklet"] = "idle"
                    /\ job["st"] = "idle"
                    /\ job["syserr"] \in {"idle", "forbid", "lock"}
                 \/ "overtaken" \in races

\* A transfer is never stuck in its ring because the modem sleeps: unless a wait
\* times out, or two sessions cross, the modem is told of it, or has crashed or
\* gone.
QueuedIsRung ==
    queued = "queued" ~> \/ queued # "queued"
                         \/ InError(pm_state)
                         \/ job["remove"] # "idle"
                         \/ races \cap {"timeout", "crossed"} # {}

\* An error that has been detected is always processed, except by a host that
\* knows the modem to be in its boot loader.
ErrorIsProcessed ==
    pm_state = "SYS_ERR_DETECT" ~> pm_state # "SYS_ERR_DETECT" \/ ee = "PBL"

\* The removal comes to its end, whatever it waits for.
RemovalEnds ==
    job["remove"] # "idle" ~> job["remove"] = "gone"

=============================================================================
