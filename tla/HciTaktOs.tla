----------------------------- MODULE HciTaktOs ------------------------------
(***************************************************************************)
(* The runtime of the HCI thread, src/src/hci_taktos.cpp, with the start   *)
(* of that thread in src/src/main.cpp and the stop of the application in   *)
(* src/src/hci_app.cpp.                                                    *)
(*                                                                         *)
(* Interrupts wake one worker thread through a word of pending events and  *)
(* a binary semaphore.  The two are updated one after the other, and the   *)
(* semaphore is left alone when the event was pending already.  A stop     *)
(* sets a flag, wakes the worker and waits for it with a time limit before *)
(* the target is torn down below it.                                       *)
(*                                                                         *)
(* Every waker is a small process: it raises its work, then updates the    *)
(* word, then gives the semaphore.  Diagnostic counters are left out.      *)
(***************************************************************************)
EXTENDS Naturals, FiniteSets

CONSTANTS
    Interrupt,   \* interrupt sources that wake the worker
    EventOf,     \* interrupt -> "HOST", "MPSL" or "SDC"
    Polls        \* PollIntervalMs # 0

Source == {"HOST", "MPSL", "SDC"}
Event  == Source \union {"STOP"}

ASSUME RuntimeAssumption ==
    /\ EventOf \in [Interrupt -> Source]
    /\ Polls \in BOOLEAN
    /\ Interrupt \intersect {"worker", "stopper"} = {}

(* The worker wakes itself, and the stop wakes it. *)
Waker == Interrupt \union {"worker", "stopper"}

Events(w) == IF w \in Interrupt THEN EventOf[w]
             ELSE IF w = "worker" THEN "HOST" ELSE "STOP"

VARIABLES
    PendingEvents, WakeSem, StoppedSem,
    StopRequested, HostStarted, ThreadArmed, ThreadLive,
    Initialized,   \* of the application
    pc,            \* where the thread is
    events,        \* the events its pass took
    waking,        \* waker -> "idle", "raised" or "give"
    stop,          \* where HciAppStop is
    work           \* what there is to do, by the source that announced it

runtimeVars == <<PendingEvents, WakeSem, StoppedSem, StopRequested, HostStarted,
                 ThreadArmed, ThreadLive>>
vars == <<runtimeVars, Initialized, pc, events, waking, stop, work>>

(* The worker is sequential: it goes on once its own wake has returned. *)
At(here) == pc = here /\ waking["worker"] = "idle"

---------------------------------------------------------------------------
(* HciTaktOsWake, in the order of its two updates. *)

Raise(w) ==
    /\ w \in Interrupt
    /\ waking[w] = "idle"
    /\ stop # "down"            \* HciTargetStop turns the interrupts off
    /\ waking' = [waking EXCEPT ![w] = "raised"]
    /\ work' = work \union {EventOf[w]}
    /\ UNCHANGED <<runtimeVars, Initialized, pc, events, stop>>

(* The fetch_or: an event that was pending is folded. *)
SetEvent(w) ==
    /\ waking[w] = "raised"
    /\ PendingEvents' = PendingEvents \union {Events(w)}
    /\ waking' = [waking EXCEPT ![w] = IF Events(w) \in PendingEvents THEN "idle" ELSE "give"]
    /\ UNCHANGED <<WakeSem, StoppedSem, StopRequested, HostStarted, ThreadArmed, ThreadLive,
                   Initialized, pc, events, stop, work>>

(* A full semaphore stays full. *)
SemGive(w) ==
    /\ waking[w] = "give"
    /\ WakeSem' = 1
    /\ waking' = [waking EXCEPT ![w] = "idle"]
    /\ UNCHANGED <<PendingEvents, StoppedSem, StopRequested, HostStarted, ThreadArmed,
                   ThreadLive, Initialized, pc, events, stop, work>>

---------------------------------------------------------------------------
(* main: the thread is armed before the kernel creates it. *)

HciTaktOsThreadArm ==
    /\ pc = "none"
    /\ ThreadArmed' = TRUE
    /\ pc' = "armed"
    /\ UNCHANGED <<PendingEvents, WakeSem, StoppedSem, StopRequested, HostStarted, ThreadLive,
                   Initialized, events, waking, stop, work>>

ThreadCreated ==
    /\ pc = "armed"
    /\ pc' = "created"
    /\ UNCHANGED <<runtimeVars, Initialized, events, waking, stop, work>>

(* HciTaktOsThreadDisarm, then HciFatal. *)
CreateFails ==
    /\ pc = "armed"
    /\ ThreadArmed' = (ThreadArmed /\ ThreadLive)
    /\ pc' = "fatal"
    /\ UNCHANGED <<PendingEvents, WakeSem, StoppedSem, StopRequested, HostStarted, ThreadLive,
                   Initialized, events, waking, stop, work>>

---------------------------------------------------------------------------
(* HciTaktOsThread. *)

(* HciAppThread enters the runtime only while the application is up. *)
Enter ==
    /\ pc = "created"
    /\ Initialized
    /\ ThreadLive' = TRUE
    /\ pc' = "entered"
    /\ UNCHANGED <<PendingEvents, WakeSem, StoppedSem, StopRequested, HostStarted, ThreadArmed,
                   Initialized, events, waking, stop, work>>

GoTo(here, there) ==
    /\ At(here)
    /\ pc' = there
    /\ UNCHANGED <<runtimeVars, Initialized, events, waking, stop, work>>

(* A stop that came before the thread first ran. *)
CheckEarlyStop == GoTo("entered", IF StopRequested THEN "leave" ELSE "target")

TargetStart == GoTo("target", "host")

TargetStartFails == GoTo("target", "leave")

(* The loop is entered whether the host came up or not, with a first wake. *)
HostStart ==
    /\ At("host")
    /\ HostStarted' \in BOOLEAN
    /\ waking' = [waking EXCEPT !["worker"] = "raised"]
    /\ work' = work \union {"HOST"}
    /\ pc' = "loop"
    /\ UNCHANGED <<PendingEvents, WakeSem, StoppedSem, StopRequested, ThreadArmed, ThreadLive,
                   Initialized, events, stop>>

Loop == GoTo("loop", IF StopRequested THEN "leave" ELSE "wait")

(* TaktOSSemTake(&WakeSem). *)
SemTake(here) ==
    /\ At(here)
    /\ WakeSem = 1
    /\ WakeSem' = 0
    /\ pc' = "take"
    /\ UNCHANGED <<PendingEvents, StoppedSem, StopRequested, HostStarted, ThreadArmed, ThreadLive,
                   Initialized, events, waking, stop, work>>

WaitTakes == SemTake("wait")

(* The poll interval ends without a wake. *)
WaitTimesOut == Polls /\ WakeSem = 0 /\ GoTo("wait", "poll")

(* Faulty variant: without the critical section, what is set between the   *)
(* read and the clear is lost.                                             *)
TakeUnmasked ==
    /\ At("take")
    /\ events' \in SUBSET PendingEvents
    /\ PendingEvents' = {}
    /\ pc' = "mpsl"
    /\ UNCHANGED <<WakeSem, StoppedSem, StopRequested, HostStarted, ThreadArmed, ThreadLive,
                   Initialized, waking, stop, work>>

HciTaktOsTakeEvents ==
    /\ At("take")
    /\ events' = PendingEvents
    /\ PendingEvents' = {}
    /\ pc' = "mpsl"
    /\ UNCHANGED <<WakeSem, StoppedSem, StopRequested, HostStarted, ThreadArmed, ThreadLive,
                   Initialized, waking, stop, work>>

(* Faulty variant: MPSL is left alone while the host is down. *)
ProcessMpslHostUp ==
    /\ At("mpsl")
    /\ work' = IF HostStarted THEN work \ (events \intersect {"MPSL"}) ELSE work
    /\ pc' = "service"
    /\ UNCHANGED <<runtimeVars, Initialized, events, waking, stop>>

(* MPSL is serviced only when its event was taken. *)
ProcessMpsl ==
    /\ At("mpsl")
    /\ work' = IF "MPSL" \in events THEN work \ {"MPSL"} ELSE work
    /\ pc' = "service"
    /\ UNCHANGED <<runtimeVars, Initialized, events, waking, stop>>

(* HciTaktOsServiceHost.  A host that is down is started first; the bridge *)
(* finishes its work, or reaches its burst limit and asks for another      *)
(* pass, or the transport fails and calls HciTaktOsHostDown.               *)
HciTaktOsServiceHost(here, there) ==
    /\ At(here)
    /\ pc' = there
    /\ \/ ~HostStarted /\ UNCHANGED <<HostStarted, waking, work>>
       \/ HostStarted' = TRUE  /\ work' = work \ {"HOST", "SDC"} /\ UNCHANGED waking
       \/ /\ HostStarted' = TRUE
          /\ work' = work \union {"HOST"}
          /\ waking' = [waking EXCEPT !["worker"] = "raised"]
       \/ HostStarted' = FALSE /\ UNCHANGED <<waking, work>>
    /\ UNCHANGED <<PendingEvents, WakeSem, StoppedSem, StopRequested, ThreadArmed, ThreadLive,
                   Initialized, events, stop>>

Service == HciTaktOsServiceHost("service", "check")

PollService == HciTaktOsServiceHost("poll", "loop")

Stopping == "STOP" \in events \/ StopRequested

(* More passes while a wake arrived meanwhile, unless a stop did. *)
CheckAgain == ~Stopping /\ SemTake("check")

CheckDone ==
    /\ Stopping \/ WakeSem = 0
    /\ GoTo("check", "loop")

HciTaktOsThreadLeave ==
    /\ At("leave")
    /\ ThreadLive' = FALSE
    /\ ThreadArmed' = FALSE
    /\ pc' = "left"
    /\ UNCHANGED <<PendingEvents, WakeSem, StoppedSem, StopRequested, HostStarted,
                   Initialized, events, waking, stop, work>>

GiveStopped ==
    /\ At("left")
    /\ StoppedSem' = 1
    /\ pc' = "done"
    /\ UNCHANGED <<PendingEvents, WakeSem, StopRequested, HostStarted, ThreadArmed, ThreadLive,
                   Initialized, events, waking, stop, work>>

---------------------------------------------------------------------------
(* HciAppStop, on the status thread, which exists once the worker does. *)

(* Faulty variant: the flag is set and the thread left asleep. *)
StopWithoutWake ==
    /\ stop \in {"never", "timeout"}
    /\ pc \notin {"none", "armed", "fatal"}
    /\ Initialized
    /\ StopRequested' = TRUE
    /\ stop' = "asked"
    /\ UNCHANGED <<PendingEvents, WakeSem, StoppedSem, HostStarted, ThreadArmed, ThreadLive,
                   Initialized, pc, events, waking, work>>

HciTaktOsStop ==
    /\ stop \in {"never", "timeout"}
    /\ pc \notin {"none", "armed", "fatal"}
    /\ Initialized
    /\ StopRequested' = TRUE
    /\ waking' = [waking EXCEPT !["stopper"] = "raised"]
    /\ stop' = "asked"
    /\ UNCHANGED <<PendingEvents, WakeSem, StoppedSem, HostStarted, ThreadArmed, ThreadLive,
                   Initialized, pc, events, work>>

(* Faulty variant: only a thread that has entered is waited for. *)
ThreadEntered == ThreadLive

ThreadExists == ThreadArmed \/ ThreadLive

(* HciTaktOsWaitStopped, once the wake of the stop has returned. *)
CheckThread ==
    /\ stop = "asked"
    /\ waking["stopper"] = "idle"
    /\ stop' = IF ThreadExists THEN "waits" ELSE "teardown"
    /\ UNCHANGED <<runtimeVars, Initialized, pc, events, waking, work>>

WaitStopped ==
    /\ stop = "waits"
    /\ StoppedSem = 1
    /\ StoppedSem' = 0
    /\ stop' = "teardown"
    /\ UNCHANGED <<PendingEvents, WakeSem, StopRequested, HostStarted, ThreadArmed, ThreadLive,
                   Initialized, pc, events, waking, work>>

(* LastError -6: target and application stay owned, and may be stopped     *)
(* again.                                                                  *)
WaitTimeout ==
    /\ stop = "waits"
    /\ stop' = "timeout"
    /\ UNCHANGED <<runtimeVars, Initialized, pc, events, waking, work>>

(* The host is closed and released, the target stopped. *)
TearDown ==
    /\ stop = "teardown"
    /\ stop' = "down"
    /\ Initialized' = FALSE
    /\ UNCHANGED <<runtimeVars, pc, events, waking, work>>

---------------------------------------------------------------------------

(* After HciAppInitMode: HciTaktOsInit has cleared the runtime. *)
Init ==
    /\ PendingEvents = {} /\ WakeSem = 0 /\ StoppedSem = 0
    /\ StopRequested = FALSE /\ HostStarted = FALSE
    /\ ThreadArmed = FALSE /\ ThreadLive = FALSE
    /\ Initialized = TRUE
    /\ pc = "none" /\ events = {}
    /\ waking = [w \in Waker |-> "idle"]
    /\ stop = "never"
    /\ work = {}

Wake == \E w \in Waker : Raise(w) \/ SetEvent(w) \/ SemGive(w)

Start == HciTaktOsThreadArm \/ ThreadCreated \/ CreateFails

(* The worker's steps, without the wakes it makes and the poll. *)
Thread ==
    \/ Enter \/ CheckEarlyStop \/ TargetStart \/ TargetStartFails \/ HostStart
    \/ Loop \/ WaitTakes \/ HciTaktOsTakeEvents \/ ProcessMpsl
    \/ Service \/ PollService \/ CheckAgain \/ CheckDone
    \/ HciTaktOsThreadLeave \/ GiveStopped

Stop == HciTaktOsStop \/ CheckThread \/ WaitStopped \/ WaitTimeout \/ TearDown

Next == Wake \/ Start \/ Thread \/ WaitTimesOut \/ Stop

Spec == Init /\ [][Next]_vars

---------------------------------------------------------------------------
(* Properties. *)

Armed == {"armed", "created"}
Live  == {"entered", "target", "host", "loop", "wait", "poll", "take", "mpsl", "service",
          "check", "leave"}

TypeOK ==
    /\ PendingEvents \subseteq Event
    /\ WakeSem \in {0, 1} /\ StoppedSem \in {0, 1}
    /\ StopRequested \in BOOLEAN /\ HostStarted \in BOOLEAN
    /\ ThreadArmed \in BOOLEAN /\ ThreadLive \in BOOLEAN /\ Initialized \in BOOLEAN
    /\ pc \in Armed \union Live \union {"none", "fatal", "left", "done"}
    /\ events \subseteq Event
    /\ waking \in [Waker -> {"idle", "raised", "give"}]
    /\ stop \in {"never", "asked", "waits", "timeout", "teardown", "down"}
    /\ work \subseteq Source

Quiet == \A w \in Waker : waking[w] = "idle"

(* When the worker sleeps, no token is left and no wake is under way, it   *)
(* was told nothing it has not acted on: no event is pending, no MPSL work *)
(* is left, no host work unless the host is down, and no stop was asked    *)
(* for.  The fold of HciTaktOsWake never costs a wake.                     *)
SleepsOnlyWhenIdle ==
    pc = "wait" /\ WakeSem = 0 /\ Quiet =>
        /\ PendingEvents = {}
        /\ "MPSL" \notin work
        /\ HostStarted => work = {}
        /\ ~StopRequested

(* The thread may be inside MPSL, the SoftDevice Controller or the host. *)
UsesTarget == {"target", "host", "loop", "wait", "poll", "take", "mpsl", "service", "check"}

(* HciAppStop never tears the target down below the thread, nor below a    *)
(* thread that exists and has not entered yet, however the wait ended.     *)
TornDownAlone ==
    stop \in {"teardown", "down"} => pc \notin UsesTarget \union Armed \union {"entered"}

(* The kernel runs every thread that is ready, and interrupts return.      *)
(* Nothing is assumed of the poll, of a stop or of a host that starts: a   *)
(* build without a poll is one in which no wait times out.                 *)
Fairness ==
    /\ WF_vars(Thread)
    /\ WF_vars(ThreadCreated \/ CreateFails)
    /\ \A w \in Waker : WF_vars(SetEvent(w) \/ SemGive(w))

FairSpec == Spec /\ Fairness

(* MPSL work that was announced is done without a poll, unless a stop      *)
(* comes first or the target never started.                                *)
MpslServed ==
    pc \in UsesTarget /\ "MPSL" \in work ~> "MPSL" \notin work \/ StopRequested \/ pc = "done"

(* A stop reaches the thread wherever it is: it leaves. *)
StopLeaves == StopRequested ~> pc = "done"
=============================================================================
