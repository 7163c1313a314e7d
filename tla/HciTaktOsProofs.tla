-------------------------- MODULE HciTaktOsProofs ---------------------------
(***************************************************************************)
(* The wake and the stop of the HCI thread, for any set of interrupts and  *)
(* with or without a poll.                                                 *)
(***************************************************************************)
EXTENDS HciTaktOs, TLAPS

(* What the thread flags say of the thread. *)
FlagsTell ==
    /\ ThreadArmed <=> pc \in Armed \union Live
    /\ ThreadLive <=> pc \in Live

(* The stop handshake: a token means the thread is gone, and a stop is not *)
(* asked for again while its wake is under way.                            *)
StopTells ==
    /\ stop # "asked" => waking["stopper"] = "idle"
    /\ StoppedSem = 1 => pc = "done"
    /\ stop # "never" => pc \notin {"none", "armed", "fatal"}
    /\ stop \in {"teardown", "down"} => pc \in {"left", "done"}

(* A pending event has a token, or one that is about to be given, or a     *)
(* thread about to take it.                                                *)
EventTold ==
    PendingEvents # {} => \/ WakeSem = 1
                          \/ pc = "take"
                          \/ \E w \in Waker : waking[w] = "give"

(* MPSL work has its own event pending, taken, or about to be set. *)
MpslTold ==
    "MPSL" \in work => \/ "MPSL" \in PendingEvents
                       \/ pc = "mpsl" /\ "MPSL" \in events
                       \/ \E w \in Waker : waking[w] = "raised" /\ Events(w) = "MPSL"

(* The work of a host that is up has a pass coming. *)
HostTold ==
    HostStarted /\ work \intersect {"HOST", "SDC"} # {} =>
        \/ PendingEvents # {}
        \/ pc \in {"mpsl", "service"}
        \/ \E w \in Waker : waking[w] = "raised"

(* A thread that went to sleep before the stop has it coming. *)
StopTold ==
    pc = "wait" /\ StopRequested => \/ "STOP" \in PendingEvents
                                    \/ waking["stopper"] = "raised"

Inv == TypeOK /\ FlagsTell /\ StopTells /\ EventTold /\ MpslTold /\ HostTold /\ StopTold

---------------------------------------------------------------------------
(* Every waker has an event. *)
LEMMA WakerEvents ==
    /\ {"worker", "stopper"} \subseteq Waker
    /\ \A w \in Waker : Events(w) \in Event
    /\ Events("worker") = "HOST" /\ Events("stopper") = "STOP"
    /\ \A w \in Interrupt : w \in Waker /\ Events(w) = EventOf[w] /\ EventOf[w] \in Source
BY RuntimeAssumption DEF RuntimeAssumption, Waker, Events, Event, Source

(* The two updates of a wake. *)
LEMMA WakeKeepsInv ==
    ASSUME Inv, NEW w \in Waker, Raise(w) \/ SetEvent(w) \/ SemGive(w)
    PROVE  Inv'
<1> USE WakerEvents DEF Inv, runtimeVars
<1>1. CASE Raise(w)
  <2>1. TypeOK'
    BY <1>1 DEF Raise, TypeOK
  <2>2. FlagsTell' /\ StopTells'
    BY <1>1, RuntimeAssumption DEF Raise, FlagsTell, StopTells, TypeOK, RuntimeAssumption
  <2>3. EventTold' /\ MpslTold'
    BY <1>1 DEF Raise, EventTold, MpslTold, TypeOK
  <2>4. HostTold' /\ StopTold'
    BY <1>1 DEF Raise, HostTold, StopTold, TypeOK
  <2>5. QED
    BY <2>1, <2>2, <2>3, <2>4
<1>2. CASE SetEvent(w)
  <2>1. TypeOK'
    BY <1>2 DEF SetEvent, TypeOK
  <2>2. FlagsTell' /\ StopTells'
    BY <1>2 DEF SetEvent, FlagsTell, StopTells, TypeOK
  <2>3. EventTold'
    BY <1>2 DEF SetEvent, EventTold, TypeOK
  <2>4. MpslTold'
    BY <1>2 DEF SetEvent, MpslTold, TypeOK
  <2>5. HostTold'
    BY <1>2 DEF SetEvent, HostTold, TypeOK
  <2>6. StopTold'
    BY <1>2 DEF SetEvent, StopTold, TypeOK
  <2>7. QED
    BY <2>1, <2>2, <2>3, <2>4, <2>5, <2>6
<1>3. CASE SemGive(w)
  <2>1. TypeOK'
    BY <1>3 DEF SemGive, TypeOK
  <2>2. FlagsTell' /\ StopTells'
    BY <1>3 DEF SemGive, FlagsTell, StopTells, TypeOK
  <2>3. EventTold' /\ MpslTold'
    BY <1>3 DEF SemGive, EventTold, MpslTold, TypeOK
  <2>4. HostTold' /\ StopTold'
    BY <1>3 DEF SemGive, HostTold, StopTold, TypeOK
  <2>5. QED
    BY <2>1, <2>2, <2>3, <2>4
<1>4. QED
  BY <1>1, <1>2, <1>3

(* Creating the thread. *)
LEMMA StartKeepsInv ==
    ASSUME Inv, Start
    PROVE  Inv'
<1> USE DEF Inv, runtimeVars
<1>1. CASE ThreadCreated
  BY <1>1 DEF ThreadCreated, TypeOK, FlagsTell, StopTells, EventTold, MpslTold, HostTold,
              StopTold, Armed, Live
<1>2. ASSUME HciTaktOsThreadArm \/ CreateFails
      PROVE  Inv'
  <2>1. TypeOK'
    BY <1>2 DEF HciTaktOsThreadArm, CreateFails, TypeOK, Armed, Live
  <2>2. FlagsTell'
    <3>1. CASE HciTaktOsThreadArm
      BY <3>1 DEF HciTaktOsThreadArm, FlagsTell, Armed, Live
    <3>2. CASE CreateFails
      BY <3>2 DEF CreateFails, FlagsTell, Armed, Live
    <3>3. QED
      BY <1>2, <3>1, <3>2
  <2>3. StopTells' /\ EventTold' /\ MpslTold' /\ HostTold' /\ StopTold'
    BY <1>2 DEF HciTaktOsThreadArm, CreateFails, StopTells, EventTold, MpslTold, HostTold,
                StopTold
  <2>4. QED
    BY <2>1, <2>2, <2>3
<1>3. QED
  BY <1>1, <1>2 DEF Start

(* A step of the thread that only moves it, inside the live part. *)
LEMMA GoToKeepsInv ==
    ASSUME Inv, NEW here \in Live \ {"take", "mpsl", "service"}, NEW there \in Live,
           GoTo(here, there),
           there = "wait" => ~StopRequested
    PROVE  Inv'
<1> USE DEF Inv, runtimeVars, GoTo, At
<1>1. TypeOK' /\ FlagsTell'
  BY DEF TypeOK, FlagsTell
<1>2. StopTells' /\ EventTold' /\ MpslTold' /\ HostTold' /\ StopTold'
  BY DEF StopTells, EventTold, MpslTold, HostTold, StopTold, Live
<1>3. QED
  BY <1>1, <1>2

(* A pass over the host, from the loop or after a poll timed out. *)
LEMMA ServiceKeepsInv ==
    ASSUME Inv, NEW here \in {"service", "poll"}, NEW there \in {"check", "loop"},
           HciTaktOsServiceHost(here, there)
    PROVE  Inv'
<1> USE WakerEvents DEF Inv, HciTaktOsServiceHost, At
<1>1. TypeOK' /\ FlagsTell'
  BY DEF TypeOK, FlagsTell, Armed, Live, Source
<1>2. StopTells'
  BY DEF StopTells, TypeOK
<1>3. EventTold'
  BY DEF EventTold, TypeOK
<1>4. MpslTold'
  BY DEF MpslTold, TypeOK
<1>5. HostTold'
  BY DEF HostTold, TypeOK
<1>6. StopTold'
  BY DEF StopTold
<1>7. QED
  BY <1>1, <1>2, <1>3, <1>4, <1>5, <1>6

(* Taking the token takes the thread to the pending word. *)
LEMMA SemTakeKeepsInv ==
    ASSUME Inv, NEW here \in {"wait", "check"}, SemTake(here)
    PROVE  Inv'
<1> USE DEF Inv, SemTake, At
<1>1. TypeOK' /\ FlagsTell'
  BY DEF TypeOK, FlagsTell, Armed, Live
<1>2. StopTells' /\ EventTold' /\ MpslTold' /\ HostTold' /\ StopTold'
  BY DEF StopTells, EventTold, MpslTold, HostTold, StopTold
<1>3. QED
  BY <1>1, <1>2

(* The steps of the thread. *)
LEMMA ThreadKeepsInv ==
    ASSUME Inv, Thread \/ WaitTimesOut
    PROVE  Inv'
<1>1. CASE Enter
  <2> USE <1>1 DEF Inv, Enter
  <2>1. TypeOK'
    BY DEF TypeOK, Armed, Live
  <2>2. FlagsTell'
    BY DEF TypeOK, FlagsTell, Armed, Live
  <2>3. StopTells' /\ EventTold' /\ MpslTold' /\ HostTold' /\ StopTold'
    BY DEF StopTells, EventTold, MpslTold, HostTold, StopTold
  <2>4. QED
    BY <2>1, <2>2, <2>3
<1>2. CASE CheckEarlyStop
  BY <1>2, GoToKeepsInv DEF CheckEarlyStop, Live
<1>3. CASE TargetStart \/ TargetStartFails
  BY <1>3, GoToKeepsInv DEF TargetStart, TargetStartFails, Live
<1>4. CASE HostStart
  <2> USE <1>4, WakerEvents DEF Inv, HostStart, At
  <2>1. TypeOK'
    BY DEF TypeOK, Armed, Live, Source
  <2>2. FlagsTell' /\ StopTells'
    BY DEF FlagsTell, StopTells, Armed, Live, TypeOK
  <2>3. EventTold' /\ MpslTold'
    BY DEF EventTold, MpslTold, TypeOK
  <2>4. HostTold' /\ StopTold'
    BY DEF HostTold, StopTold, TypeOK
  <2>5. QED
    BY <2>1, <2>2, <2>3, <2>4
<1>5. CASE Loop
  <2>1. CASE StopRequested
    BY <1>5, <2>1, GoToKeepsInv DEF Loop, Live
  <2>2. CASE ~StopRequested
    BY <1>5, <2>2, GoToKeepsInv DEF Loop, Live
  <2>3. QED
    BY <2>1, <2>2
<1>6. CASE WaitTakes \/ CheckAgain
  BY <1>6, SemTakeKeepsInv DEF WaitTakes, CheckAgain
<1>7. CASE WaitTimesOut
  BY <1>7, GoToKeepsInv DEF WaitTimesOut, Live
<1>8. CASE HciTaktOsTakeEvents
  <2> USE <1>8 DEF Inv, HciTaktOsTakeEvents, At
  <2>1. TypeOK' /\ FlagsTell'
    BY DEF TypeOK, FlagsTell, Armed, Live
  <2>2. StopTells' /\ EventTold' /\ MpslTold' /\ HostTold' /\ StopTold'
    BY DEF StopTells, EventTold, MpslTold, HostTold, StopTold
  <2>3. QED
    BY <2>1, <2>2
<1>9. CASE ProcessMpsl
  <2> USE <1>9 DEF Inv, ProcessMpsl, At, runtimeVars
  <2>1. TypeOK' /\ FlagsTell'
    BY DEF TypeOK, FlagsTell, Armed, Live
  <2>2. StopTells' /\ EventTold' /\ StopTold'
    BY DEF StopTells, EventTold, StopTold
  <2>3. MpslTold' /\ HostTold'
    BY DEF MpslTold, HostTold
  <2>4. QED
    BY <2>1, <2>2, <2>3
<1>10. CASE Service \/ PollService
  BY <1>10, ServiceKeepsInv DEF Service, PollService
<1>11. CASE CheckDone
  BY <1>11, GoToKeepsInv DEF CheckDone, Live
<1>12. CASE HciTaktOsThreadLeave
  <2> USE <1>12 DEF Inv, HciTaktOsThreadLeave, At
  <2>1. TypeOK'
    BY DEF TypeOK, Armed, Live
  <2>2. FlagsTell'
    BY DEF FlagsTell, Armed, Live
  <2>3. StopTells' /\ EventTold' /\ MpslTold' /\ HostTold' /\ StopTold'
    BY DEF StopTells, EventTold, MpslTold, HostTold, StopTold
  <2>4. QED
    BY <2>1, <2>2, <2>3
<1>13. CASE GiveStopped
  <2> USE <1>13 DEF Inv, GiveStopped, At
  <2>1. TypeOK' /\ FlagsTell'
    BY DEF TypeOK, FlagsTell, Armed, Live
  <2>2. StopTells' /\ EventTold' /\ MpslTold' /\ HostTold' /\ StopTold'
    BY DEF StopTells, EventTold, MpslTold, HostTold, StopTold
  <2>3. QED
    BY <2>1, <2>2
<1>14. QED
  BY <1>1, <1>2, <1>3, <1>4, <1>5, <1>6, <1>7, <1>8, <1>9, <1>10, <1>11, <1>12, <1>13
     DEF Thread

(* The steps of the stop. *)
LEMMA StopKeepsInv ==
    ASSUME Inv, Stop
    PROVE  Inv'
<1> USE DEF Inv, runtimeVars
<1>1. CASE HciTaktOsStop
  <2> USE <1>1, WakerEvents DEF HciTaktOsStop
  <2>1. TypeOK'
    BY DEF TypeOK
  <2>2. FlagsTell' /\ StopTells'
    BY DEF FlagsTell, StopTells
  <2>3. EventTold'
    BY DEF EventTold, StopTells, TypeOK
  <2>4. MpslTold'
    BY DEF MpslTold, TypeOK
  <2>5. HostTold' /\ StopTold'
    BY DEF HostTold, StopTold, TypeOK
  <2>6. QED
    BY <2>1, <2>2, <2>3, <2>4, <2>5
<1>2. CASE CheckThread
  <2> USE <1>2 DEF CheckThread
  <2>1. TypeOK' /\ FlagsTell'
    BY DEF TypeOK, FlagsTell
  <2>2. ~ThreadExists => pc \in {"left", "done"}
    BY DEF ThreadExists, FlagsTell, StopTells, TypeOK, Armed, Live
  <2>3. StopTells'
    BY <2>2 DEF StopTells
  <2>4. EventTold' /\ MpslTold' /\ HostTold' /\ StopTold'
    BY DEF EventTold, MpslTold, HostTold, StopTold
  <2>5. QED
    BY <2>1, <2>3, <2>4
<1>3. CASE WaitStopped
  BY <1>3 DEF WaitStopped, TypeOK, FlagsTell, StopTells, EventTold, MpslTold, HostTold, StopTold
<1>4. CASE WaitTimeout
  BY <1>4 DEF WaitTimeout, TypeOK, FlagsTell, StopTells, EventTold, MpslTold, HostTold, StopTold
<1>5. CASE TearDown
  BY <1>5 DEF TearDown, TypeOK, FlagsTell, StopTells, EventTold, MpslTold, HostTold, StopTold
<1>6. QED
  BY <1>1, <1>2, <1>3, <1>4, <1>5 DEF Stop

(* The invariant holds throughout. *)
LEMMA InvHolds == Spec => []Inv
<1>1. Init => Inv
  <2> SUFFICES ASSUME Init PROVE Inv
    OBVIOUS
  <2>1. TypeOK
    BY DEF Init, TypeOK, Event, Source
  <2>2. FlagsTell /\ StopTells
    BY WakerEvents DEF Init, FlagsTell, StopTells, Armed, Live
  <2>3. EventTold /\ MpslTold /\ HostTold /\ StopTold
    BY DEF Init, EventTold, MpslTold, HostTold, StopTold
  <2>4. QED
    BY <2>1, <2>2, <2>3 DEF Inv
<1>2. Inv /\ [Next]_vars => Inv'
  <2> SUFFICES ASSUME Inv, [Next]_vars PROVE Inv'
    OBVIOUS
  <2>1. CASE UNCHANGED vars
    BY <2>1 DEF vars, runtimeVars, Inv, TypeOK, FlagsTell, StopTells, EventTold, MpslTold,
                HostTold, StopTold
  <2>2. QED
    BY <2>1, WakeKeepsInv, StartKeepsInv, ThreadKeepsInv, StopKeepsInv DEF Next, Wake
<1>3. QED
  BY <1>1, <1>2, PTL DEF Spec

(* HciTaktOsWake loses no wake: whatever the interrupts are and however    *)
(* they interleave with the pass of the thread, with no poll to rely on,   *)
(* the thread sleeps only when it has acted on all it was told.            *)
THEOREM NoLostWake == Spec => []SleepsOnlyWhenIdle
<1>1. Inv => SleepsOnlyWhenIdle
  <2> SUFFICES ASSUME Inv, pc = "wait", WakeSem = 0, Quiet
               PROVE  /\ PendingEvents = {} /\ "MPSL" \notin work
                      /\ HostStarted => work = {}
                      /\ ~StopRequested
    BY DEF SleepsOnlyWhenIdle
  <2>1. PendingEvents = {}
    BY DEF Inv, EventTold, Quiet
  <2>2. "MPSL" \notin work
    BY <2>1 DEF Inv, MpslTold, Quiet
  <2>3. HostStarted => work \intersect {"HOST", "SDC"} = {}
    BY <2>1 DEF Inv, HostTold, Quiet
  <2>4. ~StopRequested
    BY <2>1, WakerEvents DEF Inv, StopTold, Quiet
  <2>5. QED
    BY <2>1, <2>2, <2>3, <2>4 DEF Inv, TypeOK, Source
<1>2. QED
  BY <1>1, InvHolds, PTL

(* HciAppStop tears the target down only once the HCI thread is out of it  *)
(* for good, whether the wait found no thread, took the token or was       *)
(* repeated after a time-out.                                              *)
THEOREM TeardownSafe == Spec => []TornDownAlone
<1>1. Inv => TornDownAlone
  BY DEF Inv, StopTells, TornDownAlone, UsesTarget, Armed
<1>2. QED
  BY <1>1, InvHolds, PTL

(* Every variable of the runtime keeps its type. *)
THEOREM RuntimeTyped == Spec => []TypeOK
BY InvHolds, PTL DEF Inv
=============================================================================
