------------------------------ MODULE CamSched ------------------------------
(***************************************************************************)
(* Who may talk to the camera nodes: the shutter, a bench command,         *)
(* maintenance mode, or a background probe.  The policy is cam_sched.c;    *)
(* capture.c binds it to the binary semaphore s_lock and to the semaphore  *)
(* s_probe_clear, and maint.c keeps s_lock for as long as maintenance is   *)
(* on.  Every step below is one critical section or one semaphore call, so *)
(* tasks interleave exactly where the code lets them.                      *)
(*                                                                         *)
(* Tasks: "capture" (capture_task), "kdp" (kdp_server's server_task), "ui" *)
(* and "soak" (soak_task, which inherits s_lock from kdp).  Probers: the   *)
(* "sweep" (cam_probe_task) and "watch" (watch_node, on the kdp task).     *)
(* The statistics counters of cam_sched_t are left out.                    *)
(***************************************************************************)
EXTENDS Naturals, FiniteSets

CONSTANT Cams            \* the camera channels, CAM_SCHED_CAMS of them

ASSUME CamsAssumption == IsFiniteSet(Cams) /\ Cams # {}

VARIABLES
  sLock,       \* s_lock: TRUE while the binary semaphore is taken
  sched,       \* s_sched: capture_active, capture_pending, probe_active[]
  probeClear,  \* s_probe_clear: TRUE while a give waits to be taken
  pc,          \* where each task stands
  prober,      \* the probe transaction each prober has in hand
  held,        \* channels whose node holds a frame in mid-transfer
  overrun,     \* the owning capture stopped waiting for the probe boundary
  queued,      \* s_requests, a queue of one
  maint        \* maint.c: s_active, and whether its deadline has passed

vars == <<sLock, sched, probeClear, pc, prober, held, overrun, queued, maint>>

Tasks == {"capture", "kdp", "ui", "soak"}
Probers == {"sweep", "watch"}
Idle == [at |-> "idle", cam |-> CHOOSE c \in Cams : TRUE]
ProbeStages == {"idle", "begun", "wire", "waking", "ungated", "bare"}

Firing == {"admit", "wait", "blocked", "late", "overdue", "own"}
Owning == Firing \cup {"benchAdmit", "bench", "maintAdmit", "maintSet", "release", "give"}
Labels == Owning \cup {"idle", "asked", "sampling", "sending", "maintLock", "touch", "exit", "probing"}

Init ==
  /\ sLock = FALSE
  /\ sched = [active |-> FALSE, pending |-> FALSE, probe |-> [c \in Cams |-> FALSE]]
  /\ probeClear = FALSE
  /\ pc = [t \in Tasks |-> "idle"]
  /\ prober = [p \in Probers |-> Idle]
  /\ held = {}
  /\ overrun = FALSE
  /\ queued = 0
  /\ maint = [active |-> FALSE, expired |-> FALSE]

Goto(t, l) == pc' = [pc EXCEPT ![t] = l]

(***************************************************************************)
(* cam_sched.c, each function run under s_sched_lock.                      *)
(***************************************************************************)
ProbesActive(s) == \E c \in Cams : s.probe[c]

CaptureAdmit(s) ==
  IF s.active THEN s
  ELSE [s EXCEPT !.active = TRUE, !.pending = ProbesActive(s)]

CaptureReady(s) == ~ProbesActive(s)

CaptureStarted(s) == [s EXCEPT !.pending = FALSE]

CaptureDone(s) == [s EXCEPT !.active = FALSE, !.pending = FALSE]

ProbeAllowedIgnoringCapture(s, c) == ~s.probe[c]
ProbeAllowed(s, c) == ~s.active /\ ~s.pending /\ ~s.probe[c]

ProbeEndedSilently(s, c) == FALSE
ProbeEndWakes(s, c) ==
  LET after == [s EXCEPT !.probe[c] = FALSE] IN s.pending /\ ~ProbesActive(after)

(***************************************************************************)
(* The shutter.  capture_request samples capture_busy on the UI task and   *)
(* then queues the press; capture_task takes it.                           *)
(***************************************************************************)
UiPress ==                       \* capture_busy: take s_lock with no wait
  /\ pc["ui"] = "idle" /\ ~sLock
  /\ sLock' = TRUE
  /\ Goto("ui", "sampling")
  /\ UNCHANGED <<sched, probeClear, prober, held, overrun, queued, maint>>

SendPressWhenFull(q) == q + 1
SendPress(q) == IF q = 0 THEN 1 ELSE q

UiSampled ==                     \* give it back
  /\ pc["ui"] = "sampling"
  /\ sLock' = FALSE
  /\ Goto("ui", "sending")
  /\ UNCHANGED <<sched, probeClear, prober, held, overrun, queued, maint>>

UiSend ==                        \* then xQueueSend, whoever has s_lock by now
  /\ pc["ui"] = "sending"
  /\ queued' = SendPress(queued)
  /\ Goto("ui", "idle")
  /\ UNCHANGED <<sLock, sched, probeClear, prober, held, overrun, maint>>

KdpSample ==                     \* GET_RUNTIME_STATS, FW_BEGIN, SYNC_BENCH
  /\ pc["kdp"] = "idle" /\ ~sLock
  /\ sLock' = TRUE
  /\ Goto("kdp", "sampling")
  /\ UNCHANGED <<sched, probeClear, prober, held, overrun, queued, maint>>

KdpSampled ==
  /\ pc["kdp"] = "sampling"
  /\ sLock' = FALSE
  /\ Goto("kdp", "idle")
  /\ UNCHANGED <<sched, probeClear, prober, held, overrun, queued, maint>>

TakePress ==                     \* capture_task: xQueueReceive
  /\ pc["capture"] = "idle" /\ queued = 1
  /\ queued' = 0
  /\ Goto("capture", "asked")
  /\ UNCHANGED <<sLock, sched, probeClear, prober, held, overrun, maint>>

HostCapture ==                   \* CAMERA_CAPTURE calls capture_fire directly
  /\ pc["kdp"] = "idle"
  /\ Goto("kdp", "asked")
  /\ UNCHANGED <<sLock, sched, probeClear, prober, held, overrun, queued, maint>>

FireRefused(t) ==                \* capture_lock(0) failed: BUSY
  /\ pc[t] = "asked" /\ sLock
  /\ Goto(t, "idle")
  /\ UNCHANGED <<sLock, sched, probeClear, prober, held, overrun, queued, maint>>

FireLocked(t) ==
  /\ pc[t] = "asked" /\ ~sLock
  /\ sLock' = TRUE
  /\ Goto(t, "admit")
  /\ UNCHANGED <<sched, probeClear, prober, held, overrun, queued, maint>>

FireAdmit(t) ==
  /\ pc[t] = "admit"
  /\ sched' = CaptureAdmit(sched)
  /\ Goto(t, "wait")
  /\ UNCHANGED <<sLock, probeClear, prober, held, overrun, queued, maint>>

WaitCheck(t) ==                  \* the top of wait_for_probe_boundary's loop
  /\ pc[t] = "wait"
  /\ IF CaptureReady(sched)
       THEN sched' = CaptureStarted(sched) /\ Goto(t, "own")
       ELSE UNCHANGED sched /\ Goto(t, "blocked")
  /\ UNCHANGED <<sLock, probeClear, prober, held, overrun, queued, maint>>

WaitWoken(t) ==
  /\ pc[t] = "blocked" /\ probeClear
  /\ probeClear' = FALSE
  /\ Goto(t, "wait")
  /\ UNCHANGED <<sLock, sched, prober, held, overrun, queued, maint>>

WaitTimeout(t) ==                \* PROBE_BOUNDARY_MS went by
  /\ pc[t] = "blocked"
  /\ Goto(t, "late")
  /\ UNCHANGED <<sLock, sched, probeClear, prober, held, overrun, queued, maint>>

WaitLate(t) ==                   \* one last look
  /\ pc[t] = "late"
  /\ IF CaptureReady(sched)
       THEN sched' = CaptureStarted(sched) /\ Goto(t, "own")
       ELSE UNCHANGED sched /\ Goto(t, "overdue")
  /\ UNCHANGED <<sLock, probeClear, prober, held, overrun, queued, maint>>

WaitOverrun(t) ==                \* then capture anyway
  /\ pc[t] = "overdue"
  /\ overrun' = TRUE
  /\ sched' = CaptureStarted(sched)
  /\ Goto(t, "own")
  /\ UNCHANGED <<sLock, probeClear, prober, held, queued, maint>>

(***************************************************************************)
(* An owner's transfer.  Node transactions are serial on a channel; a      *)
(* frame is held by the node from CAPTURE to the last chunk.               *)
(***************************************************************************)
OnWire(c) == \E p \in Probers : prober[p].at \in {"wire", "bare"} /\ prober[p].cam = c

XferBegin(t, c) ==
  /\ pc[t] \in {"own", "bench"} /\ c \notin held /\ ~OnWire(c)
  /\ held' = held \cup {c}
  /\ UNCHANGED <<sLock, sched, probeClear, pc, prober, overrun, queued, maint>>

XferEnd(t) ==
  /\ pc[t] \in {"own", "bench"}
  /\ held' = {}
  /\ Goto(t, "release")
  /\ UNCHANGED <<sLock, sched, probeClear, prober, overrun, queued, maint>>

Release(t) ==                    \* capture_unlock: the scheduler first
  /\ pc[t] = "release"
  /\ sched' = CaptureDone(sched)
  /\ overrun' = FALSE
  /\ Goto(t, "give")
  /\ UNCHANGED <<sLock, probeClear, prober, held, queued, maint>>

Give(t) ==                       \* then the semaphore
  /\ pc[t] = "give"
  /\ sLock' = FALSE
  /\ Goto(t, "idle")
  /\ UNCHANGED <<sched, probeClear, prober, held, overrun, queued, maint>>

(***************************************************************************)
(* Bench commands (CAMERA_TEST, SET_LINK_BAUD, the soak run): capture_lock *)
(* and no wait for the probe boundary.                                     *)
(***************************************************************************)
BenchLock ==
  /\ pc["kdp"] = "idle" /\ ~sLock
  /\ sLock' = TRUE
  /\ Goto("kdp", "benchAdmit")
  /\ UNCHANGED <<sched, probeClear, prober, held, overrun, queued, maint>>

BenchAdmit ==
  /\ pc["kdp"] = "benchAdmit"
  /\ sched' = CaptureAdmit(sched)
  /\ Goto("kdp", "bench")
  /\ UNCHANGED <<sLock, probeClear, prober, held, overrun, queued, maint>>

SoakStart ==                     \* soak_task now owns the lock kdp took
  /\ pc["kdp"] = "bench" /\ held = {}
  /\ pc' = [pc EXCEPT !["kdp"] = "idle", !["soak"] = "bench"]
  /\ UNCHANGED <<sLock, sched, probeClear, prober, held, overrun, queued, maint>>

(***************************************************************************)
(* Background probes.                                                      *)
(***************************************************************************)
BeginProbe(p, c) ==
  /\ sched' = [sched EXCEPT !.probe[c] = TRUE]
  /\ prober' = [prober EXCEPT ![p] = [at |-> "begun", cam |-> c]]

SweepBegin(c) ==
  /\ prober["sweep"] = Idle /\ ProbeAllowed(sched, c)
  /\ BeginProbe("sweep", c)
  /\ UNCHANGED <<sLock, probeClear, pc, held, overrun, queued, maint>>

WatchBegin(c) ==                 \* watch_node, gated outside maintenance
  /\ pc["kdp"] = "idle" /\ ~maint.active /\ ProbeAllowed(sched, c)
  /\ BeginProbe("watch", c)
  /\ Goto("kdp", "probing")
  /\ UNCHANGED <<sLock, probeClear, held, overrun, queued, maint>>

WatchUngated(c) ==               \* in maintenance the HELLO goes straight out
  /\ pc["kdp"] = "idle" /\ maint.active
  /\ prober' = [prober EXCEPT !["watch"] = [at |-> "ungated", cam |-> c]]
  /\ Goto("kdp", "probing")
  /\ UNCHANGED <<sLock, sched, probeClear, held, overrun, queued, maint>>

Hello(p) ==                      \* the channel mutex is free: the HELLO goes out
  /\ prober[p].at \in {"begun", "ungated"} /\ ~OnWire(prober[p].cam)
  /\ prober' = [prober EXCEPT ![p].at = IF @ = "begun" THEN "wire" ELSE "bare"]
  /\ UNCHANGED <<sLock, sched, probeClear, pc, held, overrun, queued, maint>>

ProbeLeaves(p) ==                \* capture_probe_end returns
  /\ prober' = [prober EXCEPT ![p] = Idle]
  /\ IF p = "watch" THEN Goto("kdp", "idle") ELSE UNCHANGED pc

ProbeEnd(p) ==                   \* answered or timed out: the flag, then ...
  LET c == prober[p].cam IN
  /\ prober[p].at = "wire"
  /\ sched' = [sched EXCEPT !.probe[c] = FALSE]
  /\ IF ProbeEndWakes(sched, c)
       THEN prober' = [prober EXCEPT ![p].at = "waking"] /\ UNCHANGED pc
       ELSE ProbeLeaves(p)
  /\ UNCHANGED <<sLock, probeClear, held, overrun, queued, maint>>

ProbeWake(p) ==                  \* ... outside the section, the give
  /\ prober[p].at = "waking"
  /\ probeClear' = TRUE
  /\ ProbeLeaves(p)
  /\ UNCHANGED <<sLock, sched, held, overrun, queued, maint>>

UngatedDone ==
  /\ prober["watch"].at = "bare"
  /\ prober' = [prober EXCEPT !["watch"] = Idle]
  /\ Goto("kdp", "idle")
  /\ UNCHANGED <<sLock, sched, probeClear, held, overrun, queued, maint>>

(***************************************************************************)
(* Maintenance (maint.c).  The deadline is abstracted to "it has passed".  *)
(***************************************************************************)
DeadlinePasses ==
  /\ maint.active /\ ~maint.expired
  /\ maint' = [maint EXCEPT !.expired = TRUE]
  /\ UNCHANGED <<sLock, sched, probeClear, pc, prober, held, overrun, queued>>

MaintEnter ==                    \* the unlocked test of s_active
  /\ pc["kdp"] = "idle"
  /\ Goto("kdp", IF maint.active THEN "touch" ELSE "maintLock")
  /\ UNCHANGED <<sLock, sched, probeClear, prober, held, overrun, queued, maint>>

MaintTouch ==                    \* also every FW_* command
  /\ pc["kdp"] \in {"idle", "touch"}
  /\ maint' = [maint EXCEPT !.expired = @ /\ ~maint.active]
  /\ Goto("kdp", "idle")
  /\ UNCHANGED <<sLock, sched, probeClear, prober, held, overrun, queued>>

MaintLock ==
  /\ pc["kdp"] = "maintLock"
  /\ \/ ~sLock /\ sLock' = TRUE /\ Goto("kdp", "maintAdmit")
     \/ UNCHANGED sLock /\ Goto("kdp", "idle")   \* 2 s went by: INVALID_STATE
  /\ UNCHANGED <<sched, probeClear, prober, held, overrun, queued, maint>>

MaintAdmit ==
  /\ pc["kdp"] = "maintAdmit"
  /\ sched' = CaptureAdmit(sched)
  /\ Goto("kdp", "maintSet")
  /\ UNCHANGED <<sLock, probeClear, prober, held, overrun, queued, maint>>

MaintSet ==
  /\ pc["kdp"] = "maintSet"
  /\ maint' = [active |-> TRUE, expired |-> FALSE]
  /\ Goto("kdp", "idle")
  /\ UNCHANGED <<sLock, sched, probeClear, prober, held, overrun, queued>>

MaintPoll(t) ==                  \* the critical section that finds it expired
  /\ t \in {"ui", "kdp"} /\ pc[t] = "idle" /\ maint.active /\ maint.expired
  /\ Goto(t, "exit")
  /\ UNCHANGED <<sLock, sched, probeClear, prober, held, overrun, queued, maint>>

HostExit ==                      \* EXIT_MAINTENANCE
  /\ pc["kdp"] = "idle"
  /\ Goto("kdp", "exit")
  /\ UNCHANGED <<sLock, sched, probeClear, prober, held, overrun, queued, maint>>

AfterMaintExitUntested(active) == "release"
AfterMaintExit(active) == IF active THEN "release" ELSE "idle"

MaintExit(t) ==                  \* maint_exit's test-and-clear
  /\ pc[t] = "exit"
  /\ maint' = [maint EXCEPT !.active = FALSE]
  /\ Goto(t, AfterMaintExit(maint.active))
  /\ UNCHANGED <<sLock, sched, probeClear, prober, held, overrun, queued>>

-----------------------------------------------------------------------------
Fire(t) ==
  \/ FireRefused(t) \/ FireLocked(t) \/ FireAdmit(t)
  \/ WaitCheck(t) \/ WaitWoken(t) \/ WaitLate(t) \/ WaitOverrun(t)
  \/ XferEnd(t) \/ Release(t) \/ Give(t)

Next ==
  \/ UiPress \/ UiSampled \/ UiSend \/ KdpSample \/ KdpSampled \/ TakePress \/ HostCapture
  \/ \E t \in Tasks : Fire(t) \/ WaitTimeout(t) \/ MaintPoll(t) \/ MaintExit(t)
  \/ \E t \in Tasks, c \in Cams : XferBegin(t, c)
  \/ BenchLock \/ BenchAdmit \/ SoakStart
  \/ \E c \in Cams : SweepBegin(c) \/ WatchBegin(c) \/ WatchUngated(c)
  \/ \E p \in Probers : Hello(p) \/ ProbeEnd(p) \/ ProbeWake(p)
  \/ UngatedDone
  \/ DeadlinePasses \/ MaintEnter \/ MaintTouch \/ MaintLock \/ MaintAdmit
  \/ MaintSet \/ HostExit

(* A runnable task runs, and a probe transaction is bounded by its own     *)
(* timeout.  No fairness on WaitTimeout: a capture must not need it.       *)
Fairness ==
  /\ \A t \in Tasks : WF_vars(Fire(t))
  /\ \A p \in Probers : WF_vars(Hello(p)) /\ WF_vars(ProbeEnd(p) \/ ProbeWake(p))
  /\ WF_vars(UngatedDone)

Spec == Init /\ [][Next]_vars
FairSpec == Spec /\ Fairness

-----------------------------------------------------------------------------
(* Every variable has its type, and s_requests never holds two presses.    *)
TypeOK ==
  /\ sLock \in BOOLEAN
  /\ sched \in [active : BOOLEAN, pending : BOOLEAN, probe : [Cams -> BOOLEAN]]
  /\ probeClear \in BOOLEAN
  /\ pc \in [Tasks -> Labels]
  /\ prober \in [Probers -> [at : ProbeStages, cam : Cams]]
  /\ held \in SUBSET Cams
  /\ overrun \in BOOLEAN
  /\ queued \in {0, 1}
  /\ maint \in [active : BOOLEAN, expired : BOOLEAN]

(* Holding s_lock: a task inside capture_lock ... capture_unlock, a task   *)
(* sampling capture_busy, or maintenance mode itself.                      *)
Holds(t) == pc[t] \in Owning \cup {"sampling"}

(* One holder of s_lock at a time, maintenance included: no path gives the *)
(* binary semaphore back twice, so no two of {shutter, bench, maintenance} *)
(* ever have the cameras together (maint.c:18-24).                         *)
OneOwner ==
  /\ \A t, u \in Tasks : Holds(t) /\ Holds(u) => t = u
  /\ maint.active => \A t \in Tasks : ~Holds(t)
  /\ sLock <=> (maint.active \/ \E t \in Tasks : Holds(t))

(* A capture that waited for its probe boundary has the channels to        *)
(* itself: no gated probe, its HELLO sent or still to be sent, is in hand  *)
(* on any channel (main.c:205-209).  Captures that gave up waiting are     *)
(* excepted.                                                               *)
Gated(p) == prober[p].at \in {"begun", "wire"}
PunctualCaptureAlone ==
  \A t \in Tasks : pc[t] = "own" /\ ~overrun => \A p \in Probers : ~Gated(p)

(* An admitted capture starts without help from its timeout: the probe     *)
(* that was on the wire wakes it (cam_sched.h:25-29; capture_probe_end).   *)
AdmittedCaptureStarts ==
  \A t \in Tasks : pc[t] \in {"wait", "blocked"} ~> pc[t] = "own"

(* Maintenance ends by itself only when its deadline has passed since the  *)
(* last ENTER_MAINTENANCE or FW_* command (maint.h:7-9; maint_poll).       *)
MaintEndsOnlyWhenQuiet ==
  [][MaintExit("ui") /\ maint.active => maint.expired]_vars

(* Nothing lands inside a transfer: no HELLO goes out on a channel whose   *)
(* node holds the frame an owner is reading (main.c:205-207; run_capture). *)
NothingInsideATransfer ==
  \A c \in held : ~OnWire(c)
=============================================================================
