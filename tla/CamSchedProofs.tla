--------------------------- MODULE CamSchedProofs ---------------------------
(***************************************************************************)
(* For any set of camera channels: one owner of the cameras at a time, and *)
(* no background probe beside a capture that waited for its boundary.      *)
(*                                                                         *)
(* OneOwner is inductive given the types.  PunctualCaptureAlone is not: a  *)
(* probe in hand must have its channel flagged (GatedIsFlagged) and no     *)
(* flag may be up beside the capture (BoundaryKept), which rests on the    *)
(* scheduler having been told, AdmittedIsActive, and that in turn on       *)
(* OneOwner, so that no other task clears capture_active.                  *)
(***************************************************************************)
EXTENDS CamSched, TLAPS

(* From admission until capture_unlock, and all through maintenance, the   *)
(* scheduler holds capture_active.                                         *)
Admitted == {"wait", "blocked", "late", "overdue", "own", "bench", "maintSet", "release"}
AdmittedIsActive ==
  maint.active \/ (\E t \in Tasks : pc[t] \in Admitted) => sched.active

(* A probe of watch_node is in hand only while the kdp task is inside it.  *)
WatchOnKdp == prober["watch"].at # "idle" => pc["kdp"] = "probing"

(* A gated probe in hand has its channel flagged, and to itself.           *)
GatedIsFlagged ==
  /\ \A p \in Probers : Gated(p) => sched.probe[prober[p].cam]
  /\ Gated("sweep") /\ Gated("watch") => prober["sweep"].cam # prober["watch"].cam

(* No flag is up beside a capture that waited for its boundary.            *)
BoundaryKept ==
  \A t \in Tasks : pc[t] = "own" /\ ~overrun => ~ProbesActive(sched)

SchedInv ==
  TypeOK /\ WatchOnKdp /\ OneOwner /\ AdmittedIsActive /\ GatedIsFlagged /\ BoundaryKept

(* Every step keeps the types. *)
LEMMA TypeStep ==
  ASSUME TypeOK, [Next]_vars
  PROVE  TypeOK'
PROOF
  <1> USE DEF TypeOK, Tasks, Probers, Labels, Owning, Firing, ProbeStages
  <1>1. CASE UiPress
    BY SMTT(60), <1>1 DEF UiPress, Goto
  <1>2. CASE UiSampled
    BY Zenon, <1>2 DEF UiSampled, Goto
  <1>3. CASE UiSend
    BY <1>3 DEF UiSend, Goto, SendPress
  <1>4. CASE KdpSample
    BY <1>4 DEF KdpSample, Goto
  <1>5. CASE KdpSampled
    BY Zenon, <1>5 DEF KdpSampled, Goto
  <1>6. CASE TakePress
    BY <1>6 DEF TakePress, Goto
  <1>7. CASE HostCapture
    BY <1>7 DEF HostCapture, Goto
  <1>8. CASE BenchLock
    BY <1>8 DEF BenchLock, Goto
  <1>9. CASE BenchAdmit
    BY Zenon, <1>9 DEF BenchAdmit, Goto, CaptureAdmit, ProbesActive
  <1>10. CASE SoakStart
    BY <1>10 DEF SoakStart
  <1>11. CASE UngatedDone
    BY <1>11 DEF UngatedDone, Goto, Idle
  <1>12. CASE DeadlinePasses
    BY Zenon, <1>12 DEF DeadlinePasses
  <1>13. CASE MaintEnter
    BY <1>13 DEF MaintEnter, Goto
  <1>14. CASE MaintTouch
    BY Zenon, <1>14 DEF MaintTouch, Goto
  <1>15. CASE MaintLock
    <2>1. CASE ~sLock /\ sLock' = TRUE /\ Goto("kdp", "maintAdmit")
      BY <1>15, <2>1 DEF MaintLock, Goto
    <2>2. CASE UNCHANGED sLock /\ Goto("kdp", "idle")
      BY <1>15, <2>2 DEF MaintLock, Goto
    <2>3. QED
      BY Zenon, <1>15, <2>1, <2>2 DEF MaintLock
  <1>16. CASE MaintAdmit
    BY Zenon, <1>16 DEF MaintAdmit, Goto, CaptureAdmit, ProbesActive
  <1>17. CASE MaintSet
    BY <1>17 DEF MaintSet, Goto
  <1>18. CASE HostExit
    BY <1>18 DEF HostExit, Goto
  <1>19. ASSUME NEW t \in Tasks, FireRefused(t) PROVE TypeOK'
    BY <1>19 DEF FireRefused, Goto
  <1>20. ASSUME NEW t \in Tasks, FireLocked(t) PROVE TypeOK'
    BY <1>20 DEF FireLocked, Goto
  <1>21. ASSUME NEW t \in Tasks, FireAdmit(t) PROVE TypeOK'
    BY Zenon, <1>21 DEF FireAdmit, Goto, CaptureAdmit, ProbesActive
  <1>22. ASSUME NEW t \in Tasks, WaitCheck(t) PROVE TypeOK'
    <2>1. CASE CaptureReady(sched)
      <3>1. sched' \in [active : BOOLEAN, pending : BOOLEAN, probe : [Cams -> BOOLEAN]]
        BY Zenon, <1>22, <2>1 DEF WaitCheck, CaptureStarted
      <3>2. pc' \in [Tasks -> Labels]
        BY <1>22, <2>1 DEF WaitCheck, Goto
      <3>3. QED
        BY <1>22, <3>1, <3>2 DEF WaitCheck
    <2>2. CASE ~CaptureReady(sched)
      BY <1>22, <2>2 DEF WaitCheck, Goto
    <2>3. QED
      BY <2>1, <2>2
  <1>23. ASSUME NEW t \in Tasks, WaitWoken(t) PROVE TypeOK'
    BY Zenon, <1>23 DEF WaitWoken, Goto
  <1>24. ASSUME NEW t \in Tasks, WaitTimeout(t) PROVE TypeOK'
    BY <1>24 DEF WaitTimeout, Goto
  <1>25. ASSUME NEW t \in Tasks, WaitLate(t) PROVE TypeOK'
    <2>1. CASE CaptureReady(sched)
      <3>1. sched' \in [active : BOOLEAN, pending : BOOLEAN, probe : [Cams -> BOOLEAN]]
        BY Zenon, <1>25, <2>1 DEF WaitLate, CaptureStarted
      <3>2. pc' \in [Tasks -> Labels]
        BY <1>25, <2>1 DEF WaitLate, Goto
      <3>3. QED
        BY <1>25, <3>1, <3>2 DEF WaitLate
    <2>2. CASE ~CaptureReady(sched)
      BY <1>25, <2>2 DEF WaitLate, Goto
    <2>3. QED
      BY <2>1, <2>2
  <1>26. ASSUME NEW t \in Tasks, WaitOverrun(t) PROVE TypeOK'
    BY Zenon, <1>26 DEF WaitOverrun, Goto, CaptureStarted
  <1>27. ASSUME NEW t \in Tasks, XferEnd(t) PROVE TypeOK'
    BY <1>27 DEF XferEnd, Goto
  <1>28. ASSUME NEW t \in Tasks, Release(t) PROVE TypeOK'
    BY Zenon, <1>28 DEF Release, Goto, CaptureDone, ProbesActive
  <1>29. ASSUME NEW t \in Tasks, Give(t) PROVE TypeOK'
    BY Zenon, <1>29 DEF Give, Goto
  <1>30. ASSUME NEW t \in Tasks, MaintPoll(t) PROVE TypeOK'
    BY <1>30 DEF MaintPoll, Goto
  <1>31. ASSUME NEW t \in Tasks, MaintExit(t) PROVE TypeOK'
    BY Zenon, <1>31 DEF MaintExit, Goto, AfterMaintExit
  <1>32. ASSUME NEW t \in Tasks, NEW c \in Cams, XferBegin(t, c) PROVE TypeOK'
    BY <1>32 DEF XferBegin
  <1>33. ASSUME NEW c \in Cams, SweepBegin(c) PROVE TypeOK'
    BY Zenon, <1>33 DEF SweepBegin, BeginProbe, ProbeAllowed, ProbesActive
  <1>34. ASSUME NEW c \in Cams, WatchBegin(c) PROVE TypeOK'
    BY Zenon, <1>34 DEF WatchBegin, Goto, BeginProbe, ProbeAllowed, ProbesActive
  <1>35. ASSUME NEW c \in Cams, WatchUngated(c) PROVE TypeOK'
    BY <1>35 DEF WatchUngated, Goto
  <1>36. ASSUME NEW p \in Probers, Hello(p) PROVE TypeOK'
    BY <1>36 DEF Hello
  <1>37. ASSUME NEW p \in Probers, ProbeEnd(p) PROVE TypeOK'
    <2>1. sched' \in [active : BOOLEAN, pending : BOOLEAN, probe : [Cams -> BOOLEAN]]
      BY Zenon, <1>37 DEF ProbeEnd
    <2>2. prober' \in [Probers -> [at : ProbeStages, cam : Cams]]
      <3>1. Idle \in [at : ProbeStages, cam : Cams]
        BY CamsAssumption DEF Idle
      <3>2. QED
        BY <1>37, <3>1 DEF ProbeEnd, ProbeLeaves
    <2>3. pc' \in [Tasks -> Labels]
      <3>1. pc' = pc \/ Goto("kdp", "idle")
        BY Zenon, <1>37 DEF ProbeEnd, ProbeLeaves
      <3>2. QED
        BY <3>1 DEF Goto
    <2>4. QED
      BY <1>37, <2>1, <2>2, <2>3 DEF ProbeEnd
  <1>38. ASSUME NEW p \in Probers, ProbeWake(p) PROVE TypeOK'
    BY <1>38 DEF ProbeWake, ProbeLeaves, Goto, Idle
  <1>39. CASE UNCHANGED vars
    BY <1>39 DEF vars, ProbesActive
  <1>40. QED
    BY ZenonT(60), <1>1, <1>2, <1>3, <1>4, <1>5, <1>6, <1>7, <1>8, <1>9, <1>10, <1>11, <1>12, <1>13, <1>14, <1>15, <1>16, <1>17, <1>18, <1>19, <1>20, <1>21, <1>22, <1>23, <1>24, <1>25, <1>26, <1>27, <1>28, <1>29, <1>30, <1>31, <1>32, <1>33, <1>34, <1>35, <1>36, <1>37, <1>38, <1>39 DEF Next, Fire

(* Every step keeps watch_node on the kdp task. *)
LEMMA WatchStep ==
  ASSUME TypeOK, WatchOnKdp, [Next]_vars
  PROVE  WatchOnKdp'
PROOF
  <1> USE DEF WatchOnKdp, TypeOK, Tasks, Probers, Labels, Owning, Firing
  <1>1. CASE UiPress
    BY <1>1 DEF UiPress, Goto
  <1>2. CASE UiSampled
    BY <1>2 DEF UiSampled, Goto
  <1>3. CASE UiSend
    BY <1>3 DEF UiSend, Goto, SendPress
  <1>4. CASE KdpSample
    BY <1>4 DEF KdpSample, Goto
  <1>5. CASE KdpSampled
    BY <1>5 DEF KdpSampled, Goto
  <1>6. CASE TakePress
    BY <1>6 DEF TakePress, Goto
  <1>7. CASE HostCapture
    BY <1>7 DEF HostCapture, Goto
  <1>8. CASE BenchLock
    BY <1>8 DEF BenchLock, Goto
  <1>9. CASE BenchAdmit
    BY <1>9 DEF BenchAdmit, Goto, CaptureAdmit, ProbesActive
  <1>10. CASE SoakStart
    BY <1>10 DEF SoakStart
  <1>11. CASE UngatedDone
    BY <1>11 DEF UngatedDone, Goto, Idle
  <1>12. CASE DeadlinePasses
    BY <1>12 DEF DeadlinePasses
  <1>13. CASE MaintEnter
    BY <1>13 DEF MaintEnter, Goto
  <1>14. CASE MaintTouch
    BY <1>14 DEF MaintTouch, Goto
  <1>15. CASE MaintLock
    BY <1>15 DEF MaintLock, Goto
  <1>16. CASE MaintAdmit
    BY <1>16 DEF MaintAdmit, Goto, CaptureAdmit, ProbesActive
  <1>17. CASE MaintSet
    BY <1>17 DEF MaintSet, Goto
  <1>18. CASE HostExit
    BY <1>18 DEF HostExit, Goto
  <1>19. ASSUME NEW t \in Tasks, FireRefused(t) PROVE WatchOnKdp'
    BY <1>19 DEF FireRefused, Goto
  <1>20. ASSUME NEW t \in Tasks, FireLocked(t) PROVE WatchOnKdp'
    BY <1>20 DEF FireLocked, Goto
  <1>21. ASSUME NEW t \in Tasks, FireAdmit(t) PROVE WatchOnKdp'
    BY <1>21 DEF FireAdmit, Goto, CaptureAdmit, ProbesActive
  <1>22. ASSUME NEW t \in Tasks, WaitCheck(t) PROVE WatchOnKdp'
    BY <1>22 DEF WaitCheck, Goto, CaptureReady, CaptureStarted, ProbesActive
  <1>23. ASSUME NEW t \in Tasks, WaitWoken(t) PROVE WatchOnKdp'
    BY <1>23 DEF WaitWoken, Goto
  <1>24. ASSUME NEW t \in Tasks, WaitTimeout(t) PROVE WatchOnKdp'
    BY <1>24 DEF WaitTimeout, Goto
  <1>25. ASSUME NEW t \in Tasks, WaitLate(t) PROVE WatchOnKdp'
    BY <1>25 DEF WaitLate, Goto, CaptureReady, CaptureStarted, ProbesActive
  <1>26. ASSUME NEW t \in Tasks, WaitOverrun(t) PROVE WatchOnKdp'
    BY <1>26 DEF WaitOverrun, Goto, CaptureStarted, ProbesActive
  <1>27. ASSUME NEW t \in Tasks, XferEnd(t) PROVE WatchOnKdp'
    BY <1>27 DEF XferEnd, Goto
  <1>28. ASSUME NEW t \in Tasks, Release(t) PROVE WatchOnKdp'
    BY <1>28 DEF Release, Goto, CaptureDone, ProbesActive
  <1>29. ASSUME NEW t \in Tasks, Give(t) PROVE WatchOnKdp'
    BY <1>29 DEF Give, Goto
  <1>30. ASSUME NEW t \in Tasks, MaintPoll(t) PROVE WatchOnKdp'
    BY <1>30 DEF MaintPoll, Goto
  <1>31. ASSUME NEW t \in Tasks, MaintExit(t) PROVE WatchOnKdp'
    BY <1>31 DEF MaintExit, Goto, AfterMaintExit
  <1>32. ASSUME NEW t \in Tasks, NEW c \in Cams, XferBegin(t, c) PROVE WatchOnKdp'
    BY <1>32 DEF XferBegin
  <1>33. ASSUME NEW c \in Cams, SweepBegin(c) PROVE WatchOnKdp'
    BY <1>33 DEF SweepBegin, BeginProbe, ProbeAllowed, ProbesActive
  <1>34. ASSUME NEW c \in Cams, WatchBegin(c) PROVE WatchOnKdp'
    BY <1>34 DEF WatchBegin, Goto, BeginProbe, ProbeAllowed, ProbesActive
  <1>35. ASSUME NEW c \in Cams, WatchUngated(c) PROVE WatchOnKdp'
    BY <1>35 DEF WatchUngated, Goto
  <1>36. ASSUME NEW p \in Probers, Hello(p) PROVE WatchOnKdp'
    BY <1>36 DEF Hello
  <1>37. ASSUME NEW p \in Probers, ProbeEnd(p) PROVE WatchOnKdp'
    BY <1>37 DEF ProbeEnd, ProbeLeaves, Goto, ProbeEndWakes, Idle, ProbesActive
  <1>38. ASSUME NEW p \in Probers, ProbeWake(p) PROVE WatchOnKdp'
    BY <1>38 DEF ProbeWake, ProbeLeaves, Goto, Idle
  <1>39. CASE UNCHANGED vars
    BY <1>39 DEF vars, ProbesActive
  <1>40. QED
    BY SMTT(60), <1>1, <1>2, <1>3, <1>4, <1>5, <1>6, <1>7, <1>8, <1>9, <1>10, <1>11, <1>12, <1>13, <1>14, <1>15, <1>16, <1>17, <1>18, <1>19, <1>20, <1>21, <1>22, <1>23, <1>24, <1>25, <1>26, <1>27, <1>28, <1>29, <1>30, <1>31, <1>32, <1>33, <1>34, <1>35, <1>36, <1>37, <1>38, <1>39 DEF Next, Fire

(* Every step keeps one owner. *)
LEMMA OwnerStep ==
  ASSUME TypeOK, OneOwner, WatchOnKdp, [Next]_vars
  PROVE  OneOwner'
PROOF
  <1> USE DEF OneOwner, Holds, TypeOK, Tasks, Probers, Labels, Owning, Firing
  <1>1. CASE UiPress
    BY Zenon, <1>1 DEF UiPress, Goto
  <1>2. CASE UiSampled
    BY SMTT(60), <1>2 DEF UiSampled, Goto
  <1>3. CASE UiSend
    BY <1>3 DEF UiSend, Goto, SendPress
  <1>4. CASE KdpSample
    BY SMTT(60), <1>4 DEF KdpSample, Goto
  <1>5. CASE KdpSampled
    BY <1>5 DEF KdpSampled, Goto
  <1>6. CASE TakePress
    BY <1>6 DEF TakePress, Goto
  <1>7. CASE HostCapture
    BY <1>7 DEF HostCapture, Goto
  <1>8. CASE BenchLock
    BY <1>8 DEF BenchLock, Goto
  <1>9. CASE BenchAdmit
    BY <1>9 DEF BenchAdmit, Goto, CaptureAdmit, ProbesActive
  <1>10. CASE SoakStart
    BY <1>10 DEF SoakStart
  <1>11. CASE UngatedDone
    BY <1>11 DEF WatchOnKdp, UngatedDone, Goto, Idle
  <1>12. CASE DeadlinePasses
    BY <1>12 DEF DeadlinePasses
  <1>13. CASE MaintEnter
    BY <1>13 DEF MaintEnter, Goto
  <1>14. CASE MaintTouch
    BY <1>14 DEF MaintTouch, Goto
  <1>15. CASE MaintLock
    BY <1>15 DEF MaintLock, Goto
  <1>16. CASE MaintAdmit
    BY <1>16 DEF MaintAdmit, Goto, CaptureAdmit, ProbesActive
  <1>17. CASE MaintSet
    BY SMTT(60), <1>17 DEF MaintSet, Goto
  <1>18. CASE HostExit
    BY <1>18 DEF HostExit, Goto
  <1>19. ASSUME NEW t \in Tasks, FireRefused(t) PROVE OneOwner'
    BY <1>19 DEF FireRefused, Goto
  <1>20. ASSUME NEW t \in Tasks, FireLocked(t) PROVE OneOwner'
    BY <1>20 DEF FireLocked, Goto
  <1>21. ASSUME NEW t \in Tasks, FireAdmit(t) PROVE OneOwner'
    BY <1>21 DEF FireAdmit, Goto, CaptureAdmit, ProbesActive
  <1>22. ASSUME NEW t \in Tasks, WaitCheck(t) PROVE OneOwner'
    BY <1>22 DEF WaitCheck, Goto, CaptureReady, CaptureStarted, ProbesActive
  <1>23. ASSUME NEW t \in Tasks, WaitWoken(t) PROVE OneOwner'
    BY <1>23 DEF WaitWoken, Goto
  <1>24. ASSUME NEW t \in Tasks, WaitTimeout(t) PROVE OneOwner'
    BY <1>24 DEF WaitTimeout, Goto
  <1>25. ASSUME NEW t \in Tasks, WaitLate(t) PROVE OneOwner'
    BY <1>25 DEF WaitLate, Goto, CaptureReady, CaptureStarted, ProbesActive
  <1>26. ASSUME NEW t \in Tasks, WaitOverrun(t) PROVE OneOwner'
    BY <1>26 DEF WaitOverrun, Goto, CaptureStarted, ProbesActive
  <1>27. ASSUME NEW t \in Tasks, XferEnd(t) PROVE OneOwner'
    BY <1>27 DEF XferEnd, Goto
  <1>28. ASSUME NEW t \in Tasks, Release(t) PROVE OneOwner'
    BY <1>28 DEF Release, Goto, CaptureDone, ProbesActive
  <1>29. ASSUME NEW t \in Tasks, Give(t) PROVE OneOwner'
    BY <1>29 DEF Give, Goto
  <1>30. ASSUME NEW t \in Tasks, MaintPoll(t) PROVE OneOwner'
    BY <1>30 DEF MaintPoll, Goto
  <1>31. ASSUME NEW t \in Tasks, MaintExit(t) PROVE OneOwner'
    BY <1>31 DEF MaintExit, Goto, AfterMaintExit
  <1>32. ASSUME NEW t \in Tasks, NEW c \in Cams, XferBegin(t, c) PROVE OneOwner'
    BY <1>32 DEF XferBegin
  <1>33. ASSUME NEW c \in Cams, SweepBegin(c) PROVE OneOwner'
    BY <1>33 DEF SweepBegin, BeginProbe, ProbeAllowed, ProbesActive
  <1>34. ASSUME NEW c \in Cams, WatchBegin(c) PROVE OneOwner'
    BY <1>34 DEF WatchBegin, Goto, BeginProbe, ProbeAllowed, ProbesActive
  <1>35. ASSUME NEW c \in Cams, WatchUngated(c) PROVE OneOwner'
    BY <1>35 DEF WatchUngated, Goto
  <1>36. ASSUME NEW p \in Probers, Hello(p) PROVE OneOwner'
    BY <1>36 DEF Hello
  <1>37. ASSUME NEW p \in Probers, ProbeEnd(p) PROVE OneOwner'
    BY <1>37 DEF WatchOnKdp, ProbeEnd, ProbeLeaves, Goto, ProbeEndWakes, Idle, ProbesActive
  <1>38. ASSUME NEW p \in Probers, ProbeWake(p) PROVE OneOwner'
    BY <1>38 DEF WatchOnKdp, ProbeWake, ProbeLeaves, Goto, Idle
  <1>39. CASE UNCHANGED vars
    BY <1>39 DEF vars, ProbesActive
  <1>40. QED
    BY Zenon, <1>1, <1>2, <1>3, <1>4, <1>5, <1>6, <1>7, <1>8, <1>9, <1>10, <1>11, <1>12, <1>13, <1>14, <1>15, <1>16, <1>17, <1>18, <1>19, <1>20, <1>21, <1>22, <1>23, <1>24, <1>25, <1>26, <1>27, <1>28, <1>29, <1>30, <1>31, <1>32, <1>33, <1>34, <1>35, <1>36, <1>37, <1>38, <1>39 DEF Next, Fire

(* Every step keeps the scheduler told. *)
LEMMA AdmittedStep ==
  ASSUME TypeOK, OneOwner, AdmittedIsActive, [Next]_vars
  PROVE  AdmittedIsActive'
PROOF
  <1> USE DEF AdmittedIsActive, Admitted, OneOwner, Holds, TypeOK, Tasks, Probers, Labels, Owning, Firing
  <1>1. CASE UiPress
    BY SMTT(60), <1>1 DEF UiPress, Goto
  <1>2. CASE UiSampled
    BY <1>2 DEF UiSampled, Goto
  <1>3. CASE UiSend
    BY <1>3 DEF UiSend, Goto, SendPress
  <1>4. CASE KdpSample
    BY <1>4 DEF KdpSample, Goto
  <1>5. CASE KdpSampled
    BY <1>5 DEF KdpSampled, Goto
  <1>6. CASE TakePress
    BY <1>6 DEF TakePress, Goto
  <1>7. CASE HostCapture
    BY <1>7 DEF HostCapture, Goto
  <1>8. CASE BenchLock
    BY <1>8 DEF BenchLock, Goto
  <1>9. CASE BenchAdmit
    BY <1>9 DEF BenchAdmit, Goto, CaptureAdmit, ProbesActive
  <1>10. CASE SoakStart
    BY <1>10 DEF SoakStart
  <1>11. CASE UngatedDone
    BY <1>11 DEF UngatedDone, Goto, Idle
  <1>12. CASE DeadlinePasses
    BY <1>12 DEF DeadlinePasses
  <1>13. CASE MaintEnter
    BY <1>13 DEF MaintEnter, Goto
  <1>14. CASE MaintTouch
    BY <1>14 DEF MaintTouch, Goto
  <1>15. CASE MaintLock
    BY <1>15 DEF MaintLock, Goto
  <1>16. CASE MaintAdmit
    BY <1>16 DEF MaintAdmit, Goto, CaptureAdmit, ProbesActive
  <1>17. CASE MaintSet
    BY <1>17 DEF MaintSet, Goto
  <1>18. CASE HostExit
    BY <1>18 DEF HostExit, Goto
  <1>19. ASSUME NEW t \in Tasks, FireRefused(t) PROVE AdmittedIsActive'
    BY <1>19 DEF FireRefused, Goto
  <1>20. ASSUME NEW t \in Tasks, FireLocked(t) PROVE AdmittedIsActive'
    BY <1>20 DEF FireLocked, Goto
  <1>21. ASSUME NEW t \in Tasks, FireAdmit(t) PROVE AdmittedIsActive'
    BY <1>21 DEF FireAdmit, Goto, CaptureAdmit, ProbesActive
  <1>22. ASSUME NEW t \in Tasks, WaitCheck(t) PROVE AdmittedIsActive'
    BY <1>22 DEF WaitCheck, Goto, CaptureReady, CaptureStarted, ProbesActive
  <1>23. ASSUME NEW t \in Tasks, WaitWoken(t) PROVE AdmittedIsActive'
    BY <1>23 DEF WaitWoken, Goto
  <1>24. ASSUME NEW t \in Tasks, WaitTimeout(t) PROVE AdmittedIsActive'
    BY <1>24 DEF WaitTimeout, Goto
  <1>25. ASSUME NEW t \in Tasks, WaitLate(t) PROVE AdmittedIsActive'
    BY <1>25 DEF WaitLate, Goto, CaptureReady, CaptureStarted, ProbesActive
  <1>26. ASSUME NEW t \in Tasks, WaitOverrun(t) PROVE AdmittedIsActive'
    BY <1>26 DEF WaitOverrun, Goto, CaptureStarted, ProbesActive
  <1>27. ASSUME NEW t \in Tasks, XferEnd(t) PROVE AdmittedIsActive'
    BY <1>27 DEF XferEnd, Goto
  <1>28. ASSUME NEW t \in Tasks, Release(t) PROVE AdmittedIsActive'
    BY <1>28 DEF Release, Goto, CaptureDone, ProbesActive
  <1>29. ASSUME NEW t \in Tasks, Give(t) PROVE AdmittedIsActive'
    BY <1>29 DEF Give, Goto
  <1>30. ASSUME NEW t \in Tasks, MaintPoll(t) PROVE AdmittedIsActive'
    BY <1>30 DEF MaintPoll, Goto
  <1>31. ASSUME NEW t \in Tasks, MaintExit(t) PROVE AdmittedIsActive'
    BY <1>31 DEF MaintExit, Goto, AfterMaintExit
  <1>32. ASSUME NEW t \in Tasks, NEW c \in Cams, XferBegin(t, c) PROVE AdmittedIsActive'
    BY <1>32 DEF XferBegin
  <1>33. ASSUME NEW c \in Cams, SweepBegin(c) PROVE AdmittedIsActive'
    BY <1>33 DEF SweepBegin, BeginProbe, ProbeAllowed, ProbesActive
  <1>34. ASSUME NEW c \in Cams, WatchBegin(c) PROVE AdmittedIsActive'
    BY <1>34 DEF WatchBegin, Goto, BeginProbe, ProbeAllowed, ProbesActive
  <1>35. ASSUME NEW c \in Cams, WatchUngated(c) PROVE AdmittedIsActive'
    BY <1>35 DEF WatchUngated, Goto
  <1>36. ASSUME NEW p \in Probers, Hello(p) PROVE AdmittedIsActive'
    BY <1>36 DEF Hello
  <1>37. ASSUME NEW p \in Probers, ProbeEnd(p) PROVE AdmittedIsActive'
    BY <1>37 DEF ProbeEnd, ProbeLeaves, Goto, ProbeEndWakes, Idle, ProbesActive
  <1>38. ASSUME NEW p \in Probers, ProbeWake(p) PROVE AdmittedIsActive'
    BY <1>38 DEF ProbeWake, ProbeLeaves, Goto, Idle
  <1>39. CASE UNCHANGED vars
    BY <1>39 DEF vars, ProbesActive
  <1>40. QED
    BY ZenonT(60), <1>1, <1>2, <1>3, <1>4, <1>5, <1>6, <1>7, <1>8, <1>9, <1>10, <1>11, <1>12, <1>13, <1>14, <1>15, <1>16, <1>17, <1>18, <1>19, <1>20, <1>21, <1>22, <1>23, <1>24, <1>25, <1>26, <1>27, <1>28, <1>29, <1>30, <1>31, <1>32, <1>33, <1>34, <1>35, <1>36, <1>37, <1>38, <1>39 DEF Next, Fire

(* Every step keeps probes off a punctual capture. *)
LEMMA BoundaryStep ==
  ASSUME SchedInv, [Next]_vars
  PROVE  BoundaryKept'
PROOF
  <1> USE DEF SchedInv, BoundaryKept, AdmittedIsActive, Admitted, OneOwner, Holds, TypeOK, Tasks, Probers, Labels, Owning, Firing
  <1>1. CASE UiPress
    BY SMTT(60), <1>1 DEF UiPress, Goto
  <1>2. CASE UiSampled
    BY <1>2 DEF UiSampled, Goto
  <1>3. CASE UiSend
    BY <1>3 DEF UiSend, Goto, SendPress
  <1>4. CASE KdpSample
    BY <1>4 DEF KdpSample, Goto
  <1>5. CASE KdpSampled
    BY <1>5 DEF KdpSampled, Goto
  <1>6. CASE TakePress
    BY <1>6 DEF TakePress, Goto
  <1>7. CASE HostCapture
    BY <1>7 DEF HostCapture, Goto
  <1>8. CASE BenchLock
    BY <1>8 DEF BenchLock, Goto
  <1>9. CASE BenchAdmit
    BY <1>9 DEF BenchAdmit, Goto, CaptureAdmit, ProbesActive
  <1>10. CASE SoakStart
    BY <1>10 DEF SoakStart
  <1>11. CASE UngatedDone
    BY <1>11 DEF UngatedDone, Goto, Idle
  <1>12. CASE DeadlinePasses
    BY <1>12 DEF DeadlinePasses
  <1>13. CASE MaintEnter
    BY <1>13 DEF MaintEnter, Goto
  <1>14. CASE MaintTouch
    BY <1>14 DEF MaintTouch, Goto
  <1>15. CASE MaintLock
    BY <1>15 DEF MaintLock, Goto
  <1>16. CASE MaintAdmit
    BY <1>16 DEF MaintAdmit, Goto, CaptureAdmit, ProbesActive
  <1>17. CASE MaintSet
    BY <1>17 DEF MaintSet, Goto
  <1>18. CASE HostExit
    BY <1>18 DEF HostExit, Goto
  <1>19. ASSUME NEW t \in Tasks, FireRefused(t) PROVE BoundaryKept'
    BY <1>19 DEF FireRefused, Goto
  <1>20. ASSUME NEW t \in Tasks, FireLocked(t) PROVE BoundaryKept'
    BY <1>20 DEF FireLocked, Goto
  <1>21. ASSUME NEW t \in Tasks, FireAdmit(t) PROVE BoundaryKept'
    BY <1>21 DEF FireAdmit, Goto, CaptureAdmit, ProbesActive
  <1>22. ASSUME NEW t \in Tasks, WaitCheck(t) PROVE BoundaryKept'
    BY <1>22 DEF WaitCheck, Goto, CaptureReady, CaptureStarted, ProbesActive
  <1>23. ASSUME NEW t \in Tasks, WaitWoken(t) PROVE BoundaryKept'
    BY <1>23 DEF WaitWoken, Goto
  <1>24. ASSUME NEW t \in Tasks, WaitTimeout(t) PROVE BoundaryKept'
    BY <1>24 DEF WaitTimeout, Goto
  <1>25. ASSUME NEW t \in Tasks, WaitLate(t) PROVE BoundaryKept'
    BY <1>25 DEF WaitLate, Goto, CaptureReady, CaptureStarted, ProbesActive
  <1>26. ASSUME NEW t \in Tasks, WaitOverrun(t) PROVE BoundaryKept'
    BY <1>26 DEF WaitOverrun, Goto, CaptureStarted, ProbesActive
  <1>27. ASSUME NEW t \in Tasks, XferEnd(t) PROVE BoundaryKept'
    BY <1>27 DEF XferEnd, Goto
  <1>28. ASSUME NEW t \in Tasks, Release(t) PROVE BoundaryKept'
    BY <1>28 DEF Release, Goto, CaptureDone, ProbesActive
  <1>29. ASSUME NEW t \in Tasks, Give(t) PROVE BoundaryKept'
    BY <1>29 DEF Give, Goto
  <1>30. ASSUME NEW t \in Tasks, MaintPoll(t) PROVE BoundaryKept'
    BY <1>30 DEF MaintPoll, Goto
  <1>31. ASSUME NEW t \in Tasks, MaintExit(t) PROVE BoundaryKept'
    BY <1>31 DEF MaintExit, Goto, AfterMaintExit
  <1>32. ASSUME NEW t \in Tasks, NEW c \in Cams, XferBegin(t, c) PROVE BoundaryKept'
    BY <1>32 DEF XferBegin
  <1>33. ASSUME NEW c \in Cams, SweepBegin(c) PROVE BoundaryKept'
    BY <1>33 DEF SweepBegin, BeginProbe, ProbeAllowed, ProbesActive
  <1>34. ASSUME NEW c \in Cams, WatchBegin(c) PROVE BoundaryKept'
    BY <1>34 DEF WatchBegin, Goto, BeginProbe, ProbeAllowed, ProbesActive
  <1>35. ASSUME NEW c \in Cams, WatchUngated(c) PROVE BoundaryKept'
    BY <1>35 DEF WatchUngated, Goto
  <1>36. ASSUME NEW p \in Probers, Hello(p) PROVE BoundaryKept'
    BY <1>36 DEF Hello
  <1>37. ASSUME NEW p \in Probers, ProbeEnd(p) PROVE BoundaryKept'
    BY <1>37 DEF ProbeEnd, ProbeLeaves, Goto, ProbeEndWakes, Idle, ProbesActive
  <1>38. ASSUME NEW p \in Probers, ProbeWake(p) PROVE BoundaryKept'
    BY <1>38 DEF ProbeWake, ProbeLeaves, Goto, Idle
  <1>39. CASE UNCHANGED vars
    BY <1>39 DEF vars, ProbesActive
  <1>40. QED
    BY ZenonT(60), <1>1, <1>2, <1>3, <1>4, <1>5, <1>6, <1>7, <1>8, <1>9, <1>10, <1>11, <1>12, <1>13, <1>14, <1>15, <1>16, <1>17, <1>18, <1>19, <1>20, <1>21, <1>22, <1>23, <1>24, <1>25, <1>26, <1>27, <1>28, <1>29, <1>30, <1>31, <1>32, <1>33, <1>34, <1>35, <1>36, <1>37, <1>38, <1>39 DEF Next, Fire

(* Every step keeps a gated probe's channel flagged, and its own. *)
LEMMA GatedStep ==
  ASSUME SchedInv, [Next]_vars
  PROVE  GatedIsFlagged'
PROOF
  <1> USE DEF SchedInv, GatedIsFlagged, Gated, TypeOK, Probers, ProbeStages
  <1>1. CASE UiPress
    BY Zenon, <1>1 DEF UiPress, Goto
  <1>2. CASE UiSampled
    BY <1>2 DEF UiSampled, Goto
  <1>3. CASE UiSend
    BY <1>3 DEF UiSend, Goto, SendPress
  <1>4. CASE KdpSample
    BY <1>4 DEF KdpSample, Goto
  <1>5. CASE KdpSampled
    BY <1>5 DEF KdpSampled, Goto
  <1>6. CASE TakePress
    BY <1>6 DEF TakePress, Goto
  <1>7. CASE HostCapture
    BY <1>7 DEF HostCapture, Goto
  <1>8. CASE BenchLock
    BY <1>8 DEF BenchLock, Goto
  <1>9. CASE BenchAdmit
    BY <1>9 DEF BenchAdmit, Goto, CaptureAdmit, ProbesActive
  <1>10. CASE SoakStart
    BY <1>10 DEF SoakStart
  <1>11. CASE UngatedDone
    BY <1>11 DEF UngatedDone, Goto, Idle
  <1>12. CASE DeadlinePasses
    BY <1>12 DEF DeadlinePasses
  <1>13. CASE MaintEnter
    BY <1>13 DEF MaintEnter, Goto
  <1>14. CASE MaintTouch
    BY <1>14 DEF MaintTouch, Goto
  <1>15. CASE MaintLock
    BY <1>15 DEF MaintLock, Goto
  <1>16. CASE MaintAdmit
    BY <1>16 DEF MaintAdmit, Goto, CaptureAdmit, ProbesActive
  <1>17. CASE MaintSet
    BY <1>17 DEF MaintSet, Goto
  <1>18. CASE HostExit
    BY <1>18 DEF HostExit, Goto
  <1>19. ASSUME NEW t \in Tasks, FireRefused(t) PROVE GatedIsFlagged'
    BY <1>19 DEF FireRefused, Goto
  <1>20. ASSUME NEW t \in Tasks, FireLocked(t) PROVE GatedIsFlagged'
    BY <1>20 DEF FireLocked, Goto
  <1>21. ASSUME NEW t \in Tasks, FireAdmit(t) PROVE GatedIsFlagged'
    BY <1>21 DEF FireAdmit, Goto, CaptureAdmit, ProbesActive
  <1>22. ASSUME NEW t \in Tasks, WaitCheck(t) PROVE GatedIsFlagged'
    BY <1>22 DEF WaitCheck, Goto, CaptureReady, CaptureStarted, ProbesActive
  <1>23. ASSUME NEW t \in Tasks, WaitWoken(t) PROVE GatedIsFlagged'
    BY <1>23 DEF WaitWoken, Goto
  <1>24. ASSUME NEW t \in Tasks, WaitTimeout(t) PROVE GatedIsFlagged'
    BY <1>24 DEF WaitTimeout, Goto
  <1>25. ASSUME NEW t \in Tasks, WaitLate(t) PROVE GatedIsFlagged'
    BY <1>25 DEF WaitLate, Goto, CaptureReady, CaptureStarted, ProbesActive
  <1>26. ASSUME NEW t \in Tasks, WaitOverrun(t) PROVE GatedIsFlagged'
    BY <1>26 DEF WaitOverrun, Goto, CaptureStarted, ProbesActive
  <1>27. ASSUME NEW t \in Tasks, XferEnd(t) PROVE GatedIsFlagged'
    BY <1>27 DEF XferEnd, Goto
  <1>28. ASSUME NEW t \in Tasks, Release(t) PROVE GatedIsFlagged'
    BY <1>28 DEF Release, Goto, CaptureDone, ProbesActive
  <1>29. ASSUME NEW t \in Tasks, Give(t) PROVE GatedIsFlagged'
    BY <1>29 DEF Give, Goto
  <1>30. ASSUME NEW t \in Tasks, MaintPoll(t) PROVE GatedIsFlagged'
    BY <1>30 DEF MaintPoll, Goto
  <1>31. ASSUME NEW t \in Tasks, MaintExit(t) PROVE GatedIsFlagged'
    BY <1>31 DEF MaintExit, Goto, AfterMaintExit
  <1>32. ASSUME NEW t \in Tasks, NEW c \in Cams, XferBegin(t, c) PROVE GatedIsFlagged'
    BY <1>32 DEF XferBegin
  <1>33. ASSUME NEW c \in Cams, SweepBegin(c) PROVE GatedIsFlagged'
    BY <1>33 DEF SweepBegin, BeginProbe, ProbeAllowed, ProbesActive
  <1>34. ASSUME NEW c \in Cams, WatchBegin(c) PROVE GatedIsFlagged'
    BY <1>34 DEF WatchBegin, Goto, BeginProbe, ProbeAllowed, ProbesActive
  <1>35. ASSUME NEW c \in Cams, WatchUngated(c) PROVE GatedIsFlagged'
    BY <1>35 DEF WatchUngated, Goto
  <1>36. ASSUME NEW p \in Probers, Hello(p) PROVE GatedIsFlagged'
    BY <1>36 DEF Hello
  <1>37. ASSUME NEW p \in Probers, ProbeEnd(p) PROVE GatedIsFlagged'
    BY <1>37 DEF ProbeEnd, ProbeLeaves, Goto, ProbeEndWakes, Idle, ProbesActive
  <1>38. ASSUME NEW p \in Probers, ProbeWake(p) PROVE GatedIsFlagged'
    BY <1>38 DEF ProbeWake, ProbeLeaves, Goto, Idle
  <1>39. CASE UNCHANGED vars
    BY <1>39 DEF vars, ProbesActive
  <1>40. QED
    BY Zenon, <1>1, <1>2, <1>3, <1>4, <1>5, <1>6, <1>7, <1>8, <1>9, <1>10, <1>11, <1>12, <1>13, <1>14, <1>15, <1>16, <1>17, <1>18, <1>19, <1>20, <1>21, <1>22, <1>23, <1>24, <1>25, <1>26, <1>27, <1>28, <1>29, <1>30, <1>31, <1>32, <1>33, <1>34, <1>35, <1>36, <1>37, <1>38, <1>39 DEF Next, Fire

(* The inductive invariant of the scheduler, capture.c and maint.c. *)
LEMMA SchedInvariant == Spec => []SchedInv
PROOF
  <1>1. Init => SchedInv
    <2> SUFFICES ASSUME Init PROVE SchedInv
      OBVIOUS
    <2>1. (CHOOSE c \in Cams : TRUE) \in Cams
      BY CamsAssumption
    <2>2. TypeOK
      BY Zenon, <2>1 DEF Init, TypeOK, Tasks, Probers, Labels, ProbeStages, Idle
    <2>3. OneOwner
      BY DEF Init, OneOwner, Holds, Tasks, Owning, Firing
    <2>4. WatchOnKdp /\ AdmittedIsActive /\ GatedIsFlagged /\ BoundaryKept
      BY DEF Init, WatchOnKdp, AdmittedIsActive, GatedIsFlagged, Gated, BoundaryKept, Admitted,
             Idle, Probers, Tasks
    <2>5. QED
      BY <2>2, <2>3, <2>4 DEF SchedInv
  <1>2. SchedInv /\ [Next]_vars => SchedInv'
    BY TypeStep, WatchStep, OwnerStep, AdmittedStep, GatedStep, BoundaryStep DEF SchedInv
  <1>3. QED
    BY <1>1, <1>2, PTL DEF Spec

(* Every task, prober and flag of cam_sched.c, capture.c and maint.c keeps *)
(* its type, and the press queue never holds more than its one slot        *)
(* (capture_request), whatever the number of channels.                     *)
THEOREM SchedTypes == Spec => []TypeOK
PROOF
  <1>1. SchedInv => TypeOK
    BY DEF SchedInv
  <1>2. QED
    BY <1>1, SchedInvariant, PTL

(* cam_sched.c with capture.c and maint.c never lets two owners meet: the  *)
(* capture semaphore has one holder, task or maintenance mode, however     *)
(* maintenance is entered, expires and is left.                            *)
THEOREM SchedOneOwner == Spec => []OneOwner
PROOF
  <1>1. SchedInv => OneOwner
    BY DEF SchedInv
  <1>2. QED
    BY <1>1, SchedInvariant, PTL

(* A capture that waited for its probe boundary runs with no gated probe   *)
(* in flight (cam_sched_capture_ready, cam_sched_probe_begin), whatever the  *)
(* number of channels.                                                     *)
THEOREM SchedCaptureAlone == Spec => []PunctualCaptureAlone
PROOF
  <1>1. SchedInv => PunctualCaptureAlone
    BY DEF SchedInv, PunctualCaptureAlone, BoundaryKept, GatedIsFlagged, Gated, ProbesActive, TypeOK
  <1>2. QED
    BY <1>1, SchedInvariant, PTL
=============================================================================
