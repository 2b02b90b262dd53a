# KINO D4: a verification project

KINO D4 is a camera: an ESP32-P4 ("the camera") drives four ESP32-S3 camera
nodes over UARTs, stores every photograph on an SD card, and uploads photographs
taken on a *Roll* to a server through an ESP32-C6 radio. A desktop application
(Studio) talks to it over USB with the KDP protocol. These modules model the
parts of the firmware where several tasks, a power cut, or a server that does
not answer make the behaviour hard to test; TLC checks them on small instances
and TLAPS proves the central scheduling invariants for every number of cameras.

Paths below are under `src/firmware/p4/main/` unless they say otherwise.

## 1. Inventory

| part | state | operations | meets |
|---|---|---|---|
| camera scheduler (`cam_sched.c`, its use in `capture.c`) | active and pending capture, one probe flag per channel, semaphores `s_lock`, `s_probe_clear` | admit, ready, started, done, probe begin/end; `capture_busy`, `capture_request`, `capture_fire` | probes, maintenance, KDP, UI |
| maintenance (`maint.c`) | active, deadline; keeps `s_lock` while active | enter, touch, exit, poll | capture lock, KDP, UI |
| capture pipeline (`capture.c`) | frames of the capture in progress, request queue of one | fire, per-frame transfer, commit, done listeners | cameras, card, upload queue |
| card storage (`storage.c`, `storage_watch.c`) | card lock with yield, capture directories, trash, mount state | open, frame, commit, abort, sweep, delete, trash, remount | everything |
| upload queue (`upload_queue.c`) | RAM window of jobs, active index, rescan/revive/halt flags, scan cursor | worker step, reconciliation pass, probe, enqueue, forget, retry, network restored | card, Roll API, capture, UI, KDP |
| upload rules (`roll_queue.c`) | none (pure) | next step, apply, classify, reconcile, cursor, heartbeat schedule | upload queue |
| upload store (`upload_store.c`) | `UPLOAD.JSON` of each capture | inspect, save, rebuild from META, adopt old records | card, upload queue |
| Roll API client (`roll_api.c`, `roll_client.c`, `roll_http.c`) | credential, connection | register, asset init/parts/finish, complete | server |
| Roll state (`roll_state.c`) | membership, active Roll | join, leave, sync | UI, upload queue |
| network (`net_link.c`, `net_hosted.c`, `net_wifi.c`, `radio_recovery.c`, `wifi_creds.c`) | link state, recovery ladder, credentials | join, lose, reset, retry | upload queue |
| firmware update (`fw_update.c`) | one session: target, offset, digest | begin, chunk, end, abort | capture lock, nodes |
| safe mode (`safe_mode.c`) | crash count | boot, healthy timer | boot |
| KDP server (`kdp_server.c`, `kdp_*.c`) and codec (`firmware/components/kdp_core`) | one request at a time; stream decoder | about a hundred commands | all parts |
| camera link and node (`cam_link.c`, `firmware/camnode`) | frame in mid-transfer, sequence numbers | hello, capture, read chunk, release | capture |
| gallery (`gallery.c`, `gallery_index.c`) | index of the card | build, page, invalidate | card, UI |
| server (`apps/api`, `apps/worker`) | captures, upload sessions, job queue | init, part, finish, complete, sweep | camera |

`PROJECT.json` lists the remaining parts (drawing, audio, diagnostics, web
applications, board files) with the reason each is left out, and every hazard
at the line where it bites.

What is hard here: a binary semaphore shared by four tasks, one of which keeps
it for minutes; a probe and a transfer that must not share a UART; a worker
whose every step is cut into lock sections while other tasks add to, delete from
and compact the list it indexes; a bounded RAM window on an unbounded card,
walked with a positional cursor; answers lost after the server acted; writes the
card refuses; power cuts between any two of these.

## 2. Modules

| module | models | 
|---|---|
| `CamSched` | `cam_sched.c`, `maint.c`, the lock, probe boundary and request code of `capture.c`, the probes of `main.c` and `fw_update.c`, the bench and soak commands of `kdp_server.c` |
| `CamSchedProofs` | theorems `SchedTypes`, `SchedOneOwner`, `SchedCaptureAlone` and their lemmas |
| `RollQueue` | the pure rules of `roll_queue.c`, and the slot adoption of `upload_store.c` |
| `UploadQueue` | `upload_queue.c` over the store, the API client and the card; the UI's delete, undo and send-to-Roll |
| `MCUploadQueue` | small cards and META files for TLC |

### CamSched

`sLock` and `probeClear` are the two semaphores; `sched` is `s_sched`, changed
only by operators named after the functions of `cam_sched.c`. `pc` places each
of four tasks: the capture task, the KDP server task, the UI task and the soak
task (which inherits the lock from KDP). `prober` holds the transaction of the
background sweep and of `watch_node`; `held` the channels whose node keeps a
frame in mid-transfer. Every action is one critical section or one semaphore
call, so the tasks interleave exactly where the firmware lets them; a semaphore
timeout is an action that is always possible while its task waits. So the end of
a probe is two steps, the critical section that lowers its flag (`ProbeEnd`) and
the give of `s_probe_clear` after it (`ProbeWake`), and a boundary wait that runs
out is two, the timeout (`WaitLate`) and the section that admits defeat
(`WaitOverrun`). `overrun`
remembers that the capture in progress gave up waiting for the boundary: the
firmware then goes ahead by design, and `PunctualCaptureAlone` speaks of the
captures that did not.

Left out: the statistics counters, and the `fw_update_busy` gate of
`capture_fire`/`capture_request` (a further refusal, so it removes behaviours).
The maintenance deadline is the boolean "has passed".

### RollQueue and UploadQueue

A job is the record of `rq_job_t` with `next_attempt_ms` abstracted to `due`
and `capture_id` to `cid` (non-empty). `NextStep`, `Apply`, `ClassifyResponse`,
`ReconcileAction`, `PassDone` and the rest are the functions of `roll_queue.c`,
value for value; the HTTP statuses of an exchange go through
`ClassifyResponse`, not through a shortcut.

`dirs` is the card's directory order as `readdir` gives it (a new or restored
directory may appear at any position), `rec` each capture's `UPLOAD.JSON`
(`None`: absent, `BadRec`: does not decode), `q` the statics `s_lock` guards,
`run` the locals of `run_one_step`, `pass` those of `queue_scan`, `enq` an
enqueue in flight on the capture task and one on the KDP or UI task, `srv` the
server's row for each capture on each Roll (`apps/api` keeps a capture per
Roll and capture uuid, so a frame sent to one Roll is not held by another). The worker's steps are cut where the code releases `s_lock`
or the card: `Pick`, the exchange, `ApplyAnswer`, `Settle`, `Persist`,
`Unsaved`, `Trim`; `ScanStart`, `ScanExamine`, `ScanAdmit`, `ScanClose`,
`ScanDone`. The other tasks' actions are `Commit`, `HostEnqueue`, `SendToRoll`,
`EnqueueSave`, `EnqueueAdd`, `Delete`, `Undo`, `RetryAll`, `NetworkRestored`;
`Reboot` keeps the card and the server and nothing else.

The server's answers follow `apps/api/src/routes/device-captures.ts` as far as
the camera can tell them apart (`Registered`, `AssetReady`, `CompleteCalled`);
the network is the environment: an exchange confirms, is lost before or after
the server acted, is refused, rejected, busy, unauthorised, or gives up the card
to a capture. What META says of a capture (its Roll, its frames, its thumbnail)
is a constant: `media_favorite_set` rewrites the file and changes none of the
three. What the environment does beyond taking photographs
is named in `Events` and spends a `budget`, so a cfg says which misfortunes a
run contains.

Coarser than the code: a pass examines, writes and decides one directory in one
step (it holds the card throughout; only `list_add` is separate, because a host
enqueue can come between); at most one KDP or UI enqueue is in flight; a capture
in progress before its commit is seen only as a card that is refused ("yield")
or called back ("abandon"). Left out: link readiness (`net_link_can_upload`),
the worker's pause while a capture or maintenance is active, a missing captures
directory, the heartbeat, the time at which the trash is purged, error texts
and statistics.

## 3. Runs

Passing:

| run | instance | shows |
|---|---|---|
| `cam_sched` | 2 channels; 56,768 states | `TypeOK`, `OneOwner`, `PunctualCaptureAlone`, `AdmittedCaptureStarts` |
| `queue_nothing_stranded` | 1 photograph on the card and 1 to be taken, window 1, no parked job kept, 3 events; 2.7 million states | `TypeOK`, `NothingStranded`, `ProgressKept` |
| `queue_old_card` | the card of an older firmware, 4 photographs, two Rolls, window 2, 2 directories per pass, 2 events; 1.2 million states | `ConfirmedIsHeld` |
| `queue_lands` | 3 photographs on the card, window 2, retry budget 1, one parked job kept, 3 events; 31,316 states | `EveryCaptureLands` |

Bounds. Two channels suffice for "the last probe ended" to differ from "a probe
ended". A window of one job makes the window and the cap bite with two
photographs, and three events allow a misfortune during the recovery from
another; of `queue_old_card`'s four directories a pass sees two, so the
cursor moves. A retry budget of one makes one lost answer an outage that parks a
job. The old card's photograph has frames of cameras 2 and 3, so that camera and
position differ, and its two foreign records name a Roll where META names none
and a Roll where META names another. Deadlock is not checked in `UploadQueue`:
an idle queue whose every photograph is on the server has nothing to do.

Each passing run leaves out the events under which its property fails, and the
ones that add nothing to the question. The cfg in the last column, where there
is one, has TLC exhibit the failure; the ones marked * are also runs of
`PROJECT.json`, with the sentence of the source they contradict.

| property | fails with | because | cfg (`UploadQueue_...`) |
|---|---|---|---|
| `NothingStranded` | `delete`, several passes to a cycle | the end of the cycle clears what was owed (`roll_queue.c:544`) | `DeleteBeforeCursor` * |
| `NothingStranded` | `abandon` | a pass that gives the card up before its first directory has cleared `s_rescan` and does not re-arm it (`upload_queue.c:303`); the capture that called for the card usually schedules a pass itself | `AbandonedPass` |
| `NothingStranded` | `write`, `meta` | a record that cannot be written, or a META that cannot be read, is left "for the next pass" (`upload_queue.c:379`), which nothing schedules | `UnwrittenRecord` |
| `ConfirmedIsHeld` | `body` | a 2xx without its body stands for the whole asset (`roll_api.c:294`) | `InitWithoutBody` * |
| `ConfirmedIsHeld` | `frames` and `retry` | a job parked for want of a frame list is revived and completed with no frames (`upload_queue.c:1145`) | `RetryWithoutSlots` |
| `ProgressKept` | `enqueue`, window of two | two jobs of one capture (run `queue_duplicate_job`) keep their confirmations apart; with one job per capture it holds | `DuplicateJob` * (of the cause) |
| `EveryCaptureLands` | fewer directories per pass than the card has | the last pass of a cycle replaces the count of parked captures of all its passes (`upload_queue.c:441`), and a parked photograph is not looked for again | `ParkForgotten` |
| `EveryCaptureLands` | `write`, or a capture that has the card, with lost answers | a parked job whose FAILED record was never written is not trimmed; a window full of them owes a pass for ever, and a worker that owes a pass does not probe (`upload_queue.c:890`) | `ProbeStarved` * |
| `EveryCaptureLands` | `refuse`, `reject`, `frames`, `halt` | by design: these wait for the user | |

So `EveryCaptureLands` is a statement about a card that takes every record and
that one pass covers: what outages, a busy server and restarts do alone.

Three properties hold of no useful instance and are only refuted:

| run | property | what happens |
|---|---|---|
| `queue_foreign_roll` | `OnlyItsOwnRoll` | the pass retires a record that names a foreign Roll and keeps its `attempts`; if these were at the cap, `rq_park_is_transient` takes the record for one an outage parked, and the first answer of the server, the probe or a restored network revives it (no user and no event is needed). A user's retry revives any retired record (`upload_queue.c:1145`), and SEND TO ROLL sends a photograph elsewhere by intent |
| `queue_duplicate_job` | `OneJobPerCapture` | a host enqueue adds a capture between a pass's known-check and its `list_add` (`upload_queue.c:414`) |
| `queue_ghost_job` | `NoGhostJobs` | a stale active index lets a job outlive its photograph (`upload_queue.c:1062`) |

And of the scheduler:

| run | property | what happens |
|---|---|---|
| `maint_ends_only_when_quiet` | `MaintEndsOnlyWhenQuiet` | a command that refreshed the deadline is followed by the expiry decided before it (`maint.c:84`) |
| `nothing_inside_a_transfer` | `NothingInsideATransfer` | a bench command does not wait for the probe boundary (`kdp_server.c:3102`) |

The quotation and the code line of each run are under `findings` in
`PROJECT.json`. One more comment differs from the code and is no run:
`upload_queue.h:182-187` says that a restored network leaves "nothing revived
that was parked", while `upload_queue_network_restored` ends with
`revive_transient_locked`, which revives the jobs an outage parked; the model's
`NetworkRestored` does what the code does.

Fairness. `FairSpec` of `CamSched` has weak fairness of the capture code of each
task, of each probe's HELLO and end (every transaction has its own timeout) and
none of the boundary timeout, which a capture must not need. `FairSpec` of
`UploadQueue` has weak fairness of the worker task, of the enqueue code once
called, of the passing of a backoff (`Tick`) and of the ten-minute probe: a
FreeRTOS task in an endless loop, a straight-line function, and two timers. No
event is fair: nothing makes a lost answer, a retry by the user or a restart
happen.

## 4. Proof

`CamSchedProofs` proves, from the one assumption that the set of channels is
finite and not empty,

    THEOREM SchedTypes        == Spec => []TypeOK
    THEOREM SchedOneOwner     == Spec => []OneOwner
    THEOREM SchedCaptureAlone == Spec => []PunctualCaptureAlone

`OneOwner` is inductive given the types: that the lock has one holder rests on
which program points hold it. `PunctualCaptureAlone` is not. It speaks of the
probers, and a capture looks only at the scheduler's flags. `SchedInv` therefore
adds

- `GatedIsFlagged`: a gated probe in hand has its channel's flag up, and no
  other prober has that channel (so that ending one probe does not lower the
  flag of another);
- `BoundaryKept`: no flag is up beside a capture that waited for its boundary;
- `AdmittedIsActive`: from admission to release, and all through maintenance,
  `capture_active` is set, so no probe begins; it needs `OneOwner`, because a
  second owner's release would clear the flag;
- `WatchOnKdp`: `watch_node`'s probe exists only while the KDP task is inside it.

One lemma per conjunct shows that a step of `Next` preserves it, one case per
action; `SchedInvariant` combines them into `Spec => []SchedInv`, from which the
three theorems follow.

Only model-checked: everything about `UploadQueue`, and `AdmittedCaptureStarts`
(liveness is outside the prover's reach, as are facts by induction over
sequences).

## 5. Plan

In this order; each stage adds modules, runs and, where named, theorems.

1. `RollQueue` theorems: `Apply` keeps confirmations, `AdoptSlots` claims only
   what the old record claimed of that camera, `NextStep` never completes a
   capture with a pending frame; then `UploadQueue`'s `TypeOK` and
   `ConfirmedIsHeld` (with the events under which it holds).
2. `UploadPromise`: an abstract specification of the queue (each photograph is
   owed, then held by the server, and its claims only grow), and `UploadQueue`
   shown to implement it.
3. `RadioRecovery` (`radio_recovery.c`): the recovery ladder against a radio
   that answers late or never; every step ends, attempts are bounded, a late
   `action_done` of an abandoned action does nothing. With a theorem.
4. `CaptureCommit` (`storage.c`, `capture.c`): frame files, META commit, orphan
   sweep, delete and trash with power cuts between any two file operations: a
   committed photograph is never swept, an uncommitted one never shown.
   `CardLock`: the yield protocol of the card lock.
5. `FwUpdate` and `SafeMode`: sessions against captures and restarts.
6. `CamLink`: the P4's requests and the node server over a lossy UART, chunk
   reads with retries. The KDP stream decoder as a state machine against a
   reference definition.
7. Server: upload sessions of `apps/api` (init, parts, finish, expiry sweep)
   as a module `UploadQueue` can be composed with in place of `srv`.
