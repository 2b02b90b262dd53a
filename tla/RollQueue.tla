------------------------------ MODULE RollQueue ------------------------------
(***************************************************************************)
(* The pure half of the Roll upload queue (roll_queue.c): what a job asks  *)
(* for next, what an answer does to it, what startup does with a record,   *)
(* and where a reconciliation pass resumes.  No variables: UploadQueue     *)
(* drives these operators the way upload_queue.c drives the functions.     *)
(*                                                                         *)
(* A job's next_attempt_ms is abstracted to `due`: the deadline has        *)
(* passed.  capture_id is abstracted to `cid`: whether it is non-empty.    *)
(* last_error is left out.                                                 *)
(***************************************************************************)
EXTENDS Naturals, Sequences, FiniteSets

CONSTANTS
  Captures,      \* capture uuids
  Rolls,         \* Roll ids
  NoRoll,        \* the empty roll id
  MaxCam,        \* camera slots are 1..MaxCam; slot 0 is "unknown"
  MaxAttempts,   \* RQ_MAX_ATTEMPTS
  MaxRereads,    \* RQ_MAX_REREADS
  None,          \* an absent file, job or local
  BadRec         \* an UPLOAD.JSON that is there and does not decode

ASSUME RollQueueAssumption ==
  /\ NoRoll \notin Rolls
  /\ MaxCam \in Nat
  /\ MaxAttempts \in Nat \ {0}
  /\ MaxRereads \in Nat

States == {"QUEUED", "REGISTERING", "THUMB_UPLOADING", "THUMB_READY",
           "ORIGINALS_UPLOADING", "VERIFYING", "COMPLETE", "RETRY_WAIT", "FAILED"}

StepKinds == {"NOTHING", "REGISTER", "UPLOAD_THUMB", "UPLOAD_FRAME",
              "COMPLETE_CAPTURE", "WAIT_BACKOFF"}

Dispositions == {"OK", "RETRY", "REREAD", "PARK", "HALT", "YIELD", "REINIT"}

Slots == 0 .. MaxCam

Job == [uuid : Captures, roll : Rolls \cup {NoRoll}, cid : BOOLEAN, state : States,
        slots : Seq(Slots), done : Seq(BOOLEAN), thumb : BOOLEAN, thumbDone : BOOLEAN,
        attempts : 0 .. MaxAttempts, rereads : 0 .. MaxRereads + 1, due : BOOLEAN]

(***************************************************************************)
(* A new job, and a job from before frame_slot[].                          *)
(***************************************************************************)
SlotsValid(slots) ==
  /\ \A i \in DOMAIN slots : slots[i] \in 1 .. MaxCam
  /\ \A i, k \in DOMAIN slots : slots[i] = slots[k] => i = k

InitSlots(c, roll, slots, thumb) ==
  [uuid |-> c, roll |-> roll, cid |-> FALSE, state |-> "QUEUED",
   slots |-> slots, done |-> [i \in DOMAIN slots |-> FALSE],
   thumb |-> thumb, thumbDone |-> FALSE, attempts |-> 0, rereads |-> 0, due |-> TRUE]

HasSlots(j) == \A i \in DOMAIN j.slots : j.slots[i] # 0

(* The old queue's position i was camera i: read each camera's             *)
(* confirmation from there.                                                *)
AdoptByPosition(j, slots) ==
  [j EXCEPT !.slots = slots,
            !.done = [i \in DOMAIN slots |-> i \in DOMAIN j.done /\ j.done[i]]]
AdoptSlots(j, slots) ==
  [j EXCEPT !.slots = slots,
            !.done = [i \in DOMAIN slots |-> slots[i] \in DOMAIN j.done /\ j.done[slots[i]]]]

(***************************************************************************)
(* What a job asks for.  From the completion flags alone, never the state. *)
(***************************************************************************)
Settled(j) == j.state \in {"COMPLETE", "FAILED"}

Waiting(j) == j.state = "RETRY_WAIT" /\ ~j.due

Pending(j) == {i \in DOMAIN j.slots : ~j.done[i]}

FirstPendingFrame(j) ==
  IF Pending(j) = {} THEN 0
  ELSE j.slots[CHOOSE i \in Pending(j) : \A k \in Pending(j) : i <= k]

NextStep(j) ==
  CASE Settled(j)                  -> [kind |-> "NOTHING", slot |-> 0]
    [] Waiting(j)                  -> [kind |-> "WAIT_BACKOFF", slot |-> 0]
    [] ~Settled(j) /\ ~Waiting(j) ->
         CASE ~j.cid -> [kind |-> "REGISTER", slot |-> 0]
           [] j.cid /\ j.thumb /\ ~j.thumbDone -> [kind |-> "UPLOAD_THUMB", slot |-> 0]
           [] j.cid /\ ~(j.thumb /\ ~j.thumbDone) ->
                IF FirstPendingFrame(j) > 0
                  THEN [kind |-> "UPLOAD_FRAME", slot |-> FirstPendingFrame(j)]
                  ELSE [kind |-> "COMPLETE_CAPTURE", slot |-> 0]

(* What the queue writes: a confirmation per frame, and an attempt counter *)
(* at its cap only on a job that is settled.                               *)
WellFormed(j) ==
  /\ Len(j.done) = Len(j.slots)
  /\ ~Settled(j) => j.attempts < MaxAttempts /\ j.rereads <= MaxRereads

Runnable(j) == NextStep(j).kind \notin {"NOTHING", "WAIT_BACKOFF"}

(***************************************************************************)
(* What an answer means: an HTTP status, 0 for none, and the API's code.   *)
(***************************************************************************)
ClassifyResponse(status, code) ==
  CASE status <= 0 -> "RETRY"
    [] status \in 200 .. 299 -> "OK"
    [] status \in {401, 403} -> "HALT"
    [] status = 409 -> IF code = "UPLOAD_NOT_OPEN" THEN "REINIT" ELSE "RETRY"
    [] status = 422 -> "REREAD"
    [] status = 429 -> "RETRY"
    [] status >= 500 -> "RETRY"
    [] status \in (400 .. 499) \ {401, 403, 409, 422, 429} -> "PARK"
    [] status \in (1 .. 199) \cup (300 .. 399) -> "RETRY"

ClassifyStep(status, code, cardYielded) ==
  IF cardYielded THEN "YIELD" ELSE ClassifyResponse(status, code)

(***************************************************************************)
(* What an answer does.                                                    *)
(***************************************************************************)
StateForStep(j, kind) ==
  CASE kind = "REGISTER" -> "REGISTERING"
    [] kind = "UPLOAD_THUMB" -> "THUMB_UPLOADING"
    [] kind = "UPLOAD_FRAME" -> "ORIGINALS_UPLOADING"
    [] kind = "COMPLETE_CAPTURE" -> "VERIFYING"
    [] OTHER -> j.state

(* Confirmed by camera, not by position: the step named a slot.            *)
ConfirmFrame(j, slot) == [i \in DOMAIN j.done |-> j.done[i] \/ j.slots[i] = slot]

ApplyOk(j, step) ==
  LET k == [j EXCEPT !.attempts = 0] IN
  CASE step.kind = "REGISTER" ->
         [k EXCEPT !.state = IF j.thumb THEN "THUMB_UPLOADING" ELSE "ORIGINALS_UPLOADING"]
    [] step.kind = "UPLOAD_THUMB" ->
         [k EXCEPT !.thumbDone = TRUE, !.rereads = 0, !.state = "THUMB_READY"]
    [] step.kind = "UPLOAD_FRAME" ->
         [k EXCEPT !.done = ConfirmFrame(j, step.slot), !.rereads = 0,
                   !.state = "ORIGINALS_UPLOADING"]
    [] step.kind = "COMPLETE_CAPTURE" -> [k EXCEPT !.state = "COMPLETE"]
    [] OTHER -> k

ApplyRetry(j) ==
  [j EXCEPT !.attempts = @ + 1,
            !.state = IF j.attempts + 1 >= MaxAttempts THEN "FAILED" ELSE "RETRY_WAIT",
            !.due = FALSE]

ApplyRereadFromScratch(j) ==
  [j EXCEPT !.rereads = @ + 1, !.thumbDone = FALSE,
            !.state = IF j.rereads + 1 > MaxRereads THEN "FAILED" ELSE "RETRY_WAIT",
            !.due = TRUE]
ApplyReread(j) ==
  [j EXCEPT !.rereads = @ + 1,
            !.state = IF j.rereads + 1 > MaxRereads THEN "FAILED" ELSE "RETRY_WAIT",
            !.due = TRUE]

(* rq_apply, with the deadline upload_queue.c sets right after it.         *)
Apply(j, step, disp) ==
  IF Settled(j) THEN j ELSE
  CASE disp = "OK" -> ApplyOk(j, step)
    [] disp = "RETRY" -> ApplyRetry(j)
    [] disp = "YIELD" -> [j EXCEPT !.state = "RETRY_WAIT", !.due = FALSE]
    [] disp \in {"REREAD", "REINIT"} -> ApplyReread(j)
    [] disp = "PARK" -> [j EXCEPT !.state = "FAILED"]
    [] disp = "HALT" -> [j EXCEPT !.state = StateForStep(j, step.kind)]

(* Whether the record must be written: everything but a yield, and nothing *)
(* on a job that is settled already.                                       *)
Dirty(j, disp) == ~Settled(j) /\ disp # "YIELD"

(***************************************************************************)
(* Parked jobs.                                                            *)
(***************************************************************************)
ParkIsTransientPastTheCap(j) ==
  j.state = "FAILED" /\ j.attempts > MaxAttempts /\ j.rereads <= MaxRereads
ParkIsTransient(j) ==
  j.state = "FAILED" /\ j.attempts >= MaxAttempts /\ j.rereads <= MaxRereads

Revive(j) == [j EXCEPT !.attempts = 0, !.rereads = 0, !.due = TRUE, !.state = "RETRY_WAIT"]

(* rq_job_boot_resume and rq_job_network_restored.                         *)
DueNow(j) == [j EXCEPT !.due = @ \/ j.state = "RETRY_WAIT"]

(***************************************************************************)
(* Reconciliation of one committed capture directory.  `rec` is what       *)
(* UPLOAD.JSON decodes to: a job, None or BadRec.                          *)
(***************************************************************************)
ReconcileAction(metaRoll, rec) ==
  CASE rec = None -> IF metaRoll # NoRoll THEN "ENQUEUE" ELSE "IGNORE"
    [] rec = BadRec -> IF metaRoll # NoRoll THEN "REPAIR" ELSE "RETIRE"
    [] rec \notin {None, BadRec} ->
         CASE rec.state = "COMPLETE" -> "IGNORE"
           [] rec.state # "COMPLETE" /\ rec.roll # metaRoll -> "RETIRE"
           [] rec.state # "COMPLETE" /\ rec.roll = metaRoll ->
                IF metaRoll = NoRoll THEN "RETIRE" ELSE "RESUME"

(***************************************************************************)
(* The reconciliation cursor.                                              *)
(***************************************************************************)
ScanInit == [cursor |-> 0, seen |-> 0, pending |-> 0, complete |-> FALSE, owed |-> FALSE]

PassDone(s, visited, unadmitted, reachedEnd) ==
  IF reachedEnd
    THEN [cursor |-> 0, seen |-> 0, pending |-> s.seen + unadmitted,
          complete |-> TRUE, owed |-> FALSE]
    ELSE [s EXCEPT !.seen = @ + unadmitted, !.cursor = @ + visited, !.complete = FALSE]

CardChanged(s) == [s EXCEPT !.complete = FALSE, !.owed = TRUE]

ScanMore(s) == s.cursor > 0 \/ s.pending > 0 \/ s.owed

ForgetAction(inList, active) ==
  CASE ~inList -> "NONE" [] inList /\ active -> "AFTER_STEP" [] inList /\ ~active -> "NOW"
=============================================================================
