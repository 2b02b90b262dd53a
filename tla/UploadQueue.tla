----------------------------- MODULE UploadQueue -----------------------------
(***************************************************************************)
(* The durable Roll upload queue (upload_queue.c over upload_store.c and   *)
(* roll_api.c): the records on the card, the bounded list in RAM that is a *)
(* window on them, the one worker that walks the card and runs one HTTP    *)
(* step at a time, the tasks that enqueue, delete and retry under it, and  *)
(* power loss.                                                             *)
(*                                                                         *)
(* An action is one section of code between two points where another task  *)
(* can run: what holds s_lock, or the card, is one step.  The Roll and the *)
(* frames META.JSON names are fixed at commit, so they are constants:      *)
(* media_favorite_set rewrites the file and changes only its flag.  A      *)
(* rewrite cut short, like any other bad read, is the "meta" event.        *)
(*                                                                         *)
(* The server is the API in apps/api: one capture row per Roll and uuid,   *)
(* the assets under the row.                                               *)
(*                                                                         *)
(* Time: a backoff is over when Tick says so; the ten-minute probe may     *)
(* come due whenever the worker is idle.  Everything the environment may   *)
(* do to the queue beyond taking photographs spends one unit of `budget`.  *)
(***************************************************************************)
EXTENDS RollQueue, SequencesExt

CONSTANTS
  MetaRoll,      \* [Captures -> roll]   META.JSON rollId
  MetaSlots,     \* [Captures -> slots]  META.JSON frames, all on the card
  HasThumb,      \* [Captures -> BOOLEAN] THUMB.JPG is there
  QueueMax,      \* UPLOAD_QUEUE_MAX
  ParkedMax,     \* PARKED_IN_RAM_MAX
  ScanMaxDirs,   \* SCAN_MAX_DIRS
  CardDirs,      \* directories, in readdir order, on the card at power-on
  CardRec,       \* their records
  Events,        \* what the environment may do, see Spend
  MaxEvents      \* how often

ASSUME UploadQueueAssumption ==
  /\ MetaRoll \in [Captures -> Rolls \cup {NoRoll}]
  /\ MetaSlots \in [Captures -> Seq(1 .. MaxCam)]
  /\ \A c \in Captures : SlotsValid(MetaSlots[c])
  /\ HasThumb \in [Captures -> BOOLEAN]
  /\ QueueMax \in Nat \ {0} /\ ParkedMax \in Nat /\ ScanMaxDirs \in Nat \ {0}
  /\ CardDirs \in Seq(Captures) /\ CardRec \in [Captures -> Job \cup {None, BadRec}]
  /\ \A c \in Captures : CardRec[c] \in Job => CardRec[c].uuid = c /\ WellFormed(CardRec[c])
  /\ MaxEvents \in Nat
  /\ None \notin Job /\ BadRec \notin Job /\ None # BadRec

VARIABLES
  dirs,      \* committed capture directories, in readdir order
  trash,     \* the capture in the trash that can still be restored, if any
  fresh,     \* captures not yet taken
  rec,       \* UPLOAD.JSON of every capture, on the card or in the trash
  q,         \* the statics of upload_queue.c that s_lock guards
  pc,        \* where the worker is
  run,       \* the locals of run_one_step
  pass,      \* the locals of queue_scan
  enq,       \* an enqueue in flight on the capture task, and on the KDP or UI task
  srv,       \* the server's row for each capture uuid under each Roll
  budget     \* events the environment may still cause

vars == <<dirs, trash, fresh, rec, q, pc, run, pass, enq, srv, budget>>
cardVars == <<dirs, trash, fresh>>

Enqueuers == {"capture", "host"}

ServerStates == {"UNKNOWN", "REACHABLE", "UNREACHABLE"}

InitQueue ==
  [jobs |-> <<>>, age |-> <<>>, active |-> 0, halted |-> FALSE, capHit |-> FALSE,
   rescan |-> FALSE, forget |-> FALSE, scan |-> ScanInit, parkedOff |-> 0,
   server |-> "UNKNOWN", revive |-> FALSE, bootRevived |-> FALSE]

(* The camera position i of a record without slots was camera i.           *)
CameraAt(j, i) == IF j.slots[i] = 0 THEN i ELSE j.slots[i]

(* A row of the server: the capture exists, which assets are ready under   *)
(* it, and whether the camera has called it complete.                      *)
NoRow == [known |-> FALSE, thumb |-> FALSE, frames |-> {}, complete |-> FALSE]

(* At power-on the row holds what the card's record was told of it.        *)
RowOf(j) ==
  [known |-> j.cid, thumb |-> j.thumbDone,
   frames |-> {CameraAt(j, i) : i \in {i \in DOMAIN j.done : j.done[i]}}
                \cup (IF j.state = "COMPLETE" THEN Range(MetaSlots[j.uuid]) ELSE {}),
   complete |-> j.state = "COMPLETE"]

HeldAfter(c, r) ==
  IF CardRec[c] \in Job /\ CardRec[c].roll = r THEN RowOf(CardRec[c]) ELSE NoRow

Init ==
  /\ dirs = CardDirs /\ trash = {} /\ fresh = Captures \ Range(CardDirs)
  /\ rec = CardRec
  /\ q = InitQueue /\ pc = "boot" /\ run = None /\ pass = None
  /\ enq = [t \in Enqueuers |-> None]
  /\ srv = [c \in Captures |-> [r \in Rolls |-> HeldAfter(c, r)]]
  /\ budget = MaxEvents

Spend(event) == event \in Events /\ budget > 0 /\ budget' = budget - 1
NoEvent == UNCHANGED budget

(***************************************************************************)
(* The RAM list.  Each operator is one function of upload_queue.c run      *)
(* under s_lock, from the statics before to the statics after.             *)
(***************************************************************************)
OnCard(c) == \E i \in DOMAIN dirs : dirs[i] = c

(* A capture holds the card from its commit to its done-listener; a        *)
(* reconciliation pass holds it from opendir to closedir.                  *)
CardHeld == pc \in {"entry", "admit"} \/ enq["capture"] # None

FindJob(s, c) ==
  IF \A i \in DOMAIN s.jobs : s.jobs[i].uuid # c THEN 0
  ELSE CHOOSE i \in DOMAIN s.jobs :
         s.jobs[i].uuid = c /\ \A k \in 1 .. i - 1 : s.jobs[k].uuid # c

Full(s) == Len(s.jobs) >= QueueMax

ListAddOneMore(s, j) ==
  IF Len(s.jobs) > QueueMax THEN [s EXCEPT !.capHit = TRUE]
  ELSE [s EXCEPT !.jobs = Append(@, j), !.age = Append(@, Len(s.jobs) + 1)]
ListAdd(s, j) ==
  IF Full(s) THEN [s EXCEPT !.capHit = TRUE]
  ELSE [s EXCEPT !.jobs = Append(@, j), !.age = Append(@, Len(s.jobs) + 1)]

(* The tail fills the hole, its age with it; only the order of ages        *)
(* matters, so they are kept as ranks.                                     *)
FillHole(seq, i) == [k \in 1 .. Len(seq) - 1 |-> IF k = i THEN seq[Len(seq)] ELSE seq[k]]

Ranks(seq) == [i \in DOMAIN seq |-> Cardinality({k \in DOMAIN seq : seq[k] <= seq[i]})]

ListDrop(s, i) ==
  [s EXCEPT !.jobs = FillHole(@, i), !.age = Ranks(FillHole(@, i))]

RelocateJob(s, i, c) ==
  IF i \in DOMAIN s.jobs /\ s.jobs[i].uuid = c THEN i ELSE FindJob(s, c)

ParkedJobs(s) == {i \in DOMAIN s.jobs : s.jobs[i].state = "FAILED"}

DropOldestParked(s) ==
  LET idle == ParkedJobs(s) \ {s.active} IN
  IF idle = {} THEN s
  ELSE [ListDrop(s, CHOOSE i \in idle : \A k \in idle : s.age[i] <= s.age[k])
        EXCEPT !.parkedOff = @ + 1]

TrimParked(s) ==
  LET over == Cardinality(ParkedJobs(s)) - ParkedMax
      trimmed[n \in 0 .. QueueMax] ==
        IF n = 0 THEN s ELSE DropOldestParked(trimmed[n - 1])
  IN IF over > 0 THEN trimmed[over] ELSE s

(* revive_transient_locked: parks of an outage go back in play, in RAM now *)
(* and on the card at the next pass.                                       *)
WelcomeParked(s) == [s EXCEPT !.revive = TRUE, !.rescan = TRUE]

ReviveTransient(s) ==
  LET t == [s EXCEPT !.jobs = [i \in DOMAIN s.jobs |->
                                IF ParkIsTransient(s.jobs[i]) THEN Revive(s.jobs[i])
                                ELSE s.jobs[i]]]
  IN IF s.parkedOff > 0 THEN WelcomeParked(t) ELSE t

NoteServer(s, disp, answered) ==
  LET t == [s EXCEPT !.server = IF answered THEN "REACHABLE" ELSE "UNREACHABLE"] IN
  CASE disp = "YIELD" -> s
    [] disp # "YIELD" /\ answered /\ s.server # "REACHABLE" -> ReviveTransient(t)
    [] disp # "YIELD" /\ ~(answered /\ s.server # "REACHABLE") -> t

RunnableJobs(s) == {i \in DOMAIN s.jobs : Runnable(s.jobs[i])}

(***************************************************************************)
(* upload_store_inspect_ex on one directory: `r` is the record as read,    *)
(* `listed` whether META's frame list could be read and its files found.   *)
(***************************************************************************)
Inspected(action, j, save) == [action |-> action, job |-> j, save |-> save]

Parked(j) == [j EXCEPT !.state = "FAILED"]

Resumed(c, r, listed) ==
  LET j == DueNow(r) IN
  CASE Len(j.slots) = 0 \/ HasSlots(j) -> Inspected("RESUME", j, FALSE)
    [] Len(j.slots) > 0 /\ ~HasSlots(j) /\ ~listed -> Inspected("RESUME", Parked(j), TRUE)
    [] Len(j.slots) > 0 /\ ~HasSlots(j) /\ listed ->
         Inspected("RESUME", AdoptSlots(j, MetaSlots[c]), TRUE)

Inspect(c, r, listed) ==
  LET action == ReconcileAction(MetaRoll[c], r) IN
  CASE action = "IGNORE" -> Inspected("IGNORE", None, FALSE)
    [] action = "RESUME" -> Resumed(c, r, listed)
    [] action = "RETIRE" ->
         Inspected("RETIRE", Parked(IF r = BadRec THEN InitSlots(c, NoRoll, <<>>, FALSE) ELSE r),
                   FALSE)
    [] action \in {"ENQUEUE", "REPAIR"} ->
         Inspected(action, IF listed THEN InitSlots(c, MetaRoll[c], MetaSlots[c], HasThumb[c])
                           ELSE Parked(InitSlots(c, MetaRoll[c], <<>>, HasThumb[c])), TRUE)

(* upload_store_save: through a temporary, and over FatFs only by removing *)
(* the old record first.  The deadline on the card means nothing to the    *)
(* boot that reads it.                                                     *)
OnDisk(j) == [j EXCEPT !.due = TRUE]

Saved(c, j) == OnCard(c) /\ rec' = [rec EXCEPT ![c] = OnDisk(j)]

SaveFails(c) ==
  \/ ~OnCard(c) /\ UNCHANGED rec /\ NoEvent
  \/ OnCard(c) /\ Spend("write") /\ rec' \in {rec, [rec EXCEPT ![c] = None]}

(***************************************************************************)
(* run_one_step.                                                           *)
(***************************************************************************)
Ready == pc = "loop" /\ ~q.halted

Pick ==
  /\ Ready /\ RunnableJobs(q) # {}
  /\ LET i == CHOOSE i \in RunnableJobs(q) : \A k \in RunnableJobs(q) : i <= k IN
       /\ q' = [q EXCEPT !.active = i]
       /\ run' = [idx |-> i, step |-> NextStep(q.jobs[i]), snap |-> q.jobs[i],
                  disp |-> "OK", answered |-> FALSE, cid |-> FALSE, dirty |-> FALSE]
  /\ pc' = "http"
  /\ UNCHANGED <<cardVars, rec, pass, enq, srv, budget>>

(* One whole roll_api_step and its judgement: the status that ends it, the *)
(* API's code, and whether it stepped aside for a capture on the card.     *)
AnsweredWith(status, code, yielded, cid) ==
  /\ pc = "http"
  /\ run' = [run EXCEPT !.disp = ClassifyStep(status, code, yielded),
                        !.answered = status > 0, !.cid = cid]
  /\ pc' = "answered"
  /\ UNCHANGED <<cardVars, rec, q, pass, enq>>

Answered(status, code) == AnsweredWith(status, code, FALSE, status = 200)

NoAnswer == Answered(0, "")

IsAsset(step) == step.kind \in {"UPLOAD_THUMB", "UPLOAD_FRAME"}

Readable == OnCard(run.snap.uuid) \/ run.step.kind = "COMPLETE_CAPTURE"

Addressed == run.snap.roll # NoRoll \/ run.step.kind # "REGISTER"

(* What the API keeps of a step.  A capture is created once per Roll and   *)
(* uuid; the assets go under the row capture_id names, which is the job's  *)
(* own Roll's; completing it looks at no asset.                            *)
Registered(row) == [row EXCEPT !.known = TRUE]

AssetReady(row, step) ==
  IF step.kind = "UPLOAD_THUMB" THEN [row EXCEPT !.thumb = TRUE]
  ELSE [row EXCEPT !.frames = @ \cup {step.slot}]

CompleteCalled(row) == [row EXCEPT !.complete = TRUE]

Landed ==
  [srv EXCEPT ![run.snap.uuid][run.snap.roll] =
    CASE run.step.kind = "REGISTER" -> Registered(@)
      [] IsAsset(run.step) -> AssetReady(@, run.step)
      [] run.step.kind = "COMPLETE_CAPTURE" -> CompleteCalled(@)]

ServerConfirms == Answered(200, "") /\ Readable /\ Addressed /\ srv' = Landed /\ NoEvent

(* No answer: the request, or only its answer, was lost.                   *)
AnswerLost ==
  /\ NoAnswer /\ Readable /\ Addressed /\ Spend("lost")
  /\ srv' \in {srv, Landed}

(* The file is not on the card: status 0, as if the server were away.      *)
FileMissing == NoAnswer /\ ~Readable /\ UNCHANGED srv /\ NoEvent

ServerBusy ==
  /\ Answered(409, "UPLOAD_IN_PROGRESS") \/ \E status \in {302, 429, 503} : Answered(status, "")
  /\ Readable /\ Addressed /\ Spend("busy") /\ UNCHANGED srv

CardYielded ==
  /\ AnsweredWith(0, "", TRUE, FALSE) /\ run.step.kind # "COMPLETE_CAPTURE"
  /\ \/ enq["capture"] # None /\ NoEvent
     \/ enq["capture"] = None /\ Spend("yield")
  /\ UNCHANGED srv

AssetRejected ==
  /\ Answered(422, "CHECKSUM_MISMATCH") \/ Answered(409, "UPLOAD_NOT_OPEN")
  /\ IsAsset(run.step) /\ Readable /\ Spend("reject") /\ UNCHANGED srv

Refused ==
  /\ \E status \in {400, 404, 410, 413} : Answered(status, "")
  /\ Readable /\ UNCHANGED srv
  /\ \/ ~Addressed /\ NoEvent
     \/ Addressed /\ Spend("refuse")

Unauthorised ==
  /\ \E status \in {401, 403} : Answered(status, "")
  /\ Readable \/ run.step.kind = "REGISTER"   \* the camera's own registration
  /\ Spend("halt") /\ UNCHANGED srv

(* step_asset's init answered 2xx with a body that did not arrive: the     *)
(* reply is NULL, the status stands, no part is sent.                      *)
InitWithoutBody ==
  Answered(200, "") /\ IsAsset(run.step) /\ Readable /\ Spend("body") /\ UNCHANGED srv

(* The camera's own registration answered 2xx without a credential: that  *)
(* status is taken for the step's, and there is no captureId.             *)
NoCredential ==
  /\ AnsweredWith(200, "", FALSE, FALSE) /\ run.step.kind = "REGISTER"
  /\ Spend("credential") /\ UNCHANGED srv

Exchange ==
  \/ ServerConfirms \/ AnswerLost \/ FileMissing \/ ServerBusy \/ CardYielded
  \/ AssetRejected \/ Refused \/ Unauthorised \/ InitWithoutBody
  \/ NoCredential

AppliedTo(j) ==
  LET registered == run.disp = "OK" /\ run.step.kind = "REGISTER" IN
  Apply([j EXCEPT !.cid = IF registered THEN run.cid ELSE @], run.step, run.disp)

StepEnds == run' = None /\ pc' = "loop"

(* The answer is applied to the live job, wherever it lives now.           *)
ApplyAnswer ==
  /\ pc = "answered"
  /\ LET s == NoteServer(q, run.disp, run.answered)
         i == RelocateJob(s, run.idx, run.snap.uuid) IN
     \/ /\ i = 0
        /\ q' = [s EXCEPT !.forget = FALSE, !.active = 0]
        /\ StepEnds
     \/ /\ i # 0 /\ s.forget
        /\ q' = [ListDrop(s, i) EXCEPT !.forget = FALSE, !.active = 0]
        /\ StepEnds
     \/ /\ i # 0 /\ ~s.forget
        /\ LET j == AppliedTo(s.jobs[i])
               dirty == Dirty(s.jobs[i], run.disp) IN
           /\ q' = [s EXCEPT !.jobs[i] = j, !.active = 0,
                             !.halted = @ \/ run.disp = "HALT"]
           /\ run' = [run EXCEPT !.idx = i, !.snap = j, !.dirty = dirty]
           /\ pc' = IF j.state = "COMPLETE" THEN "settle"
                    ELSE IF dirty THEN "save" ELSE "trim"
  /\ UNCHANGED <<cardVars, rec, pass, enq, srv, budget>>

(* A complete job leaves the list whatever the card will say.              *)
Settle ==
  /\ pc = "settle"
  /\ LET i == RelocateJob(q, run.idx, run.snap.uuid) IN
       q' = IF i = 0 THEN q ELSE [ListDrop(q, i) EXCEPT !.rescan = TRUE]
  /\ pc' = IF run.dirty THEN "save" ELSE "trim"
  /\ UNCHANGED <<cardVars, rec, run, pass, enq, srv, budget>>

Persist ==
  /\ pc = "save"
  /\ \/ ~CardHeld /\ Saved(run.snap.uuid, run.snap) /\ pc' = "trim" /\ NoEvent
     \/ ~CardHeld /\ SaveFails(run.snap.uuid) /\ pc' = "unsaved"
     \/ CardHeld /\ UNCHANGED rec /\ pc' = "unsaved" /\ NoEvent
     \/ ~CardHeld /\ Spend("yield") /\ UNCHANGED rec /\ pc' = "unsaved"
  /\ UNCHANGED <<cardVars, q, run, pass, enq, srv>>

Unsaved ==
  /\ pc = "unsaved"
  /\ LET i == RelocateJob(q, run.idx, run.snap.uuid) IN
       q' = IF i = 0 \/ Settled(run.snap) THEN q
            ELSE [q EXCEPT !.jobs[i].state = "RETRY_WAIT", !.jobs[i].due = FALSE]
  /\ StepEnds
  /\ UNCHANGED <<cardVars, rec, pass, enq, srv, budget>>

Trim ==
  /\ pc = "trim"
  /\ LET s == TrimParked(q) IN
       q' = [s EXCEPT !.rescan = @ \/ (Len(s.jobs) < Len(q.jobs) /\ s.capHit)]
  /\ StepEnds
  /\ UNCHANGED <<cardVars, rec, pass, enq, srv, budget>>

(***************************************************************************)
(* queue_scan, and what the idle worker does besides.                      *)
(***************************************************************************)
Idle == Ready /\ RunnableJobs(q) = {}

ScanBegins == pc = "boot" \/ (Idle /\ q.rescan)

(* s_revive_parked is dropped when no park is known to be on the card.     *)
WelcomeIfOwed(s) == [s EXCEPT !.revive = @ /\ s.parkedOff > 0]

ScanRefused ==
  /\ ScanBegins
  /\ \/ CardHeld /\ NoEvent
     \/ ~CardHeld /\ Spend("yield")
  /\ q' = [WelcomeIfOwed(q) EXCEPT !.rescan = TRUE]
  /\ pc' = "loop"
  /\ UNCHANGED <<cardVars, rec, run, pass, enq, srv>>

ScanStart ==
  /\ ScanBegins /\ ~CardHeld
  /\ q' = [WelcomeIfOwed(q) EXCEPT !.capHit = FALSE, !.rescan = FALSE]
  /\ pass' = [pos |-> q.scan.cursor + 1, looked |-> 0, parkedOff |-> 0,
              unadmitted |-> 0, reached |-> FALSE, job |-> None]
  /\ pc' = "entry"
  /\ UNCHANGED <<cardVars, rec, run, enq, srv, budget>>

Onward == [pass EXCEPT !.pos = @ + 1, !.looked = @ + 1, !.job = None]

NextEntry == pass' = Onward /\ pc' = "entry"

Welcomed(in) ==
  IF ParkIsTransient(in.job) /\ q.revive
    THEN [in EXCEPT !.job = Revive(@), !.save = TRUE] ELSE in

(* What the pass does with a directory the list does not know, once its    *)
(* record is written if it had to be.                                      *)
Decide(c, in) ==
  \/ in.action = "IGNORE" /\ UNCHANGED rec /\ NextEntry
  \/ /\ in.action # "IGNORE"
     /\ LET w == Welcomed(in)
            offList == w.job.state = "FAILED" /\ Cardinality(ParkedJobs(q)) >= ParkedMax IN
        /\ IF w.save THEN Saved(c, w.job) ELSE UNCHANGED rec
        /\ IF offList
             THEN pass' = [Onward EXCEPT !.parkedOff = @ + 1] /\ pc' = "entry"
             ELSE pass' = [Onward EXCEPT !.job = w.job] /\ pc' = "admit"

(* The record could not be rewritten: left for the next pass.              *)
Unwritten(c) ==
  LET in == Inspect(c, rec[c], TRUE) IN
  in.action # "IGNORE" /\ Welcomed(in).save /\ SaveFails(c) /\ NextEntry

ScanExamine ==
  /\ pc = "entry" /\ pass.pos <= Len(dirs) /\ pass.looked < ScanMaxDirs
  /\ LET c == dirs[pass.pos] IN
     \/ FindJob(q, c) # 0 /\ NextEntry /\ NoEvent /\ UNCHANGED rec
     \/ /\ FindJob(q, c) = 0
        /\ \/ Decide(c, Inspect(c, rec[c], TRUE)) /\ NoEvent
           \/ Unwritten(c)
           \/ NextEntry /\ Spend("meta") /\ UNCHANGED rec
           \/ rec[c] # None /\ Decide(c, Inspect(c, BadRec, TRUE)) /\ Spend("record")
           \/ Decide(c, Inspect(c, rec[c], FALSE)) /\ Spend("frames")
  /\ UNCHANGED <<cardVars, q, run, enq, srv>>

ScanAdmit ==
  /\ pc = "admit"
  /\ q' = ListAdd(q, pass.job)
  /\ IF Full(q)
       THEN pass' = [pass EXCEPT !.unadmitted = 1, !.job = None] /\ pc' = "closed"
       ELSE pass' = [pass EXCEPT !.job = None] /\ pc' = "entry"
  /\ UNCHANGED <<cardVars, rec, run, enq, srv, budget>>

(* The walk ran out of entries, of its budget, or of the card.             *)
ScanClose ==
  /\ pc = "entry"
  /\ \/ pass.pos > Len(dirs) /\ NoEvent
     \/ pass.pos <= Len(dirs) /\ pass.looked >= ScanMaxDirs /\ NoEvent
     \/ pass.pos <= Len(dirs) /\ pass.looked < ScanMaxDirs /\ Spend("abandon")
  /\ pass' = [pass EXCEPT !.reached = pass.pos > Len(dirs)]
  /\ pc' = "closed"
  /\ UNCHANGED <<cardVars, rec, q, run, enq, srv>>

ScanDone ==
  /\ pc = "closed"
  /\ LET scan == PassDone(q.scan, pass.looked, pass.unadmitted, pass.reached)
         s == [q EXCEPT !.scan = scan, !.rescan = @ \/ ScanMore(scan),
                        !.parkedOff = IF pass.reached THEN pass.parkedOff ELSE @]
         bootWelcome == /\ pass.reached /\ pass.parkedOff > 0 /\ ~s.revive
                        /\ s.server # "UNREACHABLE" /\ ~s.bootRevived
     IN q' = IF bootWelcome THEN [WelcomeParked(s) EXCEPT !.bootRevived = TRUE] ELSE s
  /\ pass' = None /\ pc' = "loop"
  /\ UNCHANGED <<cardVars, rec, run, enq, srv, budget>>

(* maybe_probe_parked, its ten minutes over: one parked job, or one pass.  *)
Probe ==
  /\ Idle /\ ~q.rescan
  /\ LET transient == {i \in DOMAIN q.jobs : ParkIsTransient(q.jobs[i])} IN
     \/ /\ transient # {}
        /\ LET i == CHOOSE i \in transient : \A k \in transient : i <= k IN
             q' = [q EXCEPT !.jobs[i] = Revive(@)]
     \/ transient = {} /\ q.parkedOff > 0 /\ q' = WelcomeParked(q)
  /\ UNCHANGED <<cardVars, rec, pc, run, pass, enq, srv, budget>>

(***************************************************************************)
(* The other tasks.                                                        *)
(***************************************************************************)
(* A capture commits and, still inside its card lock, hands itself over.   *)
Commit(c, i) ==
  /\ c \in fresh /\ ~CardHeld
  /\ dirs' = InsertAt(dirs, i, c) /\ fresh' = fresh \ {c}
  /\ enq' = IF MetaRoll[c] = NoRoll THEN enq
            ELSE [enq EXCEPT !["capture"] = [uuid |-> c, roll |-> MetaRoll[c], saved |-> FALSE]]
  /\ UNCHANGED <<trash, rec, q, pc, run, pass, srv, budget>>

(* UPLOAD_ENQUEUE over KDP: the capture's own Roll, from its META.         *)
HostEnqueue(c) ==
  /\ enq["host"] = None /\ OnCard(c) /\ MetaRoll[c] # NoRoll /\ Spend("enqueue")
  /\ enq' = [enq EXCEPT !["host"] = [uuid |-> c, roll |-> MetaRoll[c], saved |-> FALSE]]
  /\ UNCHANGED <<cardVars, rec, q, pc, run, pass, srv>>

(* SEND TO ROLL on the camera: the active Roll, for a photograph whose     *)
(* META names none, or cannot be read just now.                            *)
SendToRoll(c, r) ==
  /\ enq["host"] = None /\ OnCard(c) /\ Spend("adopt")
  /\ MetaRoll[c] = NoRoll \/ "meta" \in Events
  /\ enq' = [enq EXCEPT !["host"] = [uuid |-> c, roll |-> r, saved |-> FALSE]]
  /\ UNCHANGED <<cardVars, rec, q, pc, run, pass, srv>>

EnqueuedJob(t) ==
  LET c == enq[t].uuid IN InitSlots(c, enq[t].roll, MetaSlots[c], HasThumb[c])

EnqueueSave(t) ==
  /\ enq[t] # None /\ ~enq[t].saved
  /\ \/ /\ t = "capture" \/ ~CardHeld
        /\ \/ /\ Saved(enq[t].uuid, EnqueuedJob(t)) /\ NoEvent
              /\ enq' = [enq EXCEPT ![t].saved = TRUE]
           \/ SaveFails(enq[t].uuid) /\ enq' = [enq EXCEPT ![t] = None]
     \/ /\ t = "host" /\ CardHeld /\ UNCHANGED rec /\ NoEvent
        /\ enq' = [enq EXCEPT ![t] = None]
  /\ UNCHANGED <<cardVars, q, pc, run, pass, srv>>

EnqueueAddSilently(t) ==
  /\ enq[t] # None /\ enq[t].saved
  /\ q' = IF FindJob(q, enq[t].uuid) = 0 THEN ListAdd(q, EnqueuedJob(t)) ELSE q
  /\ enq' = [enq EXCEPT ![t] = None]
  /\ UNCHANGED <<cardVars, rec, pc, run, pass, srv, budget>>
EnqueueAdd(t) ==
  /\ enq[t] # None /\ enq[t].saved
  /\ LET s == IF FindJob(q, enq[t].uuid) = 0 THEN ListAdd(q, EnqueuedJob(t)) ELSE q IN
       q' = [s EXCEPT !.scan = CardChanged(@), !.rescan = TRUE]
  /\ enq' = [enq EXCEPT ![t] = None]
  /\ UNCHANGED <<cardVars, rec, pc, run, pass, srv, budget>>

Forget(s, c) ==
  LET i == FindJob(s, c)
      what == ForgetAction(i # 0, i = s.active)
      t == CASE what = "NOW" -> ListDrop(s, i)
             [] what = "AFTER_STEP" -> [s EXCEPT !.forget = TRUE]
             [] what = "NONE" -> s
  IN [t EXCEPT !.scan = CardChanged(@), !.rescan = TRUE]

(* Forgotten, then renamed into the trash or removed, under the card.      *)
Delete(c) ==
  /\ OnCard(c) /\ ~CardHeld /\ Spend("delete")
  /\ q' = Forget(q, c)
  /\ dirs' = Remove(dirs, c)
  /\ \/ trash' = {c} /\ UNCHANGED rec
     \/ UNCHANGED trash /\ rec' = [rec EXCEPT ![c] = None]
  /\ UNCHANGED <<fresh, pc, run, pass, enq, srv>>

(* undo_delete renames it back.  The queue is not told.                    *)
Undo(c, i) ==
  /\ c \in trash /\ ~CardHeld /\ Spend("undo")
  /\ dirs' = InsertAt(dirs, i, c) /\ trash' = trash \ {c}
  /\ UNCHANGED <<fresh, rec, q, pc, run, pass, enq, srv>>

RetryAll ==
  /\ Spend("retry")
  /\ LET s == [q EXCEPT !.halted = FALSE,
                        !.jobs = [i \in DOMAIN q.jobs |->
                                   IF q.jobs[i].state \in {"RETRY_WAIT", "FAILED"}
                                     THEN Revive(q.jobs[i]) ELSE q.jobs[i]]]
     IN q' = IF q.parkedOff > 0 THEN WelcomeParked(s) ELSE s
  /\ UNCHANGED <<cardVars, rec, pc, run, pass, enq, srv>>

NetworkRestored ==
  /\ Spend("net")
  /\ q' = ReviveTransient([q EXCEPT !.jobs = [i \in DOMAIN q.jobs |-> DueNow(q.jobs[i])]])
  /\ UNCHANGED <<cardVars, rec, pc, run, pass, enq, srv>>

(* A backoff deadline passes.                                              *)
Tick ==
  /\ \E i \in DOMAIN q.jobs : Waiting(q.jobs[i]) /\ q' = [q EXCEPT !.jobs[i].due = TRUE]
  /\ UNCHANGED <<cardVars, rec, pc, run, pass, enq, srv, budget>>

(* Power is lost and comes back: the card and the server are what is left, *)
(* and the trash is emptied.                                               *)
Reboot ==
  /\ Spend("crash")
  /\ q' = InitQueue /\ pc' = "boot" /\ run' = None /\ pass' = None
  /\ enq' = [t \in Enqueuers |-> None]
  /\ trash' = {} /\ rec' = [c \in Captures |-> IF c \in trash THEN None ELSE rec[c]]
  /\ UNCHANGED <<dirs, fresh, srv>>

Worker ==
  \/ Pick \/ Exchange \/ ApplyAnswer \/ Settle \/ Persist \/ Unsaved \/ Trim
  \/ ScanRefused \/ ScanStart \/ ScanExamine \/ ScanAdmit \/ ScanClose \/ ScanDone

Enqueue(t) == EnqueueSave(t) \/ EnqueueAdd(t)

Others ==
  \/ \E c \in Captures, i \in 1 .. Len(dirs) + 1 : Commit(c, i) \/ Undo(c, i)
  \/ \E c \in Captures : HostEnqueue(c) \/ Delete(c) \/ \E r \in Rolls : SendToRoll(c, r)
  \/ RetryAll \/ NetworkRestored \/ Reboot

Next == Worker \/ Probe \/ Tick \/ (\E t \in Enqueuers : Enqueue(t)) \/ Others

Spec == Init /\ [][Next]_vars

Fairness ==
  /\ WF_vars(Worker) /\ WF_vars(Probe) /\ WF_vars(Tick)
  /\ \A t \in Enqueuers : WF_vars(Enqueue(t))

FairSpec == Spec /\ Fairness

(***************************************************************************)
(* Properties.                                                             *)
(***************************************************************************)
(* Every variable has its type; the list never outgrows UPLOAD_QUEUE_MAX   *)
(* nor a job its attempt budget.                                           *)
TypeOK ==
  /\ dirs \in Seq(Captures) /\ trash \subseteq Captures /\ fresh \subseteq Captures
  /\ rec \in [Captures -> Job \cup {None, BadRec}]
  /\ q.jobs \in Seq(Job) /\ q.age \in Seq(Nat) /\ Len(q.age) = Len(q.jobs)
  /\ Len(q.jobs) <= QueueMax
  /\ q.active \in 0 .. QueueMax /\ q.parkedOff \in Nat /\ q.server \in ServerStates
  /\ \A f \in {q.halted, q.capHit, q.rescan, q.forget, q.revive, q.bootRevived} : f \in BOOLEAN
  /\ q.scan.cursor \in Nat /\ q.scan.seen \in Nat /\ q.scan.pending \in Nat
  /\ budget \in 0 .. MaxEvents

CardJobs == {rec[c] : c \in {c \in Captures : rec[c] \notin {None, BadRec}}}

Jobs == Range(q.jobs) \cup CardJobs

(* What a job claims the server confirmed, the server holds under the      *)
(* job's Roll; and COMPLETE claims every frame META names.                 *)
Row(c, r) == IF r = NoRoll THEN NoRow ELSE srv[c][r]

Backed(j) ==
  LET row == Row(j.uuid, j.roll) IN
  /\ j.cid => row.known
  /\ j.thumbDone => row.thumb
  /\ \A i \in DOMAIN j.done : j.done[i] => CameraAt(j, i) \in row.frames
  /\ j.state = "COMPLETE" => Range(MetaSlots[j.uuid]) \subseteq row.frames

(* No job, in RAM or on the card, claims a frame, a thumbnail or a whole   *)
(* capture the server does not hold, whatever was lost, retried, rebooted  *)
(* through or deleted (rq_apply, step_asset, upload_store_save).           *)
ConfirmedIsHeld == \A j \in Jobs : Backed(j)

(* An on-Roll photograph the server has not completed, its record not      *)
(* settled, is work the queue owes.                                        *)
Owed(c) ==
  /\ OnCard(c) /\ MetaRoll[c] # NoRoll /\ ~srv[c][MetaRoll[c]].complete
  /\ rec[c] \in {None, BadRec} \/ (rec[c] \notin {None, BadRec} /\ ~Settled(rec[c]))

ScanComing == q.rescan \/ ScanMore(q.scan) \/ q.parkedOff > 0 \/ pc \in {"boot", "entry", "admit", "closed"}

InHand(c) ==
  \/ FindJob(q, c) # 0
  \/ run # None /\ run.snap.uuid = c
  \/ \E t \in Enqueuers : enq[t] # None /\ enq[t].uuid = c

(* Whatever work the card still owes is in the RAM window, in somebody's   *)
(* hands, or ahead of a reconciliation pass that is owed: the window may   *)
(* miss a capture but never forget it (rq_scan_t, s_rescan, list_add).     *)
NothingStranded == \A c \in Captures : Owed(c) => InHand(c) \/ ScanComing

(* One capture, one job: the uuid is the job's identity (find_job,         *)
(* relocate_job), and a photograph already queued is not queued twice      *)
(* (ui.c:5932-5933).                                                       *)
OneJobPerCapture ==
  \A i, k \in DOMAIN q.jobs : q.jobs[i].uuid = q.jobs[k].uuid => i = k

(* A job the list keeps loses no confirmation: no answer, however late or  *)
(* bad, and no refused write takes back what the server confirmed          *)
(* (rq_apply clears no completion flag; relocate_job).                     *)
ProgressKept ==
  [][\A i \in DOMAIN q.jobs, k \in DOMAIN q'.jobs :
       q.jobs[i].uuid = q'.jobs[k].uuid =>
         /\ q.jobs[i].cid => q'.jobs[k].cid
         /\ q.jobs[i].thumbDone => q'.jobs[k].thumbDone
         /\ \A n \in DOMAIN q.jobs[i].done : q.jobs[i].done[n] => q'.jobs[k].done[n]]_vars

(* A record that names a Roll the capture never claimed is parked and its  *)
(* photograph never uploaded there (roll_queue.h:426, RQ_REC_RETIRE): what *)
(* the owner has not sent to another Roll is known only to its own.        *)
OnlyItsOwnRoll ==
  \A c \in Captures, r \in Rolls : srv[c][r].known => r = MetaRoll[c]

(* A job in the list belongs to a photograph on the card, save one the     *)
(* worker drops when its step ends (upload_queue_forget).                  *)
NoGhostJobs ==
  \A i \in DOMAIN q.jobs :
    OnCard(q.jobs[i].uuid) \/ (q.forget /\ run # None /\ run.snap.uuid = q.jobs[i].uuid)

(* Every photograph taken on a Roll reaches the server complete, unless it *)
(* is deleted first: lost answers, a busy server, outages long enough to   *)
(* park it and reboots only delay it (worker_task, maybe_probe_parked,     *)
(* queue_scan).  That needs a card that takes every record: a refused      *)
(* write, or a capture that has the card just then, can stop it for good   *)
(* (upload_queue.c:890).                                                   *)
EveryCaptureLands ==
  \A c \in Captures :
    (OnCard(c) /\ MetaRoll[c] # NoRoll) ~> (Row(c, MetaRoll[c]).complete \/ ~OnCard(c))
=============================================================================
