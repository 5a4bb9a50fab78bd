--------------------------- MODULE MissionLifecycle ---------------------------
(***************************************************************************)
(* The lifecycle of one assurance mission: the run record in the store,    *)
(* the API handlers that create, cancel, retry, archive and delete it      *)
(* (api/missions.py), the Pub/Sub subscription that delivers its jobs, and *)
(* the workers that lease and execute it (mission_execution_service.py,    *)
(* agents/supervisor.py).                                                  *)
(*                                                                         *)
(* Only acquire_lease, the tenant-checked writes and touch_heartbeat are   *)
(* atomic.  Every other write is a read of the whole record, a change and  *)
(* a write of the whole record (get_run ... update_run), so each actor     *)
(* keeps the copy it read and its write puts back everything that copy     *)
(* says.  The Firestore adapter moreover keeps what its own process wrote, *)
(* and get_run falls back to that when the document does not exist.        *)
(***************************************************************************)
EXTENDS Naturals

CONSTANTS
    Requests,       \* API requests on the mission, each served once
    Workers,        \* worker deliveries that may be at work at the same time
    Messages,       \* identities of the outstanding Pub/Sub messages
    MaxDeliveries,  \* the subscription's max-delivery-attempts
    MaxAttempts,    \* MAX_RETRY_ATTEMPTS
    Stages,         \* records of progress a pipeline run writes
    Disposable,     \* is the mission a demo sample?
    Faults,         \* kinds of fault that happen, each at most once
    None            \* no message

ASSUME LifecycleAssumption ==
    /\ MaxDeliveries \in Nat \ {0}
    /\ MaxAttempts \in Nat \ {0}
    /\ Stages \in Nat \ {0}
    /\ Disposable \in BOOLEAN
    /\ Faults \subseteq {"EXCEPTION", "OUTAGE", "CRASH"}
    /\ None \notin Messages
    /\ Requests \cap Workers = {}

VARIABLES
    doc,     \* the run record in the store
    actor,   \* the local state of every API handler and worker
    inbox,   \* deliveries left of each message
    mishaps  \* what went wrong so far; no action reads it

vars == <<doc, actor, inbox, mishaps>>

Actors == Requests \cup Workers

-----------------------------------------------------------------------------
(* Records *)

\* ALLOWED_TRANSITIONS.
Allowed ==
    [DRAFT |-> {"VALIDATING", "QUEUED", "CANCELLED", "FAILED"},
     VALIDATING |-> {"QUEUED", "FAILED", "CANCELLED"},
     QUEUED |-> {"RUNNING", "CANCELLED", "FAILED"},
     RUNNING |-> {"WAITING_RETRY", "NEEDS_REVIEW", "COMPLETED", "FAILED", "CANCELLED"},
     WAITING_RETRY |-> {"QUEUED", "RUNNING", "CANCELLED", "FAILED"},
     NEEDS_REVIEW |-> {"COMPLETED", "CANCELLED", "ARCHIVED"},
     COMPLETED |-> {"ARCHIVED"},
     FAILED |-> {"WAITING_RETRY", "QUEUED", "ARCHIVED", "CANCELLED"},
     CANCELLED |-> {"ARCHIVED"},
     ARCHIVED |-> {}]

Terminal == {"COMPLETED", "FAILED", "CANCELLED", "ARCHIVED"}
DirectCancellable == {"QUEUED", "VALIDATING", "WAITING_RETRY", "DRAFT"}
Retryable == {"FAILED", "WAITING_RETRY"}
Archivable == {"COMPLETED", "FAILED", "CANCELLED", "NEEDS_REVIEW"}

\* NEW is a mission nobody created yet, GONE one that was deleted.
Status == {"NEW", "GONE"} \cup DOMAIN Allowed

\* live: last_heartbeat_at is younger than LEASE_TTL_SECONDS, which is asked
\* of a RUNNING record alone.  cancel is the cancellation_requested flag,
\* decided whether decision and report are there.
Record == [status : Status, live : BOOLEAN, cancel : BOOLEAN,
           attempt : 1 .. MaxAttempts, decided : BOOLEAN]

Blank(s) == [status |-> s, live |-> FALSE, cancel |-> FALSE, attempt |-> 1, decided |-> FALSE]

Moved(r, s) == [r EXCEPT !.status = s, !.live = @ /\ s = "RUNNING"]

Pc == {"IDLE", "DONE", "PUBLISH_NEW", "REQUEUE", "CANCEL", "CANCEL_WRITE", "FLAG_WRITE", "RETRY",
       "RETRY_WRITE", "RETRY_AGAIN", "PUBLISH", "ARCHIVE", "ARCHIVE_WRITE", "DELETE",
       "PROVENANCE", "MARK", "MARK_WRITE", "CHECK", "FINISH", "FINISH_WRITE", "DECIDE",
       "STOP", "STOP_WRITE", "REPORT", "FAIL", "FAIL_WRITE"}

\* Where an actor holds a copy it will act on without reading again.
Holding == {"PUBLISH_NEW", "REQUEUE", "CANCEL_WRITE", "FLAG_WRITE", "RETRY_WRITE",
            "RETRY_AGAIN", "ARCHIVE_WRITE", "DELETE", "PROVENANCE", "MARK_WRITE", "FINISH_WRITE",
            "DECIDE", "STOP_WRITE", "REPORT", "FAIL_WRITE"}

\* old: somebody changed the record since this actor copied it.  mem is what
\* a worker's process wrote last.
Local == [pc : Pc, rec : Record, old : BOOLEAN, mem : Record,
          msg : Messages \cup {None}, stage : 0 .. Stages]

\* What can go wrong: faults, and what comes of writing an old copy back.
Mishaps == {"LOST_UPDATE", "RECREATED", "LEASE_LAPSED", "FAILED_BY_OTHER",
            "EXCEPTION", "OUTAGE", "CRASH"}

Idle == [pc |-> "IDLE", rec |-> Blank("NEW"), old |-> FALSE, mem |-> Blank("NEW"),
         msg |-> None, stage |-> 0]

Done == [Idle EXCEPT !.pc = "DONE"]

TypeOK ==
    /\ doc \in Record
    /\ actor \in [Actors -> Local]
    /\ inbox \in [Messages -> 0 .. MaxDeliveries]
    /\ mishaps \subseteq Mishaps

Init ==
    /\ doc = Blank("NEW")
    /\ actor = [p \in Actors |-> Idle]
    /\ inbox = [m \in Messages |-> 0]
    /\ mishaps = {}

-----------------------------------------------------------------------------
(* Reading and writing the record *)

Present == doc.status \in DOMAIN Allowed

\* Mutant: the graph is not consulted.
LegalAlways(current, target) == {current, target} \subseteq Status

\* validate_transition; staying is legal.
Legal(current, target) == current = target \/ target \in Allowed[current]

Goto(p, pc) == actor' = [actor EXCEPT ![p].pc = pc]

Copy(p, pc, r) ==
    actor' = [actor EXCEPT ![p].pc = pc, ![p].rec = r, ![p].old = FALSE]

\* get_run: what p sees of the record.
Seen(p) == IF ~Present /\ p \in Workers THEN actor[p].mem ELSE doc

\* The first half of apply_transition: read, validate, change the copy.
ReadForTransition(p, target, pc, refused) ==
    IF Seen(p).status \in DOMAIN Allowed /\ Legal(Seen(p).status, target)
    THEN Copy(p, pc, Moved(Seen(p), target))
    ELSE actor' = [actor EXCEPT ![p] = refused]

Differ(r, s) == [r EXCEPT !.live = FALSE] # [s EXCEPT !.live = FALSE]

\* Everybody else's copy is old once the record changed, heartbeat aside.
Outdate(p, r, next) ==
    actor' = [q \in Actors |->
                 IF q = p THEN next
                 ELSE [actor[q] EXCEPT !.old = @ \/ (actor[q].pc \in Holding /\ Differ(r, doc))]]

\* A fault of some kind strikes.
Strikes(kind) == kind \in Faults \ mishaps

Outage == Strikes("OUTAGE") /\ mishaps' = mishaps \cup {"OUTAGE"}

\* What a write of p's copy costs.
Cost(p) == (IF actor[p].old THEN {"LOST_UPDATE"} ELSE {})
           \cup (IF Present THEN {} ELSE {"RECREATED"})

\* update_run: the whole record, created when it is absent.
Save(p, r, next) ==
    /\ doc' = r
    /\ Outdate(p, r, IF p \in Workers THEN [next EXCEPT !.mem = IF next.pc = "IDLE" THEN @ ELSE r]
                     ELSE next)
    /\ mishaps' = mishaps \cup Cost(p)

Go(p, next) == doc' = doc /\ actor' = [actor EXCEPT ![p] = next]

\* update_run of the API's lenient store, which swallows a failure.
SaveOrSwallow(p, r, next) ==
    \/ Save(p, r, next)
    \/ Outage /\ Go(p, [next EXCEPT !.old = actor[p].old /\ next.pc \in Holding])

\* update_run_for_tenant: as update_run, but not of an absent record.
SaveIfPresent(p, r, next) ==
    IF Present THEN SaveOrSwallow(p, r, next) ELSE Go(p, next) /\ UNCHANGED mishaps

-----------------------------------------------------------------------------
(* API handlers *)

Publish(m) ==
    /\ inbox[m] = 0
    /\ \A w \in Workers : actor[w].msg # m
    /\ inbox' = [inbox EXCEPT ![m] = MaxDeliveries]

CreateMission(q) ==
    /\ actor[q].pc = "IDLE" /\ doc.status = "NEW"
    /\ doc' = Blank("QUEUED")
    /\ actor' = [actor EXCEPT ![q] = [Idle EXCEPT !.pc = "PUBLISH_NEW", !.rec = Blank("QUEUED")]]
    /\ UNCHANGED <<inbox, mishaps>>

PublishNew(q) ==
    /\ actor[q].pc = "PUBLISH_NEW"
    /\ \E m \in Messages : Publish(m)
    /\ actor' = [actor EXCEPT ![q] = Done]
    /\ UNCHANGED <<doc, mishaps>>

\* The publish times out, whether or not the message got through.
PublishNewFails(q) ==
    /\ actor[q].pc = "PUBLISH_NEW"
    /\ Outage
    /\ UNCHANGED inbox \/ \E m \in Messages : Publish(m)
    /\ Go(q, [actor[q] EXCEPT !.pc = "REQUEUE"])

\* The handler then writes its own record back as QUEUED, whatever a worker
\* made of it meanwhile; the outage may swallow that write too.
RequeueWrite(q) ==
    /\ actor[q].pc = "REQUEUE"
    /\ Save(q, actor[q].rec, Done) \/ (Go(q, Done) /\ UNCHANGED mishaps)
    /\ UNCHANGED inbox

\* A mission that is running is only flagged, any earlier one is cancelled.
RequestCancel(q) ==
    /\ actor[q].pc = "IDLE"
    /\ \/ doc.status \in DirectCancellable /\ Goto(q, "CANCEL")
       \/ doc.status = "RUNNING" /\ Copy(q, "FLAG_WRITE", [doc EXCEPT !.cancel = TRUE])
    /\ UNCHANGED <<doc, inbox, mishaps>>

CancelRead(q) ==
    /\ actor[q].pc = "CANCEL"
    /\ ReadForTransition(q, "CANCELLED", "CANCEL_WRITE", Done)
    /\ UNCHANGED <<doc, inbox, mishaps>>

FlagWrite(q) ==
    /\ actor[q].pc = "FLAG_WRITE"
    /\ SaveIfPresent(q, actor[q].rec, Done)
    /\ UNCHANGED inbox

\* Mutant: the attempts of a mission are not counted.
RetryAnything(q) ==
    /\ actor[q].pc = "IDLE"
    /\ doc.status \in Retryable
    /\ Copy(q, "RETRY", doc)
    /\ UNCHANGED <<doc, inbox, mishaps>>

RequestRetry(q) ==
    /\ actor[q].pc = "IDLE"
    /\ doc.status \in Retryable /\ doc.attempt < MaxAttempts
    /\ Copy(q, "RETRY", doc)
    /\ UNCHANGED <<doc, inbox, mishaps>>

\* expected_current_status: refused if the status is not the one observed.
RetryRead(q) ==
    /\ actor[q].pc = "RETRY"
    /\ IF doc.status = actor[q].rec.status
       THEN Copy(q, "RETRY_WRITE",
                 [doc EXCEPT !.status = "QUEUED", !.attempt = actor[q].rec.attempt + 1])
       ELSE actor' = [actor EXCEPT ![q] = Done]
    /\ UNCHANGED <<doc, inbox, mishaps>>

RetryWrite(q) ==
    /\ actor[q].pc = "RETRY_WRITE"
    /\ SaveOrSwallow(q, actor[q].rec,
                     [Idle EXCEPT !.pc = "RETRY_AGAIN", !.rec = [actor[q].rec EXCEPT !.cancel = FALSE]])
    /\ UNCHANGED inbox

\* Mutant: the retry is recorded, its job never published.
RetryUnpublished(q) ==
    /\ actor[q].pc = "RETRY_AGAIN"
    /\ SaveIfPresent(q, actor[q].rec, Done)
    /\ UNCHANGED inbox

\* The second write, which also clears the flag of the attempt before.
RetryAgain(q) ==
    /\ actor[q].pc = "RETRY_AGAIN"
    /\ SaveIfPresent(q, actor[q].rec, [Idle EXCEPT !.pc = "PUBLISH"])
    /\ UNCHANGED inbox

PublishRetry(q) ==
    /\ actor[q].pc = "PUBLISH"
    /\ \E m \in Messages : Publish(m)
    /\ actor' = [actor EXCEPT ![q] = Done]
    /\ UNCHANGED <<doc, mishaps>>

PublishRetryFails(q) ==
    /\ actor[q].pc = "PUBLISH"
    /\ Outage
    /\ UNCHANGED inbox \/ \E m \in Messages : Publish(m)
    /\ Go(q, Done)

RequestArchive(q) ==
    /\ actor[q].pc = "IDLE"
    /\ doc.status \in Archivable
    /\ Goto(q, "ARCHIVE")
    /\ UNCHANGED <<doc, inbox, mishaps>>

ArchiveRead(q) ==
    /\ actor[q].pc = "ARCHIVE"
    /\ ReadForTransition(q, "ARCHIVED", "ARCHIVE_WRITE", Done)
    /\ UNCHANGED <<doc, inbox, mishaps>>

\* The second half of apply_transition in the cancel and archive handlers.
TransitionWrite(q) ==
    /\ actor[q].pc \in {"CANCEL_WRITE", "ARCHIVE_WRITE"}
    /\ SaveOrSwallow(q, actor[q].rec, Done)
    /\ UNCHANGED inbox

\* is_deletable.
Deletable == doc.status \in {"DRAFT", "CANCELLED"} \/ (doc.status = "FAILED" /\ Disposable)

RequestDelete(q) ==
    /\ actor[q].pc = "IDLE"
    /\ Deletable
    /\ Copy(q, "DELETE", doc)
    /\ UNCHANGED <<doc, inbox, mishaps>>

\* The transaction checks the owner, not the status, again.
DeleteMission(q) ==
    /\ actor[q].pc = "DELETE"
    /\ SaveIfPresent(q, Blank("GONE"), Done)
    /\ UNCHANGED inbox

-----------------------------------------------------------------------------
(* Workers *)

\* Mutant: a heartbeat does not protect the lease.
LeasableWhileRunning == Present /\ doc.status \notin Terminal

\* acquire_lease grants the lease of a mission that is neither over nor RUNNING
\* under a fresh heartbeat.
Leasable ==
    /\ Present /\ doc.status \notin Terminal
    /\ ~doc.live

Ack(w) ==
    /\ actor' = [actor EXCEPT ![w] = Idle]
    /\ inbox' = [inbox EXCEPT ![actor[w].msg] = 0]

Acquire(w, m) ==
    LET leased == [doc EXCEPT !.status = "RUNNING", !.live = TRUE]
    IN /\ actor[w].pc = "IDLE" /\ inbox[m] > 0
       /\ Leasable
       /\ Save(w, leased, [Idle EXCEPT !.pc = "PROVENANCE", !.rec = leased, !.msg = m])
       /\ inbox' = [inbox EXCEPT ![m] = @ - 1]

\* ALREADY_TERMINAL and ALREADY_LEASED: acknowledged, never delivered again.
Duplicate(m) ==
    /\ inbox[m] > 0
    /\ Present /\ ~Leasable
    /\ inbox' = [inbox EXCEPT ![m] = 0]
    /\ UNCHANGED <<doc, actor, mishaps>>

\* NOT_FOUND, or a store that cannot be reached: not acknowledged.
Refuse(m) ==
    /\ inbox[m] > 0
    /\ (~Present /\ UNCHANGED mishaps) \/ (Present /\ Outage)
    /\ inbox' = [inbox EXCEPT ![m] = @ - 1]
    /\ UNCHANGED <<doc, actor>>

\* The provenance write after the lease, whose failure is ignored.
Provenance(w) ==
    /\ actor[w].pc = "PROVENANCE"
    /\ SaveOrSwallow(w, actor[w].rec, [Idle EXCEPT !.pc = "MARK", !.msg = actor[w].msg,
                                                   !.mem = actor[w].mem])
    /\ UNCHANGED inbox

\* A stage is entered by copying the record and writing it back: stage 0 is
\* save_run(get_run(...)), the later ones _mark_stage.
MarkRead(w) ==
    /\ actor[w].pc = "MARK"
    /\ Copy(w, "MARK_WRITE", Seen(w))
    /\ UNCHANGED <<doc, inbox, mishaps>>

\* After a stage the run is either over early or asks for cancellation; after
\* the last mark it only has to write its outcome.
AfterMark(stage) ==
    IF stage = 0 THEN {"MARK"} ELSE IF stage < Stages THEN {"CHECK", "FINISH"} ELSE {"FINISH"}

MarkWrite(w) ==
    /\ actor[w].pc = "MARK_WRITE"
    /\ \E pc \in AfterMark(actor[w].stage) :
          Save(w, actor[w].rec,
               [actor[w] EXCEPT !.pc = pc, !.old = FALSE, !.rec = Idle.rec,
                                !.stage = IF @ < Stages THEN @ + 1 ELSE @])
    /\ UNCHANGED inbox

\* _is_cancelled: a flag that cannot be read is not set.
CheckCancelled(w) ==
    /\ actor[w].pc = "CHECK"
    /\ \/ Goto(w, IF Seen(w).cancel THEN "STOP" ELSE "MARK") /\ UNCHANGED mishaps
       \/ Seen(w).cancel /\ Goto(w, "MARK") /\ Outage
    /\ UNCHANGED <<doc, inbox>>

\* The impact scan touches the heartbeat, a write of that field alone.
Heartbeat(w) ==
    /\ actor[w].pc = "CHECK"
    /\ doc.status = "RUNNING" /\ ~doc.live
    /\ doc' = [doc EXCEPT !.live = TRUE]
    /\ UNCHANGED <<actor, inbox, mishaps>>

\* _update_mission_record.
FinishRead(w) ==
    /\ actor[w].pc = "FINISH"
    /\ \E target \in {"COMPLETED", "FAILED"} :
          IF Legal(Seen(w).status, target)
          THEN Copy(w, "FINISH_WRITE", Moved(Seen(w), target)) /\ UNCHANGED inbox
          ELSE Ack(w)
    /\ UNCHANGED <<doc, mishaps>>

\* Mutant: the status is written, the decision is not.
FinishUndecided(w) ==
    /\ actor[w].pc = "FINISH_WRITE"
    /\ Save(w, actor[w].rec, Idle)
    /\ inbox' = [inbox EXCEPT ![actor[w].msg] = 0]

FinishWrite(w) ==
    /\ actor[w].pc = "FINISH_WRITE"
    /\ Save(w, actor[w].rec, [actor[w] EXCEPT !.pc = "DECIDE", !.old = FALSE, !.rec.decided = TRUE])
    /\ UNCHANGED inbox

StopRead(w) ==
    /\ actor[w].pc = "STOP"
    /\ IF Legal(Seen(w).status, "CANCELLED")
       THEN Copy(w, "STOP_WRITE", Moved(Seen(w), "CANCELLED")) /\ UNCHANGED inbox
       ELSE Ack(w)
    /\ UNCHANGED <<doc, mishaps>>

StopWrite(w) ==
    /\ actor[w].pc = "STOP_WRITE"
    /\ Save(w, actor[w].rec, [actor[w] EXCEPT !.pc = "REPORT", !.old = FALSE])
    /\ UNCHANGED inbox

\* The second write of a result, with decision and report or with the report
\* alone, and the acknowledgement.
ReportWrite(w) ==
    /\ actor[w].pc \in {"DECIDE", "REPORT"}
    /\ Save(w, actor[w].rec, Idle)
    /\ inbox' = [inbox EXCEPT ![actor[w].msg] = 0]

Executing(w) == actor[w].pc \in {"PROVENANCE", "MARK", "MARK_WRITE", "CHECK", "FINISH",
                                 "FINISH_WRITE", "STOP", "STOP_WRITE"}

\* Anything raised in the run, by a stage or by the store; a write that raises
\* has reached the process' own copy.
Raise(w) ==
    /\ actor[w].pc \in {"MARK", "MARK_WRITE", "CHECK", "FINISH", "FINISH_WRITE", "DECIDE",
                        "STOP", "STOP_WRITE", "REPORT"}
    /\ Strikes("EXCEPTION")
    /\ actor' = [actor EXCEPT ![w] =
          [Idle EXCEPT !.pc = "FAIL", !.msg = actor[w].msg,
                       !.mem = IF actor[w].pc \in Holding THEN actor[w].rec ELSE actor[w].mem]]
    /\ mishaps' = mishaps \cup {"EXCEPTION"}
    /\ UNCHANGED <<doc, inbox>>

\* _fail_mission; the delivery is answered 503 either way.
FailRead(w) ==
    /\ actor[w].pc = "FAIL"
    /\ \/ ReadForTransition(w, "FAILED", "FAIL_WRITE", Idle) /\ UNCHANGED mishaps
       \/ actor' = [actor EXCEPT ![w] = Idle] /\ Outage
    /\ UNCHANGED <<doc, inbox>>

\* Whoever raised marks the mission, even one that was retried meanwhile.
FailWrite(w) ==
    /\ actor[w].pc = "FAIL_WRITE"
    /\ doc' = actor[w].rec
    /\ Outdate(w, actor[w].rec, Idle)
    /\ mishaps' = mishaps \cup Cost(w) \cup
          (IF \E v \in Workers : Executing(v) THEN {"FAILED_BY_OTHER"} ELSE {})
    /\ UNCHANGED inbox

-----------------------------------------------------------------------------
(* Environment *)

Crash(p) ==
    /\ actor[p].pc \notin {"IDLE", "DONE"}
    /\ Strikes("CRASH")
    /\ actor' = [actor EXCEPT ![p] = IF p \in Workers THEN Idle ELSE Done]
    /\ mishaps' = mishaps \cup {"CRASH"}
    /\ UNCHANGED <<doc, inbox>>

\* LEASE_TTL_SECONDS pass without a heartbeat.
TimePasses ==
    /\ doc.live \/ \E p \in Actors : actor[p].rec.live
    /\ doc' = [doc EXCEPT !.live = FALSE]
    /\ actor' = [p \in Actors |-> [actor[p] EXCEPT !.rec.live = FALSE, !.mem.live = FALSE]]
    /\ mishaps' = IF doc.live THEN mishaps \cup {"LEASE_LAPSED"} ELSE mishaps
    /\ UNCHANGED inbox

-----------------------------------------------------------------------------
Request(q) == \/ CreateMission(q) \/ RequestCancel(q) \/ RequestRetry(q)
              \/ RequestArchive(q) \/ RequestDelete(q)

RequestStep(q) == \/ PublishNew(q) \/ RequeueWrite(q) \/ CancelRead(q) \/ FlagWrite(q)
                  \/ RetryRead(q) \/ RetryWrite(q) \/ RetryAgain(q) \/ PublishRetry(q)
                  \/ ArchiveRead(q) \/ TransitionWrite(q) \/ DeleteMission(q)

RequestFault(q) == PublishNewFails(q) \/ PublishRetryFails(q) \/ Crash(q)

WorkerStep(w) == \/ Provenance(w) \/ MarkRead(w) \/ MarkWrite(w) \/ CheckCancelled(w)
                 \/ FinishRead(w) \/ FinishWrite(w) \/ StopRead(w) \/ StopWrite(w)
                 \/ ReportWrite(w) \/ FailRead(w) \/ FailWrite(w)

Delivery(m) == Duplicate(m) \/ Refuse(m) \/ \E w \in Workers : Acquire(w, m)

Next ==
    \/ \E q \in Requests : Request(q) \/ RequestStep(q) \/ RequestFault(q)
    \/ \E w \in Workers : WorkerStep(w) \/ Heartbeat(w) \/ Raise(w) \/ Crash(w)
    \/ \E m \in Messages : Delivery(m)
    \/ TimePasses

Spec == Init /\ [][Next]_vars

\* Handlers and workers that do not crash go on, and Pub/Sub delivers what is
\* not acknowledged.  No user has to make a request.
Fairness ==
    /\ \A q \in Requests : WF_vars(RequestStep(q))
    /\ \A w \in Workers : WF_vars(WorkerStep(w))
    /\ \A m \in Messages : WF_vars(Delivery(m))
    /\ WF_vars(TimePasses)

FairSpec == Spec /\ Fairness

-----------------------------------------------------------------------------
(* The inductive invariant *)

\* The statuses a mission really takes; nothing in the code sets the others.
Taken == {"QUEUED", "RUNNING", "COMPLETED", "FAILED", "CANCELLED", "ARCHIVED"}

\* The record and every copy of it an actor may write back, or fall back to,
\* has a status a mission takes; before the creation nobody is at work.
StatusesTaken ==
    /\ doc.status \in Taken \cup {"NEW", "GONE"}
    /\ doc.status = "NEW" => \A p \in Actors : actor[p].pc \in {"IDLE", "DONE"}
    /\ \A p \in Actors : actor[p].pc \in Holding => actor[p].rec.status \in Taken
    /\ \A w \in Workers : actor[w].pc # "IDLE" => actor[w].mem.status \in Taken

\* Where an actor writes its copy back with the status it read.
Rewriting == {"FLAG_WRITE", "PROVENANCE", "MARK_WRITE", "DECIDE", "REPORT"}

\* Where a handler writes a copy whose status it changed.
Requested == {"PUBLISH_NEW", "REQUEUE", "CANCEL_WRITE", "RETRY_WRITE", "RETRY_AGAIN",
              "ARCHIVE_WRITE"}

\* A copy nobody overtook has the status of the record, or is one legal
\* change away from it; a delete overtakes every copy a handler holds.
CopiesFit ==
    \A p \in Actors : actor[p].pc \in Holding =>
        /\ actor[p].rec.status = "RUNNING" => actor[p].pc \in Rewriting
        /\ actor[p].pc \in Requested => actor[p].rec.status \in {"QUEUED", "CANCELLED", "ARCHIVED"}
        /\ Present /\ ~actor[p].old =>
              /\ Legal(doc.status, actor[p].rec.status)
              /\ actor[p].pc \in Rewriting => actor[p].rec.status = doc.status
        /\ actor[p].pc = "DELETE" /\ ~actor[p].old => Deletable
        /\ ~Present /\ p \notin Workers => actor[p].old

\* Who is about to retry saw a mission that may be, with an attempt left.
RetriesLeft ==
    \A p \in Actors : actor[p].pc = "RETRY" =>
        actor[p].rec.status \in Retryable /\ actor[p].rec.attempt < MaxAttempts

\* Nothing happened that can put two workers on one mission.
Undisturbed ==
    mishaps \cap {"LEASE_LAPSED", "LOST_UPDATE", "RECREATED", "FAILED_BY_OTHER"} = {}

\* Until then a running mission is leased, copies of it say so, and one worker
\* at most executes it, whose mission nobody can lease.
LeaseHeld ==
    Undisturbed =>
        /\ doc.status = "RUNNING" => doc.live
        /\ \A p \in Actors :
              /\ actor[p].pc \in Rewriting /\ ~actor[p].old /\ Present
              /\ actor[p].rec.status = "RUNNING"
              => actor[p].rec.live
        /\ \A w \in Workers :
              Executing(w) => doc.status \in {"RUNNING", "CANCELLED", "ARCHIVED", "GONE"}
        /\ \A v, w \in Workers : Executing(v) /\ Executing(w) => v = w

LeaseIInv == TypeOK /\ StatusesTaken /\ CopiesFit /\ RetriesLeft /\ LeaseHeld

\* Nothing happened that can cost a mission its decision.
Intact == mishaps \cap {"LOST_UPDATE", "CRASH", "EXCEPTION"} = {}

\* Until then a mission that is completed has its decision or a worker about
\* to write it, as has every up to date copy that says so, or the copy is the
\* one that completes it; and what a worker remembers as completed still is.
DecisionKept ==
    Intact =>
        /\ doc.status = "COMPLETED" => doc.decided \/ \E w \in Workers : actor[w].pc = "DECIDE"
        /\ \A p \in Actors :
              actor[p].pc \in Holding /\ ~actor[p].old /\ actor[p].rec.status = "COMPLETED" =>
                 \/ actor[p].pc = "FINISH_WRITE"
                 \/ actor[p].pc = "DECIDE" /\ actor[p].rec.decided
                 \/ /\ actor[p].pc \in {"FLAG_WRITE", "PROVENANCE", "MARK_WRITE"}
                    /\ Present /\ actor[p].rec.decided = doc.decided
        /\ \A w \in Workers :
              actor[w].pc # "IDLE" /\ actor[w].mem.status = "COMPLETED" =>
                 doc.status \in {"COMPLETED", "ARCHIVED"}

IInv == LeaseIInv /\ DecisionKept

-----------------------------------------------------------------------------
(* Properties *)

\* Somebody acts on a copy of the record that is out of date.
OldCopyUsed == \E p \in Actors : actor[p].old /\ actor'[p] # actor[p]

\* mission_transitions.py is the single source of truth for transitions: of
\* all the handlers and pipeline steps that change a status, a delete included,
\* none leaves the graph except by acting on an outdated copy; and a mission
\* that was deleted comes back only so, or from a worker's own memory.
ChangesAreLegal ==
    [][doc'.status # doc.status =>
          \/ Present /\ doc'.status \in Allowed[doc.status]
          \/ Deletable /\ doc'.status = "GONE"
          \/ doc.status = "NEW" /\ doc'.status = "QUEUED"
          \/ doc.status = "GONE" /\ \E w \in Workers : actor'[w] # actor[w]
          \/ OldCopyUsed]_vars

\* README: duplicate delivery can never double-execute a mission.  True as
\* long as no lease lapsed, no update was lost, no record was deleted under
\* its worker or marked FAILED by another one, redeliveries, retries and crashes notwithstanding.
ExclusiveExecution ==
    \A v, w \in Workers :
        v # w /\ Executing(v) /\ Executing(w) => ~Undisturbed

\* Status and decision are two writes: between them, and if the second one
\* never comes, a COMPLETED mission has no decision; otherwise it has one.
CompletedIsDecided ==
    doc.status = "COMPLETED" =>
        \/ doc.decided
        \/ \E w \in Workers : actor[w].pc = "DECIDE"
        \/ ~Intact

\* A mission that is queued or running is brought to an end, whatever is
\* delivered twice, retried or cancelled, unless a crash, an outage or a lost
\* update got in the way.
MissionConcludes ==
    doc.status \in {"QUEUED", "RUNNING"} ~>
        \/ doc.status \in Terminal \cup {"GONE"}
        \/ mishaps \cap {"LOST_UPDATE", "CRASH", "OUTAGE"} # {}

\* mission_transitions.py: "a terminal state (e.g. CANCELLED) can never be
\* silently overwritten by a late-arriving worker result".
CancelledIsFinal ==
    [][doc.status = "CANCELLED" => doc'.status \in {"CANCELLED", "ARCHIVED", "GONE"}]_vars

\* DECISIONS.md: "if the worker dies, Pub/Sub redelivers and the same job
\* resumes": one crash alone, with deliveries left, does not keep a mission
\* from its end.
CrashedMissionResumes ==
    (/\ doc.status = "RUNNING" /\ mishaps = {"CRASH"}
     /\ \E m \in Messages : inbox[m] > 0) ~>
        (doc.status \in Terminal \cup {"GONE"} \/ ~(mishaps \subseteq {"CRASH", "LEASE_LAPSED"}))
=============================================================================
