----------------------------- MODULE ImpactScan -----------------------------
(***************************************************************************)
(* The connector-backed portfolio impact scan of backend/app/impact: a job *)
(* is cut into batches of portfolio rows; coordinators publish one message *)
(* per batch, batch handlers lease a batch, price its rows through the     *)
(* connector and write a checkpoint, and a coordinator finalizes the job   *)
(* with one aggregate and one decision.                                    *)
(*                                                                         *)
(* Store transactions are single actions; everything between two of them   *)
(* (a handler pricing rows, a coordinator between get_job, list_batches    *)
(* and finalize_job) can be interleaved with any other actor, can outlive  *)
(* its lease and can be lost in a crash.  Time is abstract: a lease        *)
(* expires, a dispatch stalls and the mission budget runs out at any time. *)
(***************************************************************************)
EXTENDS Naturals, FiniteSets

CONSTANTS
    Coordinators,   \* mission workers that may run the scan, also two at once
    Rows,           \* the rows within the row budget
    Batches,        \* the batch numbers of the job
    BatchRows,      \* the slice of rows of each batch
    Excess,         \* portfolio rows beyond the row budget
    Truths,         \* the possible assignments of a RowTruth to every row
    MaxAttempts,    \* config.max_batch_attempts
    MaxInflight,    \* config.max_inflight_batches
    HaltAfter,      \* HALT_AFTER_PERMANENT_FAILED_BATCHES
    Messages,       \* identities of the messages outstanding for one batch
    MaxDeliveries,  \* how often one message may be delivered
    None            \* no lease owner

\* What a row is, whoever prices it: outside the authoritative source, not
\* calculable locally, or priced equally or differently by the connector.
RowTruth == {"MATCH", "AFFECTED", "OUT_OF_SCOPE", "LOCAL_ERROR"}

ASSUME RowsAssumption ==
    /\ IsFiniteSet(Rows)
    /\ BatchRows \in [Batches -> (SUBSET Rows) \ {{}}]
    /\ UNION {BatchRows[b] : b \in Batches} = Rows
    /\ \A b, c \in Batches : b # c => BatchRows[b] \cap BatchRows[c] = {}

ASSUME BoundsAssumption ==
    /\ Excess \in Nat
    /\ Truths \subseteq [Rows -> RowTruth]
    /\ MaxAttempts \in Nat \ {0}
    /\ MaxInflight \in Nat \ {0}
    /\ HaltAfter \in Nat \ {0}
    /\ MaxDeliveries \in Nat \ {0}
    /\ None \notin Messages

VARIABLES
    truth,     \* rigid: what the rows of this portfolio are
    batch,     \* the batch records of the store
    job,       \* the job record of the store
    inbox,     \* deliveries left of each message of each batch
    handlers,  \* the handlers that acquired a lease and have not finished
    coord,     \* the local state of each coordinator
    cancelled  \* the mission's cancellation flag

vars == <<truth, batch, job, inbox, handlers, coord, cancelled>>

-----------------------------------------------------------------------------
(* Records *)

Result == [matched : Nat, outOfScope : SUBSET Rows, affected : SUBSET Rows,
           permanent : SUBSET Rows, transient : SUBSET Rows]

NoResult == [matched |-> 0, outOfScope |-> {}, affected |-> {},
             permanent |-> {}, transient |-> {}]

BatchState == {"ABSENT", "PENDING", "LEASED", "DONE", "INCOMPLETE"}

BatchRecord == [state : BatchState, attempts : 0 .. MaxAttempts,
                owner : Messages \cup {None}, live : BOOLEAN,
                completed : BOOLEAN, result : Result]

Absent == [state |-> "ABSENT", attempts |-> 0, owner |-> None, live |-> FALSE,
           completed |-> FALSE, result |-> NoResult]

\* A running handler: its lease (batch, attempt, owner) and the batch record
\* it read when it acquired it.
Handler == [batch : Batches, attempt : 1 .. MaxAttempts, owner : Messages,
            completed : BOOLEAN, result : Result]

Decision == {"BLOCK", "CANCELLED", "PASS_ELIGIBLE", "REVIEW_REQUIRED"}

\* The part of ImpactAggregate the decision rests on.  The matched total is
\* kept as its summands, one per batch.
Aggregate == [status : {"NOT_RUN", "COMPLETE", "PARTIAL", "CANCELLED"},
              decision : Decision \cup {"NONE"}, lowerBound : BOOLEAN,
              matched : [Batches -> Nat], affected : SUBSET Rows,
              outOfScope : SUBSET Rows, inconclusive : SUBSET Rows,
              unprocessed : SUBSET Rows]

NoAggregate == [status |-> "NOT_RUN", decision |-> "NONE", lowerBound |-> FALSE,
                matched |-> [b \in Batches |-> 0], affected |-> {},
                outOfScope |-> {}, inconclusive |-> {}, unprocessed |-> {}]

Budget == {"ROW_BUDGET", "MAX_MISSION_SECONDS"}

JobRecord == [status : {"NOT_RUN", "RUNNING", "COMPLETE", "PARTIAL", "CANCELLED"},
              cancel : BOOLEAN, budget : SUBSET Budget, halt : BOOLEAN,
              aggregate : Aggregate]

CoordRecord == [pc : {"IDLE", "POLL", "CLOSE", "READ", "AGGREGATE", "WRITE", "RETURNED"},
                cancel : BOOLEAN, budget : SUBSET Budget, halt : BOOLEAN,
                sent : SUBSET Batches, draft : Aggregate]

IdleCoordinator == [pc |-> "IDLE", cancel |-> FALSE, budget |-> {}, halt |-> FALSE,
                    sent |-> {}, draft |-> NoAggregate]

TypeOK ==
    /\ truth \in Truths
    /\ batch \in [Batches -> BatchRecord]
    /\ job \in JobRecord
    /\ inbox \in [Batches -> [Messages -> 0 .. MaxDeliveries]]
    /\ handlers \in SUBSET Handler
    /\ coord \in [Coordinators -> CoordRecord]
    /\ cancelled \in BOOLEAN

Init ==
    /\ truth \in Truths
    /\ batch = [b \in Batches |-> Absent]
    /\ job = [status |-> "NOT_RUN", cancel |-> FALSE, budget |-> {}, halt |-> FALSE,
              aggregate |-> NoAggregate]
    /\ inbox = [b \in Batches |-> [m \in Messages |-> 0]]
    /\ handlers = {}
    /\ coord = [c \in Coordinators |-> IdleCoordinator]
    /\ cancelled = FALSE

-----------------------------------------------------------------------------
(* Leases and batch handlers *)

Finalized == job.aggregate # NoAggregate

LiveLease(b) == batch[b].state = "LEASED" /\ batch[b].live

\* Mutant: the attempts of a batch are not bounded.
LeasableForever(b) == /\ job.status = "RUNNING" /\ ~job.cancel
                      /\ batch[b].state \notin {"ABSENT", "DONE"} /\ ~LiveLease(b)

\* lease_batch grants the lease: the job is open and _lease_decision says so.
Leasable(b) ==
    /\ job.status = "RUNNING" /\ ~job.cancel
    /\ batch[b].state \notin {"ABSENT", "DONE"}
    /\ ~LiveLease(b)
    /\ batch[b].attempts < MaxAttempts

\* Mutant: any lease will do.   Mutant: only DONE batches are protected.
LeasedBySomeone(h) == batch[h.batch].state = "LEASED"
NotYetDone(h) == batch[h.batch].state # "DONE"

\* complete_batch accepts a write: the batch is leased to the writer's owner.
HoldsLease(h) ==
    /\ batch[h.batch].state = "LEASED"
    /\ batch[h.batch].owner = h.owner

\* A write to a batch moves its updated_at past every coordinator's record of
\* having sent it.
Touch(b) == coord' = [c \in Coordinators |-> [coord[c] EXCEPT !.sent = @ \ {b}]]

\* One delivery of message m of batch b that acquires the lease.
AcquireLease(b, m) ==
    /\ inbox[b][m] > 0
    /\ Leasable(b)
    /\ inbox' = [inbox EXCEPT ![b][m] = @ - 1]
    /\ batch' = [batch EXCEPT ![b].state = "LEASED", ![b].attempts = @ + 1,
                              ![b].owner = m, ![b].live = TRUE]
    /\ handlers' = handlers \cup
           {[batch |-> b, attempt |-> batch[b].attempts + 1, owner |-> m,
             completed |-> batch[b].completed, result |-> batch[b].result]}
    /\ Touch(b)
    /\ UNCHANGED <<truth, job, cancelled>>

\* One delivery that is refused: DUPLICATE, EXHAUSTED or CLOSED, all acknowledged.
RefuseLease(b, m) ==
    /\ inbox[b][m] > 0
    /\ ~Leasable(b)
    /\ inbox' = [inbox EXCEPT ![b][m] = @ - 1]
    /\ UNCHANGED <<truth, batch, job, handlers, coord, cancelled>>

\* Mutant: every attempt prices the whole batch.
WholeBatch(h) == BatchRows[h.batch]

\* The rows a handler prices: all of them on the first pass, then only those
\* whose failure was transient.
ToPrice(h) == IF h.completed THEN h.result.transient ELSE BatchRows[h.batch]

\* What pricing a row may yield.  The connector can fail on any row it is
\* asked to price, for good or for now.
PricedAs(r) ==
    CASE truth[r] = "OUT_OF_SCOPE" -> {"OUT_OF_SCOPE"}
      [] truth[r] = "LOCAL_ERROR" -> {"PERMANENT"}
      [] OTHER -> {truth[r], "PERMANENT", "TRANSIENT"}

Outcomes(h) == {o \in [ToPrice(h) -> {"MATCH", "AFFECTED", "OUT_OF_SCOPE", "PERMANENT", "TRANSIENT"}] :
                  \A r \in ToPrice(h) : o[r] \in PricedAs(r)}

\* What an earlier pass left to build on.
Retained(h) == IF h.completed THEN [h.result EXCEPT !.transient = {}] ELSE NoResult

\* _execute: the retained results plus those of the rows priced now.
Execute(h, o) ==
    LET got(kind) == {r \in ToPrice(h) : o[r] = kind}
        kept == Retained(h)
    IN [matched |-> kept.matched + Cardinality(got("MATCH")),
        outOfScope |-> kept.outOfScope \cup got("OUT_OF_SCOPE"),
        affected |-> kept.affected \cup got("AFFECTED"),
        permanent |-> kept.permanent \cup got("PERMANENT"),
        transient |-> got("TRANSIENT")]

\* The lease ends with a result: INCOMPLETE while a row may still be retried.
WriteResult(h) ==
    /\ HoldsLease(h)
    /\ \E o \in Outcomes(h) :
          LET res == Execute(h, o)
          IN batch' = [batch EXCEPT
                 ![h.batch].state = IF res.transient = {} THEN "DONE" ELSE "INCOMPLETE",
                 ![h.batch].owner = None, ![h.batch].live = FALSE,
                 ![h.batch].completed = TRUE, ![h.batch].result = res]
    /\ handlers' = handlers \ {h}
    /\ Touch(h.batch)
    /\ UNCHANGED <<truth, job, inbox, cancelled>>

\* An exception while executing releases the lease and keeps what was retained.
ReleaseLease(h) ==
    /\ HoldsLease(h)
    /\ batch' = [batch EXCEPT ![h.batch].state = "INCOMPLETE",
                              ![h.batch].owner = None, ![h.batch].live = FALSE]
    /\ handlers' = handlers \ {h}
    /\ Touch(h.batch)
    /\ UNCHANGED <<truth, job, inbox, cancelled>>

\* The handler finishes or fails, its write is refused: LOST_LEASE.
LoseLease(h) ==
    /\ ~HoldsLease(h)
    /\ handlers' = handlers \ {h}
    /\ UNCHANGED <<truth, batch, job, inbox, coord, cancelled>>

\* The handler's process dies; the batch stays leased until the lease expires.
CrashHandler(h) ==
    /\ handlers' = handlers \ {h}
    /\ UNCHANGED <<truth, batch, job, inbox, coord, cancelled>>

LeaseExpires(b) ==
    /\ LiveLease(b)
    /\ batch' = [batch EXCEPT ![b].live = FALSE]
    /\ UNCHANGED <<truth, job, inbox, handlers, coord, cancelled>>

-----------------------------------------------------------------------------
(* Coordinators *)

Created == {b \in Batches : batch[b].state # "ABSENT"}

Settled(b) ==
    \/ batch[b].state = "DONE"
    \/ batch[b].attempts >= MaxAttempts /\ ~LiveLease(b)

AllSettled == \A b \in Created : Settled(b)

\* Mutant: rows that failed for good are forgotten.
StillRetriable(res) == res.transient

Inconclusive(res) == res.permanent \cup res.transient

FailedEntirely(b) ==
    /\ batch[b].state = "DONE" /\ batch[b].completed
    /\ Inconclusive(batch[b].result) # {}
    /\ Cardinality(Inconclusive(batch[b].result)) + Cardinality(batch[b].result.outOfScope)
          >= Cardinality(BatchRows[b])

SystemicFailure ==
    /\ \A b \in Created : batch[b].result.matched = 0 /\ batch[b].result.affected = {}
    /\ Cardinality({b \in Created : FailedEntirely(b)}) >= HaltAfter

\* Mutant: an expired lease still counts as in flight.
LeasedOrSent(c, b) == IF batch[b].state = "LEASED" THEN TRUE
                      ELSE b \in coord[c].sent /\ batch[b].state # "DONE"

\* A message was sent and the batch neither changed nor stalled since.
InFlight(c, b) == IF batch[b].state = "LEASED" THEN batch[b].live
                  ELSE b \in coord[c].sent /\ batch[b].state # "DONE"

\* The mission worker plans the job, or finds it planned, and enters run().
\* The bulk writer that creates the batches may fail for some of them.
Start(c) ==
    /\ coord[c].pc = "IDLE"
    /\ IF Finalized
       THEN /\ coord' = [coord EXCEPT ![c].pc = "RETURNED", ![c].draft = job.aggregate]
            /\ UNCHANGED <<batch, job>>
       ELSE /\ job' = [job EXCEPT !.status = "RUNNING"]
            /\ \E failed \in SUBSET (Batches \ Created) :
                  batch' = [b \in Batches |-> IF b \in Created \cup failed THEN batch[b]
                                              ELSE [batch[b] EXCEPT !.state = "PENDING"]]
            /\ coord' = [coord EXCEPT ![c].pc = "POLL", ![c].halt = job.halt,
                   ![c].budget = job.budget \cup (IF Excess > 0 THEN {"ROW_BUDGET"} ELSE {})]
    /\ UNCHANGED <<truth, inbox, handlers, cancelled>>

\* Leaving the polling loop; the record of what was sent is dropped.
LeaveLoop(c, budget, halt) ==
    coord' = [coord EXCEPT ![c].pc = "CLOSE", ![c].sent = {},
                           ![c].budget = budget, ![c].halt = halt]

PollCancelled(c) ==
    /\ coord[c].pc = "POLL"
    /\ cancelled
    /\ job' = [job EXCEPT !.cancel = TRUE]
    /\ LeaveLoop(c, coord[c].budget, coord[c].halt)
    /\ UNCHANGED <<truth, batch, inbox, handlers, cancelled>>

\* The flag is not re-read once the poll is past it, and an unreadable flag
\* counts as not set: the exits below do not ask for ~cancelled.
PollSettled(c) ==
    /\ coord[c].pc = "POLL"
    /\ AllSettled
    /\ LeaveLoop(c, coord[c].budget, coord[c].halt)
    /\ UNCHANGED <<truth, batch, job, inbox, handlers, cancelled>>

PollHalted(c) ==
    /\ coord[c].pc = "POLL"
    /\ ~AllSettled /\ SystemicFailure
    /\ LeaveLoop(c, coord[c].budget, TRUE)
    /\ UNCHANGED <<truth, batch, job, inbox, handlers, cancelled>>

PollDeadline(c) ==
    /\ coord[c].pc = "POLL"
    /\ ~AllSettled /\ ~SystemicFailure
    /\ LeaveLoop(c, coord[c].budget \cup {"MAX_MISSION_SECONDS"}, coord[c].halt)
    /\ UNCHANGED <<truth, batch, job, inbox, handlers, cancelled>>

\* A message identity nobody uses any more stands for a fresh one.
Fresh(b, m) ==
    /\ inbox[b][m] = 0
    /\ batch[b].owner # m
    /\ \A h \in handlers : h.batch = b => h.owner # m

\* One dispatch of the poll's loop over the batches.  A publish that times out
\* may still reach the topic, but is not recorded as sent.
Dispatch(c, b) ==
    /\ coord[c].pc = "POLL"
    /\ ~AllSettled /\ ~SystemicFailure
    /\ b \in Created /\ ~Settled(b) /\ ~InFlight(c, b)
    /\ Cardinality({d \in Created : InFlight(c, d)}) < MaxInflight
    /\ \E m \in Messages :
          /\ Fresh(b, m)
          /\ inbox' = [inbox EXCEPT ![b][m] = MaxDeliveries]
    /\ \E acknowledged \in BOOLEAN :
          coord' = [coord EXCEPT ![c].sent = IF acknowledged THEN @ \cup {b} ELSE @]
    /\ UNCHANGED <<truth, batch, job, handlers, cancelled>>

\* batch_timeout + 90 s passed since the dispatch, the batch did not change.
DispatchStalls(c, b) ==
    /\ b \in coord[c].sent
    /\ coord' = [coord EXCEPT ![c].sent = @ \ {b}]
    /\ UNCHANGED <<truth, batch, job, inbox, handlers, cancelled>>

\* update_job after the loop: two fields of the job, whatever it is by now.
CloseScan(c) ==
    /\ coord[c].pc = "CLOSE"
    /\ job' = [job EXCEPT !.budget = coord[c].budget, !.halt = coord[c].halt]
    /\ coord' = [coord EXCEPT ![c].pc = "READ"]
    /\ UNCHANGED <<truth, batch, inbox, handlers, cancelled>>

\* Mutant: finalize works on the job run() was called with.
KeepJob(c) ==
    /\ coord[c].pc = "READ"
    /\ coord' = [coord EXCEPT ![c].pc = "AGGREGATE"]
    /\ UNCHANGED <<truth, batch, job, inbox, handlers, cancelled>>

\* finalize reads the job first ...
ReadJob(c) ==
    /\ coord[c].pc = "READ"
    /\ coord' = IF Finalized
                THEN [coord EXCEPT ![c].pc = "RETURNED", ![c].draft = job.aggregate]
                ELSE [coord EXCEPT ![c].pc = "AGGREGATE", ![c].cancel = job.cancel,
                                   ![c].budget = job.budget, ![c].halt = job.halt]
    /\ UNCHANGED <<truth, batch, job, inbox, handlers, cancelled>>

\* Rows of the batches that have a result, by what the result says of them.
Counted == {b \in Batches : batch[b].completed}
AffectedRows == UNION {batch[b].result.affected : b \in Counted}
OutOfScopeRows == UNION {batch[b].result.outOfScope : b \in Counted}
InconclusiveRows == UNION {Inconclusive(batch[b].result) : b \in Counted}
\* Mutant: what is not DONE is unprocessed.
UnfinishedRows == UNION {BatchRows[b] : b \in {d \in Batches : batch[d].state # "DONE"}}

UnprocessedRows == UNION {BatchRows[b] : b \in Batches \ Counted}

\* aggregate_job over the job as read and the batches of the store.
AggregateJob(seen) ==
    LET noReasons == /\ Excess = 0 /\ UnprocessedRows = {} /\ InconclusiveRows = {}
                     /\ seen.budget = {} /\ ~seen.halt
        complete == /\ ~seen.cancel /\ noReasons
                    /\ \A b \in Created : batch[b].state = "DONE"
    IN [status |-> IF seen.cancel THEN "CANCELLED"
                   ELSE IF complete THEN "COMPLETE" ELSE "PARTIAL",
        decision |-> IF AffectedRows # {} THEN "BLOCK"
                     ELSE IF seen.cancel THEN "CANCELLED"
                     ELSE IF complete THEN "PASS_ELIGIBLE" ELSE "REVIEW_REQUIRED",
        lowerBound |-> AffectedRows # {} /\ ~complete,
        matched |-> [b \in Batches |-> IF b \in Counted THEN batch[b].result.matched ELSE 0],
        affected |-> AffectedRows,
        outOfScope |-> OutOfScopeRows,
        inconclusive |-> InconclusiveRows,
        unprocessed |-> UnprocessedRows]

\* ... then lists the batches and aggregates them ...
ListAndAggregate(c) ==
    /\ coord[c].pc = "AGGREGATE"
    /\ coord' = [coord EXCEPT ![c].pc = "WRITE", ![c].draft = AggregateJob(coord[c])]
    /\ UNCHANGED <<truth, batch, job, inbox, handlers, cancelled>>

\* Mutant: the last finalizer wins.
FinalizeAgain(c) ==
    /\ coord[c].pc = "WRITE"
    /\ job' = [job EXCEPT !.status = coord[c].draft.status, !.aggregate = coord[c].draft]
    /\ coord' = [coord EXCEPT ![c].pc = "RETURNED"]
    /\ UNCHANGED <<truth, batch, inbox, handlers, cancelled>>

\* Mutant: the loser of a finalize race reports its own aggregate.
FinalizeApart(c) ==
    /\ coord[c].pc = "WRITE"
    /\ job' = IF Finalized THEN job
              ELSE [job EXCEPT !.status = coord[c].draft.status, !.aggregate = coord[c].draft]
    /\ coord' = [coord EXCEPT ![c].pc = "RETURNED"]
    /\ UNCHANGED <<truth, batch, inbox, handlers, cancelled>>

\* ... then writes, unless another finalizer was first: its aggregate stands.
FinalizeJob(c) ==
    /\ coord[c].pc = "WRITE"
    /\ IF Finalized
       THEN /\ coord' = [coord EXCEPT ![c].pc = "RETURNED", ![c].draft = job.aggregate]
            /\ UNCHANGED job
       ELSE /\ job' = [job EXCEPT !.status = coord[c].draft.status,
                                  !.aggregate = coord[c].draft]
            /\ coord' = [coord EXCEPT ![c].pc = "RETURNED"]
    /\ UNCHANGED <<truth, batch, inbox, handlers, cancelled>>

\* The worker dies, at any point also after run() returned; the redelivered
\* mission starts over on the same job.
CrashCoordinator(c) ==
    /\ coord[c].pc # "IDLE"
    /\ coord' = [coord EXCEPT ![c] = IdleCoordinator]
    /\ UNCHANGED <<truth, batch, job, inbox, handlers, cancelled>>

CancelMission ==
    /\ ~cancelled
    /\ cancelled' = TRUE
    /\ UNCHANGED <<truth, batch, job, inbox, handlers, coord>>

-----------------------------------------------------------------------------
HandlerStep(h) == WriteResult(h) \/ ReleaseLease(h) \/ LoseLease(h) \/ CrashHandler(h)

PollStep(c) == \/ PollCancelled(c) \/ PollSettled(c) \/ PollHalted(c) \/ PollDeadline(c)
               \/ \E b \in Batches : Dispatch(c, b) \/ DispatchStalls(c, b)

FinalizeStep(c) == CloseScan(c) \/ ReadJob(c) \/ ListAndAggregate(c) \/ FinalizeJob(c)

Next ==
    \/ \E b \in Batches, m \in Messages : AcquireLease(b, m) \/ RefuseLease(b, m)
    \/ \E h \in handlers : HandlerStep(h)
    \/ \E b \in Batches : LeaseExpires(b)
    \/ \E c \in Coordinators : Start(c) \/ PollStep(c) \/ FinalizeStep(c) \/ CrashCoordinator(c)
    \/ CancelMission

Spec == Init /\ [][Next]_vars

-----------------------------------------------------------------------------
(* Safety *)

\* The rows a result lists; the others of its batch matched.
Listed(res) == res.outOfScope \cup res.affected \cup res.permanent \cup res.transient

\* A result accounts for every row of its batch exactly once.
AccountsFor(b, res) ==
    /\ Listed(res) \subseteq BatchRows[b]
    /\ res.outOfScope \cap (res.affected \cup res.permanent \cup res.transient) = {}
    /\ res.affected \cap (res.permanent \cup res.transient) = {}
    /\ res.permanent \cap res.transient = {}
    /\ res.matched = Cardinality(BatchRows[b] \ Listed(res))

\* What a result says of a row is what the row is.
TellsTruth(b, res) ==
    \A r \in BatchRows[b] :
        /\ r \in res.affected => truth[r] = "AFFECTED"
        /\ r \in res.outOfScope => truth[r] = "OUT_OF_SCOPE"
        /\ r \notin Listed(res) => truth[r] = "MATCH"

\* Across retries, expired leases and redeliveries, every checkpoint counts
\* each row of its batch exactly once (processor.py: "Retained results from
\* the previous attempt (never recounted)").
CheckpointsCountOnce ==
    \A b \in Batches : batch[b].completed => AccountsFor(b, batch[b].result)

\* A COMPLETE aggregate is exactly what the checkpoints say.
StillComplete(agg) ==
    agg.status = "COMPLETE" =>
        /\ Counted = Batches
        /\ \A b \in Batches : batch[b].state = "DONE"
        /\ agg.affected = AffectedRows
        /\ agg.outOfScope = OutOfScopeRows

\* The finalized aggregate is frozen, yet later writes of late handlers never
\* take back what it reported: its mismatches are still in the checkpoints,
\* and a COMPLETE one is still exactly what the checkpoints say.
AggregateStaysTrue ==
    Finalized => job.aggregate.affected \subseteq AffectedRows /\ StillComplete(job.aggregate)

\* In every batch the counts of an aggregate make up the rows.
AddsUp(agg) ==
    \A b \in Batches :
        LET of(S) == Cardinality(S \cap BatchRows[b])
        IN agg.matched[b] + of(agg.affected) + of(agg.inconclusive) + of(agg.outOfScope)
              + of(agg.unprocessed) = Cardinality(BatchRows[b])

\* The documented total (CONNECTOR_IMPACT.md): successful comparisons +
\* inconclusive + out of scope + unprocessed make up the rows, in every batch
\* of a finalized aggregate.
AggregateAddsUp == Finalized => AddsUp(job.aggregate)

\* The decision is about the portfolio, not about the order things happened
\* in: PASS_ELIGIBLE only if every row of the whole portfolio is equal or out
\* of scope, BLOCK only on a row that truly differs.
SoundAggregate(agg) ==
    /\ agg.decision = "PASS_ELIGIBLE" =>
          Excess = 0 /\ \A r \in Rows : truth[r] \in {"MATCH", "OUT_OF_SCOPE"}
    /\ agg.decision = "BLOCK" => \E r \in Rows : truth[r] = "AFFECTED"

DecisionSound == SoundAggregate(job.aggregate)

\* However many coordinators and restarts took part, everyone who returned
\* from run() reports the one stored aggregate.
OneAnswer ==
    \A c \in Coordinators :
        coord[c].pc = "RETURNED" => Finalized /\ coord[c].draft = job.aggregate

\* A job that was marked cancelled before it was finalized is never finalized
\* as eligible to pass (aggregate.py: "cancelled scan ... never PASS").
CancelledNeverPasses ==
    [][job.cancel /\ ~Finalized => job'.aggregate.decision # "PASS_ELIGIBLE"]_vars

\* finalize_job is first-writer-wins: no step changes a stored aggregate or
\* the status that goes with it.
FinalizedOnce ==
    [][Finalized => job'.aggregate = job.aggregate /\ job'.status = job.status]_vars

\* The rows of a batch whose fate is decided.
Decided(b) == IF batch[b].completed THEN BatchRows[b] \ batch[b].result.transient ELSE {}

\* A row once matched, affected, out of scope or permanently inconclusive is
\* never priced again to another end, and a DONE batch never changes: re-
\* attempts only work on what failed transiently.
DecidedRowsStay ==
    [][\A b \in Batches :
          /\ Decided(b) \subseteq Decided(b)'
          /\ batch[b].result.affected \subseteq batch'[b].result.affected
          /\ batch[b].state = "DONE" => batch'[b] = batch[b]]_vars

\* How far the fencing of store.py carries when messages are redelivered: what
\* was decided of a row, or reported as a mismatch, is taken back only by an
\* older delivery of the very message that holds the lease (worker_endpoint.py
\* names the owner after the message), never by the handler it was granted to.
OnlyStaleTakesBack ==
    [][\A b \in Batches :
          \/ /\ Decided(b) \subseteq Decided(b)'
             /\ batch[b].result.affected \subseteq batch'[b].result.affected
          \/ \E h \in handlers \ handlers' :
                /\ h.batch = b /\ h.owner = batch[b].owner
                /\ h.attempt < batch[b].attempts]_vars

\* Fencing (store.py: "only the current owner may write a batch result, so a
\* stale or redelivered handler can never overwrite ... a result"): a write
\* that ends a lease is made by the handler the current lease was granted to.
FencedWrites ==
    [][\A b \in Batches :
          batch[b].state = "LEASED" /\ batch'[b].state \in {"DONE", "INCOMPLETE"} =>
              \E h \in handlers \ handlers' :
                  h.batch = b /\ h.attempt = batch[b].attempts]_vars

-----------------------------------------------------------------------------
(* The inductive invariant *)

\* Every result in the store, and every result a running handler builds on,
\* counts once and tells the truth.
ResultsSound ==
    /\ \A b \in Batches : batch[b].completed =>
          AccountsFor(b, batch[b].result) /\ TellsTruth(b, batch[b].result)
    /\ \A h \in handlers : h.completed =>
          AccountsFor(h.batch, h.result) /\ TellsTruth(h.batch, h.result)

\* The stored aggregate and the one a finalizer is about to write are sound.
AggregatesSound ==
    /\ SoundAggregate(job.aggregate)
    /\ Finalized => job.aggregate.decision # "NONE"
    /\ \A c \in Coordinators : coord[c].pc = "WRITE" =>
          SoundAggregate(coord[c].draft) /\ coord[c].draft.decision # "NONE"

IInv == TypeOK /\ ResultsSound /\ AggregatesSound /\ OneAnswer

\* Whatever is delivered again: a lease makes an attempt of its own, so an
\* attempt names one handler, and the handler of the current attempt builds on
\* what the store holds.
AttemptFits ==
    /\ \A g, h \in handlers : g.batch = h.batch /\ g.attempt = h.attempt => g = h
    /\ \A h \in handlers :
          /\ h.attempt <= batch[h.batch].attempts
          /\ batch[h.batch].state = "LEASED" /\ h.attempt = batch[h.batch].attempts =>
                h.completed = batch[h.batch].completed /\ h.result = batch[h.batch].result

\* If a message is delivered once, an owner names one handler: whoever holds
\* the lease is the one it was granted to.
OwnerFits ==
    MaxDeliveries = 1 => \A h \in handlers :
        inbox[h.batch][h.owner] = 0 /\ (HoldsLease(h) => h.attempt = batch[h.batch].attempts)

\* With two attempts, no handler of the first is left once there is a result
\* for the second to build on.
FirstIsGone ==
    MaxAttempts <= 2 => \A h \in handlers :
        batch[h.batch].completed =>
            /\ batch[h.batch].attempts = MaxAttempts
            /\ batch[h.batch].state = "LEASED" => h.attempt = batch[h.batch].attempts

LeaseFits == AttemptFits /\ OwnerFits /\ FirstIsGone

\* Where no handler can be late by a result: none is redelivered, none is left.
NoneLate == MaxDeliveries = 1 \/ MaxAttempts <= 2

\* Only a batch that was created, and leased, has a result.
ResultsCreated ==
    \A b \in Batches :
        IF batch[b].completed THEN batch[b].state # "ABSENT" /\ batch[b].attempts >= 1
                              ELSE batch[b].result = NoResult

\* An aggregate adds up, a COMPLETE one is what the checkpoints say, and if no
\* handler can be late the checkpoints still hold its mismatches.
Stands(agg) ==
    /\ AddsUp(agg)
    /\ StillComplete(agg)
    /\ NoneLate => agg.affected \subseteq AffectedRows

\* So does the stored aggregate, and the one about to be written.
AggregatesStand ==
    /\ Finalized => Stands(job.aggregate)
    /\ \A c \in Coordinators : coord[c].pc = "WRITE" => Stands(coord[c].draft)

Alone == \A c, d \in Coordinators : c = d

\* A coordinator that is alone does not miss a cancellation of the job.
CancelSeen ==
    Alone => \A c \in Coordinators :
        /\ coord[c].pc = "AGGREGATE" /\ job.cancel => coord[c].cancel
        /\ coord[c].pc = "WRITE" /\ job.cancel => coord[c].draft.decision # "PASS_ELIGIBLE"

ScanIInv == IInv /\ LeaseFits /\ ResultsCreated /\ AggregatesStand /\ CancelSeen

-----------------------------------------------------------------------------
(* Refinement *)

\* The scan as an implementation of the one-verdict specification.
Verdict == INSTANCE ImpactVerdict WITH
    verdict <- job.aggregate.decision,
    answer <- [c \in Coordinators |->
                  IF coord[c].pc = "RETURNED" THEN coord[c].draft.decision ELSE "NONE"]

\* Batches, retries, redeliveries, crashes and finalize races notwithstanding,
\* the job reaches one justified verdict and every worker is told that one.
ImplementsVerdict == Verdict!Spec

-----------------------------------------------------------------------------
(* Liveness *)

\* What the platform schedules: a published message is delivered, a handler
\* finishes or dies, leases expire, stalled dispatches are re-sent, a dead
\* worker's mission is redelivered and a running worker takes its next step.
\* Nothing makes the mission budget run out or the user cancel.
Fairness ==
    /\ \A b \in Batches :
          /\ \A m \in Messages : WF_vars(AcquireLease(b, m) \/ RefuseLease(b, m))
          /\ WF_vars(LeaseExpires(b))
          /\ WF_vars(\E h \in handlers : h.batch = b /\ HandlerStep(h))
    /\ \A c \in Coordinators :
          /\ WF_vars(Start(c))
          /\ WF_vars(PollCancelled(c) \/ PollSettled(c) \/ PollHalted(c))
          /\ WF_vars(FinalizeStep(c))
          /\ \A b \in Batches : WF_vars(Dispatch(c, b)) /\ WF_vars(DispatchStalls(c, b))

FairSpec == Spec /\ Fairness

\* Attempts are bounded and every lease uses one up, so a scan ends by itself:
\* unless its worker keeps dying, the job is finalized, without a deadline.
ScanEnds ==
    \A c \in Coordinators :
        <>[](coord[c].pc \notin {"IDLE"}) => <>Finalized
=============================================================================
