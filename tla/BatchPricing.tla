----------------------------- MODULE BatchPricing -----------------------------
(***************************************************************************)
(* The remote half of one batch (BatchProcessor._remote, the CircuitBreaker*)
(* and AsyncPacer of impact/resilience.py, the attempt loop of             *)
(* connectors/client.py).  Every chunk of rows is an asyncio task of one   *)
(* event loop, so a step runs from one await to the next; gather starts    *)
(* the tasks in order, all of them before any of them resumes.  The        *)
(* monotonic clock shows in what it decides: whether the last poll of the  *)
(* cancel flag is recent, the cooldown is over and the budget is spent.    *)
(***************************************************************************)
EXTENDS Naturals, Sequences, FiniteSets, ConnectorClient

CONSTANTS
    Chunks,       \* number of chunks; task 1 is started first
    Permits,      \* request_concurrency_per_batch
    Attempts,     \* max_retry_attempts
    Threshold,    \* breaker_threshold
    Batched       \* does the connector take quote-batch-v1 requests?

ASSUME PricingAssumption ==
    /\ Chunks \in Nat \ {0}
    /\ Permits \in Nat \ {0}
    /\ Attempts \in Nat \ {0}
    /\ Threshold \in Nat \ {0, 1}
    /\ Batched \in BOOLEAN

VARIABLES
    task,       \* the local state of every chunk's task
    queue,      \* tasks waiting for the semaphore, first in first out
    breaker,    \* the batch's circuit breaker
    poll,       \* cancel_state: is the last poll recent, what did it say?
    cancelled,  \* the job's cancel_requested
    late        \* is the batch's target budget spent?

pricingVars == <<task, queue, breaker, poll, cancelled, late>>

Tasks == 1 .. Chunks

\* What became of a chunk's rows: PRICED, AGAIN in the next attempt of the
\* batch, or FAILED for good.
Kinds == {"PRICED", "AGAIN", "FAILED"}

\* open is opened_at: NO, YES, or COOLED once the cooldown has elapsed.
\* tripped is permanent_code, opened whether times_opened is not zero.
Breaker == [fails : Nat, open : {"NO", "YES", "COOLED"},
            tripped : BOOLEAN, opened : BOOLEAN]

PricingTypes ==
    /\ task \in [Tasks -> [pc : {"NEW", "POLL", "QUEUED", "SEND", "CALL", "BACKOFF", "DONE"},
                           attempt : 0 .. Attempts, rows : SUBSET Kinds]]
    /\ queue \in Seq(Tasks)
    /\ breaker \in Breaker
    /\ poll \in [fresh : BOOLEAN, cancelled : BOOLEAN]
    /\ cancelled \in BOOLEAN
    /\ late \in BOOLEAN

PricingInit ==
    /\ task = [t \in Tasks |-> [pc |-> "NEW", attempt |-> 0, rows |-> {}]]
    /\ queue = <<>>
    /\ breaker = [fails |-> 0, open |-> "NO", tripped |-> FALSE, opened |-> FALSE]
    /\ poll = [fresh |-> FALSE, cancelled |-> FALSE]
    /\ cancelled = FALSE
    /\ late = FALSE

-----------------------------------------------------------------------------
(* The circuit breaker *)

Allows(b) == ~b.tripped /\ b.open # "YES"

\* allow(): after the cooldown the breaker closes for a trial, one failure
\* short of opening again.
AfterAllow(b) ==
    IF b.open = "COOLED" THEN [b EXCEPT !.open = "NO", !.fails = Threshold - 1] ELSE b

\* Mutant: any success closes the breaker, tripped or not.
AfterSuccessReset(b) == [b EXCEPT !.fails = 0, !.open = "NO", !.tripped = FALSE]

AfterSuccess(b) == [b EXCEPT !.fails = 0, !.open = "NO"]

\* Mutant: the breaker opens one failure late.
AfterFailureLate(b, code) ==
    IF Systemic(code)
    THEN [b EXCEPT !.tripped = TRUE, !.opened = TRUE]
    ELSE IF b.fails >= Threshold /\ b.open = "NO"
         THEN [b EXCEPT !.fails = @ + 1, !.open = "YES", !.opened = TRUE]
         ELSE [b EXCEPT !.fails = @ + 1]

AfterFailure(b, code) ==
    IF Systemic(code)
    THEN [b EXCEPT !.tripped = TRUE, !.opened = TRUE]
    ELSE IF b.fails + 1 >= Threshold /\ b.open = "NO"
         THEN [b EXCEPT !.fails = @ + 1, !.open = "YES", !.opened = TRUE]
         ELSE [b EXCEPT !.fails = @ + 1]

-----------------------------------------------------------------------------
(* One task *)

Started == \A t \in Tasks : task[t].pc # "NEW"

Sending == {t \in Tasks : task[t].pc \in {"SEND", "CALL", "BACKOFF"}}

Answered(t, kinds) == [task EXCEPT ![t].pc = "DONE", ![t].rows = kinds]

\* Cancelled, refused by the breaker, or let through to the semaphore.
PassOn(t, saysCancelled) ==
    CASE saysCancelled ->
            /\ task' = Answered(t, {"AGAIN"})
            /\ UNCHANGED <<queue, breaker>>
      [] ~saysCancelled /\ ~Allows(breaker) ->
            /\ task' = Answered(t, {IF breaker.tripped THEN "FAILED" ELSE "AGAIN"})
            /\ UNCHANGED <<queue, breaker>>
      [] OTHER ->
            /\ breaker' = AfterAllow(breaker)
            /\ IF Cardinality(Sending) < Permits
               THEN task' = [task EXCEPT ![t].pc = "SEND"] /\ UNCHANGED queue
               ELSE task' = [task EXCEPT ![t].pc = "QUEUED"] /\ queue' = Append(queue, t)

\* The first step of a task.  checked_at is set before the job is read, so
\* only the first task waits for the store; the others go by what the poll
\* before said.
StartTask(t) ==
    /\ task[t].pc = "NEW"
    /\ \A s \in 1 .. t - 1 : task[s].pc # "NEW"
    /\ IF poll.fresh
       THEN PassOn(t, poll.cancelled) /\ UNCHANGED poll
       ELSE /\ poll' = [poll EXCEPT !.fresh = TRUE]
            /\ task' = [task EXCEPT ![t].pc = "POLL"]
            /\ UNCHANGED <<queue, breaker>>
    /\ UNCHANGED <<cancelled, late>>

\* get_job returns.
PollReturns(t) ==
    /\ Started
    /\ task[t].pc = "POLL"
    /\ poll' = [poll EXCEPT !.cancelled = cancelled]
    /\ PassOn(t, cancelled)
    /\ UNCHANGED <<cancelled, late>>

\* Mutant: the permit is not handed on.
FinishKeepingPermit(t, kinds, b) ==
    /\ breaker' = b
    /\ task' = Answered(t, kinds)
    /\ UNCHANGED queue

\* The task is over and its permit goes to the task that waits longest.
Finish(t, kinds, b) ==
    /\ breaker' = b
    /\ IF queue = <<>>
       THEN task' = Answered(t, kinds) /\ UNCHANGED queue
       ELSE /\ task' = [Answered(t, kinds) EXCEPT ![Head(queue)].pc = "SEND"]
            /\ queue' = Tail(queue)

Fail(t, code) ==
    Finish(t, {IF Transient(code) THEN "AGAIN" ELSE "FAILED"}, AfterFailure(breaker, code))

\* A task that need not wait goes on in the step that started it.
InTurn(t) == Started \/ \A s \in t + 1 .. Chunks : task[s].pc = "NEW"

\* The pacer lets the request go; the checks before the attempt loop.
Send(t) ==
    /\ InTurn(t)
    /\ task[t].pc = "SEND"
    /\ \/ \E code \in PreflightFailures : Fail(t, code)
       \/ late /\ Fail(t, BudgetExceeded)
       \/ /\ ~late
          /\ task' = [task EXCEPT ![t].pc = "CALL", ![t].attempt = 1]
          /\ UNCHANGED <<queue, breaker>>
    /\ UNCHANGED <<poll, cancelled, late>>

\* An attempt fails: the client backs off, or gives up.
AttemptFails(t) ==
    /\ Started
    /\ task[t].pc = "CALL"
    /\ \E code \in AttemptFailures(Batched) :
        IF code \in RetryableCodes /\ task[t].attempt < Attempts
        THEN task' = [task EXCEPT ![t].pc = "BACKOFF"] /\ UNCHANGED <<queue, breaker>>
        ELSE Fail(t, code)
    /\ UNCHANGED <<poll, cancelled, late>>

\* The target answers.  Each item of a batch has its own result; when no
\* item was priced and one is transient the breaker counts a failure.  A
\* quote is a premium or, when the premium cannot be read, a final error.
AttemptAnswers(t) ==
    /\ Started
    /\ task[t].pc = "CALL"
    /\ \E kinds \in (IF Batched THEN SUBSET Kinds \ {{}} ELSE {{"PRICED"}, {"FAILED"}}) :
        Finish(t, kinds,
               IF "AGAIN" \in kinds /\ "PRICED" \notin kinds
               THEN AfterFailure(breaker, "CONNECTOR_ITEM_TRANSIENT")
               ELSE AfterSuccess(breaker))
    /\ UNCHANGED <<poll, cancelled, late>>

\* The backoff is over; the budget is checked before the next attempt.
Retry(t) ==
    /\ Started
    /\ task[t].pc = "BACKOFF"
    /\ IF late
       THEN Fail(t, BudgetExceeded)
       ELSE /\ task' = [task EXCEPT ![t].pc = "CALL", ![t].attempt = @ + 1]
            /\ UNCHANGED <<queue, breaker>>
    /\ UNCHANGED <<poll, cancelled, late>>

\* An exception that is no ConnectorException: get_job fails, or a request
\* cannot be built, sent or read in a way the client does not name.  Nobody
\* in the batch catches it; the task gives its permit back and leaves its
\* rows without a result.
TaskRaises(t) ==
    /\ \/ /\ Started
          /\ task[t].pc = "POLL"
          /\ task' = Answered(t, {})
          /\ UNCHANGED <<queue, breaker>>
       \/ InTurn(t) /\ task[t].pc = "SEND" /\ Finish(t, {}, breaker)
       \/ Started /\ task[t].pc = "CALL" /\ Finish(t, {}, breaker)
    /\ UNCHANGED <<poll, cancelled, late>>

Raised == \E t \in Tasks : task[t].pc = "DONE" /\ task[t].rows = {}

\* gather passes the exception on, asyncio.run cancels the tasks that are
\* left, and the results of those that are over go with the call (the
\* handler then gives the batch back: ReleaseLease of ImpactScan).
Abort ==
    /\ Started
    /\ Raised
    /\ \E t \in Tasks : task[t].pc # "DONE" \/ task[t].rows # {}
    /\ task' = [t \in Tasks |-> [task[t] EXCEPT !.pc = "DONE", !.rows = {}]]
    /\ queue' = <<>>
    /\ UNCHANGED <<breaker, poll, cancelled, late>>

\* The connector is not registered: no task is made, every row fails.
EntryRefused ==
    /\ \A t \in Tasks : task[t].pc = "NEW"
    /\ task' = [t \in Tasks |-> [pc |-> "DONE", attempt |-> 0, rows |-> {"FAILED"}]]
    /\ UNCHANGED <<queue, breaker, poll, cancelled, late>>

-----------------------------------------------------------------------------
(* The clock and the mission *)

\* Time passes for as long as the batch runs.
Running == \E t \in Tasks : task[t].pc # "DONE"

PollGrowsOld ==
    /\ Running /\ poll.fresh
    /\ poll' = [poll EXCEPT !.fresh = FALSE]
    /\ UNCHANGED <<task, queue, breaker, cancelled, late>>

CooldownElapses ==
    /\ Running /\ breaker.open = "YES"
    /\ breaker' = [breaker EXCEPT !.open = "COOLED"]
    /\ UNCHANGED <<task, queue, poll, cancelled, late>>

BudgetRunsOut ==
    /\ Running /\ ~late
    /\ late' = TRUE
    /\ UNCHANGED <<task, queue, breaker, poll, cancelled>>

CancelJob ==
    /\ Running /\ ~cancelled
    /\ cancelled' = TRUE
    /\ UNCHANGED <<task, queue, breaker, poll, late>>

TaskStep(t) ==
    \/ StartTask(t)
    \/ PollReturns(t)
    \/ Send(t)
    \/ AttemptFails(t)
    \/ AttemptAnswers(t)
    \/ Retry(t)

PricingNext ==
    \/ \E t \in Tasks : TaskStep(t) \/ TaskRaises(t)
    \/ Abort
    \/ EntryRefused
    \/ PollGrowsOld
    \/ CooldownElapses
    \/ BudgetRunsOut
    \/ CancelJob

\* The event loop runs what can run, an exception included, and a backoff
\* ends.  The target answers or times out; the store answers, or its client
\* raises.  Nothing is assumed of when a task raises.
PricingFairness == WF_pricingVars(Abort) /\ \A t \in Tasks : WF_pricingVars(TaskStep(t))

PricingSpec == PricingInit /\ [][PricingNext]_pricingVars /\ PricingFairness

-----------------------------------------------------------------------------
(* What the batch relies on *)

\* A permit is never lost and never lent twice: whatever ends a task, the
\* semaphore holds back a task only while all permits are in use, and it
\* holds back exactly the tasks that were let through and not started, each once.
PermitsAccountedFor ==
    /\ Cardinality(Sending) <= Permits
    /\ queue # <<>> => Cardinality(Sending) = Permits
    /\ {queue[i] : i \in DOMAIN queue} = {t \in Tasks : task[t].pc = "QUEUED"}
    /\ \A i, j \in DOMAIN queue : queue[i] = queue[j] => i = j

\* A closed breaker is at least one failure away from opening, also in a
\* trial that stragglers of before the cooldown take part in, and whatever
\* opened or tripped it is reported with the batch.
BreakerCounts ==
    /\ breaker.open = "NO" => breaker.fails < Threshold
    /\ (breaker.open # "NO" \/ breaker.tripped) => breaker.opened

\* Who backs off has an attempt left.
AttemptsLeft == \A t \in Tasks : task[t].pc = "BACKOFF" => task[t].attempt < Attempts

PricingIInv == PricingTypes /\ AttemptsLeft /\ PermitsAccountedFor /\ BreakerCounts

\* After a failure that befalls every row no task is let through any more,
\* however many requests that were sent before still succeed.
TrippedForGood ==
    [][breaker.tripped =>
        /\ breaker'.tripped
        /\ \A t \in Tasks : task[t].pc \in {"NEW", "POLL"} =>
            task'[t].pc \notin {"QUEUED", "SEND"}]_pricingVars

\* "while open, calls fail fast" (impact/resilience.py:50): no request is
\* sent while the breaker is open.
OpenFailsFast ==
    [][\A t \in Tasks :
        (task[t].pc = "SEND" /\ task'[t].pc = "CALL") => Allows(breaker)]_pricingVars

\* Every chunk is answered and the batch can be stored.
AllAnswered == \A t \in Tasks : task[t].pc = "DONE" /\ task[t].rows # {}

\* Every task is over and no result is left to store.
Aborted == \A t \in Tasks : task[t].pc = "DONE" /\ task[t].rows = {}
=============================================================================
