----------------------- MODULE ImpactCheckpointProofs -----------------------
(***************************************************************************)
(* What a late handler, a late finalizer and a late cancellation can still *)
(* change of an impact scan: proofs about the fencing of checkpoints, the  *)
(* rows that are decided, the finalized aggregate and its totals.          *)
(***************************************************************************)
EXTENDS ImpactScanProofs

-----------------------------------------------------------------------------
(* Batches only grow *)

\* What was decided of the rows of a batch stays; or a stale handler writes.
Keeps(b) == /\ Decided(b) \subseteq Decided(b)'
            /\ batch[b].result.affected \subseteq batch'[b].result.affected

StaleWrites(b) ==
    \E h \in handlers \ handlers' :
        /\ h.batch = b /\ h.owner = batch[b].owner
        /\ h.attempt < batch[b].attempts

\* What a step may do to the record of a batch.
Grows(b) ==
    /\ batch[b].completed => batch'[b].completed
    /\ batch[b].state = "DONE" => batch'[b] = batch[b]
    /\ IF batch'[b].completed THEN batch'[b].state # "ABSENT" /\ batch'[b].attempts >= 1
                              ELSE batch'[b].result = NoResult
    /\ Keeps(b) \/ StaleWrites(b)
    /\ NoneLate => Keeps(b)

\* A record whose result is left alone.
LEMMA ResultStays ==
  ASSUME TypeOK, ResultsCreated, NEW b \in Batches,
         batch'[b].completed = batch[b].completed, batch'[b].result = batch[b].result,
         batch[b].attempts >= 1 => batch'[b].attempts >= 1,
         batch[b].state = "DONE" => batch'[b] = batch[b],
         batch[b].state # "ABSENT" => batch'[b].state # "ABSENT"
  PROVE  Grows(b)
<1>1. Keeps(b)
  BY DEF Keeps, Decided
<1>2. QED
  BY <1>1 DEF ResultsCreated, Grows

\* A handler that builds on the stored result only adds to it.
LEMMA ExecuteGrows ==
  ASSUME NEW h \in Handler, NEW o \in Outcomes(h)
  PROVE  /\ Execute(h, o).transient \subseteq ToPrice(h)
         /\ h.completed => h.result.affected \subseteq Execute(h, o).affected
<1>1. h.completed => Retained(h).affected = h.result.affected
  BY DEF Retained, Handler, Result
<1>2. QED
  BY <1>1 DEF Execute

LEMMA WriteChanges ==
  ASSUME TypeOK, NEW h \in handlers, WriteResult(h)
  PROVE  /\ h \in Handler /\ h.batch \in Batches
         /\ batch[h.batch].state = "LEASED" /\ handlers' = handlers \ {h}
         /\ batch'[h.batch].state \in {"DONE", "INCOMPLETE"} /\ batch'[h.batch].completed
         /\ batch'[h.batch].attempts = batch[h.batch].attempts
         /\ \E o \in Outcomes(h) : batch'[h.batch].result = Execute(h, o)
         /\ \A b \in Batches : b # h.batch => batch'[b] = batch[b]
<1>1. h \in Handler /\ h.batch \in Batches /\ batch[h.batch] \in BatchRecord
  BY DEF TypeOK, Handler
<1>2. PICK o \in Outcomes(h) :
        batch' = [batch EXCEPT
               ![h.batch].state = IF Execute(h, o).transient = {} THEN "DONE" ELSE "INCOMPLETE",
               ![h.batch].owner = None, ![h.batch].live = FALSE,
               ![h.batch].completed = TRUE, ![h.batch].result = Execute(h, o)]
  BY DEF WriteResult
<1> DEFINE b == h.batch
           s == IF Execute(h, o).transient = {} THEN "DONE" ELSE "INCOMPLETE"
           rec == [batch[b] EXCEPT !.state = s, !.owner = None, !.live = FALSE,
                                   !.completed = TRUE, !.result = Execute(h, o)]
<1>3. batch' = [batch EXCEPT ![b] = rec]
  BY <1>1, <1>2 DEF TypeOK
<1>4. /\ rec.state = s /\ rec.completed /\ rec.result = Execute(h, o)
      /\ rec.attempts = batch[b].attempts
  BY <1>1 DEF BatchRecord
<1> HIDE DEF rec
<1>5. batch'[b] = rec /\ \A d \in Batches : d # b => batch'[d] = batch[d]
  BY <1>1, <1>3 DEF TypeOK
<1>6. batch[b].state = "LEASED" /\ handlers' = handlers \ {h}
  BY DEF WriteResult, HoldsLease
<1>7. QED
  BY <1>1, <1>4, <1>5, <1>6

LEMMA WriteGrows ==
  ASSUME TypeOK, ResultsSound, ResultsCreated, LeaseFits, NEW h \in handlers, WriteResult(h)
  PROVE  \A b \in Batches : Grows(b)
<1> SUFFICES ASSUME NEW b \in Batches PROVE Grows(b)
  OBVIOUS
<1>1. CASE b # h.batch
  BY <1>1, WriteChanges, ResultStays
<1>2. CASE b = h.batch
  <2>1. PICK o \in Outcomes(h) : batch'[b].result = Execute(h, o)
    BY <1>2, WriteChanges
  <2>2. /\ h \in Handler /\ batch[b].state = "LEASED" /\ batch'[b].completed
        /\ batch'[b].state \in {"DONE", "INCOMPLETE"}
        /\ batch'[b].attempts = batch[b].attempts /\ handlers' = handlers \ {h}
    BY <1>2, WriteChanges
  <2>3. /\ h.attempt >= 1 /\ h.attempt <= batch[b].attempts
        /\ h.attempt \in Nat /\ batch[b].attempts \in Nat
        /\ batch[b].owner = h.owner
    BY <1>2, <2>2, BoundsAssumption
       DEF LeaseFits, AttemptFits, Handler, WriteResult, HoldsLease, TypeOK, BatchRecord
  <2>4. ASSUME h.attempt = batch[b].attempts
        PROVE  Keeps(b)
    <3>1. h.completed = batch[b].completed /\ h.result = batch[b].result
      BY <1>2, <2>2, <2>4 DEF LeaseFits, AttemptFits
    <3>2. CASE batch[b].completed
      <4>1. ToPrice(h) = batch[b].result.transient
        BY <3>1, <3>2 DEF ToPrice
      <4>2. QED
        BY <2>1, <2>2, <3>1, <3>2, <4>1, ExecuteGrows DEF Keeps, Decided
    <3>3. CASE ~batch[b].completed
      BY <3>3 DEF ResultsCreated, Keeps, Decided, NoResult
    <3>4. QED
      BY <3>2, <3>3
  <2>5. ASSUME h.attempt # batch[b].attempts
        PROVE  StaleWrites(b)
    BY <1>2, <2>2, <2>3, <2>5 DEF StaleWrites
  <2>6. ASSUME NoneLate
        PROVE  Keeps(b)
    <3>1. CASE MaxDeliveries = 1
      BY <1>2, <2>4, <3>1 DEF LeaseFits, OwnerFits, WriteResult
    <3>2. CASE MaxAttempts <= 2 /\ batch[b].completed
      BY <1>2, <2>2, <2>4, <3>2 DEF LeaseFits, FirstIsGone
    <3>3. CASE ~batch[b].completed
      BY <3>3 DEF ResultsCreated, Keeps, Decided, NoResult
    <3>4. QED
      BY <2>6, <3>1, <3>2, <3>3 DEF NoneLate
  <2>7. QED
    BY <2>2, <2>3, <2>4, <2>5, <2>6 DEF Grows
<1>3. QED
  BY <1>1, <1>2

LEMMA BatchesGrow ==
  ASSUME TypeOK, ResultsSound, ResultsCreated, LeaseFits, [Next]_vars
  PROVE  \A b \in Batches : Grows(b)
<1>1. \A b \in Batches : batch[b] \in BatchRecord
  BY DEF TypeOK
<1>2. CASE batch' = batch
  BY <1>2, ResultStays
<1>3. ASSUME NEW b \in Batches, NEW m \in Messages, AcquireLease(b, m)
      PROVE  \A d \in Batches : Grows(d)
  <2>1. batch[b].state \notin {"ABSENT", "DONE"}
    BY <1>3 DEF AcquireLease, Leasable
  <2>2. /\ batch'[b].completed = batch[b].completed /\ batch'[b].result = batch[b].result
        /\ batch'[b].state = "LEASED" /\ batch'[b].attempts >= 1
    BY <1>1, <1>3, BoundsAssumption DEF AcquireLease, TypeOK, BatchRecord
  <2>3. \A d \in Batches : d # b => batch'[d] = batch[d]
    BY <1>3 DEF AcquireLease, TypeOK
  <2>4. QED
    BY <2>1, <2>2, <2>3, ResultStays
<1>4. ASSUME NEW h \in handlers, ReleaseLease(h)
      PROVE  \A d \in Batches : Grows(d)
  <2> DEFINE b == h.batch
  <2>1. b \in Batches /\ batch[b].state = "LEASED"
    BY <1>4 DEF ReleaseLease, HoldsLease, TypeOK, Handler
  <2>2. /\ batch'[b].completed = batch[b].completed /\ batch'[b].result = batch[b].result
        /\ batch'[b].state = "INCOMPLETE" /\ batch'[b].attempts = batch[b].attempts
    BY <1>1, <1>4, <2>1 DEF ReleaseLease, TypeOK, BatchRecord
  <2>3. \A d \in Batches : d # b => batch'[d] = batch[d]
    BY <1>4 DEF ReleaseLease, TypeOK
  <2>4. QED
    BY <2>1, <2>2, <2>3, ResultStays
<1>5. ASSUME NEW b \in Batches, LeaseExpires(b)
      PROVE  \A d \in Batches : Grows(d)
  <2>1. batch[b].state = "LEASED"
    BY <1>5 DEF LeaseExpires, LiveLease
  <2>2. /\ batch'[b].completed = batch[b].completed /\ batch'[b].result = batch[b].result
        /\ batch'[b].state = batch[b].state /\ batch'[b].attempts = batch[b].attempts
    BY <1>1, <1>5 DEF LeaseExpires, TypeOK, BatchRecord
  <2>3. \A d \in Batches : d # b => batch'[d] = batch[d]
    BY <1>5 DEF LeaseExpires, TypeOK
  <2>4. QED
    BY <2>1, <2>2, <2>3, ResultStays
<1>6. ASSUME NEW c \in Coordinators, Start(c)
      PROVE  \A d \in Batches : Grows(d)
  <2>1. CASE Finalized
    BY <1>2, <1>6, <2>1 DEF Start
  <2>2. CASE ~Finalized
    <3>1. PICK failed \in SUBSET (Batches \ Created) :
            batch' = [b \in Batches |-> IF b \in Created \cup failed THEN batch[b]
                                        ELSE [batch[b] EXCEPT !.state = "PENDING"]]
      BY <1>6, <2>2 DEF Start
    <3>2. ASSUME NEW b \in Batches
          PROVE  /\ batch'[b].completed = batch[b].completed
                 /\ batch'[b].result = batch[b].result
                 /\ batch'[b].attempts = batch[b].attempts
                 /\ batch[b].state # "ABSENT" => batch'[b] = batch[b]
      BY <1>1, <3>1 DEF Created, BatchRecord
    <3>3. QED
      BY <3>2, ResultStays
  <2>3. QED
    BY <2>1, <2>2
<1>7. ASSUME NEW h \in handlers, HandlerStep(h)
      PROVE  \A d \in Batches : Grows(d)
  BY <1>2, <1>4, <1>7, WriteGrows DEF HandlerStep, LoseLease, CrashHandler
<1>8. QED
  BY <1>2, <1>3, <1>5, <1>6, <1>7
     DEF Next, vars, RefuseLease, PollStep, PollCancelled, PollSettled, PollHalted, PollDeadline,
         Dispatch, DispatchStalls, FinalizeStep, CloseScan, ReadJob, ListAndAggregate,
         FinalizeJob, CrashCoordinator, CancelMission

-----------------------------------------------------------------------------
(* Attempts, owners and leases *)

\* The handlers there were still fit, if their messages stay spent and they
\* find the batch as it was: leased to whom it was, with the attempts and the
\* result it had.
LEMMA FitsKept ==
  ASSUME LeaseFits, handlers' \subseteq handlers,
         \A h \in handlers' :
            /\ inbox[h.batch][h.owner] = 0 => inbox'[h.batch][h.owner] = 0
            /\ batch'[h.batch].attempts = batch[h.batch].attempts
            /\ batch'[h.batch].completed = batch[h.batch].completed
            /\ batch'[h.batch].state = "LEASED" =>
                  /\ batch[h.batch].state = "LEASED"
                  /\ batch'[h.batch].owner = batch[h.batch].owner
                  /\ batch'[h.batch].result = batch[h.batch].result
  PROVE  LeaseFits'
<1>1. AttemptFits'
  BY DEF LeaseFits, AttemptFits
<1>2. OwnerFits'
  BY DEF LeaseFits, OwnerFits, HoldsLease
<1>3. FirstIsGone'
  BY DEF LeaseFits, FirstIsGone
<1>4. QED
  BY <1>1, <1>2, <1>3 DEF LeaseFits

\* The lease of an attempt of its own.
LEMMA FitsAfterLease ==
  ASSUME TypeOK, LeaseFits, ResultsCreated, NEW b \in Batches, NEW m \in Messages, AcquireLease(b, m)
  PROVE  LeaseFits'
<1> DEFINE n == batch[b].attempts + 1
           new == [batch |-> b, attempt |-> n, owner |-> m,
                   completed |-> batch[b].completed, result |-> batch[b].result]
<1>1. /\ handlers' = handlers \cup {new} /\ inbox' = [inbox EXCEPT ![b][m] = @ - 1]
      /\ inbox[b][m] > 0 /\ batch[b].attempts < MaxAttempts
  BY DEF AcquireLease, Leasable
<1>2. batch[b] \in BatchRecord /\ batch[b].attempts \in Nat
  BY DEF TypeOK, BatchRecord
<1>3. /\ batch'[b].attempts = n /\ batch'[b].owner = m
      /\ batch'[b].completed = batch[b].completed /\ batch'[b].result = batch[b].result
  BY <1>2 DEF AcquireLease, TypeOK, BatchRecord
<1>4. \A d \in Batches : d # b => batch'[d] = batch[d]
  BY DEF AcquireLease, TypeOK
<1>5. \A h \in handlers : /\ h \in Handler /\ h.batch \in Batches /\ h.owner \in Messages
                          /\ h.attempt \in Nat /\ h.attempt >= 1
  BY BoundsAssumption DEF TypeOK, Handler
<1>6. /\ new.batch = b /\ new.attempt = n /\ new.owner = m
      /\ new.completed = batch[b].completed /\ new.result = batch[b].result
  OBVIOUS
<1>7. \A h \in handlers : h.batch = b => h.attempt < n
  BY <1>2, <1>5 DEF LeaseFits, AttemptFits
<1> HIDE DEF new
<1>8. AttemptFits'
  <2>1. \A g, h \in handlers' : g.batch = h.batch /\ g.attempt = h.attempt => g = h
    BY <1>1, <1>2, <1>5, <1>6, <1>7 DEF LeaseFits, AttemptFits
  <2>2. ASSUME NEW h \in handlers'
        PROVE  /\ h.attempt <= batch'[h.batch].attempts
               /\ batch'[h.batch].state = "LEASED" /\ h.attempt = batch'[h.batch].attempts =>
                     h.completed = batch'[h.batch].completed /\ h.result = batch'[h.batch].result
    <3>1. CASE h = new
      BY <1>2, <1>3, <1>6, <3>1
    <3>2. CASE h \in handlers /\ h.batch = b
      BY <1>2, <1>3, <1>5, <1>7, <3>2
    <3>3. CASE h \in handlers /\ h.batch # b
      BY <1>4, <1>5, <3>3 DEF LeaseFits, AttemptFits
    <3>4. QED
      BY <1>1, <3>1, <3>2, <3>3
  <2>3. QED
    BY <2>1, <2>2 DEF AttemptFits
<1>9. OwnerFits'
  <2> SUFFICES ASSUME MaxDeliveries = 1, NEW h \in handlers'
               PROVE  /\ inbox'[h.batch][h.owner] = 0
                      /\ HoldsLease(h)' => h.attempt = batch'[h.batch].attempts
    BY DEF OwnerFits
  <2>1. inbox[b][m] = 1 /\ inbox'[b][m] = 0
    BY <1>1 DEF TypeOK
  <2>2. CASE h = new
    BY <1>3, <1>6, <2>1, <2>2
  <2>3. CASE h \in handlers
    <3>1. inbox[h.batch][h.owner] = 0
      BY <2>3 DEF LeaseFits, OwnerFits
    <3>2. ~(h.batch = b /\ h.owner = m)
      BY <2>1, <3>1
    <3>3. inbox'[h.batch][h.owner] = 0
      BY <1>1, <1>5, <2>3, <3>1, <3>2 DEF TypeOK
    <3>4. HoldsLease(h)' => HoldsLease(h) /\ batch'[h.batch] = batch[h.batch]
      BY <1>3, <1>4, <1>5, <2>3, <3>2 DEF HoldsLease
    <3>5. QED
      BY <2>3, <3>3, <3>4 DEF LeaseFits, OwnerFits
  <2>4. QED
    BY <1>1, <2>2, <2>3
<1>10. FirstIsGone'
  <2> SUFFICES ASSUME MaxAttempts <= 2, NEW h \in handlers', batch'[h.batch].completed
               PROVE  /\ batch'[h.batch].attempts = MaxAttempts
                      /\ batch'[h.batch].state = "LEASED" => h.attempt = batch'[h.batch].attempts
    BY DEF FirstIsGone
  <2>1. CASE h \in handlers /\ h.batch # b
    BY <1>4, <1>5, <2>1 DEF LeaseFits, FirstIsGone
  <2>2. CASE h \in handlers /\ h.batch = b
    BY <1>1, <1>2, <1>3, <2>2, BoundsAssumption DEF LeaseFits, FirstIsGone
  <2>3. CASE h = new
    <3>1. batch[b].completed
      BY <1>3, <1>6, <2>3
    <3>2. batch[b].attempts >= 1
      BY <3>1 DEF ResultsCreated
    <3>3. n = MaxAttempts
      BY <1>1, <1>2, <3>2, BoundsAssumption
    <3>4. QED
      BY <1>3, <1>6, <2>3, <3>3
  <2>4. QED
    BY <1>1, <2>1, <2>2, <2>3
<1>11. QED
  BY <1>8, <1>9, <1>10 DEF LeaseFits

\* The end of a lease, by a result or by a release.
LEMMA FitsAfterEnd ==
  ASSUME TypeOK, LeaseFits, NEW h \in handlers, WriteResult(h) \/ ReleaseLease(h)
  PROVE  LeaseFits'
<1> DEFINE b == h.batch
<1>1. \A g \in handlers : /\ g \in Handler /\ g.batch \in Batches
                          /\ g.attempt \in Nat /\ g.attempt >= 1
  BY BoundsAssumption DEF TypeOK, Handler
<1>2. batch[b] \in BatchRecord /\ batch[b].attempts \in Nat /\ batch[b].attempts <= MaxAttempts
  BY <1>1, BoundsAssumption DEF TypeOK, BatchRecord
<1>3. /\ inbox' = inbox /\ handlers' = handlers \ {h}
      /\ batch'[b].state \in {"DONE", "INCOMPLETE"}
      /\ batch'[b].attempts = batch[b].attempts
      /\ \A d \in Batches : d # b => batch'[d] = batch[d]
  <2>1. CASE WriteResult(h)
    BY <2>1, WriteChanges DEF WriteResult
  <2>2. CASE ReleaseLease(h)
    BY <1>1, <1>2, <2>2 DEF ReleaseLease, TypeOK, BatchRecord
  <2>3. QED
    BY <2>1, <2>2
<1>4. batch'[b].state # "LEASED"
  BY <1>3
<1> HIDE DEF b
<1>5. AttemptFits'
  BY <1>1, <1>3, <1>4 DEF LeaseFits, AttemptFits
<1>6. OwnerFits'
  BY <1>1, <1>3, <1>4 DEF LeaseFits, OwnerFits, HoldsLease
<1>7. FirstIsGone'
  <2> SUFFICES ASSUME MaxAttempts <= 2, NEW g \in handlers', batch'[g.batch].completed
               PROVE  /\ batch'[g.batch].attempts = MaxAttempts
                      /\ batch'[g.batch].state = "LEASED" => g.attempt = batch'[g.batch].attempts
    BY DEF FirstIsGone
  <2>1. CASE g.batch # b
    BY <1>1, <1>3, <2>1 DEF LeaseFits, FirstIsGone
  <2>2. CASE g.batch = b
    <3>1. g \in handlers /\ g # h /\ g.attempt # h.attempt
      BY <1>3, <2>2 DEF LeaseFits, AttemptFits, b
    <3>2. g.attempt <= batch[b].attempts /\ h.attempt <= batch[b].attempts
      BY <2>2, <3>1 DEF LeaseFits, AttemptFits, b
    <3>3. batch[b].attempts >= 2
      BY <1>1, <1>2, <3>1, <3>2
    <3>4. batch[b].attempts = MaxAttempts
      BY <1>2, <3>3, BoundsAssumption
    <3>5. QED
      BY <1>3, <1>4, <2>2, <3>4
  <2>3. QED
    BY <2>1, <2>2
<1>8. QED
  BY <1>5, <1>6, <1>7 DEF LeaseFits

LEMMA FitsStep ==
  ASSUME TypeOK, LeaseFits, ResultsCreated, [Next]_vars
  PROVE  LeaseFits'
<1>1. \A h \in handlers : h \in Handler /\ h.batch \in Batches /\ h.owner \in Messages
  BY DEF TypeOK, Handler
<1>2. \A b \in Batches : batch[b] \in BatchRecord
  BY DEF TypeOK
<1>3. CASE inbox' = inbox /\ batch' = batch /\ handlers' \subseteq handlers
  BY <1>3, FitsKept
<1>4. ASSUME NEW b \in Batches, NEW m \in Messages, RefuseLease(b, m)
      PROVE  LeaseFits'
  <2>1. /\ inbox' = [inbox EXCEPT ![b][m] = @ - 1] /\ inbox[b][m] > 0
        /\ batch' = batch /\ handlers' = handlers
    BY <1>4 DEF RefuseLease
  <2>2. ASSUME NEW h \in handlers, inbox[h.batch][h.owner] = 0
        PROVE  inbox'[h.batch][h.owner] = 0
    BY <1>1, <2>1, <2>2 DEF TypeOK
  <2>3. QED
    BY <2>1, <2>2, FitsKept
<1>5. ASSUME NEW b \in Batches, LeaseExpires(b)
      PROVE  LeaseFits'
  <2>1. /\ inbox' = inbox /\ handlers' = handlers
        /\ batch' = [batch EXCEPT ![b].live = FALSE]
    BY <1>5 DEF LeaseExpires
  <2>2. \A d \in Batches : /\ batch'[d].state = batch[d].state
                           /\ batch'[d].owner = batch[d].owner
                           /\ batch'[d].attempts = batch[d].attempts
                           /\ batch'[d].completed = batch[d].completed
                           /\ batch'[d].result = batch[d].result
    BY <1>2, <2>1 DEF TypeOK, BatchRecord
  <2>3. QED
    BY <1>1, <2>1, <2>2, FitsKept
<1>6. ASSUME NEW c \in Coordinators, Start(c)
      PROVE  LeaseFits'
  <2>1. CASE Finalized
    BY <1>3, <1>6, <2>1 DEF Start
  <2>2. CASE ~Finalized
    <3>1. PICK failed \in SUBSET (Batches \ Created) :
            batch' = [b \in Batches |-> IF b \in Created \cup failed THEN batch[b]
                                        ELSE [batch[b] EXCEPT !.state = "PENDING"]]
      BY <1>6, <2>2 DEF Start
    <3>2. \A b \in Batches : /\ batch'[b].attempts = batch[b].attempts
                             /\ batch'[b].completed = batch[b].completed
                             /\ batch'[b].state = "LEASED" => batch'[b] = batch[b]
      BY <1>2, <3>1 DEF BatchRecord
    <3>3. inbox' = inbox /\ handlers' = handlers
      BY <1>6 DEF Start
    <3>4. QED
      BY <1>1, <3>2, <3>3, FitsKept
  <2>3. QED
    BY <2>1, <2>2
<1>7. ASSUME NEW c \in Coordinators, NEW b \in Batches, Dispatch(c, b)
      PROVE  LeaseFits'
  <2>1. PICK m \in Messages : Fresh(b, m) /\ inbox' = [inbox EXCEPT ![b][m] = MaxDeliveries]
    BY <1>7 DEF Dispatch
  <2>2. batch' = batch /\ handlers' = handlers
    BY <1>7 DEF Dispatch
  <2>3. ASSUME NEW h \in handlers
        PROVE  inbox'[h.batch][h.owner] = inbox[h.batch][h.owner]
    BY <1>1, <2>1 DEF Fresh, TypeOK
  <2>4. QED
    BY <2>2, <2>3, FitsKept
<1>8. QED
  BY <1>3, <1>4, <1>5, <1>6, <1>7, FitsAfterLease, FitsAfterEnd
     DEF Next, vars, HandlerStep, LoseLease, CrashHandler, PollStep, PollCancelled, PollSettled,
         PollHalted, PollDeadline, DispatchStalls, FinalizeStep, CloseScan, ReadJob,
         ListAndAggregate, FinalizeJob, CrashCoordinator, CancelMission

-----------------------------------------------------------------------------
(* The totals of an aggregate *)

LEMMA DisjointUnion ==
  ASSUME NEW b \in Batches, NEW S \in SUBSET BatchRows[b], NEW T \in SUBSET BatchRows[b],
         S \cap T = {}
  PROVE  /\ Cardinality(S \cup T) = Cardinality(S) + Cardinality(T)
         /\ S \cup T \in SUBSET BatchRows[b]
<1>1. /\ IsFiniteSet(S) /\ Cardinality(S) \in Nat
      /\ IsFiniteSet(T) /\ Cardinality(T) \in Nat
  BY SubsetOfBatchRows
<1>2. Cardinality(S \cup T) = Cardinality(S) + Cardinality(T) - Cardinality(S \cap T)
  BY <1>1, FS_Union
<1>3. Cardinality(S \cap T) = 0
  BY FS_EmptySet
<1>4. QED
  BY <1>1, <1>2, <1>3

\* A result that accounts for its batch adds up.
LEMMA ResultAddsUp ==
  ASSUME NEW b \in Batches, NEW res \in Result, AccountsFor(b, res)
  PROVE  res.matched + Cardinality(res.affected) + Cardinality(Inconclusive(res))
            + Cardinality(res.outOfScope) = Cardinality(BatchRows[b])
<1> DEFINE A == res.affected
           I == Inconclusive(res)
           O == res.outOfScope
           M == BatchRows[b] \ Listed(res)
<1>1. /\ A \in SUBSET BatchRows[b] /\ I \in SUBSET BatchRows[b] /\ O \in SUBSET BatchRows[b]
      /\ M \in SUBSET BatchRows[b]
      /\ M \cap A = {} /\ (M \cup A) \cap I = {} /\ ((M \cup A) \cup I) \cap O = {}
      /\ ((M \cup A) \cup I) \cup O = BatchRows[b]
      /\ res.matched = Cardinality(M)
  BY DEF AccountsFor, Listed, Inconclusive
<1> HIDE DEF A, I, O, M
<1>2. /\ Cardinality(M \cup A) = Cardinality(M) + Cardinality(A)
      /\ M \cup A \in SUBSET BatchRows[b]
  BY <1>1, DisjointUnion
<1>3. /\ Cardinality((M \cup A) \cup I) = Cardinality(M \cup A) + Cardinality(I)
      /\ (M \cup A) \cup I \in SUBSET BatchRows[b]
  BY <1>1, <1>2, DisjointUnion
<1>4. Cardinality(((M \cup A) \cup I) \cup O) = Cardinality((M \cup A) \cup I) + Cardinality(O)
  BY <1>1, <1>3, DisjointUnion
<1>5. QED
  BY <1>1, <1>2, <1>3, <1>4 DEF A, I, O

LEMMA AggregateJobAddsUp ==
  ASSUME TypeOK, ResultsSound, NEW seen
  PROVE  AddsUp(AggregateJob(seen))
<1> DEFINE agg == AggregateJob(seen)
<1> SUFFICES ASSUME NEW b \in Batches
             PROVE  agg.matched[b] + Cardinality(agg.affected \cap BatchRows[b])
                      + Cardinality(agg.inconclusive \cap BatchRows[b])
                      + Cardinality(agg.outOfScope \cap BatchRows[b])
                      + Cardinality(agg.unprocessed \cap BatchRows[b])
                    = Cardinality(BatchRows[b])
  BY DEF AddsUp
<1>1. /\ agg.affected = AffectedRows /\ agg.outOfScope = OutOfScopeRows
      /\ agg.inconclusive = InconclusiveRows /\ agg.unprocessed = UnprocessedRows
      /\ agg.matched[b] = IF b \in Counted THEN batch[b].result.matched ELSE 0
  BY DEF AggregateJob
<1> HIDE DEF agg
<1>2. \A d \in Counted : /\ d \in Batches /\ batch[d].result \in Result
                         /\ AccountsFor(d, batch[d].result)
  BY DEF Counted, ResultsSound, TypeOK, BatchRecord
<1>3. Counted \in SUBSET Batches
  BY DEF Counted
<1>4. \A d \in Counted : Listed(batch[d].result) \subseteq BatchRows[d]
  BY <1>2 DEF AccountsFor
<1>5. \A d \in Batches : d # b => BatchRows[d] \cap BatchRows[b] = {}
  BY RowsAssumption
<1>6. \A r \in BatchRows[b] :
         /\ r \in AffectedRows <=> b \in Counted /\ r \in batch[b].result.affected
         /\ r \in OutOfScopeRows <=> b \in Counted /\ r \in batch[b].result.outOfScope
         /\ r \in InconclusiveRows <=> b \in Counted /\ r \in Inconclusive(batch[b].result)
         /\ r \in UnprocessedRows <=> b \notin Counted
  <2> SUFFICES ASSUME NEW r \in BatchRows[b]
               PROVE  /\ r \in AffectedRows <=> b \in Counted /\ r \in batch[b].result.affected
                      /\ r \in OutOfScopeRows <=>
                            b \in Counted /\ r \in batch[b].result.outOfScope
                      /\ r \in InconclusiveRows <=>
                            b \in Counted /\ r \in Inconclusive(batch[b].result)
                      /\ r \in UnprocessedRows <=> b \notin Counted
    OBVIOUS
  <2>1. \A d \in Counted : r \in Listed(batch[d].result) => d = b
    BY <1>3, <1>4, <1>5
  <2>2. r \in AffectedRows <=> b \in Counted /\ r \in batch[b].result.affected
    BY <2>1 DEF AffectedRows, Listed
  <2>3. r \in OutOfScopeRows <=> b \in Counted /\ r \in batch[b].result.outOfScope
    BY <2>1 DEF OutOfScopeRows, Listed
  <2>4. r \in InconclusiveRows <=> b \in Counted /\ r \in Inconclusive(batch[b].result)
    BY <2>1 DEF InconclusiveRows, Inconclusive, Listed
  <2>5. r \in UnprocessedRows <=> b \notin Counted
    BY <1>5 DEF UnprocessedRows
  <2>6. QED
    BY <2>2, <2>3, <2>4, <2>5
<1>7. CASE b \in Counted
  <2> DEFINE res == batch[b].result
  <2>1. res \in Result /\ AccountsFor(b, res)
    BY <1>2, <1>7
  <2>2. /\ res.affected \subseteq BatchRows[b] /\ Inconclusive(res) \subseteq BatchRows[b]
        /\ res.outOfScope \subseteq BatchRows[b]
    BY <2>1 DEF AccountsFor, Listed, Inconclusive
  <2>3. /\ agg.affected \cap BatchRows[b] = res.affected
        /\ agg.inconclusive \cap BatchRows[b] = Inconclusive(res)
        /\ agg.outOfScope \cap BatchRows[b] = res.outOfScope
        /\ agg.unprocessed \cap BatchRows[b] = {}
        /\ agg.matched[b] = res.matched
    BY <1>1, <1>6, <1>7, <2>2
  <2>4. /\ res.matched \in Nat /\ Cardinality(res.affected) \in Nat
        /\ Cardinality(Inconclusive(res)) \in Nat /\ Cardinality(res.outOfScope) \in Nat
    BY <2>1, <2>2, SubsetOfBatchRows DEF Result
  <2>5. res.matched + Cardinality(res.affected) + Cardinality(Inconclusive(res))
            + Cardinality(res.outOfScope) = Cardinality(BatchRows[b])
    BY <2>1, ResultAddsUp
  <2>6. Cardinality({}) = 0
    BY FS_EmptySet
  <2> HIDE DEF res
  <2>7. /\ Cardinality(agg.affected \cap BatchRows[b]) = Cardinality(res.affected)
        /\ Cardinality(agg.inconclusive \cap BatchRows[b]) = Cardinality(Inconclusive(res))
        /\ Cardinality(agg.outOfScope \cap BatchRows[b]) = Cardinality(res.outOfScope)
        /\ Cardinality(agg.unprocessed \cap BatchRows[b]) = 0
    BY <2>3, <2>6, Zenon
  <2>8. QED
    BY <2>3, <2>4, <2>5, <2>7
<1>8. CASE b \notin Counted
  <2>1. /\ agg.affected \cap BatchRows[b] = {} /\ agg.inconclusive \cap BatchRows[b] = {}
        /\ agg.outOfScope \cap BatchRows[b] = {}
        /\ agg.unprocessed \cap BatchRows[b] = BatchRows[b]
        /\ agg.matched[b] = 0
    BY <1>1, <1>6, <1>8
  <2>2. Cardinality({}) = 0 /\ Cardinality(BatchRows[b]) \in Nat
    BY FS_EmptySet, SubsetOfBatchRows
  <2>3. /\ Cardinality(agg.affected \cap BatchRows[b]) = 0
        /\ Cardinality(agg.inconclusive \cap BatchRows[b]) = 0
        /\ Cardinality(agg.outOfScope \cap BatchRows[b]) = 0
        /\ Cardinality(agg.unprocessed \cap BatchRows[b]) = Cardinality(BatchRows[b])
    BY <2>1, <2>2, Zenon
  <2>4. QED
    BY <2>1, <2>2, <2>3
<1>9. QED
  BY <1>7, <1>8

-----------------------------------------------------------------------------
(* What is aggregated stays true *)

\* An aggregate just made stands.
LEMMA AggregateJobStands ==
  ASSUME TypeOK, ResultsSound, ResultsCreated, NEW seen
  PROVE  Stands(AggregateJob(seen))
<1> DEFINE agg == AggregateJob(seen)
<1>1. agg.affected = AffectedRows /\ agg.outOfScope = OutOfScopeRows
  BY DEF AggregateJob
<1>2. ASSUME agg.status = "COMPLETE"
      PROVE  Counted = Batches /\ \A b \in Batches : batch[b].state = "DONE"
  <2>1. UnprocessedRows = {} /\ \A b \in Created : batch[b].state = "DONE"
    BY <1>2 DEF AggregateJob
  <2>2. \A b \in Batches : BatchRows[b] # {}
    BY RowsAssumption
  <2>3. Counted = Batches
    BY <2>1, <2>2 DEF UnprocessedRows, Counted
  <2>4. \A b \in Batches : b \in Created
    BY <2>3 DEF Counted, Created, ResultsCreated
  <2>5. QED
    BY <2>1, <2>3, <2>4
<1>3. StillComplete(agg)
  BY <1>1, <1>2 DEF StillComplete
<1>4. AddsUp(agg)
  BY AggregateJobAddsUp
<1>5. QED
  BY <1>1, <1>3, <1>4 DEF Stands

\* An aggregate that stands after the step.
StandsAfter(agg) ==
    /\ AddsUp(agg)
    /\ agg.status = "COMPLETE" =>
          /\ Counted' = Batches
          /\ \A b \in Batches : batch'[b].state = "DONE"
          /\ agg.affected = AffectedRows'
          /\ agg.outOfScope = OutOfScopeRows'
    /\ NoneLate => agg.affected \subseteq AffectedRows'

\* Growing batches make no aggregate untrue.
LEMMA StandsKept ==
  ASSUME TypeOK, TypeOK', \A b \in Batches : Grows(b), NEW agg, Stands(agg)
  PROVE  StandsAfter(agg)
<1>1. ASSUME agg.status = "COMPLETE"
      PROVE  /\ Counted' = Batches
             /\ \A b \in Batches : batch'[b].state = "DONE"
             /\ agg.affected = AffectedRows'
             /\ agg.outOfScope = OutOfScopeRows'
  <2>1. /\ Counted = Batches /\ \A b \in Batches : batch[b].state = "DONE"
        /\ agg.affected = AffectedRows /\ agg.outOfScope = OutOfScopeRows
    BY <1>1 DEF Stands, StillComplete
  <2>2. \A b \in Batches : batch'[b] = batch[b]
    BY <2>1 DEF Grows
  <2>3. batch' = batch
    BY <2>2 DEF TypeOK
  <2>4. QED
    BY <2>1, <2>3 DEF Counted, AffectedRows, OutOfScopeRows
<1>2. ASSUME NoneLate
      PROVE  agg.affected \subseteq AffectedRows'
  <2>1. AffectedRows \subseteq AffectedRows'
    BY <1>2 DEF AffectedRows, Counted, Grows, Keeps
  <2>2. QED
    BY <1>2, <2>1 DEF Stands
<1>3. AddsUp(agg)
  BY DEF Stands
<1>4. QED
  BY <1>1, <1>2, <1>3 DEF StandsAfter

LEMMA StandStep ==
  ASSUME IInv, TypeOK', LeaseFits, ResultsCreated, AggregatesStand, [Next]_vars
  PROVE  AggregatesStand'
<1>1. \A b \in Batches : Grows(b)
  BY BatchesGrow DEF IInv
<1>2. TypeOK
  BY DEF IInv
<1>3. \A agg : Stands(agg) => StandsAfter(agg)
  BY <1>1, <1>2, StandsKept
<1>4. /\ StandsAfter(job'.aggregate) => Stands(job.aggregate)'
      /\ \A c \in Coordinators : StandsAfter(coord'[c].draft) => Stands(coord[c].draft)'
  BY DEF StandsAfter, Stands, StillComplete, AddsUp
<1>5. SUFFICES /\ Finalized' => StandsAfter(job'.aggregate)
               /\ \A c \in Coordinators :
                     coord'[c].pc = "WRITE" => StandsAfter(coord'[c].draft)
  BY <1>4 DEF AggregatesStand
<1>6. /\ Finalized => StandsAfter(job.aggregate)
      /\ \A c \in Coordinators : coord[c].pc = "WRITE" => StandsAfter(coord[c].draft)
  BY <1>3 DEF AggregatesStand
<1>7. CASE job' = job /\ \A c \in Coordinators : CoordKept(c)
  BY <1>6, <1>7 DEF CoordKept, Finalized
<1>8. ASSUME NEW c \in Coordinators,
             Start(c) \/ PollStep(c) \/ FinalizeStep(c) \/ CrashCoordinator(c)
      PROVE  /\ Finalized' => StandsAfter(job'.aggregate)
             /\ \A d \in Coordinators :
                   coord'[d].pc = "WRITE" => StandsAfter(coord'[d].draft)
  <2>1. \A d \in Coordinators : d # c => coord'[d] = coord[d]
    BY <1>2, <1>8, OthersKept
  <2>2. CASE Undecided(c)
    BY <1>6, <2>1, <2>2 DEF Undecided, CoordKept, Finalized
  <2>3. CASE Drafts(c)
    <3>1. StandsAfter(AggregateJob(coord[c]))
      BY <1>2, <1>3, AggregateJobStands DEF IInv
    <3>2. QED
      BY <1>6, <2>1, <2>3, <3>1 DEF Drafts, JobKept, Finalized
  <2>4. CASE Decides(c)
    BY <1>6, <2>1, <2>4 DEF Decides, Finalized
  <2>5. CASE Learns(c)
    BY <1>6, <2>1, <2>5 DEF Learns, JobKept, Finalized
  <2>6. CASE Forgets(c)
    BY <1>6, <2>1, <2>6 DEF Forgets, JobKept, Finalized
  <2>7. QED
    BY <1>2, <1>8, <2>2, <2>3, <2>4, <2>5, <2>6, CoordinatorOutcome
<1>9. QED
  BY <1>2, <1>7, <1>8, EnvironmentKeeps DEF Next

-----------------------------------------------------------------------------
(* A coordinator alone sees the cancellation *)

LEMMA CancelKept ==
  ASSUME CancelSeen, job' = job,
         \A c \in Coordinators : /\ coord'[c].pc = coord[c].pc
                                 /\ coord'[c].cancel = coord[c].cancel
                                 /\ coord'[c].draft = coord[c].draft
  PROVE  CancelSeen'
BY DEF CancelSeen

LEMMA CancelStep ==
  ASSUME TypeOK, CancelSeen, [Next]_vars
  PROVE  CancelSeen'
<1>1. job \in JobRecord /\ coord \in [Coordinators -> CoordRecord]
  BY DEF TypeOK
<1>2. CASE \/ \E b \in Batches, m \in Messages : AcquireLease(b, m) \/ RefuseLease(b, m)
           \/ \E h \in handlers : HandlerStep(h)
           \/ \E b \in Batches : LeaseExpires(b)
           \/ CancelMission
           \/ UNCHANGED vars
  <2>1. job' = job
    BY <1>2, EnvironmentKeeps DEF TypeOK
  <2>2. UNCHANGED coord \/ \E b : Touch(b)
    BY <1>2 DEF AcquireLease, RefuseLease, HandlerStep, WriteResult, ReleaseLease, LoseLease,
                CrashHandler, LeaseExpires, CancelMission, vars
  <2>3. \A c \in Coordinators : /\ coord'[c].pc = coord[c].pc
                                /\ coord'[c].cancel = coord[c].cancel
                                /\ coord'[c].draft = coord[c].draft
    BY <1>1, <2>2 DEF Touch, CoordRecord
  <2>4. QED
    BY <2>1, <2>3, CancelKept
<1>3. ASSUME NEW c \in Coordinators, NEW b \in Batches, Dispatch(c, b) \/ DispatchStalls(c, b)
      PROVE  CancelSeen'
  <2>1. job' = job
    BY <1>3 DEF Dispatch, DispatchStalls
  <2>2. \A d \in Coordinators : /\ coord'[d].pc = coord[d].pc
                                /\ coord'[d].cancel = coord[d].cancel
                                /\ coord'[d].draft = coord[d].draft
    BY <1>1, <1>3 DEF Dispatch, DispatchStalls, CoordRecord
  <2>3. QED
    BY <2>1, <2>2, CancelKept
<1>4. ASSUME NEW c \in Coordinators,
             \/ Start(c) \/ CloseScan(c) \/ FinalizeJob(c) \/ CrashCoordinator(c)
             \/ PollCancelled(c) \/ PollSettled(c) \/ PollHalted(c) \/ PollDeadline(c)
      PROVE  CancelSeen'
  <2>1. coord'[c].pc \notin {"AGGREGATE", "WRITE"}
    BY <1>1, <1>4 DEF Start, CloseScan, FinalizeJob, CrashCoordinator, IdleCoordinator,
                      PollCancelled, PollSettled, PollHalted, PollDeadline, LeaveLoop, CoordRecord
  <2>2. Alone => \A d \in Coordinators : d = c
    BY DEF Alone
  <2>3. QED
    BY <2>1, <2>2 DEF CancelSeen
<1>5. ASSUME NEW c \in Coordinators, ReadJob(c) \/ ListAndAggregate(c)
      PROVE  CancelSeen'
  <2>1. job' = job
    BY <1>5 DEF ReadJob, ListAndAggregate
  <2>2. CASE ReadJob(c)
    BY <1>1, <2>1, <2>2 DEF ReadJob, CancelSeen, Alone, CoordRecord
  <2>3. CASE ListAndAggregate(c)
    <3>1. coord'[c].pc = "WRITE" /\ coord'[c].draft = AggregateJob(coord[c])
      BY <1>1, <2>3 DEF ListAndAggregate, CoordRecord
    <3>2. coord[c].cancel => AggregateJob(coord[c]).decision # "PASS_ELIGIBLE"
      BY DEF AggregateJob
    <3>3. coord[c].pc = "AGGREGATE"
      BY <2>3 DEF ListAndAggregate
    <3>4. QED
      BY <2>1, <3>1, <3>2, <3>3 DEF CancelSeen, Alone
  <2>4. QED
    BY <1>5, <2>2, <2>3
<1>6. QED
  BY <1>2, <1>3, <1>4, <1>5 DEF Next, PollStep, FinalizeStep

-----------------------------------------------------------------------------
(* Theorems *)

LEMMA ScanStep == ScanIInv /\ [Next]_vars => ScanIInv'
<1> SUFFICES ASSUME ScanIInv, [Next]_vars PROVE ScanIInv'
  OBVIOUS
<1>1. IInv'
  BY TypeStep, ResultsStep, OutcomeStep DEF ScanIInv, IInv
<1>2. /\ IInv /\ TypeOK /\ ResultsSound /\ ResultsCreated /\ LeaseFits
      /\ AggregatesStand /\ CancelSeen /\ TypeOK'
  BY <1>1 DEF ScanIInv, IInv
<1>3. LeaseFits' /\ AggregatesStand' /\ CancelSeen'
  BY <1>2, FitsStep, StandStep, CancelStep
<1>4. ResultsCreated'
  BY <1>2, BatchesGrow DEF ResultsCreated, Grows
<1>5. QED
  BY <1>1, <1>3, <1>4 DEF ScanIInv

\* Beside soundness, the scan keeps the totals of its aggregates, the truth of
\* the COMPLETE ones, and every attempt at a batch apart from the others.
THEOREM ScanInvariant == Spec => []ScanIInv
<1>1. Init => ScanIInv
  <2> SUFFICES ASSUME Init PROVE ScanIInv
    OBVIOUS
  <2>1. LeaseFits /\ ResultsCreated
    BY DEF Init, LeaseFits, AttemptFits, OwnerFits, FirstIsGone, ResultsCreated, Absent
  <2>2. ~Finalized /\ \A c \in Coordinators : coord[c].pc = "IDLE"
    BY DEF Init, Finalized, IdleCoordinator
  <2>3. AggregatesStand /\ CancelSeen
    BY <2>2 DEF AggregatesStand, CancelSeen
  <2>4. QED
    BY <2>1, <2>3, InitIInv DEF ScanIInv
<1>2. QED
  BY <1>1, ScanStep, PTL DEF Spec

\* In every batch, comparisons, inconclusive, out of scope and unprocessed rows
\* of a finalized aggregate make up the rows, however the scan was torn.
THEOREM TotalsAddUp == Spec => []AggregateAddsUp
<1>1. ScanIInv => AggregateAddsUp
  BY DEF ScanIInv, AggregatesStand, Stands, AggregateAddsUp
<1>2. QED
  BY <1>1, ScanInvariant, PTL

\* Nothing a late handler writes, redelivered or not, changes what a COMPLETE
\* aggregate was made of.
THEOREM CompleteIsFinal == Spec => [](Finalized => StillComplete(job.aggregate))
<1>1. ScanIInv => (Finalized => StillComplete(job.aggregate))
  BY DEF ScanIInv, AggregatesStand, Stands
<1>2. QED
  BY <1>1, ScanInvariant, PTL

\* As long as no message is delivered twice, or a batch has two attempts at
\* most, neither does it take back a mismatch an aggregate reported.
THEOREM AggregatesStayTrue ==
  ASSUME NoneLate
  PROVE  Spec => []AggregateStaysTrue
<1>1. ScanIInv => AggregateStaysTrue
  BY DEF ScanIInv, AggregatesStand, Stands, AggregateStaysTrue
<1>2. QED
  BY <1>1, ScanInvariant, PTL

\* A lease is ended by the handler it was granted to, if its message is not
\* delivered again or the batch not leased again.
LEMMA FencedStep ==
  ASSUME ScanIInv, MaxDeliveries = 1 \/ MaxAttempts = 1, [Next]_vars, NEW b \in Batches,
         batch[b].state = "LEASED", batch'[b].state \in {"DONE", "INCOMPLETE"}
  PROVE  \E h \in handlers \ handlers' : h.batch = b /\ h.attempt = batch[b].attempts
<1>1. \A d \in Batches : batch[d] \in BatchRecord
  BY DEF ScanIInv, IInv, TypeOK
<1>2. ASSUME NEW h \in handlers, WriteResult(h) \/ ReleaseLease(h)
      PROVE  \E g \in handlers \ handlers' : g.batch = b /\ g.attempt = batch[b].attempts
  <2>1. HoldsLease(h) /\ handlers' = handlers \ {h}
    BY <1>2 DEF WriteResult, ReleaseLease
  <2>2. h.batch = b
    BY <1>2, WriteChanges DEF ReleaseLease, ScanIInv, IInv, TypeOK
  <2>3. h.attempt = batch[b].attempts
    <3>1. CASE MaxDeliveries = 1
      BY <2>1, <2>2, <3>1 DEF ScanIInv, LeaseFits, OwnerFits
    <3>2. CASE MaxAttempts = 1
      <4>1. /\ h.attempt \in 1 .. 1 /\ batch[b].attempts \in 0 .. 1
            /\ h.attempt <= batch[b].attempts
        BY <1>1, <1>2, <2>2, <3>2
           DEF ScanIInv, IInv, TypeOK, Handler, BatchRecord, LeaseFits, AttemptFits
      <4>2. QED
        BY <4>1
    <3>3. QED
      BY <3>1, <3>2
  <2>4. QED
    BY <2>1, <2>2, <2>3
<1>3. ASSUME NEW d \in Batches, NEW m \in Messages, AcquireLease(d, m)
      PROVE  FALSE
  BY <1>1, <1>3 DEF AcquireLease, ScanIInv, IInv, TypeOK, BatchRecord
<1>4. ASSUME NEW d \in Batches, LeaseExpires(d)
      PROVE  FALSE
  BY <1>1, <1>4 DEF LeaseExpires, ScanIInv, IInv, TypeOK, BatchRecord
<1>5. ASSUME NEW c \in Coordinators, Start(c)
      PROVE  FALSE
  BY <1>5 DEF Start, Created
<1>6. batch' # batch
  OBVIOUS
<1>7. QED
  BY <1>2, <1>3, <1>4, <1>5, <1>6
     DEF Next, vars, RefuseLease, HandlerStep, LoseLease, CrashHandler, PollStep, PollCancelled,
         PollSettled, PollHalted, PollDeadline, Dispatch, DispatchStalls, FinalizeStep, CloseScan,
         ReadJob, ListAndAggregate, FinalizeJob, CrashCoordinator, CancelMission

\* As long as no message is delivered twice, or no batch leased twice, only the
\* handler the lease was granted to ends it, whatever crashes, expires or is
\* sent again.
THEOREM Fencing ==
  ASSUME MaxDeliveries = 1 \/ MaxAttempts = 1
  PROVE  Spec => FencedWrites
<1>1. ScanIInv /\ [Next]_vars =>
        [\A b \in Batches :
           batch[b].state = "LEASED" /\ batch'[b].state \in {"DONE", "INCOMPLETE"} =>
              \E h \in handlers \ handlers' :
                  h.batch = b /\ h.attempt = batch[b].attempts]_vars
  BY FencedStep
<1>2. QED
  BY <1>1, ScanInvariant, PTL DEF Spec, FencedWrites

\* And what is decided of a row stays decided; with two attempts at a batch,
\* also under redelivery.
THEOREM DecidedStays ==
  ASSUME NoneLate
  PROVE  Spec => DecidedRowsStay
<1>1. ScanIInv /\ [Next]_vars =>
        [\A b \in Batches :
           /\ Decided(b) \subseteq Decided(b)'
           /\ batch[b].result.affected \subseteq batch'[b].result.affected
           /\ batch[b].state = "DONE" => batch'[b] = batch[b]]_vars
  BY BatchesGrow DEF ScanIInv, IInv, Grows, Keeps
<1>2. QED
  BY <1>1, ScanInvariant, PTL DEF Spec, DecidedRowsStay

\* However often messages are delivered and batches attempted: only a handler
\* of an older delivery takes back what was decided, and only while a later
\* delivery of its own message holds the lease.
THEOREM StaleAtMost == Spec => OnlyStaleTakesBack
<1>1. ScanIInv /\ [Next]_vars =>
        [\A b \in Batches :
          \/ /\ Decided(b) \subseteq Decided(b)'
             /\ batch[b].result.affected \subseteq batch'[b].result.affected
          \/ \E h \in handlers \ handlers' :
                /\ h.batch = b /\ h.owner = batch[b].owner
                /\ h.attempt < batch[b].attempts]_vars
  BY BatchesGrow DEF ScanIInv, IInv, Grows, Keeps, StaleWrites
<1>2. QED
  BY <1>1, ScanInvariant, PTL DEF Spec, OnlyStaleTakesBack

LEMMA CancelledStep ==
  ASSUME ScanIInv, Alone, [Next]_vars, job.cancel, ~Finalized
  PROVE  job'.aggregate.decision # "PASS_ELIGIBLE"
<1>1. TypeOK /\ job.aggregate.decision # "PASS_ELIGIBLE"
  BY DEF ScanIInv, IInv, Finalized, NoAggregate
<1>2. ASSUME NEW c \in Coordinators,
             Start(c) \/ PollStep(c) \/ FinalizeStep(c) \/ CrashCoordinator(c)
      PROVE  job'.aggregate.decision # "PASS_ELIGIBLE"
  <2>1. CASE Decides(c)
    BY <2>1 DEF Decides, ScanIInv, CancelSeen
  <2>2. CASE Undecided(c) \/ Drafts(c) \/ Learns(c) \/ Forgets(c)
    BY <1>1, <2>2 DEF Undecided, Drafts, Learns, Forgets, JobKept
  <2>3. QED
    BY <1>1, <1>2, <2>1, <2>2, CoordinatorOutcome
<1>3. QED
  BY <1>1, <1>2, EnvironmentKeeps DEF Next

\* A worker that scans alone, however often it crashes and restarts, never
\* finalizes a cancelled job as eligible to pass.
THEOREM NoPassOnceCancelled ==
  ASSUME Alone
  PROVE  Spec => CancelledNeverPasses
<1>1. ScanIInv /\ [Next]_vars =>
        [job.cancel /\ ~Finalized => job'.aggregate.decision # "PASS_ELIGIBLE"]_vars
  BY CancelledStep
<1>2. QED
  BY <1>1, ScanInvariant, PTL DEF Spec, CancelledNeverPasses
=============================================================================
