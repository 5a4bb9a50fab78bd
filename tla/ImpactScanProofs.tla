-------------------------- MODULE ImpactScanProofs --------------------------
(***************************************************************************)
(* Proofs about ImpactScan for every number of batches, rows, workers,     *)
(* messages, attempts and deliveries, redeliveries under one lease owner   *)
(* included.                                                               *)
(***************************************************************************)
EXTENDS ImpactScan, FiniteSetTheorems, TLAPS

-----------------------------------------------------------------------------
(* Rows and cardinalities *)

LEMMA BatchRowsFinite ==
  ASSUME NEW b \in Batches
  PROVE  BatchRows[b] \subseteq Rows /\ IsFiniteSet(BatchRows[b])
<1>1. BatchRows[b] \subseteq Rows
  BY RowsAssumption
<1>2. QED
  BY <1>1, FS_Subset, RowsAssumption

LEMMA SubsetOfBatchRows ==
  ASSUME NEW b \in Batches, NEW S \in SUBSET BatchRows[b]
  PROVE  IsFiniteSet(S) /\ Cardinality(S) \in Nat
BY BatchRowsFinite, FS_Subset, FS_CardinalityType

-----------------------------------------------------------------------------
(* Type correctness *)

LEMMA NoAggregateType == NoAggregate \in Aggregate
BY DEF NoAggregate, Aggregate

LEMMA IdleCoordinatorType == IdleCoordinator \in CoordRecord
BY NoAggregateType DEF IdleCoordinator, CoordRecord

\* What a handler may price are rows of its batch.
LEMMA ToPriceRows ==
  ASSUME NEW h \in Handler, h.completed => h.result.transient \subseteq BatchRows[h.batch]
  PROVE  ToPrice(h) \subseteq BatchRows[h.batch]
BY DEF ToPrice

LEMMA ExecuteType ==
  ASSUME NEW h \in Handler, NEW o, ToPrice(h) \subseteq BatchRows[h.batch]
  PROVE  Execute(h, o) \in Result
<1> DEFINE got(kind) == {r \in ToPrice(h) : o[r] = kind}
<1>1. \A kind : got(kind) \in SUBSET BatchRows[h.batch]
  OBVIOUS
<1>2. h.batch \in Batches /\ h.result \in Result
  BY DEF Handler
<1>3. Cardinality(got("MATCH")) \in Nat
  BY <1>1, <1>2, SubsetOfBatchRows
<1>4. \A kind : got(kind) \in SUBSET Rows
  BY <1>1, <1>2, BatchRowsFinite
<1>5. Retained(h) \in Result
  BY <1>2 DEF Retained, Result, NoResult
<1>. HIDE DEF got
<1>6. Retained(h).matched + Cardinality(got("MATCH")) \in Nat
  BY <1>3, <1>5 DEF Result
<1>7. /\ Retained(h).outOfScope \cup got("OUT_OF_SCOPE") \in SUBSET Rows
      /\ Retained(h).affected \cup got("AFFECTED") \in SUBSET Rows
      /\ Retained(h).permanent \cup got("PERMANENT") \in SUBSET Rows
      /\ got("TRANSIENT") \in SUBSET Rows
  BY <1>4, <1>5 DEF Result
<1>8. Execute(h, o) = [matched |-> Retained(h).matched + Cardinality(got("MATCH")),
                       outOfScope |-> Retained(h).outOfScope \cup got("OUT_OF_SCOPE"),
                       affected |-> Retained(h).affected \cup got("AFFECTED"),
                       permanent |-> Retained(h).permanent \cup got("PERMANENT"),
                       transient |-> got("TRANSIENT")]
  BY DEF Execute, got
<1>9. QED
  BY <1>6, <1>7, <1>8 DEF Result

LEMMA AggregateJobType ==
  ASSUME TypeOK, NEW seen
  PROVE  AggregateJob(seen) \in Aggregate /\ AggregateJob(seen).decision # "NONE"
<1>1. \A b \in Batches : batch[b].result \in Result /\ BatchRows[b] \subseteq Rows
  BY BatchRowsFinite DEF TypeOK, BatchRecord
<1>2. /\ AffectedRows \in SUBSET Rows /\ OutOfScopeRows \in SUBSET Rows
      /\ InconclusiveRows \in SUBSET Rows /\ UnprocessedRows \in SUBSET Rows
  BY <1>1 DEF AffectedRows, OutOfScopeRows, InconclusiveRows, UnprocessedRows,
              Counted, Inconclusive, Result
<1>3. [b \in Batches |-> IF b \in Counted THEN batch[b].result.matched ELSE 0]
         \in [Batches -> Nat]
  BY <1>1 DEF Result
<1>4. QED
  BY <1>2, <1>3 DEF AggregateJob, Aggregate, Decision

-----------------------------------------------------------------------------
(* Pricing *)

\* A row the connector may still be asked about becomes one kind of result.
LEMMA PricedAsKinds ==
  ASSUME NEW r
  PROVE  /\ "MATCH" \in PricedAs(r) => truth[r] = "MATCH"
         /\ "AFFECTED" \in PricedAs(r) => truth[r] = "AFFECTED"
         /\ "OUT_OF_SCOPE" \in PricedAs(r) => truth[r] = "OUT_OF_SCOPE"
<1>1. CASE truth[r] = "OUT_OF_SCOPE"
  BY <1>1 DEF PricedAs
<1>2. CASE truth[r] = "LOCAL_ERROR"
  BY <1>2 DEF PricedAs
<1>3. CASE truth[r] # "OUT_OF_SCOPE" /\ truth[r] # "LOCAL_ERROR"
  BY <1>3 DEF PricedAs
<1>4. QED
  BY <1>1, <1>2, <1>3

LEMMA ExecuteSound ==
  ASSUME NEW h \in Handler, NEW o \in Outcomes(h),
         h.completed => AccountsFor(h.batch, h.result) /\ TellsTruth(h.batch, h.result)
  PROVE  /\ AccountsFor(h.batch, Execute(h, o))
         /\ TellsTruth(h.batch, Execute(h, o))
<1> DEFINE B == BatchRows[h.batch]
           P == ToPrice(h)
           got(kind) == {r \in P : o[r] = kind}
           kept == Retained(h)
           settled == kept.outOfScope \cup kept.affected \cup kept.permanent
           new == Execute(h, o)
<1>1. h.batch \in Batches /\ h.result \in Result
  BY DEF Handler
<1>2. \A r \in P : o[r] \in {"MATCH", "AFFECTED", "OUT_OF_SCOPE", "PERMANENT", "TRANSIENT"}
                  /\ o[r] \in PricedAs(r)
  BY DEF Outcomes
<1>3. /\ P \subseteq B /\ settled \subseteq B /\ P \cap settled = {}
      /\ kept.matched = Cardinality(B \ (settled \cup P))
      /\ kept.outOfScope \cap (kept.affected \cup kept.permanent) = {}
      /\ kept.affected \cap kept.permanent = {}
  <2>1. CASE h.completed
    <3>1. kept = [matched |-> h.result.matched, outOfScope |-> h.result.outOfScope,
                  affected |-> h.result.affected, permanent |-> h.result.permanent,
                  transient |-> {}]
      BY <1>1, <2>1 DEF Retained, Result
    <3>2. P = h.result.transient
      BY <2>1 DEF ToPrice
    <3>3. settled \cup P = Listed(h.result)
      BY <3>1, <3>2 DEF Listed
    <3>4. QED
      BY <2>1, <3>1, <3>2, <3>3 DEF AccountsFor, Listed
  <2>2. CASE ~h.completed
    <3>1. kept = NoResult /\ P = B
      BY <2>2 DEF Retained, ToPrice
    <3>2. B \ (settled \cup P) = {}
      BY <3>1
    <3>3. QED
      BY <3>1, <3>2, FS_EmptySet DEF NoResult
  <2>3. QED
    BY <2>1, <2>2
<1>4. /\ new.matched = kept.matched + Cardinality(got("MATCH"))
      /\ new.outOfScope = kept.outOfScope \cup got("OUT_OF_SCOPE")
      /\ new.affected = kept.affected \cup got("AFFECTED")
      /\ new.permanent = kept.permanent \cup got("PERMANENT")
      /\ new.transient = got("TRANSIENT")
  BY DEF Execute
<1>5. \A r \in P : \/ r \in got("MATCH") \/ r \in got("AFFECTED") \/ r \in got("OUT_OF_SCOPE")
                   \/ r \in got("PERMANENT") \/ r \in got("TRANSIENT")
  BY <1>2
<1>6. Listed(new) = settled \cup (P \ got("MATCH"))
  BY <1>4, <1>5 DEF Listed
<1>7. new.matched = Cardinality(B \ Listed(new))
  <2> DEFINE old == B \ (settled \cup P)
             got1 == got("MATCH")
  <2>1. B \ Listed(new) = old \cup got1
    BY <1>3, <1>6
  <2>2. old \cap got1 = {}
    OBVIOUS
  <2>3. old \in SUBSET B /\ got1 \in SUBSET B
    BY <1>3
  <2>. HIDE DEF old, got1
  <2>4. /\ IsFiniteSet(old) /\ Cardinality(old) \in Nat
        /\ IsFiniteSet(got1) /\ Cardinality(got1) \in Nat
    BY <1>1, <2>3, SubsetOfBatchRows
  <2>5. Cardinality(old \cup got1) = Cardinality(old) + Cardinality(got1)
                                     - Cardinality(old \cap got1)
    BY <2>4, FS_Union
  <2>6. Cardinality(old \cap got1) = 0
    BY <2>2, FS_EmptySet
  <2>7. new.matched = Cardinality(old) + Cardinality(got1)
    BY <1>3, <1>4 DEF old, got1
  <2>8. Cardinality(old \cup got1) = new.matched
    BY <2>4, <2>5, <2>6, <2>7
  <2>9. QED
    BY <2>1, <2>8
<1>8. AccountsFor(h.batch, new)
  <2>1. Listed(new) \subseteq B
    BY <1>3, <1>6
  <2>2. /\ new.outOfScope \cap (new.affected \cup new.permanent \cup new.transient) = {}
        /\ new.affected \cap (new.permanent \cup new.transient) = {}
        /\ new.permanent \cap new.transient = {}
    BY <1>3, <1>4
  <2>3. QED
    BY <1>7, <2>1, <2>2 DEF AccountsFor
<1>9. TellsTruth(h.batch, new)
  <2> SUFFICES ASSUME NEW r \in B
               PROVE  /\ r \in new.affected => truth[r] = "AFFECTED"
                      /\ r \in new.outOfScope => truth[r] = "OUT_OF_SCOPE"
                      /\ r \notin Listed(new) => truth[r] = "MATCH"
    BY DEF TellsTruth
  <2>1. CASE r \in P
    <3>1. r \notin settled
      BY <1>3, <2>1
    <3>2. o[r] \in PricedAs(r)
      BY <1>2, <2>1
    <3>3. /\ r \in new.affected => o[r] = "AFFECTED"
          /\ r \in new.outOfScope => o[r] = "OUT_OF_SCOPE"
          /\ r \notin Listed(new) => o[r] = "MATCH"
      BY <1>4, <1>6, <2>1, <3>1
    <3>4. QED
      BY <3>2, <3>3, PricedAsKinds
  <2>2. CASE r \notin P
    <3>1. h.completed
      BY <2>2 DEF ToPrice
    <3>2. kept = [matched |-> h.result.matched, outOfScope |-> h.result.outOfScope,
                  affected |-> h.result.affected, permanent |-> h.result.permanent,
                  transient |-> {}]
      BY <1>1, <3>1 DEF Retained, Result
    <3>3. P = h.result.transient
      BY <3>1 DEF ToPrice
    <3>4. /\ r \in new.affected => r \in h.result.affected
          /\ r \in new.outOfScope => r \in h.result.outOfScope
          /\ r \notin Listed(new) => r \notin Listed(h.result)
      BY <1>4, <1>6, <2>2, <3>2, <3>3 DEF Listed
    <3>5. QED
      BY <3>1, <3>4 DEF TellsTruth
  <2>3. QED
    BY <2>1, <2>2
<1>10. QED
  BY <1>8, <1>9

-----------------------------------------------------------------------------
(* Every step keeps the types *)

\* A handler that completes holds a record of its batch, so what it prices is
\* in its batch.
LEMMA HandlersPriceTheirBatch ==
  ASSUME TypeOK, ResultsSound, NEW h \in handlers
  PROVE  h \in Handler /\ ToPrice(h) \subseteq BatchRows[h.batch]
<1>1. h \in Handler
  BY DEF TypeOK
<1>2. h.completed => h.result.transient \subseteq BatchRows[h.batch]
  BY DEF ResultsSound, AccountsFor, Listed
<1>3. QED
  BY <1>1, <1>2, ToPriceRows

LEMMA TouchType ==
  ASSUME TypeOK, NEW b \in Batches, Touch(b)
  PROVE  coord' \in [Coordinators -> CoordRecord]
BY DEF TypeOK, Touch, CoordRecord

\* Changing the fields of a lease keeps a batch record a batch record.
LEMMA BatchUpdateType ==
  ASSUME TypeOK, NEW b \in Batches, NEW rec \in BatchRecord,
         batch' = [batch EXCEPT ![b] = rec]
  PROVE  batch' \in [Batches -> BatchRecord]
BY DEF TypeOK

LEMMA HandlerTypeStep ==
  ASSUME TypeOK, ResultsSound, NEW h \in handlers, HandlerStep(h)
  PROVE  TypeOK'
<1>1. h \in Handler /\ h.batch \in Batches /\ batch[h.batch] \in BatchRecord
  BY DEF TypeOK, Handler
<1>2. handlers' \in SUBSET Handler
  BY DEF TypeOK, HandlerStep, WriteResult, ReleaseLease, LoseLease, CrashHandler
<1>3. CASE WriteResult(h)
  <2>1. PICK o \in Outcomes(h) :
          batch' = [batch EXCEPT
                 ![h.batch].state = IF Execute(h, o).transient = {} THEN "DONE" ELSE "INCOMPLETE",
                 ![h.batch].owner = None, ![h.batch].live = FALSE,
                 ![h.batch].completed = TRUE, ![h.batch].result = Execute(h, o)]
    BY <1>3 DEF WriteResult
  <2>2. Execute(h, o) \in Result
    BY HandlersPriceTheirBatch, ExecuteType
  <2>3. batch' \in [Batches -> BatchRecord]
    BY <1>1, <2>1, <2>2 DEF TypeOK, BatchRecord, BatchState
  <2>4. coord' \in [Coordinators -> CoordRecord]
    BY <1>1, <1>3, TouchType DEF WriteResult
  <2>5. QED
    BY <1>2, <1>3, <2>3, <2>4 DEF TypeOK, WriteResult
<1>4. CASE ReleaseLease(h)
  <2>1. batch' \in [Batches -> BatchRecord]
    BY <1>1, <1>4 DEF TypeOK, ReleaseLease, BatchRecord, BatchState
  <2>2. coord' \in [Coordinators -> CoordRecord]
    BY <1>1, <1>4, TouchType DEF ReleaseLease
  <2>3. QED
    BY <1>2, <1>4, <2>1, <2>2 DEF TypeOK, ReleaseLease
<1>5. CASE LoseLease(h)
  BY <1>2, <1>5 DEF TypeOK, LoseLease
<1>6. CASE CrashHandler(h)
  BY <1>2, <1>6 DEF TypeOK, CrashHandler
<1>7. QED
  BY <1>3, <1>4, <1>5, <1>6 DEF HandlerStep

LEMMA DeliveryTypeStep ==
  ASSUME TypeOK, NEW b \in Batches, NEW m \in Messages,
         AcquireLease(b, m) \/ RefuseLease(b, m)
  PROVE  TypeOK'
<1>1. batch[b] \in BatchRecord
  BY DEF TypeOK
<1>2. inbox' \in [Batches -> [Messages -> 0 .. MaxDeliveries]]
  <2>1. inbox[b][m] - 1 \in 0 .. MaxDeliveries
    BY BoundsAssumption DEF TypeOK, AcquireLease, RefuseLease
  <2>2. inbox' = [inbox EXCEPT ![b][m] = inbox[b][m] - 1]
    BY DEF AcquireLease, RefuseLease
  <2>3. QED
    BY <2>1, <2>2 DEF TypeOK
<1>3. CASE AcquireLease(b, m)
  <2>1. batch[b].attempts + 1 \in 1 .. MaxAttempts
    BY <1>1, <1>3, BoundsAssumption DEF AcquireLease, Leasable, BatchRecord
  <2>2. batch' \in [Batches -> BatchRecord]
    BY <1>1, <1>3, <2>1 DEF TypeOK, AcquireLease, BatchRecord, BatchState
  <2>3. handlers' \in SUBSET Handler
    BY <1>1, <1>3, <2>1 DEF TypeOK, AcquireLease, BatchRecord, Handler
  <2>4. coord' \in [Coordinators -> CoordRecord]
    BY <1>3, TouchType DEF AcquireLease
  <2>5. QED
    BY <1>2, <1>3, <2>2, <2>3, <2>4 DEF TypeOK, AcquireLease
<1>4. CASE RefuseLease(b, m)
  BY <1>2, <1>4 DEF TypeOK, RefuseLease
<1>5. QED
  BY <1>3, <1>4

LEMMA CoordinatorTypeStep ==
  ASSUME TypeOK, NEW c \in Coordinators,
         Start(c) \/ PollStep(c) \/ FinalizeStep(c) \/ CrashCoordinator(c)
  PROVE  TypeOK'
<1>1. /\ coord[c] \in CoordRecord /\ job.aggregate \in Aggregate
      /\ job.budget \subseteq Budget /\ job.halt \in BOOLEAN /\ job.cancel \in BOOLEAN
      /\ \A b \in Batches : batch[b] \in BatchRecord
  BY DEF TypeOK, JobRecord
<1>2. CASE Start(c)
  <2>1. job' \in JobRecord
    BY <1>2 DEF TypeOK, Start, JobRecord
  <2>2. batch' \in [Batches -> BatchRecord]
    <3>1. CASE Finalized
      BY <1>2, <3>1 DEF TypeOK, Start
    <3>2. CASE ~Finalized
      <4>1. PICK failed \in SUBSET (Batches \ Created) :
              batch' = [b \in Batches |-> IF b \in Created \cup failed THEN batch[b]
                                         ELSE [batch[b] EXCEPT !.state = "PENDING"]]
        BY <1>2, <3>2 DEF Start
      <4>2. \A b \in Batches : [batch[b] EXCEPT !.state = "PENDING"] \in BatchRecord
        BY <1>1 DEF BatchRecord, BatchState
      <4>3. QED
        BY <1>1, <4>1, <4>2
    <3>3. QED
      BY <3>1, <3>2
  <2>3. coord' \in [Coordinators -> CoordRecord]
    <3>1. job.budget \cup (IF Excess > 0 THEN {"ROW_BUDGET"} ELSE {}) \in SUBSET Budget
      BY <1>1 DEF Budget
    <3>2. CASE Finalized
      BY <1>1, <1>2, <3>2 DEF TypeOK, Start, CoordRecord
    <3>3. CASE ~Finalized
      BY <1>1, <1>2, <3>1, <3>3 DEF TypeOK, Start, CoordRecord
    <3>4. QED
      BY <3>2, <3>3
  <2>4. QED
    BY <1>2, <2>1, <2>2, <2>3 DEF TypeOK, Start
<1>3. CASE PollStep(c)
  <2>1. job' \in JobRecord
    BY <1>3 DEF TypeOK, PollStep, PollCancelled, PollSettled, PollHalted, PollDeadline,
                Dispatch, DispatchStalls, JobRecord
  <2>2. coord' \in [Coordinators -> CoordRecord]
    <3>1. ASSUME NEW budget \in SUBSET Budget, NEW halt \in BOOLEAN, LeaveLoop(c, budget, halt)
          PROVE  coord' \in [Coordinators -> CoordRecord]
      BY <1>1, <3>1 DEF TypeOK, LeaveLoop, CoordRecord
    <3>2. coord[c].budget \in SUBSET Budget /\ coord[c].halt \in BOOLEAN
      BY <1>1 DEF CoordRecord
    <3>3. coord[c].budget \cup {"MAX_MISSION_SECONDS"} \in SUBSET Budget
      BY <3>2 DEF Budget
    <3>4. CASE PollCancelled(c) \/ PollSettled(c) \/ PollHalted(c) \/ PollDeadline(c)
      BY <3>1, <3>2, <3>3, <3>4 DEF PollCancelled, PollSettled, PollHalted, PollDeadline
    <3>5. ASSUME NEW b \in Batches, Dispatch(c, b) \/ DispatchStalls(c, b)
          PROVE  coord' \in [Coordinators -> CoordRecord]
      <4>1. PICK sent \in SUBSET Batches : coord' = [coord EXCEPT ![c].sent = sent]
        <5>1. coord[c].sent \in SUBSET Batches
          BY <1>1 DEF CoordRecord
        <5>2. CASE Dispatch(c, b)
          BY <5>1, <5>2 DEF Dispatch
        <5>3. CASE DispatchStalls(c, b)
          BY <5>1, <5>3 DEF DispatchStalls
        <5>4. QED
          BY <3>5, <5>2, <5>3
      <4>2. QED
        BY <1>1, <4>1 DEF TypeOK, CoordRecord
    <3>6. QED
      BY <1>3, <3>4, <3>5 DEF PollStep
  <2>3. inbox' \in [Batches -> [Messages -> 0 .. MaxDeliveries]]
    <3>1. CASE \E b \in Batches : Dispatch(c, b)
      <4>1. PICK b \in Batches, m \in Messages :
               inbox' = [inbox EXCEPT ![b][m] = MaxDeliveries]
        BY <3>1 DEF Dispatch
      <4>2. MaxDeliveries \in 0 .. MaxDeliveries
        BY BoundsAssumption
      <4>3. QED
        BY <4>1, <4>2 DEF TypeOK
    <3>2. CASE UNCHANGED inbox
      BY <3>2 DEF TypeOK
    <3>3. QED
      BY <1>3, <3>1, <3>2 DEF PollStep, PollCancelled, PollSettled, PollHalted,
                              PollDeadline, DispatchStalls
  <2>4. UNCHANGED <<truth, batch, handlers, cancelled>>
    BY <1>3 DEF PollStep, PollCancelled, PollSettled, PollHalted, PollDeadline,
                Dispatch, DispatchStalls
  <2>5. QED
    BY <2>1, <2>2, <2>3, <2>4 DEF TypeOK
<1>4. CASE FinalizeStep(c)
  <2>1. job' \in JobRecord
    <3>1. CASE CloseScan(c)
      BY <1>1, <3>1 DEF TypeOK, CloseScan, JobRecord, CoordRecord
    <3>2. CASE FinalizeJob(c) /\ ~Finalized
      BY <1>1, <3>2 DEF TypeOK, FinalizeJob, JobRecord, CoordRecord, Aggregate
    <3>3. CASE UNCHANGED job
      BY <3>3 DEF TypeOK
    <3>4. QED
      BY <1>4, <3>1, <3>2, <3>3 DEF FinalizeStep, ReadJob, ListAndAggregate, FinalizeJob
  <2>2. coord' \in [Coordinators -> CoordRecord]
    <3>1. AggregateJob(coord[c]) \in Aggregate
      BY AggregateJobType
    <3>2. CASE CloseScan(c)
      BY <1>1, <3>2 DEF TypeOK, CloseScan, CoordRecord
    <3>3. CASE (ReadJob(c) \/ FinalizeJob(c)) /\ Finalized
      <4>1. coord' = [coord EXCEPT ![c].pc = "RETURNED", ![c].draft = job.aggregate]
        BY <3>3 DEF ReadJob, FinalizeJob
      <4>2. QED
        BY <1>1, <4>1 DEF TypeOK, CoordRecord
    <3>4. CASE ReadJob(c) /\ ~Finalized
      <4>1. coord' = [coord EXCEPT ![c].pc = "AGGREGATE", ![c].cancel = job.cancel,
                                   ![c].budget = job.budget, ![c].halt = job.halt]
        BY <3>4 DEF ReadJob
      <4>2. QED
        BY <1>1, <4>1 DEF TypeOK, CoordRecord
    <3>5. CASE FinalizeJob(c) /\ ~Finalized
      <4>1. coord' = [coord EXCEPT ![c].pc = "RETURNED"]
        BY <3>5 DEF FinalizeJob
      <4>2. QED
        BY <1>1, <4>1 DEF TypeOK, CoordRecord
    <3>6. CASE ListAndAggregate(c)
      BY <1>1, <3>1, <3>6 DEF TypeOK, ListAndAggregate, CoordRecord
    <3>7. QED
      BY <1>4, <3>2, <3>3, <3>4, <3>5, <3>6 DEF FinalizeStep
  <2>3. QED
    BY <1>4, <2>1, <2>2 DEF TypeOK, FinalizeStep, CloseScan, ReadJob, ListAndAggregate, FinalizeJob
<1>5. CASE CrashCoordinator(c)
  BY <1>5, IdleCoordinatorType DEF TypeOK, CrashCoordinator
<1>6. QED
  BY <1>2, <1>3, <1>4, <1>5

LEMMA TypeStep ==
  ASSUME TypeOK, ResultsSound, [Next]_vars
  PROVE  TypeOK'
<1>1. ASSUME NEW b \in Batches, NEW m \in Messages, AcquireLease(b, m) \/ RefuseLease(b, m)
      PROVE  TypeOK'
  BY <1>1, DeliveryTypeStep
<1>2. ASSUME NEW h \in handlers, HandlerStep(h)
      PROVE  TypeOK'
  BY <1>2, HandlerTypeStep
<1>3. ASSUME NEW b \in Batches, LeaseExpires(b)
      PROVE  TypeOK'
  BY <1>3 DEF TypeOK, LeaseExpires, BatchRecord
<1>4. ASSUME NEW c \in Coordinators,
             Start(c) \/ PollStep(c) \/ FinalizeStep(c) \/ CrashCoordinator(c)
      PROVE  TypeOK'
  BY <1>4, CoordinatorTypeStep
<1>5. CASE CancelMission
  BY <1>5 DEF TypeOK, CancelMission
<1>6. CASE UNCHANGED vars
  BY <1>6 DEF TypeOK, vars
<1>7. QED
  BY <1>1, <1>2, <1>3, <1>4, <1>5, <1>6 DEF Next

-----------------------------------------------------------------------------
(* Every step keeps the results sound *)

\* truth is rigid, so what is said of a row stays true.
LEMMA TruthRigid ==
  ASSUME [Next]_vars
  PROVE  truth' = truth
BY DEF Next, vars, AcquireLease, RefuseLease, HandlerStep, WriteResult, ReleaseLease, LoseLease,
       CrashHandler, LeaseExpires, Start, PollStep, PollCancelled, PollSettled, PollHalted,
       PollDeadline, Dispatch, DispatchStalls, FinalizeStep, CloseScan, ReadJob,
       ListAndAggregate, FinalizeJob, CrashCoordinator, CancelMission

\* A step that adds no result and no handler keeps them.
LEMMA ResultsKept ==
  ASSUME ResultsSound, truth' = truth, handlers' \subseteq handlers,
         \A b \in Batches : /\ batch'[b].completed = batch[b].completed
                           /\ batch'[b].result = batch[b].result
  PROVE  ResultsSound'
BY DEF ResultsSound, TellsTruth

LEMMA ResultsAfterWrite ==
  ASSUME TypeOK, ResultsSound, truth' = truth, NEW h \in handlers, WriteResult(h)
  PROVE  ResultsSound'
<1>1. PICK o \in Outcomes(h) :
        batch' = [batch EXCEPT
               ![h.batch].state = IF Execute(h, o).transient = {} THEN "DONE" ELSE "INCOMPLETE",
               ![h.batch].owner = None, ![h.batch].live = FALSE,
               ![h.batch].completed = TRUE, ![h.batch].result = Execute(h, o)]
  BY DEF WriteResult
<1>2. h \in Handler /\ h.batch \in Batches
  BY DEF TypeOK, Handler
<1>3. AccountsFor(h.batch, Execute(h, o)) /\ TellsTruth(h.batch, Execute(h, o))
  BY <1>2, ExecuteSound DEF ResultsSound
<1>4. \A b \in Batches : batch[b] \in BatchRecord
  BY DEF TypeOK
<1>5. batch'[h.batch].result = Execute(h, o)
  BY <1>1, <1>2, <1>4 DEF TypeOK, BatchRecord
<1>6. \A b \in Batches : b # h.batch => batch'[b] = batch[b]
  BY <1>1, <1>2 DEF TypeOK
<1>7. handlers' \subseteq handlers
  BY DEF WriteResult
<1>8. QED
  BY <1>3, <1>5, <1>6, <1>7 DEF ResultsSound, TellsTruth

\* A new handler builds on what the store holds.
LEMMA ResultsAfterLease ==
  ASSUME TypeOK, ResultsSound, truth' = truth,
         NEW b \in Batches, NEW m \in Messages, AcquireLease(b, m)
  PROVE  ResultsSound'
<1>1. \A d \in Batches : /\ batch'[d].completed = batch[d].completed
                        /\ batch'[d].result = batch[d].result
  BY DEF AcquireLease, TypeOK, BatchRecord
<1> DEFINE new == [batch |-> b, attempt |-> batch[b].attempts + 1, owner |-> m,
                   completed |-> batch[b].completed, result |-> batch[b].result]
<1>2. handlers' = handlers \cup {new}
  BY DEF AcquireLease
<1>3. /\ new.batch = b
      /\ new.completed = batch[b].completed /\ new.result = batch[b].result
  OBVIOUS
<1>. HIDE DEF new
<1>4. QED
  BY <1>1, <1>2, <1>3 DEF ResultsSound, TellsTruth

LEMMA ResultsStep ==
  ASSUME TypeOK, ResultsSound, [Next]_vars
  PROVE  ResultsSound'
<1>1. truth' = truth
  BY TruthRigid
<1>2. ASSUME NEW b \in Batches, NEW m \in Messages, AcquireLease(b, m) \/ RefuseLease(b, m)
      PROVE  ResultsSound'
  <2>1. CASE AcquireLease(b, m)
    BY <1>1, <2>1, ResultsAfterLease
  <2>2. CASE RefuseLease(b, m)
    BY <1>1, <2>2, ResultsKept DEF RefuseLease
  <2>3. QED
    BY <1>2, <2>1, <2>2
<1>3. ASSUME NEW h \in handlers, HandlerStep(h)
      PROVE  ResultsSound'
  <2>1. CASE WriteResult(h)
    BY <1>1, <2>1, ResultsAfterWrite
  <2>2. CASE ReleaseLease(h)
    <3>1. \A b \in Batches : /\ batch'[b].completed = batch[b].completed
                            /\ batch'[b].result = batch[b].result
      BY <2>2 DEF ReleaseLease, TypeOK, BatchRecord, Handler
    <3>2. QED
      BY <1>1, <2>2, <3>1, ResultsKept DEF ReleaseLease
  <2>3. CASE LoseLease(h) \/ CrashHandler(h)
    BY <1>1, <2>3, ResultsKept DEF LoseLease, CrashHandler
  <2>4. QED
    BY <1>3, <2>1, <2>2, <2>3 DEF HandlerStep
<1>4. ASSUME NEW b \in Batches, LeaseExpires(b)
      PROVE  ResultsSound'
  <2>1. \A d \in Batches : /\ batch'[d].completed = batch[d].completed
                          /\ batch'[d].result = batch[d].result
    BY <1>4 DEF LeaseExpires, TypeOK, BatchRecord
  <2>2. QED
    BY <1>1, <1>4, <2>1, ResultsKept DEF LeaseExpires
<1>5. ASSUME NEW c \in Coordinators, Start(c)
      PROVE  ResultsSound'
  <2>1. \A b \in Batches : /\ batch'[b].completed = batch[b].completed
                          /\ batch'[b].result = batch[b].result
    BY <1>5 DEF Start, TypeOK, BatchRecord
  <2>2. QED
    BY <1>1, <1>5, <2>1, ResultsKept DEF Start
<1>6. CASE UNCHANGED <<batch, handlers>>
  BY <1>1, <1>6, ResultsKept
<1>7. QED
  BY <1>2, <1>3, <1>4, <1>5, <1>6
     DEF Next, vars, PollStep, PollCancelled, PollSettled, PollHalted, PollDeadline, Dispatch,
         DispatchStalls, FinalizeStep, CloseScan, ReadJob, ListAndAggregate, FinalizeJob,
         CrashCoordinator, CancelMission

-----------------------------------------------------------------------------
(* Every step keeps the aggregates sound and the answers one *)

\* Aggregating sound results yields a sound aggregate, whatever the job says
\* of cancellation, budgets and halts.
LEMMA AggregateJobSound ==
  ASSUME TypeOK, ResultsSound, NEW seen
  PROVE  SoundAggregate(AggregateJob(seen))
<1> DEFINE agg == AggregateJob(seen)
<1>1. ASSUME NEW b \in Counted
      PROVE  /\ b \in Batches /\ Listed(batch[b].result) \subseteq BatchRows[b]
             /\ TellsTruth(b, batch[b].result)
  BY <1>1 DEF Counted, ResultsSound, AccountsFor
<1>2. ASSUME agg.decision = "BLOCK"
      PROVE  \E r \in Rows : truth[r] = "AFFECTED"
  <2>1. AffectedRows # {}
    BY <1>2 DEF AggregateJob
  <2>2. PICK b \in Counted : batch[b].result.affected # {}
    BY <2>1 DEF AffectedRows
  <2>3. PICK r \in batch[b].result.affected : r \in BatchRows[b]
    BY <1>1, <2>2 DEF Listed
  <2>4. r \in Rows /\ truth[r] = "AFFECTED"
    BY <1>1, <2>2, <2>3, BatchRowsFinite DEF TellsTruth
  <2>5. QED
    BY <2>4
<1>3. ASSUME agg.decision = "PASS_ELIGIBLE"
      PROVE  Excess = 0 /\ \A r \in Rows : truth[r] \in {"MATCH", "OUT_OF_SCOPE"}
  <2>1. /\ AffectedRows = {} /\ Excess = 0
        /\ UnprocessedRows = {} /\ InconclusiveRows = {}
    BY <1>3 DEF AggregateJob
  <2>2. ASSUME NEW r \in Rows
        PROVE  truth[r] \in {"MATCH", "OUT_OF_SCOPE"}
    <3>1. PICK b \in Batches : r \in BatchRows[b]
      BY RowsAssumption
    <3>2. b \in Counted
      BY <2>1, <3>1 DEF UnprocessedRows
    <3>3. /\ r \notin batch[b].result.affected
          /\ r \notin batch[b].result.permanent /\ r \notin batch[b].result.transient
      BY <2>1, <3>2 DEF AffectedRows, InconclusiveRows, Inconclusive
    <3>4. QED
      BY <1>1, <3>1, <3>2, <3>3 DEF TellsTruth, Listed
  <2>3. QED
    BY <2>1, <2>2
<1>4. QED
  BY <1>2, <1>3 DEF SoundAggregate

\* What one step does to the job's aggregate and to each coordinator.
JobKept == job'.aggregate = job.aggregate /\ job'.status = job.status
CoordKept(c) == /\ coord'[c].pc = coord[c].pc
                /\ coord'[c].draft = coord[c].draft

\* Steps of handlers, deliveries, leases and users do neither.
LEMMA EnvironmentKeeps ==
  ASSUME TypeOK,
         \/ \E b \in Batches, m \in Messages : AcquireLease(b, m) \/ RefuseLease(b, m)
         \/ \E h \in handlers : HandlerStep(h)
         \/ \E b \in Batches : LeaseExpires(b)
         \/ CancelMission
         \/ UNCHANGED vars
  PROVE  job' = job /\ \A c \in Coordinators : CoordKept(c)
<1>1. job' = job
  BY DEF AcquireLease, RefuseLease, HandlerStep, WriteResult, ReleaseLease, LoseLease,
         CrashHandler, LeaseExpires, CancelMission, vars
<1>2. UNCHANGED coord \/ \E b : Touch(b)
  BY DEF AcquireLease, RefuseLease, HandlerStep, WriteResult, ReleaseLease, LoseLease,
         CrashHandler, LeaseExpires, CancelMission, vars
<1>3. CASE UNCHANGED coord
  BY <1>1, <1>3 DEF CoordKept
<1>4. CASE \E b : Touch(b)
  BY <1>1, <1>4 DEF CoordKept, Touch, TypeOK, CoordRecord
<1>5. QED
  BY <1>2, <1>3, <1>4

\* A coordinator's step leaves the others alone.
LEMMA OthersKept ==
  ASSUME TypeOK, NEW c \in Coordinators,
         Start(c) \/ PollStep(c) \/ FinalizeStep(c) \/ CrashCoordinator(c)
  PROVE  \A d \in Coordinators : d # c => coord'[d] = coord[d]
<1>1. CASE Start(c)
  BY <1>1 DEF TypeOK, Start
<1>2. CASE PollStep(c)
  BY <1>2 DEF TypeOK, PollStep, PollCancelled, PollSettled, PollHalted, PollDeadline,
              LeaveLoop, Dispatch, DispatchStalls
<1>3. CASE FinalizeStep(c)
  BY <1>3 DEF TypeOK, FinalizeStep, CloseScan, ReadJob, ListAndAggregate, FinalizeJob
<1>4. CASE CrashCoordinator(c)
  BY <1>4 DEF TypeOK, CrashCoordinator
<1>5. QED
  BY <1>1, <1>2, <1>3, <1>4

\* The five things a coordinator's step can do to the outcome of the scan:
\* stay undecided, prepare a draft, decide, learn the decision, forget it.
Undecided(c) == /\ job'.aggregate = job.aggregate /\ (Finalized => JobKept)
                /\ coord[c].pc # "RETURNED" \/ CoordKept(c)
                /\ coord'[c].pc \notin {"WRITE", "RETURNED"} \/ CoordKept(c)
Drafts(c) == /\ JobKept /\ coord[c].pc # "RETURNED"
             /\ coord'[c].pc = "WRITE" /\ coord'[c].draft = AggregateJob(coord[c])
Decides(c) == /\ ~Finalized /\ coord[c].pc = "WRITE"
              /\ job'.aggregate = coord[c].draft
              /\ coord'[c].pc = "RETURNED" /\ coord'[c].draft = coord[c].draft
Learns(c) == /\ Finalized /\ JobKept
             /\ coord'[c].pc = "RETURNED" /\ coord'[c].draft = job.aggregate
Forgets(c) == JobKept /\ coord'[c].pc = "IDLE"

LEMMA CoordinatorOutcome ==
  ASSUME TypeOK, NEW c \in Coordinators,
         Start(c) \/ PollStep(c) \/ FinalizeStep(c) \/ CrashCoordinator(c)
  PROVE  Undecided(c) \/ Drafts(c) \/ Decides(c) \/ Learns(c) \/ Forgets(c)
<1>1. job \in JobRecord /\ coord \in [Coordinators -> CoordRecord]
  BY DEF TypeOK
<1>2. CASE Start(c)
  <2>1. CASE Finalized
    BY <1>1, <1>2, <2>1 DEF Start, Learns, JobKept, CoordRecord
  <2>2. CASE ~Finalized
    BY <1>1, <1>2, <2>2 DEF Start, Undecided, JobRecord, CoordRecord
  <2>3. QED
    BY <2>1, <2>2
<1>3. CASE PollStep(c)
  <2>1. JobKept
    BY <1>1, <1>3 DEF PollStep, PollCancelled, PollSettled, PollHalted, PollDeadline,
                      Dispatch, DispatchStalls, JobKept, JobRecord
  <2>2. CASE PollCancelled(c) \/ PollSettled(c) \/ PollHalted(c) \/ PollDeadline(c)
    BY <1>1, <2>1, <2>2 DEF PollCancelled, PollSettled, PollHalted, PollDeadline,
                      LeaveLoop, Undecided, JobKept, CoordRecord
  <2>3. CASE \E b \in Batches : Dispatch(c, b) \/ DispatchStalls(c, b)
    BY <1>1, <2>1, <2>3 DEF Dispatch, DispatchStalls, Undecided, JobKept, CoordKept, CoordRecord
  <2>4. QED
    BY <1>3, <2>2, <2>3 DEF PollStep
<1>4. CASE CloseScan(c)
  BY <1>1, <1>4 DEF CloseScan, Undecided, JobKept, JobRecord, CoordRecord
<1>5. CASE ReadJob(c)
  <2>1. CASE Finalized
    BY <1>1, <1>5, <2>1 DEF ReadJob, Learns, JobKept, CoordRecord
  <2>2. CASE ~Finalized
    BY <1>1, <1>5, <2>2 DEF ReadJob, Undecided, JobKept, CoordRecord
  <2>3. QED
    BY <2>1, <2>2
<1>6. CASE ListAndAggregate(c)
  BY <1>1, <1>6 DEF ListAndAggregate, Drafts, JobKept, CoordRecord
<1>7. CASE FinalizeJob(c)
  <2>1. CASE Finalized
    BY <1>1, <1>7, <2>1 DEF FinalizeJob, Learns, JobKept, CoordRecord
  <2>2. CASE ~Finalized
    BY <1>1, <1>7, <2>2 DEF FinalizeJob, Decides, JobRecord, CoordRecord
  <2>3. QED
    BY <2>1, <2>2
<1>8. CASE CrashCoordinator(c)
  BY <1>1, <1>8 DEF CrashCoordinator, IdleCoordinator, Forgets, JobKept, CoordRecord
<1>9. QED
  BY <1>2, <1>3, <1>4, <1>5, <1>6, <1>7, <1>8 DEF FinalizeStep

LEMMA OutcomeStep ==
  ASSUME IInv, [Next]_vars
  PROVE  AggregatesSound' /\ OneAnswer'
<1>1. truth' = truth
  BY TruthRigid
<1>2. \A agg : SoundAggregate(agg) => SoundAggregate(agg)'
  BY <1>1 DEF SoundAggregate
<1>3. ASSUME job' = job, \A c \in Coordinators : CoordKept(c)
      PROVE  AggregatesSound' /\ OneAnswer'
  BY <1>1, <1>3 DEF IInv, AggregatesSound, OneAnswer, SoundAggregate, CoordKept, Finalized
<1>4. ASSUME NEW c \in Coordinators,
             Start(c) \/ PollStep(c) \/ FinalizeStep(c) \/ CrashCoordinator(c)
      PROVE  AggregatesSound' /\ OneAnswer'
  <2>1. \A d \in Coordinators : d # c => coord'[d] = coord[d]
    BY <1>4, OthersKept DEF IInv
  <2>2. CASE Undecided(c)
    BY <1>1, <2>1, <2>2 DEF IInv, Undecided, JobKept, CoordKept, AggregatesSound, OneAnswer,
                            SoundAggregate, Finalized
  <2>3. CASE Drafts(c)
    <3>1. /\ SoundAggregate(coord'[c].draft) /\ coord'[c].draft.decision # "NONE"
      BY <2>3, AggregateJobSound, AggregateJobType DEF IInv, Drafts
    <3>2. QED
      BY <1>1, <2>1, <2>3, <3>1 DEF IInv, Drafts, JobKept, AggregatesSound, OneAnswer,
                                    SoundAggregate, Finalized
  <2>4. CASE Decides(c)
    <3>1. SoundAggregate(coord[c].draft) /\ coord[c].draft.decision # "NONE"
      BY <2>4 DEF IInv, AggregatesSound, Decides
    <3>2. \A d \in Coordinators : coord[d].pc # "RETURNED"
      BY <2>4 DEF IInv, OneAnswer, Decides
    <3>3. job'.aggregate # NoAggregate
      BY <2>4, <3>1 DEF Decides, NoAggregate
    <3>4. QED
      BY <1>1, <2>1, <2>4, <3>1, <3>2, <3>3 DEF IInv, Decides, AggregatesSound, OneAnswer,
                                    SoundAggregate, Finalized
  <2>5. CASE Learns(c)
    BY <1>1, <2>1, <2>5 DEF IInv, Learns, JobKept, AggregatesSound, OneAnswer,
                            SoundAggregate, Finalized
  <2>6. CASE Forgets(c)
    BY <1>1, <2>1, <2>6 DEF IInv, Forgets, JobKept, AggregatesSound, OneAnswer,
                            SoundAggregate, Finalized
  <2>7. QED
    BY <1>4, <2>2, <2>3, <2>4, <2>5, <2>6, CoordinatorOutcome DEF IInv
<1>5. QED
  <2>1. TypeOK
    BY DEF IInv
  <2>2. QED
    BY <1>3, <1>4, <2>1, EnvironmentKeeps DEF Next

-----------------------------------------------------------------------------
(* Theorems *)

LEMMA InitIInv == Init => IInv
<1> SUFFICES ASSUME Init PROVE IInv
  OBVIOUS
<1>1. TypeOK
  <2>1. Absent \in BatchRecord
    <3>1. NoResult \in Result
      BY DEF NoResult, Result
    <3>2. 0 \in 0 .. MaxAttempts
      BY BoundsAssumption
    <3>3. QED
      BY <3>1, <3>2 DEF Absent, BatchRecord, BatchState
  <2>2. job \in JobRecord
    BY NoAggregateType DEF Init, JobRecord
  <2>3. inbox \in [Batches -> [Messages -> 0 .. MaxDeliveries]]
    <3>1. 0 \in 0 .. MaxDeliveries
      BY BoundsAssumption
    <3>2. QED
      BY <3>1 DEF Init
  <2>4. coord \in [Coordinators -> CoordRecord]
    BY IdleCoordinatorType DEF Init
  <2>5. batch \in [Batches -> BatchRecord]
    BY <2>1 DEF Init
  <2>6. QED
    BY <2>2, <2>3, <2>4, <2>5 DEF Init, TypeOK
<1>2. ResultsSound
  BY DEF Init, ResultsSound, Absent
<1>3. AggregatesSound /\ OneAnswer
  BY DEF Init, AggregatesSound, OneAnswer, SoundAggregate, NoAggregate, Finalized, IdleCoordinator
<1>4. QED
  BY <1>1, <1>2, <1>3 DEF IInv

\* The inductive invariant: types, sound results in the store and in running
\* handlers, sound aggregates, one answer.
THEOREM Invariant == Spec => []IInv
<1>1. IInv /\ [Next]_vars => IInv'
  BY TypeStep, ResultsStep, OutcomeStep DEF IInv
<1>2. QED
  BY InitIInv, <1>1, PTL DEF Spec

\* Type correctness of the job, its batches, messages, handlers and workers.
THEOREM TypeCorrect == Spec => []TypeOK
<1>1. IInv => TypeOK
  BY DEF IInv
<1>2. QED
  BY Invariant, <1>1, PTL

\* No interleaving of retries, expired leases, redeliveries and crashes makes
\* a checkpoint count a row twice or drop one.
THEOREM CountOnce == Spec => []CheckpointsCountOnce
<1>1. IInv => CheckpointsCountOnce
  BY DEF IInv, ResultsSound, CheckpointsCountOnce
<1>2. QED
  BY Invariant, <1>1, PTL

\* A pass is never granted, and a block never imposed, against what the rows
\* of the portfolio are.
THEOREM SoundDecision == Spec => []DecisionSound
<1>1. IInv => DecisionSound
  BY DEF IInv, AggregatesSound, DecisionSound
<1>2. QED
  BY Invariant, <1>1, PTL

\* Every worker that returns from the scan reports the stored aggregate.
THEOREM EveryoneAgrees == Spec => []OneAnswer
<1>1. IInv => OneAnswer
  BY DEF IInv
<1>2. QED
  BY Invariant, <1>1, PTL

\* One step leaves a finalized job's aggregate and status alone.
LEMMA FinalizedKept ==
  ASSUME TypeOK, [Next]_vars, Finalized
  PROVE  JobKept
<1>1. CASE job' = job
  BY <1>1 DEF JobKept
<1>2. ASSUME NEW c \in Coordinators,
             Start(c) \/ PollStep(c) \/ FinalizeStep(c) \/ CrashCoordinator(c)
      PROVE  JobKept
  BY <1>2, CoordinatorOutcome DEF Undecided, Drafts, Decides, Learns, Forgets
<1>3. QED
  BY <1>1, <1>2, EnvironmentKeeps DEF Next

\* The first finalizer wins for good.
THEOREM FirstWriterWins == Spec => FinalizedOnce
<1>1. TypeOK /\ [Next]_vars =>
        [Finalized => job'.aggregate = job.aggregate /\ job'.status = job.status]_vars
  BY FinalizedKept DEF JobKept
<1>2. QED
  BY TypeCorrect, <1>1, PTL DEF Spec, FinalizedOnce

\* Initial states of the scan are initial states of the one-verdict
\* specification.
LEMMA VerdictInit == Init => Verdict!Init
BY DEF Init, Verdict!Init, IdleCoordinator, NoAggregate

\* Each step of the scan decides, learns or forgets the verdict, or stutters.
LEMMA VerdictStep ==
  ASSUME IInv, [Next]_vars
  PROVE  [Verdict!Next]_Verdict!vars
<1> DEFINE told == [c \in Coordinators |->
                      IF coord[c].pc = "RETURNED" THEN coord[c].draft.decision ELSE "NONE"]
<1>1. truth' = truth
  BY TruthRigid
<1>2. ASSUME job'.aggregate = job.aggregate, told' = told
      PROVE  UNCHANGED Verdict!vars
  BY <1>1, <1>2 DEF Verdict!vars
<1>3. ASSUME job' = job, \A c \in Coordinators : CoordKept(c)
      PROVE  UNCHANGED Verdict!vars
  BY <1>2, <1>3 DEF CoordKept
<1>4. ASSUME NEW c \in Coordinators,
             Start(c) \/ PollStep(c) \/ FinalizeStep(c) \/ CrashCoordinator(c)
      PROVE  [Verdict!Next]_Verdict!vars
  <2>1. \A d \in Coordinators : d # c => coord'[d] = coord[d]
    BY <1>4, OthersKept DEF IInv
  <2>2. CASE Undecided(c)
    BY <1>2, <2>1, <2>2 DEF Undecided, JobKept, CoordKept
  <2>3. CASE Drafts(c)
    BY <1>2, <2>1, <2>3 DEF Drafts, JobKept
  <2>4. CASE Decides(c)
    <3>1. SoundAggregate(coord[c].draft) /\ coord[c].draft.decision # "NONE"
      BY <2>4 DEF IInv, AggregatesSound, Decides
    <3>2. coord[c].draft.decision \in Verdict!Verdicts
      BY <3>1 DEF IInv, TypeOK, CoordRecord, Aggregate, Decision, Verdict!Verdicts
    <3>3. job.aggregate.decision = "NONE"
      BY <2>4 DEF Decides, Finalized, NoAggregate
    <3>4. told' = [told EXCEPT ![c] = coord[c].draft.decision]
      BY <2>1, <2>4 DEF Decides
    <3>5. Verdict!Decide(c)
      BY <1>1, <2>4, <3>1, <3>2, <3>3, <3>4
         DEF Decides, Verdict!Decide, Verdict!Justified, SoundAggregate
    <3>6. QED
      BY <3>5 DEF Verdict!Next
  <2>5. CASE Learns(c)
    <3>1. told' = [told EXCEPT ![c] = job.aggregate.decision]
      BY <2>1, <2>5 DEF Learns
    <3>2. Verdict!Learn(c)
      BY <1>1, <2>5, <3>1 DEF IInv, AggregatesSound, Learns, JobKept, Verdict!Learn
    <3>3. QED
      BY <3>2 DEF Verdict!Next
  <2>6. CASE Forgets(c)
    <3>1. told' = [told EXCEPT ![c] = "NONE"]
      BY <2>1, <2>6 DEF Forgets
    <3>2. Verdict!Forget(c)
      BY <1>1, <2>6, <3>1 DEF Forgets, JobKept, Verdict!Forget
    <3>3. QED
      BY <3>2 DEF Verdict!Next
  <2>7. QED
    BY <1>4, <2>2, <2>3, <2>4, <2>5, <2>6, CoordinatorOutcome DEF IInv
<1>5. QED
  <2>1. TypeOK
    BY DEF IInv
  <2>2. QED
    BY <1>3, <1>4, <2>1, EnvironmentKeeps DEF Next

\* The scan implements the one-verdict specification.
THEOREM Refinement == Spec => ImplementsVerdict
<1>1. IInv /\ [Next]_vars => [Verdict!Next]_Verdict!vars
  BY VerdictStep
<1>2. QED
  BY VerdictInit, Invariant, <1>1, PTL DEF Spec, ImplementsVerdict, Verdict!Spec

=============================================================================
