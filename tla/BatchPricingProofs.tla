-------------------------- MODULE BatchPricingProofs --------------------------
(***************************************************************************)
(* The remote half of a batch (impact/resilience.py, the tasks of          *)
(* BatchProcessor._remote) lends every permit once and hands it on, its    *)
(* breaker counts right and a trip is for good, for every number of        *)
(* chunks, permits and attempts and every threshold.  So it does beside    *)
(* the quota: a behaviour of the two is, seen by each, a behaviour of its  *)
(* own specification, and what is proved of the one alone holds of both.   *)
(***************************************************************************)
EXTENDS MCConnectorTraffic, RateLimiterProofs, FiniteSetTheorems, SequenceTheorems, TLAPS

-----------------------------------------------------------------------------
(* The breaker *)

\* BreakerCounts of any breaker.
Counts(b) ==
    /\ b.open = "NO" => b.fails < Threshold
    /\ (b.open # "NO" \/ b.tripped) => b.opened

\* allow(): the trial starts one failure short of opening.
LEMMA AllowCounts ==
    ASSUME NEW b \in Breaker, Counts(b)
    PROVE  /\ AfterAllow(b) \in Breaker
           /\ Counts(AfterAllow(b))
           /\ b.tripped => AfterAllow(b).tripped
<1>1. Threshold - 1 \in Nat /\ Threshold - 1 < Threshold
    BY PricingAssumption
<1>2. AfterAllow(b) \in Breaker
    BY <1>1 DEF Breaker, AfterAllow
<1>3. CASE b.open = "COOLED"
  <2>1. /\ AfterAllow(b).fails = Threshold - 1 /\ AfterAllow(b).open = "NO"
        /\ AfterAllow(b).tripped = b.tripped /\ AfterAllow(b).opened = b.opened
      BY <1>3 DEF Breaker, AfterAllow
  <2> QED
      BY <1>1, <1>2, <1>3, <2>1 DEF Counts
<1>4. CASE b.open # "COOLED"
    BY <1>2, <1>4 DEF AfterAllow
<1> QED
    BY <1>3, <1>4

LEMMA SuccessCounts ==
    ASSUME NEW b \in Breaker, Counts(b)
    PROVE  /\ AfterSuccess(b) \in Breaker
           /\ Counts(AfterSuccess(b))
           /\ b.tripped => AfterSuccess(b).tripped
<1>1. /\ AfterSuccess(b) \in Breaker
      /\ AfterSuccess(b).fails = 0 /\ AfterSuccess(b).open = "NO"
      /\ AfterSuccess(b).tripped = b.tripped /\ AfterSuccess(b).opened = b.opened
    BY DEF Breaker, AfterSuccess
<1> QED
    BY <1>1, PricingAssumption DEF Counts

\* record_failure(): the failure that reaches the threshold opens the breaker.
LEMMA FailureCounts ==
    ASSUME NEW b \in Breaker, Counts(b), NEW code
    PROVE  /\ AfterFailure(b, code) \in Breaker
           /\ Counts(AfterFailure(b, code))
           /\ b.tripped => AfterFailure(b, code).tripped
<1> DEFINE c == AfterFailure(b, code)
<1>1. CASE Systemic(code)
  <2>1. c = [b EXCEPT !.tripped = TRUE, !.opened = TRUE]
      BY <1>1 DEF AfterFailure
  <2>2. /\ c \in Breaker
        /\ c.fails = b.fails /\ c.open = b.open /\ c.tripped /\ c.opened
      BY <2>1 DEF Breaker
  <2> QED
      BY <2>2 DEF Counts
<1>2. CASE ~Systemic(code) /\ b.fails + 1 >= Threshold /\ b.open = "NO"
  <2>1. c = [b EXCEPT !.fails = @ + 1, !.open = "YES", !.opened = TRUE]
      BY <1>2 DEF AfterFailure
  <2>2. c \in Breaker
    <3>1. b.fails + 1 \in Nat
        BY DEF Breaker
    <3> QED
        BY <2>1, <3>1, Zenon DEF Breaker
  <2>3. c.open = "YES" /\ c.tripped = b.tripped /\ c.opened
      BY <2>1 DEF Breaker
  <2> QED
      BY <2>2, <2>3 DEF Counts
<1>3. CASE ~Systemic(code) /\ ~(b.fails + 1 >= Threshold /\ b.open = "NO")
  <2>1. c = [b EXCEPT !.fails = @ + 1]
      BY <1>3 DEF AfterFailure
  <2>2. /\ c \in Breaker
        /\ c.fails = b.fails + 1 /\ c.open = b.open /\ c.tripped = b.tripped /\ c.opened = b.opened
      BY <2>1 DEF Breaker
  <2>3. b.open = "NO" => b.fails + 1 < Threshold
      BY <1>3, PricingAssumption DEF Breaker
  <2> QED
      BY <2>2, <2>3 DEF Counts
<1> QED
    BY <1>1, <1>2, <1>3

-----------------------------------------------------------------------------
(* The semaphore *)

TaskState == [pc : {"NEW", "POLL", "QUEUED", "SEND", "CALL", "BACKOFF", "DONE"},
              attempt : 0 .. Attempts, rows : SUBSET Kinds]

\* The states in which a task has a permit.
InUse == {"SEND", "CALL", "BACKOFF"}

\* The part of the invariant about tasks and permits.
Permitted ==
    /\ task \in [Tasks -> TaskState]
    /\ queue \in Seq(Tasks)
    /\ AttemptsLeft
    /\ PermitsAccountedFor

LEMMA SendingFinite ==
    ASSUME NEW S \in SUBSET Tasks
    PROVE  IsFiniteSet(S) /\ Cardinality(S) \in Nat
<1>1. 1 \in Int /\ Chunks \in Int
    BY PricingAssumption
<1>2. IsFiniteSet(Tasks)
    BY <1>1, FS_Interval DEF Tasks
<1> QED
    BY <1>2, FS_Subset, FS_CardinalityType

\* A task that keeps its permit, or goes on without one, disturbs nobody.
LEMMA StayStep ==
    ASSUME Permitted, NEW t \in Tasks, NEW r \in TaskState,
           task' = [task EXCEPT ![t] = r], UNCHANGED queue,
           task[t].pc # "QUEUED", r.pc # "QUEUED", r.pc \in InUse <=> task[t].pc \in InUse,
           r.pc = "BACKOFF" => r.attempt < Attempts
    PROVE  Permitted'
<1>1. \A s \in Tasks : task'[s] = IF s = t THEN r ELSE task[s]
    BY DEF Permitted
<1>2. task' \in [Tasks -> TaskState] /\ queue' \in Seq(Tasks)
    BY DEF Permitted
<1>3. AttemptsLeft'
    BY <1>1 DEF Permitted, AttemptsLeft
<1>4. Sending' = Sending
    BY <1>1 DEF Sending, InUse
<1>5. {s \in Tasks : task'[s].pc = "QUEUED"} = {s \in Tasks : task[s].pc = "QUEUED"}
    BY <1>1
<1>6. PermitsAccountedFor'
    BY <1>4, <1>5 DEF Permitted, PermitsAccountedFor
<1> QED
    BY <1>2, <1>3, <1>6 DEF Permitted

\* While a permit is free nobody waits for one.
LEMMA LendStep ==
    ASSUME Permitted, NEW t \in Tasks, task' = [task EXCEPT ![t].pc = "SEND"],
           UNCHANGED queue, task[t].pc \in {"NEW", "POLL"}, Cardinality(Sending) < Permits
    PROVE  Permitted'
<1>1. \A s \in Tasks : task'[s] = IF s = t THEN [task[t] EXCEPT !.pc = "SEND"] ELSE task[s]
    BY DEF Permitted
<1>2. task[t] \in TaskState
    BY DEF Permitted
<1>3. [task[t] EXCEPT !.pc = "SEND"] \in TaskState /\ [task[t] EXCEPT !.pc = "SEND"].pc = "SEND"
    BY <1>2 DEF TaskState
<1>4. task' \in [Tasks -> TaskState] /\ queue' \in Seq(Tasks)
    BY <1>3 DEF Permitted
<1>5. AttemptsLeft'
    BY <1>1, <1>3 DEF Permitted, AttemptsLeft
<1>6. Sending' = Sending \cup {t} /\ t \notin Sending
    BY <1>1, <1>3 DEF Sending
<1>7. Sending \in SUBSET Tasks
    BY DEF Sending
<1>8. IsFiniteSet(Sending) /\ Cardinality(Sending) \in Nat
    BY <1>7, SendingFinite
<1>9. Cardinality(Sending') = Cardinality(Sending) + 1
    BY <1>6, <1>8, FS_AddElement
<1>10. queue = <<>>
    BY <1>8, PricingAssumption DEF Permitted, PermitsAccountedFor
<1>11. {s \in Tasks : task'[s].pc = "QUEUED"} = {s \in Tasks : task[s].pc = "QUEUED"}
    BY <1>1, <1>3
<1>12. PermitsAccountedFor'
    BY <1>8, <1>9, <1>10, <1>11, PricingAssumption DEF Permitted, PermitsAccountedFor
<1> QED
    BY <1>4, <1>5, <1>12 DEF Permitted

\* All permits are in use: the task waits behind the others.
LEMMA WaitStep ==
    ASSUME Permitted, NEW t \in Tasks, task' = [task EXCEPT ![t].pc = "QUEUED"],
           queue' = Append(queue, t), task[t].pc \in {"NEW", "POLL"},
           ~(Cardinality(Sending) < Permits)
    PROVE  Permitted'
<1>1. \A s \in Tasks : task'[s] = IF s = t THEN [task[t] EXCEPT !.pc = "QUEUED"] ELSE task[s]
    BY DEF Permitted
<1>2. task[t] \in TaskState /\ queue \in Seq(Tasks) /\ PermitsAccountedFor
    BY DEF Permitted
<1>3. /\ [task[t] EXCEPT !.pc = "QUEUED"] \in TaskState
      /\ [task[t] EXCEPT !.pc = "QUEUED"].pc = "QUEUED"
    BY <1>2 DEF TaskState
<1>4. task' \in [Tasks -> TaskState]
    BY <1>3 DEF Permitted
<1>5. AttemptsLeft'
    BY <1>1, <1>3 DEF Permitted, AttemptsLeft
<1>6. /\ queue' \in Seq(Tasks) /\ Len(queue') = Len(queue) + 1 /\ Len(queue) \in Nat
      /\ \A i \in 1 .. Len(queue) : queue'[i] = queue[i]
      /\ queue'[Len(queue) + 1] = t
    BY <1>2, AppendProperties
<1>7. DOMAIN queue = 1 .. Len(queue) /\ DOMAIN queue' = 1 .. Len(queue) + 1
    BY <1>2, <1>6
<1>8. Sending' = Sending
    BY <1>1, <1>3 DEF Sending
<1>9. Sending \in SUBSET Tasks
    BY DEF Sending
<1>10. Cardinality(Sending) = Permits
    BY <1>2, <1>9, SendingFinite, PricingAssumption DEF PermitsAccountedFor
<1>11. \A i \in DOMAIN queue : queue[i] # t
    BY <1>2 DEF PermitsAccountedFor
<1>12. {queue'[i] : i \in DOMAIN queue'} = {queue[i] : i \in DOMAIN queue} \cup {t}
    BY <1>6, <1>7
<1>13. {s \in Tasks : task'[s].pc = "QUEUED"} = {s \in Tasks : task[s].pc = "QUEUED"} \cup {t}
    BY <1>1, <1>3
<1>14. \A i, j \in DOMAIN queue' : queue'[i] = queue'[j] => i = j
  <2> SUFFICES ASSUME NEW i \in DOMAIN queue', NEW j \in DOMAIN queue', queue'[i] = queue'[j]
               PROVE  i = j
      OBVIOUS
  <2>1. (i \in DOMAIN queue \/ i = Len(queue) + 1) /\ (j \in DOMAIN queue \/ j = Len(queue) + 1)
      BY <1>6, <1>7
  <2> QED
      BY <1>2, <1>6, <1>7, <1>11, <2>1 DEF PermitsAccountedFor
<1>15. PermitsAccountedFor'
    BY <1>2, <1>8, <1>10, <1>12, <1>13, <1>14, PricingAssumption DEF PermitsAccountedFor
<1> QED
    BY <1>4, <1>5, <1>6, <1>15 DEF Permitted

\* The record of a task that is over.
Over(t, kinds) == [task[t] EXCEPT !.pc = "DONE", !.rows = kinds]

LEMMA OverState ==
    ASSUME NEW t, task[t] \in TaskState, NEW kinds \in SUBSET Kinds
    PROVE  Over(t, kinds) \in TaskState /\ Over(t, kinds).pc = "DONE"
    BY DEF TaskState, Over

\* Nobody waits: the permit is free again.
LEMMA ReleaseStep ==
    ASSUME Permitted, NEW t \in Tasks, NEW kinds \in SUBSET Kinds, task[t].pc \in InUse,
           task' = Answered(t, kinds), queue = <<>>, UNCHANGED queue
    PROVE  Permitted'
<1>1. task[t] \in TaskState /\ task \in [Tasks -> TaskState]
    BY DEF Permitted
<1>2. task' = [task EXCEPT ![t] = Over(t, kinds)]
    BY DEF Answered, Over
<1>3. \A s \in Tasks : task'[s] = IF s = t THEN Over(t, kinds) ELSE task[s]
    BY <1>1, <1>2
<1>4. task' \in [Tasks -> TaskState] /\ queue' \in Seq(Tasks)
    BY <1>1, <1>2, OverState DEF Permitted
<1>5. AttemptsLeft'
    BY <1>1, <1>3, OverState DEF Permitted, AttemptsLeft
<1>6. Sending' = Sending \ {t}
    BY <1>1, <1>3, OverState DEF Sending, InUse
<1>7. Sending \in SUBSET Tasks /\ t \in Sending
    BY DEF Sending, InUse
<1>8. Cardinality(Sending') = Cardinality(Sending) - 1 /\ Cardinality(Sending) \in Nat
    BY <1>6, <1>7, SendingFinite, FS_RemoveElement
<1>9. {s \in Tasks : task'[s].pc = "QUEUED"} = {s \in Tasks : task[s].pc = "QUEUED"}
    BY <1>1, <1>3, OverState DEF InUse
<1>10. PermitsAccountedFor'
    BY <1>8, <1>9, PricingAssumption DEF Permitted, PermitsAccountedFor
<1> QED
    BY <1>4, <1>5, <1>10 DEF Permitted

\* The permit goes to the task that waits longest, which waits only once.
LEMMA HandOnStep ==
    ASSUME Permitted, NEW t \in Tasks, NEW kinds \in SUBSET Kinds, task[t].pc \in InUse,
           task' = [Answered(t, kinds) EXCEPT ![Head(queue)].pc = "SEND"],
           queue # <<>>, queue' = Tail(queue)
    PROVE  Permitted'
<1> DEFINE h == Head(queue)
           send == [task[h] EXCEPT !.pc = "SEND"]
<1>1. /\ task[t] \in TaskState /\ task \in [Tasks -> TaskState]
      /\ queue \in Seq(Tasks) /\ PermitsAccountedFor
    BY DEF Permitted
<1>2. /\ h \in Tasks /\ queue' \in Seq(Tasks)
      /\ Len(queue') = Len(queue) - 1
      /\ \A i \in 1 .. Len(queue') : queue'[i] = queue[i + 1]
    BY <1>1, HeadTailProperties
<1>3. h = queue[1] /\ Len(queue) \in Nat \ {0}
    BY <1>1
<1>4. DOMAIN queue = 1 .. Len(queue) /\ DOMAIN queue' = 1 .. Len(queue) - 1
    BY <1>1, <1>2
<1>5. task[h].pc = "QUEUED" /\ h # t
    BY <1>1, <1>3, <1>4 DEF PermitsAccountedFor, InUse
<1>6. send \in TaskState /\ send.pc = "SEND"
    BY <1>1, <1>2 DEF TaskState
<1>7. \A s \in Tasks : task'[s] = IF s = h THEN send ELSE IF s = t THEN Over(t, kinds)
                                  ELSE task[s]
    BY <1>1, <1>2, <1>5 DEF Answered, Over
<1> HIDE DEF h, send
<1>8. task' \in [Tasks -> TaskState]
  <2>1. task' = [s \in Tasks |-> task'[s]]
      BY <1>1 DEF Answered
  <2>2. \A s \in Tasks : task'[s] \in TaskState
      BY <1>1, <1>6, <1>7, OverState
  <2> QED
      BY <2>1, <2>2
<1>9. AttemptsLeft'
    BY <1>1, <1>6, <1>7, OverState DEF Permitted, AttemptsLeft
<1>10. Sending' = (Sending \ {t}) \cup {h}
  <2>1. /\ task'[h].pc = "SEND" /\ task'[t].pc = "DONE"
        /\ \A s \in Tasks : s # h /\ s # t => task'[s] = task[s]
    <3>1. task'[h] = send /\ task'[t] = Over(t, kinds)
        BY <1>2, <1>5, <1>7
    <3>2. Over(t, kinds).pc = "DONE"
        BY <1>1, OverState
    <3>3. \A s \in Tasks : s # h /\ s # t => task'[s] = task[s]
        BY <1>7
    <3> QED
        BY <1>6, <3>1, <3>2, <3>3
  <2>2. h # t
      BY <1>5
  <2> QED
      BY <1>2, <2>1, <2>2 DEF Sending
<1>11. /\ Sending \in SUBSET Tasks /\ Sending \ {t} \in SUBSET Tasks
       /\ t \in Sending /\ h \notin Sending \ {t}
    BY <1>5 DEF Sending, InUse
<1>12. Cardinality(Sending') = Cardinality(Sending)
  <2>1. IsFiniteSet(Sending) /\ Cardinality(Sending) \in Nat /\ IsFiniteSet(Sending \ {t})
      BY <1>11, SendingFinite
  <2>2. Cardinality(Sending \ {t}) = Cardinality(Sending) - 1
      BY <1>11, <2>1, FS_RemoveElement
  <2>3. Cardinality(Sending') = Cardinality(Sending \ {t}) + 1
      BY <1>10, <1>11, <2>1, FS_AddElement
  <2> QED
      BY <2>1, <2>2, <2>3
<1>13. {s \in Tasks : task'[s].pc = "QUEUED"} = {s \in Tasks : task[s].pc = "QUEUED"} \ {h}
    BY <1>1, <1>5, <1>6, <1>7, OverState DEF InUse
<1>14. {queue'[i] : i \in DOMAIN queue'} = {queue[i] : i \in DOMAIN queue} \ {h}
  <2>1. ASSUME NEW i \in DOMAIN queue' PROVE queue'[i] \in {queue[j] : j \in DOMAIN queue} \ {h}
    <3>1. i + 1 \in DOMAIN queue /\ i + 1 # 1 /\ 1 \in DOMAIN queue
        BY <1>3, <1>4
    <3>2. queue[i + 1] # queue[1]
        BY <1>1, <3>1 DEF PermitsAccountedFor
    <3> QED
        BY <1>2, <1>3, <1>4, <3>1, <3>2
  <2>2. ASSUME NEW j \in DOMAIN queue, queue[j] # h
        PROVE  queue[j] \in {queue'[i] : i \in DOMAIN queue'}
    <3>1. j # 1 /\ j - 1 \in DOMAIN queue' /\ j - 1 + 1 = j
        BY <1>3, <1>4, <2>2
    <3> QED
        BY <1>2, <1>4, <3>1
  <2> QED
      BY <2>1, <2>2
<1>15. \A i, j \in DOMAIN queue' : queue'[i] = queue'[j] => i = j
  <2> SUFFICES ASSUME NEW i \in DOMAIN queue', NEW j \in DOMAIN queue', queue'[i] = queue'[j]
               PROVE  i = j
      OBVIOUS
  <2>1. i + 1 \in DOMAIN queue /\ j + 1 \in DOMAIN queue
      BY <1>3, <1>4
  <2>2. queue[i + 1] = queue[j + 1]
      BY <1>2, <1>4
  <2>3. i + 1 = j + 1
      BY <1>1, <2>1, <2>2 DEF PermitsAccountedFor
  <2> QED
      BY <1>4, <2>3
<1>16. PermitsAccountedFor'
  <2>1. Cardinality(Sending) = Permits
      BY <1>1 DEF PermitsAccountedFor
  <2> QED
      BY <1>1, <1>12, <1>13, <1>14, <1>15, <2>1, PricingAssumption DEF PermitsAccountedFor
<1> QED
    BY <1>2, <1>8, <1>9, <1>16 DEF Permitted

LEMMA FinishStep ==
    ASSUME Permitted, NEW t \in Tasks, NEW kinds \in SUBSET Kinds, NEW b,
           task[t].pc \in InUse, Finish(t, kinds, b)
    PROVE  Permitted'
    BY ReleaseStep, HandOnStep DEF Finish

-----------------------------------------------------------------------------
(* The steps of a task *)

\* A trip is for good and lets nobody through: one step of TrippedForGood.
TripStays ==
    breaker.tripped =>
        /\ breaker'.tripped
        /\ \A s \in Tasks : task[s].pc \in {"NEW", "POLL"} => task'[s].pc \notin {"QUEUED", "SEND"}

\* What every step keeps.
Steady == Permitted /\ breaker \in Breaker /\ Counts(breaker)

\* A task that holds no permit is over.
LEMMA AnswerKeeps ==
    ASSUME Steady, NEW t \in Tasks, task[t].pc \in {"NEW", "POLL"}, NEW kinds \in SUBSET Kinds,
           task' = Answered(t, kinds), UNCHANGED <<queue, breaker>>
    PROVE  Steady' /\ TripStays
<1>1. task \in [Tasks -> TaskState] /\ task[t] \in TaskState /\ task[t].pc \notin InUse
    BY DEF Steady, Permitted, InUse
<1>2. task' = [task EXCEPT ![t] = Over(t, kinds)]
    BY <1>1 DEF Answered, Over
<1>3. Over(t, kinds) \in TaskState /\ Over(t, kinds).pc = "DONE"
    BY <1>1, OverState
<1>4. Permitted'
    BY <1>1, <1>2, <1>3, StayStep DEF Steady, InUse
<1>5. \A s \in Tasks : task'[s] = IF s = t THEN Over(t, kinds) ELSE task[s]
    BY <1>1, <1>2
<1>6. TripStays
    BY <1>3, <1>5 DEF TripStays
<1> QED
    BY <1>4, <1>6 DEF Steady

LEMMA PassOnKeeps ==
    ASSUME Steady, NEW t \in Tasks, NEW says, task[t].pc \in {"NEW", "POLL"}, PassOn(t, says)
    PROVE  Steady' /\ TripStays
<1>1. ASSUME NEW kinds \in SUBSET Kinds, task' = Answered(t, kinds), UNCHANGED <<queue, breaker>>
      PROVE  Steady' /\ TripStays
    BY <1>1, AnswerKeeps
<1>2. CASE says
  <2>1. task' = Answered(t, {"AGAIN"}) /\ UNCHANGED <<queue, breaker>>
      BY <1>2 DEF PassOn
  <2> QED
      BY <1>1, <2>1 DEF Kinds
<1>3. CASE ~says /\ ~Allows(breaker)
  <2> DEFINE kind == IF breaker.tripped THEN "FAILED" ELSE "AGAIN"
  <2>1. task' = Answered(t, {kind}) /\ UNCHANGED <<queue, breaker>>
      BY <1>3 DEF PassOn
  <2>2. {kind} \in SUBSET Kinds
      BY DEF Kinds
  <2> QED
      BY <1>1, <2>1, <2>2
<1>4. CASE ~says /\ Allows(breaker)
  <2>1. /\ breaker' = AfterAllow(breaker)
        /\ IF Cardinality(Sending) < Permits
           THEN task' = [task EXCEPT ![t].pc = "SEND"] /\ UNCHANGED queue
           ELSE task' = [task EXCEPT ![t].pc = "QUEUED"] /\ queue' = Append(queue, t)
      BY <1>4 DEF PassOn
  <2>2. Permitted'
      BY <2>1, LendStep, WaitStep DEF Steady
  <2>3. breaker' \in Breaker /\ Counts(breaker')
      BY <2>1, AllowCounts DEF Steady
  <2>4. TripStays
      BY <1>4 DEF Allows, TripStays
  <2> QED
      BY <2>2, <2>3, <2>4 DEF Steady, Counts
<1> QED
    BY <1>2, <1>3, <1>4

LEMMA FinishKeeps ==
    ASSUME Steady, NEW t \in Tasks, task[t].pc \in InUse, NEW kinds \in SUBSET Kinds,
           NEW b \in Breaker, Counts(b), breaker.tripped => b.tripped, Finish(t, kinds, b)
    PROVE  Steady' /\ TripStays
<1>1. task \in [Tasks -> TaskState] /\ queue \in Seq(Tasks) /\ PermitsAccountedFor
    BY DEF Steady, Permitted
<1>2. breaker' = b
    BY DEF Finish
<1>3. Steady'
    BY <1>2, FinishStep DEF Steady, Counts
<1>4. \A s \in Tasks : task[s].pc \in {"NEW", "POLL"} => task'[s] = task[s]
  <2> SUFFICES ASSUME NEW s \in Tasks, task[s].pc \in {"NEW", "POLL"} PROVE task'[s] = task[s]
      OBVIOUS
  <2>1. s # t
      BY DEF InUse
  <2>2. CASE queue = <<>>
      BY <1>1, <2>1, <2>2 DEF Finish, Answered
  <2>3. CASE queue # <<>>
    <3>1. Head(queue) = queue[1] /\ 1 \in DOMAIN queue
        BY <1>1, <2>3
    <3>2. Head(queue) \in Tasks /\ task[Head(queue)].pc = "QUEUED"
        BY <1>1, <3>1 DEF PermitsAccountedFor
    <3> QED
        BY <1>1, <2>1, <2>3, <3>2 DEF Finish, Answered
  <2> QED
      BY <2>2, <2>3
<1> QED
    BY <1>2, <1>3, <1>4 DEF TripStays

LEMMA FailKeeps ==
    ASSUME Steady, NEW t \in Tasks, task[t].pc \in InUse, NEW code, Fail(t, code)
    PROVE  Steady' /\ TripStays
<1> DEFINE b == AfterFailure(breaker, code)
           kinds == {IF Transient(code) THEN "AGAIN" ELSE "FAILED"}
<1>1. b \in Breaker /\ Counts(b) /\ (breaker.tripped => b.tripped)
    BY FailureCounts DEF Steady
<1>2. kinds \in SUBSET Kinds
    BY DEF Kinds
<1>3. Finish(t, kinds, b)
    BY DEF Fail
<1> HIDE DEF b, kinds
<1> QED
    BY <1>1, <1>2, <1>3, FinishKeeps

\* A task that keeps its permit through the step.
LEMMA CarryOnKeeps ==
    ASSUME Steady, NEW t \in Tasks, task[t].pc \in InUse, NEW r \in TaskState,
           task' = [task EXCEPT ![t] = r], UNCHANGED <<queue, breaker>>,
           r.pc \in InUse, r.pc = "BACKOFF" => r.attempt < Attempts
    PROVE  Steady' /\ TripStays
<1>1. task[t].pc # "QUEUED" /\ r.pc # "QUEUED"
    BY DEF InUse
<1>2. Permitted'
    BY <1>1, StayStep DEF Steady
<1>3. \A s \in Tasks : task[s].pc \in {"NEW", "POLL"} => task'[s] = task[s]
    BY DEF Steady, Permitted, InUse
<1> QED
    BY <1>2, <1>3 DEF Steady, TripStays

LEMMA StartKeeps ==
    ASSUME PricingTypes, Steady, NEW t \in Tasks, StartTask(t)
    PROVE  Steady' /\ TripStays
<1>1. CASE poll.fresh
    BY <1>1, PassOnKeeps DEF StartTask
<1>2. CASE ~poll.fresh
  <2> DEFINE r == [task[t] EXCEPT !.pc = "POLL"]
  <2>1. task \in [Tasks -> TaskState] /\ task[t] \in TaskState /\ task[t].pc = "NEW"
      BY DEF Steady, Permitted, StartTask
  <2>2. r \in TaskState /\ r.pc = "POLL"
      BY <2>1 DEF TaskState
  <2>3. task' = [task EXCEPT ![t] = r] /\ UNCHANGED <<queue, breaker>>
      BY <1>2 DEF StartTask
  <2> HIDE DEF r
  <2>4. Permitted'
      BY <2>1, <2>2, <2>3, StayStep DEF Steady, InUse
  <2>5. \A s \in Tasks : task'[s] = IF s = t THEN r ELSE task[s]
      BY <2>1, <2>3
  <2> QED
      BY <2>2, <2>3, <2>4, <2>5 DEF Steady, TripStays
<1> QED
    BY <1>1, <1>2

LEMMA SendKeeps ==
    ASSUME Steady, NEW t \in Tasks, Send(t)
    PROVE  Steady' /\ TripStays
<1>1. task \in [Tasks -> TaskState] /\ task[t] \in TaskState /\ task[t].pc = "SEND"
    BY DEF Steady, Permitted, Send
<1>2. CASE \E code \in PreflightFailures : Fail(t, code)
    BY <1>1, <1>2, FailKeeps DEF InUse
<1>3. CASE late /\ Fail(t, BudgetExceeded)
    BY <1>1, <1>3, FailKeeps DEF InUse
<1>4. CASE /\ task' = [task EXCEPT ![t].pc = "CALL", ![t].attempt = 1]
           /\ UNCHANGED <<queue, breaker>>
  <2> DEFINE r == [task[t] EXCEPT !.pc = "CALL", !.attempt = 1]
  <2>1. 1 \in 0 .. Attempts
      BY PricingAssumption
  <2>2. r \in TaskState /\ r.pc = "CALL"
      BY <1>1, <2>1 DEF TaskState
  <2>3. task' = [task EXCEPT ![t] = r]
      BY <1>1, <1>4
  <2> HIDE DEF r
  <2> QED
      BY <1>1, <1>4, <2>2, <2>3, CarryOnKeeps DEF InUse
<1> QED
    BY <1>2, <1>3, <1>4 DEF Send

LEMMA AttemptFailsKeeps ==
    ASSUME Steady, NEW t \in Tasks, AttemptFails(t)
    PROVE  Steady' /\ TripStays
<1>1. task \in [Tasks -> TaskState] /\ task[t] \in TaskState /\ task[t].pc = "CALL"
    BY DEF Steady, Permitted, AttemptFails
<1>2. PICK code \in AttemptFailures(Batched) :
        IF code \in RetryableCodes /\ task[t].attempt < Attempts
        THEN task' = [task EXCEPT ![t].pc = "BACKOFF"] /\ UNCHANGED <<queue, breaker>>
        ELSE Fail(t, code)
    BY DEF AttemptFails
<1>3. CASE code \in RetryableCodes /\ task[t].attempt < Attempts
  <2> DEFINE r == [task[t] EXCEPT !.pc = "BACKOFF"]
  <2>1. r \in TaskState /\ r.pc = "BACKOFF" /\ r.attempt < Attempts
      BY <1>1, <1>3 DEF TaskState
  <2>2. task' = [task EXCEPT ![t] = r] /\ UNCHANGED <<queue, breaker>>
      BY <1>2, <1>3
  <2> HIDE DEF r
  <2> QED
      BY <1>1, <2>1, <2>2, CarryOnKeeps DEF InUse
<1>4. CASE ~(code \in RetryableCodes /\ task[t].attempt < Attempts)
    BY <1>1, <1>2, <1>4, FailKeeps DEF InUse
<1> QED
    BY <1>3, <1>4

LEMMA AttemptAnswersKeeps ==
    ASSUME Steady, NEW t \in Tasks, AttemptAnswers(t)
    PROVE  Steady' /\ TripStays
<1>1. task[t].pc \in InUse
    BY DEF AttemptAnswers, InUse
<1>2. PICK kinds \in (IF Batched THEN SUBSET Kinds \ {{}} ELSE {{"PRICED"}, {"FAILED"}}) :
        Finish(t, kinds,
               IF "AGAIN" \in kinds /\ "PRICED" \notin kinds
               THEN AfterFailure(breaker, "CONNECTOR_ITEM_TRANSIENT")
               ELSE AfterSuccess(breaker))
    BY DEF AttemptAnswers
<1>3. kinds \in SUBSET Kinds
    BY DEF Kinds
<1>4. CASE "AGAIN" \in kinds /\ "PRICED" \notin kinds
  <2>1. Finish(t, kinds, AfterFailure(breaker, "CONNECTOR_ITEM_TRANSIENT"))
      BY <1>2, <1>4
  <2> QED
      BY <1>1, <1>3, <2>1, FailureCounts, FinishKeeps DEF Steady
<1>5. CASE ~("AGAIN" \in kinds /\ "PRICED" \notin kinds)
  <2>1. Finish(t, kinds, AfterSuccess(breaker))
      BY <1>2, <1>5
  <2> QED
      BY <1>1, <1>3, <2>1, SuccessCounts, FinishKeeps DEF Steady
<1> QED
    BY <1>4, <1>5

LEMMA RetryKeeps ==
    ASSUME Steady, NEW t \in Tasks, Retry(t)
    PROVE  Steady' /\ TripStays
<1>1. /\ task \in [Tasks -> TaskState] /\ task[t] \in TaskState
      /\ task[t].pc = "BACKOFF" /\ task[t].attempt < Attempts
    BY DEF Steady, Permitted, Retry, AttemptsLeft
<1>2. CASE late
    BY <1>1, <1>2, FailKeeps DEF Retry, InUse
<1>3. CASE ~late
  <2> DEFINE n == task[t].attempt + 1
             r == [task[t] EXCEPT !.pc = "CALL", !.attempt = n]
  <2>1. n \in 0 .. Attempts
      BY <1>1, PricingAssumption DEF TaskState
  <2>2. task' = [task EXCEPT ![t] = r] /\ UNCHANGED <<queue, breaker>>
      BY <1>1, <1>3 DEF Retry
  <2> HIDE DEF n
  <2>3. r \in TaskState /\ r.pc = "CALL"
      BY <1>1, <2>1 DEF TaskState
  <2> HIDE DEF r
  <2> QED
      BY <1>1, <2>2, <2>3, CarryOnKeeps DEF InUse
<1> QED
    BY <1>2, <1>3

-----------------------------------------------------------------------------
(* The inductive invariant *)

LEMMA PricingIInvIs == PricingIInv <=> PricingTypes /\ Steady
    BY DEF PricingIInv, PricingTypes, Steady, Permitted, TaskState, BreakerCounts, Counts

LEMMA TaskKeeps ==
    ASSUME PricingTypes, Steady, NEW t \in Tasks, TaskStep(t)
    PROVE  Steady' /\ TripStays
<1>1. CASE PollReturns(t)
    BY <1>1, PassOnKeeps DEF PollReturns
<1>2. CASE ~PollReturns(t)
    BY <1>2, StartKeeps, SendKeeps, AttemptFailsKeeps, AttemptAnswersKeeps, RetryKeeps DEF TaskStep
<1> QED
    BY <1>1, <1>2

LEMMA RefusalKeeps ==
    ASSUME Steady, EntryRefused
    PROVE  Steady' /\ TripStays
<1>1. /\ task \in [Tasks -> TaskState] /\ PermitsAccountedFor /\ queue \in Seq(Tasks)
      /\ \A t \in Tasks : task[t].pc = "NEW"
    BY DEF Steady, Permitted, EntryRefused
<1> DEFINE r == [pc |-> "DONE", attempt |-> 0, rows |-> {"FAILED"}]
<1>2. r \in TaskState /\ r.pc = "DONE"
    BY PricingAssumption DEF TaskState, Kinds
<1>3. task' = [t \in Tasks |-> r] /\ UNCHANGED <<queue, breaker>>
    BY DEF EntryRefused
<1> HIDE DEF r
<1>4. \A t \in Tasks : task'[t] = r
    BY <1>3
<1>5. Sending' = {} /\ {t \in Tasks : task'[t].pc = "QUEUED"} = {}
    BY <1>2, <1>4 DEF Sending
<1>6. {t \in Tasks : task[t].pc = "QUEUED"} = {}
    BY <1>1
<1>7. queue = <<>>
    BY <1>1, <1>6 DEF PermitsAccountedFor
<1>8. PermitsAccountedFor'
    BY <1>3, <1>5, <1>7, FS_EmptySet, PricingAssumption DEF PermitsAccountedFor
<1>9. AttemptsLeft'
    BY <1>2, <1>4 DEF AttemptsLeft
<1>10. TripStays
    BY <1>2, <1>3, <1>4 DEF TripStays
<1> QED
    BY <1>1, <1>2, <1>3, <1>8, <1>9, <1>10 DEF Steady, Permitted

\* A task that raises is over and has no result; the breaker is not told.
LEMMA TaskRaisesKeeps ==
    ASSUME Steady, NEW t \in Tasks, TaskRaises(t)
    PROVE  Steady' /\ TripStays
<1>1. {} \in SUBSET Kinds
    OBVIOUS
<1>2. CASE task[t].pc = "POLL" /\ task' = Answered(t, {}) /\ UNCHANGED <<queue, breaker>>
    BY <1>1, <1>2, AnswerKeeps
<1>3. CASE task[t].pc \in {"SEND", "CALL"} /\ Finish(t, {}, breaker)
    BY <1>1, <1>3, FinishKeeps DEF Steady, InUse
<1> QED
    BY <1>2, <1>3 DEF TaskRaises

\* The batch that is aborted has nobody left who holds a permit or waits.
LEMMA AbortKeeps ==
    ASSUME Steady, Abort
    PROVE  Steady' /\ TripStays
<1>1. task \in [Tasks -> TaskState]
    BY DEF Steady, Permitted
<1>2. \A t \in Tasks : task'[t] = Over(t, {})
    BY DEF Abort, Over
<1>3. \A t \in Tasks : Over(t, {}) \in TaskState /\ Over(t, {}).pc = "DONE"
    BY <1>1, OverState
<1>4. task' \in [Tasks -> TaskState]
  <2>1. task' = [t \in Tasks |-> Over(t, {})]
      BY DEF Abort, Over
  <2> QED
      BY <1>3, <2>1
<1>5. queue' = <<>> /\ UNCHANGED breaker
    BY DEF Abort
<1>6. Sending' = {} /\ {t \in Tasks : task'[t].pc = "QUEUED"} = {}
    BY <1>2, <1>3 DEF Sending
<1>7. PermitsAccountedFor'
    BY <1>5, <1>6, FS_EmptySet, PricingAssumption DEF PermitsAccountedFor
<1>8. AttemptsLeft'
    BY <1>2, <1>3 DEF AttemptsLeft
<1>9. TripStays
    BY <1>2, <1>3, <1>5 DEF TripStays
<1> QED
    BY <1>4, <1>5, <1>7, <1>8, <1>9 DEF Steady, Permitted

\* The clock and the mission touch no task and no permit.
LEMMA ClockSteps ==
    ASSUME Steady, PollGrowsOld \/ CooldownElapses \/ BudgetRunsOut \/ CancelJob
    PROVE  Steady' /\ TripStays
<1>1. UNCHANGED <<task, queue>>
    BY DEF PollGrowsOld, CooldownElapses, BudgetRunsOut, CancelJob
<1>2. Permitted'
    BY <1>1 DEF Steady, Permitted, AttemptsLeft, PermitsAccountedFor, Sending
<1>3. CASE CooldownElapses
  <2>1. breaker' = [breaker EXCEPT !.open = "COOLED"] /\ breaker.open = "YES"
      BY <1>3 DEF CooldownElapses
  <2>2. /\ breaker' \in Breaker
        /\ breaker'.open = "COOLED" /\ breaker'.tripped = breaker.tripped
        /\ breaker'.opened = breaker.opened
      BY <2>1 DEF Steady, Breaker
  <2>3. Counts(breaker')
      BY <2>1, <2>2 DEF Steady, Counts
  <2> QED
      BY <1>1, <1>2, <2>2, <2>3 DEF Steady, Counts, TripStays
<1>4. CASE ~CooldownElapses
  <2>1. UNCHANGED breaker
      BY <1>4 DEF PollGrowsOld, BudgetRunsOut, CancelJob
  <2> QED
      BY <1>1, <1>2, <2>1 DEF Steady, Counts, TripStays
<1> QED
    BY <1>3, <1>4

LEMMA PricingStep ==
    ASSUME PricingIInv, PricingNext
    PROVE  PricingIInv' /\ TripStays
<1>1. PricingTypes /\ Steady
    BY PricingIInvIs
<1>2. Steady' /\ TripStays
    BY <1>1, TaskKeeps, TaskRaisesKeeps, AbortKeeps, RefusalKeeps, ClockSteps DEF PricingNext
<1>3. /\ poll' \in [fresh : BOOLEAN, cancelled : BOOLEAN]
      /\ cancelled' \in BOOLEAN /\ late' \in BOOLEAN
    BY <1>1 DEF PricingTypes, PricingNext, TaskStep, StartTask, PollReturns, Send, AttemptFails,
                AttemptAnswers, Retry, TaskRaises, Abort, EntryRefused, PollGrowsOld, CooldownElapses,
                BudgetRunsOut, CancelJob
<1>4. PricingTypes'
    BY <1>2, <1>3 DEF PricingTypes, Steady, Permitted, TaskState
<1> QED
    BY <1>2, <1>4, PricingIInvIs DEF PricingIInv, Steady, Permitted, BreakerCounts, Counts

LEMMA PricingRests ==
    ASSUME PricingIInv, UNCHANGED pricingVars
    PROVE  PricingIInv'
    BY DEF PricingIInv, PricingTypes, AttemptsLeft, PermitsAccountedFor, BreakerCounts, Sending,
           pricingVars

LEMMA PricingStarts == PricingInit => PricingIInv
<1> SUFFICES ASSUME PricingInit PROVE PricingIInv
    OBVIOUS
<1>1. \A t \in Tasks : task[t].pc = "NEW" /\ task[t].attempt = 0 /\ task[t].rows = {}
    BY DEF PricingInit
<1>2. PricingTypes
  <2>1. 0 \in 0 .. Attempts
      BY PricingAssumption
  <2>2. task \in [Tasks -> [pc : {"NEW", "POLL", "QUEUED", "SEND", "CALL", "BACKOFF", "DONE"},
                            attempt : 0 .. Attempts, rows : SUBSET Kinds]]
      BY <2>1 DEF PricingInit
  <2>3. queue \in Seq(Tasks)
      BY DEF PricingInit
  <2>4. breaker \in Breaker /\ poll \in [fresh : BOOLEAN, cancelled : BOOLEAN]
      BY DEF PricingInit, Breaker
  <2> QED
      BY <2>2, <2>3, <2>4 DEF PricingTypes, PricingInit
<1>3. Sending = {} /\ {t \in Tasks : task[t].pc = "QUEUED"} = {} /\ queue = <<>>
    BY <1>1 DEF Sending, PricingInit
<1>4. PermitsAccountedFor
    BY <1>3, FS_EmptySet, PricingAssumption DEF PermitsAccountedFor
<1>5. BreakerCounts
    BY PricingAssumption DEF PricingInit, BreakerCounts
<1>6. AttemptsLeft
    BY <1>1 DEF AttemptsLeft
<1> QED
    BY <1>2, <1>4, <1>5, <1>6 DEF PricingIInv

-----------------------------------------------------------------------------
(* The theorems *)

\* The behaviours of a batch, whether or not the event loop is fair.
PricingSafety == PricingInit /\ [][PricingNext]_pricingVars

LEMMA InvariantWithoutFairness == PricingSafety => []PricingIInv
<1>1. PricingIInv /\ [PricingNext]_pricingVars => PricingIInv'
    BY PricingStep, PricingRests
<1> QED
    BY PricingStarts, <1>1, PTL DEF PricingSafety

LEMMA TripWithoutFairness == PricingSafety => TrippedForGood
<1>1. PricingIInv /\ [PricingNext]_pricingVars =>
        [breaker.tripped =>
            /\ breaker'.tripped
            /\ \A t \in Tasks : task[t].pc \in {"NEW", "POLL"} =>
                task'[t].pc \notin {"QUEUED", "SEND"}]_pricingVars
    BY PricingStep DEF TripStays
<1> QED
    BY <1>1, InvariantWithoutFairness, PTL DEF PricingSafety, TrippedForGood

\* Types, permits and failures, and that who backs off has an attempt left:
\* whatever the order in which chunks, clock and cancellation take their turns.
THEOREM PricingInvariant == PricingSpec => []PricingIInv
    BY InvariantWithoutFairness, PTL DEF PricingSpec, PricingSafety

\* asyncio.Semaphore and the tasks that wait for it: a permit is neither
\* lost nor lent twice and nobody waits while one is free.
THEOREM PermitsHold == PricingSpec => []PermitsAccountedFor
<1>1. PricingIInv => PermitsAccountedFor
    BY DEF PricingIInv
<1> QED
    BY <1>1, PricingInvariant, PTL

\* CircuitBreaker: while closed it is a failure or more short of opening,
\* and an opening or a trip is reported.
THEOREM BreakerHolds == PricingSpec => []BreakerCounts
<1>1. PricingIInv => BreakerCounts
    BY DEF PricingIInv
<1> QED
    BY <1>1, PricingInvariant, PTL

\* CircuitBreaker.permanent_code is never taken back and stops every task
\* that has not passed allow() yet.
THEOREM TripIsFinal == PricingSpec => TrippedForGood
    BY TripWithoutFairness, PTL DEF PricingSpec, PricingSafety

-----------------------------------------------------------------------------
(* Beside the quota *)

\* The side that does not run stutters.
LEMMA LimiterAlone == Spec => LimiterSpec
<1>1. Init => LimiterInit
    BY DEF Init
<1>2. [Next]_trafficVars => [LimiterNext]_limiterVars
    BY DEF Next, trafficVars
<1> QED
    BY <1>1, <1>2, PTL DEF Spec, LimiterSpec

LEMMA PricingAlone == Spec => PricingSafety
<1>1. Init => PricingInit
    BY DEF Init
<1>2. [Next]_trafficVars => [PricingNext]_pricingVars
    BY DEF Next, trafficVars
<1> QED
    BY <1>1, <1>2, PTL DEF Spec, PricingSafety

\* The invariant both components carry along (ratelimit/limiter.py and
\* impact/resilience.py) holds while they run beside each other.
THEOREM TrafficInvariant == Spec => []TrafficIInv
<1>1. LimiterIInv /\ PricingIInv => TrafficIInv
    BY DEF TrafficIInv, PricingIInv
<1> QED
    BY <1>1, LimiterAlone, PricingAlone, LimiterInvariant, InvariantWithoutFairness, PTL

\* Neither guard weakens the other: the limit, honest refusals, permits and
\* the breaker's count, in every state of the two.
THEOREM TrafficGuarded ==
    Spec => [](NeverOverAdmits /\ RefusedOnlyWhenFull /\ PermitsAccountedFor /\ BreakerCounts)
<1>1. PricingIInv => PermitsAccountedFor /\ BreakerCounts
    BY DEF PricingIInv
<1> QED
    BY <1>1, LimiterAlone, PricingAlone, LimitHolds, RefusalsAreHonest, InvariantWithoutFairness, PTL

\* The steps, too: the shared store counts like the lock, a trip is final.
THEOREM TrafficSteps == Spec => ImplementsContract /\ TrippedForGood
    BY LimiterAlone, PricingAlone, LimiterRefinesContract, TripWithoutFairness, PTL
=============================================================================
