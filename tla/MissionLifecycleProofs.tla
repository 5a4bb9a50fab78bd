----------------------- MODULE MissionLifecycleProofs -----------------------
(* Proofs about MissionLifecycle for any number of requests, workers,      *)
(* messages, deliveries and attempts.                                      *)
EXTENDS MissionLifecycle, TLAPS

-----------------------------------------------------------------------------
(* The transition graph *)

LEMMA AllowedDomain ==
  DOMAIN Allowed = {"DRAFT", "VALIDATING", "QUEUED", "RUNNING", "WAITING_RETRY",
                    "NEEDS_REVIEW", "COMPLETED", "FAILED", "CANCELLED", "ARCHIVED"}
BY DEF Allowed

\* The rows of the graph for the statuses a mission takes.
LEMMA AllowedRows ==
  /\ Allowed["QUEUED"] = {"RUNNING", "CANCELLED", "FAILED"}
  /\ Allowed["RUNNING"] = {"WAITING_RETRY", "NEEDS_REVIEW", "COMPLETED", "FAILED", "CANCELLED"}
  /\ Allowed["COMPLETED"] = {"ARCHIVED"}
  /\ Allowed["FAILED"] = {"WAITING_RETRY", "QUEUED", "ARCHIVED", "CANCELLED"}
  /\ Allowed["CANCELLED"] = {"ARCHIVED"}
  /\ Allowed["ARCHIVED"] = {}
BY DEF Allowed

LEMMA TakenPresent ==
  /\ Taken \subseteq DOMAIN Allowed
  /\ DOMAIN Allowed \subseteq Status
  /\ "NEW" \notin DOMAIN Allowed /\ "GONE" \notin DOMAIN Allowed
BY AllowedDomain DEF Taken, Status

-----------------------------------------------------------------------------
(* What a step leaves to the others *)

\* Everybody but p keeps its place and its copy, which is only still up to
\* date if the status of the record did not change.
Others(p) == \A q \in Actors \ {p} :
    /\ actor'[q].pc = actor[q].pc
    /\ actor'[q].rec = actor[q].rec
    /\ actor'[q].mem = actor[q].mem
    /\ actor[q].pc \in Holding /\ ~actor'[q].old =>
          ~actor[q].old /\ doc'.status = doc.status /\ doc'.decided = doc.decided

LEMMA DifferentStatus ==
  ASSUME NEW r \in Record, NEW s \in Record, ~Differ(r, s)
  PROVE  r.status = s.status /\ r.decided = s.decided
BY DEF Differ, Record

LEMMA WriteOthers ==
  ASSUME TypeOK, NEW p \in Actors, NEW r \in Record, NEW next,
         doc' = r, Outdate(p, r, next)
  PROVE  /\ Others(p) /\ actor'[p] = next
         /\ next \in Local => actor' \in [Actors -> Local]
<1>1. actor'[p] = next
  BY DEF Outdate
<1>2. \A q \in Actors \ {p} : actor'[q] =
        [actor[q] EXCEPT !.old = @ \/ (actor[q].pc \in Holding /\ Differ(r, doc))]
  BY DEF Outdate
<1>3. \A q \in Actors : actor[q] \in Local
  BY DEF TypeOK
<1>4. Others(p)
  BY <1>2, <1>3, DifferentStatus DEF Others, Local, TypeOK
<1>5. ASSUME next \in Local, NEW q \in Actors
      PROVE  actor'[q] \in Local
  <2>1. CASE q = p
    BY <1>1, <1>5, <2>1
  <2>2. CASE q # p
    <3> DEFINE o == actor[q].old \/ (actor[q].pc \in Holding /\ Differ(r, doc))
    <3>1. o \in BOOLEAN
      OBVIOUS
    <3>2. actor'[q] = [actor[q] EXCEPT !.old = o]
      BY <1>2, <2>2
    <3>3. actor[q] \in Local
      BY <1>3
    <3> HIDE DEF o
    <3>4. QED
      BY <3>1, <3>2, <3>3 DEF Local
  <2>3. QED
    BY <2>1, <2>2
<1>6. DOMAIN actor' = Actors
  BY DEF Outdate
<1>7. next \in Local => actor' \in [Actors -> Local]
  BY <1>5, <1>6 DEF Outdate
<1>8. QED
  BY <1>1, <1>4, <1>7

LEMMA LocalOthers ==
  ASSUME TypeOK, NEW p \in Actors, NEW next,
         doc' = doc, actor' = [actor EXCEPT ![p] = next]
  PROVE  /\ Others(p) /\ actor'[p] = next
         /\ next \in Local => actor' \in [Actors -> Local]
BY DEF TypeOK, Others
-----------------------------------------------------------------------------
(* The invariant, actor by actor *)

\* The statuses of a mission that is being executed.
Kept == {"RUNNING", "CANCELLED", "ARCHIVED", "GONE"}

\* What the invariant says of p alone.
SoundFor(p) ==
    /\ actor[p].pc \in Holding =>
          /\ actor[p].rec.status \in Taken
          /\ actor[p].rec.status = "RUNNING" => actor[p].pc \in Rewriting
          /\ actor[p].pc \in Requested =>
                actor[p].rec.status \in {"QUEUED", "CANCELLED", "ARCHIVED"}
          /\ Present /\ ~actor[p].old =>
                /\ Legal(doc.status, actor[p].rec.status)
                /\ actor[p].pc \in Rewriting => actor[p].rec.status = doc.status
          /\ actor[p].pc = "DELETE" /\ ~actor[p].old => Deletable
          /\ ~Present /\ p \notin Workers => actor[p].old
    /\ p \in Workers /\ actor[p].pc # "IDLE" => actor[p].mem.status \in Taken
    /\ actor[p].pc = "RETRY" =>
          actor[p].rec.status \in Retryable /\ actor[p].rec.attempt < MaxAttempts
    /\ Undisturbed =>
          /\ actor[p].pc \in Rewriting /\ ~actor[p].old /\ Present
             /\ actor[p].rec.status = "RUNNING" => actor[p].rec.live
          /\ p \in Workers /\ Executing(p) => doc.status \in Kept

\* What a step of p has to see to besides: the record stays leased while it is
\* running and executed, and p does not start beside another worker.
KeepsLease(p) ==
    Undisturbed' =>
        /\ doc'.status = "RUNNING" => doc'.live
        /\ \A v \in Workers \ {p} : Executing(v) => doc'.status \in Kept
        /\ p \in Workers /\ Executing(p)' =>
              Executing(p) \/ \A v \in Workers : ~Executing(v)

LEMMA InvariantByActor ==
  ASSUME LeaseIInv, NEW p \in Actors
  PROVE  SoundFor(p)
BY DEF LeaseIInv, StatusesTaken, CopiesFit, RetriesLeft, LeaseHeld, SoundFor, Kept

LEMMA Frame ==
  ASSUME LeaseIInv, NEW p \in Actors, Others(p), TypeOK', SoundFor(p)', KeepsLease(p),
         doc'.status \in Taken \cup {"GONE"}, mishaps \subseteq mishaps'
  PROVE  LeaseIInv'
<1>1. Undisturbed' => Undisturbed
  BY DEF Undisturbed
<1>2. ASSUME NEW q \in Actors, q # p
      PROVE  SoundFor(q)'
  <2>1. SoundFor(q)
    BY InvariantByActor
  <2>2. /\ actor'[q].pc = actor[q].pc /\ actor'[q].rec = actor[q].rec
        /\ actor'[q].mem = actor[q].mem
        /\ actor[q].pc \in Holding /\ ~actor'[q].old =>
              ~actor[q].old /\ doc'.status = doc.status
    BY <1>2 DEF Others
  <2>3. Rewriting \subseteq Holding
    BY DEF Rewriting, Holding
  <2>4. Undisturbed' /\ q \in Workers /\ Executing(q)' => doc'.status \in Kept
    BY <1>2, <2>2 DEF KeepsLease, Executing
  <2>5. QED
    BY <1>1, <2>1, <2>2, <2>3, <2>4 DEF SoundFor, Present, Deletable, Legal
<1>3. \A q \in Actors : SoundFor(q)'
  BY <1>2
<1>4. StatusesTaken'
  <2>1. doc'.status # "NEW"
    BY TakenPresent DEF Taken
  <2>2. Workers \subseteq Actors
    BY DEF Actors
  <2>3. QED
    BY <1>3, <2>1, <2>2 DEF SoundFor, StatusesTaken
<1>5. CopiesFit' /\ RetriesLeft'
  BY <1>3 DEF SoundFor, CopiesFit, RetriesLeft
<1>6. LeaseHeld'
  <2> SUFFICES ASSUME Undisturbed' PROVE LeaseHeld'
    BY DEF LeaseHeld
  <2>1. doc'.status = "RUNNING" => doc'.live
    BY DEF KeepsLease
  <2>2. \A w \in Workers : Executing(w)' => doc'.status \in Kept
    BY <1>3 DEF SoundFor, Actors
  <2>3. \A w \in Workers \ {p} : Executing(w)' => Executing(w)
    BY DEF Others, Actors, Executing
  <2>4. \A v, w \in Workers : Executing(v)' /\ Executing(w)' => v = w
    BY <1>1, <2>3 DEF LeaseIInv, LeaseHeld, KeepsLease
  <2>5. \A q \in Actors :
           actor'[q].pc \in Rewriting /\ ~actor'[q].old /\ Present' /\ actor'[q].rec.status = "RUNNING"
           => actor'[q].rec.live
    BY <1>3 DEF SoundFor
  <2>6. QED
    BY <2>1, <2>2, <2>4, <2>5 DEF LeaseHeld, Kept
<1>7. QED
  BY <1>4, <1>5, <1>6 DEF LeaseIInv

-----------------------------------------------------------------------------
(* Steps that write the record, and steps that do not *)

\* Somebody who stays at his place, or leaves it without touching the record.
LEMMA LocalStep ==
  ASSUME LeaseIInv, NEW p \in Actors, NEW next \in Local,
         doc' = doc, actor' = [actor EXCEPT ![p] = next], doc.status # "NEW",
         inbox' \in [Messages -> 0 .. MaxDeliveries],
         mishaps \subseteq mishaps', mishaps' \subseteq Mishaps,
         SoundFor(p)', p \in Workers /\ Executing(p)' => Executing(p)
  PROVE  LeaseIInv'
<1>1. Others(p) /\ TypeOK'
  BY LocalOthers DEF LeaseIInv, TypeOK
<1>2. KeepsLease(p)
  BY DEF KeepsLease, Undisturbed, LeaseIInv, LeaseHeld, Kept
<1>3. doc'.status \in Taken \cup {"GONE"}
  BY DEF LeaseIInv, StatusesTaken
<1>4. QED
  BY <1>1, <1>2, <1>3, Frame

\* The record p writes may be the copy it held, or another one.
LEMMA SaveStep ==
  ASSUME LeaseIInv, NEW p \in Actors, NEW r \in Record, NEW next \in Local, Save(p, r, next),
         r.status \in Taken \cup {"GONE"}, p \in Workers => r.status \in Taken,
         inbox' \in [Messages -> 0 .. MaxDeliveries],
         next.pc \in Holding =>
            /\ next.pc \in {"PROVENANCE", "DECIDE", "REPORT", "RETRY_AGAIN"}
            /\ next.rec.status = r.status /\ next.rec.live = r.live
            /\ r.status = "RUNNING" => next.pc \in Rewriting
            /\ next.pc = "RETRY_AGAIN" => r.status \in {"QUEUED", "CANCELLED", "ARCHIVED"},
         r.status # "GONE" \/ next.pc = "DONE",
         next.pc # "RETRY",
         p \in Workers /\ Executing(p)' /\ Undisturbed' => r.status \in Kept,
         KeepsLease(p)
  PROVE  LeaseIInv'
<1> DEFINE n == IF p \in Workers
                THEN [next EXCEPT !.mem = IF next.pc = "IDLE" THEN @ ELSE r] ELSE next
<1>1. n \in Local /\ n.pc = next.pc /\ n.rec = next.rec
  BY DEF Local
<1>2. p \in Workers /\ n.pc # "IDLE" => n.mem.status \in Taken
  BY DEF Local
<1>3. doc' = r /\ Outdate(p, r, n) /\ mishaps' = mishaps \cup Cost(p)
  BY DEF Save
<1> HIDE DEF n
<1>4. Others(p) /\ actor'[p] = n /\ actor' \in [Actors -> Local]
  BY <1>1, <1>3, WriteOthers DEF LeaseIInv
<1>5. TypeOK'
  BY <1>3, <1>4 DEF LeaseIInv, TypeOK, Cost, Mishaps
<1>6. SoundFor(p)'
  <2>1. next.pc \in Holding => r.status \in Taken
    BY DEF Holding
  <2>2. r.status = doc'.status /\ Undisturbed' /\ r.status = "RUNNING" => r.live
    BY <1>3 DEF KeepsLease
  <2>3. "RETRY_AGAIN" \notin Rewriting /\ "PROVENANCE" \notin Requested
        /\ "DECIDE" \notin Requested /\ "REPORT" \notin Requested
    BY DEF Rewriting, Requested
  <2>4. Rewriting \subseteq Holding
    BY DEF Rewriting, Holding
  <2>5. QED
    BY <1>1, <1>2, <1>3, <1>4, <2>1, <2>2, <2>3, <2>4, TakenPresent DEF SoundFor, Legal, Present
<1>7. QED
  BY <1>3, <1>4, <1>5, <1>6, Frame

\* What writing a copy of the record keeps of the lease: only a copy that
\* nobody overtook leaves the run undisturbed.
LEMMA CopyWritten ==
  ASSUME LeaseIInv, NEW p \in Actors, actor[p].pc \in Holding,
         actor[p].pc \notin {"DELETE", "FAIL_WRITE"},
         actor[p].pc \in {"FINISH_WRITE", "STOP_WRITE"} => p \in Workers,
         doc' = actor[p].rec, Cost(p) \subseteq mishaps', mishaps \subseteq mishaps',
         p \in Workers /\ Executing(p)' => Executing(p)
  PROVE  KeepsLease(p)
<1> SUFFICES ASSUME Undisturbed'
             PROVE  /\ actor[p].rec.status = "RUNNING" => actor[p].rec.live
                    /\ \A v \in Workers \ {p} : Executing(v) => actor[p].rec.status \in Kept
  BY DEF KeepsLease
<1>1. Undisturbed /\ ~actor[p].old /\ Present
  BY DEF Undisturbed, Cost
<1>2. SoundFor(p)
  BY InvariantByActor
<1>3. actor[p].rec.status = "RUNNING" => actor[p].rec.live
  BY <1>1, <1>2 DEF SoundFor
<1>4. ASSUME NEW v \in Workers \ {p}, Executing(v)
      PROVE  actor[p].rec.status \in Kept
  <2>1. doc.status \in Kept
    BY <1>1, <1>4 DEF LeaseIInv, LeaseHeld, Kept
  <2>2. CASE actor[p].pc \in Rewriting
    BY <1>1, <1>2, <2>1, <2>2 DEF SoundFor
  <2>3. CASE actor[p].pc \in Requested
    <3>1. /\ Legal(doc.status, actor[p].rec.status)
          /\ actor[p].rec.status \in {"QUEUED", "CANCELLED", "ARCHIVED"}
      BY <1>1, <1>2, <2>3 DEF SoundFor
    <3>2. doc.status \in {"RUNNING", "CANCELLED", "ARCHIVED"}
      BY <1>1, <2>1, TakenPresent DEF Kept, Present
    <3>3. QED
      BY <3>1, <3>2, AllowedRows DEF Legal, Kept
  <2>4. CASE actor[p].pc \in {"FINISH_WRITE", "STOP_WRITE"}
    BY <1>1, <1>4, <2>4 DEF LeaseIInv, LeaseHeld, Executing
  <2>5. QED
    BY <2>2, <2>3, <2>4 DEF Holding, Rewriting, Requested
<1>5. QED
  BY <1>3, <1>4

\* Somebody writes the copy he held.
LEMMA SavedCopy ==
  ASSUME LeaseIInv, NEW p \in Actors, NEW next \in Local, Save(p, actor[p].rec, next),
         actor[p].pc \in Holding, actor[p].pc \notin {"DELETE", "FAIL_WRITE"},
         actor[p].pc \in {"FINISH_WRITE", "STOP_WRITE"} => p \in Workers,
         inbox' \in [Messages -> 0 .. MaxDeliveries],
         next.pc \in Holding =>
            /\ next.pc \in {"DECIDE", "REPORT", "RETRY_AGAIN"}
            /\ next.rec.status = actor[p].rec.status /\ next.rec.live = actor[p].rec.live
            /\ actor[p].rec.status = "RUNNING" => next.pc \in Rewriting
            /\ next.pc = "RETRY_AGAIN" =>
                  actor[p].rec.status \in {"QUEUED", "CANCELLED", "ARCHIVED"},
         next.pc # "RETRY",
         next.pc \in {"PROVENANCE", "MARK", "MARK_WRITE", "CHECK", "FINISH",
                      "FINISH_WRITE", "STOP", "STOP_WRITE"} =>
            Executing(p) /\ actor[p].pc \in Rewriting
  PROVE  LeaseIInv'
<1>1. /\ doc' = actor[p].rec /\ mishaps' = mishaps \cup Cost(p)
      /\ actor[p] \in Local /\ actor[p].rec \in Record
  BY DEF Save, LeaseIInv, TypeOK, Local
<1>2. actor'[p].pc = next.pc
  BY DEF Save, Outdate, Local
<1>3. Executing(p)' => Executing(p) /\ actor[p].pc \in Rewriting
  BY <1>2 DEF Executing
<1>4. KeepsLease(p)
  BY <1>1, <1>3, CopyWritten
<1>5. SoundFor(p)
  BY InvariantByActor
<1>6. p \in Workers /\ Executing(p)' /\ Undisturbed' => actor[p].rec.status \in Kept
  <2> SUFFICES ASSUME p \in Workers, Executing(p)', Undisturbed'
               PROVE  actor[p].rec.status \in Kept
    OBVIOUS
  <2>1. Undisturbed /\ ~actor[p].old /\ Present
    BY <1>1 DEF Undisturbed, Cost
  <2>2. QED
    BY <1>3, <1>5, <2>1 DEF SoundFor
<1>7. actor[p].rec.status \in Taken
  BY <1>5 DEF SoundFor
<1>8. actor[p].rec.status # "GONE"
  BY <1>7 DEF Taken
<1>9. QED
  BY <1>1, <1>4, <1>6, <1>7, <1>8, SaveStep

LEMMA Created ==
  ASSUME LeaseIInv, NEW p \in Actors, actor[p].pc \notin {"IDLE", "DONE"}
  PROVE  doc.status # "NEW"
BY DEF LeaseIInv, StatusesTaken

\* Somebody goes where he holds no copy.
LEMMA MoveStep ==
  ASSUME LeaseIInv, NEW p \in Actors, NEW next \in Local,
         doc' = doc, actor' = [actor EXCEPT ![p] = next], doc.status # "NEW",
         inbox' \in [Messages -> 0 .. MaxDeliveries],
         mishaps \subseteq mishaps', mishaps' \subseteq Mishaps,
         next.pc \notin Holding, next.pc # "RETRY",
         p \in Workers /\ next.pc # "IDLE" => next.mem.status \in Taken,
         next.pc \in {"PROVENANCE", "MARK", "MARK_WRITE", "CHECK", "FINISH",
                      "FINISH_WRITE", "STOP", "STOP_WRITE"} => Executing(p)
  PROVE  LeaseIInv'
<1>1. actor'[p] = next
  BY DEF LeaseIInv, TypeOK
<1>2. Executing(p)' => Executing(p)
  BY <1>1 DEF Executing
<1>3. Executing(p) /\ p \in Workers /\ Undisturbed' => doc.status \in Kept
  BY DEF Undisturbed, LeaseIInv, LeaseHeld, Kept
<1>4. Rewriting \subseteq Holding
  BY DEF Rewriting, Holding
<1>5. SoundFor(p)'
  BY <1>1, <1>2, <1>3, <1>4 DEF SoundFor
<1>6. QED
  BY <1>2, <1>5, LocalStep

\* Somebody copies the record and changes the copy.
LEMMA CopyStep ==
  ASSUME LeaseIInv, NEW p \in Actors, NEW pc \in Pc, NEW r \in Record, Copy(p, pc, r),
         doc' = doc, doc.status # "NEW", inbox' = inbox, mishaps' = mishaps,
         p \in Workers => actor[p].pc # "IDLE",
         pc = "RETRY" => r.status \in Retryable /\ r.attempt < MaxAttempts,
         pc \in Holding =>
            /\ r.status \in Taken
            /\ r.status = "RUNNING" => pc \in Rewriting
            /\ pc \in Requested => r.status \in {"QUEUED", "CANCELLED", "ARCHIVED"}
            /\ Present => Legal(doc.status, r.status)
            /\ Present /\ pc \in Rewriting => r.status = doc.status /\ r.live = doc.live
            /\ pc = "DELETE" => Deletable
            /\ p \notin Workers => Present,
         pc \in {"PROVENANCE", "MARK", "MARK_WRITE", "CHECK", "FINISH",
                 "FINISH_WRITE", "STOP", "STOP_WRITE"} => Executing(p)
  PROVE  LeaseIInv'
<1> DEFINE next == [actor[p] EXCEPT !.pc = pc, !.rec = r, !.old = FALSE]
<1>1. actor[p] \in Local
  BY DEF LeaseIInv, TypeOK
<1>2. /\ next \in Local
      /\ next.pc = pc /\ next.rec = r /\ next.old = FALSE /\ next.mem = actor[p].mem
  BY <1>1 DEF Local
<1>3. actor' = [actor EXCEPT ![p] = next]
  BY <1>1 DEF Copy, Local
<1> HIDE DEF next
<1>4. actor'[p] = next
  BY <1>3 DEF LeaseIInv, TypeOK
<1>5. Executing(p)' => Executing(p)
  BY <1>2, <1>4 DEF Executing
<1>6. Undisturbed' => Undisturbed /\ (doc.status = "RUNNING" => doc.live)
                      /\ (Executing(p) /\ p \in Workers => doc.status \in Kept)
  BY DEF Undisturbed, LeaseIInv, LeaseHeld, Kept
<1>7. p \in Workers => actor[p].mem.status \in Taken
  BY DEF LeaseIInv, StatusesTaken
<1>8. Rewriting \subseteq Holding
  BY DEF Rewriting, Holding
<1>9. Present' = Present /\ Deletable' = Deletable
  BY DEF Present, Deletable
<1>10. SoundFor(p)'
  BY <1>2, <1>4, <1>5, <1>6, <1>7, <1>8, <1>9 DEF SoundFor, Legal
<1>11. QED
  BY <1>2, <1>3, <1>5, <1>10, LocalStep DEF LeaseIInv, TypeOK

-----------------------------------------------------------------------------
(* API handlers *)

LEMMA BlankRecord ==
  ASSUME NEW s \in Status
  PROVE  Blank(s) \in Record /\ Blank(s).status = s
BY LifecycleAssumption DEF Blank, Record

LEMMA IdleLocal == Idle \in Local /\ Done \in Local /\ Idle.pc = "IDLE" /\ Done.pc = "DONE"
<1>1. Blank("NEW") \in Record
  BY BlankRecord DEF Status
<1>2. Idle \in Local /\ Idle.pc = "IDLE"
  BY <1>1, LifecycleAssumption DEF Idle, Local, Pc
<1>3. Done \in Local /\ Done.pc = "DONE"
  BY <1>2 DEF Done, Local, Pc
<1>4. QED
  BY <1>2, <1>3

LEMMA SeenRecord ==
  ASSUME LeaseIInv, NEW p \in Actors
  PROVE  Seen(p) \in Record /\ (Present => Seen(p) = doc)
BY DEF Seen, LeaseIInv, TypeOK, Local

LEMMA MovedRecord ==
  ASSUME NEW r \in Record, NEW s \in Status
  PROVE  Moved(r, s) \in Record /\ Moved(r, s).status = s
BY DEF Moved, Record

\* apply_transition up to its write.
LEMMA TransitionRead ==
  ASSUME LeaseIInv, NEW p \in Actors, actor[p].pc \notin {"IDLE", "DONE"},
         NEW target \in {"COMPLETED", "FAILED", "CANCELLED", "ARCHIVED"},
         NEW pc \in {"CANCEL_WRITE", "ARCHIVE_WRITE", "FAIL_WRITE", "FINISH_WRITE", "STOP_WRITE"},
         pc \in Requested => target \in {"CANCELLED", "ARCHIVED"},
         pc \in {"FINISH_WRITE", "STOP_WRITE"} => Executing(p),
         Legal(Seen(p).status, target), p \notin Workers => Present,
         Copy(p, pc, Moved(Seen(p), target)),
         UNCHANGED <<doc, inbox, mishaps>>
  PROVE  LeaseIInv'
<1>1. /\ target \in Status /\ target \in Taken /\ target # "RUNNING"
  BY TakenPresent DEF Taken
<1>2. pc \in Pc /\ pc \in Holding /\ pc \notin Rewriting /\ pc # "DELETE" /\ pc # "RETRY"
  BY DEF Pc, Holding, Rewriting
<1> DEFINE r == Moved(Seen(p), target)
<1>3. r \in Record /\ r.status = target
  BY <1>1, SeenRecord, MovedRecord
<1>4. Present => Legal(doc.status, target)
  BY SeenRecord
<1>5. pc \notin {"PROVENANCE", "MARK", "MARK_WRITE", "CHECK", "FINISH", "STOP"}
  OBVIOUS
<1> HIDE DEF r
<1>6. Copy(p, pc, r)
  BY DEF r
<1>7. QED
  BY <1>1, <1>2, <1>3, <1>4, <1>5, <1>6, Created, CopyStep

LEMMA PublishTyped ==
  ASSUME LeaseIInv, NEW m \in Messages, Publish(m)
  PROVE  inbox' \in [Messages -> 0 .. MaxDeliveries]
BY LifecycleAssumption DEF Publish, LeaseIInv, TypeOK

\* The handlers' guards, before anything is read twice.
LEMMA RequestStarts ==
  ASSUME LeaseIInv, NEW q \in Requests,
         RequestCancel(q) \/ RequestRetry(q) \/ RequestArchive(q) \/ RequestDelete(q)
  PROVE  LeaseIInv'
<1>1. q \in Actors /\ q \notin Workers /\ actor[q] \in Local /\ doc \in Record
  BY LifecycleAssumption DEF Actors, LeaseIInv, TypeOK
<1>2. doc.status \in Taken => Present /\ doc.status # "NEW"
  BY TakenPresent DEF Present, Taken
<1>3. doc.status \in Taken \cup {"NEW", "GONE"}
  BY DEF LeaseIInv, StatusesTaken
<1>4. Legal(doc.status, doc.status)
  BY DEF Legal
<1>5. ASSUME NEW pc \in {"CANCEL", "ARCHIVE"}, Goto(q, pc), doc.status \in Taken,
             UNCHANGED <<doc, inbox, mishaps>>
      PROVE  LeaseIInv'
  <2> DEFINE next == [actor[q] EXCEPT !.pc = pc]
  <2>1. next \in Local /\ next.pc = pc /\ pc \notin Holding
    BY <1>1 DEF Local, Pc, Holding
  <2>2. actor' = [actor EXCEPT ![q] = next]
    BY <1>5 DEF Goto
  <2> HIDE DEF next
  <2>3. QED
    BY <1>1, <1>2, <1>5, <2>1, <2>2, MoveStep DEF LeaseIInv, TypeOK
<1>6. CASE RequestCancel(q)
  <2>1. CASE doc.status \in DirectCancellable /\ Goto(q, "CANCEL")
    BY <1>3, <1>5, <1>6, <2>1 DEF RequestCancel, DirectCancellable, Taken
  <2>2. CASE doc.status = "RUNNING" /\ Copy(q, "FLAG_WRITE", [doc EXCEPT !.cancel = TRUE])
    <3> DEFINE r == [doc EXCEPT !.cancel = TRUE]
    <3>1. r \in Record /\ r.status = doc.status /\ r.live = doc.live
      BY <1>1 DEF Record
    <3>2. "FLAG_WRITE" \in Pc /\ "FLAG_WRITE" \in Rewriting /\ "FLAG_WRITE" \notin Requested
      BY DEF Pc, Rewriting, Requested
    <3>3. doc.status \in Taken
      BY <2>2 DEF Taken
    <3> HIDE DEF r
    <3>4. Copy(q, "FLAG_WRITE", r)
      BY <2>2 DEF r
    <3>5. UNCHANGED <<doc, inbox, mishaps>>
      BY <1>6 DEF RequestCancel
    <3>6. QED
      BY <1>1, <1>2, <1>4, <2>2, <3>1, <3>2, <3>3, <3>4, <3>5, CopyStep
  <2>3. QED
    BY <1>6, <2>1, <2>2 DEF RequestCancel
<1>7. CASE RequestRetry(q)
  BY <1>1, <1>2, <1>7, CopyStep DEF RequestRetry, Retryable, Pc, Holding
<1>8. CASE RequestArchive(q)
  BY <1>3, <1>5, <1>8 DEF RequestArchive, Archivable, Taken
<1>9. CASE RequestDelete(q)
  <2>1. doc.status \in Taken \ {"RUNNING"}
    BY <1>3, <1>9 DEF RequestDelete, Deletable, Taken
  <2>2. "DELETE" \in Pc /\ "DELETE" \notin Rewriting /\ "DELETE" \notin Requested
    BY DEF Pc, Rewriting, Requested
  <2>3. QED
    BY <1>1, <1>2, <1>4, <1>9, <2>1, <2>2, CopyStep DEF RequestDelete
<1>10. QED
  BY <1>6, <1>7, <1>8, <1>9

\* They read the record again.
LEMMA RequestReads ==
  ASSUME LeaseIInv, NEW q \in Requests, CancelRead(q) \/ RetryRead(q) \/ ArchiveRead(q)
  PROVE  LeaseIInv'
<1>1. /\ q \in Actors /\ q \notin Workers /\ actor[q] \in Local /\ doc \in Record
      /\ actor[q].pc \in {"CANCEL", "RETRY", "ARCHIVE"}
  BY LifecycleAssumption DEF Actors, LeaseIInv, TypeOK, CancelRead, RetryRead, ArchiveRead
<1>2. doc.status # "NEW"
  BY <1>1, Created
<1>3. ASSUME actor' = [actor EXCEPT ![q] = Done], UNCHANGED <<doc, inbox, mishaps>>
      PROVE  LeaseIInv'
  BY <1>1, <1>2, <1>3, IdleLocal, MoveStep DEF LeaseIInv, TypeOK, Holding
<1>4. Seen(q).status \in DOMAIN Allowed => Present
  BY <1>1 DEF Seen, Present
<1>5. CASE CancelRead(q) \/ ArchiveRead(q)
  BY <1>1, <1>3, <1>4, <1>5, TransitionRead DEF CancelRead, ArchiveRead, ReadForTransition
<1>6. CASE RetryRead(q)
  <2> DEFINE r == [doc EXCEPT !.status = "QUEUED", !.attempt = actor[q].rec.attempt + 1]
  <2>1. /\ actor[q].rec.status \in Retryable
        /\ actor[q].rec.attempt < MaxAttempts /\ actor[q].rec.attempt \in 1 .. MaxAttempts
    BY <1>1, <1>6 DEF LeaseIInv, RetriesLeft, RetryRead, Local, Record
  <2>2. r \in Record /\ r.status = "QUEUED"
    <3>1. actor[q].rec.attempt + 1 \in 1 .. MaxAttempts
      BY <2>1, LifecycleAssumption
    <3>2. "QUEUED" \in Status
      BY AllowedDomain DEF Status
    <3>3. QED
      BY <1>1, <3>1, <3>2 DEF Record
  <2>3. CASE doc.status = actor[q].rec.status
    <3>1. Copy(q, "RETRY_WRITE", r) /\ UNCHANGED <<doc, inbox, mishaps>>
      BY <1>6, <2>3 DEF RetryRead
    <3>2. "RETRY_WRITE" \in Pc /\ "RETRY_WRITE" \notin Rewriting /\ "QUEUED" \in Taken
      BY DEF Pc, Rewriting, Taken
    <3>3. Legal(doc.status, "QUEUED") /\ Present
      <4>1. doc.status \in {"FAILED", "WAITING_RETRY"}
        BY <2>1, <2>3 DEF Retryable
      <4>2. doc.status = "FAILED"
        BY <4>1 DEF LeaseIInv, StatusesTaken, Taken
      <4>3. QED
        BY <4>2, AllowedRows, AllowedDomain DEF Legal, Present
    <3> HIDE DEF r
    <3>4. QED
      BY <1>1, <1>2, <2>2, <3>1, <3>2, <3>3, CopyStep
  <2>4. CASE doc.status # actor[q].rec.status
    BY <1>3, <1>6, <2>4 DEF RetryRead
  <2>5. QED
    BY <2>3, <2>4
<1>7. QED
  BY <1>5, <1>6

\* A write that failed and was swallowed.
LEMMA SwallowStep ==
  ASSUME LeaseIInv, NEW p \in Actors, NEW next \in Local, next.pc \notin Holding, next.pc # "RETRY",
         Go(p, [next EXCEPT !.old = actor[p].old /\ next.pc \in Holding]),
         actor[p].pc \notin {"IDLE", "DONE"}, inbox' = inbox, mishaps' = mishaps \cup {"OUTAGE"},
         p \in Workers /\ next.pc # "IDLE" => next.mem.status \in Taken,
         next.pc \in {"PROVENANCE", "MARK", "MARK_WRITE", "CHECK", "FINISH",
                      "FINISH_WRITE", "STOP", "STOP_WRITE"} => Executing(p)
  PROVE  LeaseIInv'
<1> DEFINE o == actor[p].old /\ next.pc \in Holding
           n == [next EXCEPT !.old = o]
<1>1. o = FALSE
  OBVIOUS
<1>2. doc' = doc /\ actor' = [actor EXCEPT ![p] = n]
  BY DEF Go
<1> HIDE DEF o
<1>3. n \in Local /\ n.pc = next.pc /\ n.mem = next.mem
  BY <1>1 DEF Local
<1>4. mishaps' \subseteq Mishaps /\ mishaps \subseteq mishaps'
      /\ inbox' \in [Messages -> 0 .. MaxDeliveries]
  BY DEF LeaseIInv, TypeOK, Mishaps
<1>5. doc.status # "NEW"
  BY Created
<1> HIDE DEF n
<1>6. QED
  BY <1>2, <1>3, <1>4, <1>5, MoveStep

\* Somebody writes a copy for the last time, whatever else goes wrong.
LEMMA LastWrite ==
  ASSUME LeaseIInv, NEW p \in Actors, NEW next \in {Idle, Done}, p \in Workers => next = Idle,
         actor[p].pc \in Holding, doc' = actor[p].rec, Outdate(p, actor[p].rec, next),
         inbox' \in [Messages -> 0 .. MaxDeliveries],
         mishaps \subseteq mishaps', mishaps' \subseteq Mishaps,
         KeepsLease(p)
  PROVE  LeaseIInv'
<1>1. /\ next \in Local /\ next.pc \in {"IDLE", "DONE"} /\ (p \in Workers => next.pc = "IDLE")
      /\ actor[p].rec \in Record
  BY IdleLocal DEF LeaseIInv, TypeOK, Local
<1>2. Others(p) /\ actor'[p] = next /\ actor' \in [Actors -> Local]
  BY <1>1, WriteOthers DEF LeaseIInv
<1>3. TypeOK'
  BY <1>1, <1>2 DEF TypeOK
<1>4. SoundFor(p)'
  BY <1>1, <1>2 DEF SoundFor, Holding, Rewriting, Executing
<1>5. actor[p].rec.status \in Taken
  BY InvariantByActor DEF SoundFor
<1>6. QED
  BY <1>2, <1>3, <1>4, <1>5, Frame

\* They write their copy back, or fail to.
LEMMA HandlerWrite ==
  ASSUME LeaseIInv, NEW q \in Requests,
         actor[q].pc \in {"FLAG_WRITE", "RETRY_AGAIN", "CANCEL_WRITE", "ARCHIVE_WRITE"},
         NEW next \in {Done, [Idle EXCEPT !.pc = "PUBLISH"]},
         SaveOrSwallow(q, actor[q].rec, next), inbox' = inbox
  PROVE  LeaseIInv'
<1>1. q \in Actors /\ q \notin Workers /\ actor[q].pc \in Holding
  BY LifecycleAssumption DEF Actors, Holding
<1>2. next \in Local /\ next.pc \in {"DONE", "PUBLISH"} /\ next.pc \notin Holding
  BY IdleLocal DEF Local, Pc, Holding
<1>3. inbox' \in [Messages -> 0 .. MaxDeliveries]
  BY DEF LeaseIInv, TypeOK
<1>4. CASE Save(q, actor[q].rec, next)
  BY <1>1, <1>2, <1>3, <1>4, SavedCopy
<1>5. CASE Outage /\ Go(q, [next EXCEPT !.old = actor[q].old /\ next.pc \in Holding])
  BY <1>1, <1>2, <1>3, <1>5, SwallowStep DEF Outage
<1>6. QED
  BY <1>4, <1>5 DEF SaveOrSwallow

LEMMA RequestWrites ==
  ASSUME LeaseIInv, NEW q \in Requests,
         RequeueWrite(q) \/ FlagWrite(q) \/ RetryAgain(q) \/ TransitionWrite(q)
  PROVE  LeaseIInv'
<1>1. q \in Actors /\ q \notin Workers /\ actor[q].pc \in Holding
  BY LifecycleAssumption DEF Actors, Holding, RequeueWrite, FlagWrite, RetryAgain, TransitionWrite
<1>2. doc.status # "NEW"
  BY <1>1, Created DEF Holding
<1>3. ASSUME NEW next \in {Done, [Idle EXCEPT !.pc = "PUBLISH"]},
             Go(q, next), UNCHANGED <<inbox, mishaps>>
      PROVE  LeaseIInv'
  <2>1. next \in Local /\ next.pc \in {"DONE", "PUBLISH"} /\ next.pc \notin Holding
    BY IdleLocal DEF Local, Pc, Holding
  <2>2. QED
    BY <1>1, <1>2, <1>3, <2>1, MoveStep DEF Go, LeaseIInv, TypeOK
<1>4. CASE FlagWrite(q)
  BY <1>3, <1>4, HandlerWrite DEF FlagWrite, SaveIfPresent
<1>5. CASE RetryAgain(q)
  BY <1>3, <1>5, HandlerWrite DEF RetryAgain, SaveIfPresent
<1>6. CASE TransitionWrite(q)
  BY <1>6, HandlerWrite DEF TransitionWrite
<1>7. CASE RequeueWrite(q)
  <2>1. actor[q].pc = "REQUEUE" /\ inbox' \in [Messages -> 0 .. MaxDeliveries]
    BY <1>7 DEF RequeueWrite, LeaseIInv, TypeOK
  <2>2. CASE Save(q, actor[q].rec, Done)
    BY <1>1, <2>1, <2>2, IdleLocal, SavedCopy DEF Holding
  <2>3. CASE Go(q, Done) /\ UNCHANGED mishaps
    BY <1>3, <1>7, <2>3 DEF RequeueWrite
  <2>4. QED
    BY <1>7, <2>2, <2>3 DEF RequeueWrite
<1>8. QED
  BY <1>4, <1>5, <1>6, <1>7

LEMMA RetryWriteSound ==
  ASSUME LeaseIInv, NEW q \in Requests, RetryWrite(q)
  PROVE  LeaseIInv'
<1> DEFINE c == [actor[q].rec EXCEPT !.cancel = FALSE]
           next == [Idle EXCEPT !.pc = "RETRY_AGAIN", !.rec = c]
<1>1. /\ q \in Actors /\ q \notin Workers /\ actor[q] \in Local
      /\ actor[q].pc = "RETRY_WRITE" /\ actor[q].pc \in Holding /\ actor[q].pc \in Requested
  BY LifecycleAssumption DEF Actors, Holding, Requested, RetryWrite, LeaseIInv, TypeOK
<1>2. c \in Record /\ c.status = actor[q].rec.status /\ c.live = actor[q].rec.live
      /\ c.attempt = actor[q].rec.attempt
  BY <1>1 DEF Local, Record
<1>3. next = [Idle EXCEPT !.pc = "RETRY_AGAIN", !.rec = [actor[q].rec EXCEPT !.cancel = FALSE]]
  OBVIOUS
<1> HIDE DEF c
<1>4. next \in Local /\ next.pc = "RETRY_AGAIN" /\ next.rec = c
  BY <1>2, IdleLocal DEF Local, Pc
<1> HIDE DEF next
<1>5. SoundFor(q)
  BY <1>1, InvariantByActor
<1>6. "RETRY_AGAIN" \in Requested /\ "RETRY_AGAIN" \in Holding /\ "RETRY_AGAIN" \notin Rewriting
  BY DEF Requested, Holding, Rewriting
<1>7. CASE Save(q, actor[q].rec, next)
  <2>1. actor[q].rec.status \in {"QUEUED", "CANCELLED", "ARCHIVED"}
           /\ actor[q].rec.status # "RUNNING"
    BY <1>1, <1>5 DEF SoundFor
  <2>2. inbox' \in [Messages -> 0 .. MaxDeliveries]
    BY DEF RetryWrite, LeaseIInv, TypeOK
  <2>3. QED
    BY <1>1, <1>2, <1>4, <1>6, <1>7, <2>1, <2>2, SavedCopy
<1>8. CASE Outage /\ Go(q, [next EXCEPT !.old = actor[q].old /\ next.pc \in Holding])
  <2> DEFINE o == actor[q].old /\ next.pc \in Holding
             n == [next EXCEPT !.old = o]
  <2>1. o \in BOOLEAN /\ (~o => ~actor[q].old)
    BY <1>4, <1>6
  <2>2. doc' = doc /\ actor' = [actor EXCEPT ![q] = n]
    BY <1>8 DEF Go
  <2> HIDE DEF o
  <2>3. n \in Local /\ n.pc = "RETRY_AGAIN" /\ n.rec = c /\ n.old = o
    BY <1>4, <2>1 DEF Local
  <2> HIDE DEF n
  <2>4. actor'[q] = n
    BY <1>1, <2>2 DEF LeaseIInv, TypeOK
  <2>5. SoundFor(q)'
    <3>1. /\ actor[q].rec.status \in Taken
          /\ actor[q].rec.status \in {"QUEUED", "CANCELLED", "ARCHIVED"}
          /\ Present /\ ~actor[q].old => Legal(doc.status, actor[q].rec.status)
          /\ ~Present => actor[q].old
      BY <1>1, <1>5 DEF SoundFor
    <3>2. Present' = Present /\ doc'.status = doc.status
      BY <2>2 DEF Present
    <3>3. /\ actor'[q].pc = "RETRY_AGAIN" /\ actor'[q].rec.status = actor[q].rec.status
          /\ ~actor'[q].old => ~actor[q].old
      BY <1>2, <2>1, <2>3, <2>4
    <3>4. actor'[q].rec.status # "RUNNING"
      BY <3>1, <3>3
    <3>5. QED
      BY <1>1, <1>6, <3>1, <3>2, <3>3, <3>4 DEF SoundFor, Legal
  <2>6. doc.status # "NEW"
    BY <1>1, Created
  <2>7. /\ inbox' \in [Messages -> 0 .. MaxDeliveries]
        /\ mishaps \subseteq mishaps' /\ mishaps' \subseteq Mishaps
    BY <1>8 DEF RetryWrite, Outage, LeaseIInv, TypeOK, Mishaps
  <2>8. QED
    BY <1>1, <2>2, <2>3, <2>5, <2>6, <2>7, LocalStep
<1>9. QED
  BY <1>3, <1>7, <1>8 DEF RetryWrite, SaveOrSwallow

LEMMA DeleteSound ==
  ASSUME LeaseIInv, NEW q \in Requests, DeleteMission(q)
  PROVE  LeaseIInv'
<1>1. q \in Actors /\ q \notin Workers /\ actor[q].pc = "DELETE" /\ actor[q] \in Local
  BY LifecycleAssumption DEF Actors, DeleteMission, LeaseIInv, TypeOK
<1>2. /\ Done \in Local /\ Done.pc = "DONE" /\ "DONE" \notin Holding
      /\ inbox' \in [Messages -> 0 .. MaxDeliveries]
  BY IdleLocal DEF Holding, DeleteMission, LeaseIInv, TypeOK
<1>3. doc.status # "NEW"
  BY <1>1, Created
<1>4. CASE Save(q, Blank("GONE"), Done)
  <2> DEFINE r == Blank("GONE")
  <2>1. r \in Record /\ r.status = "GONE"
    BY BlankRecord DEF Status
  <2>2. KeepsLease(q)
    BY <1>1, <1>4, <2>1 DEF Save, KeepsLease, Kept
  <2> HIDE DEF r
  <2>3. Save(q, r, Done)
    BY <1>4 DEF r
  <2>4. QED
    BY <1>1, <1>2, <2>1, <2>2, <2>3, SaveStep
<1>5. CASE Outage /\ Go(q, [Done EXCEPT !.old = actor[q].old /\ Done.pc \in Holding])
  BY <1>1, <1>2, <1>5, SwallowStep DEF Outage, DeleteMission
<1>6. CASE Go(q, Done) /\ UNCHANGED mishaps
  BY <1>1, <1>2, <1>3, <1>6, MoveStep DEF Go, LeaseIInv, TypeOK
<1>7. QED
  BY <1>4, <1>5, <1>6 DEF DeleteMission, SaveIfPresent, SaveOrSwallow

LEMMA CreateSound ==
  ASSUME LeaseIInv, NEW q \in Requests, CreateMission(q)
  PROVE  LeaseIInv'
<1> DEFINE r == Blank("QUEUED")
           next == [Idle EXCEPT !.pc = "PUBLISH_NEW", !.rec = r]
<1>1. q \in Actors /\ q \notin Workers
  BY LifecycleAssumption DEF Actors
<1>2. r \in Record /\ r.status = "QUEUED"
  BY BlankRecord, AllowedDomain DEF Status
<1>3. doc' = r /\ actor' = [actor EXCEPT ![q] = next] /\ UNCHANGED <<inbox, mishaps>>
  BY DEF CreateMission
<1> HIDE DEF r
<1>4. next \in Local /\ next.pc = "PUBLISH_NEW" /\ next.rec = r
  BY <1>2, IdleLocal DEF Local, Pc
<1> HIDE DEF next
<1>5. actor'[q] = next /\ TypeOK'
  BY <1>1, <1>2, <1>3, <1>4 DEF LeaseIInv, TypeOK
<1>6. \A p \in Actors : actor[p].pc \in {"IDLE", "DONE"}
  BY DEF CreateMission, LeaseIInv, StatusesTaken
<1>7. Others(q)
  BY <1>3, <1>6 DEF Others, Holding, LeaseIInv, TypeOK
<1>8. KeepsLease(q)
  BY <1>1, <1>2, <1>3, <1>6 DEF KeepsLease, Executing, Actors
<1>9. SoundFor(q)'
  BY <1>1, <1>2, <1>3, <1>4, <1>5, TakenPresent
     DEF SoundFor, Legal, Taken, Rewriting, Requested, Present
<1>10. QED
  BY <1>1, <1>2, <1>3, <1>5, <1>7, <1>8, <1>9, Frame DEF Taken

LEMMA PublishesSound ==
  ASSUME LeaseIInv, NEW q \in Requests,
         PublishNew(q) \/ PublishNewFails(q) \/ PublishRetry(q) \/ PublishRetryFails(q)
  PROVE  LeaseIInv'
<1>1. /\ q \in Actors /\ q \notin Workers /\ actor[q] \in Local
      /\ actor[q].pc \in {"PUBLISH_NEW", "PUBLISH"}
  BY LifecycleAssumption DEF Actors, PublishNew, PublishNewFails, PublishRetry,
     PublishRetryFails, LeaseIInv, TypeOK
<1>2. doc.status # "NEW"
  BY <1>1, Created
<1>3. inbox' \in [Messages -> 0 .. MaxDeliveries]
  BY PublishTyped DEF PublishNew, PublishNewFails, PublishRetry, PublishRetryFails, LeaseIInv, TypeOK
<1>4. doc' = doc /\ mishaps \subseteq mishaps' /\ mishaps' \subseteq Mishaps
  BY DEF PublishNew, PublishNewFails, PublishRetry, PublishRetryFails, Go, Outage, Mishaps,
         LeaseIInv, TypeOK
<1>5. CASE PublishNew(q) \/ PublishRetry(q) \/ PublishRetryFails(q)
  <2>1. actor' = [actor EXCEPT ![q] = Done]
    BY <1>5 DEF PublishNew, PublishRetry, PublishRetryFails, Go
  <2>2. QED
    BY <1>1, <1>2, <1>3, <1>4, <2>1, IdleLocal, MoveStep DEF Holding
<1>6. CASE PublishNewFails(q)
  <2> DEFINE next == [actor[q] EXCEPT !.pc = "REQUEUE"]
  <2>1. /\ next \in Local
        /\ next.pc = "REQUEUE" /\ next.rec = actor[q].rec /\ next.old = actor[q].old
    BY <1>1 DEF Local, Pc
  <2>2. actor' = [actor EXCEPT ![q] = next] /\ actor[q].pc = "PUBLISH_NEW"
    BY <1>6 DEF PublishNewFails, Go
  <2> HIDE DEF next
  <2>3. actor'[q] = next
    BY <1>1, <2>2 DEF LeaseIInv, TypeOK
  <2>4. {"PUBLISH_NEW", "REQUEUE"} \subseteq Holding \cap Requested /\ "REQUEUE" \notin Rewriting
    BY DEF Holding, Requested, Rewriting
  <2>5. SoundFor(q) /\ Present' = Present
    BY <1>1, <1>4, InvariantByActor DEF Present
  <2>6. actor[q].rec.status # "RUNNING"
    BY <2>2, <2>4, <2>5 DEF SoundFor
  <2>7. SoundFor(q)'
    BY <1>1, <1>4, <2>1, <2>2, <2>3, <2>4, <2>5, <2>6 DEF SoundFor, Legal
  <2>8. QED
    BY <1>1, <1>2, <1>3, <1>4, <2>1, <2>2, <2>7, LocalStep
<1>7. QED
  BY <1>5, <1>6

-----------------------------------------------------------------------------
(* Workers *)

LEMMA WorkerFacts ==
  ASSUME LeaseIInv, NEW w \in Workers
  PROVE  /\ w \in Actors /\ actor[w] \in Local
         /\ actor[w].pc # "IDLE" => actor[w].mem.status \in Taken
         /\ [inbox EXCEPT ![actor[w].msg] = 0] \in [Messages -> 0 .. MaxDeliveries]
         /\ inbox \in [Messages -> 0 .. MaxDeliveries]
         /\ actor[w].pc \in Holding => actor[w].rec.status \in Taken
<1>1. w \in Actors /\ actor[w] \in Local
  BY DEF Actors, LeaseIInv, TypeOK
<1>2. /\ inbox \in [Messages -> 0 .. MaxDeliveries]
      /\ actor[w].pc # "IDLE" => actor[w].mem.status \in Taken
      /\ actor[w].pc \in Holding => actor[w].rec.status \in Taken
  BY <1>1 DEF LeaseIInv, TypeOK, StatusesTaken
<1>3. [inbox EXCEPT ![actor[w].msg] = 0] \in [Messages -> 0 .. MaxDeliveries]
  <2> DEFINE m == actor[w].msg
             D == 0 .. MaxDeliveries
  <2>1. 0 \in D
    BY LifecycleAssumption
  <2>2. inbox \in [Messages -> D]
    BY <1>2
  <2> HIDE DEF m, D
  <2>3. [inbox EXCEPT ![m] = 0] \in [Messages -> D]
    BY <2>1, <2>2
  <2>4. QED
    BY <2>3 DEF m, D
<1>4. QED
  BY <1>1, <1>2, <1>3

LEMMA AcquireSound ==
  ASSUME LeaseIInv, NEW w \in Workers, NEW m \in Messages, Acquire(w, m)
  PROVE  LeaseIInv'
<1> DEFINE r == [doc EXCEPT !.status = "RUNNING", !.live = TRUE]
           next == [Idle EXCEPT !.pc = "PROVENANCE", !.rec = r, !.msg = m]
<1>1. w \in Actors /\ actor[w].pc = "IDLE" /\ doc \in Record
  BY WorkerFacts DEF Acquire, LeaseIInv, TypeOK
<1>2. "RUNNING" \in Status
  BY AllowedDomain DEF Status
<1>3. r \in Record /\ r.status = "RUNNING" /\ r.live = TRUE
  BY <1>1, <1>2 DEF Record
<1>4. Save(w, r, next) /\ Leasable /\ inbox' = [inbox EXCEPT ![m] = @ - 1] /\ inbox[m] > 0
  BY DEF Acquire
<1> HIDE DEF r
<1>5. next \in Local /\ next.pc = "PROVENANCE" /\ next.rec = r
  BY <1>3, IdleLocal DEF Local, Pc
<1> HIDE DEF next
<1>6. inbox' \in [Messages -> 0 .. MaxDeliveries]
  BY <1>4, LifecycleAssumption DEF LeaseIInv, TypeOK
<1>7. KeepsLease(w)
  <2>1. doc' = r
    BY <1>4 DEF Save
  <2>2. Undisturbed' => Undisturbed
    BY <1>4 DEF Save, Undisturbed
  <2>3. Undisturbed => doc.status \notin Kept
    BY <1>4, TakenPresent DEF LeaseIInv, LeaseHeld, Leasable, Terminal, Present, Kept
  <2>4. Undisturbed => \A v \in Workers : ~Executing(v)
    BY <2>3 DEF LeaseIInv, LeaseHeld, Kept
  <2>5. QED
    BY <1>3, <2>1, <2>2, <2>4 DEF KeepsLease
<1>8. "PROVENANCE" \in Rewriting /\ "RUNNING" \in Taken /\ "RUNNING" \in Kept
  BY DEF Rewriting, Taken, Kept
<1>9. QED
  BY <1>1, <1>3, <1>4, <1>5, <1>6, <1>7, <1>8, SaveStep

LEMMA AckSound ==
  ASSUME LeaseIInv, NEW w \in Workers, actor[w].pc \notin {"IDLE", "DONE"},
         Ack(w), UNCHANGED <<doc, mishaps>>
  PROVE  LeaseIInv'
<1>1. w \in Actors /\ doc.status # "NEW"
  BY WorkerFacts, Created
<1>2. QED
  BY <1>1, IdleLocal, WorkerFacts, MoveStep DEF Ack, Holding, LeaseIInv, TypeOK

LEMMA CheckSound ==
  ASSUME LeaseIInv, NEW w \in Workers, CheckCancelled(w)
  PROVE  LeaseIInv'
<1>1. /\ w \in Actors /\ actor[w] \in Local /\ actor[w].pc = "CHECK"
      /\ actor[w].mem.status \in Taken
  BY WorkerFacts DEF CheckCancelled
<1>2. doc.status # "NEW"
  BY <1>1, Created
<1> SUFFICES ASSUME NEW pc \in {"STOP", "MARK"}, Goto(w, pc) PROVE LeaseIInv'
  BY DEF CheckCancelled
<1> DEFINE next == [actor[w] EXCEPT !.pc = pc]
<1>3. next \in Local /\ next.pc = pc /\ next.mem = actor[w].mem /\ pc \notin Holding
  BY <1>1 DEF Local, Pc, Holding
<1>4. actor' = [actor EXCEPT ![w] = next]
  BY DEF Goto
<1> HIDE DEF next
<1>5. /\ doc' = doc /\ inbox' \in [Messages -> 0 .. MaxDeliveries]
      /\ mishaps \subseteq mishaps' /\ mishaps' \subseteq Mishaps
      /\ Executing(w)
  BY DEF CheckCancelled, Outage, Mishaps, LeaseIInv, TypeOK, Executing
<1>6. QED
  BY <1>1, <1>2, <1>3, <1>4, <1>5, MoveStep

LEMMA RaiseSound ==
  ASSUME LeaseIInv, NEW w \in Workers, Raise(w)
  PROVE  LeaseIInv'
<1> DEFINE m == IF actor[w].pc \in Holding THEN actor[w].rec ELSE actor[w].mem
           next == [Idle EXCEPT !.pc = "FAIL", !.msg = actor[w].msg, !.mem = m]
<1>1. /\ w \in Actors /\ actor[w] \in Local /\ actor[w].pc \notin {"IDLE", "DONE"}
      /\ actor[w].mem.status \in Taken
  BY WorkerFacts DEF Raise
<1>2. doc.status # "NEW"
  BY <1>1, Created
<1>3. m \in Record /\ m.status \in Taken
  BY <1>1, WorkerFacts DEF Local
<1>4. actor' = [actor EXCEPT ![w] = next]
  BY DEF Raise
<1> HIDE DEF m
<1>5. next \in Local /\ next.pc = "FAIL" /\ next.mem = m /\ "FAIL" \notin Holding
  BY <1>1, <1>3, IdleLocal DEF Local, Pc, Holding
<1> HIDE DEF next
<1>6. /\ doc' = doc /\ inbox' \in [Messages -> 0 .. MaxDeliveries]
      /\ mishaps \subseteq mishaps' /\ mishaps' \subseteq Mishaps
  BY DEF Raise, Mishaps, LeaseIInv, TypeOK
<1>7. QED
  BY <1>1, <1>2, <1>3, <1>4, <1>5, <1>6, MoveStep

LEMMA WorkerReads ==
  ASSUME LeaseIInv, NEW w \in Workers,
         MarkRead(w) \/ FinishRead(w) \/ StopRead(w) \/ FailRead(w)
  PROVE  LeaseIInv'
<1>1. /\ w \in Actors /\ actor[w].pc \in {"MARK", "FINISH", "STOP", "FAIL"}
      /\ actor[w].pc # "FAIL" => Executing(w)
      /\ actor[w].mem.status \in Taken
  BY WorkerFacts DEF MarkRead, FinishRead, StopRead, FailRead, Executing
<1>2. doc.status # "NEW"
  BY <1>1, Created
<1>3. CASE MarkRead(w)
  <2>1. Seen(w) \in Record /\ Seen(w).status \in Taken /\ (Present => Seen(w) = doc)
    BY <1>1, <1>2, SeenRecord, TakenPresent DEF Seen, LeaseIInv, StatusesTaken, Present
  <2>2. "MARK_WRITE" \in Pc /\ "MARK_WRITE" \in Rewriting /\ "MARK_WRITE" \notin Requested
    BY DEF Pc, Rewriting, Requested
  <2>3. Present => Legal(doc.status, Seen(w).status)
    BY <2>1 DEF Legal
  <2>4. QED
    BY <1>1, <1>2, <1>3, <2>1, <2>2, <2>3, CopyStep DEF MarkRead
<1>4. CASE FinishRead(w)
  <2>1. PICK target \in {"COMPLETED", "FAILED"} :
          IF Legal(Seen(w).status, target)
          THEN Copy(w, "FINISH_WRITE", Moved(Seen(w), target)) /\ UNCHANGED inbox
          ELSE Ack(w)
    BY <1>4 DEF FinishRead
  <2>2. UNCHANGED <<doc, mishaps>>
    BY <1>4 DEF FinishRead
  <2>3. "FINISH_WRITE" \notin Requested
    BY DEF Requested
  <2>4. CASE Legal(Seen(w).status, target)
    <3>1. Copy(w, "FINISH_WRITE", Moved(Seen(w), target)) /\ UNCHANGED <<doc, inbox, mishaps>>
      BY <2>1, <2>2, <2>4
    <3>2. actor[w].pc # "FAIL"
      BY <1>4 DEF FinishRead
    <3>3. QED
      BY <1>1, <2>3, <2>4, <3>1, <3>2, TransitionRead
  <2>5. CASE ~Legal(Seen(w).status, target)
    BY <1>1, <2>1, <2>2, <2>5, AckSound
  <2>6. QED
    BY <2>4, <2>5
<1>5. CASE StopRead(w)
  <2>1. "STOP_WRITE" \notin Requested /\ actor[w].pc # "FAIL"
    BY <1>5 DEF Requested, StopRead
  <2>2. CASE Legal(Seen(w).status, "CANCELLED")
    BY <1>1, <1>5, <2>1, <2>2, TransitionRead DEF StopRead
  <2>3. CASE ~Legal(Seen(w).status, "CANCELLED")
    BY <1>1, <1>5, <2>3, AckSound DEF StopRead
  <2>4. QED
    BY <2>2, <2>3
<1>6. CASE FailRead(w)
  <2>1. "FAIL_WRITE" \notin Requested
    BY DEF Requested
  <2>2. ASSUME actor' = [actor EXCEPT ![w] = Idle], UNCHANGED <<doc, inbox>>,
               mishaps \subseteq mishaps', mishaps' \subseteq Mishaps
        PROVE  LeaseIInv'
    BY <1>1, <1>2, <2>2, IdleLocal, WorkerFacts, MoveStep DEF Holding
  <2>3. CASE ReadForTransition(w, "FAILED", "FAIL_WRITE", Idle) /\ UNCHANGED mishaps
    BY <1>1, <1>6, <2>1, <2>2, <2>3, TransitionRead DEF ReadForTransition, FailRead, LeaseIInv, TypeOK
  <2>4. CASE actor' = [actor EXCEPT ![w] = Idle] /\ Outage
    BY <1>6, <2>2, <2>4 DEF FailRead, Outage, Mishaps, LeaseIInv, TypeOK
  <2>5. QED
    BY <1>6, <2>3, <2>4 DEF FailRead
<1>7. QED
  BY <1>3, <1>4, <1>5, <1>6

LEMMA WorkerWrites ==
  ASSUME LeaseIInv, NEW w \in Workers,
         Provenance(w) \/ MarkWrite(w) \/ FinishWrite(w) \/ StopWrite(w) \/ ReportWrite(w)
  PROVE  LeaseIInv'
<1> DEFINE r == actor[w].rec
<1>1. /\ w \in Actors /\ actor[w] \in Local
      /\ actor[w].pc \in {"PROVENANCE", "MARK_WRITE", "FINISH_WRITE", "STOP_WRITE",
                          "DECIDE", "REPORT"}
      /\ actor[w].pc \in Holding /\ actor[w].mem.status \in Taken
  BY WorkerFacts DEF Provenance, MarkWrite, FinishWrite, StopWrite, ReportWrite, Holding
<1>2. inbox' \in [Messages -> 0 .. MaxDeliveries]
  BY WorkerFacts DEF Provenance, MarkWrite, FinishWrite, StopWrite, ReportWrite
<1>3. actor[w].pc \in {"PROVENANCE", "MARK_WRITE"} => Executing(w) /\ actor[w].pc \in Rewriting
  BY DEF Executing, Rewriting
<1>4. r \in Record
  BY <1>1 DEF Local
<1>5. CASE Provenance(w)
  <2> DEFINE next == [Idle EXCEPT !.pc = "MARK", !.msg = actor[w].msg, !.mem = actor[w].mem]
  <2>1. SaveOrSwallow(w, r, next) /\ inbox' = inbox /\ actor[w].pc = "PROVENANCE"
    BY <1>5 DEF Provenance
  <2>2. next \in Local /\ next.pc = "MARK" /\ next.mem = actor[w].mem /\ "MARK" \notin Holding
    BY <1>1, IdleLocal DEF Local, Pc, Holding
  <2> HIDE DEF next
  <2>3. CASE Save(w, r, next)
    BY <1>1, <1>2, <1>3, <2>1, <2>2, <2>3, SavedCopy
  <2>4. CASE Outage /\ Go(w, [next EXCEPT !.old = actor[w].old /\ next.pc \in Holding])
    BY <1>1, <1>3, <2>1, <2>2, <2>4, SwallowStep DEF Outage
  <2>5. QED
    BY <2>1, <2>3, <2>4 DEF SaveOrSwallow
<1>6. CASE MarkWrite(w)
  <2>1. PICK pc \in AfterMark(actor[w].stage) :
          Save(w, r, [actor[w] EXCEPT !.pc = pc, !.old = FALSE, !.rec = Idle.rec,
                                      !.stage = IF @ < Stages THEN @ + 1 ELSE @])
    BY <1>6 DEF MarkWrite
  <2> DEFINE s == IF actor[w].stage < Stages THEN actor[w].stage + 1 ELSE actor[w].stage
             next == [actor[w] EXCEPT !.pc = pc, !.old = FALSE, !.rec = Idle.rec, !.stage = s]
  <2>2. s \in 0 .. Stages
    BY <1>1, LifecycleAssumption DEF Local
  <2>3. pc \in {"MARK", "CHECK", "FINISH"}
    BY DEF AfterMark
  <2>4. Idle.rec \in Record
    BY IdleLocal DEF Local
  <2>5. Save(w, r, next)
    BY <2>1
  <2> HIDE DEF s
  <2>6. next \in Local /\ next.pc = pc
    BY <1>1, <2>2, <2>3, <2>4 DEF Local, Pc
  <2> HIDE DEF next
  <2>7. pc \notin Holding /\ actor[w].pc = "MARK_WRITE"
    BY <1>6, <2>3 DEF Holding, MarkWrite
  <2>8. QED
    BY <1>1, <1>2, <1>3, <2>3, <2>5, <2>6, <2>7, SavedCopy
<1>7. CASE FinishWrite(w)
  <2> DEFINE d == [r EXCEPT !.decided = TRUE]
             next == [actor[w] EXCEPT !.pc = "DECIDE", !.old = FALSE, !.rec = d]
  <2>1. Save(w, r, next) /\ actor[w].pc = "FINISH_WRITE"
    BY <1>1, <1>7 DEF FinishWrite, Local
  <2>2. d \in Record /\ d.status = r.status /\ d.live = r.live
    BY <1>4 DEF Record
  <2> HIDE DEF d
  <2>3. next \in Local /\ next.pc = "DECIDE" /\ next.rec = d
    BY <1>1, <2>2 DEF Local, Pc
  <2> HIDE DEF next
  <2>4. "DECIDE" \in Rewriting
    BY DEF Rewriting
  <2>5. QED
    BY <1>1, <1>2, <2>1, <2>2, <2>3, <2>4, SavedCopy
<1>8. CASE StopWrite(w)
  <2> DEFINE next == [actor[w] EXCEPT !.pc = "REPORT", !.old = FALSE]
  <2>1. Save(w, r, next) /\ actor[w].pc = "STOP_WRITE"
    BY <1>8 DEF StopWrite
  <2>2. next \in Local /\ next.pc = "REPORT" /\ next.rec = r
    BY <1>1 DEF Local, Pc
  <2> HIDE DEF next
  <2>3. "REPORT" \in Rewriting
    BY DEF Rewriting
  <2>4. QED
    BY <1>1, <1>2, <2>1, <2>2, <2>3, SavedCopy
<1>9. CASE ReportWrite(w)
  <2>1. Idle \in Local /\ Idle.pc = "IDLE" /\ "IDLE" \notin Holding
    BY IdleLocal DEF Holding
  <2>2. Save(w, r, Idle) /\ actor[w].pc \in {"DECIDE", "REPORT"}
    BY <1>9 DEF ReportWrite
  <2>3. QED
    BY <1>1, <1>2, <2>1, <2>2, SavedCopy
<1>10. QED
  BY <1>5, <1>6, <1>7, <1>8, <1>9

\* A worker that fails beside another one says so.
LEMMA FailWriteSound ==
  ASSUME LeaseIInv, NEW w \in Workers, FailWrite(w)
  PROVE  LeaseIInv'
<1>1. /\ w \in Actors /\ actor[w].pc = "FAIL_WRITE" /\ actor[w].pc \in Holding
      /\ inbox' \in [Messages -> 0 .. MaxDeliveries]
  BY WorkerFacts DEF FailWrite, Holding
<1>2. /\ doc' = actor[w].rec /\ Outdate(w, actor[w].rec, Idle)
      /\ Cost(w) \subseteq mishaps' /\ mishaps \subseteq mishaps' /\ mishaps' \subseteq Mishaps
  BY DEF FailWrite, Cost, Mishaps, LeaseIInv, TypeOK
<1>3. KeepsLease(w)
  <2> SUFFICES ASSUME Undisturbed' PROVE KeepsLease(w)
    BY DEF KeepsLease
  <2>1. \A v \in Workers : ~Executing(v)
    BY DEF FailWrite, Undisturbed
  <2>2. actor[w].rec.status # "RUNNING"
    <3>1. SoundFor(w)
      BY <1>1, InvariantByActor
    <3>2. QED
      BY <1>1, <3>1 DEF SoundFor, Rewriting
  <2>3. QED
    BY <1>2, <2>1, <2>2 DEF KeepsLease
<1>4. QED
  BY <1>1, <1>2, <1>3, LastWrite

-----------------------------------------------------------------------------
(* The environment *)

LEMMA CrashSound ==
  ASSUME LeaseIInv, NEW p \in Actors, Crash(p)
  PROVE  LeaseIInv'
<1> DEFINE next == IF p \in Workers THEN Idle ELSE Done
<1>1. next \in Local /\ next.pc \notin Holding /\ next.pc \in {"IDLE", "DONE"}
      /\ (p \in Workers => next.pc = "IDLE")
  BY IdleLocal DEF Holding
<1>2. doc' = doc /\ actor' = [actor EXCEPT ![p] = next] /\ doc.status # "NEW"
  BY Created DEF Crash
<1> HIDE DEF next
<1>3. /\ inbox' \in [Messages -> 0 .. MaxDeliveries]
      /\ mishaps \subseteq mishaps' /\ mishaps' \subseteq Mishaps
  BY DEF Crash, Mishaps, LeaseIInv, TypeOK
<1>4. QED
  BY <1>1, <1>2, <1>3, MoveStep

\* A running mission without a heartbeat has already lost its lease.
LEMMA HeartbeatSound ==
  ASSUME LeaseIInv, NEW w \in Workers, Heartbeat(w)
  PROVE  LeaseIInv'
<1>1. w \in Actors /\ doc \in Record
  BY WorkerFacts DEF LeaseIInv, TypeOK
<1>2. /\ doc' \in Record /\ doc'.status = doc.status /\ doc'.decided = doc.decided
      /\ UNCHANGED <<actor, inbox, mishaps>>
  BY <1>1 DEF Heartbeat, Record
<1>3. ~Undisturbed' /\ Present' = Present /\ Deletable' = Deletable
  BY <1>2 DEF Heartbeat, Undisturbed, Present, Deletable, LeaseIInv, LeaseHeld
<1>4. SoundFor(w)
  BY <1>1, InvariantByActor
<1>5. TypeOK' /\ Others(w) /\ KeepsLease(w)
  BY <1>2, <1>3 DEF LeaseIInv, TypeOK, Others, KeepsLease
<1>6. SoundFor(w)'
  BY <1>2, <1>3, <1>4 DEF SoundFor, Legal
<1>7. doc'.status \in Taken \cup {"GONE"}
  BY <1>2 DEF Heartbeat, Taken
<1>8. QED
  BY <1>1, <1>2, <1>5, <1>6, <1>7, Frame

LEMMA TimePassesSound ==
  ASSUME LeaseIInv, TimePasses
  PROVE  LeaseIInv'
<1>1. /\ doc \in Record /\ doc' = [doc EXCEPT !.live = FALSE]
      /\ inbox' = inbox /\ mishaps \subseteq mishaps' /\ mishaps' \subseteq Mishaps
  BY DEF LeaseIInv, TypeOK, TimePasses, Mishaps
<1>2. ASSUME NEW p \in Actors
      PROVE  /\ actor'[p] \in Local
             /\ actor'[p].pc = actor[p].pc /\ actor'[p].old = actor[p].old
             /\ actor'[p].rec.status = actor[p].rec.status
             /\ actor'[p].rec.attempt = actor[p].rec.attempt
             /\ actor'[p].mem.status = actor[p].mem.status
  <2> DEFINE r == [actor[p].rec EXCEPT !.live = FALSE]
             m == [actor[p].mem EXCEPT !.live = FALSE]
  <2>1. actor[p] \in Local
    BY DEF LeaseIInv, TypeOK
  <2>2. /\ r \in Record /\ r.status = actor[p].rec.status /\ r.attempt = actor[p].rec.attempt
        /\ m \in Record /\ m.status = actor[p].mem.status
    BY <2>1 DEF Local, Record
  <2>3. actor'[p] = [actor[p] EXCEPT !.rec = r, !.mem = m]
    BY <2>1 DEF TimePasses, Local
  <2> HIDE DEF r, m
  <2>4. QED
    BY <2>1, <2>2, <2>3 DEF Local
<1>3. doc' \in Record /\ doc'.status = doc.status
  BY <1>1 DEF Record
<1>4. TypeOK'
  BY <1>1, <1>2, <1>3 DEF TimePasses, LeaseIInv, TypeOK
<1>5. Present' = Present /\ Deletable' = Deletable
  BY <1>3 DEF Present, Deletable
<1>6. StatusesTaken'
  BY <1>2, <1>3 DEF LeaseIInv, StatusesTaken, Actors
<1>7. CopiesFit'
  BY <1>2, <1>3, <1>5 DEF LeaseIInv, CopiesFit, Legal
<1>8. RetriesLeft'
  BY <1>2 DEF LeaseIInv, RetriesLeft
<1>9. LeaseHeld'
  <2> SUFFICES ASSUME Undisturbed' PROVE LeaseHeld'
    BY DEF LeaseHeld
  <2>1. Undisturbed /\ ~doc.live
    BY DEF TimePasses, Undisturbed
  <2>2. doc.status # "RUNNING"
    BY <2>1 DEF LeaseIInv, LeaseHeld
  <2>3. ASSUME NEW p \in Actors, actor'[p].pc \in Rewriting, ~actor'[p].old, Present'
        PROVE  actor'[p].rec.status # "RUNNING"
    <3>1. SoundFor(p) /\ actor[p].pc \in Rewriting /\ ~actor[p].old /\ Present
      BY <1>2, <1>5, <2>3, InvariantByActor
    <3>2. actor[p].rec.status = doc.status
      BY <3>1 DEF SoundFor, Rewriting, Holding
    <3>3. QED
      BY <1>2, <2>2, <3>2
  <2>4. \A w \in Workers : Executing(w)' = Executing(w)
    BY <1>2 DEF Executing, Actors
  <2>5. QED
    BY <1>3, <2>1, <2>2, <2>3, <2>4 DEF LeaseIInv, LeaseHeld
<1>10. QED
  BY <1>4, <1>6, <1>7, <1>8, <1>9 DEF LeaseIInv

\* Nothing but messages and mishaps change.
LEMMA MessageSound ==
  ASSUME LeaseIInv, UNCHANGED <<doc, actor>>,
         inbox' \in [Messages -> 0 .. MaxDeliveries],
         mishaps \subseteq mishaps', mishaps' \subseteq Mishaps
  PROVE  LeaseIInv'
<1>1. TypeOK'
  BY DEF LeaseIInv, TypeOK
<1>2. StatusesTaken' /\ CopiesFit' /\ RetriesLeft'
  BY DEF LeaseIInv, StatusesTaken, CopiesFit, RetriesLeft, Present, Deletable, Legal
<1>3. LeaseHeld'
  BY DEF LeaseIInv, LeaseHeld, Undisturbed, Present, Executing
<1>4. QED
  BY <1>1, <1>2, <1>3 DEF LeaseIInv

-----------------------------------------------------------------------------
(* The decision of a completed mission *)

\* What DecisionKept says of the copy of one actor.
CopyDecided(p) ==
    actor[p].pc \in Holding /\ ~actor[p].old /\ actor[p].rec.status = "COMPLETED" =>
        \/ actor[p].pc = "FINISH_WRITE"
        \/ actor[p].pc = "DECIDE" /\ actor[p].rec.decided
        \/ /\ actor[p].pc \in {"FLAG_WRITE", "PROVENANCE", "MARK_WRITE"}
           /\ Present /\ actor[p].rec.decided = doc.decided

\* And what a worker remembers.
Remembers(p) ==
    p \in Workers /\ actor[p].pc # "IDLE" /\ actor[p].mem.status = "COMPLETED" =>
        doc.status \in {"COMPLETED", "ARCHIVED"}

\* A step of p leaves the copies of the others decided or outdated.
LEMMA DecisionFrame ==
  ASSUME DecisionKept, NEW p \in Actors, Others(p), mishaps \subseteq mishaps',
         Intact' =>
            /\ doc'.status = "COMPLETED" =>
                  doc'.decided \/ \E w \in Workers : actor'[w].pc = "DECIDE"
            /\ CopyDecided(p)' /\ Remembers(p)'
            /\ doc.status \in {"COMPLETED", "ARCHIVED"} => doc'.status \in {"COMPLETED", "ARCHIVED"}
  PROVE  DecisionKept'
<1> SUFFICES ASSUME Intact' PROVE DecisionKept'
  BY DEF DecisionKept
<1>1. Intact
  BY DEF Intact
<1>2. ASSUME NEW q \in Actors, q # p
      PROVE  CopyDecided(q)' /\ Remembers(q)'
  <2>1. /\ actor'[q].pc = actor[q].pc /\ actor'[q].rec = actor[q].rec
        /\ actor'[q].mem = actor[q].mem
        /\ actor[q].pc \in Holding /\ ~actor'[q].old =>
              ~actor[q].old /\ doc'.status = doc.status /\ doc'.decided = doc.decided
    BY <1>2 DEF Others
  <2>2. CopyDecided(q) /\ Remembers(q)
    BY <1>1 DEF DecisionKept, CopyDecided, Remembers, Actors
  <2>3. CopyDecided(q)'
    BY <2>1, <2>2 DEF CopyDecided, Present
  <2>4. Remembers(q)'
    BY <2>1, <2>2 DEF Remembers
  <2>5. QED
    BY <2>3, <2>4
<1>3. \A q \in Actors : CopyDecided(q)' /\ Remembers(q)'
  BY <1>2
<1>4. \A q \in Actors : CopyDecided(q)'
  BY <1>3
<1>5. \A w \in Workers : Remembers(w)'
  BY <1>3 DEF Actors
<1>6. QED
  BY <1>4, <1>5 DEF DecisionKept, CopyDecided, Remembers

\* The record stays as it is, and the worker that decides at its place.
LEMMA DecisionStays ==
  ASSUME DecisionKept, NEW p \in Actors, Others(p), mishaps \subseteq mishaps',
         doc'.status = doc.status, doc'.decided = doc.decided,
         Intact' => actor[p].pc # "DECIDE" /\ CopyDecided(p)' /\ Remembers(p)'
  PROVE  DecisionKept'
<1> SUFFICES ASSUME Intact'
             PROVE  doc'.status = "COMPLETED" =>
                       doc'.decided \/ \E w \in Workers : actor'[w].pc = "DECIDE"
  BY DecisionFrame
<1>1. Intact
  BY DEF Intact
<1>2. \A w \in Workers : actor[w].pc = "DECIDE" => actor'[w].pc = "DECIDE"
  BY DEF Others, Actors
<1>3. QED
  BY <1>1, <1>2 DEF DecisionKept

LEMMA DecisionMoved ==
  ASSUME IInv, NEW p \in Actors, NEW next, doc' = doc, actor' = [actor EXCEPT ![p] = next],
         mishaps \subseteq mishaps', actor[p].pc # "DECIDE",
         next.pc \in Holding => next.rec.status # "COMPLETED",
         p \in Workers /\ next.pc # "IDLE" => actor[p].pc # "IDLE" /\ next.mem = actor[p].mem
  PROVE  DecisionKept'
<1>1. Others(p) /\ actor'[p] = next
  BY LocalOthers DEF IInv, LeaseIInv
<1>2. CopyDecided(p)'
  BY <1>1 DEF CopyDecided
<1>3. Intact' => Remembers(p)'
  BY <1>1 DEF Intact, IInv, DecisionKept, Remembers
<1>4. QED
  BY <1>1, <1>2, <1>3, DecisionStays DEF IInv

LEMMA DecisionCopied ==
  ASSUME IInv, NEW p \in Actors, NEW pc, NEW r, Copy(p, pc, r), doc' = doc,
         mishaps \subseteq mishaps', actor[p].pc # "DECIDE",
         p \in Workers => actor[p].pc # "IDLE",
         Intact /\ pc \in Holding /\ r.status = "COMPLETED" =>
            \/ pc = "FINISH_WRITE"
            \/ pc \in {"FLAG_WRITE", "MARK_WRITE"} /\ Present /\ r.decided = doc.decided
  PROVE  DecisionKept'
<1> DEFINE next == [actor[p] EXCEPT !.pc = pc, !.rec = r, !.old = FALSE]
<1>1. actor[p] \in Local
  BY DEF IInv, LeaseIInv, TypeOK
<1>2. actor' = [actor EXCEPT ![p] = next] /\ next.pc = pc /\ next.rec = r /\ next.mem = actor[p].mem
  BY <1>1 DEF Copy, Local
<1> HIDE DEF next
<1>3. Others(p) /\ actor'[p] = next
  BY <1>2, LocalOthers DEF IInv, LeaseIInv
<1>4. Intact' => Intact
  BY DEF Intact
<1>5. Intact' => CopyDecided(p)'
  BY <1>2, <1>3, <1>4 DEF CopyDecided, Present
<1>6. Intact' => Remembers(p)'
  BY <1>2, <1>3, <1>4 DEF IInv, DecisionKept, Remembers
<1>7. QED
  BY <1>3, <1>5, <1>6, DecisionStays DEF IInv

\* A copy that is written back decided, or by the worker that is to decide.
LEMMA DecisionWritten ==
  ASSUME IInv, NEW p \in Actors, Others(p), actor[p].pc \in Holding, actor[p].pc # "DELETE",
         doc' = actor[p].rec, Cost(p) \subseteq mishaps', mishaps \subseteq mishaps',
         actor[p].pc = "FINISH_WRITE" => p \in Workers /\ actor'[p].pc = "DECIDE",
         p \in Workers /\ actor'[p].pc # "IDLE" => actor'[p].mem = doc',
         Intact' => CopyDecided(p)'
  PROVE  DecisionKept'
<1> SUFFICES ASSUME Intact' PROVE DecisionKept'
  BY DEF DecisionKept
<1>1. Intact /\ ~actor[p].old
  BY DEF Intact, Cost
<1>2. CopyDecided(p)
  BY <1>1 DEF IInv, DecisionKept, CopyDecided
<1>3. doc'.status = "COMPLETED" => doc'.decided \/ \E w \in Workers : actor'[w].pc = "DECIDE"
  <2> SUFFICES ASSUME actor[p].rec.status = "COMPLETED", ~actor[p].rec.decided
               PROVE  \E w \in Workers : actor'[w].pc = "DECIDE"
    OBVIOUS
  <2>1. CASE actor[p].pc = "FINISH_WRITE"
    BY <2>1
  <2>2. CASE /\ actor[p].pc \in {"FLAG_WRITE", "PROVENANCE", "MARK_WRITE"}
             /\ Present /\ actor[p].rec.decided = doc.decided
    <3>1. doc.status = "COMPLETED"
      BY <1>1, <2>2 DEF IInv, LeaseIInv, CopiesFit, Holding, Rewriting
    <3>2. PICK w \in Workers : actor[w].pc = "DECIDE"
      BY <1>1, <2>2, <3>1 DEF IInv, DecisionKept
    <3>3. w \in Actors \ {p}
      BY <2>2, <3>2 DEF Actors
    <3>4. QED
      BY <3>2, <3>3 DEF Others
  <2>3. QED
    BY <1>1, <1>2, <2>1, <2>2 DEF CopyDecided
<1>4. doc.status \in {"COMPLETED", "ARCHIVED"} => doc'.status \in {"COMPLETED", "ARCHIVED"}
  <2> SUFFICES ASSUME doc.status \in {"COMPLETED", "ARCHIVED"}
               PROVE  actor[p].rec.status \in {"COMPLETED", "ARCHIVED"}
    OBVIOUS
  <2>1. Present
    BY AllowedDomain DEF Present
  <2>2. Legal(doc.status, actor[p].rec.status)
    BY <1>1, <2>1 DEF IInv, LeaseIInv, CopiesFit
  <2>3. QED
    BY <2>2, AllowedRows DEF Legal
<1>5. Remembers(p)'
  BY DEF Remembers
<1>6. QED
  BY <1>3, <1>4, <1>5, DecisionFrame DEF IInv

LEMMA DecisionSaved ==
  ASSUME IInv, NEW p \in Actors, NEW next \in Local, Save(p, actor[p].rec, next),
         actor[p].pc \in Holding, actor[p].pc # "DELETE",
         actor[p].pc = "FINISH_WRITE" => p \in Workers /\ next.pc = "DECIDE",
         Intact /\ ~actor[p].old /\ next.pc \in Holding /\ next.rec.status = "COMPLETED" =>
            next.pc = "DECIDE" /\ next.rec.decided
  PROVE  DecisionKept'
<1> DEFINE n == IF p \in Workers
                THEN [next EXCEPT !.mem = IF next.pc = "IDLE" THEN @ ELSE actor[p].rec] ELSE next
<1>1. /\ n.pc = next.pc /\ n.rec = next.rec
      /\ p \in Workers /\ n.pc # "IDLE" => n.mem = actor[p].rec
  BY DEF Local
<1>2. doc' = actor[p].rec /\ Outdate(p, actor[p].rec, n) /\ mishaps' = mishaps \cup Cost(p)
  BY DEF Save
<1> HIDE DEF n
<1>3. actor[p].rec \in Record
  BY DEF IInv, LeaseIInv, TypeOK, Local
<1>4. Others(p) /\ actor'[p] = n
  BY <1>2, <1>3, WriteOthers DEF IInv, LeaseIInv
<1>5. Intact' => Intact /\ ~actor[p].old
  BY <1>2 DEF Intact, Cost
<1>6. Intact' => CopyDecided(p)'
  BY <1>1, <1>4, <1>5 DEF CopyDecided
<1>7. QED
  BY <1>1, <1>2, <1>4, <1>6, DecisionWritten

LEMMA DecisionSwallowed ==
  ASSUME IInv, NEW p \in Actors, NEW next \in Local, actor[p].pc \in Holding,
         SaveOrSwallow(p, actor[p].rec, next),
         actor[p].pc \notin {"DELETE", "DECIDE", "FINISH_WRITE"},
         next.pc \in Holding => next.rec.status # "COMPLETED",
         p \in Workers /\ next.pc # "IDLE" => actor[p].pc # "IDLE" /\ next.mem = actor[p].mem
  PROVE  DecisionKept'
<1>1. CASE Save(p, actor[p].rec, next)
  BY <1>1, DecisionSaved
<1>2. CASE Outage /\ Go(p, [next EXCEPT !.old = actor[p].old /\ next.pc \in Holding])
  <2> DEFINE o == actor[p].old /\ next.pc \in Holding
             n == [next EXCEPT !.old = o]
  <2>1. doc' = doc /\ actor' = [actor EXCEPT ![p] = n] /\ mishaps \subseteq mishaps'
    BY <1>2 DEF Go, Outage
  <2> HIDE DEF o
  <2>2. n.pc = next.pc /\ n.rec = next.rec /\ n.mem = next.mem
    BY DEF Local
  <2> HIDE DEF n
  <2>3. QED
    BY <2>1, <2>2, DecisionMoved
<1>3. QED
  BY <1>1, <1>2 DEF SaveOrSwallow

LEMMA DecisionRequests ==
  ASSUME IInv, NEW q \in Requests, Request(q)
  PROVE  DecisionKept'
<1>1. q \in Actors /\ q \notin Workers /\ actor[q] \in Local /\ doc \in Record
  BY LifecycleAssumption DEF Actors, IInv, LeaseIInv, TypeOK
<1>2. CASE CreateMission(q)
  <2> DEFINE next == [Idle EXCEPT !.pc = "PUBLISH_NEW", !.rec = Blank("QUEUED")]
  <2>1. Blank("QUEUED").status = "QUEUED"
    BY DEF Blank
  <2>2. doc' = Blank("QUEUED") /\ actor' = [actor EXCEPT ![q] = next] /\ mishaps' = mishaps
    BY <1>2 DEF CreateMission
  <2>3. next.rec = Blank("QUEUED")
    BY DEF Idle
  <2> HIDE DEF next
  <2>4. \A p \in Actors : actor[p].pc \notin Holding
    BY <1>2 DEF CreateMission, IInv, LeaseIInv, StatusesTaken, Holding
  <2>5. Others(q) /\ actor'[q] = next
    BY <1>1, <2>2, <2>4 DEF Others, IInv, LeaseIInv, TypeOK
  <2>6. CopyDecided(q)' /\ Remembers(q)'
    BY <1>1, <2>1, <2>3, <2>5 DEF CopyDecided, Remembers
  <2>7. doc.status = "NEW"
    BY <1>2 DEF CreateMission
  <2>8. QED
    BY <1>1, <2>1, <2>2, <2>5, <2>6, <2>7, DecisionFrame DEF IInv
<1>3. CASE RequestCancel(q)
  <2>1. CASE Goto(q, "CANCEL")
    <3> DEFINE next == [actor[q] EXCEPT !.pc = "CANCEL"]
    <3>1. next.pc = "CANCEL" /\ next.pc \notin Holding
      BY <1>1 DEF Local, Holding
    <3>2. doc' = doc /\ actor' = [actor EXCEPT ![q] = next] /\ mishaps' = mishaps
      BY <1>3, <2>1 DEF RequestCancel, Goto
    <3>3. actor[q].pc # "DECIDE"
      BY <1>3 DEF RequestCancel
    <3> HIDE DEF next
    <3>4. QED
      BY <1>1, <3>1, <3>2, <3>3, DecisionMoved
  <2>2. CASE doc.status = "RUNNING" /\ Copy(q, "FLAG_WRITE", [doc EXCEPT !.cancel = TRUE])
    <3> DEFINE r == [doc EXCEPT !.cancel = TRUE]
    <3>1. r.status = "RUNNING"
      BY <1>1, <2>2 DEF Record
    <3>2. doc' = doc /\ mishaps' = mishaps /\ actor[q].pc = "IDLE" /\ Copy(q, "FLAG_WRITE", r)
      BY <1>3, <2>2 DEF RequestCancel
    <3> HIDE DEF r
    <3>3. QED
      BY <1>1, <3>1, <3>2, DecisionCopied
  <2>3. QED
    BY <1>3, <2>1, <2>2 DEF RequestCancel
<1>4. CASE RequestRetry(q)
  BY <1>1, <1>4, DecisionCopied DEF RequestRetry, Holding
<1>5. CASE RequestArchive(q)
  <2> DEFINE next == [actor[q] EXCEPT !.pc = "ARCHIVE"]
  <2>1. next.pc = "ARCHIVE" /\ next.pc \notin Holding
    BY <1>1 DEF Local, Holding
  <2>2. doc' = doc /\ actor' = [actor EXCEPT ![q] = next] /\ mishaps' = mishaps
        /\ actor[q].pc # "DECIDE"
    BY <1>5 DEF RequestArchive, Goto
  <2> HIDE DEF next
  <2>3. QED
    BY <1>1, <2>1, <2>2, DecisionMoved
<1>6. CASE RequestDelete(q)
  <2>1. doc.status # "COMPLETED" /\ Copy(q, "DELETE", doc) /\ actor[q].pc = "IDLE"
        /\ doc' = doc /\ mishaps' = mishaps
    BY <1>6 DEF RequestDelete, Deletable
  <2>2. QED
    BY <1>1, <2>1, DecisionCopied
<1>7. QED
  BY <1>2, <1>3, <1>4, <1>5, <1>6 DEF Request

\* The first half of apply_transition copies a record that was changed to
\* another status, or completes the mission.
LEMMA DecisionTransition ==
  ASSUME IInv, NEW p \in Actors, NEW target \in Status, NEW pc, NEW refused,
         ReadForTransition(p, target, pc, refused), UNCHANGED <<doc, mishaps>>,
         actor[p].pc \notin {"IDLE", "DECIDE"}, target # "COMPLETED",
         refused \in {Idle, Done}, p \in Workers => refused = Idle
  PROVE  DecisionKept'
<1>1. Seen(p) \in Record
  BY SeenRecord DEF IInv
<1>2. Moved(Seen(p), target).status = target
  BY <1>1, MovedRecord
<1>3. CASE Copy(p, pc, Moved(Seen(p), target))
  BY <1>2, <1>3, DecisionCopied
<1>4. CASE actor' = [actor EXCEPT ![p] = refused]
  BY <1>4, IdleLocal, DecisionMoved DEF Holding
<1>5. QED
  BY <1>3, <1>4 DEF ReadForTransition

LEMMA DecisionReads ==
  ASSUME IInv, NEW q \in Requests, CancelRead(q) \/ RetryRead(q) \/ ArchiveRead(q)
  PROVE  DecisionKept'
<1>1. q \in Actors /\ q \notin Workers /\ doc \in Record
  BY LifecycleAssumption DEF Actors, IInv, LeaseIInv, TypeOK
<1>2. "CANCELLED" \in Status /\ "ARCHIVED" \in Status
  BY AllowedDomain DEF Status
<1>3. CASE CancelRead(q)
  BY <1>1, <1>2, <1>3, DecisionTransition DEF CancelRead
<1>4. CASE ArchiveRead(q)
  BY <1>1, <1>2, <1>4, DecisionTransition DEF ArchiveRead
<1>5. CASE RetryRead(q)
  <2> DEFINE r == [doc EXCEPT !.status = "QUEUED", !.attempt = actor[q].rec.attempt + 1]
  <2>1. r.status = "QUEUED"
    BY <1>1 DEF Record
  <2>2. Copy(q, "RETRY_WRITE", r) \/ actor' = [actor EXCEPT ![q] = Done]
    BY <1>5 DEF RetryRead
  <2> HIDE DEF r
  <2>3. actor[q].pc = "RETRY" /\ doc' = doc /\ mishaps' = mishaps
    BY <1>5 DEF RetryRead
  <2>4. QED
    BY <1>1, <2>1, <2>2, <2>3, IdleLocal, DecisionCopied, DecisionMoved DEF Holding
<1>6. QED
  BY <1>3, <1>4, <1>5

LEMMA DecisionRequestWrites ==
  ASSUME IInv, NEW q \in Requests,
         \/ PublishNew(q) \/ PublishNewFails(q) \/ PublishRetry(q) \/ PublishRetryFails(q)
         \/ RequeueWrite(q)
         \/ FlagWrite(q) \/ RetryWrite(q) \/ RetryAgain(q) \/ TransitionWrite(q) \/ DeleteMission(q)
  PROVE  DecisionKept'
<1>1. q \in Actors /\ q \notin Workers /\ actor[q] \in Local
  BY LifecycleAssumption DEF Actors, IInv, LeaseIInv, TypeOK
<1>2. ASSUME NEW next \in Local, next.pc \notin Holding, Go(q, next), mishaps \subseteq mishaps',
             actor[q].pc # "DECIDE"
      PROVE  DecisionKept'
  BY <1>1, <1>2, DecisionMoved DEF Go
<1>3. Done \in Local /\ Done.pc \notin Holding
  BY IdleLocal DEF Holding
<1>4. CASE PublishNew(q) \/ PublishRetry(q) \/ PublishRetryFails(q)
  <2>1. /\ Go(q, Done) /\ mishaps \subseteq mishaps'
        /\ actor[q].pc \in {"PUBLISH_NEW", "PUBLISH"}
    BY <1>4 DEF PublishNew, PublishRetry, PublishRetryFails, Go, Outage
  <2>2. QED
    BY <1>2, <1>3, <2>1
<1>5. CASE PublishNewFails(q)
  <2> DEFINE next == [actor[q] EXCEPT !.pc = "REQUEUE"]
  <2>1. actor[q].pc = "PUBLISH_NEW" /\ Go(q, next) /\ mishaps \subseteq mishaps'
    BY <1>5 DEF PublishNewFails, Outage
  <2>2. next.rec = actor[q].rec
    BY <1>1 DEF Local
  <2>3. actor[q].rec.status # "COMPLETED"
    BY <1>1, <2>1 DEF IInv, LeaseIInv, CopiesFit, Holding, Requested
  <2> HIDE DEF next
  <2>4. QED
    BY <1>1, <2>1, <2>2, <2>3, DecisionMoved DEF Go
<1>6. ASSUME NEW next \in Local, next.pc \notin Holding, SaveOrSwallow(q, actor[q].rec, next),
             actor[q].pc \in {"FLAG_WRITE", "RETRY_AGAIN", "CANCEL_WRITE", "ARCHIVE_WRITE"}
      PROVE  DecisionKept'
  BY <1>1, <1>6, DecisionSwallowed DEF Holding
<1>7. CASE FlagWrite(q) \/ RetryAgain(q) \/ TransitionWrite(q)
  <2> DEFINE again == [Idle EXCEPT !.pc = "PUBLISH"]
  <2>1. again \in Local /\ again.pc \notin Holding
    BY IdleLocal DEF Local, Pc, Holding
  <2>2. PICK next \in {Done, again} :
          SaveOrSwallow(q, actor[q].rec, next) \/ (Go(q, next) /\ UNCHANGED mishaps)
    BY <1>7 DEF FlagWrite, RetryAgain, TransitionWrite, SaveIfPresent
  <2>3. actor[q].pc \in {"FLAG_WRITE", "RETRY_AGAIN", "CANCEL_WRITE", "ARCHIVE_WRITE"}
    BY <1>7 DEF FlagWrite, RetryAgain, TransitionWrite
  <2> HIDE DEF again
  <2>4. QED
    BY <1>2, <1>3, <1>6, <2>1, <2>2, <2>3
<1>8. CASE RetryWrite(q)
  <2> DEFINE c == [actor[q].rec EXCEPT !.cancel = FALSE]
             next == [Idle EXCEPT !.pc = "RETRY_AGAIN", !.rec = c]
  <2>1. actor[q].pc = "RETRY_WRITE" /\ SaveOrSwallow(q, actor[q].rec, next)
    BY <1>8 DEF RetryWrite
  <2>2. actor[q].rec.status \in {"QUEUED", "CANCELLED", "ARCHIVED"} /\ actor[q].pc \in Holding
    BY <1>1, <2>1 DEF IInv, LeaseIInv, CopiesFit, Holding, Requested
  <2>3. c \in Record /\ c.status # "COMPLETED"
    BY <1>1, <2>2 DEF Local, Record
  <2> HIDE DEF c
  <2>4. next \in Local /\ next.pc = "RETRY_AGAIN" /\ next.rec = c
    BY <2>3, IdleLocal DEF Local, Pc
  <2> HIDE DEF next
  <2>5. QED
    BY <1>1, <2>1, <2>2, <2>3, <2>4, DecisionSwallowed
<1>9. CASE DeleteMission(q)
  <2>1. actor[q].pc = "DELETE" /\ actor[q].pc \in Holding
    BY <1>9 DEF DeleteMission, Holding
  <2>2. CASE Save(q, Blank("GONE"), Done)
    <3>1. Blank("GONE") \in Record /\ Blank("GONE").status = "GONE"
      BY BlankRecord DEF Status
    <3>2. /\ doc' = Blank("GONE") /\ Outdate(q, Blank("GONE"), Done)
          /\ mishaps' = mishaps \cup Cost(q)
      BY <1>1, <2>2 DEF Save
    <3>3. Others(q) /\ actor'[q] = Done
      BY <1>1, <3>1, <3>2, WriteOthers DEF IInv, LeaseIInv
    <3>4. CopyDecided(q)' /\ Remembers(q)'
      BY <1>1, <1>3, <3>3 DEF CopyDecided, Remembers
    <3>5. Intact' => doc.status \notin {"COMPLETED", "ARCHIVED"}
      <4>1. Intact' => ~actor[q].old
        BY <3>2 DEF Intact, Cost
      <4>2. ~actor[q].old => Deletable
        BY <1>1, <2>1 DEF IInv, LeaseIInv, CopiesFit
      <4>3. QED
        BY <4>1, <4>2 DEF Deletable
    <3>6. QED
      BY <1>1, <3>1, <3>2, <3>3, <3>4, <3>5, DecisionFrame DEF IInv
  <2>3. CASE Outage /\ Go(q, [Done EXCEPT !.old = actor[q].old /\ Done.pc \in Holding])
    <3> DEFINE o == actor[q].old /\ Done.pc \in Holding
               n == [Done EXCEPT !.old = o]
    <3>1. o \in BOOLEAN /\ Go(q, n) /\ mishaps \subseteq mishaps'
      BY <1>1, <2>3 DEF Outage, Local
    <3> HIDE DEF o
    <3>2. n \in Local /\ n.pc \notin Holding
      BY <1>3, <3>1 DEF Local
    <3> HIDE DEF n
    <3>3. QED
      BY <1>2, <2>1, <3>1, <3>2
  <2>4. CASE Go(q, Done) /\ UNCHANGED mishaps
    BY <1>2, <1>3, <2>1, <2>4
  <2>5. QED
    BY <1>9, <2>2, <2>3, <2>4 DEF DeleteMission, SaveIfPresent, SaveOrSwallow
<1>10. CASE RequeueWrite(q)
  <2>1. actor[q].pc = "REQUEUE" /\ actor[q].pc \in Holding
    BY <1>10 DEF RequeueWrite, Holding
  <2>2. CASE Save(q, actor[q].rec, Done)
    BY <1>1, <1>3, <2>1, <2>2, DecisionSaved
  <2>3. CASE Go(q, Done) /\ UNCHANGED mishaps
    BY <1>2, <1>3, <2>1, <2>3
  <2>4. QED
    BY <1>10, <2>2, <2>3 DEF RequeueWrite
<1>11. QED
  BY <1>4, <1>5, <1>7, <1>8, <1>9, <1>10

LEMMA DecisionWorkerReads ==
  ASSUME IInv, NEW w \in Workers,
         MarkRead(w) \/ CheckCancelled(w) \/ FinishRead(w) \/ StopRead(w) \/ FailRead(w)
  PROVE  DecisionKept'
<1>1. /\ w \in Actors /\ actor[w] \in Local /\ doc' = doc /\ mishaps \subseteq mishaps'
      /\ actor[w].pc \in {"MARK", "CHECK", "FINISH", "STOP", "FAIL"}
  BY DEF Actors, IInv, LeaseIInv, TypeOK, MarkRead, CheckCancelled, FinishRead, StopRead,
         FailRead, Outage
<1>2. Seen(w) \in Record
  BY <1>1, SeenRecord DEF IInv
<1>3. {"FAILED", "CANCELLED", "COMPLETED"} \subseteq Status
  BY AllowedDomain DEF Status
<1>4. ASSUME actor' = [actor EXCEPT ![w] = Idle]
      PROVE  DecisionKept'
  BY <1>1, <1>4, IdleLocal, DecisionMoved DEF Holding
<1>5. CASE MarkRead(w)
  <2>1. Copy(w, "MARK_WRITE", Seen(w))
    BY <1>5 DEF MarkRead
  <2>2. ASSUME Intact, Seen(w).status = "COMPLETED"
        PROVE  Present /\ Seen(w) = doc
    <3>1. Present
      <4> SUFFICES ASSUME ~Present PROVE FALSE
        OBVIOUS
      <4>1. actor[w].mem.status = "COMPLETED"
        BY <2>2 DEF Seen
      <4>2. doc.status \in {"COMPLETED", "ARCHIVED"}
        BY <1>1, <2>2, <4>1 DEF IInv, DecisionKept
      <4>3. QED
        BY <4>2, AllowedDomain DEF Present
    <3>2. QED
      BY <3>1 DEF Seen
  <2>3. QED
    BY <1>1, <2>1, <2>2, DecisionCopied
<1>6. CASE CheckCancelled(w)
  <2>1. PICK pc \in {"STOP", "MARK"} : Goto(w, pc)
    BY <1>6 DEF CheckCancelled
  <2> DEFINE next == [actor[w] EXCEPT !.pc = pc]
  <2>2. next.pc = pc /\ pc \notin Holding /\ next.mem = actor[w].mem
    BY <1>1 DEF Local, Holding
  <2>3. actor' = [actor EXCEPT ![w] = next]
    BY <2>1 DEF Goto
  <2> HIDE DEF next
  <2>4. QED
    BY <1>1, <2>2, <2>3, DecisionMoved
<1>7. CASE FinishRead(w)
  <2>1. PICK target \in {"COMPLETED", "FAILED"} :
          Copy(w, "FINISH_WRITE", Moved(Seen(w), target)) \/ actor' = [actor EXCEPT ![w] = Idle]
    BY <1>7 DEF FinishRead, Ack
  <2>2. QED
    BY <1>1, <1>4, <2>1, DecisionCopied
<1>8. CASE StopRead(w)
  <2>1. Moved(Seen(w), "CANCELLED").status = "CANCELLED"
    BY <1>2, <1>3, MovedRecord
  <2>2. \/ Copy(w, "STOP_WRITE", Moved(Seen(w), "CANCELLED"))
        \/ actor' = [actor EXCEPT ![w] = Idle]
    BY <1>8 DEF StopRead, Ack
  <2>3. QED
    BY <1>1, <1>4, <2>1, <2>2, DecisionCopied
<1>9. CASE FailRead(w)
  <2>1. Moved(Seen(w), "FAILED").status = "FAILED"
    BY <1>2, <1>3, MovedRecord
  <2>2. \/ Copy(w, "FAIL_WRITE", Moved(Seen(w), "FAILED"))
        \/ actor' = [actor EXCEPT ![w] = Idle]
    BY <1>9 DEF FailRead, ReadForTransition
  <2>3. QED
    BY <1>1, <1>4, <2>1, <2>2, DecisionCopied
<1>10. QED
  BY <1>5, <1>6, <1>7, <1>8, <1>9

LEMMA DecisionWorkerWrites ==
  ASSUME IInv, NEW w \in Workers,
         Provenance(w) \/ MarkWrite(w) \/ FinishWrite(w) \/ StopWrite(w) \/ ReportWrite(w)
  PROVE  DecisionKept'
<1> DEFINE r == actor[w].rec
<1>1. /\ w \in Actors /\ actor[w] \in Local
      /\ actor[w].pc \in {"PROVENANCE", "MARK_WRITE", "FINISH_WRITE", "STOP_WRITE",
                          "DECIDE", "REPORT"}
      /\ actor[w].pc \in Holding
  BY DEF Actors, IInv, LeaseIInv, TypeOK, Provenance, MarkWrite, FinishWrite, StopWrite,
         ReportWrite, Holding
<1>2. r \in Record
  BY <1>1 DEF Local
<1>3. CASE Provenance(w)
  <2> DEFINE next == [Idle EXCEPT !.pc = "MARK", !.msg = actor[w].msg, !.mem = actor[w].mem]
  <2>1. SaveOrSwallow(w, r, next) /\ actor[w].pc = "PROVENANCE"
    BY <1>3 DEF Provenance
  <2>2. next \in Local /\ next.pc = "MARK" /\ next.mem = actor[w].mem /\ "MARK" \notin Holding
    BY <1>1, IdleLocal DEF Local, Pc, Holding
  <2> HIDE DEF next
  <2>3. QED
    BY <1>1, <2>1, <2>2, DecisionSwallowed
<1>4. CASE MarkWrite(w)
  <2>1. PICK pc \in AfterMark(actor[w].stage) :
          Save(w, r, [actor[w] EXCEPT !.pc = pc, !.old = FALSE, !.rec = Idle.rec,
                                      !.stage = IF @ < Stages THEN @ + 1 ELSE @])
    BY <1>4 DEF MarkWrite
  <2> DEFINE s == IF actor[w].stage < Stages THEN actor[w].stage + 1 ELSE actor[w].stage
             next == [actor[w] EXCEPT !.pc = pc, !.old = FALSE, !.rec = Idle.rec, !.stage = s]
  <2>2. s \in 0 .. Stages
    BY <1>1, LifecycleAssumption DEF Local
  <2>3. pc \in {"MARK", "CHECK", "FINISH"}
    BY DEF AfterMark
  <2>4. Idle.rec \in Record
    BY IdleLocal DEF Local
  <2>5. Save(w, r, next)
    BY <2>1
  <2> HIDE DEF s
  <2>6. next \in Local /\ next.pc = pc
    BY <1>1, <2>2, <2>3, <2>4 DEF Local, Pc
  <2> HIDE DEF next
  <2>7. pc \notin Holding /\ actor[w].pc = "MARK_WRITE"
    BY <1>4, <2>3 DEF Holding, MarkWrite
  <2>8. QED
    BY <1>1, <2>5, <2>6, <2>7, DecisionSaved
<1>5. CASE FinishWrite(w)
  <2> DEFINE d == [r EXCEPT !.decided = TRUE]
             next == [actor[w] EXCEPT !.pc = "DECIDE", !.old = FALSE, !.rec = d]
  <2>1. Save(w, r, next) /\ actor[w].pc = "FINISH_WRITE"
    BY <1>1, <1>5 DEF FinishWrite, Local
  <2>2. d \in Record /\ d.decided
    BY <1>2 DEF Record
  <2> HIDE DEF d
  <2>3. next \in Local /\ next.pc = "DECIDE" /\ next.rec = d
    BY <1>1, <2>2 DEF Local, Pc
  <2> HIDE DEF next
  <2>4. QED
    BY <1>1, <2>1, <2>2, <2>3, DecisionSaved
<1>6. CASE StopWrite(w)
  <2> DEFINE next == [actor[w] EXCEPT !.pc = "REPORT", !.old = FALSE]
  <2>1. Save(w, r, next) /\ actor[w].pc = "STOP_WRITE"
    BY <1>6 DEF StopWrite
  <2>2. next \in Local /\ next.pc = "REPORT" /\ next.rec = r
    BY <1>1 DEF Local, Pc
  <2> HIDE DEF next
  <2>3. Intact /\ ~actor[w].old => r.status # "COMPLETED"
    BY <1>1, <2>1 DEF IInv, DecisionKept
  <2>4. QED
    BY <1>1, <2>1, <2>2, <2>3, DecisionSaved
<1>7. CASE ReportWrite(w)
  <2>1. Save(w, r, Idle) /\ actor[w].pc \in {"DECIDE", "REPORT"}
    BY <1>7 DEF ReportWrite
  <2>2. QED
    BY <1>1, <2>1, IdleLocal, DecisionSaved DEF Holding
<1>8. QED
  BY <1>3, <1>4, <1>5, <1>6, <1>7

\* A worker that fails writes FAILED, one that leases RUNNING.
LEMMA DecisionFailWrite ==
  ASSUME IInv, NEW w \in Workers, FailWrite(w)
  PROVE  DecisionKept'
<1>1. /\ w \in Actors /\ actor[w].pc = "FAIL_WRITE" /\ actor[w].pc \in Holding
      /\ actor[w].rec \in Record
      /\ doc' = actor[w].rec /\ Outdate(w, actor[w].rec, Idle)
      /\ Cost(w) \subseteq mishaps' /\ mishaps \subseteq mishaps'
  BY DEF FailWrite, Holding, Actors, IInv, LeaseIInv, TypeOK, Local
<1>2. Others(w) /\ actor'[w] = Idle
  BY <1>1, WriteOthers DEF IInv, LeaseIInv
<1>3. CopyDecided(w)'
  BY <1>2, IdleLocal DEF CopyDecided, Holding
<1>4. QED
  BY <1>1, <1>2, <1>3, IdleLocal, DecisionWritten

LEMMA DecisionAcquire ==
  ASSUME IInv, NEW w \in Workers, NEW m \in Messages, Acquire(w, m)
  PROVE  DecisionKept'
<1> DEFINE r == [doc EXCEPT !.status = "RUNNING", !.live = TRUE]
           next == [Idle EXCEPT !.pc = "PROVENANCE", !.rec = r, !.msg = m]
           n == [next EXCEPT !.mem = IF next.pc = "IDLE" THEN @ ELSE r]
<1>1. w \in Actors /\ doc \in Record
  BY DEF Actors, IInv, LeaseIInv, TypeOK
<1>2. "RUNNING" \in Status
  BY AllowedDomain DEF Status
<1>3. r \in Record /\ r.status = "RUNNING"
  BY <1>1, <1>2 DEF Record
<1>4. doc' = r /\ Outdate(w, r, n) /\ mishaps \subseteq mishaps' /\ Leasable
  BY DEF Acquire, Save
<1> HIDE DEF r
<1>5. n.pc = "PROVENANCE" /\ n.rec = r /\ n.mem = r
  BY DEF Idle
<1> HIDE DEF next, n
<1>6. Others(w) /\ actor'[w] = n
  BY <1>1, <1>3, <1>4, WriteOthers DEF IInv, LeaseIInv
<1>7. CopyDecided(w)' /\ Remembers(w)'
  BY <1>3, <1>5, <1>6 DEF CopyDecided, Remembers
<1>8. doc.status \notin {"COMPLETED", "ARCHIVED"}
  BY <1>4 DEF Leasable, Terminal
<1>9. QED
  BY <1>1, <1>3, <1>4, <1>6, <1>7, <1>8, DecisionFrame DEF IInv

\* What leaves statuses, decisions and places alone keeps the decision too.
LEMMA DecisionUnmoved ==
  ASSUME IInv, doc'.status = doc.status, doc'.decided = doc.decided, mishaps \subseteq mishaps',
         \A p \in Actors : /\ actor'[p].pc = actor[p].pc /\ actor'[p].old = actor[p].old
                           /\ actor'[p].rec.status = actor[p].rec.status
                           /\ actor'[p].rec.decided = actor[p].rec.decided
                           /\ actor'[p].mem.status = actor[p].mem.status
  PROVE  DecisionKept'
<1> SUFFICES ASSUME Intact' PROVE DecisionKept'
  BY DEF DecisionKept
<1>1. DecisionKept /\ Intact /\ Present' = Present
  BY DEF IInv, Intact, Present
<1>2. \A w \in Workers : w \in Actors
  BY DEF Actors
<1>3. doc'.status = "COMPLETED" => doc'.decided \/ \E w \in Workers : actor'[w].pc = "DECIDE"
  BY <1>1, <1>2 DEF DecisionKept
<1>4. ASSUME NEW p \in Actors
      PROVE  CopyDecided(p)' /\ Remembers(p)'
  <2>1. CopyDecided(p) /\ Remembers(p)
    BY <1>1 DEF DecisionKept, CopyDecided, Remembers
  <2>2. QED
    BY <1>1, <2>1 DEF CopyDecided, Remembers
<1>5. \A p \in Actors : CopyDecided(p)'
  BY <1>4
<1>6. \A w \in Workers : Remembers(w)'
  BY <1>2, <1>4
<1>7. QED
  BY <1>3, <1>5, <1>6 DEF DecisionKept, CopyDecided, Remembers

LEMMA DecisionEnvironment ==
  ASSUME IInv, \/ TimePasses \/ UNCHANGED vars
               \/ \E w \in Workers : Heartbeat(w)
               \/ \E m \in Messages : Duplicate(m) \/ Refuse(m)
  PROVE  DecisionKept'
<1>1. doc \in Record /\ actor \in [Actors -> Local]
  BY DEF IInv, LeaseIInv, TypeOK
<1>2. CASE TimePasses
  <2>1. doc'.status = doc.status /\ doc'.decided = doc.decided /\ mishaps \subseteq mishaps'
    BY <1>1, <1>2 DEF TimePasses, Record
  <2>2. ASSUME NEW p \in Actors
        PROVE  /\ actor'[p].pc = actor[p].pc /\ actor'[p].old = actor[p].old
               /\ actor'[p].rec.status = actor[p].rec.status
               /\ actor'[p].rec.decided = actor[p].rec.decided
               /\ actor'[p].mem.status = actor[p].mem.status
    <3>1. actor'[p] = [actor[p] EXCEPT !.rec.live = FALSE, !.mem.live = FALSE]
      BY <1>2 DEF TimePasses
    <3>2. actor[p] \in Local
      BY <1>1
    <3>3. QED
      BY <3>1, <3>2 DEF Local, Record
  <2>3. QED
    BY <2>1, <2>2, DecisionUnmoved
<1>3. CASE \E w \in Workers : Heartbeat(w)
  <2>1. /\ doc'.status = doc.status /\ doc'.decided = doc.decided
        /\ actor' = actor /\ mishaps' = mishaps
    BY <1>1, <1>3 DEF Heartbeat, Record
  <2>2. QED
    BY <2>1, DecisionUnmoved
<1>4. CASE UNCHANGED vars \/ \E m \in Messages : Duplicate(m) \/ Refuse(m)
  <2>1. doc' = doc /\ actor' = actor /\ mishaps \subseteq mishaps'
    BY <1>4 DEF vars, Duplicate, Refuse, Outage
  <2>2. QED
    BY <2>1, DecisionUnmoved
<1>5. QED
  BY <1>2, <1>3, <1>4

LEMMA DecisionNext == IInv /\ [Next]_vars => DecisionKept'
<1> SUFFICES ASSUME IInv, [Next]_vars PROVE DecisionKept'
  OBVIOUS
<1>1. ASSUME NEW p \in Actors, Crash(p)
      PROVE  DecisionKept'
  BY <1>1 DEF Crash, DecisionKept, Intact
<1>2. ASSUME NEW q \in Requests, Request(q) \/ RequestStep(q) \/ RequestFault(q)
      PROVE  DecisionKept'
  BY <1>1, <1>2, DecisionRequests, DecisionReads, DecisionRequestWrites
     DEF RequestStep, RequestFault, Actors
<1>3. ASSUME NEW w \in Workers, WorkerStep(w)
      PROVE  DecisionKept'
  BY <1>3, DecisionWorkerReads, DecisionWorkerWrites, DecisionFailWrite DEF WorkerStep
<1>4. ASSUME NEW w \in Workers, Heartbeat(w) \/ Raise(w) \/ Crash(w)
      PROVE  DecisionKept'
  <2>1. CASE Raise(w)
    BY <2>1 DEF Raise, DecisionKept, Intact
  <2>2. QED
    BY <1>1, <1>4, <2>1, DecisionEnvironment DEF Actors
<1>5. ASSUME NEW m \in Messages, Delivery(m)
      PROVE  DecisionKept'
  BY <1>5, DecisionAcquire, DecisionEnvironment DEF Delivery
<1>6. QED
  BY <1>2, <1>3, <1>4, <1>5, DecisionEnvironment DEF Next

-----------------------------------------------------------------------------
(* Theorems *)

LEMMA InitSound == Init => LeaseIInv
<1> SUFFICES ASSUME Init PROVE LeaseIInv
  OBVIOUS
<1>1. \A p \in Actors : actor[p] = Idle
  BY DEF Init
<1>2. Idle \in Local /\ Idle.pc = "IDLE"
  BY IdleLocal
<1>3. Blank("NEW") \in Record /\ Blank("NEW").status = "NEW"
  BY BlankRecord DEF Status
<1>4. [m \in Messages |-> 0] \in [Messages -> 0 .. MaxDeliveries]
  BY LifecycleAssumption
<1>5. TypeOK
  BY <1>2, <1>3, <1>4 DEF Init, TypeOK
<1>6. StatusesTaken /\ CopiesFit /\ RetriesLeft
  BY <1>1, <1>2, <1>3 DEF Init, StatusesTaken, CopiesFit, RetriesLeft, Holding, Actors
<1>7. LeaseHeld
  BY <1>1, <1>2, <1>3 DEF Init, LeaseHeld, Rewriting, Executing, Actors
<1>8. QED
  BY <1>5, <1>6, <1>7 DEF LeaseIInv

LEMMA NextSound == LeaseIInv /\ [Next]_vars => LeaseIInv'
<1> SUFFICES ASSUME LeaseIInv, [Next]_vars PROVE LeaseIInv'
  OBVIOUS
<1>1. ASSUME NEW q \in Requests, Request(q)
      PROVE  LeaseIInv'
  BY <1>1, CreateSound, RequestStarts DEF Request
<1>2. ASSUME NEW q \in Requests, RequestStep(q)
      PROVE  LeaseIInv'
  BY <1>2, PublishesSound, RequestReads, RequestWrites, RetryWriteSound, DeleteSound
     DEF RequestStep
<1>3. ASSUME NEW q \in Requests, RequestFault(q)
      PROVE  LeaseIInv'
  BY <1>3, PublishesSound, CrashSound DEF RequestFault, Actors
<1>4. ASSUME NEW w \in Workers, WorkerStep(w)
      PROVE  LeaseIInv'
  BY <1>4, CheckSound, WorkerReads, WorkerWrites, FailWriteSound DEF WorkerStep
<1>5. ASSUME NEW w \in Workers, Heartbeat(w) \/ Raise(w) \/ Crash(w)
      PROVE  LeaseIInv'
  BY <1>5, HeartbeatSound, RaiseSound, CrashSound DEF Actors
<1>6. ASSUME NEW m \in Messages, Delivery(m)
      PROVE  LeaseIInv'
  <2>1. CASE Duplicate(m) \/ Refuse(m)
    <3>1. inbox' \in [Messages -> 0 .. MaxDeliveries]
      BY <2>1, LifecycleAssumption DEF Duplicate, Refuse, LeaseIInv, TypeOK
    <3>2. /\ UNCHANGED <<doc, actor>>
          /\ mishaps \subseteq mishaps' /\ mishaps' \subseteq Mishaps
      BY <2>1 DEF Duplicate, Refuse, Outage, Mishaps, LeaseIInv, TypeOK
    <3>3. QED
      BY <3>1, <3>2, MessageSound
  <2>2. QED
    BY <1>6, <2>1, AcquireSound DEF Delivery
<1>7. CASE UNCHANGED vars
  BY <1>7, MessageSound DEF vars, LeaseIInv, TypeOK
<1>8. QED
  BY <1>1, <1>2, <1>3, <1>4, <1>5, <1>6, <1>7, TimePassesSound DEF Next

\* The invariant of the mission's lifecycle: the statuses taken, how far a copy
\* can be from the record, the lease of a mission that is executed, and what has
\* become of its decision.
THEOREM LifecycleInvariant == Spec => []IInv
<1>1. Init => IInv
  <2> SUFFICES ASSUME Init PROVE IInv
    OBVIOUS
  <2>1. doc.status = "NEW"
    BY DEF Init, Blank
  <2>2. \A p \in Actors : actor[p].pc = "IDLE" /\ "IDLE" \notin Holding
    BY IdleLocal DEF Init, Holding
  <2>3. DecisionKept
    BY <2>1, <2>2 DEF DecisionKept, Actors
  <2>4. QED
    BY <2>3, InitSound DEF IInv
<1>2. IInv /\ [Next]_vars => IInv'
  BY NextSound, DecisionNext DEF IInv
<1>3. QED
  BY <1>1, <1>2, PTL DEF Spec

\* Records, handlers, workers and deliveries always have their type: no retry
\* goes past the attempts, no message past its deliveries.
THEOREM LifecycleTypes == Spec => []TypeOK
<1>1. IInv => TypeOK
  BY DEF IInv, LeaseIInv
<1>2. QED
  BY <1>1, LifecycleInvariant, PTL

\* However many workers, messages and requests there are, two workers execute a
\* mission only after its lease lapsed, an update was lost, it was recreated or
\* it was marked FAILED by another worker.
THEOREM Exclusive == Spec => []ExclusiveExecution
<1>1. IInv => ExclusiveExecution
  BY DEF IInv, LeaseIInv, LeaseHeld, ExclusiveExecution
<1>2. QED
  BY <1>1, LifecycleInvariant, PTL

\* A COMPLETED mission has its decision, or a worker is about to write it,
\* however many workers and handlers rewrite the record meanwhile, unless an
\* update was lost or a worker broke off between the two writes.
THEOREM DecisionsArrive == Spec => []CompletedIsDecided
<1>1. IInv => CompletedIsDecided
  BY DEF IInv, DecisionKept, CompletedIsDecided
<1>2. QED
  BY <1>1, LifecycleInvariant, PTL

\* What ChangesAreLegal says of a change of status.
LegalChange ==
    \/ Present /\ doc'.status \in Allowed[doc.status]
    \/ Deletable /\ doc'.status = "GONE"
    \/ doc.status = "NEW" /\ doc'.status = "QUEUED"
    \/ doc.status = "GONE" /\ \E w \in Workers : actor'[w] # actor[w]
    \/ OldCopyUsed

LEMMA CopyLegal ==
  ASSUME LeaseIInv, NEW p \in Actors, actor[p].pc \in Holding, doc'.status # doc.status,
         \/ actor[p].pc # "DELETE" /\ doc' = actor[p].rec
         \/ actor[p].pc = "DELETE" /\ doc'.status = "GONE",
         actor'[p].pc # actor[p].pc
  PROVE  LegalChange
<1>1. SoundFor(p)
  BY InvariantByActor
<1>2. CASE actor[p].old
  BY <1>2 DEF LegalChange, OldCopyUsed
<1>3. CASE ~Present /\ p \in Workers
  <2>1. doc.status # "NEW"
    BY Created DEF Holding
  <2>2. doc.status = "GONE"
    BY <1>3, <2>1, TakenPresent DEF Present, LeaseIInv, StatusesTaken
  <2>3. QED
    BY <1>3, <2>2 DEF LegalChange
<1>4. CASE Present /\ ~actor[p].old
  BY <1>1, <1>4 DEF SoundFor, LegalChange, Legal
<1>5. CASE ~Present /\ p \notin Workers
  BY <1>1, <1>2, <1>5 DEF SoundFor
<1>6. QED
  BY <1>2, <1>3, <1>4, <1>5

LEMMA WorkerLegal ==
  ASSUME LeaseIInv, NEW w \in Workers, doc'.status # doc.status,
         \/ Provenance(w) \/ MarkWrite(w) \/ FinishWrite(w) \/ StopWrite(w)
         \/ ReportWrite(w) \/ FailWrite(w)
  PROVE  LegalChange
<1>1. w \in Actors /\ actor[w] \in Local
  BY WorkerFacts
<1>2. actor[w].pc \in Holding /\ actor[w].pc # "DELETE"
  BY DEF Provenance, MarkWrite, FinishWrite, StopWrite, ReportWrite, FailWrite, Holding
<1>3. doc' = actor[w].rec
  BY DEF Provenance, MarkWrite, FinishWrite, StopWrite, ReportWrite, FailWrite,
         SaveOrSwallow, Save, Go
<1>4. actor'[w].pc # actor[w].pc
  <2>1. CASE Provenance(w)
    BY <1>1, <1>3, <2>1 DEF Provenance, SaveOrSwallow, Save, Go, Outdate, Idle
  <2>2. CASE MarkWrite(w)
    BY <1>1, <2>2 DEF MarkWrite, AfterMark, Save, Outdate, Local
  <2>3. CASE FinishWrite(w)
    BY <1>1, <2>3 DEF FinishWrite, Save, Outdate, Local
  <2>4. CASE StopWrite(w)
    BY <1>1, <2>4 DEF StopWrite, Save, Outdate, Local
  <2>5. CASE ReportWrite(w)
    BY <1>1, <2>5 DEF ReportWrite, Save, Outdate, Idle
  <2>6. CASE FailWrite(w)
    BY <1>1, <2>6 DEF FailWrite, Outdate, Idle
  <2>7. QED
    BY <2>1, <2>2, <2>3, <2>4, <2>5, <2>6
<1>5. QED
  BY <1>1, <1>2, <1>3, <1>4, CopyLegal

LEMMA RequestLegal ==
  ASSUME LeaseIInv, NEW q \in Requests, doc'.status # doc.status,
         \/ RequeueWrite(q) \/ FlagWrite(q) \/ RetryWrite(q) \/ RetryAgain(q)
         \/ TransitionWrite(q) \/ DeleteMission(q)
  PROVE  LegalChange
<1>1. q \in Actors /\ q \notin Workers /\ actor[q] \in Local
  BY LifecycleAssumption DEF Actors, LeaseIInv, TypeOK
<1>2. actor[q].pc \in Holding
  BY DEF RequeueWrite, FlagWrite, RetryWrite, RetryAgain, TransitionWrite, DeleteMission,
         Holding
<1>3. \/ actor[q].pc # "DELETE" /\ doc' = actor[q].rec
      \/ actor[q].pc = "DELETE" /\ doc'.status = "GONE"
  <2>1. CASE DeleteMission(q)
    BY <2>1 DEF DeleteMission, SaveIfPresent, SaveOrSwallow, Save, Go, Blank
  <2>2. CASE ~DeleteMission(q)
    BY <2>2 DEF RequeueWrite, FlagWrite, RetryWrite, RetryAgain, TransitionWrite,
                SaveIfPresent, SaveOrSwallow, Save, Go
  <2>3. QED
    BY <2>1, <2>2
<1>4. actor'[q].pc # actor[q].pc
  <2>1. ASSUME NEW next, Outdate(q, doc', next), next.pc # actor[q].pc
        PROVE  actor'[q].pc # actor[q].pc
    BY <1>1, <2>1 DEF Outdate
  <2>2. CASE RequeueWrite(q)
    BY <1>1, <2>1, <2>2 DEF RequeueWrite, Save, Go, Done, Idle
  <2>3. CASE FlagWrite(q)
    BY <1>1, <2>1, <2>3 DEF FlagWrite, SaveIfPresent, SaveOrSwallow, Save, Go, Done, Idle
  <2>4. CASE RetryWrite(q)
    BY <1>1, <2>1, <2>4 DEF RetryWrite, SaveOrSwallow, Save, Go, Idle
  <2>5. CASE RetryAgain(q)
    BY <1>1, <2>1, <2>5 DEF RetryAgain, SaveIfPresent, SaveOrSwallow, Save, Go, Idle
  <2>6. CASE TransitionWrite(q)
    BY <1>1, <2>1, <2>6 DEF TransitionWrite, SaveOrSwallow, Save, Go, Done, Idle
  <2>7. CASE DeleteMission(q)
    BY <1>1, <2>1, <2>7 DEF DeleteMission, SaveIfPresent, SaveOrSwallow, Save, Go, Done, Idle
  <2>8. QED
    BY <2>2, <2>3, <2>4, <2>5, <2>6, <2>7
<1>5. QED
  BY <1>1, <1>2, <1>3, <1>4, CopyLegal

LEMMA StepLegal ==
  ASSUME LeaseIInv, Next, doc'.status # doc.status
  PROVE  LegalChange
<1>1. ASSUME NEW q \in Requests, Request(q)
      PROVE  LegalChange
  BY <1>1 DEF Request, CreateMission, RequestCancel, RequestRetry, RequestArchive,
              RequestDelete, Blank, LegalChange
<1>2. ASSUME NEW q \in Requests, RequestStep(q) \/ RequestFault(q)
      PROVE  LegalChange
  <2>1. CASE PublishNew(q) \/ CancelRead(q) \/ RetryRead(q) \/ PublishRetry(q) \/ ArchiveRead(q)
             \/ PublishNewFails(q) \/ PublishRetryFails(q) \/ Crash(q)
    BY <2>1 DEF PublishNew, CancelRead, RetryRead, PublishRetry, ArchiveRead,
                PublishNewFails, PublishRetryFails, Crash, Go
  <2>2. QED
    BY <1>2, <2>1, RequestLegal DEF RequestStep, RequestFault
<1>3. ASSUME NEW w \in Workers, WorkerStep(w)
      PROVE  LegalChange
  <2>1. CASE MarkRead(w) \/ CheckCancelled(w) \/ FinishRead(w) \/ StopRead(w) \/ FailRead(w)
    BY <2>1 DEF MarkRead, CheckCancelled, FinishRead, StopRead, FailRead
  <2>2. QED
    BY <1>3, <2>1, WorkerLegal DEF WorkerStep
<1>4. ASSUME NEW w \in Workers, Heartbeat(w) \/ Raise(w) \/ Crash(w)
      PROVE  LegalChange
  BY <1>4 DEF Heartbeat, Raise, Crash, LeaseIInv, TypeOK, Record
<1>5. ASSUME NEW m \in Messages, Delivery(m)
      PROVE  LegalChange
  <2>1. CASE Duplicate(m) \/ Refuse(m)
    BY <2>1 DEF Duplicate, Refuse
  <2>2. ASSUME NEW w \in Workers, Acquire(w, m)
        PROVE  LegalChange
    <3>1. doc' = [doc EXCEPT !.status = "RUNNING", !.live = TRUE] /\ Leasable
      BY <2>2 DEF Acquire, Save
    <3>2. doc'.status = "RUNNING"
      BY <3>1 DEF LeaseIInv, TypeOK, Record
    <3>3. doc.status = "QUEUED" /\ Present
      BY <3>1, <3>2, TakenPresent DEF Leasable, Terminal, Present, Taken, LeaseIInv, StatusesTaken
    <3>4. QED
      BY <3>2, <3>3, AllowedRows DEF LegalChange
  <2>3. QED
    BY <1>5, <2>1, <2>2 DEF Delivery
<1>6. CASE TimePasses
  BY <1>6 DEF TimePasses, LeaseIInv, TypeOK, Record
<1>7. QED
  BY <1>1, <1>2, <1>3, <1>4, <1>5, <1>6 DEF Next

\* However many handlers and workers interleave, a status changes along
\* ALLOWED_TRANSITIONS, but for one who acts on a copy somebody overtook.
THEOREM LegalTransitions == Spec => ChangesAreLegal
<1>1. IInv /\ [Next]_vars => [doc'.status # doc.status => LegalChange]_vars
  BY StepLegal DEF vars, IInv
<1>2. QED
  BY <1>1, LifecycleInvariant, PTL DEF Spec, ChangesAreLegal, LegalChange
=============================================================================
