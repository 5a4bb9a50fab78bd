--------------------------- MODULE RateLimiterProofs ---------------------------
(***************************************************************************)
(* The rate limiter of ratelimit/limiter.py never admits more calls than   *)
(* its limit and refuses none before the limit is reached, for every       *)
(* number of calls, every limit and every number of windows, and it        *)
(* implements the atomic counter of LimiterContract.                       *)
(***************************************************************************)
EXTENDS RateLimiter, FiniteSetTheorems, TLAPS

\* The documents of a window are a finite set, at most Limit of them.
LEMMA SlotsFinite ==
    /\ IsFiniteSet(Slots)
    /\ Cardinality(Slots) = Limit
<1>1. 0 \in Int /\ Limit - 1 \in Int
    BY LimiterAssumption
<1> QED
    BY <1>1, FS_Interval, LimiterAssumption DEF Slots

LEMMA DocumentsFinite ==
    ASSUME NEW w
    PROVE  /\ IsFiniteSet(Used(w)) /\ Cardinality(Used(w)) \in Nat
           /\ Cardinality(Used(w)) <= Limit
           /\ Cardinality(Used(w)) = Limit => Used(w) = Slots
           /\ IsFiniteSet(Counted(w)) /\ Cardinality(Counted(w)) \in Nat
           /\ Cardinality(Counted(w)) <= Cardinality(Used(w))
<1>1. Used(w) \in SUBSET Slots
    BY DEF Used
<1>2. /\ IsFiniteSet(Used(w))
      /\ Cardinality(Used(w)) <= Cardinality(Slots)
      /\ Cardinality(Slots) = Cardinality(Used(w)) => Slots = Used(w)
    BY <1>1, SlotsFinite, FS_Subset
<1>3. Counted(w) \in SUBSET Used(w)
    BY DEF Used, Counted, Exists
<1>4. IsFiniteSet(Counted(w)) /\ Cardinality(Counted(w)) <= Cardinality(Used(w))
    BY <1>2, <1>3, FS_Subset
<1> QED
    BY <1>2, <1>4, SlotsFinite, FS_CardinalityType

\* What the fast path rests on: a call that counted n documents finds every
\* slot below n in use, because the slots in use are the first ones.
LEMMA InitialSegment ==
    ASSUME LimiterTypes, NoHoles, NEW w \in Windows, Live(w),
           NEW s \in Slots, s < Cardinality(Counted(w))
    PROVE  Exists(w, s)
<1> SUFFICES ASSUME ~Exists(w, s) PROVE FALSE
    OBVIOUS
<1>1. \A t \in Slots : Exists(w, t) => t < s
  <2> SUFFICES ASSUME NEW t \in Slots, Exists(w, t), ~(t < s) PROVE FALSE
      OBVIOUS
  <2>1. s < t \/ s = t
      BY LimiterAssumption DEF Slots
  <2> QED
      BY <2>1 DEF NoHoles
<1>2. s \in Int /\ s - 1 \in Int /\ 0 \in Int /\ s >= 0
    BY LimiterAssumption DEF Slots
<1>3. Used(w) \in SUBSET (0 .. s - 1)
    BY <1>1, <1>2, LimiterAssumption DEF Used, Slots
<1>4. IsFiniteSet(0 .. s - 1) /\ Cardinality(0 .. s - 1) = s
    BY <1>2, FS_Interval
<1>5. Cardinality(Used(w)) <= s
    BY <1>3, <1>4, FS_Subset
<1> QED
    BY <1>2, <1>5, DocumentsFinite

-----------------------------------------------------------------------------
(* The inductive invariant *)

LEMMA LimiterStarts == LimiterInit => LimiterIInv
    BY LimiterAssumption, Zenon, SMT
    DEF LimiterInit, LimiterIInv, LimiterTypes, ChargedOnce, NoHoles, Ahead, Hit, Windows,
        Slots, Document, Answers, Charged, Exists, InFlight, Live

\* What the invariant says of one call.
Sound(h) ==
    /\ h.pc = "ALLOWED" => h.by # Limit
    /\ h.by # Limit => h.pc \in {"ALLOWED", "UNAVAILABLE"}
    /\ h.pc \in {"CREATE", "GET"} =>
        h.slot < Limit /\ \A s \in Slots : s < h.slot => Exists(h.win, s)
    /\ (h.pc = "LIMIT_REACHED" /\ Live(h.win)) => \A s \in Slots : Exists(h.win, s)
    /\ h.pc # "IDLE" => h.win <= window
    /\ h.pc \in {"COUNT", "CREATE", "GET"} => Live(h.win)

LEMMA SoundCalls ==
    ASSUME LimiterIInv, NEW r \in Requests
    PROVE  Sound(hit[r])
    BY DEF LimiterIInv, ChargedOnce, Ahead, Sound, Charged, InFlight

\* A step of one call that touches no document keeps the invariant when the
\* call stays sound, in its window and without a new slot.
LEMMA LocalStep ==
    ASSUME LimiterIInv, NEW r \in Requests, NEW h \in Hit,
           hit' = [hit EXCEPT ![r] = h], UNCHANGED <<window, doc, damage>>,
           h.by = hit[r].by, h.win = hit[r].win \/ hit[r].by = Limit, Sound(h)
    PROVE  LimiterIInv'
<1> USE LimiterAssumption
<1>1. LimiterTypes'
    BY DEF LimiterIInv, LimiterTypes
<1>2. \A q \in Requests : hit'[q] = IF q = r THEN h ELSE hit[q]
    BY DEF LimiterIInv, LimiterTypes
<1>3. \A q \in Requests : Sound(hit'[q])
    BY <1>2, SoundCalls
<1>4. \A q \in Requests : hit'[q].by = hit[q].by
                           /\ (hit[q].by # Limit => hit'[q].win = hit[q].win)
    BY <1>2
<1>5. UNCHANGED <<doc, window>> /\ \A w, s : Exists(w, s)' = Exists(w, s)
    BY DEF Exists
<1>6. \A w : Live(w)' = Live(w)
    BY DEF Live
<1>7. ChargedOnce'
  <2>1. \A q \in Requests : (Charged(q) /\ Live(hit[q].win)) => Exists(hit[q].win, hit[q].by)
      BY DEF LimiterIInv, ChargedOnce
  <2>2. \A p, q \in Requests :
          (Charged(p) /\ Charged(q) /\ hit[p].win = hit[q].win /\ hit[p].by = hit[q].by) => p = q
      BY DEF LimiterIInv, ChargedOnce
  <2> QED
      BY <1>3, <1>4, <1>5, <1>6, <2>1, <2>2 DEF ChargedOnce, Charged, Sound
<1>8. NoHoles'
  <2> SUFFICES ASSUME NEW w \in Windows, Live(w)
               PROVE  /\ \A s, t \in Slots : s < t /\ Exists(w, t) => Exists(w, s)
                      /\ \A s \in Slots : Exists(w, s) =>
                           \E q \in Requests : hit'[q].win = w /\ hit'[q].by = s
      BY <1>5, <1>6 DEF NoHoles, Windows, Slots
  <2>1. \A s, t \in Slots : s < t /\ Exists(w, t) => Exists(w, s)
      BY DEF LimiterIInv, NoHoles
  <2>2. ASSUME NEW s \in Slots, Exists(w, s)
        PROVE  \E q \in Requests : hit'[q].win = w /\ hit'[q].by = s
    <3>1. PICK q \in Requests : hit[q].win = w /\ hit[q].by = s
        BY <2>2 DEF LimiterIInv, NoHoles
    <3>2. s # Limit
        BY DEF Slots
    <3> QED
        BY <1>4, <3>1, <3>2
  <2> QED
      BY <2>1, <2>2
<1>9. Ahead'
    BY <1>3, <1>5, <1>6 DEF Ahead, Sound, InFlight, Slots
<1> QED
    BY <1>1, <1>7, <1>8, <1>9 DEF LimiterIInv

\* A step of one call that creates its slot keeps the invariant.
LEMMA ChargeStep ==
    ASSUME LimiterIInv, NEW r \in Requests, NEW h \in Hit,
           Probing(r), ~Exists(hit[r].win, hit[r].slot),
           hit' = [hit EXCEPT ![r] = h], Stored(hit[r].win, hit[r].slot),
           UNCHANGED <<window, damage>>,
           h.by = hit[r].slot, h.win = hit[r].win, h.pc \in {"ALLOWED", "UNAVAILABLE"}
    PROVE  LimiterIInv'
<1> DEFINE w == hit[r].win
           n == hit[r].slot
<1> USE LimiterAssumption
<1>1. w \in Windows /\ n \in Slots /\ Live(w) /\ n # Limit
    BY DEF LimiterIInv, LimiterTypes, Ahead, Hit, Probing, InFlight, Slots
<1>2. LimiterTypes'
    BY <1>1 DEF LimiterIInv, LimiterTypes, Stored, Document
<1>3. \A v \in Windows, s \in Slots : Exists(v, s)' <=> (Exists(v, s) \/ (v = w /\ s = n))
    BY <1>1 DEF LimiterIInv, LimiterTypes, Stored, Exists
<1>4. \A q \in Requests : hit'[q] = IF q = r THEN h ELSE hit[q]
    BY DEF LimiterIInv, LimiterTypes
<1>5. \A v : Live(v)' = Live(v)
    BY DEF Live
<1>6. ~Charged(r) /\ \A s \in Slots : s < n => Exists(w, s)
    BY DEF LimiterIInv, ChargedOnce, Ahead, Probing
<1>7. \A q \in Requests : hit[q].win \in Windows /\ (Charged(q) => hit[q].by \in Slots)
    BY DEF LimiterIInv, LimiterTypes, Hit, Charged, Slots
<1>8. ChargedOnce'
  <2>1. \A q \in Requests : Charged(q)' <=> (Charged(q) \/ q = r)
      BY <1>1, <1>4, <1>6 DEF Charged
  <2>2. \A q \in Requests : q # r /\ Charged(q) /\ hit[q].win = w => hit[q].by # n
      BY <1>1 DEF LimiterIInv, ChargedOnce
  <2>3. \A q \in Requests : hit'[q].pc = "ALLOWED" => Charged(q)'
      BY <1>4, <2>1 DEF LimiterIInv, ChargedOnce
  <2>4. \A q \in Requests : Charged(q)' => hit'[q].pc \in {"ALLOWED", "UNAVAILABLE"}
      BY <1>4, <2>1 DEF LimiterIInv, ChargedOnce
  <2>5. ASSUME NEW q \in Requests, Charged(q)', Live(hit[q].win)'
        PROVE  Exists(hit[q].win, hit[q].by)'
    <3>1. CASE q = r
        BY <1>1, <1>3, <1>4, <3>1 DEF Exists
    <3>2. CASE q # r
      <4>1. hit'[q] = hit[q] /\ Charged(q) /\ Live(hit[q].win)
          BY <1>4, <2>1, <2>5, <3>2 DEF Live
      <4>2. Exists(hit[q].win, hit[q].by)
          BY <4>1 DEF LimiterIInv, ChargedOnce
      <4> QED
          BY <1>3, <1>7, <4>1, <4>2 DEF Exists
    <3> QED
        BY <3>1, <3>2
  <2>6. \A p, q \in Requests : (Charged(p)' /\ Charged(q)' /\ hit'[p].win = hit'[q].win
                                 /\ hit'[p].by = hit'[q].by) => p = q
      BY <1>4, <2>1, <2>2 DEF LimiterIInv, ChargedOnce
  <2> QED
      BY <2>3, <2>4, <2>5, <2>6 DEF ChargedOnce
<1>9. NoHoles'
  <2> SUFFICES ASSUME NEW v \in Windows, Live(v)
               PROVE  /\ \A s, t \in Slots : s < t /\ Exists(v, t)' => Exists(v, s)'
                      /\ \A s \in Slots : Exists(v, s)' =>
                           \E q \in Requests : hit'[q].win = v /\ hit'[q].by = s
      BY <1>5 DEF NoHoles, Windows, Slots
  <2>1. \A s, t \in Slots : s < t /\ Exists(v, t)' => Exists(v, s)'
      BY <1>3, <1>6 DEF LimiterIInv, NoHoles
  <2>2. ASSUME NEW s \in Slots, Exists(v, s)'
        PROVE  \E q \in Requests : hit'[q].win = v /\ hit'[q].by = s
    <3>1. CASE v = w /\ s = n
        BY <1>4, <3>1
    <3>2. CASE Exists(v, s)
      <4>1. PICK q \in Requests : hit[q].win = v /\ hit[q].by = s
          BY <3>2 DEF LimiterIInv, NoHoles
      <4>2. q # r
          BY <1>6, <4>1 DEF Charged, Slots
      <4> QED
          BY <1>4, <4>1, <4>2
    <3> QED
        BY <1>3, <2>2, <3>1, <3>2
  <2> QED
      BY <2>1, <2>2
<1>10. Ahead'
  <2>1. ASSUME NEW q \in Requests
        PROVE  /\ hit'[q].pc \in {"CREATE", "GET"} =>
                   /\ hit'[q].slot < Limit
                   /\ \A s \in Slots : s < hit'[q].slot => doc'[hit'[q].win][s] # "NONE"
               /\ (hit'[q].pc = "LIMIT_REACHED" /\ window <= hit'[q].win + 1) =>
                   \A s \in Slots : doc'[hit'[q].win][s] # "NONE"
               /\ hit'[q].pc # "IDLE" => hit'[q].win <= window
               /\ hit'[q].pc \in {"COUNT", "CREATE", "GET"} => window <= hit'[q].win + 1
    <3>1. CASE q = r
        BY <1>1, <1>4, <3>1 DEF LimiterIInv, Ahead, Probing, InFlight
    <3>2. CASE q # r
      <4>1. hit'[q] = hit[q] /\ Sound(hit[q]) /\ hit[q].win \in Windows
          BY <1>4, <1>7, <3>2, SoundCalls
      <4> QED
          BY <1>3, <4>1 DEF Sound, Live, Exists
    <3> QED
        BY <3>1, <3>2
  <2> QED
      BY <2>1 DEF Ahead, Slots, Exists, Live, InFlight
<1> QED
    BY <1>2, <1>8, <1>9, <1>10 DEF LimiterIInv

\* A call that ends without a document being touched.
LEMMA AnswerStep ==
    ASSUME LimiterIInv, NEW r \in Requests, InFlight(r),
           NEW a \in {"CONTENTION", "CORRUPT_STATE", "UNAVAILABLE"},
           Answer(r, a), UNCHANGED <<window, doc, damage>>
    PROVE  LimiterIInv'
<1> DEFINE h == [hit[r] EXCEPT !.pc = a]
<1>1. hit[r] \in Hit /\ Sound(hit[r]) /\ hit[r].pc \in {"COUNT", "CREATE", "GET"}
    BY SoundCalls DEF LimiterIInv, LimiterTypes, InFlight
<1>2. h \in Hit /\ h.by = hit[r].by /\ h.win = hit[r].win /\ h.pc = a
    BY <1>1 DEF Hit, Answers
<1>3. hit' = [hit EXCEPT ![r] = h]
    BY DEF Answer, LimiterIInv, LimiterTypes
<1>4. Sound(h)
    BY <1>1, <1>2 DEF Sound, Hit
<1> QED
    BY <1>2, <1>3, <1>4, LocalStep

\* Every step of a call keeps the invariant.
LEMMA CallKeeps ==
    ASSUME LimiterIInv, NEW r \in Requests, Call(r)
    PROVE  LimiterIInv'
<1> USE LimiterAssumption
<1>0. hit[r] \in Hit /\ Sound(hit[r]) /\ LimiterTypes
    BY SoundCalls DEF LimiterIInv, LimiterTypes
<1>1. CASE Enter(r)
  <2> DEFINE h == [hit[r] EXCEPT !.pc = "COUNT", !.win = window]
  <2>1. h \in Hit /\ h.by = hit[r].by /\ h.pc = "COUNT" /\ h.win = window
      BY <1>0, <1>1 DEF Hit, LimiterTypes, Enter
  <2>2. hit[r].by = Limit
      BY <1>0, <1>1 DEF Enter, Sound
  <2>3. Sound(h)
      BY <1>0, <2>1, <2>2 DEF Sound, Live, LimiterTypes, Windows
  <2>4. hit' = [hit EXCEPT ![r] = h] /\ UNCHANGED <<window, doc, damage>>
      BY <1>0, <1>1 DEF Enter, LimiterTypes
  <2> HIDE DEF h
  <2> QED
      BY <2>1, <2>2, <2>3, <2>4, LocalStep
<1>2. CASE CountSlots(r)
  <2> DEFINE w == hit[r].win
             used == Cardinality(Counted(w))
             h == IF used >= Limit THEN [hit[r] EXCEPT !.pc = "LIMIT_REACHED"]
                  ELSE [hit[r] EXCEPT !.pc = "CREATE", !.slot = used]
  <2>1. w \in Windows /\ Live(w) /\ hit[r].pc = "COUNT" /\ NoHoles
      BY <1>0, <1>2 DEF CountSlots, Hit, Sound, LimiterIInv
  <2>2. used \in Nat /\ (used >= Limit => Used(w) = Slots)
      BY DocumentsFinite, SlotsFinite
  <2>3. \A s \in Slots : s < used => Exists(w, s)
      BY <1>0, <2>1, InitialSegment
  <2>4. h \in Hit /\ h.by = hit[r].by /\ h.win = w
    <3>1. CASE used >= Limit
        BY <1>0, <3>1 DEF Hit, Answers
    <3>2. CASE ~(used >= Limit)
      <4>1. used \in 0 .. Limit
          BY <2>2, <3>2
      <4>2. h = [hit[r] EXCEPT !.pc = "CREATE", !.slot = used]
          BY <3>2
      <4> HIDE DEF used, h
      <4> QED
          BY <1>0, <4>1, <4>2 DEF Hit
    <3> QED
        BY <3>1, <3>2
  <2>5. Sound(h)
    <3>1. CASE used >= Limit
      <4>1. \A s \in Slots : Exists(w, s)
          BY <2>2, <3>1 DEF Used
      <4>2. h.pc = "LIMIT_REACHED"
          BY <1>0, <3>1 DEF Hit
      <4> QED
          BY <1>0, <2>1, <2>4, <4>1, <4>2 DEF Sound
    <3>2. CASE ~(used >= Limit)
      <4>1. h.pc = "CREATE" /\ h.slot = used /\ used < Limit
          BY <1>0, <2>2, <3>2 DEF Hit
      <4> QED
          BY <1>0, <2>1, <2>3, <2>4, <4>1 DEF Sound
    <3> QED
        BY <3>1, <3>2
  <2>6. hit' = [hit EXCEPT ![r] = h] /\ UNCHANGED <<window, doc, damage>>
      BY <1>0, <1>2 DEF CountSlots, Answer, LimiterTypes
  <2> HIDE DEF h
  <2> QED
      BY <2>4, <2>5, <2>6, LocalStep
<1>3. CASE OutOfProbes(r)
    BY <1>3, AnswerStep DEF OutOfProbes, InFlight
<1>4. CASE CreateSlot(r)
  <2>1. CASE Exists(hit[r].win, hit[r].slot)
    <3> DEFINE h == [hit[r] EXCEPT !.pc = "GET", !.probes = @ + 1]
    <3>0. hit[r].probes + 1 \in 0 .. MaxProbes /\ hit[r].pc = "CREATE"
        BY <1>0, <1>4 DEF Hit, CreateSlot, Probing
    <3>1. h \in Hit /\ h.by = hit[r].by /\ h.win = hit[r].win
          /\ h.slot = hit[r].slot /\ h.pc = "GET"
        BY <1>0, <3>0 DEF Hit
    <3>3. Sound(h)
        BY <1>0, <3>0, <3>1 DEF Sound
    <3>2. hit' = [hit EXCEPT ![r] = h] /\ UNCHANGED <<window, doc, damage>>
        BY <1>0, <1>4, <2>1 DEF CreateSlot, LimiterTypes
    <3> HIDE DEF h
    <3> QED
        BY <3>1, <3>2, <3>3, LocalStep
  <2>2. CASE ~Exists(hit[r].win, hit[r].slot)
    <3> DEFINE h == [hit[r] EXCEPT !.pc = "ALLOWED", !.by = hit[r].slot, !.probes = @ + 1]
    <3>0. hit[r].probes + 1 \in 0 .. MaxProbes
        BY <1>0, <1>4 DEF Hit, CreateSlot, Probing
    <3>1. h \in Hit /\ h.by = hit[r].slot /\ h.win = hit[r].win /\ h.pc = "ALLOWED"
        BY <1>0, <3>0 DEF Hit, Answers
    <3>2. /\ hit' = [hit EXCEPT ![r] = h] /\ UNCHANGED <<window, damage>>
          /\ Probing(r) /\ Stored(hit[r].win, hit[r].slot)
        BY <1>0, <1>4, <2>2 DEF CreateSlot, LimiterTypes
    <3> HIDE DEF h
    <3> QED
        BY <2>2, <3>1, <3>2, ChargeStep
  <2> QED
      BY <2>1, <2>2
<1>5. CASE Conflict(r)
  <2> DEFINE h == [hit[r] EXCEPT !.conflicts = @ + 1, !.probes = @ + 1]
  <2>1. CASE hit[r].conflicts = MaxConflicts
      BY <1>5, <2>1, AnswerStep DEF Conflict, Probing, InFlight, Answer
  <2>2. CASE hit[r].conflicts # MaxConflicts
    <3>0. /\ hit[r].probes + 1 \in 0 .. MaxProbes /\ hit[r].conflicts + 1 \in 0 .. MaxConflicts
        BY <1>0, <1>5, <2>2 DEF Hit, Conflict, Probing
    <3>1. h \in Hit /\ h.by = hit[r].by /\ h.win = hit[r].win
          /\ h.slot = hit[r].slot /\ h.pc = hit[r].pc
        BY <1>0, <2>2, <3>0 DEF Hit
    <3>2. Sound(h)
        BY <1>0, <3>1 DEF Sound
    <3>3. hit' = [hit EXCEPT ![r] = h] /\ UNCHANGED <<window, doc, damage>>
        BY <1>0, <1>5, <2>2 DEF Conflict, LimiterTypes
    <3> HIDE DEF h
    <3> QED
        BY <3>1, <3>2, <3>3, LocalStep
  <2> QED
      BY <2>1, <2>2
<1>6. CASE GetSlot(r)
  <2>1. CASE doc[hit[r].win][hit[r].slot] = "NONE"
    <3> DEFINE h == [hit[r] EXCEPT !.pc = "CREATE"]
    <3>1. h \in Hit /\ h.by = hit[r].by /\ h.win = hit[r].win /\ Sound(h)
        BY <1>0, <1>6 DEF Hit, GetSlot, Sound
    <3>2. hit' = [hit EXCEPT ![r] = h] /\ UNCHANGED <<window, doc, damage>>
        BY <1>0, <1>6, <2>1 DEF GetSlot, LimiterTypes
    <3> HIDE DEF h
    <3> QED
        BY <3>1, <3>2, LocalStep
  <2>2. CASE doc[hit[r].win][hit[r].slot] \in {"BAD", "ALIEN"}
      BY <1>6, <2>2, AnswerStep DEF GetSlot, InFlight, Answer
  <2>3. CASE /\ doc[hit[r].win][hit[r].slot] # "NONE"
             /\ doc[hit[r].win][hit[r].slot] \notin {"BAD", "ALIEN"}
    <3> DEFINE n == hit[r].slot
               h == [hit[r] EXCEPT !.slot = n + 1,
                                   !.pc = IF n + 1 = Limit THEN "LIMIT_REACHED" ELSE "CREATE"]
    <3>1. /\ hit[r].pc = "GET" /\ n \in Nat /\ n < Limit
          /\ \A s \in Slots : s < n => Exists(hit[r].win, s)
        BY <1>0, <1>6 DEF GetSlot, Sound, Hit
    <3>2. \A s \in Slots : s < n + 1 => Exists(hit[r].win, s)
        BY <2>3, <3>1 DEF Exists, Slots
    <3>0. n + 1 \in 0 .. Limit
        BY <3>1
    <3>3. h \in Hit /\ h.by = hit[r].by /\ h.win = hit[r].win
      <4>1. CASE n + 1 = Limit
          BY <1>0, <3>0, <4>1 DEF Hit, Answers
      <4>2. CASE n + 1 # Limit
        <5>1. h = [hit[r] EXCEPT !.slot = n + 1, !.pc = "CREATE"]
            BY <4>2
        <5> HIDE DEF h
        <5> QED
            BY <1>0, <3>0, <5>1 DEF Hit
      <4> QED
          BY <4>1, <4>2
    <3>4. Sound(h)
        BY <1>0, <3>1, <3>2 DEF Sound, Hit, Slots
    <3>5. hit' = [hit EXCEPT ![r] = h] /\ UNCHANGED <<window, doc, damage>>
        BY <1>0, <1>6, <2>3 DEF GetSlot, LimiterTypes
    <3> HIDE DEF h
    <3> QED
        BY <3>3, <3>4, <3>5, LocalStep
  <2> QED
      BY <2>1, <2>2, <2>3
<1>7. CASE BudgetExhausted(r)
    BY <1>7, AnswerStep DEF BudgetExhausted
<1>8. CASE StorageFails(r)
  <2>1. CASE Answer(r, "UNAVAILABLE") /\ UNCHANGED doc
      BY <1>8, <2>1, AnswerStep DEF StorageFails
  <2>2. CASE /\ Probing(r) /\ ~Exists(hit[r].win, hit[r].slot)
             /\ hit' = [hit EXCEPT ![r].pc = "UNAVAILABLE", ![r].by = hit[r].slot]
             /\ Stored(hit[r].win, hit[r].slot)
    <3> DEFINE h == [hit[r] EXCEPT !.pc = "UNAVAILABLE", !.by = hit[r].slot]
    <3>1. h \in Hit /\ h.by = hit[r].slot /\ h.win = hit[r].win /\ h.pc = "UNAVAILABLE"
        BY <1>0 DEF Hit, Answers
    <3>2. hit' = [hit EXCEPT ![r] = h] /\ UNCHANGED <<window, damage>>
        BY <1>0, <1>8, <2>2 DEF StorageFails, LimiterTypes
    <3> HIDE DEF h
    <3> QED
        BY <2>2, <3>1, <3>2, ChargeStep
  <2> QED
      BY <1>8, <2>1, <2>2 DEF StorageFails
<1> QED
    BY <1>1, <1>2, <1>3, <1>4, <1>5, <1>6, <1>7, <1>8 DEF Call

\* When the clock enters the next window, no call is left in an older one
\* than the present.
LEMMA ClockKeeps ==
    ASSUME LimiterIInv, NextWindow
    PROVE  LimiterIInv'
<1> USE LimiterAssumption
<1>1. LimiterTypes'
    BY DEF LimiterIInv, LimiterTypes, NextWindow, Windows
<1>2. /\ window \in Nat /\ window' = window + 1 /\ UNCHANGED <<doc, hit>>
      /\ \A r \in Requests : hit[r].win \in Nat
    BY DEF LimiterIInv, LimiterTypes, NextWindow, Windows, Hit
<1>3. \A w \in Windows : Live(w)' => Live(w)
    BY <1>2 DEF Live, Windows
<1>4. \A r \in Requests : hit[r].win \in Windows /\ (InFlight(r) => hit[r].win = window)
    BY DEF LimiterIInv, LimiterTypes, NextWindow, Hit
<1>5. ChargedOnce'
    BY <1>2, <1>3, <1>4 DEF LimiterIInv, ChargedOnce, Charged, Exists
<1>6. NoHoles'
    BY <1>2, <1>3 DEF LimiterIInv, NoHoles, Exists, Windows, Slots
<1>7. Ahead'
    BY <1>2, <1>3, <1>4 DEF LimiterIInv, Ahead, Exists, InFlight, Live, Slots
<1> QED
    BY <1>1, <1>5, <1>6, <1>7 DEF LimiterIInv

\* The purge only removes documents of windows nobody relies on.
LEMMA PurgeKeeps ==
    ASSUME LimiterIInv, PurgeExpired
    PROVE  LimiterIInv'
<1> USE LimiterAssumption
<1>1. PICK v \in Windows, n \in Slots :
        v + 1 < window /\ doc' = [doc EXCEPT ![v][n] = "NONE"]
    BY DEF PurgeExpired
<1>2. UNCHANGED <<window, damage, hit>> /\ window \in Nat
    BY DEF PurgeExpired, LimiterIInv, LimiterTypes, Windows
<1>3. LimiterTypes'
    BY <1>1, <1>2 DEF LimiterIInv, LimiterTypes, Document
<1>4. \A w \in Windows, s \in Slots : Live(w) => (Exists(w, s)' <=> Exists(w, s))
    BY <1>1, <1>2 DEF LimiterIInv, LimiterTypes, Exists, Live, Windows
<1>5. \A w : Live(w)' <=> Live(w)
    BY <1>2 DEF Live
<1>6. \A r \in Requests : /\ hit[r].win \in Windows
                          /\ Charged(r) => hit[r].by \in Slots
                          /\ hit[r].pc \in {"CREATE", "GET"} => Live(hit[r].win)
    BY DEF LimiterIInv, LimiterTypes, Hit, Charged, Slots, Ahead, InFlight
<1>7. ChargedOnce'
  <2>1. ASSUME NEW r \in Requests, Charged(r), Live(hit[r].win)
        PROVE  Exists(hit[r].win, hit[r].by)'
    <3>1. Exists(hit[r].win, hit[r].by)
        BY <2>1 DEF LimiterIInv, ChargedOnce
    <3> QED
        BY <1>2, <1>4, <1>6, <2>1, <3>1 DEF Exists
  <2> QED
      BY <1>2, <1>5, <2>1 DEF LimiterIInv, ChargedOnce, Charged, Exists, Live
<1>8. NoHoles'
    BY <1>2, <1>4, <1>5 DEF LimiterIInv, NoHoles, Windows, Slots
<1>9. Ahead'
  <2>1. ASSUME NEW r \in Requests
        PROVE  Sound(hit[r]) /\ hit[r].win \in Windows
      BY <1>6, SoundCalls
  <2>2. \A w \in Windows, s \in Slots : Live(w) => (doc'[w][s] # "NONE" <=> doc[w][s] # "NONE")
      BY <1>4 DEF Exists
  <2> QED
      BY <1>2, <2>1, <2>2 DEF Ahead, Sound, Exists, InFlight, Live, Slots
<1> QED
    BY <1>3, <1>7, <1>8, <1>9 DEF LimiterIInv

\* A damaged document still stands for its slot.
LEMMA DamageKeeps ==
    ASSUME LimiterIInv, Corrupt
    PROVE  LimiterIInv'
<1> USE LimiterAssumption
<1>1. PICK v \in Windows, n \in Slots, d \in {"BAD", "ALIEN"} :
        doc[v][n] = "VALID" /\ doc' = [doc EXCEPT ![v][n] = d]
    BY DEF Corrupt
<1>2. UNCHANGED <<window, hit>> /\ damage' = damage - 1 /\ damage > 0
    BY DEF Corrupt
<1>3. LimiterTypes'
    BY <1>1, <1>2 DEF LimiterIInv, LimiterTypes, Document
<1>4. \A w \in Windows, s \in Slots : Exists(w, s)' <=> Exists(w, s)
    BY <1>1 DEF LimiterIInv, LimiterTypes, Exists
<1>5. \A r \in Requests : hit[r].win \in Windows /\ (Charged(r) => hit[r].by \in Slots)
    BY DEF LimiterIInv, LimiterTypes, Hit, Charged, Slots
<1>6. \A w \in Windows, s \in Slots : doc'[w][s] # "NONE" <=> doc[w][s] # "NONE"
    BY <1>4 DEF Exists
<1>7. ChargedOnce'
    BY <1>2, <1>5, <1>6 DEF LimiterIInv, ChargedOnce, Charged, Exists, Live
<1>8. NoHoles'
    BY <1>2, <1>6 DEF LimiterIInv, NoHoles, Exists, Live, Windows, Slots
<1>9. Ahead'
  <2>1. \A r \in Requests : Sound(hit[r])
      BY SoundCalls
  <2> QED
      BY <1>2, <1>5, <1>6, <2>1 DEF Ahead, Sound, Exists, InFlight, Live, Slots
<1> QED
    BY <1>3, <1>7, <1>8, <1>9 DEF LimiterIInv

LEMMA LimiterStep ==
    ASSUME LimiterIInv, [LimiterNext]_limiterVars
    PROVE  LimiterIInv'
<1>1. CASE \E r \in Requests : Call(r)
    BY <1>1, CallKeeps
<1>2. CASE NextWindow
    BY <1>2, ClockKeeps
<1>3. CASE PurgeExpired
    BY <1>3, PurgeKeeps
<1>4. CASE Corrupt
    BY <1>4, DamageKeeps
<1>5. CASE UNCHANGED limiterVars
    BY <1>5 DEF limiterVars, LimiterIInv, LimiterTypes, ChargedOnce, NoHoles, Ahead, Charged,
        Exists, InFlight, Live, Hit, Windows, Slots
<1> QED
    BY <1>1, <1>2, <1>3, <1>4, <1>5 DEF LimiterNext

\* Calls, slots and documents stay as the limiter's steps rely on.
THEOREM LimiterInvariant == LimiterSpec => []LimiterIInv
<1>1. LimiterInit => LimiterIInv
    BY LimiterStarts
<1>2. LimiterIInv /\ [LimiterNext]_limiterVars => LimiterIInv'
    BY LimiterStep
<1> QED
    BY <1>1, <1>2, PTL DEF LimiterSpec

-----------------------------------------------------------------------------
(* What the limiter promises *)

\* The calls a window admitted hold different slots, and there are Limit.
LEMMA AllowedFewEnough == LimiterIInv => NeverOverAdmits
<1> SUFFICES ASSUME LimiterIInv, NEW w \in Windows
             PROVE  Cardinality(AllowedIn(w)) <= Limit
    BY DEF NeverOverAdmits
<1> DEFINE f == [r \in AllowedIn(w) |-> hit[r].by]
<1>1. \A r \in AllowedIn(w) : r \in Requests /\ Charged(r) /\ hit[r].win = w
    BY DEF AllowedIn, LimiterIInv, ChargedOnce
<1>2. \A r \in AllowedIn(w) : hit[r].by \in Slots
    BY <1>1, LimiterAssumption DEF LimiterIInv, LimiterTypes, Hit, Charged, Slots
<1>3. \A q, r \in AllowedIn(w) : hit[q].by = hit[r].by => q = r
    BY <1>1 DEF LimiterIInv, ChargedOnce
<1>4. f \in Injection(AllowedIn(w), Slots)
    BY <1>2, <1>3, Zenon DEF Injection, IsInjective
<1>5. Cardinality(AllowedIn(w)) <= Cardinality(Slots)
    BY <1>4, SlotsFinite, FS_Injection
<1> QED
    BY <1>5, SlotsFinite

\* Not more than Limit calls are admitted in a window (ratelimit/limiter.py,
\* FirestoreRateLimiter: "it never over-admits").
THEOREM LimitHolds == LimiterSpec => []NeverOverAdmits
    BY LimiterInvariant, AllowedFewEnough, PTL

LEMMA FullWhenRefused == LimiterIInv => RefusedOnlyWhenFull
<1> SUFFICES ASSUME LimiterIInv, NEW r \in Requests,
                    hit[r].pc = "LIMIT_REACHED", Live(hit[r].win), NEW s \in Slots
             PROVE  /\ Exists(hit[r].win, s)
                    /\ \E q \in Requests :
                        /\ hit[q].win = hit[r].win /\ hit[q].by = s
                        /\ hit[q].pc \in {"ALLOWED", "UNAVAILABLE"}
    BY DEF RefusedOnlyWhenFull
<1>1. hit[r].win \in Windows /\ Exists(hit[r].win, s)
    BY DEF LimiterIInv, LimiterTypes, Hit, Ahead
<1>2. PICK q \in Requests : hit[q].win = hit[r].win /\ hit[q].by = s
    BY <1>1 DEF LimiterIInv, NoHoles
<1>3. Charged(q)
    BY <1>2, LimiterAssumption DEF Charged, Slots
<1> QED
    BY <1>1, <1>2, <1>3 DEF LimiterIInv, ChargedOnce

\* The quota is refused to nobody before it is used up by calls that were
\* admitted, or charged without getting to know it.
THEOREM RefusalsAreHonest == LimiterSpec => []RefusedOnlyWhenFull
    BY LimiterInvariant, FullWhenRefused, PTL

-----------------------------------------------------------------------------
(* The refinement of the atomic counter *)

AnswerBar == [r \in Requests |-> IF hit[r].pc \in Answers THEN hit[r].pc ELSE "NONE"]
CountBar == [w \in Windows |-> Cardinality(Used(w))]

\* The step of a call that ends it shows its answer.
LEMMA ShownAnswer ==
    ASSUME LimiterTypes, NEW r \in Requests, InFlight(r), hit'[r].pc \in Answers,
           \A q \in Requests : q # r => hit'[q] = hit[q]
    PROVE  AnswerBar[r] = "NONE" /\ AnswerBar' = [AnswerBar EXCEPT ![r] = hit'[r].pc]
<1>1. hit[r].pc \notin Answers
    BY DEF InFlight, Answers
<1>2. AnswerBar' = [q \in Requests |-> IF hit'[q].pc \in Answers THEN hit'[q].pc ELSE "NONE"]
    BY DEF AnswerBar, Answers
<1> QED
    BY <1>1, <1>2 DEF AnswerBar

\* Any other step of a call shows nothing.
LEMMA ShownNothing ==
    ASSUME LimiterTypes, NEW r \in Requests, hit[r].pc \notin Answers, hit'[r].pc \notin Answers,
           \A q \in Requests : q # r => hit'[q] = hit[q]
    PROVE  AnswerBar' = AnswerBar
<1>1. AnswerBar' = [q \in Requests |-> IF hit'[q].pc \in Answers THEN hit'[q].pc ELSE "NONE"]
    BY DEF AnswerBar, Answers
<1> QED
    BY <1>1 DEF AnswerBar

\* A step that leaves the documents alone charges nobody.
LEMMA ShownCount ==
    ASSUME UNCHANGED doc
    PROVE  CountBar' = CountBar
    BY DEF CountBar, Used, Exists, Windows, Slots

\* A slot that is created charges its window once.
LEMMA ShownCharge ==
    ASSUME LimiterTypes, NEW w \in Windows, NEW n \in Slots, ~Exists(w, n), Stored(w, n)
    PROVE  CountBar[w] < Limit /\ CountBar' = [CountBar EXCEPT ![w] = @ + 1]
<1>1. \A v \in Windows : Used(v)' = IF v = w THEN Used(w) \cup {n} ELSE Used(v)
  <2> SUFFICES ASSUME NEW v \in Windows
               PROVE  Used(v)' = IF v = w THEN Used(w) \cup {n} ELSE Used(v)
      OBVIOUS
  <2>1. \A s \in Slots : doc'[v][s] = IF v = w /\ s = n THEN "VALID" ELSE doc[v][s]
      BY DEF LimiterTypes, Stored
  <2> QED
      BY <2>1 DEF Used, Exists, Slots
<1>2. n \notin Used(w) /\ IsFiniteSet(Used(w)) /\ Cardinality(Used(w)) \in Nat
      /\ Cardinality(Used(w)) <= Limit /\ (Cardinality(Used(w)) = Limit => Used(w) = Slots)
    BY DocumentsFinite DEF Used
<1>3. Cardinality(Used(w) \cup {n}) = Cardinality(Used(w)) + 1
    BY <1>2, FS_AddElement
<1>4. Cardinality(Used(w)) < Limit
    BY <1>2, LimiterAssumption
<1>5. CountBar' = [v \in Windows |-> Cardinality(Used(v)')]
    BY DEF CountBar, Windows
<1> QED
    BY <1>1, <1>3, <1>4, <1>5 DEF CountBar

\* A window whose slots are all in use has reached the limit.
LEMMA ShownFull ==
    ASSUME NEW w \in Windows, \A s \in Slots : Exists(w, s)
    PROVE  CountBar[w] = Limit
<1>1. Used(w) = Slots
    BY DEF Used
<1> QED
    BY <1>1, SlotsFinite DEF CountBar

\* The steps of the counter, in the terms of the limiter.
LEMMA DenyShown ==
    ASSUME NEW r \in Requests, NEW a \in {"CONTENTION", "CORRUPT_STATE", "UNAVAILABLE"},
           UNCHANGED window, CountBar' = CountBar, AnswerBar[r] = "NONE",
           AnswerBar' = [AnswerBar EXCEPT ![r] = a]
    PROVE  Contract!ContractNext
<1>1. Contract!Deny(r)
    BY DEF Contract!Deny, Contract!Reply, AnswerBar, CountBar
<1> QED
    BY <1>1 DEF Contract!ContractNext

LEMMA RefuseShown ==
    ASSUME NEW r \in Requests, NEW w \in Windows, w <= window, window <= w + 1,
           UNCHANGED window, CountBar' = CountBar, CountBar[w] = Limit, AnswerBar[r] = "NONE",
           AnswerBar' = [AnswerBar EXCEPT ![r] = "LIMIT_REACHED"]
    PROVE  Contract!ContractNext
<1>1. Contract!Refuse(r)
    BY DEF Contract!Refuse, Contract!Reply, Contract!Serving, AnswerBar, CountBar, Windows
<1> QED
    BY <1>1 DEF Contract!ContractNext

LEMMA ChargeShown ==
    ASSUME NEW r \in Requests, NEW w \in Windows, w <= window, window <= w + 1,
           NEW a \in {"ALLOWED", "UNAVAILABLE"},
           UNCHANGED window, CountBar[w] < Limit, CountBar' = [CountBar EXCEPT ![w] = @ + 1],
           AnswerBar[r] = "NONE", AnswerBar' = [AnswerBar EXCEPT ![r] = a]
    PROVE  Contract!ContractNext
<1>1. CASE a = "ALLOWED"
  <2>1. Contract!Admit(r)
      BY <1>1 DEF Contract!Admit, Contract!Reply, Contract!Serving, Contract!Charge,
          AnswerBar, CountBar, Windows
  <2> QED
      BY <2>1 DEF Contract!ContractNext
<1>2. CASE a = "UNAVAILABLE"
  <2>1. Contract!Deny(r)
      BY <1>2 DEF Contract!Deny, Contract!Reply, Contract!Serving, Contract!Charge,
          AnswerBar, CountBar, Windows
  <2> QED
      BY <2>1 DEF Contract!ContractNext
<1> QED
    BY <1>1, <1>2

LEMMA StutterShown ==
    ASSUME UNCHANGED window, CountBar' = CountBar, AnswerBar' = AnswerBar
    PROVE  UNCHANGED Contract!contractVars
BY DEF Contract!contractVars, AnswerBar, CountBar

\* What all steps of a call have in common.
LEMMA CallFacts ==
    ASSUME LimiterIInv, NEW r \in Requests, Call(r)
    PROVE  /\ UNCHANGED window
           /\ \A q \in Requests : q # r => hit'[q] = hit[q]
           /\ hit[r].win \in Windows
           /\ hit[r].pc \notin Answers
           /\ InFlight(r) => hit[r].win <= window /\ window <= hit[r].win + 1
<1>1. LimiterTypes /\ hit[r] \in Hit /\ Sound(hit[r]) /\ window \in Windows
    BY SoundCalls DEF LimiterIInv, LimiterTypes
<1>2. UNCHANGED window /\ \A q \in Requests : q # r => hit'[q] = hit[q]
    BY <1>1 DEF LimiterTypes, Call, Enter, CountSlots, OutOfProbes, CreateSlot, Conflict, GetSlot,
        BudgetExhausted, StorageFails, Answer, Probing, InFlight
<1>3. hit[r].pc \notin Answers
    BY DEF Call, Enter, CountSlots, OutOfProbes, CreateSlot, Conflict, GetSlot,
        BudgetExhausted, StorageFails, Probing, InFlight, Answers
<1>4. InFlight(r) => hit[r].win <= window /\ window <= hit[r].win + 1
    BY <1>1 DEF LimiterIInv, Ahead, Live, InFlight
<1> QED
    BY <1>1, <1>2, <1>3, <1>4 DEF Hit

\* Every step of a call is a step of the counter, or does not show.
LEMMA CallRefines ==
    ASSUME LimiterIInv, NEW r \in Requests, Call(r)
    PROVE  [Contract!ContractNext]_(Contract!contractVars)
<1> DEFINE w == hit[r].win
<1>0. /\ UNCHANGED window
      /\ \A q \in Requests : q # r => hit'[q] = hit[q]
      /\ w \in Windows
      /\ hit[r].pc \notin Answers
      /\ InFlight(r) => w <= window /\ window <= w + 1
      /\ LimiterTypes
      /\ hit[r] \in Hit
    BY CallFacts DEF LimiterIInv, LimiterTypes
<1>1. CASE UNCHANGED doc /\ hit'[r].pc \notin Answers
    BY <1>0, <1>1, ShownNothing, ShownCount, StutterShown
<1>2. CASE UNCHANGED doc /\ InFlight(r)
           /\ hit'[r].pc \in {"CONTENTION", "CORRUPT_STATE", "UNAVAILABLE"}
  <2>1. AnswerBar[r] = "NONE" /\ AnswerBar' = [AnswerBar EXCEPT ![r] = hit'[r].pc]
      BY <1>0, <1>2, ShownAnswer DEF Answers
  <2>2. CountBar' = CountBar
      BY <1>2, ShownCount
  <2> QED
      BY <1>0, <1>2, <2>1, <2>2, DenyShown
<1>3. CASE UNCHANGED doc /\ InFlight(r) /\ hit'[r].pc = "LIMIT_REACHED"
           /\ \A s \in Slots : Exists(w, s)
  <2>1. AnswerBar[r] = "NONE" /\ AnswerBar' = [AnswerBar EXCEPT ![r] = "LIMIT_REACHED"]
      BY <1>0, <1>3, ShownAnswer DEF Answers
  <2>2. CountBar' = CountBar /\ CountBar[w] = Limit
      BY <1>0, <1>3, ShownCount, ShownFull
  <2> QED
      BY <1>0, <1>3, <2>1, <2>2, RefuseShown
<1>4. CASE Probing(r) /\ ~Exists(w, hit[r].slot) /\ Stored(w, hit[r].slot)
           /\ hit'[r].pc \in {"ALLOWED", "UNAVAILABLE"}
  <2>1. InFlight(r) /\ hit[r].slot \in Slots
      BY <1>0, <1>4, LimiterAssumption DEF Probing, InFlight, LimiterIInv, Ahead, Hit, Slots
  <2>2. AnswerBar[r] = "NONE" /\ AnswerBar' = [AnswerBar EXCEPT ![r] = hit'[r].pc]
      BY <1>0, <1>4, <2>1, ShownAnswer DEF Answers
  <2>3. CountBar[w] < Limit /\ CountBar' = [CountBar EXCEPT ![w] = @ + 1]
      BY <1>0, <1>4, <2>1, ShownCharge
  <2> QED
      BY <1>0, <1>4, <2>1, <2>2, <2>3, ChargeShown
<1>5. CASE Enter(r)
  <2>1. UNCHANGED doc /\ hit'[r].pc \notin Answers
      BY <1>0, <1>5 DEF Enter, LimiterTypes, Hit, Answers
  <2> QED
      BY <1>1, <2>1
<1>6. CASE CountSlots(r)
  <2>1. UNCHANGED doc /\ InFlight(r)
      BY <1>6 DEF CountSlots, InFlight
  <2>2. CASE Cardinality(Counted(w)) >= Limit
    <3>1. hit'[r].pc = "LIMIT_REACHED"
        BY <1>0, <1>6, <2>2 DEF CountSlots, Answer, LimiterTypes, Hit
    <3>2. Used(w) = Slots
      <4>1. Cardinality(Used(w)) \in Nat /\ Cardinality(Counted(w)) \in Nat
            /\ Cardinality(Counted(w)) <= Cardinality(Used(w)) /\ Cardinality(Used(w)) <= Limit
            /\ (Cardinality(Used(w)) = Limit => Used(w) = Slots)
          BY DocumentsFinite
      <4> QED
          BY <2>2, <4>1, LimiterAssumption
    <3>3. \A s \in Slots : Exists(w, s)
        BY <3>2 DEF Used
    <3> QED
        BY <1>3, <2>1, <3>1, <3>3
  <2>3. CASE ~(Cardinality(Counted(w)) >= Limit)
    <3>1. hit'[r].pc \notin Answers
        BY <1>0, <1>6, <2>3 DEF CountSlots, LimiterTypes, Hit, Answers
    <3> QED
        BY <1>1, <2>1, <3>1
  <2> QED
      BY <2>2, <2>3
<1>7. CASE OutOfProbes(r) \/ BudgetExhausted(r)
  <2>1. UNCHANGED doc /\ InFlight(r) /\ hit'[r].pc = "CONTENTION"
      BY <1>0, <1>7 DEF OutOfProbes, BudgetExhausted, InFlight, Answer, LimiterTypes, Hit
  <2> QED
      BY <1>2, <2>1
<1>8. CASE CreateSlot(r)
  <2>1. CASE Exists(w, hit[r].slot)
    <3>1. UNCHANGED doc /\ hit'[r].pc \notin Answers
        BY <1>0, <1>8, <2>1 DEF CreateSlot, LimiterTypes, Hit, Answers
    <3> QED
        BY <1>1, <3>1
  <2>2. CASE ~Exists(w, hit[r].slot)
    <3>1. Probing(r) /\ Stored(w, hit[r].slot) /\ hit'[r].pc = "ALLOWED"
        BY <1>0, <1>8, <2>2 DEF CreateSlot, LimiterTypes, Hit
    <3> QED
        BY <1>4, <2>2, <3>1
  <2> QED
      BY <2>1, <2>2
<1>9. CASE Conflict(r)
  <2>1. UNCHANGED doc /\ InFlight(r)
      BY <1>9 DEF Conflict, Probing, InFlight
  <2>2. hit'[r].pc = "CONTENTION" \/ hit'[r].pc = hit[r].pc
      BY <1>0, <1>9 DEF Conflict, LimiterTypes, Hit
  <2> QED
      BY <1>0, <1>1, <1>2, <2>1, <2>2
<1>10. CASE GetSlot(r)
  <2>1. UNCHANGED doc /\ InFlight(r)
      BY <1>10 DEF GetSlot, InFlight
  <2>2. CASE doc[w][hit[r].slot] \in {"NONE", "BAD", "ALIEN"}
    <3>1. hit'[r].pc \in {"CREATE", "CORRUPT_STATE"}
        BY <1>0, <1>10, <2>2 DEF GetSlot, LimiterTypes, Hit
    <3> QED
        BY <1>1, <1>2, <2>1, <3>1 DEF Answers
  <2>3. CASE doc[w][hit[r].slot] \notin {"NONE", "BAD", "ALIEN"}
    <3>1. hit'[r].pc = IF hit[r].slot + 1 = Limit THEN "LIMIT_REACHED" ELSE "CREATE"
        BY <1>0, <1>10, <2>3 DEF GetSlot, LimiterTypes, Hit
    <3>2. ASSUME hit[r].slot + 1 = Limit, NEW s \in Slots PROVE Exists(w, s)
      <4>1. \A t \in Slots : t < hit[r].slot => Exists(w, t)
          BY <1>10 DEF LimiterIInv, Ahead, GetSlot
      <4>2. s < hit[r].slot \/ s = hit[r].slot
          BY <1>0, <3>2, LimiterAssumption DEF Slots, Hit
      <4> QED
          BY <2>3, <4>1, <4>2 DEF Exists
    <3> QED
        BY <1>1, <1>3, <2>1, <3>1, <3>2 DEF Answers
  <2> QED
      BY <2>2, <2>3
<1>11. CASE StorageFails(r)
  <2>1. hit'[r].pc = "UNAVAILABLE" /\ InFlight(r)
      BY <1>0, <1>11 DEF StorageFails, Answer, LimiterTypes, Hit
  <2>2. \/ UNCHANGED doc
        \/ Probing(r) /\ ~Exists(w, hit[r].slot) /\ Stored(w, hit[r].slot)
      BY <1>11 DEF StorageFails
  <2> QED
      BY <1>2, <1>4, <2>1, <2>2
<1> HIDE DEF w
<1> QED
    BY <1>5, <1>6, <1>7, <1>8, <1>9, <1>10, <1>11 DEF Call

\* So are the steps of the clock, of the purge and of damage.
LEMMA OthersRefine ==
    ASSUME LimiterIInv
    PROVE  NextWindow \/ PurgeExpired \/ Corrupt \/ UNCHANGED limiterVars
           => [Contract!ContractNext]_(Contract!contractVars)
<1>0. LimiterTypes /\ window \in Nat
    BY DEF LimiterIInv, LimiterTypes, Windows
<1>1. ASSUME UNCHANGED hit PROVE AnswerBar' = AnswerBar
    BY <1>1 DEF AnswerBar, Answers
<1>2. CASE NextWindow
  <2>1. AnswerBar' = AnswerBar /\ CountBar' = CountBar
      BY <1>1, <1>2, ShownCount DEF NextWindow
  <2>2. Contract!Advance
      BY <1>2, <2>1 DEF Contract!Advance, NextWindow, AnswerBar, CountBar
  <2> QED
      BY <2>2 DEF Contract!ContractNext
<1>3. CASE PurgeExpired
  <2>1. PICK w \in Windows, n \in Slots :
            w + 1 < window /\ Exists(w, n) /\ doc' = [doc EXCEPT ![w][n] = "NONE"]
      BY <1>3 DEF PurgeExpired
  <2>2. \A v \in Windows : Used(v)' = IF v = w THEN Used(w) \ {n} ELSE Used(v)
    <3> SUFFICES ASSUME NEW v \in Windows
                 PROVE  Used(v)' = IF v = w THEN Used(w) \ {n} ELSE Used(v)
        OBVIOUS
    <3>1. \A s \in Slots : doc'[v][s] = IF v = w /\ s = n THEN "NONE" ELSE doc[v][s]
        BY <1>0, <2>1 DEF LimiterTypes
    <3> QED
        BY <3>1 DEF Used, Exists, Slots
  <2>3. n \in Used(w) /\ IsFiniteSet(Used(w))
      BY <2>1, DocumentsFinite DEF Used
  <2>4. /\ Cardinality(Used(w)) \in Nat
        /\ Cardinality(Used(w) \ {n}) = Cardinality(Used(w)) - 1
        /\ Cardinality(Used(w)) > 0
    <3>1. Cardinality(Used(w)) \in Nat /\ Cardinality(Used(w)) # 0
        BY <2>3, FS_EmptySet, FS_CardinalityType
    <3>2. Cardinality(Used(w) \ {n}) = Cardinality(Used(w)) - 1
        BY <2>3, FS_RemoveElement
    <3> QED
        BY <3>1, <3>2
  <2>5. CountBar' = [v \in Windows |-> Cardinality(Used(v)')]
      BY DEF CountBar, Windows
  <2>6. CountBar[w] > 0 /\ CountBar' = [CountBar EXCEPT ![w] = @ - 1]
      BY <2>2, <2>4, <2>5 DEF CountBar
  <2>7. AnswerBar' = AnswerBar /\ UNCHANGED window
      BY <1>1, <1>3 DEF PurgeExpired
  <2>8. Contract!Forget
      BY <2>1, <2>6, <2>7 DEF Contract!Forget, AnswerBar, CountBar, Windows
  <2> QED
      BY <2>8 DEF Contract!ContractNext
<1>4. CASE Corrupt
  <2>1. PICK w \in Windows, n \in Slots, d \in {"BAD", "ALIEN"} :
            doc[w][n] = "VALID" /\ doc' = [doc EXCEPT ![w][n] = d]
      BY <1>4 DEF Corrupt
  <2>2. ASSUME NEW v \in Windows, NEW s \in Slots
        PROVE  (doc'[v][s] # "NONE") <=> (doc[v][s] # "NONE")
      BY <1>0, <2>1 DEF LimiterTypes
  <2>3. CountBar' = CountBar
      BY <2>2 DEF CountBar, Used, Exists, Slots, Windows
  <2> QED
      BY <1>1, <1>4, <2>3, StutterShown DEF Corrupt
<1>5. CASE UNCHANGED limiterVars
    BY <1>1, <1>5, ShownCount, StutterShown DEF limiterVars
<1> QED
    BY <1>2, <1>3, <1>4, <1>5

\* At the start nothing is charged and nobody is answered.
LEMMA StartRefines == LimiterInit => Contract!ContractInit
<1> SUFFICES ASSUME LimiterInit PROVE Contract!ContractInit
    OBVIOUS
<1>1. ASSUME NEW w \in Windows PROVE Cardinality(Used(w)) = 0
  <2>1. Used(w) = {}
      BY DEF LimiterInit, Used, Exists
  <2> QED
      BY <2>1, FS_EmptySet
<1>2. \A r \in Requests : hit[r].pc \notin Answers
    BY DEF LimiterInit, Answers
<1> QED
    BY <1>1, <1>2 DEF Contract!ContractInit, LimiterInit, Windows

\* The limiter on a shared store without transactions is the atomic counter
\* of the process-local one (ratelimit/limiter.py: `InMemoryRateLimiter` has the same
\* semantics).
THEOREM LimiterRefinesContract == LimiterSpec => ImplementsContract
<1>1. LimiterInit => Contract!ContractInit
    BY StartRefines
<1>2. LimiterIInv /\ [LimiterNext]_limiterVars => [Contract!ContractNext]_(Contract!contractVars)
    BY CallRefines, OthersRefine DEF LimiterNext
<1> QED
    BY <1>1, <1>2, LimiterInvariant, PTL DEF LimiterSpec, ImplementsContract, Contract!ContractSpec
=============================================================================
