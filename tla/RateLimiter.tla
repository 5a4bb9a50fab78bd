------------------------------ MODULE RateLimiter ------------------------------
(***************************************************************************)
(* FirestoreRateLimiter (ratelimit/limiter.py): a fixed window owns Limit  *)
(* slot documents and a request is admitted by creating an unused one.     *)
(* There is no transaction: a request counts the documents of its window,  *)
(* then tries to create one slot after the other.  Every line between two  *)
(* RPCs is local, so the RPCs are the steps.                               *)
(*                                                                         *)
(* One counter is modelled, that of one tenant, user and operation: the    *)
(* document id keeps the counters apart.                                   *)
(***************************************************************************)
EXTENDS Naturals, FiniteSets

CONSTANTS
    Requests,      \* calls of hit() on this counter
    Limit,         \* policy.limit
    LastWindow,    \* windows are 0 .. LastWindow
    MaxProbes,     \* MAX_SLOT_PROBES
    MaxConflicts,  \* MAX_CONTENTION_RETRIES
    Damage         \* how many slot documents may be corrupted

ASSUME LimiterAssumption ==
    /\ IsFiniteSet(Requests)
    /\ Limit \in Nat \ {0}
    /\ LastWindow \in Nat
    /\ MaxProbes \in Nat \ {0}
    /\ MaxConflicts \in Nat
    /\ Damage \in Nat

VARIABLES
    window,  \* the window the wall clock is in
    doc,     \* the slot documents of every window
    damage,  \* documents that may still be corrupted
    hit      \* the local state of every call

limiterVars == <<window, doc, damage, hit>>

Windows == 0 .. LastWindow
Slots == 0 .. Limit - 1

\* ALIEN lost its window_key, so the count does not see it; BAD is counted,
\* but another field is wrong.
Document == {"NONE", "VALID", "BAD", "ALIEN"}

Answers == {"ALLOWED", "LIMIT_REACHED", "CONTENTION", "CORRUPT_STATE", "UNAVAILABLE"}

\* by: the slot this call created, or Limit.
Hit == [pc : {"IDLE", "COUNT", "CREATE", "GET"} \cup Answers, win : Windows,
        slot : 0 .. Limit, by : 0 .. Limit, probes : 0 .. MaxProbes,
        conflicts : 0 .. MaxConflicts]

LimiterTypes ==
    /\ window \in Windows
    /\ doc \in [Windows -> [Slots -> Document]]
    /\ damage \in 0 .. Damage
    /\ hit \in [Requests -> Hit]

LimiterInit ==
    /\ window = 0
    /\ doc = [w \in Windows |-> [s \in Slots |-> "NONE"]]
    /\ damage = Damage
    /\ hit = [r \in Requests |-> [pc |-> "IDLE", win |-> 0, slot |-> 0, by |-> Limit,
                                  probes |-> 0, conflicts |-> 0]]

-----------------------------------------------------------------------------
(* One call *)

Exists(w, s) == doc[w][s] # "NONE"

\* The documents the count query finds.
Counted(w) == {s \in Slots : doc[w][s] \in {"VALID", "BAD"}}

InFlight(r) == hit[r].pc \in {"COUNT", "CREATE", "GET"}

Answer(r, a) == hit' = [hit EXCEPT ![r].pc = a]

Stored(w, s) == doc' = [doc EXCEPT ![w][s] = "VALID"]

\* The window is fixed by the clock when the call begins.
Enter(r) ==
    /\ hit[r].pc = "IDLE"
    /\ hit' = [hit EXCEPT ![r].pc = "COUNT", ![r].win = window]
    /\ UNCHANGED <<window, doc, damage>>

\* Mutant: the count is not taken as the first slot, the last one is.
CountFromTheTop(r) ==
    /\ hit[r].pc = "COUNT"
    /\ IF Cardinality(Counted(hit[r].win)) >= Limit
       THEN Answer(r, "LIMIT_REACHED")
       ELSE hit' = [hit EXCEPT ![r].pc = "CREATE", ![r].slot = Limit - 1]
    /\ UNCHANGED <<window, doc, damage>>

\* The fast path: a full window is refused by one read.
CountSlots(r) ==
    LET used == Cardinality(Counted(hit[r].win)) IN
    /\ hit[r].pc = "COUNT"
    /\ IF used >= Limit
       THEN Answer(r, "LIMIT_REACHED")
       ELSE hit' = [hit EXCEPT ![r].pc = "CREATE", ![r].slot = used]
    /\ UNCHANGED <<window, doc, damage>>

OutOfProbes(r) ==
    /\ hit[r].pc = "CREATE"
    /\ hit[r].probes = MaxProbes
    /\ Answer(r, "CONTENTION")
    /\ UNCHANGED <<window, doc, damage>>

Probing(r) == hit[r].pc = "CREATE" /\ hit[r].probes < MaxProbes

\* Mutant: set() in place of create().
OverwriteSlot(r) ==
    /\ Probing(r)
    /\ hit' = [hit EXCEPT ![r].pc = "ALLOWED", ![r].by = hit[r].slot, ![r].probes = @ + 1]
    /\ Stored(hit[r].win, hit[r].slot)
    /\ UNCHANGED <<window, damage>>

\* create() is atomic: the slot is this call's, or it is somebody else's.
CreateSlot(r) ==
    LET w == hit[r].win
        s == hit[r].slot
    IN
    /\ Probing(r)
    /\ IF Exists(w, s)
       THEN /\ hit' = [hit EXCEPT ![r].pc = "GET", ![r].probes = @ + 1]
            /\ UNCHANGED doc
       ELSE /\ hit' = [hit EXCEPT ![r].pc = "ALLOWED", ![r].by = s, ![r].probes = @ + 1]
            /\ Stored(w, s)
    /\ UNCHANGED <<window, damage>>

\* Mutant: contention is retried without a bound.
ConflictForever(r) ==
    /\ Probing(r)
    /\ hit' = [hit EXCEPT ![r].conflicts = @ + 1]
    /\ UNCHANGED <<window, doc, damage>>

\* Aborted: the same slot again, a bounded number of times.
Conflict(r) ==
    /\ Probing(r)
    /\ hit' = IF hit[r].conflicts = MaxConflicts
              THEN [hit EXCEPT ![r].pc = "CONTENTION"]
              ELSE [hit EXCEPT ![r].conflicts = @ + 1, ![r].probes = @ + 1]
    /\ UNCHANGED <<window, doc, damage>>

\* Who took the slot?  A document that vanished is tried again, one that is
\* corrupt denies the call, and behind the last slot there is nothing to try.
GetSlot(r) ==
    LET w == hit[r].win
        s == hit[r].slot
    IN
    /\ hit[r].pc = "GET"
    /\ hit' = CASE doc[w][s] = "NONE" -> [hit EXCEPT ![r].pc = "CREATE"]
                [] doc[w][s] \in {"BAD", "ALIEN"} -> [hit EXCEPT ![r].pc = "CORRUPT_STATE"]
                [] OTHER -> [hit EXCEPT ![r].slot = s + 1,
                                        ![r].pc = IF s + 1 = Limit THEN "LIMIT_REACHED"
                                                  ELSE "CREATE"]
    /\ UNCHANGED <<window, doc, damage>>

\* The time budget is checked before every RPC.
BudgetExhausted(r) ==
    /\ InFlight(r)
    /\ Answer(r, "CONTENTION")
    /\ UNCHANGED <<window, doc, damage>>

\* An RPC that fails otherwise is a storage failure, 503.  A create() whose
\* reply is lost has still created the slot.
StorageFails(r) ==
    /\ InFlight(r)
    /\ \/ /\ Answer(r, "UNAVAILABLE")
          /\ UNCHANGED doc
       \/ /\ Probing(r)
          /\ ~Exists(hit[r].win, hit[r].slot)
          /\ hit' = [hit EXCEPT ![r].pc = "UNAVAILABLE", ![r].by = hit[r].slot]
          /\ Stored(hit[r].win, hit[r].slot)
    /\ UNCHANGED <<window, damage>>

-----------------------------------------------------------------------------
(* The clock, the purge and damaged documents *)

\* A call lives HIT_BUDGET_SECONDS, so it may outlive its window, but it
\* ends before the next one does (windows of at least five seconds).
NextWindow ==
    /\ window < LastWindow
    /\ \A r \in Requests : InFlight(r) => hit[r].win = window
    /\ window' = window + 1
    /\ UNCHANGED <<doc, damage, hit>>

\* Mutant: documents expire as soon as the window they belong to has begun.
PurgeEarly ==
    /\ \E w \in Windows, s \in Slots :
        /\ w <= window
        /\ Exists(w, s)
        /\ doc' = [doc EXCEPT ![w][s] = "NONE"]
    /\ UNCHANGED <<window, damage, hit>>

\* purge_expired, or the TTL policy: documents go when EXPIRY_GRACE_SECONDS
\* (an hour, as long as the windows of the default policies) have passed
\* since the end of their window, one by one.
PurgeExpired ==
    /\ \E w \in Windows, s \in Slots :
        /\ w + 1 < window
        /\ Exists(w, s)
        /\ doc' = [doc EXCEPT ![w][s] = "NONE"]
    /\ UNCHANGED <<window, damage, hit>>

Corrupt ==
    /\ damage > 0
    /\ damage' = damage - 1
    /\ \E w \in Windows, s \in Slots, d \in {"BAD", "ALIEN"} :
        /\ doc[w][s] = "VALID"
        /\ doc' = [doc EXCEPT ![w][s] = d]
    /\ UNCHANGED <<window, hit>>

Call(r) ==
    \/ Enter(r)
    \/ CountSlots(r)
    \/ OutOfProbes(r)
    \/ CreateSlot(r)
    \/ Conflict(r)
    \/ GetSlot(r)
    \/ BudgetExhausted(r)
    \/ StorageFails(r)

LimiterNext ==
    \/ \E r \in Requests : Call(r)
    \/ NextWindow
    \/ PurgeExpired
    \/ Corrupt

LimiterSpec == LimiterInit /\ [][LimiterNext]_limiterVars

-----------------------------------------------------------------------------
(* What the limiter promises *)

AllowedIn(w) == {r \in Requests : hit[r].pc = "ALLOWED" /\ hit[r].win = w}

\* However many instances race, a window admits no more calls than its
\* limit ("it never over-admits").
NeverOverAdmits == \A w \in Windows : Cardinality(AllowedIn(w)) <= Limit

Live(w) == window <= w + 1

\* A call is refused for the limit only while every slot of its window is
\* taken, and every slot was taken by one call that was admitted or whose
\* reply was lost: a quota is used up by nobody else.
RefusedOnlyWhenFull ==
    \A r \in Requests :
        (hit[r].pc = "LIMIT_REACHED" /\ Live(hit[r].win)) =>
            \A s \in Slots :
                /\ Exists(hit[r].win, s)
                /\ \E q \in Requests :
                    /\ hit[q].win = hit[r].win
                    /\ hit[q].by = s
                    /\ hit[q].pc \in {"ALLOWED", "UNAVAILABLE"}

Used(w) == {s \in Slots : Exists(w, s)}

\* The limiter on a shared store keeps the promise of the one behind a lock.
Contract == INSTANCE LimiterContract WITH
    current <- window,
    count <- [w \in Windows |-> Cardinality(Used(w))],
    answer <- [r \in Requests |-> IF hit[r].pc \in Answers THEN hit[r].pc ELSE "NONE"]

\* Every step of the FirestoreRateLimiter is a step of the atomic counter
\* (InMemoryRateLimiter) or changes nothing that shows.
ImplementsContract == Contract!ContractSpec

-----------------------------------------------------------------------------
(* The inductive invariant *)

Charged(r) == hit[r].by # Limit

\* Only a call that is over holds a slot; a slot of a live window that is
\* held exists; nobody shares one; the slots in use are the first ones, and
\* all slots before the one a call tries are in use.
ChargedOnce ==
    /\ \A r \in Requests : hit[r].pc = "ALLOWED" => Charged(r)
    /\ \A r \in Requests : Charged(r) => hit[r].pc \in {"ALLOWED", "UNAVAILABLE"}
    /\ \A r \in Requests :
        (Charged(r) /\ Live(hit[r].win)) => Exists(hit[r].win, hit[r].by)
    /\ \A q, r \in Requests :
        (Charged(q) /\ Charged(r) /\ hit[q].win = hit[r].win /\ hit[q].by = hit[r].by) => q = r

NoHoles ==
    \A w \in Windows : Live(w) =>
        /\ \A s, t \in Slots : s < t /\ Exists(w, t) => Exists(w, s)
        /\ \A s \in Slots : Exists(w, s) =>
            \E r \in Requests : hit[r].win = w /\ hit[r].by = s

Ahead ==
    \A r \in Requests :
        /\ hit[r].pc \in {"CREATE", "GET"} =>
            /\ hit[r].slot < Limit
            /\ \A s \in Slots : s < hit[r].slot => Exists(hit[r].win, s)
        /\ (hit[r].pc = "LIMIT_REACHED" /\ Live(hit[r].win)) =>
            \A s \in Slots : Exists(hit[r].win, s)
        /\ hit[r].pc # "IDLE" => hit[r].win <= window
        /\ InFlight(r) => Live(hit[r].win)

LimiterIInv == LimiterTypes /\ ChargedOnce /\ NoHoles /\ Ahead
=============================================================================
