---------------------------- MODULE LimiterContract ----------------------------
(***************************************************************************)
(* What a rate limiter promises (ratelimit/limiter.py): the process-local  *)
(* InMemoryRateLimiter, whose lock makes one call one step, with the       *)
(* answers a shared store adds to it.  RateLimiter implements it.          *)
(***************************************************************************)
EXTENDS Naturals

CONSTANTS Requests, Limit, LastWindow

VARIABLES
    current,  \* the window the clock is in
    count,    \* attempts charged to each window
    answer    \* of each call, and the window it was charged to

contractVars == <<current, count, answer>>

ContractInit ==
    /\ current = 0
    /\ count = [w \in 0 .. LastWindow |-> 0]
    /\ answer = [r \in Requests |-> "NONE"]

Charge(w) == count' = [count EXCEPT ![w] = @ + 1]

Reply(r, a) == answer[r] = "NONE" /\ answer' = [answer EXCEPT ![r] = a]

\* A call is charged to the window it began in, its own or the one before.
Serving(w) == w \in 0 .. LastWindow /\ w <= current /\ current <= w + 1

Admit(r) ==
    /\ Reply(r, "ALLOWED")
    /\ \E w \in 0 .. LastWindow : Serving(w) /\ count[w] < Limit /\ Charge(w)
    /\ UNCHANGED current

Refuse(r) ==
    /\ Reply(r, "LIMIT_REACHED")
    /\ \E w \in 0 .. LastWindow : Serving(w) /\ count[w] = Limit
    /\ UNCHANGED <<current, count>>

\* Contention, a corrupt or an unavailable store deny the call; the last
\* may charge it all the same.
Deny(r) ==
    /\ \/ (\E a \in {"CONTENTION", "CORRUPT_STATE", "UNAVAILABLE"} : Reply(r, a)) /\ UNCHANGED count
       \/ /\ Reply(r, "UNAVAILABLE")
          /\ \E w \in 0 .. LastWindow : Serving(w) /\ count[w] < Limit /\ Charge(w)
    /\ UNCHANGED current

Advance == current < LastWindow /\ current' = current + 1 /\ UNCHANGED <<count, answer>>

\* The cleanup of finished windows.
Forget ==
    /\ \E w \in 0 .. LastWindow :
        /\ w + 1 < current
        /\ count[w] > 0
        /\ count' = [count EXCEPT ![w] = @ - 1]
    /\ UNCHANGED <<current, answer>>

ContractNext ==
    \/ \E r \in Requests : Admit(r) \/ Refuse(r) \/ Deny(r)
    \/ Advance
    \/ Forget

ContractSpec == ContractInit /\ [][ContractNext]_contractVars
=============================================================================
