-------------------------- MODULE MCConnectorTraffic --------------------------
(***************************************************************************)
(* The two guards of the rating engine's capacity: the quota on API calls  *)
(* and the remote half of a batch.  They share no state, so a behaviour of *)
(* this model is a behaviour of one of them; the other one rests.          *)
(***************************************************************************)
EXTENDS RateLimiter, BatchPricing

VARIABLE side  \* the component that runs

trafficVars == <<limiterVars, pricingVars, side>>

Init == LimiterInit /\ PricingInit /\ side \in {"LIMITER", "PRICING"}

Next ==
    \/ side = "LIMITER" /\ LimiterNext /\ UNCHANGED <<pricingVars, side>>
    \/ side = "PRICING" /\ PricingNext /\ UNCHANGED <<limiterVars, side>>

Spec ==
    /\ Init /\ [][Next]_trafficVars
    /\ WF_trafficVars(side = "PRICING" /\ Abort /\ UNCHANGED <<limiterVars, side>>)
    /\ \A t \in Tasks :
        WF_trafficVars(side = "PRICING" /\ TaskStep(t) /\ UNCHANGED <<limiterVars, side>>)

\* Every variable of both components has its type, and what the proofs carry
\* along besides the invariants below holds: the slots in use are the first
\* ones and charged once, and who backs off has an attempt left.
TrafficIInv == LimiterIInv /\ PricingTypes /\ AttemptsLeft

\* A batch never hangs and is all or nothing: every chunk is answered, or an
\* exception of one of them (processor.py: nobody between send_chunk and the
\* handler catches it) ends them all and not one result is left.
BatchEnds == side = "PRICING" ~> (AllAnswered \/ Aborted)
=============================================================================
