--------------------------- MODULE ImpactVerdict ---------------------------
(***************************************************************************)
(* What an impact scan promises, without batches, leases or messages: one  *)
(* verdict on the portfolio, reached once, never changed, sound with       *)
(* respect to the rows, and the same for every worker that asks.           *)
(* (docs/architecture/CONNECTOR_IMPACT.md, "Completion semantics (locked)")*)
(***************************************************************************)
EXTENDS Naturals

CONSTANTS Coordinators, Rows, Excess, Truths

VARIABLES
    truth,    \* rigid: what the rows of the portfolio are
    verdict,  \* the verdict, or "NONE"
    answer    \* what each worker was told, or "NONE"

vars == <<truth, verdict, answer>>

Verdicts == {"BLOCK", "CANCELLED", "PASS_ELIGIBLE", "REVIEW_REQUIRED"}

\* The verdicts the portfolio admits: CANCELLED and REVIEW_REQUIRED claim
\* nothing about it.
Justified(v) ==
    /\ v = "PASS_ELIGIBLE" =>
          Excess = 0 /\ \A r \in Rows : truth[r] \in {"MATCH", "OUT_OF_SCOPE"}
    /\ v = "BLOCK" => \E r \in Rows : truth[r] = "AFFECTED"

Init ==
    /\ truth \in Truths
    /\ verdict = "NONE"
    /\ answer = [c \in Coordinators |-> "NONE"]

Decide(c) ==
    /\ verdict = "NONE"
    /\ \E v \in Verdicts :
          /\ Justified(v)
          /\ verdict' = v
          /\ answer' = [answer EXCEPT ![c] = v]
    /\ UNCHANGED truth

Learn(c) ==
    /\ verdict # "NONE"
    /\ answer' = [answer EXCEPT ![c] = verdict]
    /\ UNCHANGED <<truth, verdict>>

\* A worker dies and with it what it was told.
Forget(c) ==
    /\ answer' = [answer EXCEPT ![c] = "NONE"]
    /\ UNCHANGED <<truth, verdict>>

Next == \E c \in Coordinators : Decide(c) \/ Learn(c) \/ Forget(c)

Spec == Init /\ [][Next]_vars
=============================================================================
