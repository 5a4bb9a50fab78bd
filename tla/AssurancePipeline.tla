--------------------------- MODULE AssurancePipeline ---------------------------
(***************************************************************************)
(* AssuranceSupervisor.run_mission (agents/supervisor.py): the stages of   *)
(* one execution of a mission, the ledger of their outcomes and the        *)
(* release decision.  The engines are functions of the mission's packages, *)
(* so what they yield on a mission is a constant; the language model, the  *)
(* connector and the user who cancels may answer anything at any time.     *)
(*                                                                         *)
(* A stage that begins with a cancellation check is entered unchecked; the *)
(* check is a step of its own, so a cancellation can fall between the      *)
(* check and the call of the model that it guards.                         *)
(***************************************************************************)
EXTENDS Naturals, Sequences, FiniteSets

CONSTANTS
    Missions,     \* what there is to find in the missions to run
    MaxCalls,     \* max_gemini_calls_per_mission
    MaxRounds,    \* max_probe_rounds
    MaxExtra,     \* MAX_ADDITIONAL_PROBE_TESTS
    CleanProbes,  \* the sample of the clean path, selected_scenarios[:5]
    MaxAnswer,    \* bound: ids in one answer of the model
    MaxBlind      \* bound: cancellation checks that fail

Modes == {"EQUIVALENCE", "RELEASE_CONFORMANCE"}

\* A mission is a record of
\*   mode, connector      the comparison; is Source B a connector?
\*   invalid, flagged     validate_mission finds an issue; the gate asks for review
\*   diffs                findings of the semantic diff
\*   plan, pool, controls selected_scenarios; the ids of candidate_scenarios,
\*                        and of those classified as CONTROL
\*   expected, actual     what the two engines yield on a scenario: a PREMIUM,
\*                        a calculation DATE that is refused, another ERROR
\*   cause                reconcile_packages: FOUND, NONE or ERROR
\*   portfolio            evaluate_portfolio: CLEAN, EXPOSED or ERROR
\*   runner               is a connector impact runner given?
Prices == [kind : {"PREMIUM", "DATE", "ERROR"}, premium : Nat]

ASSUME PipelineAssumption ==
    /\ {MaxCalls, MaxRounds, MaxExtra, CleanProbes, MaxAnswer, MaxBlind} \subseteq Nat
    /\ \A m \in Missions :
        /\ m.mode \in Modes
        /\ {m.connector, m.invalid, m.flagged, m.runner} \subseteq BOOLEAN
        /\ m.cause \in {"FOUND", "NONE", "ERROR"}
        /\ m.portfolio \in {"CLEAN", "EXPOSED", "ERROR"}
        /\ m.connector => m.diffs = {}
        /\ m.plan \in Seq(m.pool)
        /\ m.controls \subseteq m.pool
        /\ m.expected \in [m.pool -> Prices] /\ m.actual \in [m.pool -> Prices]

VARIABLES
    mission,    \* the mission that runs
    stage,      \* the stage that comes next
    checked,    \* has its cancellation check been made?
    todo,       \* scenarios still to probe in this round
    executed,   \* the probes made, with what came of them
    round,      \* probe_round
    ledger,     \* StageRecorder: stage to status
    calls,      \* gemini_call_count
    review,     \* review_required
    cause,      \* has the reconciliation a root cause?
    impact,     \* the portfolio: what was scanned and what was found
    verdict,    \* release_decision
    overall,    \* overall_status; RAISED when run_mission raises
    cancelled,  \* cancellation_requested
    blind,      \* cancellation checks that failed
    late        \* history: calls of the model begun after the cancellation

evidence == <<executed, cause, impact>>
control == <<stage, checked, todo, round>>
vars == <<mission, control, evidence, ledger, calls, review, verdict, overall,
          cancelled, blind, late>>

-----------------------------------------------------------------------------
(* The ledger *)

LedgerStages ==
    {"REQUEST_VALIDATION", "SOURCE_A_LOAD", "SOURCE_B_LOAD_OR_CONNECTOR_CHECK",
     "COMPATIBILITY_GATE", "SEMANTIC_DIFF", "DEPENDENCY_IMPACT",
     "TEST_CANDIDATE_GENERATION", "TEST_SELECTION", "ORACLE_EXECUTION",
     "TARGET_EXECUTION", "RECONCILIATION", "PORTFOLIO_IMPACT", "PIPELINE_IMPACT",
     "COHORT_DISTRIBUTION", "REMEDIATION", "REVALIDATION", "EXPLANATION_FACTS",
     "EXPLANATION_DRAFT", "DECISION", "EVIDENCE_FINALIZATION"}

Statuses == {"COMPLETED", "NOT_APPLICABLE", "REVIEW_REQUIRED", "FAILED"}

Missing(l) == {s \in LedgerStages : l[s] = "MISSING"}

Record(l, names, status) == [s \in LedgerStages |-> IF s \in names THEN status ELSE l[s]]

\* Mutant: the stages that were not reached stay out of the report.
NoBackfill(l) == l

\* _finalize_stage_outcomes: every stage is accounted for.
Backfill(l) == Record(l, Missing(l), "NOT_APPLICABLE")

-----------------------------------------------------------------------------
(* The moves every stage is made of *)

At(s) == stage = s /\ checked

\* The next stage, with or without a cancellation check before it.
Go(s) == stage' = s /\ checked' = TRUE

\* Mutant: the check at the head of a stage is lost.
EnterUnchecked(s) == stage' = s /\ checked' = TRUE

Enter(s) == stage' = s /\ checked' = FALSE

\* run_mission returns, or an engine's exception passes through it.
Return(status) == Go("OVER") /\ overall' = status

Raise ==
    /\ Return("RAISED")
    /\ UNCHANGED <<ledger, verdict>>

\* A decision is issued; the evidence is final when no stage is missing.
Decide(l, decision) ==
    /\ verdict' = decision
    /\ ledger' = Record(Record(l, {"DECISION"}, "COMPLETED"), {"EVIDENCE_FINALIZATION"},
                        IF Missing(l) \subseteq {"DECISION", "EVIDENCE_FINALIZATION"}
                        THEN "COMPLETED" ELSE "FAILED")
    /\ Return("COMPLETED")

\* Mutant: one call too many fits into the budget.
CanAskOnceMore == calls <= MaxCalls

CanAsk == calls < MaxCalls

NoReply == [given |-> FALSE, ids |-> <<>>]

\* Any ids of S in any order, also twice the same, after the invalid ones are
\* dropped; none may be left.
Answers(S) == UNION {[1 .. n -> S] : n \in 0 .. MaxAnswer}

Replies(S) ==
    {NoReply} \cup (IF CanAsk THEN {[given |-> TRUE, ids |-> s] : s \in Answers(S)} ELSE {})

\* _ask_gemini: within the budget a call is counted, failed or not.
Ask ==
    /\ calls' = IF CanAsk THEN calls + 1 ELSE calls
    /\ late' = IF cancelled /\ CanAsk THEN late + 1 ELSE late

Quiet == UNCHANGED <<calls, late>>

Outcomes(o) == {i \in DOMAIN executed : executed[i].outcome = o}

Mismatched == Outcomes("MISMATCH") # {}

NotMatching == {i \in DOMAIN executed : executed[i].outcome # "MATCH"}

ExecutedIds == {executed[i].id : i \in DOMAIN executed}

-----------------------------------------------------------------------------
(* Probes *)

\* Two packages: the premiums are compared when both engines give one.
PackageOutcome(m, id) ==
    CASE "ERROR" \in {m.expected[id].kind, m.actual[id].kind} /\ m.expected[id].kind # "DATE" -> "RAISES"
      [] m.expected[id].kind = "DATE" \/ m.actual[id].kind = "DATE" -> "INCONCLUSIVE"
      [] OTHER -> IF m.expected[id].premium = m.actual[id].premium THEN "MATCH" ELSE "MISMATCH"

Probe(id, outcome, reply) == [id |-> id, outcome |-> outcome, reply |-> reply]

\* _quote_via_connector: a premium, an incomplete answer or none at all.
ConnectorProbes(m, id) ==
    IF m.expected[id].kind = "DATE"
    THEN {Probe(id, "INCONCLUSIVE", "NOT_ASKED")}
    ELSE {Probe(id, "MATCH", "SUCCESS"), Probe(id, "MISMATCH", "SUCCESS"),
          Probe(id, "INCONCLUSIVE", "PARTIAL_RESPONSE"),
          Probe(id, "INCONCLUSIVE", "CONNECTOR_FAILURE")}

Raises(m, id) ==
    IF m.connector THEN m.expected[id].kind = "ERROR" ELSE PackageOutcome(m, id) = "RAISES"

\* A premium that is not a number, or an error that is no
\* ConnectorException, is caught nowhere in the run.
ConnectorRaises(m, id) == m.connector /\ m.expected[id].kind # "DATE"

\* _execute_probe
Probes(m, id) ==
    IF m.connector
    THEN ConnectorProbes(m, id)
    ELSE {Probe(id, PackageOutcome(m, id), "NOT_ASKED")}

\* Replies of the connector, connector_probe_outcomes.
ConnectorReplies == {executed[i].reply : i \in DOMAIN executed} \ {"NOT_ASKED"}

AllFailed == "SUCCESS" \notin ConnectorReplies

\* The loop of the probe rounds goes on.
MoreRounds(done, rounds) ==
    /\ rounds < MaxRounds
    /\ \E i \in DOMAIN done : done[i].outcome = "MISMATCH"
    /\ CanAsk

-----------------------------------------------------------------------------
(* Stages 1 and 2 *)

Init ==
    /\ mission \in Missions
    /\ stage = "VALIDATE" /\ checked = TRUE
    /\ todo = <<>> /\ executed = <<>> /\ round = 0
    /\ ledger = [s \in LedgerStages |-> "MISSING"]
    /\ calls = 0
    /\ review = FALSE
    /\ cause = FALSE
    /\ impact = [scan |-> "NOT_RUN", complete |-> FALSE, mismatches |-> FALSE]
    /\ verdict = "NONE" /\ overall = "RUNNING"
    /\ cancelled = FALSE /\ blind = 0 /\ late = 0

ValidateRequest ==
    /\ At("VALIDATE")
    /\ IF mission.invalid
       THEN /\ ledger' = Backfill(Record(ledger, {"REQUEST_VALIDATION"}, "FAILED"))
            /\ Return("FAILED")
            /\ UNCHANGED review
       ELSE /\ review' = mission.flagged
            /\ ledger' = Record(Record(ledger,
                  {"REQUEST_VALIDATION", "SOURCE_A_LOAD", "SOURCE_B_LOAD_OR_CONNECTOR_CHECK"},
                  "COMPLETED"),
                  {"COMPATIBILITY_GATE"},
                  IF mission.flagged THEN "REVIEW_REQUIRED" ELSE "COMPLETED")
            /\ Enter("DIFF")
            /\ UNCHANGED overall
    /\ Quiet
    /\ UNCHANGED <<mission, todo, round, evidence, verdict, cancelled, blind>>

DiffSources ==
    /\ At("DIFF")
    /\ IF mission.diffs # {}
       THEN Enter("PRIORITIZE") /\ UNCHANGED ledger
       ELSE IF mission.connector
       THEN /\ ledger' = Record(ledger, {"SEMANTIC_DIFF"}, "NOT_APPLICABLE")
            /\ Enter("IMPACT")
       ELSE /\ ledger' = Record(ledger, {"SEMANTIC_DIFF"}, "COMPLETED")
            /\ Go("CLEAN")
    /\ Quiet
    /\ UNCHANGED <<mission, todo, round, evidence, review, verdict, overall, cancelled, blind>>

\* The answer only words the prompts that follow.
PrioritizeDifferences ==
    /\ At("PRIORITIZE")
    /\ Ask
    /\ ledger' = Record(ledger, {"SEMANTIC_DIFF"}, "COMPLETED")
    /\ Enter("IMPACT")
    /\ UNCHANGED <<mission, todo, round, evidence, review, verdict, overall, cancelled, blind>>

-----------------------------------------------------------------------------
(* Branch A: no differences found *)

BeginClean ==
    /\ At("CLEAN")
    /\ ledger' = Record(ledger,
          {"DEPENDENCY_IMPACT", "TEST_CANDIDATE_GENERATION", "TEST_SELECTION",
           "ORACLE_EXECUTION", "TARGET_EXECUTION"}, "COMPLETED")
    /\ todo' = SubSeq(mission.plan, 1, IF Len(mission.plan) < CleanProbes
                                       THEN Len(mission.plan) ELSE CleanProbes)
    /\ Go("CLEAN_PROBE")
    /\ Quiet
    /\ UNCHANGED <<mission, round, evidence, review, verdict, overall, cancelled, blind>>

\* Nothing is caught here, not even a calculation date that is out of range.
ProbeClean ==
    /\ At("CLEAN_PROBE")
    /\ todo # <<>>
    /\ IF PackageOutcome(mission, Head(todo)) \in {"MATCH", "MISMATCH"}
       THEN /\ \E p \in Probes(mission, Head(todo)) : executed' = Append(executed, p)
            /\ todo' = Tail(todo)
            /\ UNCHANGED <<stage, checked, ledger, verdict, overall>>
       ELSE Raise /\ UNCHANGED <<todo, executed>>
    /\ Quiet
    /\ UNCHANGED <<mission, round, cause, impact, review, cancelled, blind>>

\* Mutant: the verdict of the clean path forgets the probes.
CleanVerdictByDiff == IF review THEN "REVIEW_REQUIRED" ELSE "PASS"

CleanVerdict ==
    CASE Mismatched -> "BLOCK_DEPLOYMENT"
      [] ~Mismatched /\ review -> "REVIEW_REQUIRED"
      [] OTHER -> "PASS"

DecideClean ==
    /\ At("CLEAN_PROBE")
    /\ todo = <<>>
    /\ cause' = Mismatched
    /\ Decide(Backfill(IF Mismatched
                       THEN Record(Record(ledger, {"RECONCILIATION"}, "COMPLETED"),
                                   {"PORTFOLIO_IMPACT"}, "NOT_APPLICABLE")
                       ELSE ledger),
              CleanVerdict)
    /\ Quiet
    /\ UNCHANGED <<mission, todo, round, executed, impact, review, cancelled, blind>>

-----------------------------------------------------------------------------
(* Stages 3 and 4: impact, plan, probes *)

AnalyzeImpact ==
    /\ At("IMPACT")
    /\ ledger' = Record(ledger, {"DEPENDENCY_IMPACT"},
                        IF mission.connector THEN "NOT_APPLICABLE" ELSE "COMPLETED")
    /\ Enter("PLAN")
    /\ Quiet
    /\ UNCHANGED <<mission, todo, round, evidence, review, verdict, overall, cancelled, blind>>

PlanTests ==
    /\ At("PLAN")
    /\ IF mission.connector
       THEN /\ ledger' = Record(ledger, {"TEST_CANDIDATE_GENERATION", "TEST_SELECTION"}, "COMPLETED")
            /\ todo' = mission.plan
            /\ Go("PROBE")
       ELSE /\ ledger' = Record(ledger, {"TEST_CANDIDATE_GENERATION"}, "COMPLETED")
            /\ Enter("SELECT")
            /\ UNCHANGED todo
    /\ Quiet
    /\ UNCHANGED <<mission, round, evidence, review, verdict, overall, cancelled, blind>>

SelectTests ==
    /\ At("SELECT")
    /\ \E reply \in Replies(mission.pool) :
        /\ Ask
        /\ todo' = IF reply.ids = <<>> THEN mission.plan ELSE reply.ids
    /\ ledger' = Record(ledger, {"TEST_SELECTION"}, "COMPLETED")
    /\ Go("PROBE")
    /\ UNCHANGED <<mission, round, evidence, review, verdict, overall, cancelled, blind>>

ExecuteProbe ==
    /\ At("PROBE")
    /\ todo # <<>>
    /\ \/ /\ Raises(mission, Head(todo)) \/ ConnectorRaises(mission, Head(todo))
          /\ Raise /\ UNCHANGED <<todo, executed>>
       \/ /\ ~Raises(mission, Head(todo))
          /\ \E p \in Probes(mission, Head(todo)) : executed' = Append(executed, p)
          /\ todo' = Tail(todo)
          /\ UNCHANGED <<stage, checked, ledger, verdict, overall>>
    /\ Quiet
    /\ UNCHANGED <<mission, round, cause, impact, review, cancelled, blind>>

\* The head of the while loop of the probe rounds.
EndRound ==
    /\ At("PROBE")
    /\ todo = <<>>
    /\ IF MoreRounds(executed, round) THEN Enter("SUFFICIENCY") ELSE Go("ACCOUNT")
    /\ Quiet
    /\ UNCHANGED <<mission, todo, round, evidence, ledger, review, verdict, overall,
                   cancelled, blind>>

\* The scenarios no probe has executed yet.
Remaining == mission.pool \ ExecutedIds

\* Mutant: continue, where the code breaks out of the loop.
ContinueRounds == Go("PROBE")

BreakRounds == Go("ACCOUNT")

JudgeSufficiency ==
    /\ At("SUFFICIENCY")
    /\ IF Remaining = {}
       THEN BreakRounds /\ Quiet /\ UNCHANGED <<todo, round>>
       ELSE \E reply \in Replies(Remaining) :
            /\ Ask
            /\ round' = round + 1
            /\ todo' = SubSeq(reply.ids, 1, IF Len(reply.ids) < MaxExtra
                                            THEN Len(reply.ids) ELSE MaxExtra)
            /\ IF reply.ids = <<>> THEN BreakRounds ELSE Go("PROBE")
    /\ UNCHANGED <<mission, evidence, ledger, review, verdict, overall, cancelled, blind>>

\* TARGET_EXECUTION: what the connector's replies amount to.
TargetStatus ==
    IF AllFailed \/ "PARTIAL_RESPONSE" \in ConnectorReplies
    THEN "REVIEW_REQUIRED" ELSE "COMPLETED"

AccountForTarget ==
    /\ At("ACCOUNT")
    /\ ledger' = CASE mission.connector ->
                        Record(Record(ledger, {"ORACLE_EXECUTION"}, "COMPLETED"),
                               {"TARGET_EXECUTION"}, TargetStatus)
                   [] OTHER ->
                        Record(ledger, {"ORACLE_EXECUTION", "TARGET_EXECUTION"},
                               IF executed # <<>> THEN "COMPLETED" ELSE "NOT_APPLICABLE")
    /\ Enter("RECONCILE")
    /\ Quiet
    /\ UNCHANGED <<mission, todo, round, evidence, review, verdict, overall, cancelled, blind>>

-----------------------------------------------------------------------------
(* Stages 5 and 6: root cause, portfolio, explanation *)

Reconcile ==
    /\ At("RECONCILE")
    /\ IF Mismatched /\ ~mission.connector /\ mission.cause = "ERROR"
       THEN Raise /\ UNCHANGED cause
       ELSE /\ ledger' = Record(ledger, {"RECONCILIATION"},
                                IF Mismatched THEN "COMPLETED" ELSE "NOT_APPLICABLE")
            /\ cause' = (Mismatched /\ (mission.connector \/ mission.cause = "FOUND"))
            /\ Enter("PORTFOLIO")
            /\ UNCHANGED <<verdict, overall>>
    /\ Quiet
    /\ UNCHANGED <<mission, todo, round, executed, impact, review, cancelled, blind>>

\* Without a mismatch the model may waive the scan of the portfolio.
JustifyPortfolio ==
    /\ At("PORTFOLIO")
    /\ IF ~mission.connector /\ ~Mismatched THEN Enter("JUSTIFY") ELSE Go("SCAN")
    /\ Quiet
    /\ UNCHANGED <<mission, todo, round, evidence, ledger, review, verdict, overall,
                   cancelled, blind>>

AskPortfolio ==
    /\ At("JUSTIFY")
    /\ Ask
    /\ \/ Go("SCAN")
       \/ CanAsk /\ Go("WAIVED")
    /\ UNCHANGED <<mission, todo, round, evidence, ledger, review, verdict, overall,
                   cancelled, blind>>

\* The stages of the portfolio, and of what is computed from its scan.
PortfolioStages(status, cohorts) ==
    Record(Record(ledger, {"PORTFOLIO_IMPACT"}, status),
           {"COHORT_DISTRIBUTION", "PIPELINE_IMPACT"},
           IF cohorts THEN "COMPLETED" ELSE "NOT_APPLICABLE")

PortfolioWaived ==
    /\ At("WAIVED")
    /\ ledger' = PortfolioStages("NOT_APPLICABLE", FALSE)
    /\ Go("EXPLAIN")
    /\ Quiet
    /\ UNCHANGED <<mission, todo, round, evidence, review, verdict, overall, cancelled, blind>>

ScanPackages ==
    /\ At("SCAN")
    /\ ~mission.connector
    /\ IF mission.portfolio = "ERROR"
       THEN Raise /\ UNCHANGED impact
       ELSE /\ impact' = [scan |-> "DONE", complete |-> TRUE,
                          mismatches |-> mission.portfolio = "EXPOSED"]
            /\ ledger' = PortfolioStages("COMPLETED", TRUE)
            /\ Go("EXPLAIN")
            /\ UNCHANGED <<verdict, overall>>
    /\ Quiet
    /\ UNCHANGED <<mission, todo, round, executed, cause, review, cancelled, blind>>

\* The connector's portfolio: not scanned, or with whatever result; the scan
\* polls for the cancellation itself.
ScanConnector ==
    /\ At("SCAN")
    /\ mission.connector
    /\ \/ /\ mission.runner /\ ~AllFailed
          /\ \E complete, mismatches, cohorts \in BOOLEAN :
              /\ impact' = [scan |-> "DONE", complete |-> complete, mismatches |-> mismatches]
              /\ ledger' = PortfolioStages(IF complete THEN "COMPLETED" ELSE "REVIEW_REQUIRED",
                                           cohorts)
          /\ Go("EXPLAIN") /\ UNCHANGED overall
       \/ /\ mission.runner /\ ~AllFailed /\ cancelled
          /\ ledger' = Backfill(ledger)
          /\ Return("CANCELLED") /\ UNCHANGED impact
       \/ /\ mission.runner /\ AllFailed
          /\ impact' = [impact EXCEPT !.scan = "NOT_ATTEMPTED"]
          /\ ledger' = PortfolioStages("REVIEW_REQUIRED", FALSE)
          /\ Go("EXPLAIN") /\ UNCHANGED overall
       \/ /\ ~mission.runner
          /\ ledger' = PortfolioStages("NOT_APPLICABLE", FALSE)
          /\ Go("EXPLAIN") /\ UNCHANGED <<impact, overall>>
    /\ Quiet
    /\ UNCHANGED <<mission, todo, round, executed, cause, review, verdict, cancelled, blind>>

First(S) == CHOOSE i \in S : \A j \in S : i <= j

\* The first experiment that does not match has two premiums to explain.
Explainable ==
    /\ NotMatching # {} /\ cause
    /\ executed[First(NotMatching)].outcome = "MISMATCH"

ExplainFacts ==
    /\ At("EXPLAIN")
    /\ IF Explainable
       THEN ledger' = Record(ledger, {"EXPLANATION_FACTS"}, "COMPLETED") /\ Enter("DRAFT")
       ELSE /\ ledger' = Record(ledger, {"EXPLANATION_FACTS", "EXPLANATION_DRAFT"}, "NOT_APPLICABLE")
            /\ Enter("REMEDIATE")
    /\ Quiet
    /\ UNCHANGED <<mission, todo, round, evidence, review, verdict, overall, cancelled, blind>>

DraftExplanation ==
    /\ At("DRAFT")
    /\ Ask
    /\ ledger' = Record(ledger, {"EXPLANATION_DRAFT"}, "COMPLETED")
    /\ Enter("REMEDIATE")
    /\ UNCHANGED <<mission, todo, round, evidence, review, verdict, overall, cancelled, blind>>

-----------------------------------------------------------------------------
(* Stage 7: remediation *)

NoRemediation == Record(ledger, {"REMEDIATION", "REVALIDATION"}, "NOT_APPLICABLE")

Remediate ==
    /\ At("REMEDIATE")
    /\ IF mission.diffs = {}
       THEN ledger' = NoRemediation /\ Enter("DECIDE")
       ELSE /\ Enter(IF mission.mode = "EQUIVALENCE" THEN "ALIGN" ELSE "PROPOSE")
            /\ UNCHANGED ledger
    /\ Quiet
    /\ UNCHANGED <<mission, todo, round, evidence, review, verdict, overall, cancelled, blind>>

\* Neither source is the authority: the answer is recorded, nothing else.
ProposeAlignment ==
    /\ At("ALIGN")
    /\ Ask
    /\ ledger' = NoRemediation
    /\ Enter("DECIDE")
    /\ UNCHANGED <<mission, todo, round, evidence, review, verdict, overall, cancelled, blind>>

\* Which findings the proposal names does not change what follows; there is
\* something to run again when a probe did not match or a control is left.
ProposeRemediation ==
    /\ At("PROPOSE")
    /\ Ask
    /\ IF NotMatching # {} \/ mission.controls # {}
       THEN Enter("RETEST") ELSE Go("REVALIDATE")
    /\ UNCHANGED <<mission, todo, round, evidence, ledger, review, verdict, overall,
                   cancelled, blind>>

SelectRetests ==
    /\ At("RETEST")
    /\ Ask
    /\ Go("REVALIDATE")
    /\ UNCHANGED <<mission, todo, round, evidence, ledger, review, verdict, overall,
                   cancelled, blind>>

\* revalidate_remediation scans the portfolio again, of both packages.
Revalidate ==
    /\ At("REVALIDATE")
    /\ IF mission.portfolio = "ERROR"
       THEN Raise
       ELSE /\ ledger' = Record(ledger, {"REMEDIATION", "REVALIDATION"}, "COMPLETED")
            /\ Enter("DECIDE")
            /\ UNCHANGED <<verdict, overall>>
    /\ Quiet
    /\ UNCHANGED <<mission, todo, round, evidence, review, cancelled, blind>>

-----------------------------------------------------------------------------
(* Stage 8: the release decision *)

\* _mandatory_evidence_ok adds nothing: validation and experiments have
\* succeeded in every mission that comes this far.

\* Mutant: a probe without an answer counts as a mismatch.
BlockingOnDoubt ==
    \/ NotMatching # {}
    \/ impact.mismatches
    \/ mission.diffs # {}
    \/ Missing(ledger) \ {"DECISION", "EVIDENCE_FINALIZATION"} # {}

Blocking ==
    \/ Mismatched
    \/ impact.mismatches
    \/ mission.diffs # {}
    \/ Missing(ledger) \ {"DECISION", "EVIDENCE_FINALIZATION"} # {}

\* Mutant: an incomplete scan without a mismatch reads as a clean one.
InconclusiveButForScan ==
    \/ mission.connector /\ executed = <<>>
    \/ Outcomes("INCONCLUSIVE") # {}
    \/ "PARTIAL_RESPONSE" \in ConnectorReplies

Inconclusive ==
    \/ impact.scan = "DONE" /\ ~impact.mismatches /\ ~impact.complete
    \/ impact.scan = "NOT_ATTEMPTED"
    \/ mission.connector /\ executed = <<>>
    \/ Outcomes("INCONCLUSIVE") # {}
    \/ "PARTIAL_RESPONSE" \in ConnectorReplies

DecideRelease ==
    /\ At("DECIDE")
    /\ review' = (review \/ Inconclusive)
    /\ Decide(ledger, CASE Blocking -> "BLOCK_DEPLOYMENT"
                        [] ~Blocking /\ (review \/ Inconclusive) -> "REVIEW_REQUIRED"
                        [] OTHER -> "PASS")
    /\ Quiet
    /\ UNCHANGED <<mission, todo, round, evidence, cancelled, blind>>

-----------------------------------------------------------------------------
(* Cancellation *)

\* _is_cancelled: a check that fails says no.
CheckCancelled ==
    /\ ~checked
    /\ \/ ~cancelled /\ checked' = TRUE /\ UNCHANGED <<stage, ledger, overall, blind>>
       \/ /\ cancelled /\ blind < MaxBlind
          /\ blind' = blind + 1 /\ checked' = TRUE
          /\ UNCHANGED <<stage, ledger, overall>>
       \/ /\ cancelled
          /\ ledger' = Backfill(ledger)
          /\ Return("CANCELLED")
          /\ UNCHANGED blind
    /\ Quiet
    /\ UNCHANGED <<mission, todo, round, evidence, review, verdict, cancelled>>

CancelMission ==
    /\ stage # "OVER" /\ ~cancelled
    /\ cancelled' = TRUE
    /\ UNCHANGED <<mission, control, evidence, ledger, calls, review, verdict, overall,
                   blind, late>>

Step ==
    \/ ValidateRequest \/ DiffSources \/ PrioritizeDifferences
    \/ BeginClean \/ ProbeClean \/ DecideClean
    \/ AnalyzeImpact \/ PlanTests \/ SelectTests
    \/ ExecuteProbe \/ EndRound \/ JudgeSufficiency \/ AccountForTarget
    \/ Reconcile \/ JustifyPortfolio \/ AskPortfolio \/ PortfolioWaived
    \/ ScanPackages \/ ScanConnector \/ ExplainFacts \/ DraftExplanation
    \/ Remediate \/ ProposeAlignment \/ ProposeRemediation \/ SelectRetests
    \/ Revalidate \/ DecideRelease \/ CheckCancelled

Next == Step \/ CancelMission

\* run_mission goes on by itself: the engines, the model and the connector
\* answer or time out.
Spec == Init /\ [][Next]_vars /\ WF_vars(Step)

-----------------------------------------------------------------------------
(* What a decision is worth *)

Stages ==
    {"VALIDATE", "DIFF", "PRIORITIZE", "CLEAN", "CLEAN_PROBE", "IMPACT", "PLAN", "SELECT",
     "PROBE", "SUFFICIENCY", "ACCOUNT", "RECONCILE", "PORTFOLIO", "JUSTIFY", "SCAN", "WAIVED",
     "EXPLAIN", "DRAFT", "REMEDIATE", "ALIGN", "PROPOSE", "RETEST", "REVALIDATE", "DECIDE",
     "OVER"}

Verdicts == {"NONE", "PASS", "REVIEW_REQUIRED", "BLOCK_DEPLOYMENT"}

ProbeResults(m) ==
    [id : m.pool, outcome : {"MATCH", "MISMATCH", "INCONCLUSIVE"},
     reply : {"NOT_ASKED", "SUCCESS", "PARTIAL_RESPONSE", "CONNECTOR_FAILURE"}]

\* Type correctness; the budgets of the language model are never exceeded.
TypeOK ==
    /\ stage \in Stages /\ checked \in BOOLEAN
    /\ todo \in Seq(mission.pool)
    /\ executed \in Seq(ProbeResults(mission))
    /\ round \in 0 .. MaxRounds
    /\ ledger \in [LedgerStages -> Statuses \cup {"MISSING"}]
    /\ calls \in 0 .. MaxCalls
    /\ review \in BOOLEAN /\ cause \in BOOLEAN /\ cancelled \in BOOLEAN
    /\ impact \in [scan : {"NOT_RUN", "NOT_ATTEMPTED", "DONE"},
                    complete : BOOLEAN, mismatches : BOOLEAN]
    /\ verdict \in Verdicts
    /\ overall \in {"RUNNING", "FAILED", "CANCELLED", "COMPLETED", "RAISED"}
    /\ blind \in 0 .. MaxBlind /\ late \in Nat

\* PASS is issued only on evidence without a gap: the gate had no objection,
\* the packages do not differ in anything that is compared, every probe made
\* is a match, and a connector was probed and, where its portfolio was to be
\* repriced, repriced as a whole without a mismatch.
PassIsEarned ==
    verdict = "PASS" =>
        /\ ~mission.flagged /\ mission.diffs = {}
        /\ NotMatching = {}
        /\ mission.connector =>
            /\ executed # <<>>
            /\ mission.runner => impact.scan = "DONE" /\ impact.complete /\ ~impact.mismatches

\* "Inconclusive evidence is NOT a pricing defect": a release is blocked only
\* by a difference that was found, in the packages, in a probe or in the
\* portfolio; never by an outage, and never by a stage that was forgotten.
BlockIsProven ==
    verdict = "BLOCK_DEPLOYMENT" =>
        \/ mission.diffs # {}
        \/ Mismatched
        \/ impact.mismatches

\* Whatever way a mission ends, all twenty stages are accounted for, the
\* decision is recorded exactly when there is one, and a stage that claims to
\* have been completed left its result: a reconciliation a mismatch, an
\* explanation a root cause, a portfolio a scan of the whole.
LedgerTruthful ==
    stage = "OVER" /\ overall # "RAISED" =>
        /\ Missing(ledger) = {}
        /\ ledger["DECISION"] = "COMPLETED" <=> verdict # "NONE"
        /\ ledger["RECONCILIATION"] = "COMPLETED" => Mismatched
        /\ ledger["EXPLANATION_FACTS"] = "COMPLETED" => cause
        /\ ledger["PORTFOLIO_IMPACT"] = "COMPLETED" => impact.scan = "DONE" /\ impact.complete
        /\ ledger["REVALIDATION"] = "COMPLETED" => mission.diffs # {}

\* Cancellation is honoured between the stages: after it at most one call of
\* the language model is still begun, the one whose check came just before,
\* and one more for every check that failed.
CancelStopsModel == late <= 1 + blind

\* A mission is always brought to an end, whatever the model asks for.
PipelineEnds == <>(stage = "OVER")

\* "When no executable probe can be built the plan is empty [...] so callers
\* can require review instead of passing" (engines/testing/planner.py:30).
NoPassWithoutProbe == verdict = "PASS" => executed # <<>>
=============================================================================
