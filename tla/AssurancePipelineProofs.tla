------------------------ MODULE AssurancePipelineProofs ------------------------
(***************************************************************************)
(* Proofs about AssurancePipeline: the decision of a mission is earned, a  *)
(* block is proven and the ledger tells the truth, whatever the missions,  *)
(* the budgets, the answers of the model and of the connector, and the     *)
(* moment of a cancellation.                                               *)
(***************************************************************************)
EXTENDS AssurancePipeline, SequenceTheorems, TLAPS

-----------------------------------------------------------------------------
(* The inductive invariant *)

\* The stages from which the model is asked.
Asking == {"PRIORITIZE", "SELECT", "SUFFICIENCY", "JUSTIFY", "DRAFT", "ALIGN", "PROPOSE", "RETEST"}

\* The pipeline from behind: what is still to come at each of its stages.
Deciding == {"DECIDE"}
Remediating == {"REMEDIATE", "ALIGN", "PROPOSE", "RETEST", "REVALIDATE"} \cup Deciding
Scanned == {"EXPLAIN", "DRAFT"} \cup Remediating
Reconciled == {"PORTFOLIO", "JUSTIFY", "SCAN", "WAIVED"} \cup Scanned
Accounted == {"RECONCILE"} \cup Reconciled
Selected == {"PROBE", "SUFFICIENCY", "ACCOUNT"} \cup Accounted
Planned == {"SELECT"} \cup Selected
Analyzed == {"PLAN"} \cup Planned
Compared == {"IMPACT"} \cup Analyzed
Validated == {"DIFF", "PRIORITIZE", "CLEAN", "CLEAN_PROBE"} \cup Compared

\* A mission is over once and for all; before, nothing is decided.
Undecided ==
    /\ stage = "OVER" => checked
    /\ stage # "OVER" => verdict = "NONE" /\ overall = "RUNNING"
                         /\ ledger["DECISION"] = "MISSING"

\* What brought the mission to its stage.
Path ==
    /\ stage \in {"CLEAN", "CLEAN_PROBE"} =>
          ~mission.connector /\ mission.diffs = {} /\ Outcomes("INCONCLUSIVE") = {}
    /\ stage \in {"VALIDATE", "DIFF", "CLEAN"} => executed = <<>>
    /\ stage \in {"JUSTIFY", "WAIVED"} => ~mission.connector
    /\ stage \in {"ALIGN", "PROPOSE", "RETEST", "REVALIDATE"} => mission.diffs # {}
    /\ stage \in Validated => (mission.flagged => review)
    /\ stage \in Scanned => (mission.connector /\ mission.runner => impact.scan # "NOT_RUN")
    /\ stage = "SUFFICIENCY" => round < MaxRounds

\* Each stage records its outcome before the next one begins.
Recorded(names) == \A s \in names : ledger[s] # "MISSING"

Progress ==
    /\ stage \in Validated => Recorded({"REQUEST_VALIDATION", "SOURCE_A_LOAD",
                                        "SOURCE_B_LOAD_OR_CONNECTOR_CHECK", "COMPATIBILITY_GATE"})
    /\ stage \in Compared => Recorded({"SEMANTIC_DIFF"})
    /\ stage \in Analyzed => Recorded({"DEPENDENCY_IMPACT"})
    /\ stage \in Planned => Recorded({"TEST_CANDIDATE_GENERATION"})
    /\ stage \in Selected => Recorded({"TEST_SELECTION"})
    /\ stage \in Accounted => Recorded({"ORACLE_EXECUTION", "TARGET_EXECUTION"})
    /\ stage \in Reconciled => Recorded({"RECONCILIATION"})
    /\ stage \in Scanned => Recorded({"PORTFOLIO_IMPACT", "PIPELINE_IMPACT", "COHORT_DISTRIBUTION"})
    /\ stage \in {"DRAFT"} \cup Remediating => Recorded({"EXPLANATION_FACTS"})
    /\ stage \in Remediating => Recorded({"EXPLANATION_DRAFT"})
    /\ stage \in Deciding => Recorded({"REMEDIATION", "REVALIDATION"})

\* What the ledger claims, it claims at any time.
ClaimsMismatch == ledger["RECONCILIATION"] = "COMPLETED" => Mismatched

ClaimsCause ==
    /\ ledger["EXPLANATION_FACTS"] = "COMPLETED" => cause
    /\ stage \notin Reconciled \cup {"OVER"} => ledger["EXPLANATION_FACTS"] # "COMPLETED"

ClaimsScan == ledger["PORTFOLIO_IMPACT"] = "COMPLETED" => impact.scan = "DONE" /\ impact.complete

ClaimsFindings == ledger["REVALIDATION"] = "COMPLETED" => mission.diffs # {}

Claims == ClaimsMismatch /\ ClaimsCause /\ ClaimsScan /\ ClaimsFindings

Closed ==
    stage = "OVER" /\ overall # "RAISED" =>
        Missing(ledger) = {} /\ (ledger["DECISION"] = "COMPLETED" <=> verdict # "NONE")

\* A call is begun after the cancellation by leave of a check before it, or
\* of a check that failed.
Allowance ==
    /\ ~cancelled => late = 0
    /\ late <= blind + (IF stage \in Asking /\ checked THEN 0 ELSE 1)

PipelineIInv ==
    /\ mission \in Missions
    /\ TypeOK
    /\ Undecided
    /\ Path
    /\ Progress
    /\ Claims
    /\ Closed
    /\ Allowance
    /\ PassIsEarned
    /\ BlockIsProven

-----------------------------------------------------------------------------
(* The ledger as a function *)

LEMMA RecordAt ==
    ASSUME NEW l, NEW names, NEW status, NEW s \in LedgerStages
    PROVE  Record(l, names, status)[s] = IF s \in names THEN status ELSE l[s]
  BY DEF Record

LEMMA RecordType ==
    ASSUME NEW l \in [LedgerStages -> Statuses \cup {"MISSING"}], NEW names, NEW status \in Statuses
    PROVE  Record(l, names, status) \in [LedgerStages -> Statuses \cup {"MISSING"}]
  BY DEF Record

LEMMA BackfillAt ==
    ASSUME NEW l, NEW s \in LedgerStages
    PROVE  Backfill(l)[s] = IF l[s] = "MISSING" THEN "NOT_APPLICABLE" ELSE l[s]
  BY DEF Backfill, Record, Missing

LEMMA BackfillType ==
    ASSUME NEW l \in [LedgerStages -> Statuses \cup {"MISSING"}]
    PROVE  Backfill(l) \in [LedgerStages -> Statuses \cup {"MISSING"}]
  BY RecordType DEF Backfill, Statuses

LEMMA NoneMissing ==
    ASSUME NEW l, \A s \in LedgerStages : l[s] # "MISSING"
    PROVE  Missing(l) = {}
  BY DEF Missing

LEMMA Backfilled ==
    ASSUME NEW l
    PROVE  Missing(Backfill(l)) = {}
  BY BackfillAt, NoneMissing

-----------------------------------------------------------------------------
(* Type correctness *)

TypeInv == mission \in Missions /\ TypeOK

LEMMA MissionFlags ==
    ASSUME mission \in Missions
    PROVE  mission.connector \in BOOLEAN /\ mission.flagged \in BOOLEAN /\ mission.runner \in BOOLEAN
  BY PipelineAssumption

LEMMA PrefixType ==
    ASSUME NEW S, NEW s \in Seq(S), NEW n \in Nat
    PROVE  SubSeq(s, 1, IF Len(s) < n THEN Len(s) ELSE n) \in Seq(S)
  <1>1. PICK k \in 0 .. Len(s) : k = IF Len(s) < n THEN Len(s) ELSE n
    BY LenProperties
  <1> QED BY <1>1, SubSeqProperties

LEMMA SeqOfPart ==
    ASSUME NEW S, NEW T, NEW s \in Seq(S \ T)
    PROVE  s \in Seq(S)
  OBVIOUS

\* The ids in an answer are ids that were asked about.
LEMMA ReplyType ==
    ASSUME NEW S, NEW reply \in Replies(S), MaxAnswer \in Nat
    PROVE  reply.ids \in Seq(S)
  <1>1. CASE reply = NoReply
    BY <1>1 DEF NoReply
  <1>2. CASE \E s \in Answers(S) : reply = [given |-> TRUE, ids |-> s]
    <2>1. PICK s \in Answers(S) : reply = [given |-> TRUE, ids |-> s]
      BY <1>2
    <2>2. PICK n \in 0 .. MaxAnswer : s \in [1 .. n -> S]
      BY <2>1 DEF Answers
    <2>3. n \in Nat
      BY <2>2
    <2> QED BY <2>1, <2>2, <2>3
  <1> QED BY <1>1, <1>2 DEF Replies

LEMMA ProbeType ==
    ASSUME NEW id \in mission.pool, NEW p \in Probes(mission, id), ~Raises(mission, id)
    PROVE  p \in ProbeResults(mission) /\ p.id = id
  BY DEF Probes, ConnectorProbes, Probe, ProbeResults, Raises, PackageOutcome

-----------------------------------------------------------------------------
(* The steps, by the part of run_mission they belong to *)

Opening == ValidateRequest \/ DiffSources \/ PrioritizeDifferences \/ AnalyzeImpact

OnCleanPath == BeginClean \/ ProbeClean \/ DecideClean

Probing == PlanTests \/ SelectTests \/ ExecuteProbe \/ EndRound \/ JudgeSufficiency \/
    AccountForTarget

Reconciling == Reconcile \/ JustifyPortfolio \/ AskPortfolio \/ PortfolioWaived

Scanning == ScanPackages \/ ScanConnector

Closing == ExplainFacts \/ DraftExplanation \/ Remediate \/ ProposeAlignment \/
    ProposeRemediation \/ SelectRetests \/ Revalidate

Ending == DecideRelease \/ CheckCancelled \/ CancelMission

LEMMA NextCases ==
    ASSUME Next
    PROVE  Opening \/ OnCleanPath \/ Probing \/ Reconciling \/ Scanning \/ Closing \/ Ending
  BY DEF Next, Step, Opening, OnCleanPath, Probing, Reconciling, Scanning, Closing, Ending

\* The moves every action is made of.
USE DEF At, Go, Enter, Return, Raise, Quiet, evidence, control

-----------------------------------------------------------------------------
(* Type correctness *)

Standing == stage \in Stages /\ checked \in BOOLEAN

Decided ==
    /\ verdict \in Verdicts
    /\ overall \in {"RUNNING", "FAILED", "CANCELLED", "COMPLETED", "RAISED"}

Flags == review \in BOOLEAN /\ cause \in BOOLEAN /\ cancelled \in BOOLEAN

Counts == calls \in 0 .. MaxCalls /\ blind \in 0 .. MaxBlind /\ late \in Nat

Rounds == round \in 0 .. MaxRounds /\ (stage = "SUFFICIENCY" => round < MaxRounds)

Work == /\ mission \in Missions
        /\ todo \in Seq(mission.pool)
        /\ executed \in Seq(ProbeResults(mission))

Scan == impact \in [scan : {"NOT_RUN", "NOT_ATTEMPTED", "DONE"}, complete : BOOLEAN,
                     mismatches : BOOLEAN]

Ledger == ledger \in [LedgerStages -> Statuses \cup {"MISSING"}]

LEMMA TypeParts ==
    TypeInv /\ (stage = "SUFFICIENCY" => round < MaxRounds)
        <=> Standing /\ Decided /\ Flags /\ Counts /\ Rounds /\ Work /\ Scan /\ Ledger
  BY DEF TypeInv, TypeOK, Standing, Decided, Flags, Counts, Rounds, Work, Scan, Ledger

LEMMA ComparedFully ==
    ASSUME NEW id, PackageOutcome(mission, id) \in {"MATCH", "MISMATCH"}
    PROVE  ~Raises(mission, id)
  BY DEF PackageOutcome, Raises

\* A probe leaves a well-typed result and the rest of the round.
LEMMA ProbedType ==
    ASSUME Work, todo # <<>>, NEW p \in Probes(mission, Head(todo)), ~Raises(mission, Head(todo))
    PROVE  /\ Tail(todo) \in Seq(mission.pool)
           /\ Append(executed, p) \in Seq(ProbeResults(mission))
  <1>1. Head(todo) \in mission.pool /\ Tail(todo) \in Seq(mission.pool)
    BY DEF Work
  <1>2. p \in ProbeResults(mission)
    BY <1>1, ProbeType
  <1> QED BY <1>1, <1>2 DEF Work

LEMMA StandingStep ==
    ASSUME Standing, Next
    PROVE  Standing'
  <1> USE DEF Standing, Stages
  <1>1. CASE Opening
    BY <1>1 DEF Opening, ValidateRequest, DiffSources, PrioritizeDifferences, AnalyzeImpact
  <1>2. CASE OnCleanPath
    BY <1>2 DEF OnCleanPath, BeginClean, ProbeClean, DecideClean, Decide
  <1>3. CASE Probing
    BY <1>3 DEF Probing, PlanTests, SelectTests, ExecuteProbe, EndRound, JudgeSufficiency,
        AccountForTarget, BreakRounds
  <1>4. CASE Reconciling
    BY <1>4 DEF Reconciling, Reconcile, JustifyPortfolio, AskPortfolio, PortfolioWaived
  <1>5. CASE Scanning
    BY <1>5 DEF Scanning, ScanPackages, ScanConnector
  <1>6. CASE Closing
    BY <1>6 DEF Closing, ExplainFacts, DraftExplanation, Remediate, ProposeAlignment,
        ProposeRemediation, SelectRetests, Revalidate
  <1>7. CASE Ending
    BY <1>7 DEF Ending, DecideRelease, CheckCancelled, CancelMission, Decide
  <1> QED BY <1>1, <1>2, <1>3, <1>4, <1>5, <1>6, <1>7, NextCases

LEMMA DecidedStep ==
    ASSUME Decided, Next
    PROVE  Decided'
  <1> USE DEF Decided, Verdicts
  <1>1. CASE Opening
    BY <1>1 DEF Opening, ValidateRequest, DiffSources, PrioritizeDifferences, AnalyzeImpact
  <1>2. CASE OnCleanPath
    BY <1>2 DEF OnCleanPath, BeginClean, ProbeClean, DecideClean, Decide, CleanVerdict
  <1>3. CASE Probing
    BY <1>3 DEF Probing, PlanTests, SelectTests, ExecuteProbe, EndRound, JudgeSufficiency,
        AccountForTarget
  <1>4. CASE Reconciling
    BY <1>4 DEF Reconciling, Reconcile, JustifyPortfolio, AskPortfolio, PortfolioWaived
  <1>5. CASE Scanning
    BY <1>5 DEF Scanning, ScanPackages, ScanConnector
  <1>6. CASE Closing
    BY <1>6 DEF Closing, ExplainFacts, DraftExplanation, Remediate, ProposeAlignment,
        ProposeRemediation, SelectRetests, Revalidate
  <1>7. CASE Ending
    BY <1>7 DEF Ending, DecideRelease, CheckCancelled, CancelMission, Decide
  <1> QED BY <1>1, <1>2, <1>3, <1>4, <1>5, <1>6, <1>7, NextCases

LEMMA FlagsStep ==
    ASSUME Flags, mission \in Missions, Next
    PROVE  Flags'
  <1> USE MissionFlags DEF Flags
  <1>1. CASE Opening
    BY <1>1 DEF Opening, ValidateRequest, DiffSources, PrioritizeDifferences, AnalyzeImpact
  <1>2. CASE OnCleanPath
    BY <1>2 DEF OnCleanPath, BeginClean, ProbeClean, DecideClean, Mismatched
  <1>3. CASE Probing
    BY <1>3 DEF Probing, PlanTests, SelectTests, ExecuteProbe, EndRound, JudgeSufficiency,
        AccountForTarget, BreakRounds
  <1>4. CASE Reconciling
    BY <1>4 DEF Reconciling, Reconcile, JustifyPortfolio, AskPortfolio, PortfolioWaived
  <1>5. CASE Scanning
    BY <1>5 DEF Scanning, ScanPackages, ScanConnector
  <1>6. CASE Closing
    BY <1>6 DEF Closing, ExplainFacts, DraftExplanation, Remediate, ProposeAlignment,
        ProposeRemediation, SelectRetests, Revalidate
  <1>7. CASE Ending
    BY <1>7 DEF Ending, DecideRelease, CheckCancelled, CancelMission, Inconclusive
  <1> QED BY <1>1, <1>2, <1>3, <1>4, <1>5, <1>6, <1>7, NextCases

LEMMA CountsStep ==
    ASSUME Counts, Next
    PROVE  Counts'
  <1> USE PipelineAssumption DEF Counts, Ask, CanAsk
  <1>1. CASE Opening
    BY <1>1 DEF Opening, ValidateRequest, DiffSources, PrioritizeDifferences, AnalyzeImpact
  <1>2. CASE OnCleanPath
    BY <1>2 DEF OnCleanPath, BeginClean, ProbeClean, DecideClean
  <1>3. CASE Probing
    BY <1>3 DEF Probing, PlanTests, SelectTests, ExecuteProbe, EndRound, JudgeSufficiency,
        AccountForTarget
  <1>4. CASE Reconciling
    <2>1. CASE AskPortfolio
      BY <2>1 DEF AskPortfolio
    <2>2. CASE Reconcile \/ JustifyPortfolio \/ PortfolioWaived
      BY <2>2 DEF Reconcile, JustifyPortfolio, PortfolioWaived
    <2> QED BY <1>4, <2>1, <2>2 DEF Reconciling
  <1>5. CASE Scanning
    BY <1>5 DEF Scanning, ScanPackages, ScanConnector
  <1>6. CASE Closing
    BY <1>6 DEF Closing, ExplainFacts, DraftExplanation, Remediate, ProposeAlignment,
        ProposeRemediation, SelectRetests, Revalidate
  <1>7. CASE Ending
    BY <1>7 DEF Ending, DecideRelease, CheckCancelled, CancelMission
  <1> QED BY <1>1, <1>2, <1>3, <1>4, <1>5, <1>6, <1>7, NextCases

LEMMA RoundsStep ==
    ASSUME Rounds, Next
    PROVE  Rounds'
  <1> USE PipelineAssumption DEF Rounds, MoreRounds
  <1>1. CASE Opening
    BY <1>1 DEF Opening, ValidateRequest, DiffSources, PrioritizeDifferences, AnalyzeImpact
  <1>2. CASE OnCleanPath
    BY <1>2 DEF OnCleanPath, BeginClean, ProbeClean, DecideClean, Decide
  <1>3. CASE Probing
    BY <1>3 DEF Probing, PlanTests, SelectTests, ExecuteProbe, EndRound, JudgeSufficiency,
        AccountForTarget, BreakRounds
  <1>4. CASE Reconciling
    BY <1>4 DEF Reconciling, Reconcile, JustifyPortfolio, AskPortfolio, PortfolioWaived
  <1>5. CASE Scanning
    BY <1>5 DEF Scanning, ScanPackages, ScanConnector
  <1>6. CASE Closing
    BY <1>6 DEF Closing, ExplainFacts, DraftExplanation, Remediate, ProposeAlignment,
        ProposeRemediation, SelectRetests, Revalidate
  <1>7. CASE Ending
    BY <1>7 DEF Ending, DecideRelease, CheckCancelled, CancelMission, Decide
  <1> QED BY <1>1, <1>2, <1>3, <1>4, <1>5, <1>6, <1>7, NextCases

LEMMA DecisionType ==
    ASSUME NEW l \in [LedgerStages -> Statuses \cup {"MISSING"}], NEW d, Decide(l, d)
    PROVE  ledger' \in [LedgerStages -> Statuses \cup {"MISSING"}]
  <1>1. PICK status \in Statuses :
          ledger' = Record(Record(l, {"DECISION"}, "COMPLETED"), {"EVIDENCE_FINALIZATION"}, status)
    BY DEF Decide, Statuses
  <1>2. Record(l, {"DECISION"}, "COMPLETED") \in [LedgerStages -> Statuses \cup {"MISSING"}]
    BY RecordType DEF Statuses
  <1> QED BY <1>1, <1>2, RecordType

LEMMA LedgerStep ==
    ASSUME Ledger, Next
    PROVE  Ledger'
  <1> USE RecordType, BackfillType DEF Ledger, Statuses
  <1>1. CASE Opening
    BY <1>1 DEF Opening, ValidateRequest, DiffSources, PrioritizeDifferences, AnalyzeImpact
  <1>2. CASE OnCleanPath
    <2>1. CASE BeginClean \/ ProbeClean
      BY <2>1 DEF BeginClean, ProbeClean
    <2>2. CASE DecideClean
      <3>1. PICK l \in {ledger, Record(Record(ledger, {"RECONCILIATION"}, "COMPLETED"),
                                       {"PORTFOLIO_IMPACT"}, "NOT_APPLICABLE")} :
              Decide(Backfill(l), CleanVerdict)
        BY <2>2 DEF DecideClean
      <3>2. l \in [LedgerStages -> Statuses \cup {"MISSING"}]
        OBVIOUS
      <3> QED BY <3>1, <3>2, DecisionType
    <2> QED BY <1>2, <2>1, <2>2 DEF OnCleanPath
  <1>3. CASE Probing
    BY <1>3 DEF Probing, PlanTests, SelectTests, ExecuteProbe, EndRound, JudgeSufficiency,
        AccountForTarget, BreakRounds, TargetStatus
  <1>4. CASE Reconciling
    BY <1>4 DEF Reconciling, Reconcile, JustifyPortfolio, AskPortfolio, PortfolioWaived,
        PortfolioStages
  <1>5. CASE Scanning
    BY <1>5 DEF Scanning, ScanPackages, ScanConnector, PortfolioStages
  <1>6. CASE Closing
    BY <1>6 DEF Closing, ExplainFacts, DraftExplanation, Remediate, ProposeAlignment,
        ProposeRemediation, SelectRetests, Revalidate, NoRemediation
  <1>7. CASE Ending
    BY <1>7, DecisionType DEF Ending, DecideRelease, CheckCancelled, CancelMission
  <1> QED BY <1>1, <1>2, <1>3, <1>4, <1>5, <1>6, <1>7, NextCases

LEMMA ScanStep ==
    ASSUME Scan, Next
    PROVE  Scan'
  <1> USE DEF Scan
  <1>1. CASE Opening
    BY <1>1 DEF Opening, ValidateRequest, DiffSources, PrioritizeDifferences, AnalyzeImpact
  <1>2. CASE OnCleanPath
    BY <1>2 DEF OnCleanPath, BeginClean, ProbeClean, DecideClean, Decide
  <1>3. CASE Probing
    BY <1>3 DEF Probing, PlanTests, SelectTests, ExecuteProbe, EndRound, JudgeSufficiency,
        AccountForTarget, BreakRounds
  <1>4. CASE Reconciling
    BY <1>4 DEF Reconciling, Reconcile, JustifyPortfolio, AskPortfolio, PortfolioWaived
  <1>5. CASE Scanning
    <2>1. CASE ScanPackages
      <3>1. CASE mission.portfolio = "ERROR"
        BY <2>1, <3>1 DEF ScanPackages
      <3>2. CASE mission.portfolio = "EXPOSED"
        <4>1. impact' = [scan |-> "DONE", complete |-> TRUE, mismatches |-> TRUE]
          BY <2>1, <3>2, Zenon DEF ScanPackages
        <4> QED BY <4>1
      <3>3. CASE mission.portfolio \notin {"ERROR", "EXPOSED"}
        <4>1. impact' = [scan |-> "DONE", complete |-> TRUE, mismatches |-> FALSE]
          BY <2>1, <3>3, Zenon DEF ScanPackages
        <4> QED BY <4>1
      <3> QED BY <3>1, <3>2, <3>3
    <2>2. CASE ScanConnector
      <3>1. CASE UNCHANGED impact
        BY <3>1
      <3>2. CASE impact' = [impact EXCEPT !.scan = "NOT_ATTEMPTED"]
        BY <3>2
      <3>3. CASE \E complete, mismatches \in BOOLEAN :
                    impact' = [scan |-> "DONE", complete |-> complete, mismatches |-> mismatches]
        BY <3>3
      <3> QED BY <2>2, <3>1, <3>2, <3>3 DEF ScanConnector
    <2> QED BY <1>5, <2>1, <2>2 DEF Scanning
  <1>6. CASE Closing
    BY <1>6 DEF Closing, ExplainFacts, DraftExplanation, Remediate, ProposeAlignment,
        ProposeRemediation, SelectRetests, Revalidate
  <1>7. CASE Ending
    BY <1>7 DEF Ending, DecideRelease, CheckCancelled, CancelMission, Decide
  <1> QED BY <1>1, <1>2, <1>3, <1>4, <1>5, <1>6, <1>7, NextCases

LEMMA WorkStep ==
    ASSUME Work, Next
    PROVE  Work'
  <1> USE DEF Work
  <1>1. CASE Opening
    BY <1>1 DEF Opening, ValidateRequest, DiffSources, PrioritizeDifferences, AnalyzeImpact
  <1>2. CASE OnCleanPath
    <2>1. CASE BeginClean
      <3>1. todo' \in Seq(mission.pool)
        BY <2>1, PipelineAssumption, PrefixType DEF BeginClean
      <3> QED BY <2>1, <3>1 DEF BeginClean
    <2>2. CASE ProbeClean
      <3>1. CASE PackageOutcome(mission, Head(todo)) \in {"MATCH", "MISMATCH"}
        <4>1. ~Raises(mission, Head(todo))
          BY <3>1, ComparedFully
        <4>2. PICK p \in Probes(mission, Head(todo)) : executed' = Append(executed, p)
          BY <2>2, <3>1 DEF ProbeClean
        <4>3. mission' = mission /\ todo' = Tail(todo) /\ todo # <<>>
          BY <2>2, <3>1 DEF ProbeClean
        <4> QED BY <4>1, <4>2, <4>3, ProbedType
      <3>2. CASE PackageOutcome(mission, Head(todo)) \notin {"MATCH", "MISMATCH"}
        BY <2>2, <3>2 DEF ProbeClean
      <3> QED BY <3>1, <3>2
    <2>3. CASE DecideClean
      BY <2>3 DEF DecideClean
    <2> QED BY <1>2, <2>1, <2>2, <2>3 DEF OnCleanPath
  <1>3. CASE Probing
    <2>1. CASE PlanTests
      BY <2>1, PipelineAssumption DEF PlanTests
    <2>2. CASE SelectTests
      <3>1. PICK reply \in Replies(mission.pool) :
               todo' = IF reply.ids = <<>> THEN mission.plan ELSE reply.ids
        BY <2>2 DEF SelectTests
      <3>2. reply.ids \in Seq(mission.pool)
        BY <3>1, ReplyType, PipelineAssumption
      <3>3. todo' \in Seq(mission.pool)
        BY <3>1, <3>2, PipelineAssumption
      <3> QED BY <2>2, <3>3 DEF SelectTests
    <2>3. CASE ExecuteProbe
      BY <2>3, ProbedType DEF ExecuteProbe
    <2>4. CASE EndRound
      BY <2>4 DEF EndRound
    <2>5. CASE JudgeSufficiency
      <3>1. CASE Remaining = {}
        BY <2>5, <3>1 DEF JudgeSufficiency, BreakRounds
      <3>2. CASE Remaining # {}
        <4>1. PICK reply \in Replies(Remaining) :
                 todo' = SubSeq(reply.ids, 1, IF Len(reply.ids) < MaxExtra
                                              THEN Len(reply.ids) ELSE MaxExtra)
          BY <2>5, <3>2 DEF JudgeSufficiency
        <4>2. todo' \in Seq(Remaining)
          BY <4>1, ReplyType, PrefixType, PipelineAssumption
        <4>3. todo' \in Seq(mission.pool)
          BY <4>2, SeqOfPart DEF Remaining
        <4> QED BY <2>5, <4>3 DEF JudgeSufficiency
      <3> QED BY <3>1, <3>2
    <2>6. CASE AccountForTarget
      BY <2>6 DEF AccountForTarget
    <2> QED BY <1>3, <2>1, <2>2, <2>3, <2>4, <2>5, <2>6 DEF Probing
  <1>4. CASE Reconciling
    BY <1>4 DEF Reconciling, Reconcile, JustifyPortfolio, AskPortfolio, PortfolioWaived, Ask
  <1>5. CASE Scanning
    BY <1>5 DEF Scanning, ScanPackages, ScanConnector
  <1>6. CASE Closing
    BY <1>6 DEF Closing, ExplainFacts, DraftExplanation, Remediate, ProposeAlignment,
        ProposeRemediation, SelectRetests, Revalidate, Ask
  <1>7. CASE Ending
    BY <1>7 DEF Ending, DecideRelease, CheckCancelled, CancelMission, Decide
  <1> QED BY <1>1, <1>2, <1>3, <1>4, <1>5, <1>6, <1>7, NextCases

-----------------------------------------------------------------------------
(* How far the mission has come *)

LEMMA LedgerNames ==
    /\ {"REQUEST_VALIDATION", "SOURCE_A_LOAD", "SOURCE_B_LOAD_OR_CONNECTOR_CHECK",
         "COMPATIBILITY_GATE", "SEMANTIC_DIFF", "DEPENDENCY_IMPACT", "TEST_CANDIDATE_GENERATION",
         "TEST_SELECTION", "ORACLE_EXECUTION", "TARGET_EXECUTION", "RECONCILIATION",
         "PORTFOLIO_IMPACT", "PIPELINE_IMPACT", "COHORT_DISTRIBUTION", "EXPLANATION_FACTS",
         "EXPLANATION_DRAFT", "REMEDIATION", "REVALIDATION", "DECISION",
         "EVIDENCE_FINALIZATION"} = LedgerStages
  BY DEF LedgerStages

LEMMA RecordGrows ==
    ASSUME NEW l, NEW names, NEW status \in Statuses, NEW s \in LedgerStages, l[s] # "MISSING"
    PROVE  Record(l, names, status)[s] # "MISSING"
  BY RecordAt DEF Statuses

LEMMA BackfillGrows ==
    ASSUME NEW l, NEW s \in LedgerStages
    PROVE  Backfill(l)[s] # "MISSING"
  BY BackfillAt

LEMMA LedgerGrows ==
    ASSUME Next, NEW s \in LedgerStages, ledger[s] # "MISSING"
    PROVE  ledger'[s] # "MISSING"
  <1> USE RecordGrows, BackfillGrows DEF Statuses
  <1>1. CASE Opening
    BY <1>1 DEF Opening, ValidateRequest, DiffSources, PrioritizeDifferences, AnalyzeImpact
  <1>2. CASE OnCleanPath
    BY <1>2 DEF OnCleanPath, BeginClean, ProbeClean, DecideClean, Decide
  <1>3. CASE Probing
    BY <1>3 DEF Probing, PlanTests, SelectTests, ExecuteProbe, EndRound, JudgeSufficiency,
        AccountForTarget, BreakRounds, TargetStatus
  <1>4. CASE Reconciling
    BY <1>4 DEF Reconciling, Reconcile, JustifyPortfolio, AskPortfolio, PortfolioWaived,
        PortfolioStages
  <1>5. CASE Scanning
    BY <1>5 DEF Scanning, ScanPackages, ScanConnector, PortfolioStages
  <1>6. CASE Closing
    BY <1>6 DEF Closing, ExplainFacts, DraftExplanation, Remediate, ProposeAlignment,
        ProposeRemediation, SelectRetests, Revalidate, NoRemediation
  <1>7. CASE Ending
    BY <1>7 DEF Ending, DecideRelease, CheckCancelled, CancelMission, Decide
  <1> QED BY <1>1, <1>2, <1>3, <1>4, <1>5, <1>6, <1>7, NextCases

LEMMA ProgressStep ==
    ASSUME Progress, Standing, Next
    PROVE  Progress'
  <1> USE RecordAt, LedgerGrows, LedgerNames DEF Progress, Recorded, Stages, Deciding,
      Remediating, Scanned, Reconciled, Accounted, Selected, Planned, Analyzed, Compared,
      Validated
  <1>1. CASE Opening
    BY <1>1 DEF Opening, ValidateRequest, DiffSources, PrioritizeDifferences, AnalyzeImpact
  <1>2. CASE OnCleanPath
    BY <1>2 DEF OnCleanPath, BeginClean, ProbeClean, DecideClean, Decide
  <1>3. CASE Probing
    BY <1>3 DEF Probing, PlanTests, SelectTests, ExecuteProbe, EndRound, JudgeSufficiency,
        AccountForTarget, BreakRounds, TargetStatus
  <1>4. CASE Reconciling
    BY <1>4 DEF Reconciling, Reconcile, JustifyPortfolio, AskPortfolio, PortfolioWaived,
        PortfolioStages
  <1>5. CASE Scanning
    BY <1>5 DEF Scanning, ScanPackages, ScanConnector, PortfolioStages
  <1>6. CASE Closing
    <2>1. CASE ExplainFacts
      BY <2>1 DEF ExplainFacts
    <2>2. CASE DraftExplanation
      BY <2>2 DEF DraftExplanation
    <2>3. CASE Remediate \/ ProposeAlignment
      BY <2>3 DEF Remediate, ProposeAlignment, NoRemediation
    <2>4. CASE ProposeRemediation \/ SelectRetests
      BY <2>4 DEF ProposeRemediation, SelectRetests
    <2>5. CASE Revalidate
      BY <2>5 DEF Revalidate
    <2> QED BY <1>6, <2>1, <2>2, <2>3, <2>4, <2>5 DEF Closing
  <1>7. CASE Ending
    BY <1>7 DEF Ending, DecideRelease, CheckCancelled, CancelMission, Decide
  <1> QED BY <1>1, <1>2, <1>3, <1>4, <1>5, <1>6, <1>7, NextCases

LEMMA UndecidedStep ==
    ASSUME Undecided, Next
    PROVE  Undecided'
  <1> USE RecordAt, LedgerNames DEF Undecided
  <1>1. CASE Opening
    BY <1>1 DEF Opening, ValidateRequest, DiffSources, PrioritizeDifferences, AnalyzeImpact
  <1>2. CASE OnCleanPath
    BY <1>2 DEF OnCleanPath, BeginClean, ProbeClean, DecideClean, Decide
  <1>3. CASE Probing
    BY <1>3 DEF Probing, PlanTests, SelectTests, ExecuteProbe, EndRound, JudgeSufficiency,
        AccountForTarget, BreakRounds, TargetStatus
  <1>4. CASE Reconciling
    BY <1>4 DEF Reconciling, Reconcile, JustifyPortfolio, AskPortfolio, PortfolioWaived,
        PortfolioStages
  <1>5. CASE Scanning
    BY <1>5 DEF Scanning, ScanPackages, ScanConnector, PortfolioStages
  <1>6. CASE Closing
    BY <1>6 DEF Closing, ExplainFacts, DraftExplanation, Remediate, ProposeAlignment,
        ProposeRemediation, SelectRetests, Revalidate, NoRemediation
  <1>7. CASE Ending
    BY <1>7 DEF Ending, DecideRelease, CheckCancelled, CancelMission, Decide
  <1> QED BY <1>1, <1>2, <1>3, <1>4, <1>5, <1>6, <1>7, NextCases

LEMMA AllowanceStep ==
    ASSUME Allowance, Counts, Next
    PROVE  Allowance'
  <1> USE DEF Allowance, Asking, Counts, Ask
  <1>1. CASE Opening
    BY <1>1 DEF Opening, ValidateRequest, DiffSources, PrioritizeDifferences, AnalyzeImpact
  <1>2. CASE OnCleanPath
    BY <1>2 DEF OnCleanPath, BeginClean, ProbeClean, DecideClean, Decide
  <1>3. CASE Probing
    BY <1>3 DEF Probing, PlanTests, SelectTests, ExecuteProbe, EndRound, JudgeSufficiency,
        AccountForTarget, BreakRounds, TargetStatus
  <1>4. CASE Reconciling
    BY <1>4 DEF Reconciling, Reconcile, JustifyPortfolio, AskPortfolio, PortfolioWaived,
        PortfolioStages
  <1>5. CASE Scanning
    BY <1>5 DEF Scanning, ScanPackages, ScanConnector, PortfolioStages
  <1>6. CASE Closing
    BY <1>6 DEF Closing, ExplainFacts, DraftExplanation, Remediate, ProposeAlignment,
        ProposeRemediation, SelectRetests, Revalidate, NoRemediation
  <1>7. CASE Ending
    BY <1>7 DEF Ending, DecideRelease, CheckCancelled, CancelMission, Decide
  <1> QED BY <1>1, <1>2, <1>3, <1>4, <1>5, <1>6, <1>7, NextCases

-----------------------------------------------------------------------------
(* What the ledger claims and what is decided *)

\* The decision changes nothing of what the ledger already says, and closes it
\* when all the other stages have been recorded.
LEMMA DecisionRecorded ==
    ASSUME NEW l, NEW d, Decide(l, d)
    PROVE  /\ stage' = "OVER" /\ checked' = TRUE /\ overall' = "COMPLETED" /\ verdict' = d
           /\ Missing(l) \subseteq {"DECISION", "EVIDENCE_FINALIZATION"} => Missing(ledger') = {}
           /\ ledger'["DECISION"] = "COMPLETED"
  <1> USE RecordAt, LedgerNames DEF Decide
  <1>1. \A s \in LedgerStages : s \notin {"DECISION", "EVIDENCE_FINALIZATION"} => ledger'[s] = l[s]
    OBVIOUS
  <1>2. ledger'["DECISION"] = "COMPLETED" /\ ledger'["EVIDENCE_FINALIZATION"] # "MISSING"
    OBVIOUS
  <1>3. ASSUME Missing(l) \subseteq {"DECISION", "EVIDENCE_FINALIZATION"}
        PROVE  Missing(ledger') = {}
    BY <1>1, <1>2, <1>3, NoneMissing DEF Missing
  <1> QED BY <1>2, <1>3 DEF Return, Go

\* No stage is left out when the release decision is taken.
LEMMA AllAccounted ==
    ASSUME Progress, stage = "DECIDE"
    PROVE  Missing(ledger) \subseteq {"DECISION", "EVIDENCE_FINALIZATION"}
  <1>1. \A s \in LedgerStages \ {"DECISION", "EVIDENCE_FINALIZATION"} : ledger[s] # "MISSING"
    BY LedgerNames DEF Progress, Recorded, Validated, Compared, Analyzed, Planned, Selected,
              Accounted, Reconciled, Scanned, Remediating, Deciding
  <1> QED BY <1>1 DEF Missing

LEMMA PathStep ==
    ASSUME Path, Work, Rounds, Flags, Scan, Next
    PROVE  Path'
  <1> USE PipelineAssumption, MissionFlags DEF Path, Work, Rounds, MoreRounds, Flags, Scanned,
      Remediating, Deciding, Validated, Compared, Analyzed, Planned, Selected, Accounted,
      Reconciled
  <1>1. CASE Opening
    BY <1>1 DEF Opening, ValidateRequest, DiffSources, PrioritizeDifferences, AnalyzeImpact,
        Outcomes
  <1>2. CASE OnCleanPath
    <2>1. CASE BeginClean
      BY <2>1 DEF BeginClean, Outcomes
    <2>2. CASE ProbeClean
      <3>1. CASE PackageOutcome(mission, Head(todo)) \in {"MATCH", "MISMATCH"}
        <4>1. ~mission.connector /\ mission.diffs = {} /\ Outcomes("INCONCLUSIVE") = {}
          BY <2>2 DEF ProbeClean
        <4>2. PICK p \in Probes(mission, Head(todo)) : executed' = Append(executed, p)
          BY <2>2, <3>1 DEF ProbeClean
        <4>3. p.outcome # "INCONCLUSIVE"
          BY <3>1, <4>1, <4>2 DEF Probes, Probe
        <4>4. executed \in Seq(ProbeResults(mission))
          OBVIOUS
        <4>5. Outcomes("INCONCLUSIVE")' = {}
          BY <4>1, <4>2, <4>3, <4>4, AppendProperties DEF Outcomes
        <4> QED BY <2>2, <3>1, <4>1, <4>5 DEF ProbeClean
      <3>2. CASE PackageOutcome(mission, Head(todo)) \notin {"MATCH", "MISMATCH"}
        BY <2>2, <3>2 DEF ProbeClean, Outcomes
      <3> QED BY <3>1, <3>2
    <2>3. CASE DecideClean
      BY <2>3 DEF DecideClean, Decide
    <2> QED BY <1>2, <2>1, <2>2, <2>3 DEF OnCleanPath
  <1>3. CASE Probing
    BY <1>3 DEF Probing, PlanTests, SelectTests, ExecuteProbe, EndRound, JudgeSufficiency,
        AccountForTarget, BreakRounds, TargetStatus
  <1>4. CASE Reconciling
    BY <1>4 DEF Reconciling, Reconcile, JustifyPortfolio, AskPortfolio, PortfolioWaived,
        PortfolioStages
  <1>5. CASE Scanning
    <2>1. CASE ScanPackages
      BY <2>1 DEF ScanPackages
    <2>2. CASE ScanConnector
      <3>1. CASE stage' = "OVER"
        BY <2>2, <3>1 DEF ScanConnector
      <3>2. CASE stage' = "EXPLAIN" /\ mission.runner
        <4>1. CASE impact' = [impact EXCEPT !.scan = "NOT_ATTEMPTED"]
          BY <2>2, <3>2, <4>1 DEF ScanConnector, Scan
        <4>2. CASE \E complete, mismatches \in BOOLEAN :
                      impact' = [scan |-> "DONE", complete |-> complete, mismatches |-> mismatches]
          BY <2>2, <3>2, <4>2 DEF ScanConnector
        <4> QED BY <2>2, <3>2, <4>1, <4>2 DEF ScanConnector
      <3>3. CASE stage' = "EXPLAIN" /\ ~mission.runner
        BY <2>2, <3>3 DEF ScanConnector
      <3> QED BY <2>2, <3>1, <3>2, <3>3 DEF ScanConnector
    <2> QED BY <1>5, <2>1, <2>2 DEF Scanning
  <1>6. CASE Closing
    BY <1>6 DEF Closing, ExplainFacts, DraftExplanation, Remediate, ProposeAlignment,
        ProposeRemediation, SelectRetests, Revalidate, NoRemediation, Outcomes
  <1>7. CASE Ending
    BY <1>7 DEF Ending, DecideRelease, CheckCancelled, CancelMission, Outcomes, Decide
  <1> QED BY <1>1, <1>2, <1>3, <1>4, <1>5, <1>6, <1>7, NextCases

LEMMA ClosedStep ==
    ASSUME Closed, Undecided, Progress, Next
    PROVE  Closed'
  <1> USE DEF Closed, Undecided, Verdicts
  <1>1. CASE Opening
    BY <1>1, Backfilled, BackfillAt, RecordAt, LedgerNames DEF Opening, ValidateRequest,
        DiffSources, PrioritizeDifferences, AnalyzeImpact
  <1>2. CASE OnCleanPath
    <2>1. CASE BeginClean \/ ProbeClean
      BY <2>1 DEF BeginClean, ProbeClean
    <2>2. CASE DecideClean
      <3>1. PICK l : Decide(Backfill(l), CleanVerdict)
        BY <2>2 DEF DecideClean
      <3>2. CleanVerdict # "NONE"
        BY DEF CleanVerdict
      <3> QED BY <3>1, <3>2, DecisionRecorded, Backfilled
    <2> QED BY <1>2, <2>1, <2>2 DEF OnCleanPath
  <1>3. CASE Probing
    BY <1>3 DEF Probing, PlanTests, SelectTests, ExecuteProbe, EndRound, JudgeSufficiency,
        AccountForTarget, BreakRounds, TargetStatus
  <1>4. CASE Reconciling
    BY <1>4 DEF Reconciling, Reconcile, JustifyPortfolio, AskPortfolio, PortfolioWaived,
        PortfolioStages
  <1>5. CASE Scanning
    BY <1>5, Backfilled, BackfillAt, LedgerNames DEF Scanning, ScanPackages, ScanConnector,
        PortfolioStages
  <1>6. CASE Closing
    BY <1>6 DEF Closing, ExplainFacts, DraftExplanation, Remediate, ProposeAlignment,
        ProposeRemediation, SelectRetests, Revalidate, NoRemediation
  <1>7. CASE Ending
    <2>1. CASE DecideRelease
      <3>1. PICK d \in {"BLOCK_DEPLOYMENT", "REVIEW_REQUIRED", "PASS"} : Decide(ledger, d)
        BY <2>1 DEF DecideRelease
      <3>2. Missing(ledger) \subseteq {"DECISION", "EVIDENCE_FINALIZATION"}
        BY <2>1, AllAccounted DEF DecideRelease
      <3> QED BY <3>1, <3>2, DecisionRecorded
    <2>2. CASE CheckCancelled
      BY <2>2, Backfilled, BackfillAt, LedgerNames DEF CheckCancelled
    <2>3. CASE CancelMission
      BY <2>3 DEF CancelMission, vars
    <2> QED BY <1>7, <2>1, <2>2, <2>3 DEF Ending
  <1> QED BY <1>1, <1>2, <1>3, <1>4, <1>5, <1>6, <1>7, NextCases

\* A probe that was made is not taken back.
LEMMA MismatchStays ==
    ASSUME Work, Mismatched, Next
    PROVE  Mismatched'
  <1> USE DEF Mismatched, Outcomes
  <1>1. CASE Opening
    BY <1>1 DEF Opening, ValidateRequest, DiffSources, PrioritizeDifferences, AnalyzeImpact
  <1>2. CASE OnCleanPath
    BY <1>2, AppendProperties DEF OnCleanPath, BeginClean, ProbeClean, DecideClean, Work
  <1>3. CASE Probing
    BY <1>3, AppendProperties DEF Probing, PlanTests, SelectTests, ExecuteProbe, EndRound,
        JudgeSufficiency, AccountForTarget, BreakRounds, Work
  <1>4. CASE Reconciling
    BY <1>4 DEF Reconciling, Reconcile, JustifyPortfolio, AskPortfolio, PortfolioWaived
  <1>5. CASE Scanning
    BY <1>5 DEF Scanning, ScanPackages, ScanConnector
  <1>6. CASE Closing
    BY <1>6 DEF Closing, ExplainFacts, DraftExplanation, Remediate, ProposeAlignment,
        ProposeRemediation, SelectRetests, Revalidate
  <1>7. CASE Ending
    BY <1>7 DEF Ending, DecideRelease, CheckCancelled, CancelMission, Decide
  <1> QED BY <1>1, <1>2, <1>3, <1>4, <1>5, <1>6, <1>7, NextCases

LEMMA ClaimsMismatchStep ==
    ASSUME ClaimsMismatch, Work, Next
    PROVE  ClaimsMismatch'
  <1> USE RecordAt, BackfillAt, LedgerNames, MismatchStays DEF ClaimsMismatch
  <1>1. CASE Opening
    BY <1>1 DEF Opening, ValidateRequest, DiffSources, PrioritizeDifferences, AnalyzeImpact
  <1>2. CASE OnCleanPath
    BY <1>2 DEF OnCleanPath, BeginClean, ProbeClean, DecideClean, Decide
  <1>3. CASE Probing
    BY <1>3 DEF Probing, PlanTests, SelectTests, ExecuteProbe, EndRound, JudgeSufficiency,
        AccountForTarget, BreakRounds, TargetStatus
  <1>4. CASE Reconciling
    BY <1>4 DEF Reconciling, Reconcile, JustifyPortfolio, AskPortfolio, PortfolioWaived,
        PortfolioStages
  <1>5. CASE Scanning
    BY <1>5 DEF Scanning, ScanPackages, ScanConnector, PortfolioStages
  <1>6. CASE Closing
    BY <1>6 DEF Closing, ExplainFacts, DraftExplanation, Remediate, ProposeAlignment,
        ProposeRemediation, SelectRetests, Revalidate, NoRemediation
  <1>7. CASE Ending
    BY <1>7 DEF Ending, DecideRelease, CheckCancelled, CancelMission, Decide
  <1> QED BY <1>1, <1>2, <1>3, <1>4, <1>5, <1>6, <1>7, NextCases

LEMMA ClaimsCauseStep ==
    ASSUME ClaimsCause, Next
    PROVE  ClaimsCause'
  <1> USE RecordAt, BackfillAt, LedgerNames DEF ClaimsCause, Reconciled, Scanned, Remediating,
      Deciding
  <1>1. CASE Opening
    BY <1>1 DEF Opening, ValidateRequest, DiffSources, PrioritizeDifferences, AnalyzeImpact
  <1>2. CASE OnCleanPath
    BY <1>2 DEF OnCleanPath, BeginClean, ProbeClean, DecideClean, Decide
  <1>3. CASE Probing
    BY <1>3 DEF Probing, PlanTests, SelectTests, ExecuteProbe, EndRound, JudgeSufficiency,
        AccountForTarget, BreakRounds, TargetStatus
  <1>4. CASE Reconciling
    BY <1>4 DEF Reconciling, Reconcile, JustifyPortfolio, AskPortfolio, PortfolioWaived,
        PortfolioStages
  <1>5. CASE Scanning
    BY <1>5 DEF Scanning, ScanPackages, ScanConnector, PortfolioStages
  <1>6. CASE Closing
    BY <1>6 DEF Closing, ExplainFacts, DraftExplanation, Remediate, ProposeAlignment,
        ProposeRemediation, SelectRetests, Revalidate, NoRemediation, Explainable
  <1>7. CASE Ending
    BY <1>7 DEF Ending, DecideRelease, CheckCancelled, CancelMission, Decide
  <1> QED BY <1>1, <1>2, <1>3, <1>4, <1>5, <1>6, <1>7, NextCases

LEMMA ClaimsScanStep ==
    ASSUME ClaimsScan, Next
    PROVE  ClaimsScan'
  <1> USE RecordAt, BackfillAt, LedgerNames DEF ClaimsScan
  <1>1. CASE Opening
    BY <1>1 DEF Opening, ValidateRequest, DiffSources, PrioritizeDifferences, AnalyzeImpact
  <1>2. CASE OnCleanPath
    BY <1>2 DEF OnCleanPath, BeginClean, ProbeClean, DecideClean, Decide
  <1>3. CASE Probing
    BY <1>3 DEF Probing, PlanTests, SelectTests, ExecuteProbe, EndRound, JudgeSufficiency,
        AccountForTarget, BreakRounds, TargetStatus
  <1>4. CASE Reconciling
    BY <1>4 DEF Reconciling, Reconcile, JustifyPortfolio, AskPortfolio, PortfolioWaived,
        PortfolioStages
  <1>5. CASE Scanning
    BY <1>5 DEF Scanning, ScanPackages, ScanConnector, PortfolioStages
  <1>6. CASE Closing
    BY <1>6 DEF Closing, ExplainFacts, DraftExplanation, Remediate, ProposeAlignment,
        ProposeRemediation, SelectRetests, Revalidate, NoRemediation
  <1>7. CASE Ending
    BY <1>7 DEF Ending, DecideRelease, CheckCancelled, CancelMission, Decide
  <1> QED BY <1>1, <1>2, <1>3, <1>4, <1>5, <1>6, <1>7, NextCases

LEMMA ClaimsFindingsStep ==
    ASSUME ClaimsFindings, Path, Next
    PROVE  ClaimsFindings'
  <1> USE RecordAt, BackfillAt, LedgerNames DEF ClaimsFindings
  <1>1. CASE Opening
    BY <1>1 DEF Opening, ValidateRequest, DiffSources, PrioritizeDifferences, AnalyzeImpact
  <1>2. CASE OnCleanPath
    BY <1>2 DEF OnCleanPath, BeginClean, ProbeClean, DecideClean, Decide
  <1>3. CASE Probing
    BY <1>3 DEF Probing, PlanTests, SelectTests, ExecuteProbe, EndRound, JudgeSufficiency,
        AccountForTarget, BreakRounds, TargetStatus
  <1>4. CASE Reconciling
    BY <1>4 DEF Reconciling, Reconcile, JustifyPortfolio, AskPortfolio, PortfolioWaived,
        PortfolioStages
  <1>5. CASE Scanning
    BY <1>5 DEF Scanning, ScanPackages, ScanConnector, PortfolioStages
  <1>6. CASE Closing
    BY <1>6 DEF Closing, ExplainFacts, DraftExplanation, Remediate, ProposeAlignment,
        ProposeRemediation, SelectRetests, Revalidate, Path, NoRemediation
  <1>7. CASE Ending
    BY <1>7 DEF Ending, DecideRelease, CheckCancelled, CancelMission, Decide
  <1> QED BY <1>1, <1>2, <1>3, <1>4, <1>5, <1>6, <1>7, NextCases

-----------------------------------------------------------------------------
(* The decisions *)

\* Only two steps decide, and nothing follows a decision.
LEMMA DecidedBy ==
    ASSUME Undecided, Next
    PROVE  stage # "OVER" /\ (verdict' = "NONE" \/ DecideClean \/ DecideRelease)
  <1> USE DEF Undecided
  <1>1. CASE Opening
    BY <1>1 DEF Opening, ValidateRequest, DiffSources, PrioritizeDifferences, AnalyzeImpact
  <1>2. CASE OnCleanPath
    BY <1>2 DEF OnCleanPath, BeginClean, ProbeClean, DecideClean, Decide
  <1>3. CASE Probing
    BY <1>3 DEF Probing, PlanTests, SelectTests, ExecuteProbe, EndRound, JudgeSufficiency,
        AccountForTarget, BreakRounds, TargetStatus
  <1>4. CASE Reconciling
    BY <1>4 DEF Reconciling, Reconcile, JustifyPortfolio, AskPortfolio, PortfolioWaived,
        PortfolioStages
  <1>5. CASE Scanning
    BY <1>5 DEF Scanning, ScanPackages, ScanConnector, PortfolioStages
  <1>6. CASE Closing
    BY <1>6 DEF Closing, ExplainFacts, DraftExplanation, Remediate, ProposeAlignment,
        ProposeRemediation, SelectRetests, Revalidate, NoRemediation
  <1>7. CASE Ending
    BY <1>7 DEF Ending, DecideRelease, CheckCancelled, CancelMission, Decide
  <1> QED BY <1>1, <1>2, <1>3, <1>4, <1>5, <1>6, <1>7, NextCases

LEMMA AllMatch ==
    ASSUME Work, Outcomes("MISMATCH") = {}, Outcomes("INCONCLUSIVE") = {}
    PROVE  NotMatching = {}
  <1>1. ASSUME NEW i \in DOMAIN executed
        PROVE  executed[i].outcome \in {"MATCH", "MISMATCH", "INCONCLUSIVE"}
    <2>1. executed[i] \in ProbeResults(mission)
      BY DEF Work
    <2> QED BY <2>1 DEF ProbeResults
  <1> QED BY <1>1 DEF Outcomes, NotMatching

\* A release is let through after both kinds of decision for the same reasons.
LEMMA PassStep ==
    ASSUME Undecided, Path, Work, Scan, Next
    PROVE  PassIsEarned'
  <1>1. CASE verdict' = "NONE"
    BY <1>1 DEF PassIsEarned
  <1>2. CASE DecideClean
    <2>1. verdict' = CleanVerdict /\ UNCHANGED <<mission, executed, impact>>
      BY <1>2 DEF DecideClean, Decide
    <2>2. ASSUME CleanVerdict = "PASS"
          PROVE  ~review /\ Outcomes("MISMATCH") = {}
      BY <2>2 DEF CleanVerdict, Mismatched
    <2>3. /\ mission.flagged => review
          /\ ~mission.connector /\ mission.diffs = {} /\ Outcomes("INCONCLUSIVE") = {}
      BY <1>2 DEF DecideClean, Path, Validated
    <2> QED BY <2>1, <2>2, <2>3, AllMatch DEF PassIsEarned, NotMatching
  <1>3. CASE DecideRelease
    <2>1. UNCHANGED <<mission, executed, impact>>
      BY <1>3 DEF DecideRelease, Decide
    <2>2. ASSUME verdict' = "PASS"
          PROVE  ~Blocking /\ ~review /\ ~Inconclusive
      BY <1>3, <2>2 DEF DecideRelease, Decide
    <2>3. /\ mission.flagged => review
          /\ mission.connector /\ mission.runner => impact.scan # "NOT_RUN"
      BY <1>3 DEF DecideRelease, Path, Validated, Compared, Analyzed, Planned, Selected, Accounted,
                  Reconciled, Scanned, Remediating, Deciding
    <2>4. ASSUME ~Inconclusive
          PROVE  /\ Outcomes("INCONCLUSIVE") = {} /\ (mission.connector => executed # <<>>)
                 /\ impact.scan # "NOT_ATTEMPTED"
                 /\ impact.scan = "DONE" => impact.complete \/ impact.mismatches
      BY <2>4 DEF Inconclusive
    <2>5. ASSUME ~Blocking
          PROVE  Outcomes("MISMATCH") = {} /\ mission.diffs = {} /\ ~impact.mismatches
      BY <2>5 DEF Blocking, Mismatched
    <2>6. impact.scan \in {"NOT_RUN", "NOT_ATTEMPTED", "DONE"}
      BY DEF Scan
    <2> QED BY <2>1, <2>2, <2>3, <2>4, <2>5, <2>6, AllMatch DEF PassIsEarned, NotMatching
  <1> QED BY <1>1, <1>2, <1>3, DecidedBy

LEMMA BlockStep ==
    ASSUME Undecided, Progress, Next
    PROVE  BlockIsProven'
  <1>1. CASE verdict' = "NONE"
    BY <1>1 DEF BlockIsProven
  <1>2. CASE DecideClean
    <2>1. verdict' = CleanVerdict /\ UNCHANGED executed
      BY <1>2 DEF DecideClean, Decide
    <2>2. CleanVerdict = "BLOCK_DEPLOYMENT" => Mismatched
      BY DEF CleanVerdict
    <2> QED BY <2>1, <2>2 DEF BlockIsProven, Mismatched, Outcomes
  <1>3. CASE DecideRelease
    <2>1. UNCHANGED <<mission, executed, impact>> /\ (verdict' = "BLOCK_DEPLOYMENT" => Blocking)
      BY <1>3 DEF DecideRelease, Decide
    <2>2. Missing(ledger) \ {"DECISION", "EVIDENCE_FINALIZATION"} = {}
      BY <1>3, AllAccounted DEF DecideRelease
    <2> QED BY <2>1, <2>2 DEF BlockIsProven, Blocking, Mismatched, Outcomes
  <1> QED BY <1>1, <1>2, <1>3, DecidedBy

-----------------------------------------------------------------------------
(* The invariant and what follows from it *)

LEMMA Initially == Init => PipelineIInv
  <1> SUFFICES ASSUME Init
               PROVE  PipelineIInv
    OBVIOUS
  <1> USE DEF Init
  <1>1. TypeInv
    <2>1. Standing /\ Decided /\ Flags /\ Scan
      BY DEF Standing, Stages, Decided, Verdicts, Flags, Scan
    <2>2. Ledger
      BY DEF Ledger
    <2>3. Counts /\ Rounds /\ Work
      BY PipelineAssumption DEF Counts, Rounds, Work
    <2> QED BY <2>1, <2>2, <2>3, TypeParts
  <1>2. Undecided /\ Closed /\ Allowance /\ PassIsEarned /\ BlockIsProven
    BY LedgerNames DEF Undecided, Closed, Allowance, Asking, PassIsEarned, BlockIsProven
  <1>3. Path /\ Progress
    BY DEF Path, Progress, Validated, Compared, Analyzed, Planned, Selected, Accounted, Reconciled,
           Scanned, Remediating, Deciding
  <1>4. Claims
    BY LedgerNames DEF Claims, ClaimsMismatch, ClaimsCause, ClaimsScan, ClaimsFindings
  <1> QED BY <1>1, <1>2, <1>3, <1>4 DEF PipelineIInv, TypeInv

LEMMA Inductive == PipelineIInv /\ [Next]_vars => PipelineIInv'
  <1> SUFFICES ASSUME PipelineIInv, [Next]_vars
               PROVE  PipelineIInv'
    OBVIOUS
  <1>0. TypeInv /\ Standing /\ Decided /\ Flags /\ Counts /\ Rounds /\ Work /\ Scan /\ Ledger
    BY TypeParts DEF PipelineIInv, TypeInv, Path
  <1>1. CASE Next
    <2>1. TypeInv'
      <3>1. Standing' /\ Decided' /\ Flags' /\ Counts' /\ Rounds' /\ Work' /\ Scan' /\ Ledger'
        BY <1>0, <1>1, StandingStep, DecidedStep, FlagsStep, CountsStep, RoundsStep, WorkStep,
           ScanStep, LedgerStep DEF PipelineIInv
      <3> QED BY <3>1 DEF TypeInv, TypeOK, Standing, Decided, Flags, Counts, Rounds, Work, Scan, Ledger
    <2>2. Undecided' /\ Path' /\ Progress' /\ Closed' /\ Allowance'
      BY <1>0, <1>1, UndecidedStep, PathStep, ProgressStep, ClosedStep, AllowanceStep DEF PipelineIInv
    <2>3. Claims'
      BY <1>0, <1>1, ClaimsMismatchStep, ClaimsCauseStep, ClaimsScanStep, ClaimsFindingsStep
         DEF PipelineIInv, Claims
    <2>4. PassIsEarned' /\ BlockIsProven'
      BY <1>0, <1>1, PassStep, BlockStep DEF PipelineIInv
    <2> QED BY <2>1, <2>2, <2>3, <2>4 DEF PipelineIInv, TypeInv
  <1>2. CASE UNCHANGED vars
    <2> USE <1>2 DEF vars
    <2>1. TypeInv'
      BY <1>0 DEF TypeInv, TypeOK
    <2>2. Undecided' /\ Closed' /\ Allowance' /\ Claims'
      BY DEF PipelineIInv, Undecided, Closed, Allowance, Claims, ClaimsMismatch, ClaimsCause,
             ClaimsScan, ClaimsFindings, Mismatched, Outcomes
    <2>3. Path' /\ Progress'
      BY DEF PipelineIInv, Path, Progress, Recorded, Outcomes
    <2>4. PassIsEarned' /\ BlockIsProven'
      BY DEF PipelineIInv, PassIsEarned, BlockIsProven, Mismatched, NotMatching, Outcomes
    <2> QED BY <2>1, <2>2, <2>3, <2>4 DEF PipelineIInv, TypeInv
  <1> QED BY <1>1, <1>2

\* The strengthening by which everything else is proved: what a mission has
\* done and recorded by each stage of the pipeline.
THEOREM PipelineInvariant == Spec => []PipelineIInv
  BY Initially, Inductive, PTL DEF Spec

\* Type correctness: in particular no mission goes over its budget of calls,
\* rounds and additional probes' slots.
THEOREM PipelineTypes == Spec => []TypeOK
  <1>1. PipelineIInv => TypeOK
    BY DEF PipelineIInv
  <1> QED BY <1>1, PipelineInvariant, PTL

\* PASS needs evidence without a gap, on either path that issues it.
THEOREM PassEarned == Spec => []PassIsEarned
  <1>1. PipelineIInv => PassIsEarned
    BY DEF PipelineIInv
  <1> QED BY <1>1, PipelineInvariant, PTL

\* BLOCK_DEPLOYMENT needs a difference that was found: the clause of the code
\* that blocks on a missing outcome never applies.
THEOREM BlockProven == Spec => []BlockIsProven
  <1>1. PipelineIInv => BlockIsProven
    BY DEF PipelineIInv
  <1> QED BY <1>1, PipelineInvariant, PTL

\* However a mission ends, its ledger is complete and claims nothing untrue.
THEOREM LedgerIsTruthful == Spec => []LedgerTruthful
  <1>1. PipelineIInv => LedgerTruthful
    BY DEF PipelineIInv, Closed, Claims, ClaimsMismatch, ClaimsCause, ClaimsScan, ClaimsFindings,
           LedgerTruthful
  <1> QED BY <1>1, PipelineInvariant, PTL

\* After a cancellation the model is asked once at most, and once more for
\* every check that failed.
THEOREM CancelStops == Spec => []CancelStopsModel
  <1>1. PipelineIInv => CancelStopsModel
    BY DEF PipelineIInv, Allowance, CancelStopsModel, TypeOK
  <1> QED BY <1>1, PipelineInvariant, PTL
=============================================================================
