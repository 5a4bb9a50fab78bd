------------------------------ MODULE MCAssurance ------------------------------
(***************************************************************************)
(* Missions for the pipeline, with what the engines really yield on them:  *)
(* one homeowners package and its releases, each changed in one attribute, *)
(* and a workbook and the next one.                                        *)
(***************************************************************************)
EXTENDS AssurancePipeline, ProbePlan, MCWorkbooks, RatingService

\* generate_plan has fifteen slots.
MaxScenarios == 6

Input(no, id, numeric, allowed, min, max) ==
    [no |-> no, id |-> id, numeric |-> numeric, allowed |-> allowed, min |-> min, max |-> max,
     required |-> TRUE]

Ref(id) == [ref |-> id, value |-> 0]
Literal(v) == [ref |-> "", value |-> v]
Is(id, op, v) == [any |-> FALSE, of |-> <<[left |-> Ref(id), op |-> op, right |-> Literal(v)]>>]

Row(min, max, v) == [key |-> <<[min |-> min, max |-> max]>>, value |-> v]

RoofAge == [id |-> "roof_age_factor", dims |-> <<[input |-> "roof_age", range |-> TRUE]>>,
            rows |-> {Row(0, 10000, 1000), Row(11000, Open, 1200)}, period |-> Always]

Territory == [id |-> "territory_factor", dims |-> <<[input |-> "territory", range |-> FALSE]>>,
              rows |-> {Row(1000, 1000, 1000), Row(2000, 2000, 1100)}, period |-> Always]

BaseRate == [id |-> "base_rate", value |-> 333350, period |-> Always]

ClaimsLoad == [no |-> 1, id |-> "claims_load", condition |-> Is("claims_free_years", "LT", 3000),
               whenTrue |-> Literal(2000), whenFalse |-> Literal(1000), period |-> Always]

Discount == [id |-> "multi_policy_discount", type |-> "PERCENTAGE_DISCOUNT", value |-> 100,
             eligibility |-> Is("multi_policy", "EQ", 1000), sequence |-> 1,
             appliesTo |-> "base_premium", period |-> Always]

Minimum == [id |-> "policy_minimum", type |-> "MINIMUM", amount |-> 350000, sequence |-> 1,
            appliesTo |-> "base_premium", period |-> Always]

Fee == [id |-> "policy_fee", amount |-> 25000, sequence |-> 1, appliesTo |-> "base_premium",
        period |-> Always]

BasePremium == [no |-> 1, id |-> "base_premium",
                expression |-> [op |-> "MULTIPLY",
                                args |-> <<Ref("base_rate"), Ref("roof_age_factor"),
                                           Ref("territory_factor"), Ref("claims_load")>>],
                dependsOn |-> {"base_rate", "roof_age_factor", "territory_factor", "claims_load"},
                rounding |-> "HALF_UP", precision |-> 2, period |-> Always]

FinalPremium == [no |-> 2, id |-> "final_premium", expression |-> [op |-> "REF", args |-> <<Ref("base_premium")>>],
                 dependsOn |-> {"base_premium", "multi_policy_discount", "policy_minimum", "policy_fee"},
                 rounding |-> "NONE", precision |-> 2, period |-> Always]

Filed ==
    [period |-> [start |-> 100, end |-> 465],
     inputs |-> {Input(1, "claims_free_years", TRUE, <<>>, 0, 10000),
                 Input(2, "multi_policy", FALSE, <<0, 1000>>, -Open, Open),
                 Input(3, "roof_age", TRUE, <<>>, 0, 40000),
                 Input(4, "territory", FALSE, <<1000, 2000>>, -Open, Open)},
     constants |-> {BaseRate}, tables |-> {RoofAge, Territory}, rules |-> {ClaimsLoad},
     modifiers |-> {Discount}, constraints |-> {Minimum}, fees |-> {Fee},
     nodes |-> {BasePremium, FinalPremium}, output |-> "final_premium"]

\* A discount with a period of its own; an input without any default.
Dated == [Filed EXCEPT !.modifiers = {[Discount EXCEPT !.period.start = 110]}]

Undeclared == [Filed EXCEPT !.inputs = @ \cup {Input(5, "wind_zone", TRUE, <<>>, -Open, Open)}]

-----------------------------------------------------------------------------
(* Releases.  The comparator reads some attributes of a package only.       *)

Releases(filed) ==
    [same        |-> filed,
     base_rate   |-> [filed EXCEPT !.constants = {[BaseRate EXCEPT !.value = 340000]}],
     row_value   |-> [filed EXCEPT !.tables = {Territory,
                        [RoofAge EXCEPT !.rows = {Row(0, 10000, 1200), Row(11000, Open, 1200)}]}],
     row_missing |-> [filed EXCEPT !.tables = {Territory, [RoofAge EXCEPT !.rows = {Row(0, 10000, 1000)}]}],
     row_extra   |-> [filed EXCEPT !.tables = {RoofAge,
                        [Territory EXCEPT !.rows = @ \cup {Row(3000, 3000, 1500)}]}],
     discount    |-> [filed EXCEPT !.modifiers = {[Discount EXCEPT !.value = 50]}],
     order       |-> [filed EXCEPT !.modifiers = {[Discount EXCEPT !.sequence = 2]}],
     minimum     |-> [filed EXCEPT !.constraints = {[Minimum EXCEPT !.amount = 345000]}],
     fee         |-> [filed EXCEPT !.fees = {[Fee EXCEPT !.amount = 20000]}],
     start       |-> [filed EXCEPT !.period.start = 130],
     input       |-> [filed EXCEPT !.inputs = @ \cup {Input(5, "wind_zone", TRUE, <<>>, 0, 5000)}],
     \* Nothing of these is a finding.
     rule        |-> [filed EXCEPT !.rules = {[ClaimsLoad EXCEPT !.whenTrue = Literal(1500)]}],
     rounding    |-> [filed EXCEPT !.nodes = {FinalPremium, [BasePremium EXCEPT !.rounding = "FLOOR"]}],
     fee_gone    |-> [filed EXCEPT !.fees = {}],
     rate_gone   |-> [filed EXCEPT !.constants = {}],
     eligibility |-> [filed EXCEPT !.modifiers = {[Discount EXCEPT
                        !.eligibility = Is("multi_policy", "EQ", 0)]}],
     end         |-> [filed EXCEPT !.period.end = 150],
     \* Two attributes, or a period that moves.
     dated       |-> [filed EXCEPT !.modifiers = {[Discount EXCEPT !.period.start = 150]}],
     later       |-> [filed EXCEPT !.period = [start |-> 500, end |-> Open]]]

-----------------------------------------------------------------------------
(* Reviews: two packages and the workbook's examples *)

Review(l, r, cases) == [left |-> l, right |-> r, cases |-> cases]

\* The workbook's own example.
ControlCase == [risk |-> [roof_age |-> 20000, territory |-> 2000, claims_free_years |-> 5000,
                          multi_policy |-> 1000], date |-> 115]

ReviewsOf(filed, dated, undeclared, releases, workbook) ==
    [c \in DOMAIN releases |-> Review(filed, releases[c], <<>>)]
    @@ [discount_cases |-> Review(filed, releases.discount, <<ControlCase>>),
        discount_start |-> Review(dated, releases.dated, <<>>),
        no_default     |-> Review(undeclared, undeclared, <<>>),
        sheet_rate     |-> Review(Lower(workbook),
                              Lower([workbook EXCEPT !.constants[1].value = 340000]),
                              VerifiedCases(workbook))]

Reviews == ReviewsOf(Filed, Dated, Undeclared, Releases(Filed), Workbook)

Findings(r) == ComparePackages(r.left, r.right)

Plan(r, cases) == GeneratePlan(r.left, Findings(r), cases, MaxScenarios)

\* run_assurance plans again, without the examples.
Reconciled(r) == Range(Plan(r, <<>>).selected)

\* The portfolio: both sides of every bound, before and after the changes.
Policies ==
    {[risk |-> [roof_age |-> a, territory |-> t, claims_free_years |-> c, multi_policy |-> m], date |-> d] :
        a \in {10000, 11000}, t \in {1000, 2000}, c \in {0, 3000}, m \in {0, 1000}, d \in {120, 200}}

-----------------------------------------------------------------------------
(* Missions.  Ids of scenarios are numbers: the selected ones, the last       *)
(* boundary that found no slot, the mutations that were not chosen.          *)

SpareId == 50
MutationId(i) == 60 + i

Probed(plan, id) ==
    CASE id < SpareId -> plan.selected[id]
      [] id = SpareId -> plan.spare[Len(plan.spare)]
      [] OTHER -> plan.mutations[id - 60]

Ids(plan) ==
    DOMAIN plan.selected \cup {MutationId(i) : i \in DOMAIN plan.mutations}
    \cup (IF plan.spare = <<>> THEN {} ELSE {SpareId})

CauseIn(scenarios, r) ==
    CASE ~Reconcilable(scenarios, r.left, r.right) -> "ERROR"
      [] OTHER -> IF RootCauses(scenarios, r.left, r.right) = {} THEN "NONE" ELSE "FOUND"

\* A price without the trace that explains it.
Quote(pkg, policy) ==
    Using(PriceOf(pkg, policy), LAMBDA price : [kind |-> price.kind, premium |-> price.premium])

PricesOf(pkg, plan, ids) == [i \in ids |-> Quote(pkg, Probed(plan, i))]

MissionWith(name, r, plan, ids) ==
    [name |-> name, mode |-> "RELEASE_CONFORMANCE", connector |-> FALSE, runner |-> FALSE,
     invalid |-> FALSE, flagged |-> ~Overlap(r.left, r.right), diffs |-> Findings(r),
     plan |-> [i \in DOMAIN plan.selected |-> i], pool |-> ids,
     controls |-> {i \in ids : IsControl(Probed(plan, i))},
     expected |-> PricesOf(r.left, plan, ids), actual |-> PricesOf(r.right, plan, ids),
     cause |-> CauseIn(Reconciled(r), r), portfolio |-> AnalyzePortfolio(Policies, r.left, r.right)]

MissionsOf(reviews) ==
    {Using(Plan(reviews[n], reviews[n].cases), LAMBDA plan : MissionWith(n, reviews[n], plan, Ids(plan))) :
        n \in DOMAIN reviews}

\* A connector is judged by the package it is to implement, on ConnectorProbed
\* scenarios, a bound.
ConnectorProbed == 2

WithVariants(missions) ==
    LET of(name) == {m \in missions : m.name = name}
    IN  missions
        \cup {[m EXCEPT !.mode = "EQUIVALENCE"] : m \in of("fee")}
        \cup {[m EXCEPT !.flagged = TRUE] : m \in of("same")}
        \cup {[m EXCEPT !.invalid = TRUE] : m \in of("same")}
        \cup {[m EXCEPT !.mode = "EQUIVALENCE", !.connector = TRUE, !.runner = runner,
                        !.plan = SubSeq(@, 1, ConnectorProbed)] : m \in of("same"), runner \in BOOLEAN}

\* TLC evaluates a definition that a cfg names anew at every use, and its body once.
AllMissions == Using(Using(Reviews, MissionsOf), WithVariants)

MCMissions == AllMissions

-----------------------------------------------------------------------------
(* What the engines are worth, for the packages of the mission that begins *)

Beginning == stage = "VALIDATE"

Packages == Reviews[mission.name]

SamePrices(r, policy) == Quote(r.left, policy) = Quote(r.right, policy)

\* The tariff in one formula, for a package of the shape of Filed on a day all
\* of it is in force: the rate times its factors, to the cent, less the
\* discount, to the cent, at least the minimum, plus the fee.
Cents(v, mode) == IF mode = "FLOOR" THEN (v \div 10) * 10 ELSE ((v + 5) \div 10) * 10

Tariff(pkg, risk) ==
    LET cell(id, v) == CHOOSE row \in Named(pkg.tables, id).rows :
                          row.key[1].min <= v /\ v <= row.key[1].max
        only(S) == CHOOSE c \in S : TRUE
        load == IF risk.claims_free_years < 3000 THEN only(pkg.rules).whenTrue.value ELSE Unit
        rate == Through(Times, only(pkg.constants).value,
                    <<cell("roof_age_factor", risk.roof_age).value,
                      cell("territory_factor", risk.territory).value, load>>)
        base == Cents(rate, Named(pkg.nodes, "base_premium").rounding)
        off == IF risk.multi_policy = Unit
               THEN Cents(Times(base, only(pkg.modifiers).value), "HALF_UP") ELSE 0
    IN  Max({base - off, only(pkg.constraints).amount}) + only(pkg.fees).amount

Tariffs == {"same", "base_rate", "row_value", "discount", "minimum", "fee", "rule", "rounding"}

\* The engine yields the tariff: factors, rules, discount, minimum and fee
\* apply in this order and round where they should, on the first and the last
\* day of the package as on any other.
RatedByTariff ==
    Beginning /\ mission.name \in Tariffs =>
        \A pkg \in {Packages.right}, policy \in Policies, date \in {100, 120, 465} :
            Quote(pkg, [policy EXCEPT !.date = date])
                = [kind |-> "PREMIUM", premium |-> Tariff(pkg, policy.risk)]

\* The reviews of two packages that price the whole portfolio alike.
AlikeIn(reviews) == {n \in DOMAIN reviews : \A policy \in Policies : SamePrices(reviews[n], policy)}

PricedAlike == Using(Reviews, AlikeIn)

\* A mission that passes found two packages which price the whole portfolio
\* alike.  The comparator does not look at the rounding of a calculation nor
\* at the end of a period: these two releases can pass all the same.
PassIsRight ==
    verdict = "PASS" /\ mission.name \notin {"rounding", "end"} =>
        mission.name \in PricedAlike

Repriced(old, new) == old.kind = "PREMIUM" /\ new.kind = "PREMIUM" /\ old # new

\* Once there is a finding, a policy that is priced differently is exposed by
\* the predicate of some finding, so that the scan reprices it; unless the
\* period that moved was open on one side, for which the window is empty.
ExposureCovers ==
    Beginning /\ mission.diffs # {} /\ mission.name # "dated" =>
        \A r \in {Packages} :
            {policy \in Policies : Repriced(Quote(r.left, policy), Quote(r.right, policy))}
                \subseteq Exposed(Policies, mission.diffs, r.left)

\* The plan keeps within its slots and prices no policy twice; what it adds
\* around the package is priced by Source A; and boundaries never take every
\* slot from the probes aimed at the findings.
PlanIsSound ==
    Beginning =>
        \A r \in {Packages} : \A plan \in {Plan(r, r.cases)} :
            LET n == Len(plan.selected)
            IN  /\ n <= MaxScenarios
                /\ \A i, j \in 1 .. n : SameProbe(plan.selected[i], plan.selected[j]) => i = j
                /\ \A i \in 1 .. n : plan.selected[i].origin # "MUTATION" =>
                        Priced(r.left, plan.selected[i])
                /\ plan.mutations # <<>> => \E i \in 1 .. n : plan.selected[i].origin = "MUTATION"

\* Of the reviews of the missions: packages are finite, examples are a list, and
\* the core of a plan leaves a slot.
ReviewsAssumed(reviews) ==
    /\ \A m \in Missions : m.name \in DOMAIN reviews
    /\ \A n \in DOMAIN reviews : \A r \in {reviews[n]} :
          /\ IsFiniteSet(Points(r.left)) /\ IsFiniteSet(Findings(r))
          /\ r.cases \in Seq(Range(r.cases))
          /\ Len(CoreProbes(r.left, r.cases)) < MaxScenarios

ASSUME ReviewsAssumption == Using(Reviews, ReviewsAssumed)

\* When one component was changed and a scenario shows it, the analysis of the
\* divergence ends at that component, however far downstream it shows.
Culprits == [base_rate |-> "base_rate", row_value |-> "roof_age_factor",
             discount |-> "multi_policy_discount", minimum |-> "policy_minimum",
             fee |-> "policy_fee", rule |-> "claims_load", sheet_rate |-> "base_rate"]

CauseIsTheChange ==
    Beginning /\ mission.name \in DOMAIN Culprits =>
        \A r \in {Packages} : \A scenarios \in {Reconciled(r)} :
            /\ mission.cause # "ERROR"
            /\ RootCauses(scenarios, r.left, r.right) =
                   IF \E s \in scenarios : Differs(r.left, r.right, s)
                   THEN {Culprits[mission.name]} ELSE {}

\* Workbooks.  A row whose calculations all stand before it, and conditionals
\* that ask for none.
InOrder(wb) ==
    \A i \in DOMAIN wb.calculations :
        LET c == wb.calculations[i]
            earlier == {wb.calculations[k].id : k \in 1 .. i - 1}
        IN  References(c) \cap Range(IdsIn(wb.calculations)) \subseteq
                IF c.op = "IF" THEN {} ELSE earlier

AtExcludedBound(wb, risk) ==
    \E row \in {r \in Range(wb.tables) : Ranged(r)} :
        \/ risk[row.dim] = row.min /\ ~row.includeMin
        \/ risk[row.dim] = row.max /\ ~row.includeMax

Risks == {[roof_age |-> a, territory |-> t, claims_free_years |-> c] :
             a \in {10000, 10500, 11000, 20000}, t \in {1000, 2000}, c \in {0, 3000}}

\* What a workbook became is priced as its sheets say, or not at all, and it is
\* priced whenever its rows are in order and the sheets yield a number; what
\* the compiler verified agrees with the expected premium of every example.
\* Left out are risks that lie on a bound its row excludes, which the engine
\* includes, and expectations of outputs but the first.
VerifiedIsPriced ==
    Beginning /\ mission.name = "same" =>
        \A wb \in Workbooks : \A status \in {Status(wb)} :
            Accepted(status) =>
                LET total == wb.outputs[1].id
                    right(hand, price) ==
                        /\ price.kind = "PREMIUM" => price.premium = hand
                        /\ InOrder(wb) => (price.kind = "PREMIUM" <=> hand # NoNumber)
                IN  /\ \A pkg \in {Lower(wb)}, risk \in {r \in Risks : ~AtExcludedBound(wb, r)} :
                          right(ByHand(wb, total, risk), EvaluatePackage(pkg, risk, 120))
                    /\ status = "VERIFIED" =>
                          \A c \in Range(wb.cases) : total \in DOMAIN c.expected =>
                              Distance(ByHand(wb, total, c.risk), c.expected[total]) <= c.tolerance

-----------------------------------------------------------------------------
(* The rating engine behind the connector.  Rows of a portfolio: both sides of   *)
(* every tier and of the first day, what is not served, what is no number.      *)

QuotedRow(age, date, type) ==
    [roof |-> age, date |-> date, type |-> type, limit |-> 300000]

QuotedRows ==
    <<QuotedRow(0, 100, "NEW_BUSINESS"), QuotedRow(10000, 100, "RENEWAL"),
      QuotedRow(11000, 99, "NEW_BUSINESS"), QuotedRow(11000, 200, "NEW_BUSINESS"),
      QuotedRow(20000, 200, "POLICY_CHANGE"), QuotedRow(20000, 200, "RENEWAL"),
      QuotedRow(21000, 100, "NEW_BUSINESS"), QuotedRow(10500, 100, "NEW_BUSINESS"),
      QuotedRow(NotANumber, 100, "NEW_BUSINESS"), QuotedRow(90000, 100, "RENEWAL"),
      [QuotedRow(25000, 100, "RENEWAL") EXCEPT !.limit = NotANumber]>>

QuoteOf(row, version, product) ==
    [version |-> version, product |-> product, date |-> row.date, type |-> row.type,
     inputs |-> [roof_age |-> row.roof, dwelling_limit |-> row.limit]]

QuotesOf(version, product) ==
    [i \in DOMAIN QuotedRows |-> QuoteOf(QuotedRows[i], version, product)]

\* No fault is injected, one row in three has one, or every row.
FaultModes(quotes) ==
    {{FaultKey(quotes[i]) : i \in {k \in DOMAIN quotes : k % n = 0}} : n \in {1, 3, Open}}

\* The client's BATCH_MAX_ITEMS; the engine's is as large, smaller or larger.
MaxItems == 4

SizeWith(engine, batchSize) ==
    ChunkSize(BatchLimit("rateguard_native_v1", Capabilities(engine), MaxItems), batchSize)

GoldenOf(version) ==
    IF version = "canonical-v1" THEN GoldenWorkbook(1400, 700000) ELSE GoldenWorkbook(1310, 655000)

\* A row fares the same whether it is quoted alone, to either endpoint, or in
\* a batch with whatever neighbours: the same premium, or a failure that is
\* tried again in both ways or in neither.  Only of a version or a product
\* that is not served the batch knows before it looks for injected faults.
AloneOrTogether ==
    Beginning /\ mission.connector /\ mission.runner =>
        \A version \in EngineVersions \cup {"v2"}, product \in {ProductId, "az_auto"} :
          \A quotes \in {QuotesOf(version, product)} :
            \A faults \in FaultModes(quotes), engine \in {2, MaxItems, 9}, batchSize \in {3, 9},
                i \in DOMAIN quotes, format \in Formats :
              \/ faults # {} /\ (version \notin EngineVersions \/ product # ProductId)
              \/ RowAlone(faults, format, quotes[i])
                  = RowTogether(faults, engine, MaxItems, SizeWith(engine, batchSize), version, product,
                                quotes, i)

\* An engine that passes its self-test prices a row it serves as the oracle
\* prices it by the golden workbook of the engine's version, and no other row.
PricesAsCompiled ==
    Beginning /\ mission.connector /\ mission.runner =>
        /\ Ready
        /\ \A version \in EngineVersions : \A wb \in {GoldenOf(version)} :
            /\ Status(wb) = "VERIFIED"
            /\ \A pkg \in {Lower(wb)}, quote \in Range(QuotesOf(version, ProductId)) :
                quote.type \in SupportedTransactionTypes /\ quote.inputs.dwelling_limit # NotANumber =>
                  \A plan \in {EvaluatePackage(pkg, quote.inputs, quote.date)} :
                    RowAlone({}, "rateguard_native_v1", quote)
                      = IF plan.kind = "PREMIUM" THEN QuotedAt(plan.premium)
                        ELSE [kind |-> "FAILED", premium |-> 0]
=============================================================================
