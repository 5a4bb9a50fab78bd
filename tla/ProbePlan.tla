------------------------------- MODULE ProbePlan -------------------------------
(***************************************************************************)
(* PricingTestPlanner.generate_plan (engines/testing): which policies are  *)
(* priced on both sides.  Control cases of the workbook or a baseline from *)
(* declared defaults come first, then boundaries mined from tables and     *)
(* rules, and at most half of what is left for probes of the findings.     *)
(*                                                                         *)
(* A probe is a risk and a date with its tags, the nodes it is aimed at    *)
(* and its origin.  Findings are taken in some order; an input is a key of *)
(* tables of one lookup type.                                              *)
(***************************************************************************)
EXTENDS PackageReview

Tag(name, v) == <<name, v>>

ProbeOf(origin, risk, date, tags, targets) ==
    [origin |-> origin, risk |-> risk, date |-> date, tags |-> tags, targets |-> targets]

IsControl(probe) == Tag("CONTROL", 0) \in probe.tags

\* canonical_probe_key
SameProbe(a, b) == a.risk = b.risk /\ a.date = b.date

New(probes, p) == \A i \in DOMAIN probes : ~SameProbe(probes[i], p)

AddNew(probes, p) == IF New(probes, p) THEN Append(probes, p) ELSE probes

Unique(known, probes) == Through(AddNew, known, probes)

\* What of a list is kept.
Kept(list, keep(_)) ==
    FlattenSeq([i \in DOMAIN list |-> IF keep(list[i]) THEN <<list[i]>> ELSE <<>>])

\* The members of a finite set in a strict order.
Ranked(S, before(_, _)) ==
    [k \in 1 .. Cardinality(S) |-> CHOOSE x \in S : Cardinality({y \in S : before(y, x)}) = k - 1]

-----------------------------------------------------------------------------
(* generate_package_probes: control cases, or a baseline *)

Acceptable(pkg, case) ==
    LET date == CalculationDate(pkg, case.date)
    IN  /\ IsActive(pkg.period, date)
        /\ DOMAIN case.risk \subseteq IdsOf(pkg.inputs)
        /\ \A inp \in pkg.inputs :
              IF inp.id \in DOMAIN case.risk THEN InDomain(inp, case.risk[inp.id]) ELSE ~inp.required
        /\ EvaluatePackage(pkg, case.risk, date).kind = "PREMIUM"

ControlProbes(pkg, cases) ==
    LET probe(c) == ProbeOf("CONTROL_CASE", c.risk, CalculationDate(pkg, c.date),
                            {Tag("CONTROL", 0), Tag("CONTROL_CASE", 0)}, {})
    IN  Using(Kept(cases, LAMBDA c : Acceptable(pkg, c)), LAMBDA valid :
            Unique(<<>>, [i \in DOMAIN valid |-> probe(valid[i])]))

\* _declared_default_risk: no value is made up.
HasBasis(inp) == inp.allowed # <<>> \/ inp.min > -Open \/ inp.max < Open

Default(inp) ==
    CASE inp.allowed # <<>> -> Head(inp.allowed)
      [] inp.allowed = <<>> /\ inp.min > -Open /\ inp.max < Open ->
            ((inp.min + inp.max) \div (2 * Unit)) * Unit
      [] OTHER -> IF inp.min > -Open THEN inp.min ELSE inp.max

Baseline(pkg) ==
    LET risk == [id \in IdsOf(pkg.inputs) |-> Default(Named(pkg.inputs, id))]
    IN  IF /\ \A inp \in pkg.inputs : HasBasis(inp)
           /\ EvaluatePackage(pkg, risk, pkg.period.start).kind = "PREMIUM"
        THEN <<ProbeOf("BASELINE", risk, pkg.period.start, {Tag("CONTROL", 0), Tag("BASELINE", 0)}, {})>>
        ELSE <<>>

CoreProbes(pkg, cases) ==
    Using(ControlProbes(pkg, cases), LAMBDA probes : IF probes # <<>> THEN probes ELSE Baseline(pkg))

-----------------------------------------------------------------------------
(* Boundary probes *)

\* collect_boundaries: bounds and keys of tables, literals of rules.
Boundary(input, raw, exact) == [input |-> input, raw |-> raw, exact |-> exact]

TableBoundaries(table) ==
    UNION {LET dim == table.dims[i]
               cell == row.key[i]
           IN  IF dim.range
               THEN {Boundary(dim.input, v, FALSE) : v \in {cell.min, cell.max} \ {-Open, Open}}
               ELSE {Boundary(dim.input, cell.min, TRUE)} :
           row \in table.rows, i \in DOMAIN table.dims}

RuleBoundaries(rule) ==
    {Boundary(ComparisonClause(x).field, ComparisonClause(x).value, FALSE) :
        x \in {y \in Range(rule.condition.of) : (y.left.ref = "") # (y.right.ref = "")}}

Boundaries(pkg) ==
    {b \in UNION {TableBoundaries(t) : t \in pkg.tables} \cup UNION {RuleBoundaries(r) : r \in pkg.rules} :
        b.input \in IdsOf(pkg.inputs)}

\* _neighbours: a number's boundary and what is next to it, in the domain.
Neighbours(pkg, b) ==
    LET inp == Named(pkg.inputs, b.input)
        point(v, tier) == [no |-> inp.no, input |-> b.input, value |-> v, tier |-> tier, raw |-> b.raw,
                           kind |-> IF inp.numeric /\ ~b.exact THEN 0 ELSE 1]
        points == IF inp.numeric
                  THEN {point(b.raw, 1), point(b.raw - Unit, 2), point(b.raw + Unit, 2)}
                  ELSE {point(b.raw, 1)}
    IN  {p \in points : InDomain(inp, p.value)}

Points(pkg) == UNION {Neighbours(pkg, b) : b \in Boundaries(pkg)}

\* Within an input boundaries come before neighbours and both before keys.
Before(p, q) ==
    \/ p.kind < q.kind
    \/ p.kind = q.kind /\ p.tier < q.tier
    \/ p.kind = q.kind /\ p.tier = q.tier /\ p.value < q.value
    \/ p.kind = q.kind /\ p.tier = q.tier /\ p.value = q.value /\ p.raw < q.raw

\* Inputs take turns, so that no input starves another.
Interleaved(pkg) ==
    Using(Points(pkg), LAMBDA all :
        Using([p \in all |-> Cardinality({q \in all : q.input = p.input /\ Before(q, p)})], LAMBDA turn :
            Ranked(all, LAMBDA p, q : turn[p] < turn[q] \/ (turn[p] = turn[q] /\ p.no < q.no))))

\* Around the first core probe, each one tried on the package first, until the
\* limit is reached.
BoundaryProbes(pkg, core, limit) ==
    LET probe(p) == ProbeOf("BOUNDARY", [core[1].risk EXCEPT ![p.input] = p.value], core[1].date,
                            {Tag("BOUNDARY", 0), Tag("VAL", p.value)}, {})
    IN  IF core = <<>> THEN <<>>
        ELSE Using(Interleaved(pkg), LAMBDA points :
             Using([i \in DOMAIN points |-> probe(points[i])], LAMBDA probes :
             Using(Unique(core, Kept(probes, LAMBDA q : Priced(pkg, q))), LAMBDA all :
                SubSeq(all, Len(core) + 1, Min({limit, Len(all)})))))

-----------------------------------------------------------------------------
(* generate_candidate_scenarios: probes of what is known to differ.  Its     *)
(* baseline is the first core probe again, so it never survives.             *)

Mutation(base, tags, targets, set, date) ==
    ProbeOf("MUTATION", set @@ base.risk, date, tags, targets)

Last1(s) == s[Len(s)]

\* The field of the last clause gets the bounds any clause gave.
RangeProbes(pkg, base, findings, pred) ==
    LET at(ops) == SelectSeq(pred.clauses, LAMBDA c : c.op \in ops)
        lows == at({"GTE", "GT"})
        highs == at({"LTE", "LT"})
        field == Last1(pred.clauses).field
        low == Last1(lows).value
        high == Last1(highs).value
        values == (IF lows = <<>> THEN <<>> ELSE <<<<low - Unit, "CONTROL">>, <<low, "BOUNDARY">>>>)
                  \o (IF lows = <<>> \/ highs = <<>> THEN <<>>
                      ELSE <<<<((low + high) \div (2 * Unit)) * Unit, "BOUNDARY">>>>)
                  \o (IF highs = <<>> THEN <<>>
                      ELSE <<<<high, "BOUNDARY">>, <<high + Unit, "CONTROL">>>>)
        clamp(v) == IF field \notin IdsOf(pkg.inputs) THEN v
                    ELSE LET inp == Named(pkg.inputs, field) IN Min({Max({v, inp.min}), inp.max})
        targets == {f.node : f \in {g \in findings :
                        /\ g.type \in TableFindings
                        /\ \E i \in DOMAIN Named(pkg.tables, g.node).dims :
                              Named(pkg.tables, g.node).dims[i].input = field}}
    IN  [i \in DOMAIN values |->
            LET v == clamp(values[i][1])
            IN  Mutation(base, {Tag(values[i][2], 0), Tag("VAL", v)}, targets, field :> v, base.date)]

IsExact(pred) ==
    pred.clauses # <<>> /\ \A i \in DOMAIN pred.clauses : pred.clauses[i].op = "EQ"

Overrides(pred) ==
    Through(LAMBDA set, c : (c.field :> c.value) @@ set, <<>>, pred.clauses)

ShiftProbes(pkg, base, f) ==
    IF f.type = "EFFECTIVE_DATE_CHANGE" /\ f.right > pkg.period.start
    THEN <<Mutation(base, {Tag("TEMPORAL", 0), Tag("PRE_WINDOW", 0)}, {f.node}, <<>>, pkg.period.start + 5),
           Mutation(base, {Tag("TEMPORAL", 0), Tag("POST_WINDOW", 0)}, {f.node}, <<>>, f.right + 5)>>
    ELSE <<>>

\* A large dwelling without discounts.
OrderProbe(base, orders) ==
    LET low == [dwelling_limit |-> 700000 * Unit, multi_policy |-> 0, claims_free |-> 0]
    IN  Mutation(base, {Tag("SEQUENCE", 0), Tag("ORDER_MISMATCH", 0)}, {f.node : f \in orders},
                 Restrict(low, DOMAIN low \cap DOMAIN base.risk), base.date)

Mutate(pkg, findings, order, preds, base) ==
    LET exact == {i \in DOMAIN order : IsExact(preds[i])}
        orders == {f \in findings : f.type = "ORDER_CHANGE"}
        ranges == FlattenSeq([i \in DOMAIN order |->
                  IF preds[i].clauses = <<>> THEN <<>> ELSE RangeProbes(pkg, base, findings, preds[i])])
        singles == FlattenSeq([i \in DOMAIN order |->
                      IF i \notin exact THEN <<>>
                      ELSE <<Mutation(base, {Tag("SINGLE_DEFECT", 0)}, {order[i].node},
                                      Overrides(preds[i]), base.date)>>])
        combined == IF Cardinality(exact) < 2 THEN <<>>
                    ELSE <<Mutation(base, {Tag("MULTI_DEFECT", 0)}, {order[i].node : i \in exact},
                                    Through(LAMBDA set, p : IF IsExact(p) THEN Overrides(p) @@ set ELSE set,
                                            <<>>, preds),
                                    base.date)>>
        shifts == FlattenSeq([i \in DOMAIN order |-> ShiftProbes(pkg, base, order[i])])
    IN  ranges \o singles \o combined \o shifts
        \o (IF orders = {} THEN <<>> ELSE <<OrderProbe(base, orders)>>)

Mutations(pkg, findings, base) ==
    Using(SetToSeq(findings), LAMBDA order :
        Using([i \in DOMAIN order |-> Predicate(order[i], pkg)], LAMBDA preds :
            Mutate(pkg, findings, order, preds, base)))

\* score_scenario, optimize_test_plan: greedy, the best score first; a probe
\* is taken when it reaches a new node or tag, or lies at a boundary.
Score(p) ==
    (IF p.targets # {} THEN 30 ELSE 0) + (IF Tag("BOUNDARY", 0) \in p.tags THEN 20 ELSE 0)
    + (IF Tag("TEMPORAL", 0) \in p.tags THEN 15 ELSE 0) + (IF IsControl(p) THEN 10 ELSE 0)

WorthTaking(taken, p) ==
    \/ ~(p.targets \subseteq UNION {taken[i].targets : i \in DOMAIN taken})
    \/ ~(p.tags \subseteq UNION {taken[i].tags : i \in DOMAIN taken})
    \/ {Tag("BOUNDARY", 0), Tag("CONTROL", 0)} \cap p.tags # {}

Take(quota, taken, p) ==
    IF Len(taken) < quota /\ WorthTaking(taken, p) THEN Append(taken, p) ELSE taken

Greedy(probes, quota, order) ==
    Through(LAMBDA taken, i : Take(quota, taken, probes[i]), <<>>, order)

Optimize(probes, quota) ==
    Greedy(probes, quota, Ranked(DOMAIN probes, LAMBDA i, j :
        \/ Score(probes[i]) > Score(probes[j])
        \/ Score(probes[i]) = Score(probes[j]) /\ i < j))

-----------------------------------------------------------------------------
(* generate_plan *)

\* Mutant: boundaries fill every slot the core leaves.
QuotaAfterBoundaries(slots, boundaries, mutations) ==
    Min({mutations, Max({0, slots - boundaries})})

\* Half of the slots that are left, and at least one.
MutationQuota(slots, boundaries, mutations) ==
    IF mutations = 0 \/ slots = 0 THEN 0 ELSE Min({mutations, Max({1, slots \div 2})})

\* What mutations add to the probes of the package.
Fresh(known, mutations) ==
    Using(Unique(known, mutations), LAMBDA all : SubSeq(all, Len(known) + 1, Len(all)))

Allotted(core, bounds, fresh, max) ==
    LET slots == max - Len(core)
    IN  Using(Optimize(fresh, MutationQuota(slots, Len(bounds), Len(fresh))), LAMBDA chosen :
            LET kept == Min({Len(bounds), slots - Len(chosen)})
            IN  [selected |-> core \o SubSeq(bounds, 1, kept) \o chosen,
                 spare    |-> SubSeq(bounds, kept + 1, Len(bounds)),
                 mutations |-> Kept(fresh, LAMBDA p : p \notin Range(chosen))])

GeneratePlan(pkg, findings, cases, max) ==
    Using(CoreProbes(pkg, cases), LAMBDA all :
        Using(SubSeq(all, 1, Min({max, Len(all)})), LAMBDA core :
            Using(BoundaryProbes(pkg, core, max), LAMBDA bounds :
                Using(IF core = <<>> THEN <<>>
                      ELSE Fresh(core \o bounds, Mutations(pkg, findings, core[1])), LAMBDA fresh :
                    Allotted(core, bounds, fresh, max)))))
=============================================================================
