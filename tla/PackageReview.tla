----------------------------- MODULE PackageReview -----------------------------
(***************************************************************************)
(* What a mission learns from two packages without probing them: the       *)
(* semantic differences (engines/diff), the policies they expose           *)
(* (engines/impact, engines/portfolio) and the root causes of a divergence *)
(* (engines/reconciliation).                                               *)
(***************************************************************************)
EXTENDS RatingKernel

-----------------------------------------------------------------------------
(* compare_packages *)

NoKey == <<>>

Finding(type, id, key, left, right) ==
    [type |-> type, node |-> id, key |-> key, left |-> left, right |-> right]

\* The value of a side that has none.
Absent == -1

\* Components of one kind are compared when both sides have them.
OnBoth(S, T) == {p \in S \X T : p[1].id = p[2].id}

Changed(type, S, T, v(_)) ==
    {Finding(type, p[1].id, NoKey, v(p[1]), v(p[2])) :
        p \in {q \in OnBoth(S, T) : v(q[1]) # v(q[2])}}

\* compare_effective_periods: the start counts, the end does not.
Moved(id, p, q) ==
    IF p.start = q.start THEN {} ELSE {Finding("EFFECTIVE_DATE_CHANGE", id, NoKey, p.start, q.start)}

\* compare_rate_tables: rows are paired by their key.
RowOf(table, key) == {row \in table.rows : row.key = key}

RowValue(table, key) ==
    IF RowOf(table, key) = {} THEN Absent ELSE (CHOOSE row \in RowOf(table, key) : TRUE).value

ChangedRows(l, r) ==
    {Finding(CASE RowOf(l, key) = {} -> "TABLE_ROW_EXTRA"
               [] RowOf(r, key) = {} -> "TABLE_ROW_MISSING"
               [] OTHER -> "TABLE_ROW_CHANGE", l.id, key, RowValue(l, key), RowValue(r, key)) :
        key \in {k \in {row.key : row \in l.rows \cup r.rows} : RowValue(l, k) # RowValue(r, k)}}

Unpaired(l, r) ==
    {Finding("MISSING_NODE", id, NoKey, 0, Absent) : id \in IdsOf(l) \ IdsOf(r)}
    \cup {Finding("EXTRA_NODE", id, NoKey, Absent, 0) : id \in IdsOf(r) \ IdsOf(l)}

Sequence(c) == c.sequence
Amount(c) == c.amount
Worth(c) == c.value

\* Mutant: of a modifier only the period is compared.
PeriodFindings(S, T) == UNION {Moved(p[1].id, p[1].period, p[2].period) : p \in OnBoth(S, T)}

ModifierFindings(S, T) ==
    UNION {Moved(p[1].id, p[1].period, p[2].period) : p \in OnBoth(S, T)}
    \cup Changed("MODIFIER_CHANGE", S, T, Worth)

ComparePackages(l, r) ==
    Moved("package", l.period, r.period)
    \cup Unpaired(l.inputs, r.inputs)
    \cup Changed("VALUE_CHANGE", l.constants, r.constants, Worth)
    \cup UNION {ChangedRows(p[1], p[2]) : p \in OnBoth(l.tables, r.tables)}
    \cup ModifierFindings(l.modifiers, r.modifiers)
    \cup Changed("CONSTRAINT_CHANGE", l.constraints, r.constraints, Amount)
    \cup Changed("FEE_CHANGE", l.fees, r.fees, Amount)
    \cup UNION {Changed("ORDER_CHANGE", p[1], p[2], Sequence) :
            p \in {<<l.modifiers, r.modifiers>>, <<l.constraints, r.constraints>>, <<l.fees, r.fees>>}}

\* run_mission asks for review when the periods do not overlap; an open end on
\* the other side counts as the own start.
LastDay(pkg, other) == IF pkg.period.end = Open THEN other.period.start ELSE pkg.period.end

Overlap(l, r) == l.period.start <= LastDay(r, l) /\ r.period.start <= LastDay(l, r)

-----------------------------------------------------------------------------
(* derive_predicate_from_difference: a half-open window of dates, or clauses *)

Clause(field, op, v) == [field |-> field, op |-> op, value |-> v]

NoWindow == [start |-> 0, end |-> 0]

Everyone == [window |-> NoWindow, clauses |-> <<>>]

\* filter(None, ...): a side without a start does not count.
Starts(f) == {f.left, f.right} \ {0}

CellClauses(dim, cell) ==
    IF ~dim.range THEN <<Clause(dim.input, "EQ", cell.min)>>
    ELSE (IF cell.min > -Open THEN <<Clause(dim.input, "GTE", cell.min)>> ELSE <<>>)
         \o (IF cell.max < Open THEN <<Clause(dim.input, "LTE", cell.max)>> ELSE <<>>)

RowClauses(table, key) ==
    FlattenSeq([i \in DOMAIN table.dims |-> CellClauses(table.dims[i], key[i])])

\* A single comparison of a reference with a literal, either way round.
SimpleComparison(c) ==
    /\ ~c.any /\ Len(c.of) = 1
    /\ (c.of[1].left.ref = "") # (c.of[1].right.ref = "")

ComparisonClause(x) ==
    IF x.left.ref # "" THEN Clause(x.left.ref, x.op, x.right.value)
                       ELSE Clause(x.right.ref, x.op, x.left.value)

TableFindings == {"TABLE_ROW_CHANGE", "TABLE_ROW_MISSING", "TABLE_ROW_EXTRA"}

\* Mutant: a row is taken to end before its upper bound.
MatchesBelowBound(policy, p) ==
    /\ p.window # NoWindow => p.window.start <= policy.date /\ policy.date < p.window.end
    /\ \A i \in DOMAIN p.clauses :
          LET c == p.clauses[i]
          IN  /\ c.field \in DOMAIN policy.risk
              /\ Compare(policy.risk[c.field], IF c.op = "LTE" THEN "LT" ELSE c.op, c.value)

Predicate(f, pkg) ==
    CASE f.type = "EFFECTIVE_DATE_CHANGE" ->
            [Everyone EXCEPT !.window = [start |-> Min(Starts(f)), end |-> Max(Starts(f))]]
      [] f.type \in TableFindings ->
            [Everyone EXCEPT !.clauses = RowClauses(Named(pkg.tables, f.node), f.key)]
      [] f.type = "MODIFIER_CHANGE" /\ SimpleComparison(Named(pkg.modifiers, f.node).eligibility) ->
            [Everyone EXCEPT !.clauses =
                <<ComparisonClause(Named(pkg.modifiers, f.node).eligibility.of[1])>>]
      [] OTHER -> Everyone

\* matches_predicate, for a policy that is a risk and a date.
MatchesPredicate(policy, p) ==
    /\ p.window # NoWindow => p.window.start <= policy.date /\ policy.date < p.window.end
    /\ \A i \in DOMAIN p.clauses :
          LET c == p.clauses[i]
          IN  c.field \in DOMAIN policy.risk /\ Compare(policy.risk[c.field], c.op, c.value)

Exposed(policies, findings, pkg) ==
    {policy \in policies : \E f \in findings : MatchesPredicate(policy, Predicate(f, pkg))}

-----------------------------------------------------------------------------
(* PortfolioAnalyzer.analyze: only what is exposed is priced again *)

PriceOf(pkg, policy) == EvaluatePackage(pkg, policy.risk, policy.date)

Priced(pkg, policy) == PriceOf(pkg, policy).kind = "PREMIUM"

Differs(l, r, policy) == PriceOf(l, policy).premium # PriceOf(r, policy).premium

AnalyzePortfolio(policies, l, r) ==
    LET exposed == Exposed(policies, ComparePackages(l, r), l)
    IN  CASE \E p \in exposed : ~Priced(l, p) \/ ~Priced(r, p) -> "ERROR"
          [] \E p \in exposed : Differs(l, r, p) -> "EXPOSED"
          [] OTHER -> "CLEAN"

-----------------------------------------------------------------------------
(* Reconciliation of one scenario: diverging steps and their root cause *)

\* align_and_compare_traces: steps both traces have, with different results;
\* the last step of a node counts on the right.
LastResult(trace, id) ==
    trace[Max({i \in DOMAIN trace : trace[i].node = id})].result

Diverging(left, right) ==
    SelectSeq(left, LAMBDA s :
        /\ \E i \in DOMAIN right : right[i].node = s.node
        /\ LastResult(right, s.node) # s.result)

\* PricingDependencyGraph
Edges(pkg) ==
    UNION {{<<t.dims[i].input, t.id>> : i \in DOMAIN t.dims} : t \in pkg.tables}
    \cup UNION {{<<d, n.id>> : d \in n.dependsOn} : n \in pkg.nodes}
    \cup {<<c.appliesTo, c.id>> : c \in pkg.modifiers \cup pkg.constraints \cup pkg.fees}
    \cup {<<pkg.output, "output">>}

\* What reaches id along the edges.
Closure(edges, id) ==
    Through(LAMBDA S, i : S \cup {e[1] : e \in {x \in edges : x[2] \in S}},
            {id}, [i \in 1 .. Cardinality(edges) |-> i]) \ {id}

\* Mutant: the graph is walked downstream.
Descendants(pkg, id) ==
    Closure({<<e[2], e[1]>> : e \in Edges(pkg)}, id)

Ancestors(pkg, id) ==
    Closure(Edges(pkg), id)

\* The first divergence that no other one is upstream of.
TopmostDivergence(steps, pkg) ==
    LET nodes == {steps[i].node : i \in DOMAIN steps}
        roots == SelectSeq(steps, LAMBDA s : Ancestors(pkg, s.node) \cap nodes = {})
    IN  IF roots # <<>> THEN Head(roots).node ELSE Head(steps).node

\* perform_root_cause_analysis: a changed row, else a moved period, else a
\* changed order, else the topmost divergence.
RootCause(steps, findings, pkg) ==
    LET nodes == {steps[i].node : i \in DOMAIN steps}
        rows  == {f \in findings : f.type = "TABLE_ROW_CHANGE" /\ f.node \in nodes}
        dates == {f \in findings : /\ f.type = "EFFECTIVE_DATE_CHANGE"
                                   /\ {f.node, "premium_after_discounts"} \cap nodes # {}}
        order == {f \in findings : f.type = "ORDER_CHANGE" /\ "policy_minimum" \in nodes}
        some(S) == (CHOOSE f \in S : TRUE).node
    IN  CASE rows # {} -> some(rows)
          [] rows = {} /\ dates # {} -> some(dates)
          [] rows = {} /\ dates = {} /\ order # {} -> some(order)
          [] OTHER -> TopmostDivergence(steps, pkg)

\* run_assurance over the scenarios of a plan: a scenario that cannot be
\* priced on either side raises.
Reconcilable(scenarios, l, r) == \A s \in scenarios : Priced(l, s) /\ Priced(r, s)

DivergingSteps(l, r, s) ==
    Using(PriceOf(l, s).trace, LAMBDA left :
        Using(PriceOf(r, s).trace, LAMBDA right : Diverging(left, right)))

RootCauses(scenarios, l, r) ==
    Using(ComparePackages(l, r), LAMBDA findings :
        {RootCause(steps, findings, l) : steps \in {DivergingSteps(l, r, s) : s \in scenarios} \ {<<>>}})
=============================================================================
