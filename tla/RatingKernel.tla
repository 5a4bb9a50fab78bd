----------------------------- MODULE RatingKernel -----------------------------
(***************************************************************************)
(* The rating engine behind every verdict (engines/oracle): a premium is a *)
(* function of a package, a risk and a calculation date, and so is the     *)
(* trace that explains it.                                                 *)
(*                                                                         *)
(* Every number is in thousandths, money, factors and inputs alike, so the *)
(* cent boundary of rounding shows; categories and booleans are numbers    *)
(* too.  A product has three decimals here and any number of them in the   *)
(* code: packages are to be chosen whose products need no more.            *)
(* Expressions and conditions are one level deep, dependencies acyclic.    *)
(***************************************************************************)
EXTENDS Integers, Sequences, SequencesExt, FiniteSetsExt, Functions, TLC

Unit == 1000

\* A period without an end; a component without a period starts at 0.
Open == 999999
Always == [start |-> 0, end |-> Open]

\* is_active: both ends count.
IsActive(period, date) == period.start <= date /\ date <= period.end

ActiveOf(S, date) == {c \in S : IsActive(c.period, date)}

\* F(e), where TLC evaluates e once; a fold from the left that does so.
Using(e, F(_)) == CHOOSE y \in {F(v) : v \in {e}} : TRUE

Through(op(_, _), base, list) ==
    Using(list, LAMBDA l : FoldLeft(LAMBDA r, c : Using(r, LAMBDA v : op(v, c)), base, l))

\* The members of a set in some order, or sorted.
Listed(S) == FoldSet(LAMBDA c, list : Append(list, c), <<>>, S)

Ordered(S, before(_, _)) == SortSeq(Listed(S), before)

-----------------------------------------------------------------------------
(* Arithmetic on thousandths *)

Times(a, b) == (a * b) \div Unit

\* round_decimal; amounts are not negative.
Round(v, precision, mode) ==
    LET step == IF precision > 0 THEN Unit \div (10 ^ precision) ELSE Unit
        down == (v \div step) * step
        odd  == (down \div step) % 2 = 1
        up   == CASE mode = "CEILING"   -> v > down
                  [] mode = "HALF_UP"   -> 2 * (v - down) >= step
                  [] mode = "HALF_EVEN" -> 2 * (v - down) > step \/ (2 * (v - down) = step /\ odd)
                  [] OTHER -> FALSE
    IN  IF up THEN down + step ELSE down

\* An operand is a reference into the context, or a literal.
Known(ctx, x) == x.ref = "" \/ x.ref \in DOMAIN ctx

Value(ctx, x) == IF x.ref = "" THEN x.value ELSE ctx[x.ref]

\* evaluate_expression raises on an unknown reference and a division by zero.
Evaluable(ctx, e) ==
    /\ \A i \in DOMAIN e.args : Known(ctx, e.args[i])
    /\ e.op = "DIVIDE" => Value(ctx, e.args[2]) # 0

Evaluate(ctx, e) ==
    LET v == [i \in DOMAIN e.args |-> Value(ctx, e.args[i])]
    IN  CASE e.op = "REF"      -> v[1]
          [] e.op = "ADD"      -> Through(LAMBDA x, y : x + y, 0, v)
          [] e.op = "SUBTRACT" -> Through(LAMBDA x, y : x - y, v[1], Tail(v))
          [] e.op = "MULTIPLY" -> Through(Times, Unit, v)
          [] e.op = "DIVIDE"   -> (v[1] * Unit) \div v[2]
          [] e.op = "MIN"      -> Min(Range(v))
          [] e.op = "MAX"      -> Max(Range(v))
          [] e.op = "ROUND"    -> Round(v[1], IF Len(v) > 1 THEN v[2] \div Unit ELSE 2, "HALF_UP")

Compare(a, op, b) ==
    CASE op = "EQ" -> a = b [] op = "NE" -> a # b
      [] op = "GT" -> a > b [] op = "GTE" -> a >= b
      [] op = "LT" -> a < b [] op = "LTE" -> a <= b

\* A condition lists comparisons, all or any of which must hold.
Knows(ctx, x) == Known(ctx, x.left) /\ Known(ctx, x.right)

IsTrue(ctx, x) == Knows(ctx, x) /\ Compare(Value(ctx, x.left), x.op, Value(ctx, x.right))

Holds(ctx, c) ==
    IF c.any THEN \E i \in DOMAIN c.of : IsTrue(ctx, c.of[i])
             ELSE \A i \in DOMAIN c.of : IsTrue(ctx, c.of[i])

\* A comparison is read unless an earlier one has settled the matter.
Decidable(ctx, c) ==
    \A i \in DOMAIN c.of :
        \/ Knows(ctx, c.of[i])
        \/ \E j \in 1 .. i - 1 : Knows(ctx, c.of[j]) /\ IsTrue(ctx, c.of[j]) = c.any

-----------------------------------------------------------------------------
(* Inputs and tables *)

\* An input lists its allowed values, or has bounds.
InDomain(inp, v) ==
    IF inp.allowed # <<>> THEN v \in Range(inp.allowed) ELSE inp.min <= v /\ v <= inp.max

\* validate_risk_inputs, not strict: what a package does not declare it ignores.
InputsValid(pkg, risk) ==
    \A inp \in pkg.inputs :
        IF inp.id \in DOMAIN risk THEN InDomain(inp, risk[inp.id]) ELSE ~inp.required

IdsOf(S) == {c.id : c \in S}

Given(pkg, risk) == Restrict(risk, IdsOf(pkg.inputs) \cap DOMAIN risk)

\* A cell of a row is an exact value or a range with both ends included.
MatchingRows(table, ctx) ==
    {row \in table.rows :
        \A i \in DOMAIN table.dims :
            /\ table.dims[i].input \in DOMAIN ctx
            /\ row.key[i].min <= ctx[table.dims[i].input]
            /\ ctx[table.dims[i].input] <= row.key[i].max}

\* lookup_table: more than one row is ambiguous; none is neutral in a table of
\* two or more dimensions and an error in the others.
Found(table, ctx) ==
    /\ Cardinality(MatchingRows(table, ctx)) < 2
    /\ MatchingRows(table, ctx) = {} => Len(table.dims) > 1

Lookup(table, ctx) ==
    IF MatchingRows(table, ctx) = {} THEN Unit
    ELSE (CHOOSE row \in MatchingRows(table, ctx) : TRUE).value

-----------------------------------------------------------------------------
(* The context the calculations start from *)

Bind(ctx, id, v) == (id :> v) @@ ctx

Named(S, id) == CHOOSE c \in S : c.id = id

BindAll(ctx, S, v(_)) == [id \in IdsOf(S) |-> v(Named(S, id))] @@ ctx

Eligible(mod, ctx) == mod.eligibility.of = <<>> \/ Holds(ctx, mod.eligibility)

\* What an expression that refers to a modifier sees: a factor.
ModifierFactor(mod, date, ctx) ==
    CASE ~IsActive(mod.period, date) \/ ~Eligible(mod, ctx) -> Unit
      [] mod.type = "PERCENTAGE_DISCOUNT" -> Unit - mod.value
      [] mod.type = "PERCENTAGE_SURCHARGE" -> Unit + mod.value
      [] OTHER -> mod.value

\* Inputs and active constants; then fees, constraints and modifiers.
Fixed(pkg, risk, date) ==
    BindAll(Given(pkg, risk), ActiveOf(pkg.constants, date), LAMBDA c : c.value)

Amounts(pkg, risk, date) ==
    Using(BindAll(Fixed(pkg, risk, date), pkg.fees \cup pkg.constraints,
                  LAMBDA c : IF IsActive(c.period, date) THEN c.amount ELSE 0),
          LAMBDA ctx : BindAll(ctx, pkg.modifiers, LAMBDA m : ModifierFactor(m, date, ctx)))

Tables(pkg, date, ctx) == BindAll(ctx, ActiveOf(pkg.tables, date), LAMBDA t : Lookup(t, ctx))

\* Nothing raises before the first rule.
Resolvable(pkg, risk, date) ==
    /\ InputsValid(pkg, risk)
    /\ \A fixed \in {Fixed(pkg, risk, date)} :
        /\ \A m \in ActiveOf(pkg.modifiers, date) : Decidable(fixed, m.eligibility)
        /\ \A t \in ActiveOf(pkg.tables, date) : Found(t, fixed)

-----------------------------------------------------------------------------
(* Rules and calculations.  A run is [ok, ctx, value, done, trace]: whether nothing    *)
(* raised, the context, the value so far, what was applied, what was traced. *)

Traced(run, id, v) == [run EXCEPT !.trace = Append(@, [node |-> id, result |-> v])]

Failing(run) == [run EXCEPT !.ok = FALSE]

\* A rule sees the rules before it and is worth the branch its condition takes.
ApplyRule(run, rule) ==
    LET branch == IF Holds(run.ctx, rule.condition) THEN rule.whenTrue ELSE rule.whenFalse
    IN  IF ~run.ok \/ ~Decidable(run.ctx, rule.condition) \/ ~Known(run.ctx, branch)
        THEN Failing(run)
        ELSE Using(Value(run.ctx, branch), LAMBDA v :
                Traced([run EXCEPT !.ctx = Bind(@, rule.id, v)], rule.id, v))

\* What is due for a node: it depends on it and it was not applied yet.
Due(node, S, date, run) ==
    Ordered({c \in ActiveOf(S, date) : c.id \in node.dependsOn /\ c.id \notin run.done},
                 LAMBDA a, b : a.sequence < b.sequence)

ApplyModifier(run, mod) ==
    LET percent == mod.type \in {"PERCENTAGE_DISCOUNT", "PERCENTAGE_SURCHARGE"}
        amount  == IF percent THEN Round(Times(run.value, mod.value), 2, "HALF_UP") ELSE mod.value
        sign    == IF mod.type \in {"PERCENTAGE_DISCOUNT", "FLAT_DISCOUNT"} THEN -1 ELSE 1
    IN  IF ~Eligible(mod, run.ctx) THEN Traced(run, mod.id, 0)
        ELSE Traced([run EXCEPT !.value = @ + sign * amount,
                                !.ctx = Bind(@, mod.id, amount)], mod.id, amount)

\* Mutant: a minimum is a cap.
ApplyConstraintSwapped(run, con) ==
    LET v == IF con.type = "MAXIMUM" THEN Max({run.value, con.amount}) ELSE Min({run.value, con.amount})
    IN  Traced([run EXCEPT !.value = v], con.id, v)

ApplyConstraint(run, con) ==
    LET v == IF con.type = "MINIMUM" THEN Max({run.value, con.amount}) ELSE Min({run.value, con.amount})
    IN  Traced([run EXCEPT !.value = v], con.id, v)

\* A fee the node's expression adds already is not added again.
ApplyFee(node, run, fee) ==
    IF \E i \in DOMAIN node.expression.args : node.expression.args[i].ref = fee.id
    THEN run
    ELSE Traced([run EXCEPT !.value = @ + fee.amount], fee.id, run.value + fee.amount)

\* Modifiers, then constraints, then fees, each in its sequence.
Applied(pkg, date, node, run) ==
    LET mods == Through(ApplyModifier, run, Due(node, pkg.modifiers, date, run))
        cons == Through(ApplyConstraint, mods, Due(node, pkg.constraints, date, run))
    IN  Through(LAMBDA r, f : ApplyFee(node, r, f), cons, Due(node, pkg.fees, date, run))

ApplyNode(pkg, date, run, node) ==
    IF ~run.ok \/ ~Evaluable(run.ctx, node.expression) THEN Failing(run)
    ELSE LET raw  == Evaluate(run.ctx, node.expression)
             base == IF node.rounding = "NONE" THEN raw ELSE Round(raw, node.precision, node.rounding)
         IN  Using(Applied(pkg, date, node, [run EXCEPT !.value = base]),
                   LAMBDA r : Traced([r EXCEPT !.ctx = Bind(@, node.id, r.value),
                                               !.done = @ \cup node.dependsOn], node.id, r.value))

\* topological_sort_calculations: generation by generation, in the order written.
Sorted(nodes) ==
    LET ids == IdsOf(nodes)
        generation[id \in ids] ==
            LET needs == Named(nodes, id).dependsOn \cap ids
            IN  IF needs = {} THEN 0 ELSE 1 + Max({generation[n] : n \in needs})
    IN  Ordered(nodes, LAMBDA a, b : \/ generation[a.id] < generation[b.id]
                                      \/ (generation[a.id] = generation[b.id] /\ a.no < b.no))

-----------------------------------------------------------------------------
(* evaluate_package.  The trace leaves out the inputs, the same for everyone. *)

Steps(S, ctx) == Listed({[node |-> id, result |-> ctx[id]] : id \in IdsOf(S)})

DateRefused == [kind |-> "DATE", premium |-> 0, trace |-> <<>>]
Failed == [kind |-> "ERROR", premium |-> 0, trace |-> <<>>]

Context(pkg, risk, date) ==
    Using(Amounts(pkg, risk, date), LAMBDA amounts : Tables(pkg, date, amounts))

Calculated(pkg, date, ctx) ==
    LET trace == Steps(ActiveOf(pkg.constants, date), ctx) \o Steps(ActiveOf(pkg.tables, date), ctx)
        rules == Ordered(ActiveOf(pkg.rules, date), LAMBDA a, b : a.no < b.no)
        nodes == SelectSeq(Sorted(pkg.nodes), LAMBDA n : IsActive(n.period, date))
        start == [ok |-> TRUE, ctx |-> ctx, value |-> 0, done |-> {}, trace |-> trace]
    IN  Through(LAMBDA run, n : ApplyNode(pkg, date, run, n), Through(ApplyRule, start, rules), nodes)

Outcome(pkg, run) ==
    IF ~run.ok \/ pkg.output \notin DOMAIN run.ctx THEN Failed
    ELSE [kind |-> "PREMIUM", premium |-> run.ctx[pkg.output],
          trace |-> Append(run.trace, [node |-> "output", result |-> run.ctx[pkg.output]])]

EvaluatePackage(pkg, risk, date) ==
    IF ~IsActive(pkg.period, date) THEN DateRefused
    ELSE IF ~Resolvable(pkg, risk, date) THEN Failed
    ELSE Using(Context(pkg, risk, date), LAMBDA ctx :
            Using(Calculated(pkg, date, ctx), LAMBDA run : Outcome(pkg, run)))

\* resolve_calculation_date: explicit, or the start of the package.
NoDate == 0

CalculationDate(pkg, explicit) == IF explicit = NoDate THEN pkg.period.start ELSE explicit
=============================================================================
