--------------------------- MODULE WorkbookCompiler ---------------------------
(***************************************************************************)
(* The Controlled Workbook (ingestion/workbook_v1).  Its sheets are judged *)
(* row by row, then as one package (ipir/v0_2); the package is lowered to  *)
(* the one the engine prices (v0_2/compat) and tried on the examples that  *)
(* the workbook itself gives.                                              *)
(*                                                                         *)
(* A sheet is a sequence of rows; ids are well formed, and a row without   *)
(* one is not there.  An operand is a reference or a literal, as in the    *)
(* engine.  A cell without a number is Blank, one without a text "".       *)
(***************************************************************************)
EXTENDS PackageReview

Blank == -Open

-----------------------------------------------------------------------------
(* Rows.  A check of the compiler rejects the workbook; a validator of a     *)
(* model raises, and outside of build_package nobody turns that into a       *)
(* rejection.  The first row that is not OK decides.                         *)

Judged(faulty, broken) == IF faulty THEN "REJECTED" ELSE IF broken THEN "RAISED" ELSE "OK"

JudgedEach(rows, judged(_)) == [i \in DOMAIN rows |-> judged(rows[i])]

Sheets == {"RG_METADATA", "RG_INPUTS", "RG_CONSTANTS", "RG_TABLES", "RG_CALCULATIONS",
           "RG_OUTPUTS", "RG_CONTROL_CASES"}

Operators == {"ADD", "SUBTRACT", "MULTIPLY", "DIVIDE", "MIN", "MAX", "ROUND", "LOOKUP", "IF"}

\* Function names in cells that begin with "=".
Formulas == Operators \cup {"EQ", "NE", "LT", "LTE", "GT", "GTE", "AND", "OR"}

Readable(wb) == Judged(~(Sheets \subseteq wb.sheets) \/ ~(wb.formulas \subseteq Formulas), FALSE)

RequiredKeys == {"package_id", "product_id", "line", "country", "currency", "effective_start"}

Metadata(given) ==
    LET is(key, v) == key \in DOMAIN given /\ given[key] = v
    IN  Judged(\/ ~(RequiredKeys \subseteq DOMAIN given)
               \/ ~is("currency", "USD") \/ ~is("country", "US") \/ ~is("state", "AZ"), FALSE)

Numeric == {"INTEGER", "DECIMAL", "MONEY"}

DataTypes == Numeric \cup {"STRING", "CATEGORY", "BOOLEAN", "DATE"}

Inverted(row) == row.min # Blank /\ row.max # Blank /\ row.min > row.max

JudgedInput(row) ==
    Judged(row.type \notin DataTypes, Inverted(row) \/ (row.type = "BOOLEAN" /\ row.allowed # <<>>))

JudgedConstant(row) == Judged(row.value = Blank, FALSE)

\* The rows of a table need not be next to each other.
TableIds(wb) ==
    Through(LAMBDA ids, row : IF row.table \in Range(ids) THEN ids ELSE Append(ids, row.table), <<>>, wb.tables)

RowsOf(wb, id) == SelectSeq(wb.tables, LAMBDA row : row.table = id)

Ranged(row) == row.min # Blank \/ row.max # Blank

Dimensions(rows) == {rows[i].dim : i \in DOMAIN rows} \ {""}

JudgedRow(row) ==
    Judged(row.value = Blank \/ (~Ranged(row) /\ row.match = Blank), Inverted(row))

JudgedTable(rows) ==
    <<Judged(Cardinality(Dimensions(rows)) # 1, FALSE)>> \o JudgedEach(rows, JudgedRow)

\* parse_operand, parse_condition: one comparison, or two of them.
Written(x) == x.ref # "" \/ x.value # Blank

Operands(c) == Range(c.args) \cup UNION {{x.left, x.right} : x \in Range(c.test.of)}

JudgedCalculation(c) ==
    Judged(\/ c.op \notin Operators
           \/ \E x \in Operands(c) : ~Written(x)
           \/ c.op = "ROUND" /\ (c.scale = Blank \/ c.mode \notin {"HALF_UP", "HALF_EVEN", "FLOOR", "CEILING"})
           \/ c.op = "IF" /\ Len(c.test.of) \notin 1 .. 2
           \/ c.op = "DIVIDE" /\ c.args[2].ref = "" /\ c.args[2].value = 0,
           \/ c.op = "ROUND" /\ c.scale \notin 0 .. 10
           \/ c.op = "LOOKUP" /\ c.args[1].ref = "")

\* What is put out is rounded where it is calculated.
JudgedOutput(wb, out) ==
    Judged(~\E i \in DOMAIN wb.calculations :
              wb.calculations[i].id = out.source /\ wb.calculations[i].op = "ROUND", out.currency = "")

Outputs(wb) ==
    Append(JudgedEach(wb.outputs, LAMBDA out : JudgedOutput(wb, out)),
           Judged(Cardinality({out.currency : out \in Range(wb.outputs)}) > 1, FALSE))

JudgedCase(c) == Judged(c.tolerance = Blank, c.tolerance < 0 \/ DOMAIN c.expected = {})

-----------------------------------------------------------------------------
(* IPIRPackageV2.validate_package *)

IdsIn(rows) == [i \in DOMAIN rows |-> rows[i].id]

Distinct(ids) == Cardinality(Range(ids)) = Len(ids)

Nodes(wb) ==
    IdsIn(wb.inputs) \o IdsIn(wb.constants) \o TableIds(wb) \o IdsIn(wb.calculations) \o IdsIn(wb.outputs)

References(c) == {x.ref : x \in Operands(c)} \ {""}

\* A calculation may even refer to an output.
Resolved(wb) ==
    \A c \in Range(wb.calculations) :
        References(c) \subseteq Range(IF c.op = "LOOKUP" THEN TableIds(wb) ELSE Nodes(wb))

Acyclic(wb) ==
    LET ids == Range(IdsIn(wb.calculations))
        edges == UNION {{<<ref, c.id>> : ref \in References(c) \cap ids} : c \in Range(wb.calculations)}
    IN  \A e \in edges : e[1] # e[2] /\ e[2] \notin Closure(edges, e[1])

Upper(row) == IF row.max = Blank THEN Open ELSE row.max

\* _ranges_overlap: bounds that touch overlap when both rows include them.
EndsBefore(a, b) ==
    Upper(a) < b.min \/ (Upper(a) = b.min /\ ~(a.includeMax /\ b.includeMin))

\* validate_range_coverage: an overlap needs priorities that differ.
Unambiguous(rows) ==
    \A i, j \in {k \in DOMAIN rows : Ranged(rows[k])} :
        \/ i = j \/ EndsBefore(rows[i], rows[j]) \/ EndsBefore(rows[j], rows[i])
        \/ Blank \notin {rows[i].priority, rows[j].priority} /\ rows[i].priority # rows[j].priority

Package(wb) ==
    Judged(\/ wb.period.end < wb.period.start
           \/ wb.calculations = <<>> \/ wb.outputs = <<>>
           \/ ~Distinct(Nodes(wb)) \/ ~Distinct(IdsIn(wb.cases))
           \/ ~Resolved(wb) \/ ~Acyclic(wb)
           \/ \E id \in Range(TableIds(wb)) : ~Unambiguous(RowsOf(wb, id)), FALSE)

Judgements(wb) ==
    <<Readable(wb), Metadata(wb.metadata)>>
    \o JudgedEach(wb.inputs, JudgedInput) \o JudgedEach(wb.constants, JudgedConstant)
    \o FlattenSeq(JudgedEach(TableIds(wb), LAMBDA id : JudgedTable(RowsOf(wb, id))))
    \o JudgedEach(wb.calculations, JudgedCalculation) \o Outputs(wb)
    \o JudgedEach(wb.cases, JudgedCase)

Built(wb) ==
    LET faults == SelectSeq(Judgements(wb), LAMBDA j : j # "OK")
    IN  IF faults = <<>> THEN Package(wb) ELSE Head(faults)

-----------------------------------------------------------------------------
(* lower_to_v0_1 *)

LowerInput(no, row) ==
    [no |-> no, id |-> row.id, numeric |-> row.type \in Numeric, allowed |-> row.allowed,
     min |-> row.min, max |-> Upper(row), required |-> row.required]

\* The engine takes every bound to be included.  In a table with ranges the
\* rows with a value to match never do.
LowerTable(id, rows) ==
    LET range == \E i \in DOMAIN rows : Ranged(rows[i])
        cell(row) == IF range THEN [min |-> row.min, max |-> Upper(row)]
                              ELSE [min |-> row.match, max |-> row.match]
    IN  [id |-> id, period |-> Always,
         dims |-> <<[input |-> CHOOSE dim \in Dimensions(rows) : TRUE, range |-> range]>>,
         rows |-> {[no |-> i, key |-> <<cell(rows[i])>>, value |-> rows[i].value] :
                      i \in {k \in DOMAIN rows : Ranged(rows[k]) = range}}]

\* A conditional becomes a rule, which is evaluated before any calculation.
RuleOf(id) == "_lowered_rule_" \o id

LowerRule(no, c) ==
    [no |-> no, id |-> RuleOf(c.id), condition |-> c.test, whenTrue |-> c.args[1],
     whenFalse |-> c.args[2], period |-> Always]

\* Mutant: the rounding of a calculation is lost.
LowerUnrounded(no, c) ==
    [no |-> no, id |-> c.id, dependsOn |-> {}, period |-> Always, rounding |-> "NONE", precision |-> 2,
     expression |-> [op |-> IF c.op \in {"ROUND", "LOOKUP", "IF"} THEN "REF" ELSE c.op,
                     args |-> IF c.op = "IF" THEN <<[ref |-> RuleOf(c.id), value |-> 0]>> ELSE c.args]]

\* A lookup refers to its table, a conditional to its rule; a workbook never
\* says what a calculation depends on.
LowerCalculation(no, c) ==
    [no |-> no, id |-> c.id, dependsOn |-> {}, period |-> Always,
     rounding |-> IF c.op = "ROUND" THEN c.mode ELSE "NONE",
     precision |-> IF c.op = "ROUND" THEN c.scale ELSE 2,
     expression |-> [op |-> IF c.op \in {"ROUND", "LOOKUP", "IF"} THEN "REF" ELSE c.op,
                     args |-> IF c.op = "IF" THEN <<[ref |-> RuleOf(c.id), value |-> 0]>> ELSE c.args]]

Lower(wb) ==
    LET calc == wb.calculations
    IN  [period |-> wb.period,
         inputs |-> {LowerInput(i, wb.inputs[i]) : i \in DOMAIN wb.inputs},
         constants |-> {[id |-> c.id, value |-> c.value, period |-> Always] : c \in Range(wb.constants)},
         tables |-> {LowerTable(id, RowsOf(wb, id)) : id \in Range(TableIds(wb))},
         rules |-> {LowerRule(i, calc[i]) : i \in {k \in DOMAIN calc : calc[k].op = "IF"}},
         modifiers |-> {}, constraints |-> {}, fees |-> {},
         nodes |-> {LowerCalculation(i, calc[i]) : i \in DOMAIN calc},
         output |-> wb.outputs[1].source]

-----------------------------------------------------------------------------
(* run_control_cases and the receipt *)

Distance(a, b) == IF a < b THEN b - a ELSE a - b

\* Whatever output is expected, the premium is that of the first one.
CasePasses(wb, c) ==
    Using(Lower(wb), LAMBDA pkg :
        Using(EvaluatePackage(pkg, c.risk, CalculationDate(pkg, c.date)), LAMBDA price :
            \A id \in DOMAIN c.expected :
                /\ id \in Range(IdsIn(wb.outputs))
                /\ price.kind = "PREMIUM" /\ Distance(price.premium, c.expected[id]) <= c.tolerance))

\* compile_workbook; RAISED is no status: nothing is returned.
Status(wb) ==
    CASE Built(wb) # "OK" -> Built(wb)
      [] Built(wb) = "OK" /\ wb.cases # <<>> /\ \A c \in Range(wb.cases) : CasePasses(wb, c) -> "VERIFIED"
      [] OTHER -> "REVIEW_REQUIRED"

\* _compile_controlled_workbook: what is rejected is no source, and only the
\* examples that hold are handed to the planner.
Accepted(status) == status \in {"VERIFIED", "REVIEW_REQUIRED"}

VerifiedCases(wb) ==
    LET holding == SelectSeq(wb.cases, LAMBDA c : CasePasses(wb, c))
    IN  [i \in DOMAIN holding |-> [risk |-> holding[i].risk, date |-> holding[i].date]]
=============================================================================
