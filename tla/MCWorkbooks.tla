------------------------------ MODULE MCWorkbooks ------------------------------
(***************************************************************************)
(* Workbooks: a homeowners tariff and what authors do to it, one cell or   *)
(* row each; and the price a reader of the sheets would work out by hand.  *)
(***************************************************************************)
EXTENDS WorkbookCompiler

Factor(id, v) == [ref |-> id, value |-> v]
Node(id) == Factor(id, 0)
Number(v) == Factor("", v)

NoTest == [any |-> FALSE, of |-> <<>>]
Test(id, op, v) == [left |-> Node(id), op |-> op, right |-> Number(v)]
Both(x, y) == [any |-> FALSE, of |-> <<x, y>>]

InputCell(id, type, allowed, min, max) ==
    [id |-> id, type |-> type, allowed |-> allowed, min |-> min, max |-> max, required |-> TRUE]

RangeRow(min, max, v) ==
    [table |-> "roof_age_factor", dim |-> "roof_age", min |-> min, max |-> max, includeMin |-> TRUE,
     includeMax |-> TRUE, match |-> Blank, value |-> v, priority |-> Blank]

ExactRow(match, v) ==
    [RangeRow(Blank, Blank, v) EXCEPT !.table = "territory_factor", !.dim = "territory", !.match = match]

Calc(id, op, a, b) ==
    [id |-> id, op |-> op, args |-> <<a, b>>, test |-> NoTest, scale |-> Blank, mode |-> ""]

If(id, test, a, b) == [Calc(id, "IF", a, b) EXCEPT !.test = test]

Rounded(id, of) ==
    [Calc(id, "ROUND", Node(of), of) EXCEPT !.args = <<Node(of)>>, !.scale = 2, !.mode = "HALF_UP"]

Sought(id, table) == [Calc(id, "LOOKUP", Node(table), 0) EXCEPT !.args = <<Node(table)>>]

Put(id, source) == [id |-> id, source |-> source, currency |-> "USD"]

Example(id, roof, expected, tolerance) ==
    [id |-> id, date |-> NoDate, expected |-> expected, tolerance |-> tolerance,
     risk |-> [roof_age |-> roof, territory |-> 2000, claims_free_years |-> 5000]]

Workbook ==
    [sheets |-> Sheets, formulas |-> {}, period |-> [start |-> 100, end |-> 465],
     metadata |-> [k \in RequiredKeys \cup {"state"} |->
                      CASE k = "currency" -> "USD" [] k = "country" -> "US" [] k = "state" -> "AZ" [] OTHER -> k],
     inputs |-> <<InputCell("claims_free_years", "DECIMAL", <<>>, 0, 10000),
                  InputCell("roof_age", "DECIMAL", <<>>, 0, 40000),
                  InputCell("territory", "CATEGORY", <<1000, 2000>>, Blank, Blank)>>,
     constants |-> <<[id |-> "base_rate", value |-> 333350]>>,
     tables |-> <<RangeRow(0, 10000, 1000), ExactRow(1000, 1000), RangeRow(11000, Blank, 1200),
                  ExactRow(2000, 1100)>>,
     calculations |-> <<Sought("age", "roof_age_factor"),
                        If("load", Both(Test("claims_free_years", "LT", 3000), Test("territory", "NE", 1000)),
                           Number(2000), Number(1000)),
                        Calc("aged", "MULTIPLY", Node("base_rate"), Node("age")),
                        Calc("located", "MULTIPLY", Node("aged"), Node("territory_factor")),
                        Calc("loaded", "MULTIPLY", Node("located"), Node("load")),
                        Rounded("premium", "loaded")>>,
     outputs |-> <<Put("total", "premium")>>,
     cases |-> <<Example("old_roof", 20000, [total |-> 440020], 0)>>]

\* The golden workbook of the samples (scripts/generate_workbook_v1_samples.py):
\* the plan that the demo engine implements.
GoldenWorkbook(top, expected) ==
    [Workbook EXCEPT
        !.period.end = Open,
        !.inputs = <<InputCell("roof_age", "INTEGER", <<>>, 0, Blank),
                     InputCell("dwelling_limit", "MONEY", <<>>, Blank, Blank)>>,
        !.constants[1].value = 500000,
        !.tables = <<RangeRow(0, 10000, 1000), RangeRow(11000, 20000, 1200), RangeRow(21000, Blank, top)>>,
        !.calculations = <<Sought("rate_factor", "roof_age_factor"),
                           Calc("raw_premium", "MULTIPLY", Node("base_rate"), Node("rate_factor")),
                           Rounded("final_premium", "raw_premium")>>,
        !.outputs = <<Put("final_premium_output", "final_premium")>>,
        !.cases = <<[id |-> "golden_case", date |-> NoDate, tolerance |-> 0,
                     expected |-> [final_premium_output |-> expected],
                     risk |-> [roof_age |-> 25000, dwelling_limit |-> 300000]]>>]

\* Row i of a sheet exchanged, or one added.
With(sheet, i, row) == [Workbook EXCEPT ![sheet] = [@ EXCEPT ![i] = row]]
Plus(sheet, row) == [Workbook EXCEPT ![sheet] = Append(@, row)]

Swapped(s, i, j) == [s EXCEPT ![i] = s[j], ![j] = s[i]]

TwoOutputs(expected) ==
    [Workbook EXCEPT !.calculations = Append(@, Rounded("unloaded", "located")),
                     !.outputs = Append(@, Put("basic", "unloaded")),
                     !.cases = <<[Example("low", 20000, expected, 0) EXCEPT !.risk.claims_free_years = 0]>>]

\* Rows that overlap, and a cell or an operand that cannot be.
Overlapping == Plus("tables", [RangeRow(20000, Blank, 1300) EXCEPT !.priority = 1])

NoRate == [Workbook EXCEPT !.constants[1].value = Blank]

ByZero == [Workbook EXCEPT !.calculations[5] = Calc("loaded", "DIVIDE", Node("located"), Number(0))]

Sound ==
    [filed     |-> Workbook,
     tolerated |-> With("cases", 1, Example("old_roof", 20000, [total |-> 440030], 10)),
     missed    |-> With("cases", 1, Example("old_roof", 20000, [total |-> 440031], 10)),
     one_holds |-> Plus("cases", Example("new_roof", 5000, [total |-> 1], 0)),
     no_cases  |-> [Workbook EXCEPT !.cases = <<>>],
     unknown   |-> With("cases", 1, Example("old_roof", 20000, [price |-> 440020], 0)),
     floor     |-> With("calculations", 6, [Rounded("premium", "loaded") EXCEPT !.mode = "FLOOR"]),
     whole     |-> With("calculations", 6, [Rounded("premium", "loaded") EXCEPT !.scale = 0]),
     either    |-> [Workbook EXCEPT !.calculations[2].test.any = TRUE],
     backwards |-> [Workbook EXCEPT !.calculations = Swapped(@, 4, 5)],
     late_rule |-> [Workbook EXCEPT !.calculations[2].test.of[1] = Test("age", "GT", 1000)],
     half_rule |-> [Workbook EXCEPT !.calculations[2].args[1] = Node("age")],
     of_output |-> [Workbook EXCEPT !.calculations[5].args[2] = Node("total")],
     divided   |-> [Workbook EXCEPT !.calculations[5] = Calc("loaded", "DIVIDE", Node("located"), Node("age"))],
     touching  |-> [Workbook EXCEPT !.tables[3] = [RangeRow(10000, Blank, 1200) EXCEPT !.includeMin = FALSE]],
     excluded  |-> [Workbook EXCEPT !.tables[3].includeMin = FALSE],
     ranked    |-> [Overlapping EXCEPT !.tables[3].priority = 2],
     twice     |-> Plus("tables", ExactRow(2000, 1100)),
     basic     |-> TwoOutputs([total |-> 880044]),
     mistaken  |-> TwoOutputs([total |-> 880040, basic |-> 880040]),
     honest    |-> TwoOutputs([total |-> 880040, basic |-> 440020])]

Unsound ==
    [unranked  |-> Overlapping,
     cycle     |-> [Workbook EXCEPT !.calculations[3].args[1] = Node("located")],
     dangling  |-> [Workbook EXCEPT !.calculations[3].args[1] = Node("rate")],
     no_table  |-> [Workbook EXCEPT !.calculations[1].args = <<Node("roof")>>],
     same_id   |-> Plus("constants", [id |-> "roof_age", value |-> 1000]),
     same_case |-> Plus("cases", Workbook.cases[1]),
     unrounded |-> With("outputs", 1, Put("total", "loaded")),
     mixed     |-> Plus("outputs", [Put("other", "premium") EXCEPT !.currency = "EUR"]),
     by_zero   |-> ByZero,
     no_rate   |-> NoRate,
     ended     |-> [Workbook EXCEPT !.period.end = 99],
     elsewhere |-> [Workbook EXCEPT !.metadata["state"] = "NV"],
     live      |-> [Workbook EXCEPT !.formulas = {"SUM"}]]

\* A row whose bounds are the wrong way round, before or after a faulty one.
Upset == [inverted |-> With("tables", 1, RangeRow(10000, 0, 1000)),
          later    |-> [NoRate EXCEPT !.tables[1] = RangeRow(10000, 0, 1000)],
          earlier  |-> [ByZero EXCEPT !.tables[1] = RangeRow(10000, 0, 1000)]]

Workbooks == Range(Sound) \cup Range(Unsound) \cup Range(Upset)

-----------------------------------------------------------------------------
(* By hand: a calculation is worth what its row says of what the other rows  *)
(* are worth, wherever they stand, and a bound counts when it says so.       *)

NoNumber == Blank

Fits(row, v) ==
    IF ~Ranged(row) THEN row.match = v
    ELSE /\ row.min < v \/ (row.min = v /\ row.includeMin)
         /\ v < Upper(row) \/ (v = Upper(row) /\ row.includeMax)

Cell(wb, id, risk) ==
    LET fitting == SelectSeq(RowsOf(wb, id), LAMBDA row : row.dim \in DOMAIN risk /\ Fits(row, risk[row.dim]))
    IN  IF Len(fitting) = 1 THEN Head(fitting).value ELSE NoNumber

RowNamed(rows, id) == CHOOSE row \in Range(rows) : row.id = id

Stated(wb, ref, risk) ==
    CASE ref \in DOMAIN risk -> risk[ref]
      [] ref \in Range(TableIds(wb)) -> Cell(wb, ref, risk)
      [] ref \in Range(IdsIn(wb.constants)) -> RowNamed(wb.constants, ref).value
      [] OTHER -> NoNumber

Worked(c, v(_)) ==
    LET a == v(c.args[1])
        b == v(c.args[2])
        true(x) == Compare(v(x.left), x.op, v(x.right))
        tests == {true(x) : x \in Range(c.test.of)}
    IN  CASE c.op \in {"ROUND", "LOOKUP"} ->
                IF a = NoNumber \/ c.op = "LOOKUP" THEN a ELSE Round(a, c.scale, c.mode)
          [] c.op = "IF" -> IF (IF c.test.any THEN TRUE \in tests ELSE FALSE \notin tests) THEN a ELSE b
          [] NoNumber \in {a, b} \/ (c.op = "DIVIDE" /\ b = 0) -> NoNumber
          [] OTHER -> CASE c.op = "MULTIPLY" -> (a * b) \div 1000 [] c.op = "DIVIDE" -> (a * 1000) \div b

ByHand(wb, output, risk) ==
    LET worth[id \in Range(IdsIn(wb.calculations))] ==
            Worked(RowNamed(wb.calculations, id),
                   LAMBDA x : CASE x.ref = "" -> x.value
                                [] x.ref \in Range(IdsIn(wb.calculations)) -> worth[x.ref]
                                [] OTHER -> Stated(wb, x.ref, risk))
    IN  worth[RowNamed(wb.outputs, output).source]
=============================================================================
