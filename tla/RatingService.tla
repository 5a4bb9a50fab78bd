---------------------------- MODULE RatingService ----------------------------
(***************************************************************************)
(* The demo insurer's rating engine (rating_engine): a black box behind    *)
(* three endpoints, one for a quote, one for a batch, one with a vendor's  *)
(* envelope; and a row's way there and back through connectors/client.py   *)
(* and the chunks of impact/processor.py.  It answers from its arguments   *)
(* alone, so it is a set of functions.                                     *)
(*                                                                         *)
(* Premiums, factors and inputs are in thousandths, as in RatingKernel; an *)
(* input that is no number (a boolean, a text) is NotANumber.  Dwelling    *)
(* limits are in thousand dollars.                                         *)
(***************************************************************************)
EXTENDS RatingKernel, ConnectorClient

NotANumber == -Open

-----------------------------------------------------------------------------
(* What the engine is made of (engines/versions.py) *)

ProductId == "az_ho3"
EffectiveFrom == 100
SupportedTransactionTypes == {"NEW_BUSINESS", "RENEWAL"}
RequiredInputs == {"roof_age", "dwelling_limit"}
EngineBaseRate == 500 * Unit

EngineVersions == {"canonical-v1", "defective-v1"}

Tier(min, max, factor) == [min |-> min, max |-> max, factor |-> factor]

\* Mutant: a roof of ten years is an old one.
RoofAgeTiersShifted(version) ==
    {Tier(0, 9, 1000), Tier(10, 20, 1200),
     Tier(21, Open, IF version = "canonical-v1" THEN 1400 ELSE 1310)}

RoofAgeTiers(version) ==
    {Tier(0, 10, 1000), Tier(11, 20, 1200),
     Tier(21, Open, IF version = "canonical-v1" THEN 1400 ELSE 1310)}

-----------------------------------------------------------------------------
(* A quote: [version, product, date, type, inputs] *)

\* _validate_context
Served(q) ==
    /\ q.product = ProductId
    /\ q.date >= EffectiveFrom
    /\ q.type \in SupportedTransactionTypes

\* _parse_roof_age, _validate_dwelling_limit: a whole number, an amount.
Rateable(inputs) ==
    /\ RequiredInputs \subseteq DOMAIN inputs
    /\ inputs.roof_age >= 0 /\ inputs.roof_age % Unit = 0
    /\ inputs.dwelling_limit >= 0

\* _rate: the limit is required and counts for nothing.
EnginePremium(version, inputs) ==
    LET age == inputs.roof_age \div Unit
        tier == CHOOSE t \in RoofAgeTiers(version) : t.min <= age /\ age <= t.max
    IN  Round(Times(EngineBaseRate, tier.factor), 2, "HALF_UP")

\* should_fail: which quotes fail is a function of date and inputs; RATING_ENGINE_
\* FAULT_MODE says how many, none when it is unset.
FaultKey(q) == [date |-> q.date, inputs |-> q.inputs]

Refused(status) == [status |-> status, premium |-> 0]
Rated(premium) == [status |-> 200, premium |-> premium]

\* POST /quote: the fault comes first, then the version.
Answer(faults, q) ==
    IF FaultKey(q) \in faults THEN Refused(503)
    ELSE IF q.version \notin EngineVersions THEN Refused(400)
    ELSE IF ~Served(q) \/ ~Rateable(q.inputs) THEN Refused(422)
    ELSE Rated(EnginePremium(q.version, q.inputs))

\* POST /vendor/rate-quote: the same engine behind another envelope.
VendorAnswer(faults, policy) ==
    Answer(faults, [version |-> policy.engineVersion, product |-> policy.productCode,
                    date |-> policy.asOfDate, type |-> policy.transactionType,
                    inputs |-> policy.ratingFactors])

\* Mutant: an injected fault is an item that cannot be rated.
ItemOutcomeBlamed(faults, q) ==
    IF FaultKey(q) \in faults \/ ~Served(q) \/ ~Rateable(q.inputs)
    THEN [status |-> "ERROR", code |-> "RATING_FAILED", premium |-> 0]
    ELSE [status |-> "OK", code |-> "", premium |-> EnginePremium(q.version, q.inputs)]

ItemOutcome(faults, q) ==
    IF FaultKey(q) \in faults
    THEN [status |-> "ERROR", code |-> "TEMPORARILY_UNAVAILABLE", premium |-> 0]
    ELSE IF ~Served(q) \/ ~Rateable(q.inputs)
    THEN [status |-> "ERROR", code |-> "RATING_FAILED", premium |-> 0]
    ELSE [status |-> "OK", code |-> "", premium |-> EnginePremium(q.version, q.inputs)]

\* POST /quote/batch: a batch has one version and one product.  max is
\* BATCH_MAX_ITEMS; what breaks the schema is refused with 422 as well.
BatchStatus(max, version, product, items) ==
    IF Len(items) \notin 1 .. max THEN 422
    ELSE IF version \notin EngineVersions THEN 400
    ELSE IF product # ProductId THEN 422
    ELSE 200

\* execute_quote_batch: every item has an outcome of its own.
BatchAnswer(faults, max, version, product, items) ==
    LET status == BatchStatus(max, version, product, items)
    IN  [status |-> status,
         results |-> IF status = 200 THEN [i \in DOMAIN items |-> ItemOutcome(faults, items[i])]
                                     ELSE <<>>]

BatchSchema == "quote-batch-v1"

\* GET /capabilities
Capabilities(max) == [schema |-> BatchSchema, max |-> max]

\* run_startup_selftest: without both premiums the service is never ready.
GoldenQuote(version) ==
    [version |-> version, product |-> ProductId, date |-> EffectiveFrom, type |-> "NEW_BUSINESS",
     inputs |-> [roof_age |-> 25 * Unit, dwelling_limit |-> 300 * Unit]]

GoldenExpected(version) == IF version = "canonical-v1" THEN 700 * Unit ELSE 655 * Unit

Ready == \A v \in EngineVersions : Answer({}, GoldenQuote(v)) = Rated(GoldenExpected(v))

-----------------------------------------------------------------------------
(* The client's side *)

\* _raise_for_status
StatusCode(status) ==
    CASE status \in {401, 403} -> "CONNECTOR_AUTH_DENIED"
      [] status = 429 \/ status \in 500 .. 599 -> "CONNECTOR_UPSTREAM_ERROR"
      [] status \in (400 .. 499) \ {401, 403, 429} -> "CONNECTOR_REQUEST_REJECTED"
      [] OTHER -> "CONNECTOR_UNEXPECTED_STATUS"

QuotedAt(premium) == [kind |-> "PRICED", premium |-> premium]

\* What a failure is for the row: tried again, or final.
Unpriced(code) == [kind |-> IF Transient(code) THEN "AGAIN" ELSE "FAILED", premium |-> 0]

Formats == {"rateguard_native_v1", "vendor_gateway_v1"}

\* _to_target_payload
TargetPayload(format, q) ==
    IF format = "vendor_gateway_v1"
    THEN [path |-> "/vendor/rate-quote",
          body |-> [engineVersion |-> q.version, productCode |-> q.product, asOfDate |-> q.date,
                    transactionType |-> q.type, ratingFactors |-> q.inputs]]
    ELSE [path |-> "/quote", body |-> q]

Handle(faults, request) ==
    IF request.path = "/quote" THEN Answer(faults, request.body)
    ELSE VendorAnswer(faults, request.body)

\* A row quoted by a request of its own.
RowAlone(faults, format, q) ==
    LET answer == Handle(faults, TargetPayload(format, q))
    IN  IF answer.status = 200 THEN QuotedAt(answer.premium) ELSE Unpriced(StatusCode(answer.status))

\* discover_batch_capability: 0 is single quotes only.  max is the client's own
\* BATCH_MAX_ITEMS.
Parsed(capabilities) ==
    IF capabilities.schema = BatchSchema /\ capabilities.max > 0 THEN capabilities.max ELSE 0

BatchLimit(format, capabilities, max) ==
    IF format # "rateguard_native_v1" THEN 0
    ELSE IF Parsed(capabilities) > max THEN max ELSE Parsed(capabilities)

\* ConnectorBatchRequest: what the client's own schema refuses raises.
Sendable(max, items) == Len(items) \in 1 .. max

\* A chunk has as many rows as connector and configuration allow, and the
\* chunks are cut from the front.
ChunkSize(limit, batchSize) == IF limit > batchSize THEN batchSize ELSE limit

ChunkOf(rows, i, size) ==
    LET first == ((i - 1) \div size) * size
    IN  SubSeq(rows, first + 1, IF first + size > Len(rows) THEN Len(rows) ELSE first + size)

\* A row quoted in the batch of its chunk, the items found by their ids.  engine
\* and client are the two sides' BATCH_MAX_ITEMS, size is at most the limit.
RowTogether(faults, engine, client, size, version, product, rows, i) ==
    LET chunk == ChunkOf(rows, i, size)
        answer == BatchAnswer(faults, engine, version, product, chunk)
        item == answer.results[((i - 1) % size) + 1]
    IN  IF ~Sendable(client, chunk) THEN [kind |-> "RAISED", premium |-> 0]
        ELSE IF answer.status # 200 THEN Unpriced(StatusCode(answer.status))
        ELSE IF item.status = "OK" THEN QuotedAt(item.premium)
        ELSE Unpriced(item.code)
=============================================================================
