------------------------- MODULE RatingServiceProofs -------------------------
(***************************************************************************)
(* A row fares the same alone and in any batch (rating_engine, connectors/ *)
(* client.py, impact/processor.py): for any portfolio, any quotes that     *)
(* fail, and whatever the two sides allow in a batch.                      *)
(***************************************************************************)
EXTENDS MCAssurance, SequenceTheorems, TLAPS

-----------------------------------------------------------------------------
(* The chunk of a row *)

\* A row is found in its chunk where the client looks for it, and a chunk is
\* neither empty nor larger than agreed.
LEMMA RowInChunk ==
    ASSUME NEW Quotes, NEW rows \in Seq(Quotes), NEW i \in 1 .. Len(rows), NEW size \in Nat \ {0}
    PROVE  LET chunk == ChunkOf(rows, i, size)
               at == ((i - 1) % size) + 1
           IN  /\ Len(chunk) \in 1 .. size
               /\ at \in 1 .. Len(chunk)
               /\ DOMAIN chunk = 1 .. Len(chunk)
               /\ chunk[at] = rows[i]
<1> DEFINE first == ((i - 1) \div size) * size
           last == IF first + size > Len(rows) THEN Len(rows) ELSE first + size
           at == ((i - 1) % size) + 1
<1>1. Len(rows) \in Nat /\ \A k \in 1 .. Len(rows) : rows[k] \in Quotes
    BY LenProperties, ElementOfSeq
<1>2. /\ first \in Nat /\ last \in Nat
      /\ at \in 1 .. size
      /\ first + at = i
    BY <1>1
<1>3. /\ first < i /\ i <= last /\ last <= Len(rows)
      /\ last - first \in 1 .. size
      /\ at \in 1 .. last - first
    BY <1>1, <1>2
<1> HIDE DEF first, last, at
<1>4. /\ first + 1 \in Int /\ last \in Int
      /\ \A k \in first + 1 .. last : rows[k] \in Quotes
    BY <1>1, <1>2, <1>3
<1> DEFINE chunk == SubSeq(rows, first + 1, last)
<1>5. /\ chunk \in Seq(Quotes)
      /\ Len(chunk) = IF first + 1 <= last THEN last - (first + 1) + 1 ELSE 0
      /\ \A k \in 1 .. last - (first + 1) + 1 : chunk[k] = rows[(first + 1) + k - 1]
    BY <1>4, SubSeqProperties, SMTT(30)
<1>6. ChunkOf(rows, i, size) = chunk
    BY DEF ChunkOf, first, last
<1> HIDE DEF chunk
<1>7. Len(chunk) = last - first /\ at \in 1 .. last - (first + 1) + 1
    BY <1>2, <1>3, <1>5
<1>8. (first + 1) + at - 1 = i
    BY <1>2, <1>3
<1>9. chunk[at] = rows[i]
    BY <1>5, <1>7, <1>8
<1>10. DOMAIN chunk = 1 .. Len(chunk)
    BY <1>5, LenProperties
<1> QED
    BY <1>3, <1>6, <1>7, <1>9, <1>10 DEF at

-----------------------------------------------------------------------------
(* The answer of the engine *)

\* The envelope of the vendor changes nothing.
LEMMA SameEngine ==
    ASSUME NEW faults, NEW q, NEW format \in Formats
    PROVE  Handle(faults, TargetPayload(format, q)) = Answer(faults, q)
BY DEF Formats, TargetPayload, Handle, VendorAnswer, Answer, FaultKey, Served, Rateable

\* An item of a batch that is accepted fares as a quote of its own.
LEMMA ItemFares ==
    ASSUME NEW faults, NEW q, q.version \in EngineVersions
    PROVE  LET item == ItemOutcome(faults, q)
               answer == Answer(faults, q)
           IN  (IF item.status = "OK" THEN QuotedAt(item.premium) ELSE Unpriced(item.code))
                = (IF answer.status = 200 THEN QuotedAt(answer.premium)
                   ELSE Unpriced(StatusCode(answer.status)))
<1>1. CASE FaultKey(q) \in faults
    <2>1. StatusCode(503) = "CONNECTOR_UPSTREAM_ERROR"
        BY DEF StatusCode
    <2>2. Unpriced("CONNECTOR_UPSTREAM_ERROR") = Unpriced("TEMPORARILY_UNAVAILABLE")
        BY DEF Unpriced, Transient, RetryableCodes
    <2>3. Answer(faults, q).status = 503 /\ ItemOutcome(faults, q).status = "ERROR"
            /\ ItemOutcome(faults, q).code = "TEMPORARILY_UNAVAILABLE"
        BY <1>1 DEF Answer, ItemOutcome, Refused
    <2> QED
        BY <2>1, <2>2, <2>3
<1>2. CASE FaultKey(q) \notin faults /\ (~Served(q) \/ ~Rateable(q.inputs))
    <2>1. StatusCode(422) = "CONNECTOR_REQUEST_REJECTED"
        BY DEF StatusCode
    <2>2. Unpriced("CONNECTOR_REQUEST_REJECTED") = Unpriced("RATING_FAILED")
        BY DEF Unpriced, Transient, RetryableCodes, BudgetExceeded
    <2>3. Answer(faults, q).status = 422 /\ ItemOutcome(faults, q).status = "ERROR"
            /\ ItemOutcome(faults, q).code = "RATING_FAILED"
        BY <1>2 DEF Answer, ItemOutcome, Refused
    <2> QED
        BY <2>1, <2>2, <2>3
<1>3. CASE FaultKey(q) \notin faults /\ Served(q) /\ Rateable(q.inputs)
    BY <1>3 DEF Answer, ItemOutcome, Rated
<1> QED
    BY <1>1, <1>2, <1>3

\* What the batch refuses as a whole befalls each of its rows alone.
LEMMA RefusalFares ==
    ASSUME NEW q, q.version \notin EngineVersions \/ q.product # ProductId,
           NEW max \in Nat, NEW items, Len(items) \in 1 .. max
    PROVE  LET together == BatchStatus(max, q.version, q.product, items)
               alone == Answer({}, q).status
           IN  /\ together # 200 /\ alone # 200
               /\ StatusCode(together) = StatusCode(alone)
<1>1. StatusCode(400) = StatusCode(422)
    BY DEF StatusCode
<1>2. Answer({}, q).status \in {400, 422}
    BY DEF Answer, Served, Refused
<1>3. BatchStatus(max, q.version, q.product, items) \in {400, 422}
    BY DEF BatchStatus
<1> QED
    BY <1>1, <1>2, <1>3

\* A row fares the same whether it is quoted alone or in a batch
\* (execute_quote_batch of quote_service.py and the chunks of processor.py),
\* for any portfolio, injected faults, limits of both sides and chunk size.
THEOREM NeighboursDoNotMatter ==
    ASSUME NEW Quotes, NEW rows \in Seq(Quotes), NEW i \in 1 .. Len(rows), NEW version, NEW product,
           \A k \in 1 .. Len(rows) : rows[k].version = version /\ rows[k].product = product,
           NEW faults, faults = {} \/ (version \in EngineVersions /\ product = ProductId),
           NEW format \in Formats,
           NEW engine \in Nat \ {0}, NEW client \in Nat \ {0}, NEW batchSize \in Nat \ {0}
    PROVE  RowAlone(faults, format, rows[i])
            = RowTogether(faults, engine, client,
                          ChunkSize(BatchLimit("rateguard_native_v1", Capabilities(engine), client), batchSize),
                          version, product, rows, i)
<1> DEFINE limit == BatchLimit("rateguard_native_v1", Capabilities(engine), client)
           size == ChunkSize(limit, batchSize)
           chunk == ChunkOf(rows, i, size)
           at == ((i - 1) % size) + 1
           alone == Answer(faults, rows[i])
           answer == BatchAnswer(faults, engine, version, product, chunk)
<1>1. size \in Nat \ {0} /\ size <= engine /\ size <= client
    BY DEF BatchLimit, Capabilities, Parsed, BatchSchema, ChunkSize
<1>2. /\ Len(chunk) \in 1 .. size
      /\ at \in 1 .. Len(chunk)
      /\ DOMAIN chunk = 1 .. Len(chunk)
      /\ chunk[at] = rows[i]
    BY <1>1, RowInChunk
<1>3. Sendable(client, chunk) /\ Len(chunk) \in 1 .. engine
    BY <1>1, <1>2 DEF Sendable
<1>4. RowAlone(faults, format, rows[i])
        = IF alone.status = 200 THEN QuotedAt(alone.premium) ELSE Unpriced(StatusCode(alone.status))
    BY SameEngine DEF RowAlone
<1>5. RowTogether(faults, engine, client, size, version, product, rows, i)
        = IF answer.status # 200 THEN Unpriced(StatusCode(answer.status))
          ELSE IF answer.results[at].status = "OK" THEN QuotedAt(answer.results[at].premium)
          ELSE Unpriced(answer.results[at].code)
    BY <1>3 DEF RowTogether
<1>6. rows[i].version = version /\ rows[i].product = product
    OBVIOUS
<1> HIDE DEF limit, size, chunk, at, alone
<1>7. CASE version \in EngineVersions /\ product = ProductId
    <2>1. answer.status = 200 /\ answer.results = [k \in DOMAIN chunk |-> ItemOutcome(faults, chunk[k])]
        BY <1>3, <1>7 DEF BatchAnswer, BatchStatus
    <2>2. answer.results[at] = ItemOutcome(faults, rows[i])
        BY <1>2, <2>1
    <2> HIDE DEF answer
    <2> QED
        BY <1>4, <1>5, <1>6, <1>7, <2>1, <2>2, ItemFares DEF alone, size, limit
<1>8. CASE version \notin EngineVersions \/ product # ProductId
    <2>1. faults = {}
        BY <1>8
    <2>2. answer.status = BatchStatus(engine, version, product, chunk)
        BY DEF BatchAnswer
    <2>3. answer.status # 200 /\ alone.status # 200 /\ StatusCode(answer.status) = StatusCode(alone.status)
        BY <1>3, <1>6, <1>8, <2>1, <2>2, RefusalFares DEF alone
    <2> HIDE DEF answer
    <2> QED
        BY <1>4, <1>5, <2>3 DEF size, limit
<1> QED
    BY <1>7, <1>8

-----------------------------------------------------------------------------
(* The quotes of the run *)

LEMMA QuotesFit ==
    ASSUME NEW version, NEW product, NEW quotes \in {QuotesOf(version, product)}
    PROVE  \E Quotes :
             /\ quotes \in Seq(Quotes)
             /\ DOMAIN quotes = 1 .. Len(quotes)
             /\ \A k \in DOMAIN quotes : quotes[k].version = version /\ quotes[k].product = product
<1> DEFINE Quotes == {QuoteOf(QuotedRows[k], version, product) : k \in 1 .. 11}
<1>1. DOMAIN QuotedRows = 1 .. 11
    BY DEF QuotedRows
<1>2. quotes = [k \in 1 .. 11 |-> QuoteOf(QuotedRows[k], version, product)]
    BY <1>1 DEF QuotesOf
<1>3. quotes \in Seq(Quotes)
    BY <1>2
<1>4. DOMAIN quotes = 1 .. Len(quotes)
    BY <1>3, LenProperties
<1>5. \A k \in DOMAIN quotes : quotes[k].version = version /\ quotes[k].product = product
    BY <1>2 DEF QuoteOf
<1> QED
    BY <1>3, <1>4, <1>5

\* So the rows of the run fare alike, whatever the missions are.
THEOREM RowsFareAlike == Spec => []AloneOrTogether
<1>1. AloneOrTogether
    <2> SUFFICES ASSUME NEW version \in EngineVersions \cup {"v2"}, NEW product \in {ProductId, "az_auto"},
                        NEW quotes \in {QuotesOf(version, product)}, NEW faults \in FaultModes(quotes),
                        NEW engine \in {2, MaxItems, 9}, NEW batchSize \in {3, 9},
                        NEW i \in DOMAIN quotes, NEW format \in Formats
                 PROVE  \/ faults # {} /\ (version \notin EngineVersions \/ product # ProductId)
                        \/ RowAlone(faults, format, quotes[i])
                            = RowTogether(faults, engine, MaxItems, SizeWith(engine, batchSize), version,
                                          product, quotes, i)
        BY Zenon DEF AloneOrTogether
    <2> SUFFICES ASSUME faults = {} \/ (version \in EngineVersions /\ product = ProductId)
                 PROVE  RowAlone(faults, format, quotes[i])
                            = RowTogether(faults, engine, MaxItems, SizeWith(engine, batchSize), version,
                                          product, quotes, i)
        BY Zenon
    <2>1. PICK Quotes : /\ quotes \in Seq(Quotes)
                        /\ DOMAIN quotes = 1 .. Len(quotes)
                        /\ \A k \in DOMAIN quotes : quotes[k].version = version /\ quotes[k].product = product
        BY QuotesFit
    <2>2. engine \in Nat \ {0} /\ MaxItems \in Nat \ {0} /\ batchSize \in Nat \ {0}
        BY DEF MaxItems
    <2>3. i \in 1 .. Len(quotes)
          /\ \A k \in 1 .. Len(quotes) : quotes[k].version = version /\ quotes[k].product = product
        BY <2>1
    <2> QED
        BY <2>1, <2>2, <2>3, NeighboursDoNotMatter, SMTT(30) DEF SizeWith
<1> QED
    BY <1>1, PTL
=============================================================================
