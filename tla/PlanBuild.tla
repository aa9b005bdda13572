------------------------------- MODULE PlanBuild -------------------------------
(***************************************************************************)
(* From a validated schema within its budget to a frozen plan.  The        *)
(* assembler resolves references into indices and hands over a draft; the  *)
(* builder does not trust it: it counts again, checks every description    *)
(* again with its own rules, derives the execution plan the codec runs on  *)
(* (RecordLayout) and estimates its memory from that.  The plan exists     *)
(* only when nothing is refused; the first refusal is the answer.          *)
(***************************************************************************)
EXTENDS SchemaDomain

(***************************************************************************)
(* The resource requirements of a validated schema, the limits of a        *)
(* resource profile, and the size of the plan the schema will need, which  *)
(* the plan builder later derives again from the plan itself.              *)
(***************************************************************************)
CONSTANTS Limits,       \* profile -> limits
          PlanLimit     \* bytes the logical plan may take

Total(items, Of(_)) == FoldLeft(LAMBDA sum, x : sum + Of(x), 0, items)
Largest(items, Of(_)) == Max({0} \cup {Of(x) : x \in Range(items)})

ActionsOf(m) == IF None(m.text) THEN <<>> ELSE m.text[1].decode \o m.text[1].encode

\* Counted while the schema is validated.
Requirements(schema) ==
  LET framings == SelectSeq(schema.framings, LAMBDA f : f.stream)
      stream == Largest(framings, FrameLimit)
      fields(Of(_)) == Total(schema.messages, LAMBDA m : Total(m.fields, Of))
  IN [framings   |-> Len(schema.framings), pipelines |-> Len(schema.pipelines),
      messages   |-> Len(schema.messages),
      frame      |-> Largest(schema.messages, LAMBDA m : m.length),
      stream     |-> stream, buffer |-> stream,
      sync       |-> Largest(framings, LAMBDA f : Len(f.sync)),
      fields     |-> fields(LAMBDA f : 1),
      matchers   |-> Total(schema.messages, LAMBDA m : Len(m.clauses)),
      enums      |-> fields(LAMBDA f : Len(f.enums)),
      containers |-> Total(schema.messages, LAMBDA m : Len(m.containers)),
      integrity  |-> Total(schema.messages, LAMBDA m : Len(m.integrity)),
      computed   |-> Total(schema.messages,
                           LAMBDA m : IF \E f \in Range(m.fields) : ~None(f.computed)
                                         THEN 1 ELSE 0),
      conversions |-> fields(LAMBDA f : Len(f.conversion)),
      segments   |-> Total(schema.messages,
                           LAMBDA m : Total(ActionsOf(m), LAMBDA a : Len(a.segments)))]

-----------------------------------------------------------------------------
\* The logical memory of a plan, by category; an array takes its length times one element.
Categories == {"OBJECT", "METADATA", "EXTENSION", "EXECUTION", "MATCHER", "INDEX"}

Words(messages) == (messages + WordBits - 1) \div WordBits

Sizes(pairs) ==
  [c \in Categories |-> FoldLeft(LAMBDA sum, p : sum + IF p[1] = c THEN p[2] ELSE 0, 0, pairs)]

FramingMemory(f) == <<<<"METADATA", 2>>, <<"EXTENSION", 2 * Len(f.sync)>>>>

\* Descriptions of one message: identifiers, matchers, containers, fields and enumerations.
MetadataMemory(m) ==
  <<<<"METADATA", 3 + 2 * Len(m.clauses) + 2 * Len(m.containers) + 2 * Len(m.fields)
                    + 2 * Total(m.fields, LAMBDA f : Len(f.enums))>>,
    <<"MATCHER", Total(m.clauses, LAMBDA c : Len(c.bytes))>>>>

\* What the codec executes for one message: fixed bytes, fields, enumerations, templates.
ExecutionMemory(fixed, containers, fields, enums, segments, characters) ==
  <<<<"EXECUTION", 1 + containers + fields + segments>>, <<"MATCHER", fixed + 2 * characters>>,
    <<"INDEX", 2 * enums>>>>

LiteralCharacters(action) ==
  Total(action.segments, LAMBDA s : IF s.kind = "literal" THEN Len(s.text) ELSE 0)

SchemaExecutionMemory(m) ==
  ExecutionMemory(Cardinality({b.offset : b \in FixedBytes(m)}), Len(m.containers), Len(m.fields),
                  Total(m.fields, LAMBDA f : Len(f.enums)),
                  Total(ActionsOf(m), LAMBDA a : Len(a.segments)),
                  Total(ActionsOf(m), LiteralCharacters))

PipelineMemory(messages, references, groups, grouped, variable, text) ==
  <<<<"METADATA", 3 + references>>, <<"EXECUTION", 1 + groups>>,
    <<"INDEX", Words(messages) + variable + text + grouped>>>>

MessagesOf(schema, p) ==
  SubSeq([k \in DOMAIN p.messages |-> schema.messages[IndexOfId(schema.messages, p.messages[k])]],
         1, Len(p.messages))

\* Fixed messages are grouped by length; only a text message that is decoded is a candidate.
SchemaPipelineMemory(schema, p) ==
  LET ms == MessagesOf(schema, p)
      fixed == SelectSeq(ms, LAMBDA m : None(m.text) /\ None(m.bounded))
  IN PipelineMemory(Len(schema.messages), Len(ms), Cardinality({m.length : m \in Range(fixed)}),
                    Len(fixed), Len(SelectSeq(ms, IsBounded)),
                    Len(SelectSeq(ms, LAMBDA m : ~None(m.text) /\ ~None(m.text[1].decode))))

PlanHead(conversions) == <<<<"OBJECT", 1>>, <<"METADATA", 3>>, <<"EXTENSION", conversions>>>>

EstimateSchemaPlanMemory(schema) ==
  Sizes(PlanHead(Requirements(schema).conversions)
        \o FlattenSeq(Each(schema.framings, FramingMemory))
        \o FlattenSeq(Each(schema.pipelines, LAMBDA p : SchemaPipelineMemory(schema, p)))
        \o FlattenSeq(Each(schema.messages, MetadataMemory))
        \o FlattenSeq(Each(schema.messages, SchemaExecutionMemory)))

Bytes(memory) == SumFunction(memory)

-----------------------------------------------------------------------------
WithinMessage(m, l) ==
  /\ Len(m.fields) <= l.fieldsPerMessage /\ Len(m.clauses) <= l.matchersPerMessage
  /\ Len(m.containers) <= l.fieldsPerMessage
  /\ \A f \in Range(m.fields) : Len(f.enums) <= l.enumsPerField
  /\ \A a \in Range(ActionsOf(m)) : Len(a.segments) <= 2 * l.fieldsPerMessage + 1

\* The size checks first, then the counts, then every message.
WithinProfile(r, l) ==
  /\ r.frame <= l.frame /\ r.stream <= l.frame /\ r.sync <= l.sync /\ r.buffer <= l.session
  /\ r.framings <= l.framings /\ r.pipelines <= l.pipelines /\ r.messages <= l.messages
  /\ r.fields <= l.fields /\ r.matchers <= l.matchers /\ r.enums <= l.enums
  /\ r.containers <= l.fields /\ r.integrity <= l.messages
  /\ r.segments <= 4 * l.fields + 2 * l.messages
  /\ r.computed <= l.messages /\ r.conversions <= l.fields

BudgetError(schema) ==
  LET l == Limits[schema.profile] IN
  CASE ~WithinProfile(Requirements(schema), l)               -> "RESOURCE_LIMIT_EXCEEDED"
    [] \E m \in Range(schema.messages) : ~WithinMessage(m, l) -> "RESOURCE_LIMIT_EXCEEDED"
    [] Bytes(EstimateSchemaPlanMemory(schema)) > PlanLimit   -> "PLAN_MEMORY_LIMIT_EXCEEDED"
    [] OTHER                                                 -> "OK"

-----------------------------------------------------------------------------
\* The assembler.
DraftFraming(f) == f @@ [prefixes |-> PrefixTable(f.sync)]

DraftPipeline(schema, p) ==
  [id |-> p.id, direction |-> p.direction, framing |-> IndexOfId(schema.framings, p.framing),
   messages |-> Each(p.messages, LAMBDA id : IndexOfId(schema.messages, id))]

\* Of the first field with a computed length.
DraftComputed(m) ==
  LET computed == {i \in DOMAIN m.fields : ~None(m.fields[i].computed)}
      f == m.fields[Min(computed)]
      c == f.computed[1]
  IN IF computed = {} THEN <<>>
     ELSE <<[field |-> Min(computed), scope |-> c.scope, offset |-> c.offset,
             length |-> c.length, storage |-> f.offset, width |-> f.width, order |-> f.order,
             expected |-> ExpectedLength(m, c)]>>

ConversionsOf(fields) == SelectSeq(fields, LAMBDA f : ~None(f.conversion))

DraftConversion(f) ==
  [type |-> f.type, fractions |-> f.conversion[1], derived |-> Derived(f).value]

\* earlier: the conversions of the messages before this one.
DraftField(m, earlier, i) ==
  LET f == m.fields[i]
      at == earlier + Len(ConversionsOf(SubSeq(m.fields, 1, i)))
  IN [f EXCEPT !.container = ContainerOf(m, f), !.conversion = IF None(@) THEN 0 ELSE at]

DraftText(m) ==
  [decode |-> Each(m.text[1].decode, LAMBDA a : Built(m, a)),
   encode |-> Each(m.text[1].encode, LAMBDA a : Built(m, a))]

DraftMessage(schema, mi) ==
  LET m == schema.messages[mi]
      earlier == Total(SubSeq(schema.messages, 1, mi - 1), LAMBDA e : Len(ConversionsOf(e.fields)))
  IN [m EXCEPT !.fields = SubSeq([i \in DOMAIN @ |-> DraftField(m, earlier, i)], 1, Len(@)),
               !.text = IF None(@) THEN @ ELSE <<DraftText(m)>>]
     @@ [computed |-> DraftComputed(m)]

Assemble(schema) ==
  [version |-> schema.version, profile |-> schema.profile,
   requirements |-> Requirements(schema), memory |-> EstimateSchemaPlanMemory(schema),
   framings |-> Each(schema.framings, DraftFraming),
   pipelines |-> Each(schema.pipelines, LAMBDA p : DraftPipeline(schema, p)),
   messages |-> SubSeq([mi \in DOMAIN schema.messages |-> DraftMessage(schema, mi)],
                       1, Len(schema.messages)),
   conversions |-> FlattenSeq(Each(schema.messages, LAMBDA m : Each(ConversionsOf(m.fields),
                                                                    DraftConversion)))]

-----------------------------------------------------------------------------
\* Counts, conversions and framings.
MetadataValid(d) ==
  /\ d.version \in Versions /\ d.profile \in DOMAIN Limits
  /\ <<>> \notin {d.framings, d.pipelines, d.messages}

Confirms(again, derived) == again.status = "OK" /\ again.value = derived

ConversionValid(d, c) ==
  /\ d.version \in 5 .. 11 /\ c.type \in {"UINT64", "INT64"}
  /\ Confirms(DeriveLinearConversion(c.type, c.fractions.scale, c.fractions.bias), c.derived)

\* Counted again from what the draft holds.
ActualRequirements(d) ==
  LET all(Of(_)) == Total(d.messages, Of)
      largest == Largest(SelectSeq(d.framings, LAMBDA f : f.stream), FrameLimit)
  IN [framings |-> Len(d.framings), pipelines |-> Len(d.pipelines), messages |-> Len(d.messages),
      frame |-> Largest(d.messages, LAMBDA m : m.length), stream |-> largest, buffer |-> largest,
      sync |-> Largest(SelectSeq(d.framings, LAMBDA f : f.stream), LAMBDA f : Len(f.sync)),
      fields |-> all(LAMBDA m : Len(m.fields)), matchers |-> all(LAMBDA m : Len(m.clauses)),
      enums |-> all(LAMBDA m : Total(m.fields, LAMBDA f : Len(f.enums))),
      containers |-> all(LAMBDA m : Len(m.containers)),
      integrity |-> all(LAMBDA m : Len(m.integrity)), computed |-> all(LAMBDA m : Len(m.computed)),
      conversions |-> Len(d.conversions),
      segments |-> all(LAMBDA m : Total(ActionsOf(m), LAMBDA a : Len(a.segments)))]

CountsWithin(r, l) ==
  /\ r.framings <= l.framings /\ r.pipelines <= l.pipelines /\ r.messages <= l.messages
  /\ r.segments <= 4 * l.fields + 2 * l.messages
  /\ r.frame <= l.frame /\ r.fields <= l.fields /\ r.containers <= l.fields
  /\ r.integrity <= l.messages /\ r.computed <= l.messages /\ r.matchers <= l.matchers
  /\ r.enums <= l.enums

CountsValid(d) ==
  /\ CountsWithin(ActualRequirements(d), Limits[d.profile])
  /\ LET l == Limits[d.profile] IN
     \A m \in Range(d.messages) :
       /\ Len(m.fields) <= l.fieldsPerMessage /\ Len(m.containers) <= l.fieldsPerMessage
       /\ Len(m.clauses) <= l.matchersPerMessage
       /\ \A a \in Range(ActionsOf(m)) : Len(a.segments) <= 2 * l.fieldsPerMessage + 1
       /\ \A f \in Range(m.fields) : Len(f.enums) <= l.enumsPerField

PrefixesValid(f) == f.prefixes = PrefixTable(f.sync)

LengthFieldValid(f) ==
  /\ f.length = 0 /\ f.sync /= <<>> /\ f.width \in {1, 2, 4}
  /\ f.min > 0 /\ f.min <= f.max /\ f.offset + f.width <= f.min /\ f.offset >= Len(f.sync)
  /\ IF f.width = 1 THEN f.order = "NOT_APPLICABLE" ELSE f.order \in {"BIG", "LITTLE"}
  /\ f.max < Radix ^ f.width

StrategyValid(version, f) ==
  LET noField == f.offset = 0 /\ f.width = 0 /\ f.order = "NOT_APPLICABLE" /\ f.min = 0 IN
  CASE f.strategy = "ASCII_CRLF"        -> /\ version = 11 /\ f.sync = <<CR, LF>> /\ f.length = 0
                                           /\ noField /\ f.max >= 2
    [] version /= 9                     -> FALSE
    [] f.strategy = "FIXED_LENGTH"      -> f.length > 0 /\ f.sync = <<>> /\ noField /\ f.max = 0
    [] f.strategy = "SYNC_FIXED_LENGTH" -> /\ f.length > 0 /\ Len(f.sync) \in 1 .. f.length
                                           /\ noField /\ f.max = 0
    [] OTHER                            -> LengthFieldValid(f)

FramingPlanValid(d, i) ==
  LET f == d.framings[i] IN
  /\ f.id \notin {e.id : e \in Earlier(d.framings, i)} /\ PrefixesValid(f)
  /\ IF f.stream THEN Len(f.sync) <= Limits[d.profile].sync /\ StrategyValid(d.version, f)
     ELSE /\ f.strategy = "NONE" /\ f.sync = <<>> /\ f.length = 0 /\ f.offset = 0 /\ f.width = 0
          /\ f.order = "NOT_APPLICABLE" /\ f.min = 0 /\ f.max = 0

StreamFits(d, f) == ~f.stream \/ FrameLimit(f) <= Limits[d.profile].frame

-----------------------------------------------------------------------------
\* Text messages.
TextActionValid(m, a) ==
  LET fields == TextFieldsOf(m)
      valid(i) ==
        LET s == a.segments[i] IN
        IF s.kind = "LITERAL"
        THEN /\ s.literal /= <<>> /\ Range(s.literal) \subseteq 0 .. 127
             /\ s.table = PrefixTable(s.literal)
        ELSE /\ s.field \in DOMAIN fields /\ BoundaryClear(a, fields, i)
             /\ fields[s.field].min <= fields[s.field].max
             /\ \A k \in 1 .. i - 1 : a.segments[k].kind = "LITERAL"
                                      \/ a.segments[k].field /= s.field
      sum(Of(_, _)) == Total(a.segments, LAMBDA s : Of(s, fields))
  IN /\ a.segments /= <<>> /\ \A i \in DOMAIN a.segments : valid(i)
     /\ a.min = sum(SegmentMin) /\ a.max = sum(SegmentMax) /\ a.max <= m.length

ReferencedIn(actions) ==
  IF None(actions) THEN {}
   ELSE {s.field : s \in {x \in Range(actions[1].segments) : x.kind = "FIELD"}}

TextFieldValid(m, i) ==
  LET f == m.fields[i] IN
  /\ f.id \notin {g.id : g \in Earlier(m.fields, i)} /\ f.type = "BYTES" /\ f.codec = "TEXT"
  /\ i \in ReferencedIn(m.text[1].decode) \cup ReferencedIn(m.text[1].encode)
  /\ Printable \subseteq f.text[1].allowed

TextProblem(d, m) ==
  CASE \/ d.version \notin {10, 11}
       \/ \E part \in {m.clauses, m.containers, m.integrity, m.bounded, m.computed} : ~None(part)
       \/ \E a \in Range(ActionsOf(m)) : ~TextActionValid(m, a) -> "INVALID_MESSAGE_PLAN"
    [] \E i \in DOMAIN m.fields : ~TextFieldValid(m, i)         -> "INVALID_FIELD_PLAN"
    [] OTHER                                                    -> "OK"

-----------------------------------------------------------------------------
\* Binary messages, part by part.
BoundedValid(d, m) ==
  LET b == m.bounded[1] IN
  /\ d.version \in {8, 9} /\ ~None(m.computed) /\ b.payload \in DOMAIN m.fields
  /\ b.header > 0 /\ b.minPayload <= b.maxPayload
  /\ b.trailer = IF None(m.integrity) THEN 0 ELSE IntegrityWidth(m.integrity[1])
  /\ b.minFrame = b.header + b.minPayload + b.trailer
  /\ b.maxFrame = b.header + b.maxPayload + b.trailer
  /\ m.length = b.maxFrame /\ b.maxFrame <= Limits[d.profile].frame

CrcValid(c) ==
  /\ c.width \in {2 * ByteBits, 4 * ByteBits} /\ c.polynomial % 2 = 1
  /\ {c.polynomial, c.initial, c.xorOutput} \subseteq 0 .. 2 ^ c.width - 1

RangeValid(m, i) ==
  LET b == m.bounded[1]
      from == IF IsBounded(m) THEN b.header + b.minPayload ELSE m.length
  IN IF IsBounded(m) /\ i.endsAtPayload THEN i.offset <= b.header
     ELSE i.length > 0 /\ i.offset + i.length <= from

IntegrityValid(d, m) ==
  LET i == m.integrity[1]
      width == IntegrityWidth(i)
  IN /\ IF i.algorithm = "CRC" THEN d.version \in 6 .. 9 /\ CrcValid(i.crc)
                                    /\ i.order \in {"BIG", "LITTLE"}
        ELSE d.version \in 3 .. 9 /\ (d.version \in 6 .. 9 => i.order = "NOT_APPLICABLE")
     /\ RangeValid(m, i) /\ i.atPayloadEnd = IsBounded(m)
     /\ ~IsBounded(m) => /\ ~i.endsAtPayload /\ i.storage + width <= m.length
                         /\ ~(i.storage < i.offset + i.length /\ i.offset < i.storage + width)

ComputedValid(d, m) ==
  LET c == m.computed[1]
      expected == CASE c.scope = "PAYLOAD" /\ IsBounded(m) -> m.bounded[1].maxPayload
                    [] c.scope = "FRAME"                   -> m.length
                    [] OTHER                               -> c.length
  IN /\ d.version \in 7 .. 9 /\ c.width \in {1, 2, 4}
     /\ IF c.width = 1 THEN c.order = "NOT_APPLICABLE" ELSE c.order \in {"BIG", "LITTLE"}
     /\ c.storage + c.width <= HeaderOf(m)
     /\ IF c.scope = "REGION" THEN ~IsBounded(m) /\ c.length > 0 /\ c.offset + c.length <= m.length
        ELSE c.offset = 0 /\ c.length = 0
     /\ c.scope = "PAYLOAD" => IsBounded(m)
     /\ c.expected = expected /\ FitsUnsignedWidth(expected, c.width)

ComputedFieldValid(m) ==
  LET c == m.computed[1]
      f == m.fields[c.field]
  IN /\ f.type = "UINT64" /\ f.codec = "UNSIGNED" /\ f.source = "COMPUTED" /\ f.enums = <<>>
     /\ f.offset = c.storage /\ f.width = c.width /\ f.order = c.order

ContainerValid(m, k) ==
  LET c == m.containers[k] IN
  /\ c.id \notin {e.id : e \in Earlier(m.containers, k)}
  /\ c.width \in {1, 2, 4, 8} /\ c.offset + c.width <= HeaderOf(m)
  /\ IF c.width = 1 THEN c.order = "NOT_APPLICABLE" ELSE c.order \in {"BIG", "LITTLE"}
  /\ FitsUnsignedWidth(c.base, c.width)

-----------------------------------------------------------------------------
\* Fields.
PlaceValid(m, i) ==
  LET f == m.fields[i]
      payload == IsBounded(m) /\ i = m.bounded[1].payload
  IN
  IF f.codec = "BITFIELD" THEN f.container \in DOMAIN m.containers
  ELSE /\ f.width > 0 /\ f.offset + f.width <= m.length
       /\ IF payload
          THEN f.codec = "BYTES" /\ f.offset = m.bounded[1].header /\ f.width = m.bounded[1].maxPayload
          ELSE f.offset + f.width <= HeaderOf(m)

IntegerValid(d, m, i) ==
  LET f == m.fields[i] IN
  /\ f.width \in 1 .. MaxWidth /\ IsIntegerByteOrderValid(f.order, f.width)
  /\ CASE f.type = "ENUM"  -> f.source = "INPUT" /\ f.enums /= <<>>
       [] f.type = "INT64" -> /\ d.version \in 4 .. 9 /\ f.source \in {"INPUT", "CONSTANT"}
                              /\ f.source = "CONSTANT" => FitsSignedWidth(f.constant, f.width)
       [] f.type = "UINT64" /\ f.source = "COMPUTED" ->
            d.version \in 7 .. 9 /\ ~None(m.computed) /\ m.computed[1].field = i
       [] OTHER -> /\ f.type = "UINT64"
                   /\ f.source = "CONSTANT" => FitsUnsignedWidth(f.constant, f.width)

BitsValid(m, i) ==
  LET f == m.fields[i]
      room == m.containers[f.container].width * ByteBits
  IN /\ f.bits \in 1 .. WordBits /\ f.bit + f.bits <= room
     /\ f.type \in {"UINT64", "BOOL", "ENUM"} /\ (f.type = "BOOL" => f.bits = 1)
     /\ f.type = "ENUM" => f.enums /= <<>>
     /\ \/ f.source = "INPUT"
        \/ f.type = "UINT64" /\ f.source = "CONSTANT" /\ FitsUnsignedBits(f.constant, f.bits)

FieldConversionValid(d, f) ==
  f.conversion /= 0 =>
    /\ d.version \in 5 .. 9 /\ f.conversion \in DOMAIN d.conversions /\ f.codec /= "BITFIELD"
    /\ f.source = "INPUT" /\ f.type = d.conversions[f.conversion].type

EnumsValid(f) ==
  /\ Cardinality({e.id : e \in Range(f.enums)}) = Len(f.enums)
  /\ Cardinality({e.raw_value : e \in Range(f.enums)}) = Len(f.enums)
  /\ \A e \in Range(f.enums) : IF f.codec = "BITFIELD" THEN FitsUnsignedBits(e.raw_value, f.bits)
                                ELSE FitsUnsignedWidth(e.raw_value, f.width)

FieldPlanValid(d, m, i) ==
  LET f == m.fields[i] IN
  /\ f.id \notin {g.id : g \in Earlier(m.fields, i)} /\ PlaceValid(m, i)
  /\ CASE f.codec = "BITFIELD" -> BitsValid(m, i)
       [] f.codec = "BYTES"    -> /\ f.type = "BYTES" /\ f.order = "NOT_APPLICABLE"
                                  /\ f.source = "INPUT" /\ f.enums = <<>>
       [] OTHER                -> IntegerValid(d, m, i)
  /\ FieldConversionValid(d, f) /\ EnumsValid(f)

-----------------------------------------------------------------------------
\* Bit masks of a container: the bits taken, the bits no input changes, and their value.
BitShift(c, f) == IF c.lsb0 THEN f.bit ELSE c.width * ByteBits - f.bit - f.bits

TakeBits(c, acc, f) ==
  LET mask == (2 ^ f.bits - 1) * 2 ^ BitShift(c, f) IN
  [apart |-> acc.apart /\ (acc.taken & mask) = 0, taken |-> acc.taken | mask,
   fixed |-> IF f.source = "INPUT" THEN acc.fixed - (acc.fixed & mask) ELSE acc.fixed,
   value |-> IF f.source = "INPUT" THEN acc.value
             ELSE InsertBitfield(acc.value, BitShift(c, f), f.bits, f.constant)]

ContainerBits(m, k) ==
  LET c == m.containers[k] IN
  FoldLeft(LAMBDA acc, f : TakeBits(c, acc, f),
           [apart |-> TRUE, taken |-> 0, fixed |-> Radix ^ c.width - 1, value |-> c.base],
           SelectSeq(m.fields, LAMBDA f : f.codec = "BITFIELD" /\ f.container = k))

\* Byte intervals in ascending order.
Before(a, b) == a.from < b.from \/ (a.from = b.from /\ a.to < b.to)
Sorted(spans) == SortSeq(spans, Before)

NeighboursOverlap(spans) ==
  LET s == Sorted(spans) IN \E i \in 2 .. Len(s) : s[i].from < s[i - 1].to

CoversWholeFrame(spans, size) ==
  LET extend(acc, s) == IF s.from > acc.end THEN [acc EXCEPT !.gap = TRUE]
                        ELSE [acc EXCEPT !.end = Max({@, s.to})]
      swept == FoldLeft(extend, [gap |-> FALSE, end |-> 0], Sorted(spans))
  IN spans /= <<>> /\ ~swept.gap /\ swept.end = size

\* The fixed bytes of the plan, in ascending order of their offset.
FixedOf(m) == SetToSortSeq(FixedBytes(m), LAMBDA a, b : a.offset < b.offset)

FixedSpans(m) == Each(FixedOf(m), LAMBDA b : [from |-> b.offset, to |-> b.offset + 1])

StoredIntegrity(m) ==
  IF None(m.integrity) \/ IsBounded(m) THEN <<>>
  ELSE LET i == m.integrity[1] IN <<[from |-> i.storage, to |-> i.storage + IntegrityWidth(i)]>>

ClauseValid(m, c) ==
  IF c.kind = "LENGTH" THEN ~IsBounded(m) /\ c.length = m.length
  ELSE c.offset + Len(c.bytes) <= HeaderOf(m)

OneValuePerByte(fixed) == \A a, b \in Range(fixed) : a.offset = b.offset => a = b

\* A matcher byte differs from what Encode is bound to write at its place.
MatcherBeaten(m, b) ==
  LET covers(x) == b.offset \in x.offset .. x.offset + x.width - 1
      place(x) == IF x.order = "BIG" THEN x.width - 1 - (b.offset - x.offset)
                  ELSE b.offset - x.offset
      byteOf(x, value) == (value \div Radix ^ place(x)) % Radix
      beats(c, bits) == ((b.value ^^ byteOf(c, bits.value)) & byteOf(c, bits.fixed)) /= 0
      container(k) == covers(m.containers[k]) /\ beats(m.containers[k], ContainerBits(m, k))
      constant(f) == /\ f.codec = "UNSIGNED" /\ f.source = "CONSTANT" /\ covers(f)
                     /\ b.value /= byteOf(f, SignedPattern(f.constant, f.width))
  IN (\E k \in DOMAIN m.containers : container(k)) \/ (\E f \in Range(m.fields) : constant(f))

MatcherPlanProblem(m) ==
  LET fixed == FixedOf(m)
      at(s) == {b \in Range(fixed) : b.offset \in s.from .. s.to - 1}
      computed == Each(m.computed, LAMBDA c : [from |-> c.storage, to |-> c.storage + c.width])
      header == SelectSeq(Spans(m), LAMBDA s : s.from < HeaderOf(m))
  IN
  CASE \/ \E c \in Range(m.clauses) : ~ClauseValid(m, c)
       \/ ~OneValuePerByte(fixed) \/ (IsBounded(m) /\ fixed = <<>>) -> "INVALID_MATCHER_PLAN"
    [] \E s \in Range(computed \o StoredIntegrity(m)) : at(s) /= {} -> "INVALID_MESSAGE_PLAN"
    [] ~CoversWholeFrame(header \o FixedSpans(m) \o StoredIntegrity(m), HeaderOf(m))
                                                                   -> "FRAME_NOT_FULLY_DEFINED"
    [] \E b \in Range(fixed) : MatcherBeaten(m, b)                 -> "INVALID_MATCHER_PLAN"
    [] OTHER                                                       -> "OK"

BinaryPlanProblem(d, m) ==
  CASE \/ IsBounded(m) /\ ~BoundedValid(d, m)
       \/ ~None(m.integrity) /\ ~IntegrityValid(d, m)
       \/ ~None(m.computed) /\ ~ComputedValid(d, m)                -> "INVALID_MESSAGE_PLAN"
    [] \/ ~None(m.computed) /\ ~ComputedFieldValid(m)
       \/ \E k \in DOMAIN m.containers : ~ContainerValid(m, k)
       \/ \E i \in DOMAIN m.fields : ~FieldPlanValid(d, m, i)
       \/ \E k \in DOMAIN m.containers : ~ContainerBits(m, k).apart \/ ContainerBits(m, k).taken = 0
       \/ NeighboursOverlap(Spans(m))                              -> "INVALID_FIELD_PLAN"
    [] \E i \in Range(StoredIntegrity(m)), s \in Range(Spans(m)) : Meet(i, s)
                                                                   -> "INVALID_MESSAGE_PLAN"
    [] OTHER                                                       -> MatcherPlanProblem(m)

MessagePlanProblem(d, mi) ==
  LET m == d.messages[mi] IN
  CASE \/ m.id \in {e.id : e \in Earlier(d.messages, mi)} \/ m.length = 0
       \/ None(m.text) /\ (m.clauses = <<>> \/ m.fields = <<>>) -> "INVALID_MESSAGE_PLAN"
    [] None(m.text)                                             -> BinaryPlanProblem(d, m)
    [] OTHER                                                    -> TextProblem(d, m)
=============================================================================
