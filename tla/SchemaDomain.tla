------------------------------ MODULE SchemaDomain ------------------------------
(***************************************************************************)
(* What the compiler asks of a parsed schema beyond its shape: identifiers *)
(* are unique and references resolve, every byte of a frame is written by  *)
(* exactly one owner, a matcher never contradicts what Encode writes, the  *)
(* messages of a pipeline cannot be confused, and a stream's messages fit  *)
(* its framing.  Checks run in the order of the code; the first error wins *)
(* (CASE arms are tried in order).                                         *)
(***************************************************************************)
EXTENDS SchemaParse

Earlier(items, i) == Range(SubSeq(items, 1, i - 1))

DuplicateId(items) == \E i \in DOMAIN items : items[i].id \in {x.id : x \in Earlier(items, i)}

\* The position of the identifier, 0 when nothing has it.
IndexOfId(items, id) ==
  LET found == {i \in DOMAIN items : items[i].id = id} IN IF found = {} THEN 0 ELSE Min(found)

-----------------------------------------------------------------------------
\* What validation derives and leaves in the schema.
Trailer(m) ==
  IF None(m.integrity) THEN 0
  ELSE IF m.integrity[1].algorithm = "SUM8" THEN 1 ELSE m.integrity[1].crc.width \div ByteBits

\* Frame bounds and the payload field of a bounded message.
ResolveBounded(m) ==
  LET b == m.bounded[1]
      payload == IndexOfId(m.fields, b.payload)
      around == b.header + Trailer(m)
  IN [m EXCEPT
        !.length = around + b.maxPayload,
        !.bounded = <<[header |-> b.header, trailer |-> Trailer(m), minPayload |-> b.minPayload,
                       maxPayload |-> b.maxPayload, minFrame |-> around + b.minPayload,
                       maxFrame |-> around + b.maxPayload, payload |-> payload]>>,
        !.fields = SubSeq([i \in DOMAIN m.fields |->
                             IF i = payload THEN [m.fields[i] EXCEPT !.width = b.maxPayload]
                             ELSE m.fields[i]], 1, Len(m.fields))]

TextFieldsOf(m) == SubSeq([i \in DOMAIN m.fields |-> m.fields[i].text[1]], 1, Len(m.fields))

\* The template with its field references resolved.
ActionOf(m, action) ==
  [segments |-> Each(action.segments,
                     LAMBDA s : IF s.kind = "literal" THEN Literal(s.text)
                                ELSE FieldSegment(IndexOfId(m.fields, s.field_id)))]

Built(m, action) == BuildTextAction(ActionOf(m, action), TextFieldsOf(m))

TextLength(m, actions) == IF None(actions) THEN 0 ELSE Built(m, actions[1]).max

ResolveText(m) ==
  [m EXCEPT !.length = Max({TextLength(m, m.text[1].decode), TextLength(m, m.text[1].encode)})]

Resolved(m) ==
  CASE ~None(m.text)    -> ResolveText(m)
    [] ~None(m.bounded) -> ResolveBounded(m)
    [] OTHER            -> m

-----------------------------------------------------------------------------
\* Text messages.
References(actions) ==
  IF None(actions) THEN {}
  ELSE {s.field_id : s \in {x \in Range(actions[1].segments) : x.kind = "field"}}

TextActionProblem(m, actions) ==
  IF None(actions) THEN "OK" ELSE ValidateTextAction(ActionOf(m, actions[1]), TextFieldsOf(m))

ValidateAsciiMessage(m) ==
  LET t == m.text[1]
      field(i) == CASE m.fields[i].id \in {f.id : f \in Earlier(m.fields, i)} -> "DUPLICATE_ID"
                    [] m.fields[i].text[1].min > m.fields[i].text[1].max
                                                     -> "ASCII_FIELD_LENGTH_INVALID"
                    [] OTHER                         -> "OK"
      unused(f) == \/ f.id \notin References(t.decode) \cup References(t.encode)
                   \/ f.encoded /= (f.id \in References(t.encode))
  IN Then(FirstError([i \in DOMAIN m.fields |-> field(i)]),
     Then(TextActionProblem(m, t.decode),
     Then(TextActionProblem(m, t.encode),
     Then(Refuse(\E f \in Range(m.fields) : unused(f), "ASCII_FIELD_REFERENCE_INVALID"),
          Refuse(ResolveText(m).length = 0, "ASCII_FIELD_LENGTH_INVALID")))))

-----------------------------------------------------------------------------
\* Binary messages; from here on m is Resolved.

\* What is checked before the bounds of a bounded message are derived.
BoundedProblem(m) ==
  LET b == m.bounded[1]
      payloads == {f \in Range(m.fields) : f.id = b.payload}
      usable(f) == /\ f.type = "BYTES" /\ f.codec = "BYTES" /\ f.offset = b.header /\ f.width = 0
                   /\ f.source = "INPUT" /\ None(f.conversion)
  IN
  CASE b.minPayload > b.maxPayload                                   -> "VALUE_NOT_REPRESENTABLE"
    [] \E f \in payloads : ~usable(f)                                -> "UNSUPPORTED_FEATURE"
    [] Cardinality({i \in DOMAIN m.fields : m.fields[i].id = b.payload}) /= 1
                                                                     -> "UNKNOWN_REFERENCE"
    [] OTHER                                                         -> "OK"

IsBounded(m) == ~None(m.bounded)

ContainerProblem(m, i) ==
  LET c == m.containers[i]
      end == c.offset + c.width
  IN
  CASE c.id \in {d.id : d \in Earlier(m.containers, i)} -> "DUPLICATE_ID"
    [] end > m.length                                   -> "FIELD_OUT_OF_BOUNDS"
    [] IsBounded(m) /\ end > m.bounded[1].header        -> "FIELD_OUT_OF_BOUNDS"
    [] ~FitsUnsignedWidth(c.base, c.width)              -> "VALUE_NOT_REPRESENTABLE"
    [] OTHER                                            -> "OK"

ContainerOf(m, f) == IndexOfId(m.containers, f.container)

\* Bit 0 is the least (lsb0) or the most (msb0) significant bit of the container.
ShiftOf(c, f) == IF c.lsb0 THEN f.bit ELSE c.width * ByteBits - f.bit - f.bits

BitsOf(m, f) ==
  LET s == ShiftOf(m.containers[ContainerOf(m, f)], f) IN s .. s + f.bits - 1

BitfieldProblem(m, i) ==
  LET f == m.fields[i]
      at == ContainerOf(m, f)
      room == m.containers[at].width * ByteBits
      taken == {g \in Earlier(m.fields, i) : g.codec = "BITFIELD" /\ g.container = f.container}
  IN
  CASE at = 0                                     -> "UNKNOWN_REFERENCE"
    [] f.bits > room \/ f.bit > room - f.bits     -> "FIELD_OUT_OF_BOUNDS"
    [] f.type = "BOOL" /\ f.bits /= 1             -> "VALUE_NOT_REPRESENTABLE"
    [] \E g \in taken : BitsOf(m, g) \cap BitsOf(m, f) /= {} -> "FIELD_OVERLAP"
    [] OTHER                                      -> "OK"

WireProblem(m, i) ==
  LET f == m.fields[i]
      end == f.offset + f.width
      inHeader == IsBounded(m) /\ i /= m.bounded[1].payload
  IN
  CASE f.codec = "BITFIELD"                          -> BitfieldProblem(m, i)
    [] end > m.length                                -> "FIELD_OUT_OF_BOUNDS"
    [] inHeader /\ f.codec = "BYTES" /\ f.width = 0  -> "UNSUPPORTED_FEATURE"
    [] inHeader /\ end > m.bounded[1].header         -> "FIELD_OUT_OF_BOUNDS"
    [] OTHER                                         -> "OK"

\* The largest value the computed length will hold.
ExpectedLength(m, c) ==
  CASE c.scope = "REGION"  -> c.length
    [] c.scope = "PAYLOAD" -> m.bounded[1].maxPayload
    [] OTHER               -> m.length

ComputedLengthProblem(m, i) ==
  LET f == m.fields[i]
      c == f.computed[1]
  IN
  CASE \E g \in Earlier(m.fields, i) : ~None(g.computed) -> "UNSUPPORTED_FEATURE"
    [] \/ f.codec /= "UNSIGNED" \/ ~None(f.conversion) \/ f.width \notin {1, 2, 4}
       \/ f.width = 1 /\ f.order /= "NOT_APPLICABLE"     -> "UNSUPPORTED_FEATURE"
    [] c.scope = "REGION" /\ IsBounded(m)                -> "UNSUPPORTED_FEATURE"
    [] c.scope = "REGION" /\ (c.length = 0 \/ c.offset + c.length > m.length)
                                                         -> "FIELD_OUT_OF_BOUNDS"
    [] c.scope = "PAYLOAD" /\ ~IsBounded(m)              -> "UNSUPPORTED_FEATURE"
    [] IsBounded(m) /\ f.offset + f.width > m.bounded[1].header -> "FIELD_OUT_OF_BOUNDS"
    [] ~FitsUnsignedWidth(ExpectedLength(m, c), f.width) -> "VALUE_NOT_REPRESENTABLE"
    [] OTHER                                             -> "OK"

FitsField(f, value) ==
  CASE f.codec = "BITFIELD" -> FitsUnsignedBits(value, f.bits)
    [] f.type = "INT64"     -> FitsSignedWidth(value, f.width)
    [] OTHER                -> FitsUnsignedWidth(value, f.width)

Derived(f) == DeriveLinearConversion(f.type, f.conversion[1].scale, f.conversion[1].bias)

DerivationProblem(status) ==
  CASE status = "ARITHMETIC_OVERFLOW" -> "INTERNAL_CONTRACT_VIOLATION"
    [] status /= "OK"                 -> "VALUE_NOT_REPRESENTABLE"
    [] OTHER                          -> "OK"

ConversionProblem(f) ==
  IF f.codec /= "UNSIGNED" \/ f.source /= "INPUT" THEN "UNSUPPORTED_FEATURE"
  ELSE DerivationProblem(Derived(f).status)

EnumProblem(f, k) ==
  LET e == f.enums[k]
      before == Earlier(f.enums, k)
  IN
  CASE e.id \in {b.id : b \in before}               -> "DUPLICATE_ID"
    [] e.raw_value \in {b.raw_value : b \in before} -> "DUPLICATE_ID"
    [] ~FitsField(f, e.raw_value)                   -> "VALUE_NOT_REPRESENTABLE"
    [] OTHER                                        -> "OK"

FieldProblem(m, i) ==
  LET f == m.fields[i] IN
  Then(Refuse(f.id \in {g.id : g \in Earlier(m.fields, i)}, "DUPLICATE_ID"),
  Then(WireProblem(m, i),
  Then(IF None(f.computed) THEN "OK" ELSE ComputedLengthProblem(m, i),
  Then(Refuse(f.source = "CONSTANT" /\ ~FitsField(f, f.constant), "VALUE_NOT_REPRESENTABLE"),
  Then(IF None(f.conversion) THEN "OK" ELSE ConversionProblem(f),
       FirstError([k \in DOMAIN f.enums |-> EnumProblem(f, k)]))))))

-----------------------------------------------------------------------------
\* Who owns which bytes: [from, to) of the containers and of the fields outside them.
SpanOf(x) == [from |-> x.offset, to |-> x.offset + x.width]

Spans(m) ==
  Each(m.containers, SpanOf)
  \o Each(SelectSeq(m.fields, LAMBDA f : f.codec /= "BITFIELD"), SpanOf)

Meet(a, b) == a.from < b.to /\ b.from < a.to

SpansOverlap(spans) == \E i, j \in DOMAIN spans : i < j /\ Meet(spans[i], spans[j])

IntegrityStorage(m) ==
  LET i == m.integrity[1] IN [from |-> i.storage, to |-> i.storage + Trailer(m)]

\* The range and the stored value; those of a bounded message move with its payload.
IntegrityProblem(m) ==
  LET i == m.integrity[1]
      b == m.bounded[1]
      range == [from |-> i.offset, to |-> i.offset + i.length]
      storage == IntegrityStorage(m)
  IN
  CASE IsBounded(m) /\ ~i.atPayloadEnd                     -> "INTEGRITY_STORAGE_OUT_OF_BOUNDS"
    [] IsBounded(m) /\ i.endsAtPayload /\ i.offset > b.header -> "INTEGRITY_RANGE_OUT_OF_BOUNDS"
    [] IsBounded(m) /\ i.endsAtPayload                     -> "OK"
    [] i.length = 0                                        -> "INTEGRITY_RANGE_OUT_OF_BOUNDS"
    [] range.to > (IF IsBounded(m) THEN b.minFrame - b.trailer ELSE m.length)
                                                           -> "INTEGRITY_RANGE_OUT_OF_BOUNDS"
    [] IsBounded(m)                                        -> "OK"
    [] storage.to > m.length                               -> "INTEGRITY_STORAGE_OUT_OF_BOUNDS"
    [] Meet(storage, range)                                -> "INTEGRITY_SELF_INCLUDED"
    [] \E s \in Range(Spans(m)) : Meet(storage, s)         -> "INTEGRITY_STORAGE_CONFLICT"
    [] OTHER                                               -> "OK"

-----------------------------------------------------------------------------
\* Matchers.
ClauseBytes(c) == {[offset |-> c.offset + k - 1, value |-> c.bytes[k]] : k \in DOMAIN c.bytes}

FixedBytes(m) == UNION {ClauseBytes(c) : c \in Range(m.clauses)}

FixedAt(m, offset) == {b.value : b \in {x \in FixedBytes(m) : x.offset = offset}}

\* The fixed part of a frame.
HeaderOf(m) == IF IsBounded(m) THEN m.bounded[1].header ELSE m.length

ClauseProblem(m, k) ==
  LET c == m.clauses[k]
      before == UNION {ClauseBytes(d) : d \in Earlier(m.clauses, k)}
  IN
  CASE c.kind = "LENGTH" /\ (IsBounded(m) \/ c.length /= m.length) -> "MATCHER_CONFLICT"
    [] c.kind = "LENGTH"                                           -> "OK"
    [] c.offset + Len(c.bytes) > HeaderOf(m)                       -> "MATCHER_OUT_OF_BOUNDS"
    [] \E a \in ClauseBytes(c), b \in before : a.offset = b.offset /\ a.value /= b.value
                                                                   -> "MATCHER_CONFLICT"
    [] OTHER                                                       -> "OK"

\* The byte of a value at an index of its field.
EncodedByte(value, width, order, index) ==
  LET place == IF order = "BIG" THEN width - 1 - index ELSE index
  IN (value \div Radix ^ place) % Radix

ConstantConflict(m, f) ==
  /\ f.codec /= "BITFIELD" /\ f.source = "CONSTANT"
  /\ \E index \in 0 .. f.width - 1 :
       FixedAt(m, f.offset + index)
         \ {EncodedByte(SignedPattern(f.constant, f.width), f.width, f.order, index)} /= {}

ComputedMatched(m, f) ==
  ~None(f.computed) /\ \E index \in 0 .. f.width - 1 : FixedAt(m, f.offset + index) /= {}

\* What Encode writes into container k whatever the input: base value and constants.
MembersOf(m, k) == SelectSeq(m.fields, LAMBDA f : f.codec = "BITFIELD" /\ ContainerOf(m, f) = k)

DeterminedBits(m, k) ==
  0 .. m.containers[k].width * ByteBits - 1
    \ UNION {BitsOf(m, f) : f \in {g \in Range(MembersOf(m, k)) : g.source = "INPUT"}}

DeterminedValue(m, k) ==
  FoldLeft(LAMBDA value, f : InsertBitfield(value, ShiftOf(m.containers[k], f), f.bits, f.constant),
           m.containers[k].base, SelectSeq(MembersOf(m, k), LAMBDA f : f.source = "CONSTANT"))

\* A bit the matcher fixes to something else than what Encode writes there.
ContainerConflict(m, k) ==
  LET c == m.containers[k]
      bitOf(value, n) == (value \div 2 ^ n) % 2
      logical(index) == IF c.order = "BIG" THEN c.width - 1 - index ELSE index
  IN \E index \in 0 .. c.width - 1 : \E byte \in FixedAt(m, c.offset + index) :
       \E n \in 0 .. ByteBits - 1 :
         LET bit == logical(index) * ByteBits + n IN
         bit \in DeterminedBits(m, k) /\ bitOf(byte, n) /= bitOf(DeterminedValue(m, k), bit)

\* The bytes somebody defines.
Covered(m) ==
  UNION {s.from .. s.to - 1 : s \in {x \in Range(Spans(m)) : x.from < HeaderOf(m)}}
  \cup {b.offset : b \in FixedBytes(m)}
  \cup IF None(m.integrity) \/ IsBounded(m) THEN {}
       ELSE IntegrityStorage(m).from .. IntegrityStorage(m).to - 1

MatcherProblem(m) ==
  LET stored == IF None(m.integrity) \/ IsBounded(m) THEN {}
                ELSE IntegrityStorage(m).from .. IntegrityStorage(m).to - 1
  IN
  CASE IsBounded(m) /\ FixedBytes(m) = {}                     -> "MATCHER_CONFLICT"
    [] \E f \in Range(m.fields) : ComputedMatched(m, f)       -> "MATCHER_CONFLICT"
    [] stored \cap {b.offset : b \in FixedBytes(m)} /= {}     -> "INTEGRITY_STORAGE_CONFLICT"
    [] \E f \in Range(m.fields) : ConstantConflict(m, f)      -> "MATCHER_CONFLICT"
    [] \E k \in DOMAIN m.containers : ContainerConflict(m, k) -> "MATCHER_CONFLICT"
    [] Covered(m) /= 0 .. HeaderOf(m) - 1                     -> "FRAME_NOT_FULLY_DEFINED"
    [] OTHER                                                  -> "OK"

OwnershipProblem(m) ==
  CASE IsBounded(m) /\ \A f \in Range(m.fields) : None(f.computed)  -> "UNSUPPORTED_FEATURE"
    [] \E k \in DOMAIN m.containers : MembersOf(m, k) = <<>>        -> "EMPTY_ARRAY"
    [] SpansOverlap(Spans(m))                                       -> "FIELD_OVERLAP"
    [] OTHER                                                        -> "OK"

BinaryProblem(m) ==
  Then(FirstError([k \in DOMAIN m.containers |-> ContainerProblem(m, k)]),
  Then(FirstError([i \in DOMAIN m.fields |-> FieldProblem(m, i)]),
  Then(OwnershipProblem(m),
  Then(IF None(m.integrity) THEN "OK" ELSE IntegrityProblem(m),
  Then(FirstError([k \in DOMAIN m.clauses |-> ClauseProblem(m, k)]),
       MatcherProblem(m))))))

ValidateMessageDomain(m) ==
  IF ~None(m.text) THEN ValidateAsciiMessage(m)
  ELSE Then(IF IsBounded(m) THEN BoundedProblem(m) ELSE "OK", BinaryProblem(Resolved(m)))

-----------------------------------------------------------------------------
\* Framings on their own.
ValidateStreamFramingLocal(f) ==
  LET end == f.offset + f.width IN
  CASE ~f.stream -> "OK"
    [] f.strategy = "FIXED_LENGTH" -> IF f.length = 0 THEN "INTEGER_OUT_OF_RANGE" ELSE "OK"
    [] f.strategy = "SYNC_FIXED_LENGTH" ->
         IF f.length = 0 \/ Len(f.sync) > f.length THEN "FIELD_OUT_OF_BOUNDS" ELSE "OK"
    [] f.strategy = "ASCII_CRLF" -> "OK"
    [] f.min = 0 \/ f.min > f.max \/ end > f.min   -> "FIELD_OUT_OF_BOUNDS"
    [] f.offset < Len(f.sync)                      -> "FIELD_OVERLAP"
    [] f.max >= Radix ^ f.width                    -> "VALUE_NOT_REPRESENTABLE"
    [] OTHER                                       -> "OK"

FrameLimit(f) ==
  IF f.strategy \in {"SYNC_LENGTH_FIELD", "ASCII_CRLF"} THEN f.max ELSE f.length

MessageFrameBounds(m) ==
  IF IsBounded(m) THEN [min |-> m.bounded[1].minFrame, max |-> m.bounded[1].maxFrame]
  ELSE [min |-> m.length, max |-> m.length]

\* Mutant: the frame lengths are not compared, only the fixed bytes.
FixedMatchersCanIntersect_Bytes(l, r) ==
  /\ None(l.text) /\ None(r.text)
  /\ \A a \in FixedBytes(l), b \in FixedBytes(r) : a.offset = b.offset => a.value = b.value

\* Some frame satisfies both matchers: a common length, and no byte fixed to two values.
FixedMatchersCanIntersect(l, r) ==
  /\ None(l.text) /\ None(r.text)
  /\ l.length >= MessageFrameBounds(r).min /\ r.length >= MessageFrameBounds(l).min
  /\ \A a \in FixedBytes(l), b \in FixedBytes(r) : a.offset = b.offset => a.value = b.value

MessageHasSyncMatcher(m, sync) ==
  \A k \in DOMAIN sync : FixedAt(m, k - 1) = {sync[k]}

MessageHasLengthField(m, framing) ==
  \E f \in Range(m.fields) :
    /\ f.type = "UINT64" /\ f.codec = "UNSIGNED" /\ ~None(f.computed)
    /\ f.computed[1].scope = "FRAME"
    /\ f.offset = framing.offset /\ f.width = framing.width /\ f.order = framing.order

TextStreamProblem(framing, action, fields) ==
  CASE action.max > framing.max                  -> "ASCII_STREAM_PROFILE_MISMATCH"
    [] ~ProveAsciiCrLfBoundary(action, fields)   -> "ASCII_STREAM_BOUNDARY_UNPROVEN"
    [] OTHER                                     -> "OK"

\* What a stream asks of a message it delivers.
StreamProblem(framing, m) ==
  LET bounds == MessageFrameBounds(m)
      decode == m.text[1].decode
  IN
  CASE framing.strategy = "ASCII_CRLF" ->
         IF None(decode) THEN "OK"
         ELSE TextStreamProblem(framing, Built(m, decode[1]), TextFieldsOf(m))
    [] framing.strategy /= "SYNC_LENGTH_FIELD" /\ {bounds.min, bounds.max} /= {framing.length}
         -> "FIELD_OUT_OF_BOUNDS"
    [] framing.strategy /= "FIXED_LENGTH" /\ ~MessageHasSyncMatcher(m, framing.sync)
         -> "MATCHER_CONFLICT"
    [] framing.strategy = "SYNC_LENGTH_FIELD" /\
         (bounds.min < framing.min \/ bounds.max > framing.max
           \/ ~MessageHasLengthField(m, framing))
         -> "FIELD_OUT_OF_BOUNDS"
    [] OTHER -> "OK"

\* Reference k of a pipeline, against the messages before it.
ReferenceOf(schema, p, k) ==
  LET id == p.messages[k]
      at == IndexOfId(schema.messages, id)
      before == {schema.messages[IndexOfId(schema.messages, e)] : e \in Earlier(p.messages, k)}
  IN
  CASE id \in Earlier(p.messages, k)                      -> "DUPLICATE_REFERENCE"
    [] at = 0                                             -> "UNKNOWN_REFERENCE"
    [] schema.messages[at].direction /= p.direction       -> "DIRECTION_MISMATCH"
    [] \E e \in before : FixedMatchersCanIntersect(e, schema.messages[at]) -> "AMBIGUOUS_MATCHER"
    [] OTHER                                              -> "OK"

\* The messages a stream pipeline delivers; a text stream needs one that is decoded.
StreamsProblem(framing, messages) ==
  IF ~framing.stream THEN "OK"
  ELSE Then(FirstError([k \in DOMAIN messages |-> StreamProblem(framing, messages[k])]),
            Refuse(/\ framing.strategy = "ASCII_CRLF"
                   /\ \A k \in DOMAIN messages : None(messages[k].text[1].decode),
                   "ASCII_STREAM_PROFILE_MISMATCH"))

PipelineProblem(schema, p) ==
  LET at == IndexOfId(schema.framings, p.framing) IN
  Then(Refuse(at = 0, "UNKNOWN_REFERENCE"),
  Then(FirstError([k \in DOMAIN p.messages |-> ReferenceOf(schema, p, k)]),
       StreamsProblem(schema.framings[at],
                      [k \in DOMAIN p.messages |->
                         schema.messages[IndexOfId(schema.messages, p.messages[k])]])))

Validated(schema) == [schema EXCEPT !.messages = Each(@, Resolved)]

PipelinesProblem(schema) ==
  FirstError([i \in DOMAIN schema.pipelines |-> PipelineProblem(schema, schema.pipelines[i])])

DomainError(schema) ==
  Then(Refuse(\/ DuplicateId(schema.framings) \/ DuplicateId(schema.pipelines)
              \/ DuplicateId(schema.messages), "DUPLICATE_ID"),
  Then(FirstError([i \in DOMAIN schema.framings |->
                     ValidateStreamFramingLocal(schema.framings[i])]),
  Then(FirstError([i \in DOMAIN schema.messages |-> ValidateMessageDomain(schema.messages[i])]),
       PipelinesProblem(Validated(schema)))))
=============================================================================
