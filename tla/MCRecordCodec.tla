---------------------------- MODULE MCRecordCodec ----------------------------
(***************************************************************************)
(* Three plans with bytes of two bits and words of eight: a schema 0.8     *)
(* plan with a bit container, a bounded payload, a computed length, both   *)
(* integrity algorithms and a conversion; a schema 0.3 plan, which checks  *)
(* values as they come; a schema 0.10 text plan.  A behaviour stays with   *)
(* the workspace drawn for it: one caller on each plan, or two callers on  *)
(* the first.                                                              *)
(***************************************************************************)
EXTENDS RecordFields

Field(type, offset, width, source, ordinal) ==
  [type |-> type, offset |-> offset, width |-> width, order |-> "BIG", source |-> source,
   constant |-> 0, ordinal |-> ordinal, container |-> 0, shift |-> 0, bits |-> 0,
   lookup |-> <<>>, enums |-> <<>>, policy |-> "REJECT", conversion |-> 0, slot |-> 0,
   min |-> 0, max |-> 0, allowed |-> {}, textInput |-> FALSE]

BitField(type, shift, bits, ordinal) ==
  [Field(type, 1, 2, "INPUT", ordinal) EXCEPT !.container = 1, !.shift = shift, !.bits = bits]

\* Raw values in authored order, and sorted for the search.
EnumField(f, raws, policy) ==
  [f EXCEPT !.enums = raws, !.policy = policy,
            !.lookup = SortSeq([i \in DOMAIN raws |-> [raw |-> raws[i], entry |-> i]],
                               LAMBDA a, b : a.raw < b.raw)]

Message(size, fixed, fields) ==
  [size |-> size, fixed |-> fixed, fields |-> fields, containers |-> <<>>, integrity |-> <<>>,
   computed |-> <<>>, bounded |-> <<>>, decode |-> <<>>, encode |-> <<>>]

Starts(byte) == <<[offset |-> 0, value |-> byte]>>

NoCrc == [width |-> 4, polynomial |-> 1, initial |-> 0, xorOutput |-> 0,
          reflectInput |-> FALSE, reflectOutput |-> FALSE]

\* Container at 1..2 (bit 3 is not covered), a signed byte at 3, the sum of 0..3 at 4.
StatusMessage ==
  [Message(5, Starts(1),
           <<BitField("BOOL", 0, 1, 1),
             EnumField(BitField("ENUM", 1, 2, 2), <<2, 0, 3>>, "PRESERVE"),
             Field("INT64", 3, 1, "INPUT", 3)>>)
   EXCEPT !.containers = <<[offset |-> 1, width |-> 2, order |-> "LITTLE", base |-> 8]>>,
          !.integrity = <<[algorithm |-> "SUM8", offset |-> 0, length |-> 4, storage |-> 4,
                           order |-> "NOT_APPLICABLE", endsAtPayload |-> FALSE,
                           atPayloadEnd |-> FALSE, crc |-> NoCrc]>>]

Length(field, scope, offset, length, storage, expected) ==
  [field |-> field, scope |-> scope, offset |-> offset, length |-> length, storage |-> storage,
   width |-> 1, order |-> "NOT_APPLICABLE", expected |-> expected]

\* Header 2 with the payload length at 1, payload of 1 or 2 bytes, a CRC of two bytes behind it.
PayloadMessage ==
  [Message(6, Starts(2), <<[Field("UINT64", 1, 1, "COMPUTED", 0) EXCEPT !.order = "NOT_APPLICABLE"],
                           Field("BYTES", 2, 2, "INPUT", 1)>>)
   EXCEPT !.bounded = <<[header |-> 2, trailer |-> 2, minPayload |-> 1, maxPayload |-> 2,
                         minFrame |-> 5, maxFrame |-> 6, payload |-> 2]>>,
          !.computed = <<Length(1, "PAYLOAD", 0, 0, 1, 2)>>,
          !.integrity = <<[algorithm |-> "CRC", offset |-> 0, length |-> 0, storage |-> 0,
                           order |-> "LITTLE", endsAtPayload |-> TRUE, atPayloadEnd |-> TRUE,
                           crc |-> [NoCrc EXCEPT !.polynomial = 3, !.initial = 5,
                                                 !.reflectInput = TRUE, !.xorOutput = 9]]>>]

\* A constant, a converted signed byte, a plain byte, and the length of bytes 1..2.
ScaledMessage ==
  [Message(5, Starts(3), <<[Field("UINT64", 1, 1, "CONSTANT", 0) EXCEPT !.constant = 2],
                           [Field("INT64", 2, 1, "INPUT", 1) EXCEPT !.conversion = 1, !.slot = 1],
                           [Field("UINT64", 3, 1, "COMPUTED", 0) EXCEPT !.order = "NOT_APPLICABLE"],
                           Field("UINT64", 4, 1, "INPUT", 2)>>)
   EXCEPT !.computed = <<Length(3, "REGION", 1, 2, 3, 2)>>]

\* logical = raw * 1/2 - 1
Half == DeriveLinearConversion("INT64", [num |-> 1, den |-> 2], [num |-> -1, den |-> 1]).value

MCBinary ==
  [schema |-> 8, messages |-> <<StatusMessage, PayloadMessage, ScaledMessage>>,
   pipelines |-> <<[allowed |-> {1, 2, 3}, groups |-> <<[size |-> 5, messages |-> <<1, 3>>]>>,
                    variable |-> <<2>>, text |-> <<>>],
                   [allowed |-> {3}, groups |-> <<[size |-> 5, messages |-> <<3>>]>>,
                    variable |-> <<>>, text |-> <<>>]>>,
   conversions |-> <<Half>>, maxValues |-> 4]

\* Schema 0.3: no conversion, no integrity, an enumeration that refuses what it does not know.
MCPlain ==
  [schema |-> 3,
   messages |-> <<Message(4, Starts(1),
                          <<EnumField(Field("ENUM", 1, 1, "INPUT", 1), <<3, 1>>, "REJECT"),
                            Field("UINT64", 2, 2, "INPUT", 2)>>),
                  Message(3, <<>>, <<Field("BYTES", 0, 2, "INPUT", 1),
                                     Field("UINT64", 2, 1, "INPUT", 2)>>)>>,
   pipelines |-> <<[allowed |-> {1, 2}, groups |-> <<[size |-> 3, messages |-> <<2>>],
                                                     [size |-> 4, messages |-> <<1>>]>>,
                    variable |-> <<>>, text |-> <<>>]>>,
   conversions |-> <<>>, maxValues |-> 3]

\* "A" field "," field: a variable field, its terminator, and a fixed field of two characters.
TextFields ==
  LET field(ordinal, min, max, allowed) ==
        [Field("BYTES", 0, 0, "INPUT", ordinal) EXCEPT !.min = min, !.max = max,
                                                       !.allowed = allowed, !.textInput = TRUE]
  IN <<field(1, 0, 2, {1, 2}), field(2, 1, 1, {2, 3})>>

Template == BuildTextAction([segments |-> <<Literal(<<0>>), FieldSegment(1), Literal(<<2, 1>>),
                                            FieldSegment(2)>>], TextFields)

MCText ==
  [schema |-> 10,
   messages |-> <<[Message(6, <<>>, TextFields) EXCEPT !.decode = <<Template>>,
                                                      !.encode = <<Template>>],
                  [Message(6, <<>>, TextFields) EXCEPT !.encode = <<Template>>]>>,
   pipelines |-> <<[allowed |-> {1, 2}, groups |-> <<>>, variable |-> <<>>, text |-> <<1>>],
                   [allowed |-> {2}, groups |-> <<>>, variable |-> <<>>, text |-> <<>>]>>,
   conversions |-> <<>>, maxValues |-> 2]

-----------------------------------------------------------------------------
Tuples(S, n) == [1 .. n -> S]

DecodeCall(pipeline, input) ==
  [op |-> "DECODE", own |-> TRUE, pipeline |-> pipeline, input |-> input, null |-> FALSE,
   capacity |-> 4, overlap |-> FALSE, fault |-> "none"]

EncodeCall(message, values) ==
  [op |-> "ENCODE", own |-> TRUE, pipeline |-> 1, message |-> message, values |-> values,
   null |-> FALSE, output |-> <<3, 3, 3, 3, 3, 3>>, outputNull |-> FALSE, overlap |-> FALSE,
   fault |-> "none"]

Value(mi, fi, kind, v) ==
  [own |-> TRUE, message |-> mi, field |-> fi, kind |-> kind, v |-> v, null |-> FALSE]
EnumValue(mi, fi, entry) ==
  Value(mi, fi, "ENUM", [own |-> TRUE, message |-> mi, field |-> fi, entry |-> entry, raw |-> 0])

\* Every way a caller can get one argument of a good call wrong.
DecodeSlips(k) ==
  {[k EXCEPT !.own = FALSE], [k EXCEPT !.null = TRUE], [k EXCEPT !.pipeline = 9],
   [k EXCEPT !.capacity = 1], [k EXCEPT !.overlap = TRUE], [k EXCEPT !.fault = "convert"]}

ValueSlips(values) ==
  {Append(values, values[1])} \cup {Tail(values)}
  \cup {[values EXCEPT ![i].own = FALSE] : i \in DOMAIN values}
  \cup {[values EXCEPT ![1].message = 9]}
  \cup {[values EXCEPT ![1].kind = "UINT64", ![1].v = 1], [values EXCEPT ![1].field = 9]}

EncodeSlips(k) ==
  {[k EXCEPT !.own = FALSE], [k EXCEPT !.null = TRUE], [k EXCEPT !.pipeline = 9],
   [k EXCEPT !.message = 9], [k EXCEPT !.outputNull = TRUE], [k EXCEPT !.output = <<1, 1, 1, 1>>],
   [k EXCEPT !.overlap = TRUE], [k EXCEPT !.output = <<0, 0, 0, 0, 0, 0>>]}
  \cup {[k EXCEPT !.fault = f] :
          f \in {"integrity", "length", "decimal", "convert", "review", "ascii"}}
  \cup {[k EXCEPT !.values = vs] : vs \in ValueSlips(k.values)}

BinaryEncodes ==
  {EncodeCall(1, <<Value(1, 1, "BOOL", b), EnumValue(1, 2, e), Value(1, 3, "INT64", n)>>) :
     b \in BOOLEAN, e \in 1 .. 4, n \in -3 .. 2}
  \cup {EncodeCall(2, <<Value(2, 2, "BYTES", p)>>) : p \in BoundedSeq(Byte, 3)}
  \cup {EncodeCall(3, <<Value(3, 4, "UINT64", n), Value(3, 2, "DECIMAL64", Decimal(c, s))>>) :
          n \in 3 .. 4, c \in -30 .. 10, s \in 0 .. 3}
  \cup {EncodeCall(3, <<Value(3, 2, "DECIMAL64", Decimal(0, 0)), Value(3, f, "UINT64", 1)>>) :
          f \in {1, 3}}

GoodBinary ==
  {EncodeCall(1, <<Value(1, 3, "INT64", -1), Value(1, 1, "BOOL", TRUE), EnumValue(1, 2, 2)>>),
   EncodeCall(2, <<Value(2, 2, "BYTES", <<3>>)>>),
   EncodeCall(3, <<Value(3, 4, "UINT64", 1), Value(3, 2, "DECIMAL64", Decimal(-5, 1))>>)}

MCBinaryCalls ==
  {DecodeCall(1, input) : input \in UNION {Tuples(Byte, n) : n \in 4 .. 5}}
  \cup {DecodeCall(1, <<2>> \o input) : input \in Tuples(Byte, 5)}
  \cup UNION {DecodeSlips(DecodeCall(p, <<3, 2, 1, 2, 0>>)) : p \in {1, 2}}
  \cup BinaryEncodes \cup UNION {EncodeSlips(k) : k \in GoodBinary}

\* Few records, many calls: stale workspaces and two callers.
MCSharedCalls ==
  {DecodeCall(1, <<3, 2, 1, 2, 0>>), DecodeCall(1, <<3, 2, 3, 2, 0>>),
   DecodeCall(1, <<3, 2, 1, 1, 0>>), DecodeCall(1, <<1, 3, 1, 2, 3>>),
     DecodeCall(1, <<1, 1, 2, 0, 0>>)}
  \cup GoodBinary
  \cup {[k EXCEPT !.values = Tail(@)] : k \in GoodBinary}
  \cup {EncodeCall(1, <<Value(1, 1, "BOOL", FALSE), EnumValue(1, 2, 1), Value(1, 3, "INT64", 1)>>)}

PlainEncodes ==
  {EncodeCall(1, <<EnumValue(1, 1, e), Value(1, 2, "UINT64", n)>>) :
     e \in 1 .. 3, n \in {0, 7, 15, 16}}
  \cup {EncodeCall(2, <<Value(2, 2, "UINT64", n), Value(2, 1, "BYTES", p)>>) :
          n \in {0, 3, 4}, p \in BoundedSeq(Byte, 3)}

MCPlainCalls ==
  {DecodeCall(1, input) : input \in UNION {Tuples(Byte, n) : n \in 2 .. 4}}
  \cup PlainEncodes
  \cup UNION {EncodeSlips(k) : k \in {EncodeCall(2, <<Value(2, 1, "BYTES", <<1, 2>>),
                                                       Value(2, 2, "UINT64", 1)>>)}}
  \cup {EncodeCall(2, <<[Value(2, 1, "BYTES", <<1, 2>>) EXCEPT !.null = TRUE],
                        Value(2, 2, "UINT64", 1)>>)}

GoodText == EncodeCall(1, <<Value(1, 1, "BYTES", <<2>>), Value(1, 2, "BYTES", <<3>>)>>)

MCTextCalls ==
  {DecodeCall(p, input) : p \in {1, 2}, input \in UNION {Tuples(Byte, n) : n \in 3 .. 6}}
  \cup DecodeSlips(DecodeCall(1, <<0, 2, 1, 3>>))
  \cup {EncodeCall(1, <<Value(1, 1, "BYTES", a), Value(1, 2, "BYTES", b)>>) :
          a \in BoundedSeq(Byte, 3), b \in BoundedSeq(Byte, 2)}
  \cup EncodeSlips(GoodText)
  \cup {[GoodText EXCEPT !.message = 2, !.values = [i \in 1 .. 2 |-> [@[i] EXCEPT !.message = 2]]]}

-----------------------------------------------------------------------------
CONSTANTS c1, c2

VARIABLES ws, call, local, phase, result, made, last, workspace

Binary == INSTANCE RecordCodec WITH
    Plan <- MCBinary, Calls <- MCBinaryCalls, Callers <- {c1}, MaxCalls <- 1
Plain == INSTANCE RecordCodec WITH
    Plan <- MCPlain, Calls <- MCPlainCalls, Callers <- {c1}, MaxCalls <- 1
Text == INSTANCE RecordCodec WITH
    Plan <- MCText, Calls <- MCTextCalls, Callers <- {c1}, MaxCalls <- 1
Shared == INSTANCE RecordCodec WITH
    Plan <- MCBinary, Calls <- MCSharedCalls, Callers <- {c1, c2}, MaxCalls <- 3

Init ==
  \/ workspace = "BINARY" /\ Binary!Init
  \/ workspace = "PLAIN" /\ Plain!Init
  \/ workspace = "TEXT" /\ Text!Init
  \/ workspace = "SHARED" /\ Shared!Init

Next ==
  /\ \/ workspace = "BINARY" /\ Binary!Next
     \/ workspace = "PLAIN" /\ Plain!Next
     \/ workspace = "TEXT" /\ Text!Next
     \/ workspace = "SHARED" /\ Shared!Next
  /\ UNCHANGED workspace

Spec == Init /\ [][Next]_<<Binary!vars, workspace>>

\* Whatever the plan and whoever shares the workspace, an answer depends on the call alone.
AnswerOfTheCall ==
  CASE workspace = "BINARY" -> Binary!AnswerOfTheCall
    [] workspace = "PLAIN"  -> Plain!AnswerOfTheCall
    [] workspace = "TEXT"   -> Text!AnswerOfTheCall
    [] workspace = "SHARED" -> Shared!AnswerOfTheCall

\* A delivered record is one that Decode accepts in the same pipeline, with the same values.
DeliveredDecodes ==
  CASE workspace = "BINARY" -> Binary!DeliveredDecodes
    [] workspace = "PLAIN"  -> Plain!DeliveredDecodes
    [] workspace = "TEXT"   -> Text!DeliveredDecodes
    [] workspace = "SHARED" -> Shared!DeliveredDecodes

\* The order in which the caller lists the values matters for none of the bytes.
OrderOfValues ==
  CASE workspace = "BINARY" -> Binary!OrderOfValues
    [] workspace = "PLAIN"  -> Plain!OrderOfValues
    [] workspace = "TEXT"   -> Text!OrderOfValues
    [] workspace = "SHARED" -> Shared!OrderOfValues

\* What LastRawIntegers shows is the record the last call decoded, or nothing.
RawIntegersHonest ==
  CASE workspace = "BINARY" -> Binary!RawIntegersHonest
    [] workspace = "PLAIN"  -> Plain!RawIntegersHonest
    [] workspace = "TEXT"   -> Text!RawIntegersHonest
    [] workspace = "SHARED" -> Shared!RawIntegersHonest

\* A binary record that decodes without taint can be sent again, as the same record.
DecodedReencodes ==
  CASE workspace = "BINARY" -> Binary!DecodedReencodes
    [] workspace = "PLAIN"  -> Plain!DecodedReencodes
    [] OTHER                -> TRUE

\* One changed byte that an integrity field covers is noticed.
DamageDetected == workspace = "BINARY" => Binary!DamageDetected

\* An answer and the integers shown after it are those of the call, in any order of values.
CallsIndependent == AnswerOfTheCall /\ RawIntegersHonest /\ OrderOfValues

\* What Decode accepts is undamaged and can be sent again.
ReceivedSound == DecodedReencodes /\ DamageDetected
=============================================================================
