------------------------------ MODULE SchemaParse ------------------------------
(***************************************************************************)
(* From a parsed configuration document to the compiler's intermediate     *)
(* schema.  A document is a record whose DOMAIN is exactly the members the *)
(* author wrote, under their own names.  The schema version opens and      *)
(* closes members and values; each parser checks its object in a fixed     *)
(* order and stops at the first error.                                     *)
(*                                                                         *)
(* For every kind of object: XError(version, o) is the first error, "OK"   *)
(* if there is none, and XIr(o) what the parser then leaves behind.  CASE  *)
(* arms are tried in order, which is the order of the checks.  A document  *)
(* leaves out the members nothing depends on (display names, descriptions, *)
(* source references, one-valued kinds) and the JSON types; bytes written  *)
(* in hexadecimal are sequences of bytes.                                  *)
(***************************************************************************)
EXTENDS RecordFields

CONSTANTS AuthorLimit,   \* 1024 * 1024: the largest length an author may write
          MaxSync,       \* 64: the longest sync pattern
          Printable,     \* stands for 0x20..0x7E
          Controls       \* stands for 0x00..0x1F and 0x7F

Versions == 1 .. 11
WordBits == ByteBits * MaxWidth                     \* 64
Uint == 0 .. Radix ^ MaxWidth - 1                   \* std::uint64_t

\* What each schema version opens.
SupportsBitfields(v) == v /= 1
SupportsIntegrity(v) == v \in 3 .. 9
\* Mutant: signed fields end with the version before conversions got a CRC.
SupportsInt64_Early(v) == v \in 4 .. 5
SupportsInt64(v) == v \in 4 .. 9
SupportsConversion(v) == v \in 5 .. 9
SupportsCrc(v) == v \in 6 .. 9
SupportsComputedLength(v) == v \in 7 .. 9
SupportsVariableLayout(v) == v \in 8 .. 9
SupportsStream(v) == v = 9
SupportsAsciiStream(v) == v = 11

Has(o, name) == name \in DOMAIN o
Lacks(o, names) == ~(names \subseteq DOMAIN o)
Unknown(o, allowed) == ~(DOMAIN o \subseteq allowed)
Option(o, name) == IF Has(o, name) THEN <<o[name]>> ELSE <<>>
OrElse(o, name, default) == IF Has(o, name) THEN o[name] ELSE default
OrderOf(o) ==
  CASE ~Has(o, "byte_order")         -> "NOT_APPLICABLE"
    [] o.byte_order = "big_endian"   -> "BIG"
    [] o.byte_order = "little_endian" -> "LITTLE"

\* ReadExactUint64 and ReadExactInt64: the token of the member fits the 64-bit type.
NotUint(o, names) == \E n \in names : o[n] \notin Uint
NotInt(o, names) == \E n \in names : ~FitsSignedWidth(o[n], MaxWidth)

Then(first, next) == IF first = "OK" THEN next ELSE first
Refuse(wrong, error) == IF wrong THEN error ELSE "OK"

NonEmptyArray(items, Error(_)) ==
  IF items = <<>> THEN "EMPTY_ARRAY" ELSE FirstError([i \in DOMAIN items |-> Error(items[i])])

Each(items, Ir(_)) == SubSeq([i \in DOMAIN items |-> Ir(items[i])], 1, Len(items))

-----------------------------------------------------------------------------
\* Framing profiles.
StreamMembers == {"strategy", "frame_length_bytes", "sync_bytes", "length_field",
                  "minimum_frame_length", "maximum_frame_length", "terminator_text"}

LengthFieldError(f) ==
  CASE Unknown(f, {"byte_offset", "byte_width", "byte_order"}) -> "UNKNOWN_PROPERTY"
    [] Lacks(f, {"byte_offset", "byte_width"})                 -> "MISSING_PROPERTY"
    [] f.byte_width \notin {1, 2, 4}                           -> "INVALID_ENUM_VALUE"
    [] f.byte_width = 1 /\ Has(f, "byte_order")                -> "UNKNOWN_PROPERTY"
    [] f.byte_width /= 1 /\ ~Has(f, "byte_order")              -> "MISSING_PROPERTY"
    [] OTHER                                                   -> "OK"

SyncBytesError(o) ==
  CASE ~Has(o, "sync_bytes")           -> "MISSING_PROPERTY"
    [] o.sync_bytes = <<>>             -> "INVALID_STRING_LENGTH"
    [] Len(o.sync_bytes) > MaxSync     -> "INVALID_STRING_LENGTH"
    [] OTHER                           -> "OK"

AsciiProfileError(o) ==
  CASE ~Has(o, "terminator_text")       -> "MISSING_PROPERTY"
    [] o.terminator_text /= <<CR, LF>>  -> "ASCII_STREAM_TERMINATOR_INVALID"
    [] ~Has(o, "maximum_frame_length")  -> "MISSING_PROPERTY"
    [] o.maximum_frame_length < 2       -> "ASCII_STREAM_PROFILE_MISMATCH"
    [] \E n \in {"frame_length_bytes", "sync_bytes", "length_field", "minimum_frame_length"} :
         Has(o, n)                      -> "UNKNOWN_PROPERTY"
    [] OTHER                            -> "OK"

FixedProfileError(o) ==
  CASE Has(o, "terminator_text")         -> "UNKNOWN_PROPERTY"
    [] ~Has(o, "frame_length_bytes")     -> "MISSING_PROPERTY"
    [] \E n \in {"length_field", "minimum_frame_length", "maximum_frame_length"} : Has(o, n)
                                         -> "UNKNOWN_PROPERTY"
    [] o.strategy = "fixed_length" /\ Has(o, "sync_bytes") -> "UNKNOWN_PROPERTY"
    [] o.strategy = "sync_fixed_length"  -> SyncBytesError(o)
    [] OTHER                             -> "OK"

LengthProfileError(o) ==
  CASE Has(o, "terminator_text") \/ Has(o, "frame_length_bytes") -> "UNKNOWN_PROPERTY"
    [] Lacks(o, {"minimum_frame_length", "maximum_frame_length", "length_field"})
                                                                 -> "MISSING_PROPERTY"
    [] OTHER -> Then(LengthFieldError(o.length_field), SyncBytesError(o))

FramingError(v, o) ==
  LET stream == SupportsStream(v) \/ SupportsAsciiStream(v) IN
  CASE Unknown(o, {"id", "input_kind"} \cup (IF stream THEN StreamMembers ELSE {}))
                                                             -> "UNKNOWN_PROPERTY"
    [] Lacks(o, {"id", "input_kind"})                        -> "MISSING_PROPERTY"
    [] o.input_kind \notin {"complete_record"} \cup (IF stream THEN {"stream_chunk"} ELSE {})
                                                             -> "INVALID_ENUM_VALUE"
    [] o.input_kind = "complete_record" ->
         IF DOMAIN o \cap StreamMembers /= {} THEN "UNKNOWN_PROPERTY" ELSE "OK"
    [] ~Has(o, "strategy")                                   -> "MISSING_PROPERTY"
    [] o.strategy \notin (IF SupportsAsciiStream(v) THEN {"ascii_crlf"}
                          ELSE {"fixed_length", "sync_fixed_length", "sync_length_field"})
                                                             -> "INVALID_ENUM_VALUE"
    [] o.strategy = "ascii_crlf"                             -> AsciiProfileError(o)
    [] o.strategy = "sync_length_field"                      -> LengthProfileError(o)
    [] OTHER                                                 -> FixedProfileError(o)

StrategyOf == [complete_record |-> "NONE", ascii_crlf |-> "ASCII_CRLF",
               fixed_length |-> "FIXED_LENGTH", sync_fixed_length |-> "SYNC_FIXED_LENGTH",
               sync_length_field |-> "SYNC_LENGTH_FIELD"]

FramingIr(o) ==
  LET f == OrElse(o, "length_field", [byte_offset |-> 0, byte_width |-> 0]) IN
  [id       |-> o.id,
   stream   |-> o.input_kind = "stream_chunk",
   strategy |-> StrategyOf[OrElse(o, "strategy", "complete_record")],
   length   |-> OrElse(o, "frame_length_bytes", 0),
   sync     |-> OrElse(o, "terminator_text", OrElse(o, "sync_bytes", <<>>)),
   offset   |-> f.byte_offset, width |-> f.byte_width, order |-> OrderOf(f),
   min      |-> OrElse(o, "minimum_frame_length", 0),
   max      |-> OrElse(o, "maximum_frame_length", 0)]

PipelineMembers == {"id", "direction_id", "input_framing_profile_id", "message_ids"}

PipelineError(o) ==
  CASE Unknown(o, PipelineMembers) -> "UNKNOWN_PROPERTY"
    [] Lacks(o, PipelineMembers)   -> "MISSING_PROPERTY"
    [] OTHER                       -> NonEmptyArray(o.message_ids, LAMBDA id : "OK")

PipelineIr(o) ==
  [id |-> o.id, direction |-> o.direction_id, framing |-> o.input_framing_profile_id,
   messages |-> o.message_ids]

-----------------------------------------------------------------------------
\* Matchers: a frame length, or bytes at an offset.
MatcherClauseError(o) ==
  IF o.kind = "frame_length_equals"
  THEN CASE Unknown(o, {"kind", "length_bytes"})        -> "UNKNOWN_PROPERTY"
         [] ~Has(o, "length_bytes")                     -> "MISSING_PROPERTY"
         [] o.length_bytes \notin 1 .. AuthorLimit      -> "INTEGER_OUT_OF_RANGE"
         [] OTHER                                       -> "OK"
  ELSE CASE Unknown(o, {"kind", "byte_offset", "bytes"}) -> "UNKNOWN_PROPERTY"
         [] ~Has(o, "byte_offset")                      -> "MISSING_PROPERTY"
         [] o.byte_offset \notin 0 .. AuthorLimit - 1   -> "INTEGER_OUT_OF_RANGE"
         [] ~Has(o, "bytes")                            -> "MISSING_PROPERTY"
         [] o.bytes = <<>>                              -> "INVALID_STRING_LENGTH"
         [] OTHER                                       -> "OK"

MatcherClauseIr(o) ==
  [kind   |-> IF o.kind = "frame_length_equals" THEN "LENGTH" ELSE "FIXED",
   length |-> OrElse(o, "length_bytes", 0),
   offset |-> OrElse(o, "byte_offset", 0), bytes |-> OrElse(o, "bytes", <<>>)]

MatcherError(o) ==
  CASE Unknown(o, {"all"}) -> "UNKNOWN_PROPERTY"
    [] ~Has(o, "all")      -> "MISSING_PROPERTY"
    [] OTHER               -> NonEmptyArray(o.all, MatcherClauseError)

-----------------------------------------------------------------------------
\* Where a field is on the wire.
UnsignedWireError(w) ==
  CASE Unknown(w, {"codec", "byte_offset", "byte_width", "byte_order"}) -> "UNKNOWN_PROPERTY"
    [] Lacks(w, {"codec", "byte_offset", "byte_width"})                 -> "MISSING_PROPERTY"
    [] w.codec /= "unsigned_integer"                                    -> "INVALID_ENUM_VALUE"
    [] w.byte_offset \notin 0 .. AuthorLimit - 1 \/ w.byte_width \notin 1 .. MaxWidth
                                                                        -> "INTEGER_OUT_OF_RANGE"
    [] w.byte_width > 1 /\ ~Has(w, "byte_order")                        -> "MISSING_PROPERTY"
    [] OTHER                                                            -> "OK"

\* The length of the payload may be left to the layout.
BytesWireError(w, variable) ==
  CASE Unknown(w, {"codec", "byte_offset", "byte_length"})    -> "UNKNOWN_PROPERTY"
    [] Lacks(w, {"codec", "byte_offset"})                     -> "MISSING_PROPERTY"
    [] w.codec /= "bytes"                                     -> "INVALID_ENUM_VALUE"
    [] ~Has(w, "byte_length") /\ ~variable                    -> "MISSING_PROPERTY"
    [] w.byte_offset \notin 0 .. AuthorLimit - 1              -> "INTEGER_OUT_OF_RANGE"
    [] OrElse(w, "byte_length", 0) \notin (IF variable THEN 0 ELSE 1) .. AuthorLimit
                                                              -> "INTEGER_OUT_OF_RANGE"
    [] OTHER                                                  -> "OK"

BitfieldWireError(w) ==
  CASE Unknown(w, {"codec", "container_id", "bit_offset", "bit_width"}) -> "UNKNOWN_PROPERTY"
    [] Lacks(w, {"codec", "container_id", "bit_offset", "bit_width"})   -> "MISSING_PROPERTY"
    [] w.bit_offset \notin 0 .. WordBits - 1 \/ w.bit_width \notin 1 .. WordBits
                                                                        -> "INTEGER_OUT_OF_RANGE"
    [] OTHER                                                            -> "OK"

IsBitfield(w) == OrElse(w, "codec", "none") = "bitfield"

WireError(v, type, w, variable) ==
  CASE IsBitfield(w) -> IF ~SupportsBitfields(v) \/ type \in {"BYTES", "INT64"}
                        THEN "UNSUPPORTED_FEATURE" ELSE BitfieldWireError(w)
    [] type = "BOOL"  -> "UNSUPPORTED_FEATURE"
    [] type = "BYTES" -> BytesWireError(w, variable)
    [] OTHER          -> UnsignedWireError(w)

ContainerMembers == {"id", "container_offset", "container_width", "byte_order", "bit_numbering",
                     "base_value"}

BitContainerError(o) ==
  CASE Unknown(o, ContainerMembers)                           -> "UNKNOWN_PROPERTY"
    [] Lacks(o, {"id", "container_offset", "container_width", "base_value"})
                                                              -> "MISSING_PROPERTY"
    [] NotUint(o, {"base_value"})                             -> "INTEGER_OUT_OF_RANGE"
    [] o.container_width \notin {1, 2, 4, 8} \cap 1 .. MaxWidth -> "INVALID_ENUM_VALUE"
    [] o.container_width > 1 /\ ~Has(o, "byte_order")         -> "MISSING_PROPERTY"
    [] o.container_width = 1 /\ Has(o, "byte_order")          -> "UNKNOWN_PROPERTY"
    [] ~Has(o, "bit_numbering")                               -> "MISSING_PROPERTY"
    [] OTHER                                                  -> "OK"

BitContainerIr(o) ==
  [id |-> o.id, offset |-> o.container_offset, width |-> o.container_width, order |-> OrderOf(o),
   lsb0 |-> o.bit_numbering = "lsb0", base |-> o.base_value]

-----------------------------------------------------------------------------
\* Where an encoded value comes from.
EncodeError(v, type, o) ==
  CASE ~Has(o, "source")                               -> "MISSING_PROPERTY"
    [] o.source = "computed" /\ ~(SupportsComputedLength(v) /\ type = "UINT64")
                                                       -> "UNSUPPORTED_FEATURE"
    [] o.source \in {"computed", "input"}              ->
         IF Unknown(o, {"source"}) THEN "UNKNOWN_PROPERTY" ELSE "OK"
    [] o.source /= "constant"                          -> "INVALID_ENUM_VALUE"
    [] type \notin {"UINT64", "INT64"}                 -> "UNSUPPORTED_FEATURE"
    [] Unknown(o, {"source", "value"})                 -> "UNKNOWN_PROPERTY"
    [] ~Has(o, "value")                                -> "MISSING_PROPERTY"
    [] IF type = "INT64" THEN NotInt(o, {"value"}) ELSE NotUint(o, {"value"})
                                                       -> "INTEGER_OUT_OF_RANGE"
    [] OTHER                                           -> "OK"

ComputedLengthError(v, o, variable) ==
  LET range == OrElse(o, "range", <<>>) IN
  CASE ~Has(o, "scope")                                -> "MISSING_PROPERTY"
    [] o.scope \notin {"frame", "region"} \cup (IF variable THEN {"payload"} ELSE {})
                                                       -> "INVALID_ENUM_VALUE"
    [] Unknown(o, {"scope"} \cup (IF o.scope = "region" THEN {"range"} ELSE {}))
                                                       -> "UNKNOWN_PROPERTY"
    [] o.scope /= "region"                             -> "OK"
    [] ~Has(o, "range")                                -> "MISSING_PROPERTY"
    [] Unknown(range, {"byte_offset", "byte_length"})  -> "UNKNOWN_PROPERTY"
    [] Lacks(range, {"byte_offset", "byte_length"})    -> "MISSING_PROPERTY"
    [] OTHER                                           -> "OK"

ComputedLengthIr(o) ==
  LET range == OrElse(o, "range", [byte_offset |-> 0, byte_length |-> 0])
      scope == [frame |-> "FRAME", region |-> "REGION", payload |-> "PAYLOAD"]
  IN [scope |-> scope[o.scope], offset |-> range.byte_offset, length |-> range.byte_length]

\* The computed rule is there exactly when the source is computed.
ComputedError(v, o, variable) ==
  IF o.encode.source = "computed"
  THEN IF Has(o, "computed") THEN ComputedLengthError(v, o.computed, variable)
       ELSE "MISSING_PROPERTY"
  ELSE IF Has(o, "computed") THEN "UNKNOWN_PROPERTY" ELSE "OK"

EnumEntryError(e) ==
  CASE Unknown(e, {"id", "raw_value"}) -> "UNKNOWN_PROPERTY"
    [] Lacks(e, {"id", "raw_value"})   -> "MISSING_PROPERTY"
    [] NotUint(e, {"raw_value"})       -> "INTEGER_OUT_OF_RANGE"
    [] OTHER                           -> "OK"

RationalError(r) ==
  CASE Unknown(r, {"num", "den"}) -> "UNKNOWN_PROPERTY"
    [] Lacks(r, {"num", "den"})   -> "MISSING_PROPERTY"
    [] NotInt(r, {"num"})         -> "INTEGER_OUT_OF_RANGE"
    [] r.den \notin 1 .. 10 ^ MaxPlaces -> "INTEGER_OUT_OF_RANGE"
    [] OTHER                      -> "OK"

ConversionError(o) ==
  CASE Unknown(o, {"scale", "bias"}) -> "UNKNOWN_PROPERTY"
    [] Lacks(o, {"scale", "bias"})   -> "MISSING_PROPERTY"
    [] OTHER                         -> Then(RationalError(o.scale), RationalError(o.bias))

ValueTypes(v) ==
  {"UINT64", "BYTES", "ENUM"} \cup (IF SupportsBitfields(v) THEN {"BOOL"} ELSE {})
                              \cup (IF SupportsInt64(v) THEN {"INT64"} ELSE {})

FieldMembers(v, type) ==
  {"id", "value_type", "wire", "encode"}
  \cup (IF type = "ENUM" THEN {"unknown_enum_policy", "enum_entries"} ELSE {})
  \cup (IF type \in {"UINT64", "INT64"} /\ SupportsConversion(v) THEN {"conversion"} ELSE {})
  \cup (IF type = "UINT64" /\ SupportsComputedLength(v) THEN {"computed"} ELSE {})

EnumError(o) ==
  Then(Refuse(Lacks(o, {"unknown_enum_policy", "enum_entries"}), "MISSING_PROPERTY"),
       NonEmptyArray(o.enum_entries, EnumEntryError))

FieldError(v, o, variable) ==
  CASE ~Has(o, "value_type")                        -> "MISSING_PROPERTY"
    [] o.value_type \notin ValueTypes(v)            -> "INVALID_ENUM_VALUE"
    [] Unknown(o, FieldMembers(v, o.value_type))    -> "UNKNOWN_PROPERTY"
    [] Lacks(o, {"id", "wire"})                     -> "MISSING_PROPERTY"
    [] OTHER ->
         Then(WireError(v, o.value_type, o.wire, variable),
         Then(Refuse(~Has(o, "encode"), "MISSING_PROPERTY"),
         Then(EncodeError(v, o.value_type, o.encode),
         Then(ComputedError(v, o, variable),
         Then(IF Has(o, "conversion") THEN ConversionError(o.conversion) ELSE "OK",
              IF o.value_type = "ENUM" THEN EnumError(o) ELSE "OK")))))

CodecOf == [unsigned_integer |-> "UNSIGNED", bytes |-> "BYTES", bitfield |-> "BITFIELD"]

FieldIr(o) ==
  LET w == o.wire IN
  [id |-> o.id, type |-> o.value_type, codec |-> CodecOf[w.codec],
   offset |-> OrElse(w, "byte_offset", 0),
   width  |-> OrElse(w, "byte_width", OrElse(w, "byte_length", 0)), order |-> OrderOf(w),
   container |-> OrElse(w, "container_id", "none"), bit |-> OrElse(w, "bit_offset", 0),
   bits |-> OrElse(w, "bit_width", 0),
   source |-> CASE o.encode.source = "input"    -> "INPUT"
                [] o.encode.source = "constant" -> "CONSTANT"
                [] OTHER                        -> "COMPUTED",
   constant |-> OrElse(o.encode, "value", 0),
   computed |-> Each(Option(o, "computed"), ComputedLengthIr),
   conversion |-> Option(o, "conversion"),
   policy |-> IF OrElse(o, "unknown_enum_policy", "reject") = "reject" THEN "REJECT"
              ELSE "PRESERVE",
   enums |-> OrElse(o, "enum_entries", <<>>), text |-> <<>>, encoded |-> TRUE]

-----------------------------------------------------------------------------
\* Integrity: SUM8 of a range, or a CRC with its parameters.
CrcParameters == {"width", "poly", "init", "refin", "refout", "xorout"}

CrcError(p) ==
  CASE Unknown(p, CrcParameters)                          -> "UNKNOWN_PROPERTY"
    [] ~Has(p, "width")                                   -> "MISSING_PROPERTY"
    [] p.width \notin {2 * ByteBits, 4 * ByteBits}        -> "INVALID_ENUM_VALUE"
    [] Lacks(p, CrcParameters)                            -> "MISSING_PROPERTY"
    [] p.poly % 2 = 0                                     -> "INVALID_ENUM_VALUE"
    [] OTHER                                              -> "OK"

IntegrityRangeError(r, variable) ==
  LET members == {"byte_offset", IF variable /\ Has(r, "end") THEN "end" ELSE "byte_length"} IN
  CASE Unknown(r, members) -> "UNKNOWN_PROPERTY"
    [] Lacks(r, members)   -> "MISSING_PROPERTY"
    [] OTHER               -> "OK"

IntegrityStorageError(s, algorithm, variable) ==
  LET members == {IF variable THEN "anchor" ELSE "byte_offset"}
                 \cup (IF algorithm = "crc" THEN {"byte_order"} ELSE {}) IN
  CASE Unknown(s, members) -> "UNKNOWN_PROPERTY"
    [] Lacks(s, members)   -> "MISSING_PROPERTY"
    [] OTHER               -> "OK"

IntegrityError(v, o, variable) ==
  CASE Unknown(o, {"algorithm", "range", "storage"}
                  \cup (IF SupportsCrc(v) THEN {"parameters"} ELSE {})) -> "UNKNOWN_PROPERTY"
    [] ~Has(o, "algorithm")                                   -> "MISSING_PROPERTY"
    [] o.algorithm \notin {"sum8"} \cup (IF SupportsCrc(v) THEN {"crc"} ELSE {})
                                                              -> "INVALID_ENUM_VALUE"
    [] o.algorithm = "crc" /\ ~Has(o, "parameters")           -> "MISSING_PROPERTY"
    [] o.algorithm = "crc" /\ CrcError(o.parameters) /= "OK"  -> CrcError(o.parameters)
    [] o.algorithm = "sum8" /\ Has(o, "parameters")           -> "UNKNOWN_PROPERTY"
    [] ~Has(o, "range")                                       -> "MISSING_PROPERTY"
    [] IntegrityRangeError(o.range, variable) /= "OK" -> IntegrityRangeError(o.range, variable)
    [] ~Has(o, "storage")                                     -> "MISSING_PROPERTY"
    [] OTHER -> IntegrityStorageError(o.storage, o.algorithm, variable)

IntegrityIr(o) ==
  LET none == [width |-> 2 * ByteBits, poly |-> 1, init |-> 0, refin |-> FALSE, refout |-> FALSE,
               xorout |-> 0]
      p == OrElse(o, "parameters", none)
  IN [algorithm |-> IF o.algorithm = "crc" THEN "CRC" ELSE "SUM8",
      offset |-> o.range.byte_offset, length |-> OrElse(o.range, "byte_length", 0),
      storage |-> OrElse(o.storage, "byte_offset", 0), order |-> OrderOf(o.storage),
      endsAtPayload |-> Has(o.range, "end"), atPayloadEnd |-> Has(o.storage, "anchor"),
      crc |-> [width |-> p.width, polynomial |-> p.poly, initial |-> p.init, xorOutput |-> p.xorout,
               reflectInput |-> p.refin, reflectOutput |-> p.refout]]

-----------------------------------------------------------------------------
\* Binary messages.
BoundedMembers == {"header_length_bytes", "payload_field_id", "min_payload_bytes",
                   "max_payload_bytes"}

BoundedPayloadError(o) ==
  CASE Unknown(o, BoundedMembers)    -> "UNKNOWN_PROPERTY"
    [] Lacks(o, BoundedMembers)      -> "MISSING_PROPERTY"
    [] o.header_length_bytes = 0     -> "INTEGER_OUT_OF_RANGE"
    [] OTHER                         -> "OK"

BoundedPayloadIr(o) ==
  [header |-> o.header_length_bytes, payload |-> o.payload_field_id,
   minPayload |-> o.min_payload_bytes, maxPayload |-> o.max_payload_bytes]

MessageMembers(v) ==
  {"id", "direction_id", "frame_length_bytes", "matcher", "fields"}
  \cup (IF SupportsBitfields(v) THEN {"bit_containers"} ELSE {})
  \cup (IF SupportsIntegrity(v) THEN {"integrity"} ELSE {})
  \cup (IF SupportsVariableLayout(v) THEN {"layout"} ELSE {})

MessageError(v, o) ==
  LET variable == Has(o, "layout") IN
  CASE Unknown(o, MessageMembers(v))                 -> "UNKNOWN_PROPERTY"
    [] Lacks(o, {"id", "direction_id"})              -> "MISSING_PROPERTY"
    [] variable /\ Has(o, "frame_length_bytes")      -> "UNKNOWN_PROPERTY"
    [] variable /\ BoundedPayloadError(o.layout) /= "OK" -> BoundedPayloadError(o.layout)
    [] ~variable /\ ~Has(o, "frame_length_bytes")    -> "MISSING_PROPERTY"
    [] ~variable /\ o.frame_length_bytes \notin 1 .. AuthorLimit -> "INTEGER_OUT_OF_RANGE"
    [] Lacks(o, {"matcher", "fields"})               -> "MISSING_PROPERTY"
    [] OTHER ->
         Then(MatcherError(o.matcher),
         Then(NonEmptyArray(o.fields, LAMBDA f : FieldError(v, f, variable)),
         Then(IF Has(o, "bit_containers") THEN NonEmptyArray(o.bit_containers, BitContainerError)
              ELSE "OK",
              IF Has(o, "integrity") THEN IntegrityError(v, o.integrity, variable) ELSE "OK")))

MessageIr(o) ==
  [id |-> o.id, direction |-> o.direction_id, length |-> OrElse(o, "frame_length_bytes", 0),
   clauses |-> Each(o.matcher.all, MatcherClauseIr),
   containers |-> Each(OrElse(o, "bit_containers", <<>>), BitContainerIr),
   fields |-> Each(o.fields, FieldIr),
   integrity |-> Each(Option(o, "integrity"), IntegrityIr),
   bounded |-> Each(Option(o, "layout"), BoundedPayloadIr), text |-> <<>>]

-----------------------------------------------------------------------------
\* Text messages: a template per action, no matcher.
TextWireError(w) ==
  LET controls == OrElse(w, "allowed_control_bytes", <<>>) IN
  CASE Unknown(w, {"min_byte_length", "max_byte_length", "allowed_control_bytes"})
                                                      -> "UNKNOWN_PROPERTY"
    [] Lacks(w, {"min_byte_length", "max_byte_length"}) -> "MISSING_PROPERTY"
    [] Has(w, "allowed_control_bytes") /\ controls = <<>> -> "INVALID_HEX_BYTES"
    [] \E i \in DOMAIN controls : \/ controls[i] \notin Controls
                                  \/ i > 1 /\ controls[i] <= controls[i - 1]
                                                      -> "ASCII_CONTROL_BYTE_INVALID"
    [] OTHER                                          -> "OK"

TextFieldError(v, o) ==
  CASE Unknown(o, {"id", "value_type", "wire", "encode"}) -> "UNKNOWN_PROPERTY"
    [] Lacks(o, {"id", "value_type", "wire"})         -> "MISSING_PROPERTY"
    [] o.value_type /= "BYTES"                        -> "INVALID_ENUM_VALUE"
    [] OTHER -> Then(TextWireError(o.wire),
                     IF Has(o, "encode") THEN EncodeError(v, "BYTES", o.encode) ELSE "OK")

TextFieldIr(o) ==
  [id |-> o.id, type |-> "BYTES", codec |-> "TEXT", offset |-> 0, width |-> 0,
   order |-> "NOT_APPLICABLE", container |-> "none", bit |-> 0, bits |-> 0, source |-> "INPUT",
   constant |-> 0, computed |-> <<>>, conversion |-> <<>>, policy |-> "REJECT", enums |-> <<>>,
   text |-> <<[min |-> o.wire.min_byte_length, max |-> o.wire.max_byte_length,
               allowed |-> Printable \cup Range(OrElse(o.wire, "allowed_control_bytes", <<>>))]>>,
   encoded |-> Has(o, "encode")]

SegmentError(s) ==
  LET member == IF s.kind = "literal" THEN "text" ELSE "field_id" IN
  CASE Unknown(s, {"kind", member}) -> "UNKNOWN_PROPERTY"
    [] ~Has(s, member)              -> "MISSING_PROPERTY"
    [] s.kind = "field"             -> "OK"
    [] s.text = <<>>                -> "INVALID_STRING_LENGTH"
    [] \E c \in Range(s.text) : c > 127 -> "ASCII_LITERAL_INVALID"
    [] OTHER                        -> "OK"

TextActionError(o) ==
  CASE Unknown(o, {"segments"}) -> "UNKNOWN_PROPERTY"
    [] ~Has(o, "segments")      -> "MISSING_PROPERTY"
    [] o.segments = <<>>        -> "ASCII_TEMPLATE_EMPTY"
    [] OTHER                    -> NonEmptyArray(o.segments, SegmentError)

TextMessageError(v, o) ==
  LET members == {"id", "direction_id", "layout", "fields"}
      action(name) == IF Has(o.layout, name) THEN TextActionError(o.layout[name]) ELSE "OK"
      fields == FirstError([i \in DOMAIN o.fields |-> TextFieldError(v, o.fields[i])])
  IN
  CASE Unknown(o, members)                           -> "UNKNOWN_PROPERTY"
    [] Lacks(o, {"id", "direction_id", "layout"})    -> "MISSING_PROPERTY"
    [] Unknown(o.layout, {"decode", "encode"})       -> "UNKNOWN_PROPERTY"
    [] OTHER ->
         Then(action("decode"),
         Then(action("encode"),
         Then(Refuse(DOMAIN o.layout = {} \/ ~Has(o, "fields"), "MISSING_PROPERTY"), fields)))

TextMessageIr(o) ==
  [id |-> o.id, direction |-> o.direction_id, length |-> 0, clauses |-> <<>>, containers |-> <<>>,
   fields |-> Each(o.fields, TextFieldIr), integrity |-> <<>>, bounded |-> <<>>,
   text |-> <<[decode |-> Option(o.layout, "decode"), encode |-> Option(o.layout, "encode")]>>]

-----------------------------------------------------------------------------
RootMembers == {"schema_version", "protocol_id", "resource_profile", "framing_profiles",
                "pipelines", "messages"}

IsTextVersion(v) == v \in 10 .. 11

\* BuildSchemaIr: shape, version, then framings, pipelines and messages.
DocumentError(doc) ==
  CASE Unknown(doc, RootMembers)                           -> "UNKNOWN_PROPERTY"
    [] Lacks(doc, {"schema_version", "protocol_id"})       -> "MISSING_PROPERTY"
    [] doc.schema_version \notin Versions                  -> "INVALID_ENUM_VALUE"
    [] ~Has(doc, "resource_profile")                       -> "MISSING_PROPERTY"
    [] doc.resource_profile \notin {"desktop", "constrained"} -> "INVALID_ENUM_VALUE"
    [] Lacks(doc, RootMembers)                             -> "MISSING_PROPERTY"
    [] OTHER ->
         LET v == doc.schema_version IN
         Then(NonEmptyArray(doc.framing_profiles, LAMBDA o : FramingError(v, o)),
         Then(NonEmptyArray(doc.pipelines, PipelineError),
              NonEmptyArray(doc.messages,
                            LAMBDA o : IF IsTextVersion(v) THEN TextMessageError(v, o)
                                       ELSE MessageError(v, o))))

SchemaIr(doc) ==
  [version |-> doc.schema_version, profile |-> doc.resource_profile,
   framings |-> Each(doc.framing_profiles, FramingIr),
   pipelines |-> Each(doc.pipelines, PipelineIr),
   messages |-> IF IsTextVersion(doc.schema_version) THEN Each(doc.messages, TextMessageIr)
                ELSE Each(doc.messages, MessageIr)]
=============================================================================
