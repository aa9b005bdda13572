----------------------------- MODULE RecordFields -----------------------------
(***************************************************************************)
(* The fields of a complete record: which values an Encode admits, how     *)
(* they are written into the frame and read back for the final review, and *)
(* what a Decode checks before it fills the caller's slots.                *)
(*                                                                         *)
(* A binary field is [type, offset, width, order, source, constant,        *)
(* ordinal, container, shift, bits, lookup, enums, policy, conversion,     *)
(* slot], where 0 means none; a text field has its bounds and its          *)
(* characters too.  A value is [own, message, field, kind, v, null]: own   *)
(* says that the reference belongs to this plan.                           *)
(*                                                                         *)
(* ws is the caller's ExecutionWorkspace.  What a call leaves in it is     *)
(* stale for the next one: valueOf and convRaw for an Encode, containers,  *)
(* decimals and raws for a Decode.  The arms of a CASE are in the order of *)
(* the code's tests; the first that holds is taken.                        *)
(***************************************************************************)
EXTENDS RecordLayout

NoField == 0

\* Schema 0.5 to 0.9 check the values in field order, the others as they come.
Deferred(plan) == plan.schema \in 5 .. 9
IsText(plan) == plan.schema \in {10, 11}

SupportsCompleteRecordSchema(schema) == schema \in 1 .. 11

HasConversion(f) == f.conversion /= 0

ConversionPlanValid(plan, f) ==
  HasConversion(f) =>
    /\ Deferred(plan) /\ f.conversion \in DOMAIN plan.conversions /\ f.slot /= 0
    /\ f.container = 0 /\ f.source = "INPUT"
    /\ plan.conversions[f.conversion].rawType = f.type

ToCodecStatus(status) ==
  CASE status = "DECIMAL_SCALE_OUT_OF_RANGE" -> "INVALID_ARGUMENT"
    [] status \in {"RAW_NOT_INTEGRAL", "RAW_OUT_OF_RANGE", "LOGICAL_OUT_OF_RANGE"}
                                             -> "VALUE_NOT_REPRESENTABLE"
    [] OTHER                                 -> status

IsPayload(m, fi) == ~None(m.bounded) /\ m.bounded[1].payload = fi

BytesLengthOk(m, fi, length) ==
  IF IsPayload(m, fi) THEN length \in m.bounded[1].minPayload .. m.bounded[1].maxPayload
  ELSE length = m.fields[fi].width

\* A null pointer with a size is no address range.
NullBytes(v) == v.null /\ Len(v.v) /= 0

BytesProblem(plan, m, fi, v) ==
  LET f == m.fields[fi] IN
  CASE IF IsText(plan) THEN ~LengthAccepted(f, Len(v.v)) ELSE ~BytesLengthOk(m, fi, Len(v.v))
                                                        -> "BYTES_LENGTH_MISMATCH"
    [] NullBytes(v)                                     -> "INVALID_ARGUMENT"
    [] IsText(plan) /\ ~Range(v.v) \subseteq f.allowed  -> "ASCII_CHARACTER_NOT_ALLOWED"
    [] OTHER                                            -> "OK"

\* What is wrong with a value of a field without conversion.
ValueProblem(plan, mi, fi, v) ==
  LET m == plan.messages[mi]
      f == m.fields[fi]
      fits(ok) == IF ok THEN "OK" ELSE "VALUE_NOT_REPRESENTABLE"
  IN CASE v.kind /= f.type   -> "TYPE_MISMATCH"
       [] v.kind = "UINT64"  -> fits(IF f.container /= 0 THEN FitsUnsignedBits(v.v, f.bits)
                                     ELSE FitsUnsignedWidth(v.v, f.width))
       [] v.kind = "INT64"   -> fits(FitsSignedWidth(v.v, f.width))
       [] v.kind = "BYTES"   -> BytesProblem(plan, m, fi, v)
       [] v.kind = "ENUM"    -> IF /\ v.v.own /\ v.v.message = mi /\ v.v.field = fi
                                   /\ v.v.entry \in DOMAIN f.enums
                                THEN "OK" ELSE "ENUM_REFERENCE_MISMATCH"
       [] OTHER              -> "OK"

ReferenceProblem(plan, mi, v, present) ==
  LET m == plan.messages[mi]
      f == m.fields[v.field]
  IN CASE ~v.own \/ v.message /= mi \/ v.field \notin DOMAIN m.fields
                                          -> "FIELD_REFERENCE_MISMATCH"
       [] IsText(plan) /\ ~f.textInput    -> "FIELD_REFERENCE_MISMATCH"
       [] f.source = "COMPUTED"           -> "COMPUTED_FIELD_OVERRIDE"
       [] f.source = "CONSTANT"           -> "CONSTANT_FIELD_OVERRIDE"
       [] f.ordinal \in present           -> "DUPLICATE_FIELD"
       [] OTHER                           -> "OK"

-----------------------------------------------------------------------------
\* The state of PrepareEncodeInputs: the workspace, the presence words and the first error.
Admitting(ws, present, status, value, field) ==
  [ws |-> ws, present |-> present, status |-> status, value |-> value, field |-> field]

\* Which work slot the i-th value belongs to.
OrdinalOf(f, i) == f.ordinal

\* The field an error is reported at; a foreign value leaves the field of the one before it.
FieldNamed(plan, mi, values, i) ==
  LET v == values[i] IN
  CASE v.own /\ v.message = mi /\ v.field \in DOMAIN plan.messages[mi].fields -> v.field
    [] i > 1  -> values[i - 1].field
    [] OTHER  -> NoField

Remember(acc, ordinal, i) ==
  Admitting([acc.ws EXCEPT !.valueOf[ordinal] = i], acc.present \cup {ordinal}, "OK", 0, 0)

Admitted(plan, mi, values, acc, i, problem) ==
  IF problem = "OK" THEN Remember(acc, OrdinalOf(plan.messages[mi].fields[values[i].field], i), i)
  ELSE Admitting(acc.ws, acc.present, problem, i, FieldNamed(plan, mi, values, i))

NowOrLater(plan, mi, v, reference) ==
  IF reference /= "OK" \/ Deferred(plan) THEN reference ELSE ValueProblem(plan, mi, v.field, v)

\* One value of the caller, in the caller's order.
AdmitValue(plan, mi, values, acc, i) ==
  IF acc.status /= "OK" THEN acc
  ELSE Admitted(plan, mi, values, acc, i,
                NowOrLater(plan, mi, values[i], ReferenceProblem(plan, mi, values[i], acc.present)))

NeedsInput(plan, f) == f.source = "INPUT" /\ (IsText(plan) => f.textInput)

Missing(plan, fields, present) ==
  {fi \in DOMAIN fields : NeedsInput(plan, fields[fi]) /\ fields[fi].ordinal \notin present}

RefuseMissing(acc, missing) ==
  IF acc.status = "OK" /\ missing /= {}
  THEN Admitting(acc.ws, acc.present, "MISSING_FIELD", 0, Min(missing)) ELSE acc

RequirePresent(plan, mi, acc) ==
  RefuseMissing(acc, Missing(plan, plan.messages[mi].fields, acc.present))

\* ConvertEncode with its test hook.
ConvertEncode(conversion, logical, width, fault) ==
  IF fault = "convert" THEN Fails("INTERNAL_ERROR") ELSE EncodeDecimal(conversion, logical, width)

\* The deferred check of one field; a converted value leaves its wire integer in the workspace.
Converted(acc, f, raw, at, fi) ==
  IF raw.status = "OK" THEN [acc EXCEPT !.ws.convRaw[f.slot] = raw.value]
  ELSE Admitting(acc.ws, acc.present, ToCodecStatus(raw.status), at, fi)

UnlessProblem(acc, problem, at, fi) ==
  IF problem = "OK" THEN acc ELSE Admitting(acc.ws, acc.present, problem, at, fi)

DeferredCheck(plan, mi, fault, acc, fi, f, at, v) ==
  CASE ~ConversionPlanValid(plan, f)             -> UnlessProblem(acc, "INVALID_PLAN", at, fi)
    [] HasConversion(f) /\ v.kind /= "DECIMAL64" -> UnlessProblem(acc, "TYPE_MISMATCH", at, fi)
    [] HasConversion(f) ->
         Converted(acc, f, ConvertEncode(plan.conversions[f.conversion], v.v, f.width, fault), at, fi)
    [] OTHER -> UnlessProblem(acc, ValueProblem(plan, mi, fi, v), at, fi)

CheckDeferred(plan, mi, values, fault, acc, fi) ==
  LET f == plan.messages[mi].fields[fi]
      at == acc.ws.valueOf[f.ordinal]
  IN IF acc.status /= "OK" \/ f.source /= "INPUT" THEN acc
     ELSE DeferredCheck(plan, mi, fault, acc, fi, f, at, values[at])

\* The deferred checks go through the fields in plan order.
CheckInFieldOrder(plan, mi, values, fault, complete) ==
  IF ~Deferred(plan) THEN complete
  ELSE FoldLeft(LAMBDA acc, fi : CheckDeferred(plan, mi, values, fault, acc, fi),
                complete, [fi \in DOMAIN plan.messages[mi].fields |-> fi])

PrepareEncodeInputs(plan, mi, values, fault, ws) ==
  CheckInFieldOrder(plan, mi, values, fault,
    RequirePresent(plan, mi,
      FoldLeft(LAMBDA acc, i : AdmitValue(plan, mi, values, acc, i),
               Admitting(ws, {}, "OK", 0, NoField), [i \in DOMAIN values |-> i])))

-----------------------------------------------------------------------------
InputOf(f, values, ws) == values[ws.valueOf[f.ordinal]]

\* The unsigned pattern of an integer, enumerated or Boolean field.
GetEncodeRawValue(f, values, ws) ==
  LET v == InputOf(f, values, ws).v IN
  CASE HasConversion(f)        -> ws.convRaw[f.slot]
    [] f.source = "CONSTANT"   -> SignedPattern(f.constant, f.width)
    [] f.type = "INT64"        -> SignedPattern(v, f.width)
    [] f.type = "ENUM"         -> f.enums[v.entry]
    [] f.type = "BOOL"         -> IF v THEN 1 ELSE 0
    [] OTHER                   -> v

WriteFixedBytes(m, data) ==
  [i \in DOMAIN data |->
     IF \E k \in DOMAIN m.fixed : m.fixed[k].offset + 1 = i
     THEN m.fixed[CHOOSE k \in DOMAIN m.fixed : m.fixed[k].offset + 1 = i].value ELSE data[i]]

Place(data, offset, bytes) ==
  [i \in DOMAIN data |->
     IF i \in offset + 1 .. offset + Len(bytes) THEN bytes[i - offset] ELSE data[i]]

\* One field: bytes and whole integers go to the frame, bit fields to their container.
WriteRaw(values, acc, f, raw) ==
  CASE ~acc.ok \/ f.source = "COMPUTED" -> acc
    [] f.type = "BYTES" ->
         [acc EXCEPT !.data = Place(@, f.offset, InputOf(f, values, acc.ws).v)]
    [] f.container /= 0 ->
         [acc EXCEPT !.ws.containers[f.container] = InsertBitfield(@, f.shift, f.bits, raw)]
    [] OTHER ->
         [acc EXCEPT !.ok = StorePossible(raw, f.width, f.order),
                     !.data = StoreUnsigned(raw, @, f.offset, f.width, f.order)]

WriteField(m, values, acc, f) == WriteRaw(values, acc, f, GetEncodeRawValue(f, values, acc.ws))

\* Mutant: the containers keep the bits of the record handled before.
StartContainers_Stale(m, ws) == ws

\* A container starts from its base value, never from what the workspace holds.
StartContainers(m, ws) ==
  [ws EXCEPT !.containers = [i \in DOMAIN @ |-> IF i \in DOMAIN m.containers
                                                THEN m.containers[i].base ELSE @[i]]]

WriteFields(m, values, ws, data) ==
  LET store(acc, i) ==
        LET c == m.containers[i]
            value == acc.ws.containers[i]
        IN [acc EXCEPT !.ok = @ /\ StorePossible(value, c.width, c.order),
                       !.data = StoreUnsigned(value, @, c.offset, c.width, c.order)]
      written == FoldLeft(LAMBDA acc, f : WriteField(m, values, acc, f),
                          [ok |-> TRUE, ws |-> StartContainers(m, ws), data |-> data], m.fields)
  IN FoldLeft(store, written, [i \in DOMAIN m.containers |-> i])

LoadFrom(data, part) == LoadUnsigned(data, part.offset, part.width, part.order)

WireValue(m, f, data) ==
  IF f.container = 0 THEN LoadFrom(data, f)
  ELSE ExtractBitfield(LoadFrom(data, m.containers[f.container]), f.shift, f.bits)

Same(ok) == IF ok THEN "MATCH" ELSE "MISMATCH"

ReviewDecimal(decimal, v) ==
  CASE decimal.status = "INTERNAL_ERROR" -> "INTERNAL_ERROR"
    [] decimal.status = "OK"             -> Same(DecimalEqual(decimal.value, v))
    [] OTHER                             -> "MISMATCH"

\* The decimal behind wire bits, or the failure of the test hook.
ConvertDecode(plan, f, raw, failing) ==
  IF failing THEN Fails("INTERNAL_ERROR")
  ELSE DecodeDecimal(plan.conversions[f.conversion], raw, f.width)

HoldsBytes(data, offset, bytes) == SubSeq(data, offset + 1, offset + Len(bytes)) = bytes

ReviewRaw(plan, m, fi, f, values, ws, data, fault, actual) ==
  CASE f.source = "COMPUTED" ->
         Same(m.computed[1].field = fi /\ actual = ComputedValue(m, Len(data)))
    [] f.type = "BYTES" -> Same(HoldsBytes(data, f.offset, InputOf(f, values, ws).v))
    [] HasConversion(f) ->
         ReviewDecimal(ConvertDecode(plan, f, actual, fault = "review"), InputOf(f, values, ws).v)
    [] f.type = "INT64" ->
         Same(InterpretSigned(actual, f.width)
                = IF f.source = "CONSTANT" THEN f.constant ELSE InputOf(f, values, ws).v)
    [] OTHER -> Same(actual = GetEncodeRawValue(f, values, ws))

\* One field of the final review, read from the finished bytes.
FieldReview(plan, m, fi, values, ws, data, fault) ==
  ReviewRaw(plan, m, fi, m.fields[fi], values, ws, data, fault, WireValue(m, m.fields[fi], data))

\* Mutant: the review stops at the structure of the record.
VerifyFields_Trusting(plan, m, values, ws, data, fault) == [status |-> "MATCH", field |-> NoField]

FirstReview(reviews, bad) ==
  IF bad = {} THEN [status |-> "MATCH", field |-> NoField]
  ELSE [status |-> reviews[Min(bad)], field |-> Min(bad)]

AllReviews(reviews) == FirstReview(reviews, {fi \in DOMAIN reviews : reviews[fi] /= "MATCH"})

VerifyFields(plan, m, values, ws, data, fault) ==
  AllReviews([fi \in DOMAIN m.fields |-> FieldReview(plan, m, fi, values, ws, data, fault)])

-----------------------------------------------------------------------------
\* A converted value and its wire bits are kept in the workspace.
KeepDecimal(acc, f, fi, raw, decimal) ==
  IF decimal.status = "OK"
  THEN [acc EXCEPT !.ws.decimals[f.slot] = decimal.value,
                   !.ws.raws[acc.converted + 1] = [field |-> fi, bits |-> raw],
                   !.converted = @ + 1]
  ELSE [acc EXCEPT !.status = ToCodecStatus(decimal.status), !.field = fi]

KeepTaint(acc, f, fi, unknown) ==
  IF unknown /\ f.policy = "REJECT" THEN [acc EXCEPT !.status = "UNKNOWN_ENUM_VALUE", !.field = fi]
  ELSE [acc EXCEPT !.tainted = @ \/ unknown]

StoredRaw(f, data, ws) ==
  IF f.container = 0 THEN LoadFrom(data, f)
  ELSE ExtractBitfield(ws.containers[f.container], f.shift, f.bits)

PrecheckRaw(plan, f, fault, acc, fi, raw) ==
  CASE acc.status /= "OK"               -> acc
    [] ~ConversionPlanValid(plan, f)    -> [acc EXCEPT !.status = "INVALID_PLAN", !.field = fi]
    [] HasConversion(f) ->
         KeepDecimal(acc, f, fi, raw, ConvertDecode(plan, f, raw, fault = "convert"))
    [] OTHER -> KeepTaint(acc, f, fi, f.type = "ENUM" /\ FindEnumEntry(f, raw) = 0)

\* Decode's check of one field: conversions are computed now, an unknown enumerated value is
\* refused or taints the record.  A converted field is in no container.
PrecheckField(plan, m, data, fault, acc, fi) ==
  PrecheckRaw(plan, m.fields[fi], fault, acc, fi, StoredRaw(m.fields[fi], data, acc.ws))

LoadContainers(m, data, ws) ==
  [ws EXCEPT !.containers = [i \in DOMAIN @ |->
     IF i \in DOMAIN m.containers
     THEN LoadFrom(data, m.containers[i]) ELSE @[i]]]

Precheck(plan, m, data, fault, ws) ==
  FoldLeft(LAMBDA acc, fi : PrecheckField(plan, m, data, fault, acc, fi),
           [ws |-> LoadContainers(m, data, ws), status |-> "OK", field |-> NoField,
            tainted |-> FALSE, converted |-> 0],
           [fi \in DOMAIN m.fields |-> fi])

BytesLength(m, fi, size) == IF IsPayload(m, fi) THEN PayloadLength(m, size) ELSE m.fields[fi].width

SlotValue(mi, m, fi, f, data, ws, raw) ==
  LET length == BytesLength(m, fi, Len(data))
      slot(kind, v) == [own |-> TRUE, message |-> mi, field |-> fi, kind |-> kind, v |-> v,
                        null |-> FALSE]
  IN CASE HasConversion(f)       -> slot("DECIMAL64", ws.decimals[f.slot])
       [] f.type = "BYTES"       -> slot("BYTES", SubSeq(data, f.offset + 1, f.offset + length))
       [] f.type = "INT64"       -> slot("INT64", InterpretSigned(raw, f.width))
       [] f.type = "BOOL"        -> slot("BOOL", raw /= 0)
       [] f.type = "ENUM"        -> slot("ENUM", [own |-> TRUE, message |-> mi, field |-> fi,
                                                  entry |-> FindEnumEntry(f, raw), raw |-> raw])
       [] OTHER                  -> slot("UINT64", raw)

\* The slot of one field, from the frame and from what the check left in the workspace.
SlotOf(mi, m, fi, data, ws) ==
  SlotValue(mi, m, fi, m.fields[fi], data, ws, StoredRaw(m.fields[fi], data, ws))
=============================================================================
