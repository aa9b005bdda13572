------------------------------- MODULE RecordCall -------------------------------
(***************************************************************************)
(* What one call of DecodeCompleteRecord or EncodeCompleteRecord does with *)
(* the workspace it holds: Prepared checks the arguments into the          *)
(* workspace, Completed delivers from it.                                  *)
(*                                                                         *)
(* A call is a record of its arguments:                                    *)
(*  [op "DECODE", own, pipeline, input, null, capacity, overlap, fault]    *)
(*  [op "ENCODE", own, pipeline, message, values, null, output,            *)
(*   outputNull, overlap, fault].                                          *)
(* output is the buffer with its old content; outputNull: there is none.   *)
(* overlap says that the output overlaps the call's input.  fault is the   *)
(* test hook armed for the call: it spoils bytes before the final review   *)
(* or makes a conversion fail.                                             *)
(***************************************************************************)
EXTENDS RecordFields

CONSTANT Plan

MaxOf(S) == IF S = {} THEN 0 ELSE Max(S)
MaxLen(parts(_)) == MaxOf({Len(parts(m)) : m \in Range(Plan.messages)})

\* ExecutionWorkspace(plan): one slot per input, container and conversion of the largest message.
FreshWorkspace ==
  LET slots == 1 .. MaxLen(LAMBDA m : m.fields) IN
  [inUse |-> FALSE, rawCount |-> 0, rawMessage |-> 0,
   valueOf |-> [o \in slots |-> 0], convRaw |-> [s \in slots |-> 0],
   containers |-> [i \in 1 .. MaxLen(LAMBDA m : m.containers) |-> 0],
   decimals |-> [s \in slots |-> Decimal(0, 0)],
   raws |-> [s \in slots |-> [field |-> 0, bits |-> 0]]]

Failure(status) == [status |-> status, field |-> NoField, value |-> 0]
FailureAt(status, field, value) == [status |-> status, field |-> field, value |-> value]

\* A part of a call leaves the workspace, and an answer or Continue.
Continue == [status |-> "CONTINUE"]
NoLocal == [tainted |-> FALSE, converted |-> 0]
Part(w, answer) == [ws |-> w, answer |-> answer, local |-> NoLocal]

\* The next part of the call, unless this check has an answer.
Unless(check, w, next) == IF check = Continue THEN next ELSE Part(w, check)

-----------------------------------------------------------------------------
\* Decode: what is refused before the record is looked at.
DecodeEntry(k) ==
  CASE ~k.own                                            -> Failure("WORKSPACE_PLAN_MISMATCH")
    [] ~SupportsCompleteRecordSchema(Plan.schema)        -> Failure("INVALID_PLAN")
    [] k.null /\ Len(k.input) /= 0                       -> Failure("INVALID_ARGUMENT")
    [] k.pipeline \notin DOMAIN Plan.pipelines           -> Failure("INVALID_ARGUMENT")
    [] IsText(Plan) /\ Plan.pipelines[k.pipeline].text = <<>>
                                                         -> Failure("OPERATION_NOT_SUPPORTED")
    [] OTHER                                             -> Continue

MatchOf(k) == FindPipelineMatch(Plan, Plan.pipelines[k.pipeline], k.input)

\* MatchCompleteRecordStructure asks only this, without a workspace.
Structure(match) ==
  CASE match.count = 0 -> Failure("UNKNOWN_MESSAGE")
    [] match.count > 1 -> Failure("AMBIGUOUS_MESSAGE")
    [] OTHER           -> Continue

FieldCount(action) == Len(SelectSeq(action.segments, LAMBDA seg : seg.kind = "FIELD"))

TextSlots(k, mi, walk) ==
  LET slot(s) == [own |-> TRUE, message |-> mi, field |-> s.field, kind |-> "BYTES",
                  v |-> Slice(k.input, s), null |-> FALSE]
  IN CASE walk.status = "INVALID_CHARACTER" -> Failure("ASCII_CHARACTER_NOT_ALLOWED")
       [] walk.status = "INVALID_PLAN"      -> Failure("INVALID_PLAN")
       [] walk.status = "NO_MATCH"          -> Failure("UNKNOWN_MESSAGE")
       [] OTHER -> [status |-> "OK", message |-> mi, tainted |-> FALSE,
                    slots |-> [i \in DOMAIN walk.slices |-> slot(walk.slices[i])]]

\* Text fields are slices of the input; the characters are checked before any slot is filled.
DecodeText(k, mi) ==
  LET m == Plan.messages[mi]
  IN CASE FieldCount(m.decode[1]) > k.capacity -> Failure("OUTPUT_SLOTS_TOO_SMALL")
       [] k.overlap                            -> Failure("INPUT_OUTPUT_OVERLAP")
       [] OTHER -> TextSlots(k, mi, WalkTextAction(m.decode[1], m.fields, k.input, TRUE))

\* Mutant: the checksum is left to the device.
RecordSound_NoIntegrity(m, k) ==
  CASE Len(m.fields) > k.capacity                      -> Failure("OUTPUT_SLOTS_TOO_SMALL")
    [] k.overlap                                       -> Failure("INPUT_OUTPUT_OVERLAP")
    [] ~ComputedLengthMatches(m, k.input, Len(k.input))
         -> FailureAt("LENGTH_MISMATCH", m.computed[1].field, 0)
    [] OTHER                                           -> Continue

\* Capacity and aliases, then the length, then the integrity of the whole record.
RecordSound(m, k) ==
  CASE Len(m.fields) > k.capacity                      -> Failure("OUTPUT_SLOTS_TOO_SMALL")
    [] k.overlap                                       -> Failure("INPUT_OUTPUT_OVERLAP")
    [] ~ComputedLengthDescriptorValid(m)               -> Failure("INVALID_PLAN")
    [] ~ComputedLengthMatches(m, k.input, Len(k.input))
         -> FailureAt("LENGTH_MISMATCH", m.computed[1].field, 0)
    [] ~IntegrityDescriptorValid(m)                    -> Failure("INVALID_PLAN")
    [] ~IntegrityMatches(m, k.input, Len(k.input))     -> Failure("INTEGRITY_FAILED")
    [] OTHER                                           -> Continue

\* The checked fields, or the first that is refused.
Checked(check) ==
  IF check.status /= "OK" THEN Part(check.ws, FailureAt(check.status, check.field, 0))
  ELSE [ws |-> check.ws, answer |-> Continue,
        local |-> [tainted |-> check.tainted, converted |-> check.converted]]

DecodeMessage(k, w, mi, m) ==
  IF ~None(m.decode) THEN Part(w, DecodeText(k, mi))
  ELSE Unless(RecordSound(m, k), w, Checked(Precheck(Plan, m, k.input, k.fault, w)))

DecodeMatched(k, w, match) ==
  Unless(Structure(match), w, DecodeMessage(k, w, match.message, Plan.messages[match.message]))

\* Everything Decode may refuse; the workspace then holds containers and conversions.
PrepareDecode(k, w) == Unless(DecodeEntry(k), w, DecodeMatched(k, w, MatchOf(k)))

FillSlots(k, w, locals, mi, m) ==
  Part([w EXCEPT !.rawCount = locals.converted, !.rawMessage = mi],
       [status |-> "OK", message |-> mi, tainted |-> locals.tainted,
        slots |-> [fi \in DOMAIN m.fields |-> SlotOf(mi, m, fi, k.input, w)]])

DecodedAs(k, w, locals, mi) == FillSlots(k, w, locals, mi, Plan.messages[mi])

\* The slots are filled and only then the raw integers are published.
CompleteDecode(k, w, locals) == DecodedAs(k, w, locals, MatchOf(k).message)

-----------------------------------------------------------------------------
EncodeEntry(k) ==
  CASE ~k.own                                            -> Failure("WORKSPACE_PLAN_MISMATCH")
    [] ~SupportsCompleteRecordSchema(Plan.schema)        -> Failure("INVALID_PLAN")
    [] k.null /\ k.values /= <<>>                        -> Failure("INVALID_ARGUMENT")
    [] Len(k.values) > Plan.maxValues                    -> Failure("INVALID_ARGUMENT")
    [] k.pipeline \notin DOMAIN Plan.pipelines           -> Failure("INVALID_ARGUMENT")
    [] k.message \notin Plan.pipelines[k.pipeline].allowed \cap DOMAIN Plan.messages
                                                         -> Failure("MESSAGE_NOT_ALLOWED")
    [] IsText(Plan) /\ None(Plan.messages[k.message].encode)
                                                         -> Failure("OPERATION_NOT_SUPPORTED")
    [] OTHER                                             -> Continue

Inputs(inputs) ==
  Part(inputs.ws, IF inputs.status = "OK" THEN Continue
                  ELSE FailureAt(inputs.status, inputs.field, inputs.value))

PrepareEncode(k, w) ==
  Unless(EncodeEntry(k), w, Inputs(PrepareEncodeInputs(Plan, k.message, k.values, k.fault, w)))

\* Checks of the output buffer once the size is known; k.output has its old content.
BufferProblem(k, size) ==
  CASE k.outputNull          -> Failure("INVALID_ARGUMENT")
    [] Len(k.output) < size  -> Failure("BUFFER_TOO_SMALL")
    [] k.overlap             -> Failure("INPUT_OUTPUT_OVERLAP")
    [] OTHER                 -> Continue

\* data[i] ^= 1, what the test hooks do to a byte.
Spoil(data, i) == [j \in DOMAIN data |-> IF j = i THEN data[j] ^^ 1 ELSE data[j]]

SpoilIf(armed, i, data) == IF armed THEN Spoil(data, i) ELSE data

Delivered(bytes) == [status |-> "OK", bytes |-> bytes]

ReviewText(action, fields, value, out) ==
  IF TextReviewed(action, fields, value, out) THEN Delivered(out) ELSE Failure("FINAL_REVIEW_FAILED")

SpoilText(text, fault) == IF fault = "ascii" /\ text /= <<>> THEN Spoil(text, Len(text)) ELSE text

EncodeSizedText(k, w, m, action, value, size) ==
  IF size \notin action.min .. action.max \/ size > m.size THEN Part(w, Failure("FINAL_REVIEW_FAILED"))
  ELSE Unless(BufferProblem(k, size), w,
              Part(w, ReviewText(action, m.fields, value,
                                 SpoilText(WriteText(action, value), k.fault))))

TextConflict(conflict) ==
  IF conflict = 0 THEN Continue ELSE FailureAt("ASCII_TERMINATOR_CONFLICT", conflict, 0)

EncodeAction(k, w, m, action, value) ==
  Unless(TextConflict(TerminatorConflict(action, m.fields, value)), w,
         EncodeSizedText(k, w, m, action, value, TextSize(action, value)))

TextValues(k, w, m) ==
  [fi \in DOMAIN m.fields |->
     IF m.fields[fi].textInput THEN InputOf(m.fields[fi], k.values, w).v ELSE <<>>]

EncodeText(k, w, m) == EncodeAction(k, w, m, m.encode[1], TextValues(k, w, m))

\* A bounded frame is as long as its payload makes it.
FrameSize(k, m, w) ==
  IF None(m.bounded) THEN m.size
  ELSE m.bounded[1].header + m.bounded[1].trailer
         + Len(InputOf(m.fields[m.bounded[1].payload], k.values, w).v)

\* The computed length goes in after the fields and before the integrity value.
StoreLength(m, data) ==
  IF None(m.computed) THEN data
  ELSE StoreUnsigned(ComputedValue(m, Len(data)), data, m.computed[1].storage,
                     m.computed[1].width, m.computed[1].order)

StoreIntegrityAt(i, data, fault, r) ==
  SpoilIf(fault = "integrity", r.storage + 1,
          StoreUnsigned(IntegrityValue(i, data, r), data, r.storage, r.width, i.order))

StoreIntegrity(m, data, fault) ==
  IF None(m.integrity) THEN data
  ELSE StoreIntegrityAt(m.integrity[1], data, fault, ResolvedIntegrity(m, Len(data)))

SpoilLength(m, data, fault) ==
  IF fault = "length" /\ ~None(m.computed) THEN Spoil(data, m.computed[1].storage + 1) ELSE data

SpoilField(fields, data, converted) ==
  IF converted = {} THEN data ELSE Spoil(data, fields[Min(converted)].offset + 1)

SpoilDecimal(m, data, fault) ==
  IF fault = "decimal"
  THEN SpoilField(m.fields, data, {fi \in DOMAIN m.fields : HasConversion(m.fields[fi])})
  ELSE data

Bad == Failure("FINAL_REVIEW_FAILED")

ReviewAnswer(review, final) ==
  CASE review.status = "MATCH"    -> Delivered(final)
    [] review.status = "MISMATCH" -> FailureAt("FINAL_REVIEW_FAILED", review.field, 0)
    [] OTHER                      -> FailureAt("INTERNAL_ERROR", review.field, 0)

\* The final bytes must select the message and hold every value.
ReviewFinal(k, w, m, final) ==
  IF FindPipelineMatch(Plan, Plan.pipelines[k.pipeline], final) /= [count |-> 1, message |-> k.message]
  THEN Bad ELSE ReviewAnswer(VerifyFields(Plan, m, k.values, w, final, k.fault), final)

ReviewMeasured(k, w, m, measured) ==
  IF ComputedLengthMatches(m, measured, Len(measured))
  THEN ReviewFinal(k, w, m, SpoilDecimal(m, measured, k.fault))
  ELSE FailureAt("FINAL_REVIEW_FAILED", m.computed[1].field, 0)

LengthStorable(m, size) ==
  None(m.computed) \/
    StorePossible(ComputedValue(m, size), m.computed[1].width, m.computed[1].order)

ReviewSealed(k, w, m, size, sealed) ==
  IF /\ LengthStorable(m, size) /\ IntegrityDescriptorValid(m) /\ ResolveIntegrity(m, size)
     /\ None(m.integrity) \/ IntegrityMatches(m, sealed, size)
  THEN ReviewMeasured(k, w, m, SpoilLength(m, sealed, k.fault)) ELSE Bad

SealFields(k, m, size, fields) ==
  Part(fields.ws,
       IF fields.ok THEN ReviewSealed(k, fields.ws, m, size,
                                      StoreIntegrity(m, StoreLength(m, fields.data), k.fault))
       ELSE Bad)

EncodeSized(k, w, m, size) ==
  IF ~None(m.bounded) /\ size \notin m.bounded[1].minFrame .. m.bounded[1].maxFrame THEN Part(w, Bad)
  ELSE Unless(BufferProblem(k, size), w,
              IF ~ComputedLengthDescriptorValid(m) THEN Part(w, Bad)
              ELSE SealFields(k, m, size,
                     WriteFields(m, k.values, w, WriteFixedBytes(m, SubSeq(k.output, 1, size)))))

\* From fixed bytes and fields to the reviewed record; nothing is delivered before the review
\* has found the structure, the length, the integrity and every field in the final bytes.
EncodeBinary(k, w, m) == EncodeSized(k, w, m, FrameSize(k, m, w))

EncodeMessage(k, w, m) ==
  IF None(m.encode) THEN EncodeBinary(k, w, m) ELSE EncodeText(k, w, m)

CompleteEncode(k, w) == EncodeMessage(k, w, Plan.messages[k.message])

-----------------------------------------------------------------------------
Prepared(k, w) == IF k.op = "DECODE" THEN PrepareDecode(k, w) ELSE PrepareEncode(k, w)
Completed(k, w, locals) ==
  IF k.op = "DECODE" THEN CompleteDecode(k, w, locals) ELSE CompleteEncode(k, w)

Finished(k, p) ==
  IF p.answer = Continue THEN Completed(k, p.ws, p.local).answer ELSE p.answer

\* The answer the call gets alone on a new workspace.
Alone(k) == Finished(k, Prepared(k, FreshWorkspace))

DecodeOf(pipeline, bytes) ==
  Alone([op |-> "DECODE", own |-> TRUE, pipeline |-> pipeline, input |-> bytes, null |-> FALSE,
         capacity |-> MaxLen(LAMBDA m : m.fields), overlap |-> FALSE, fault |-> "none"])
=============================================================================
