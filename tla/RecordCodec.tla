------------------------------ MODULE RecordCodec ------------------------------
(***************************************************************************)
(* DecodeCompleteRecord and EncodeCompleteRecord: callers that share one   *)
(* ExecutionWorkspace and one frozen plan.  A call takes the workspace     *)
(* with an atomic flag and returns WORKSPACE_BUSY when it cannot; then it  *)
(* checks its arguments into the workspace (Prepare) and delivers from it  *)
(* (Complete), and releases it.  What a call does is in RecordCall.        *)
(***************************************************************************)
EXTENDS RecordCall

CONSTANTS Callers, Calls,
          MaxCalls      \* bound: calls made by all callers together

VARIABLES ws,       \* the ExecutionWorkspace
          call,     \* caller -> its call in progress or just answered
          local,    \* caller -> what a Decode keeps on its stack: tainted, converted
          phase,    \* caller -> "idle" | "entered" | "prepared" | "done"
          result,   \* caller -> the answer
          made,     \* calls made
          last      \* the answer of the last call that held the workspace

vars == <<ws, call, local, phase, result, made, last>>

NoCall == [op |-> "NONE"]
NoAnswer == [status |-> "NONE"]

\* What a call does first once test_and_set gave it the workspace.
Leased(w) == [w EXCEPT !.inUse = TRUE, !.rawCount = 0, !.rawMessage = 0]
Released(w) == [w EXCEPT !.inUse = FALSE]

\* ~ExecutionWorkspaceLease: only the lease that set the flag clears it.
LeaseEnds(w, acquired) == IF acquired THEN Released(w) ELSE w

Init ==
  /\ ws = FreshWorkspace /\ made = 0 /\ last = [call |-> NoCall, answer |-> NoAnswer]
  /\ call = [c \in Callers |-> NoCall] /\ local = [c \in Callers |-> NoLocal]
  /\ phase = [c \in Callers |-> "idle"] /\ result = [c \in Callers |-> NoAnswer]

Enter(c) ==
  /\ phase[c] = "idle" /\ made < MaxCalls /\ made' = made + 1
  /\ \E k \in Calls : call' = [call EXCEPT ![c] = k]
  /\ ~ws.inUse
  /\ ws' = Leased(ws)
  /\ phase' = [phase EXCEPT ![c] = "entered"]
  /\ UNCHANGED <<local, result, last>>

EnterBusy(c) ==
  /\ phase[c] = "idle" /\ made < MaxCalls /\ made' = made + 1
  /\ \E k \in Calls : call' = [call EXCEPT ![c] = k]
  /\ ws.inUse
  /\ ws' = LeaseEnds(ws, FALSE)
  /\ phase' = [phase EXCEPT ![c] = "done"]
  /\ result' = [result EXCEPT ![c] = Failure("WORKSPACE_BUSY")]
  /\ UNCHANGED <<local, last>>

Answer(c, w, answer) ==
  /\ ws' = LeaseEnds(w, TRUE)
  /\ result' = [result EXCEPT ![c] = answer]
  /\ last' = [call |-> call[c], answer |-> answer]
  /\ phase' = [phase EXCEPT ![c] = "done"]

Prepare(c) ==
  /\ phase[c] = "entered"
  /\ \E p \in {Prepared(call[c], ws)} :
       /\ local' = [local EXCEPT ![c] = p.local]
       /\ IF p.answer = Continue
          THEN /\ ws' = p.ws /\ phase' = [phase EXCEPT ![c] = "prepared"]
               /\ UNCHANGED <<result, last>>
          ELSE Answer(c, p.ws, p.answer)
  /\ UNCHANGED <<call, made>>

Complete(c) ==
  /\ phase[c] = "prepared"
  /\ \E p \in {Completed(call[c], ws, local[c])} : Answer(c, p.ws, p.answer)
  /\ local' = [local EXCEPT ![c] = NoLocal]
  /\ UNCHANGED <<call, made>>

\* The caller has read its answer and may call again.
Return(c) ==
  /\ phase[c] = "done"
  /\ phase' = [phase EXCEPT ![c] = "idle"]
  /\ call' = [call EXCEPT ![c] = NoCall] /\ result' = [result EXCEPT ![c] = NoAnswer]
  /\ UNCHANGED <<ws, local, made, last>>

Next == \E c \in Callers : Enter(c) \/ EnterBusy(c) \/ Prepare(c) \/ Complete(c) \/ Return(c)

Spec == Init /\ [][Next]_vars

-----------------------------------------------------------------------------
\* GetLastRawInteger for every index below LastRawIntegerCount.
LastRawIntegers(w) ==
  [i \in 1 .. w.rawCount |->
     LET f == Plan.messages[w.rawMessage].fields[w.raws[i].field]
     IN [message |-> w.rawMessage, field |-> w.raws[i].field,
         value |-> IF f.type = "INT64" THEN InterpretSigned(w.raws[i].bits, f.width)
                   ELSE w.raws[i].bits]]

SameValue(l, r) ==
  /\ l.kind = r.kind
  /\ CASE l.kind = "DECIMAL64" -> DecimalEqual(l.v, r.v)
       [] l.kind = "ENUM"      -> l.v.entry = r.v.entry
       [] OTHER                -> l.v = r.v

Done(op) == {c \in Callers : phase[c] = "done" /\ call[c].op = op
                              /\ result[c].status /= "WORKSPACE_BUSY"}

\* An answer depends on the call alone: not on what earlier records left in the workspace or in
\* the output buffer, nor on the other callers of the workspace.
AnswerOfTheCall ==
  \A c \in Done("DECODE") \cup Done("ENCODE") :
    result[c] = Alone(IF call[c].op = "DECODE" THEN call[c]
                      ELSE [call[c] EXCEPT !.output = [i \in DOMAIN @ |-> 0]])

Shows(answer, message, values) ==
  /\ answer.status = "OK" /\ answer.message = message /\ ~answer.tainted
  /\ \A v \in Range(values) :
       \E s \in Range(answer.slots) : s.field = v.field /\ SameValue(v, s)

\* Whatever spoils the bytes on the way, a delivered record is one that Decode accepts in the
\* same pipeline, as the same message, with every value the caller supplied.  A text message
\* may have another template for Decode, or none; then nothing is promised.
DeliveredDecodes ==
  \A c \in Done("ENCODE") :
    LET m == Plan.messages[call[c].message]
    IN result[c].status = "OK" /\ m.decode = m.encode =>
         Shows(DecodeOf(call[c].pipeline, result[c].bytes), call[c].message, call[c].values)

\* The caller's order of the values matters for none of the bytes; from schema 0.5 on it does
\* not matter for which field is refused either, once every reference is admitted.
ReferenceErrors == {"FIELD_REFERENCE_MISMATCH", "CONSTANT_FIELD_OVERRIDE",
                    "COMPUTED_FIELD_OVERRIDE", "DUPLICATE_FIELD"}
SameAnswer(other, answer) ==
  /\ answer.status = "OK" => other = answer
  /\ Deferred(Plan) /\ answer.status \notin ReferenceErrors =>
       /\ other.status = answer.status
       /\ other.status /= "OK" => other.field = answer.field

OrderOfValues ==
  \A c \in Done("ENCODE") :
    SameAnswer(Alone([call[c] EXCEPT !.values = Reverse(@)]), result[c])

\* What LastRawIntegers shows between calls is the record the last call decoded, field by field,
\* and nothing when that call was an Encode or failed.
RawIntegersHonest ==
  ~ws.inUse =>
    LET answer == last.answer
        fields == Plan.messages[answer.message].fields
        converted == SelectSeq([fi \in DOMAIN fields |-> fi], LAMBDA fi : HasConversion(fields[fi]))
        shown == LastRawIntegers(ws)
    IN IF last.call.op = "DECODE" /\ answer.status = "OK"
       THEN /\ Len(shown) = Len(converted)
            /\ \A i \in DOMAIN shown :
                 LET f == fields[converted[i]]
                     bits == LoadUnsigned(last.call.input, f.offset, f.width, f.order)
                 IN /\ shown[i].field = converted[i] /\ shown[i].message = answer.message
                    /\ shown[i].value % Radix ^ f.width = bits
                    /\ (shown[i].value < 0) => f.type = "INT64"
       ELSE shown = <<>>

HasInputs(answer, inputs) ==
  answer.status = "OK" /\ \A i \in DOMAIN inputs : SameValue(inputs[i], answer.slots[inputs[i].field])

RereadAs(pipeline, inputs, sent) ==
  sent.status = "OK" /\ HasInputs(DecodeOf(pipeline, sent.bytes), inputs)

\* A record that decodes without taint can be sent again: its input values are admitted, and the
\* new record decodes to the same values.
DecodedReencodes ==
  \A c \in Done("DECODE") :
    result[c].status = "OK" /\ ~IsText(Plan) /\ ~result[c].tainted =>
      LET fields == Plan.messages[result[c].message].fields
          inputs == SelectSeq(result[c].slots, LAMBDA s : fields[s.field].source = "INPUT")
      IN RereadAs(call[c].pipeline, inputs,
           Alone([op |-> "ENCODE", own |-> TRUE, pipeline |-> call[c].pipeline,
                  message |-> result[c].message, values |-> inputs, null |-> FALSE,
                  output |-> [i \in DOMAIN call[c].input |-> 0], outputNull |-> FALSE,
                  overlap |-> FALSE, fault |-> "none"]))

\* One byte changed on the wire, other than the bytes that select the message, is noticed
\* wherever the record carries an integrity field that covers it.
DamageDetected ==
  \A c \in Done("DECODE") :
    result[c].status = "OK" =>
      LET m == Plan.messages[result[c].message]
          data == call[c].input
          r == ResolvedIntegrity(m, Len(data))
          covered == (r.offset + 1 .. r.offset + r.length)
                       \cup (r.storage + 1 .. r.storage + r.width)
          chosen == {m.fixed[i].offset + 1 : i \in DOMAIN m.fixed}
      IN None(m.integrity) \/
           \A i \in covered \ chosen, b \in Byte :
             b /= data[i] => DecodeOf(call[c].pipeline, ReplaceAt(data, i, b)).status /= "OK"
=============================================================================
