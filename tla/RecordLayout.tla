----------------------------- MODULE RecordLayout -----------------------------
(***************************************************************************)
(* What a frozen plan says about a complete record: the messages a size    *)
(* and a fixed byte select, the bounded payload, the computed length and   *)
(* the integrity field, with the checks the codec repeats on every record. *)
(*                                                                         *)
(* An optional part of a message is a sequence of at most one record.      *)
(* message.decode and message.encode are its text templates (TextRecord).  *)
(***************************************************************************)
EXTENDS WideDecimal, TextRecord

None(part) == part = <<>>

\* std::lower_bound over ascending keys: the first index whose key is not below.
RECURSIVE LowerBound(_, _, _, _, _)
LowerBound(keys, key, first, last, middle) ==
  IF first >= last THEN first
  ELSE IF keys[middle] < key THEN LowerBound(keys, key, middle + 1, last, (middle + 1 + last) \div 2)
  ELSE LowerBound(keys, key, first, middle, (first + middle) \div 2)

KeyAt(keys, key, at) == IF at \in DOMAIN keys /\ keys[at] = key THEN at ELSE 0

\* The index of the key, 0 when it is absent.
Find(keys, key) ==
  KeyAt(keys, key, LowerBound(keys, key, 1, Len(keys) + 1, (Len(keys) + 2) \div 2))

FindCandidateGroup(pipeline, size) ==
  Find([i \in DOMAIN pipeline.groups |-> pipeline.groups[i].size], size)

EntryAt(field, at) == IF at = 0 THEN 0 ELSE field.lookup[at].entry

\* field.lookup holds the [raw, entry] pairs in ascending order of raw.
FindEnumEntry(field, raw) ==
  EntryAt(field, Find([i \in DOMAIN field.lookup |-> field.lookup[i].raw], raw))

-----------------------------------------------------------------------------
SizeMatches(m, size) ==
  IF None(m.bounded) THEN size = m.size
  ELSE size >= m.bounded[1].minFrame /\ size <= m.bounded[1].maxFrame

MessageMatches(m, input) ==
  /\ SizeMatches(m, Len(input))
  /\ \A i \in DOMAIN m.fixed : input[m.fixed[i].offset + 1] = m.fixed[i].value

GroupMessages(pipeline, group) == IF group = 0 THEN {} ELSE Range(pipeline.groups[group].messages)

MatchAmong(found) == [count |-> Cardinality(found), message |-> IF found = {} THEN 0 ELSE Min(found)]

\* Every candidate of the pipeline is tried; only exactly one match selects a message.
FindPipelineMatch(plan, pipeline, input) ==
  MatchAmong(
    {i \in GroupMessages(pipeline, FindCandidateGroup(pipeline, Len(input)))
            \cup Range(pipeline.variable) : MessageMatches(plan.messages[i], input)}
    \cup {i \in Range(pipeline.text) : TextMessageMatches(plan.messages[i], input)})

-----------------------------------------------------------------------------
\* The payload of a bounded frame is what header and trailer leave.
PayloadLength(m, size) ==
  IF None(m.bounded) THEN 0 ELSE size - m.bounded[1].header - m.bounded[1].trailer

ResolvePayloadLength(m, size) ==
  IF None(m.bounded) THEN size = m.size
  ELSE LET b == m.bounded[1] IN
       /\ b.header <= size /\ b.trailer <= size - b.header
       /\ PayloadLength(m, size) \in b.minPayload .. b.maxPayload
       /\ size \in b.minFrame .. b.maxFrame

IntegrityWidth(i) == IF i.algorithm = "CRC" THEN i.crc.width \div ByteBits ELSE 1

\* Where the checked region and the stored value are in a frame of this size.
ResolvedAt(m, i, payloadEnd) ==
  [offset |-> i.offset,
   length |-> IF ~None(m.bounded) /\ i.endsAtPayload THEN payloadEnd - i.offset ELSE i.length,
   storage |-> IF None(m.bounded) THEN i.storage ELSE payloadEnd,
   width |-> IntegrityWidth(i)]

PayloadEnd(m, size) == IF None(m.bounded) THEN 0 ELSE m.bounded[1].header + PayloadLength(m, size)

ResolvedIntegrity(m, size) == ResolvedAt(m, m.integrity[1], PayloadEnd(m, size))

RegionsFit(r, size) ==
  /\ r.offset + r.length <= size /\ r.storage + r.width <= size
  /\ ~(r.storage < r.offset + r.length /\ r.offset < r.storage + r.width)

ResolveIntegrity(m, size) ==
  None(m.integrity) \/
  LET i == m.integrity[1]
  IN /\ IF None(m.bounded) THEN ~i.endsAtPayload /\ ~i.atPayloadEnd
        ELSE /\ ResolvePayloadLength(m, size) /\ i.atPayloadEnd
             /\ i.endsAtPayload => i.offset <= PayloadEnd(m, size)
     /\ RegionsFit(ResolvedIntegrity(m, size), size)

\* The polynomial is odd and it, the initial value and the output mask fit the width.
IntegrityDescriptorValid(m) ==
  None(m.integrity) \/
  LET i == m.integrity[1] IN
  /\ i.algorithm = "CRC" =>
       /\ i.crc.width \in {2 * ByteBits, 4 * ByteBits} /\ i.crc.polynomial % 2 = 1
       /\ {i.crc.polynomial, i.crc.initial, i.crc.xorOutput} \subseteq 0 .. 2 ^ i.crc.width - 1
       /\ i.order \in {"BIG", "LITTLE"}
  /\ ResolveIntegrity(m, m.size)
  /\ ~None(m.bounded) \/ ResolvedIntegrity(m, m.size).length /= 0

\* The value the integrity field must hold.
IntegrityValue(i, data, r) ==
  IF i.algorithm = "SUM8" THEN Sum8(data, r.offset, r.length) ELSE Crc(i.crc, data, r.offset, r.length)

HoldsIntegrity(i, data, r) == IntegrityValue(i, data, r) = LoadUnsigned(data, r.storage, r.width, i.order)

IntegrityMatches(m, data, size) ==
  /\ IntegrityDescriptorValid(m)
  /\ None(m.integrity) \/
       /\ ResolveIntegrity(m, size)
       /\ HoldsIntegrity(m.integrity[1], data, ResolvedIntegrity(m, size))

-----------------------------------------------------------------------------
\* What the computed length field must hold in a frame of this size.
ComputedValue(m, size) ==
  CASE None(m.bounded)                 -> m.computed[1].expected
    [] m.computed[1].scope = "FRAME"   -> size
    [] m.computed[1].scope = "PAYLOAD" -> PayloadLength(m, size)
    [] OTHER                           -> m.computed[1].expected

ComputedLengthDescriptorValid(m) ==
  IF None(m.computed) THEN \A f \in Range(m.fields) : f.source /= "COMPUTED"
  ELSE LET c == m.computed[1]
           f == m.fields[c.field]
           limit == IF None(m.bounded) THEN m.size ELSE m.bounded[1].header
           expected == IF c.scope = "PAYLOAD" /\ ~None(m.bounded) THEN m.bounded[1].maxPayload
                       ELSE IF c.scope = "FRAME" THEN m.size ELSE c.length
       IN /\ c.width \in {1, 2, 4} /\ c.storage + c.width <= limit
          /\ IF c.width = 1 THEN c.order = "NOT_APPLICABLE" ELSE c.order \in {"BIG", "LITTLE"}
          /\ c.scope /= "REGION" => c.offset = 0 /\ c.length = 0
          /\ c.scope = "REGION" => c.length /= 0 /\ c.offset + c.length <= m.size
          /\ c.scope = "PAYLOAD" => ~None(m.bounded)
          /\ c.expected = expected /\ FitsUnsignedWidth(expected, c.width)
          /\ f.type = "UINT64" /\ f.source = "COMPUTED" /\ f.container = 0
          /\ f.offset = c.storage /\ f.width = c.width /\ f.order = c.order

ComputedLengthMatches(m, data, size) ==
  None(m.computed) \/
    LET c == m.computed[1] IN
    /\ None(m.bounded) \/ ResolvePayloadLength(m, size)
    /\ LoadUnsigned(data, c.storage, c.width, c.order) = ComputedValue(m, size)
=============================================================================
