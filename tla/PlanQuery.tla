-------------------------------- MODULE PlanQuery --------------------------------
(***************************************************************************)
(* What CompiledProtocol answers about a plan that was compiled with its   *)
(* descriptions: the capabilities of a message in a pipeline, the flat     *)
(* tables of fields and enumerations, the segments of a text template, and *)
(* where a field, the computed length and the integrity value lie in a     *)
(* frame.  A tool sizes its buffers and marks bytes of a frame by these    *)
(* answers and never asks the codec again.                                 *)
(*                                                                         *)
(* a is the answer of a call that compiled, [plan, metadata].  Indices     *)
(* count from 1.  A query answers [status] or [status "OK", value].        *)
(***************************************************************************)
EXTENDS ConfigCompile

Refuses(status) == [status |-> status]
Answers(value) == [status |-> "OK", value |-> value]
Broken == Refuses("INTERNAL_CONTRACT_VIOLATION")

IsAsciiMessage(m) == ~None(m.decode) \/ ~None(m.encode)

\* What the codec expects of the caller for this field.
MapEncodeValueSource(m, f) ==
  CASE IsAsciiMessage(m)     -> IF ~None(m.encode) /\ f.textInput THEN "CALLER_INPUT"
                                ELSE "NOT_REFERENCED"
    [] f.source = "INPUT"    -> "CALLER_INPUT"
    [] OTHER                 -> f.source

IsDecodeCandidate(pipeline, mi) ==
  \/ \E g \in Range(pipeline.groups) : mi \in Range(g.messages)
  \/ mi \in Range(pipeline.variable) \cup Range(pipeline.text)

-----------------------------------------------------------------------------
\* The flat tables; an object that is not there, or not as the plan has it, has no description.
RangeFits(r, count) == r.begin <= count /\ r.count <= count - r.begin

MessageDescription(a, mi) ==
  IF /\ mi \in DOMAIN a.plan.messages \cap DOMAIN a.metadata.messages
     /\ RangeFits(a.metadata.messages[mi], Len(a.metadata.fields))
     /\ a.metadata.messages[mi].count = Len(a.plan.messages[mi].fields)
  THEN <<a.metadata.messages[mi]>> ELSE <<>>

\* The first range of the table that holds this index.
OwnerOf(ranges, flat) ==
  LET owners == {i \in DOMAIN ranges : flat - ranges[i].begin \in 1 .. ranges[i].count}
  IN IF owners = {} THEN 0 ELSE Min(owners)

FieldDescription(a, flat) ==
  LET mi == OwnerOf(a.metadata.messages, flat)
      fi == flat - a.metadata.messages[mi].begin
      m == a.plan.messages[mi]
      item == a.metadata.fields[flat]
  IN IF /\ flat \in DOMAIN a.metadata.fields /\ mi /= 0 /\ mi \in DOMAIN a.plan.messages
        /\ fi \in DOMAIN m.fields /\ RangeFits(item, a.metadata.counts.enums)
        /\ item.count = Len(m.fields[fi].enums)
     THEN <<[message |-> mi, field |-> fi, enums |-> item,
             source |-> MapEncodeValueSource(m, m.fields[fi])]>>
     ELSE <<>>

EntryDescription(a, owner, field, place) ==
  LET f == a.plan.messages[field[1].message].fields[field[1].field] IN
  IF None(field) THEN <<>>
  ELSE IF place \notin DOMAIN f.enums THEN <<>>
  ELSE <<[field |-> owner, entry |-> place, raw |-> f.enums[place]]>>

OwnedDescription(a, flat, owner) ==
  IF owner = 0 THEN <<>>
  ELSE EntryDescription(a, owner, FieldDescription(a, owner),
                        flat - a.metadata.fields[owner].begin)

EnumDescription(a, flat) ==
  IF flat \notin 1 .. a.metadata.counts.enums THEN <<>>
  ELSE OwnedDescription(a, flat, OwnerOf(a.metadata.fields, flat))

-----------------------------------------------------------------------------
\* How large an encoded record can become.
EncodeSize(m) ==
  LET between(least, most) ==
        [size |-> most, kind |-> IF least = most THEN "EXACT" ELSE "UPPER_BOUND"]
  IN CASE ~None(m.encode)  -> between(m.encode[1].min, m.encode[1].max)
       [] ~None(m.bounded) -> between(m.bounded[1].minFrame, m.bounded[1].maxFrame)
       [] OTHER            -> between(m.size, m.size)

PipelineMessageExecution(a, pi, mi) ==
  LET m == a.plan.messages[mi]
      available == ~IsAsciiMessage(m) \/ ~None(m.encode)
  IN IF \/ pi \notin DOMAIN a.plan.pipelines \/ mi \notin DOMAIN a.plan.messages
        \/ mi \notin a.plan.pipelines[pi].allowed
     THEN <<>>
     ELSE <<[decode |-> IsDecodeCandidate(a.plan.pipelines[pi], mi), encode |-> available,
             output |-> IF available THEN EncodeSize(m) ELSE [size |-> 0, kind |-> "NONE"]]>>

-----------------------------------------------------------------------------
\* Text templates.
SelectAsciiAction(m, action) == IF action = "DECODE" THEN m.decode ELSE m.encode

ReferencesAsciiField(action, fi) ==
  ~None(action) /\ \E s \in Range(action[1].segments) : s.kind = "FIELD" /\ s.field = fi

\* No field twice, no literal empty, no field without a sensible length.
ValidAsciiAction(action, m) ==
  LET segs == action.segments
      valid(i) ==
        IF segs[i].kind = "LITERAL" THEN segs[i].literal /= <<>>
        ELSE /\ segs[i].field \in DOMAIN m.fields
             /\ m.fields[segs[i].field].type = "BYTES"
             /\ m.fields[segs[i].field].min <= m.fields[segs[i].field].max
             /\ \A j \in 1 .. i - 1 : segs[j].kind = "FIELD" => segs[j].field /= segs[i].field
  IN segs /= <<>> /\ action.min <= action.max /\ \A i \in DOMAIN segs : valid(i)

AsciiAction(a, mi, action) ==
  LET m == a.plan.messages[mi]
      selected == SelectAsciiAction(m, action)
  IN
  CASE mi \notin DOMAIN a.plan.messages              -> Refuses("INDEX_OUT_OF_RANGE")
    [] None(MessageDescription(a, mi))               -> Broken
    [] ~IsAsciiMessage(m)                            -> Refuses("REPRESENTATION_NOT_SUPPORTED")
    [] None(selected)                                -> Refuses("ACTION_NOT_AVAILABLE")
    [] ~ValidAsciiAction(selected[1], m)             -> Broken
    [] OTHER -> Answers([min |-> selected[1].min, max |-> selected[1].max,
                         segments |-> Len(selected[1].segments)])

\* A literal with its bytes, or a field with its index in the message and in the flat table.
AsciiSegmentAt(a, mi, segment) ==
  LET message == MessageDescription(a, mi)[1]
      flat == message.begin + segment.field
  IN
  CASE segment.kind = "LITERAL"  -> Answers([kind |-> "LITERAL", literal |-> segment.literal])
    [] segment.field > message.count \/ None(FieldDescription(a, flat)) -> Broken
    [] OTHER -> Answers([kind |-> "FIELD", field |-> segment.field, flat |-> flat])

SelectedAsciiSegment(a, mi, action, ordinal, selected) ==
  CASE selected.status /= "OK"                     -> selected
    [] ordinal \notin 1 .. selected.value.segments -> Refuses("INDEX_OUT_OF_RANGE")
    [] OTHER -> AsciiSegmentAt(a, mi, SelectAsciiAction(a.plan.messages[mi], action)[1]
                                        .segments[ordinal])

AsciiSegment(a, mi, action, ordinal) ==
  SelectedAsciiSegment(a, mi, action, ordinal, AsciiAction(a, mi, action))

AsciiFieldAt(m, d) ==
  LET f == m.fields[d.field]
      decoded == ReferencesAsciiField(m.decode, d.field)
      encoded == ReferencesAsciiField(m.encode, d.field)
  IN
  CASE ~IsAsciiMessage(m)                            -> Refuses("REPRESENTATION_NOT_SUPPORTED")
    [] \/ f.type /= "BYTES" \/ f.min > f.max
       \/ \E action \in Range(m.decode \o m.encode) : ~ValidAsciiAction(action, m) -> Broken
    [] (~decoded /\ ~encoded) \/ encoded /= f.textInput -> Broken
    [] OTHER -> Answers([message |-> d.message, field |-> d.field, min |-> f.min, max |-> f.max,
                         decoded |-> decoded, encoded |-> encoded])

\* A query about a described field of the flat table.
DescribedAsciiField(a, found) ==
  IF None(found) THEN Broken ELSE AsciiFieldAt(a.plan.messages[found[1].message], found[1])

AsciiField(a, flat) ==
  IF flat \notin DOMAIN a.metadata.fields THEN Refuses("INDEX_OUT_OF_RANGE")
  ELSE DescribedAsciiField(a, FieldDescription(a, flat))

MessageRepresentation(a, mi) ==
  CASE mi \notin DOMAIN a.plan.messages  -> Refuses("INDEX_OUT_OF_RANGE")
    [] None(MessageDescription(a, mi))   -> Broken
    [] OTHER -> Answers(IF IsAsciiMessage(a.plan.messages[mi]) THEN "ASCII_TEXT" ELSE "BINARY")

-----------------------------------------------------------------------------
\* Where things lie in a binary frame.
Fits(range, size) == range.offset <= size /\ range.length <= size - range.offset

\* The sizes of a record, or none when the description of its payload contradicts itself.
RecordLengthBounds(m) ==
  LET b == m.bounded[1]
      sound == /\ b.payload \in DOMAIN m.fields /\ m.fields[b.payload].type = "BYTES"
               /\ b.minPayload <= b.maxPayload
               /\ b.header + b.minPayload + b.trailer = b.minFrame
               /\ b.header + b.maxPayload + b.trailer = b.maxFrame /\ b.maxFrame = m.size
  IN CASE None(m.bounded) -> IF m.size = 0 THEN <<>> ELSE <<[min |-> m.size, max |-> m.size]>>
       [] OTHER           -> IF sound THEN <<[min |-> b.minFrame, max |-> b.maxFrame]>> ELSE <<>>

FrameSizeMatches(m, size) ==
  /\ ~None(RecordLengthBounds(m))
  /\ size \in RecordLengthBounds(m)[1].min .. RecordLengthBounds(m)[1].max
  /\ ~None(m.bounded) =>
       size - m.bounded[1].header - m.bounded[1].trailer
         \in m.bounded[1].minPayload .. m.bounded[1].maxPayload

\* A storage is absent, present at a range, or contradicts the rest of the description.
Storage(sound, at) == [ok |-> sound, at |-> IF sound THEN at ELSE <<>>]

\* Behind the payload of a frame of this size, or at a fixed place.
ResolveIntegrityStorage(m, size) ==
  LET i == m.integrity[1]
      width == IntegrityWidth(i)
      atEnd == /\ ~None(m.bounded) /\ width <= m.bounded[1].trailer
               /\ m.bounded[1].trailer <= size
      range == [offset |-> IF i.atPayloadEnd THEN size - m.bounded[1].trailer ELSE i.storage,
                length |-> width]
  IN IF None(m.integrity) THEN Storage(TRUE, <<>>)
     ELSE Storage((i.atPayloadEnd => atEnd) /\ Fits(range, size), <<range>>)

ResolveComputedLengthStorage(m, size) ==
  LET c == m.computed[1]
      f == m.fields[c.field]
      range == [offset |-> c.storage, length |-> c.width]
  IN IF None(m.computed) THEN Storage(TRUE, <<>>)
     ELSE Storage(/\ c.width /= 0 /\ c.field \in DOMAIN m.fields
                  /\ f.offset = c.storage /\ f.width = c.width /\ f.order = c.order
                  /\ f.source = "COMPUTED" /\ Fits(range, size), <<range>>)

\* The common refusals of the physical queries of a message.
MessageRefusal(a, mi) ==
  LET m == a.plan.messages[mi] IN
  CASE mi \notin DOMAIN a.plan.messages   -> <<Refuses("INDEX_OUT_OF_RANGE")>>
    [] None(MessageDescription(a, mi))    -> <<Broken>>
    [] IsAsciiMessage(m)                  -> <<Refuses("REPRESENTATION_NOT_SUPPORTED")>>
    [] None(RecordLengthBounds(m))        -> <<Broken>>
    [] OTHER                              -> <<>>

\* The storages at the smallest and the largest size; only one that moves may differ.
StoragePlaces(m, sizes, least, most, computed) ==
  LET moves == ~None(m.integrity) /\ m.integrity[1].atPayloadEnd IN
  IF ~least.ok \/ ~most.ok \/ ~computed.ok \/ (~moves /\ least /= most) THEN Broken
  ELSE Answers([sizes |-> sizes, integrity |-> most.at, moves |-> moves,
                computed |-> computed.at])

PlacesWithin(m, sizes) ==
  StoragePlaces(m, sizes, ResolveIntegrityStorage(m, sizes.min),
                ResolveIntegrityStorage(m, sizes.max),
                ResolveComputedLengthStorage(m, sizes.min))

MessagePhysical(a, mi) ==
  IF ~None(MessageRefusal(a, mi)) THEN MessageRefusal(a, mi)[1]
  ELSE PlacesWithin(a.plan.messages[mi], RecordLengthBounds(a.plan.messages[mi])[1])

PlacesAt(integrity, computed) ==
  IF ~integrity.ok \/ ~computed.ok THEN Broken
  ELSE Answers([integrity |-> integrity.at, computed |-> computed.at])

ResolveMessagePhysical(a, mi, size) ==
  LET m == a.plan.messages[mi] IN
  CASE ~None(MessageRefusal(a, mi))  -> MessageRefusal(a, mi)[1]
    [] ~FrameSizeMatches(m, size)    -> Refuses("FRAME_SIZE_MISMATCH")
    [] OTHER -> PlacesAt(ResolveIntegrityStorage(m, size), ResolveComputedLengthStorage(m, size))

-----------------------------------------------------------------------------
\* Mutant: the numeric bytes of a container are taken in the order of its addresses.
BitMasks_LittleOnly(c, f) ==
  LET mask(byte) == (((2 ^ f.bits - 1) * 2 ^ f.shift) \div Radix ^ byte) % Radix
  IN {[byte |-> c.offset + byte, mask |-> mask(byte)] :
         byte \in {b \in 0 .. c.width - 1 : mask(b) /= 0}}

\* The bits of a field in each byte of its container, empty masks left out.
BitMasks(c, f) ==
  LET bits == (2 ^ f.bits - 1) * 2 ^ f.shift
      numeric(byte) == IF c.order = "LITTLE" THEN byte ELSE c.width - 1 - byte
      mask(byte) == (bits \div Radix ^ numeric(byte)) % Radix
  IN {[byte |-> c.offset + byte, mask |-> mask(byte)] :
        byte \in {b \in 0 .. c.width - 1 : mask(b) /= 0}}

BitsSound(m, f, sizes) ==
  LET c == m.containers[f.container] IN
  /\ f.container \in DOMAIN m.containers /\ c.width \in 1 .. MaxWidth
  /\ Fits([offset |-> c.offset, length |-> c.width], sizes.min)
  /\ f.bits \in 1 .. ByteBits * MaxWidth - f.shift /\ f.shift < ByteBits * MaxWidth
  /\ c.order \in {"LITTLE", "BIG"} \/ (c.width = 1 /\ c.order = "NOT_APPLICABLE")
  /\ f.shift + f.bits <= ByteBits * c.width

RangeSound(m, fi, sizes) ==
  LET f == m.fields[fi]
      range == [offset |-> f.offset, length |-> f.width]
  IN IF IsPayload(m, fi)
     THEN /\ f.type = "BYTES" /\ f.offset = m.bounded[1].header
          /\ f.width = m.bounded[1].maxPayload /\ Fits(range, sizes.max)
     ELSE Fits(range, sizes.min)

\* A range of bytes, as long as the largest frame has it, or masks of single bytes.
PlaceWithin(m, d, sizes) ==
  LET f == m.fields[d.field]
      place == [message |-> d.message, field |-> d.field]
  IN
  CASE f.container = 0 -> IF RangeSound(m, d.field, sizes)
                          THEN Answers(place @@ [kind |-> "BYTE_RANGE", offset |-> f.offset,
                                                 length |-> f.width,
                                                moves |-> IsPayload(m, d.field)])
                          ELSE Broken
    [] OTHER -> IF BitsSound(m, f, sizes)
                THEN Answers(place @@ [kind |-> "BIT_MASKS",
                                       masks |-> BitMasks(m.containers[f.container], f)])
                ELSE Broken

DescribedPhysical(a, found) ==
  LET m == a.plan.messages[found[1].message] IN
  CASE None(found)                    -> Broken
    [] IsAsciiMessage(m)              -> Refuses("REPRESENTATION_NOT_SUPPORTED")
    [] None(RecordLengthBounds(m))    -> Broken
    [] OTHER -> PlaceWithin(m, found[1], RecordLengthBounds(m)[1])

FieldPhysical(a, flat) ==
  IF flat \notin DOMAIN a.metadata.fields THEN Refuses("INDEX_OUT_OF_RANGE")
  ELSE DescribedPhysical(a, FieldDescription(a, flat))

\* In a frame of this size.
ResolvedRange(m, place, size) ==
  LET b == m.bounded[1]
      range == [offset |-> place.offset,
                length |-> IF place.moves THEN size - b.header - b.trailer ELSE place.length]
  IN
  IF \/ place.moves /\ (b.header + b.trailer > size \/ place.offset /= b.header)
     \/ ~Fits(range, size)
  THEN Broken ELSE Answers([kind |-> "BYTE_RANGE"] @@ range)

ResolvedPlace(a, found, size) ==
  LET place == found.value
      m == a.plan.messages[place.message]
  IN
  CASE found.status /= "OK"           -> found
    [] ~FrameSizeMatches(m, size)     -> Refuses("FRAME_SIZE_MISMATCH")
    [] place.kind = "BYTE_RANGE"      -> ResolvedRange(m, place, size)
    [] \E k \in place.masks : k.byte >= size -> Broken
    [] OTHER -> Answers([kind |-> "BIT_MASKS", masks |-> place.masks])

ResolveFieldPhysical(a, flat, size) == ResolvedPlace(a, FieldPhysical(a, flat), size)

-----------------------------------------------------------------------------
Queried == Compiled /\ entry = "METADATA"

Flat(a, mi, fi) == a.metadata.messages[mi].begin + fi

\* Every record a pipeline decodes as this message.
RecordOf(mi, frame, read) ==
  [frame |-> frame,
   slots |-> IF read.status = "OK" /\ read.message = mi THEN read.slots ELSE <<>>]

RecordsOf(plan, pi, mi) ==
  LET m == plan.messages[mi]
      frames == IF IsAsciiMessage(m) THEN UNION {[1 .. n -> Alphabet(plan)] : n \in 0 .. m.size}
                ELSE UNION {[1 .. n -> Byte] : n \in SizesOf(m)}
  IN {d \in {RecordOf(mi, f, Decoded(plan, pi, f)) : f \in frames} : d.slots /= <<>>}

\* Of a compiled plan no query answers that the plan contradicts itself.
QueriesAnswer ==
  Queried =>
    LET a == answer
        sizes == 0 .. Limits[source.resource_profile].frame
        actions == {"DECODE", "ENCODE"}
        messages == 1 .. Len(a.plan.messages) + 1
        flats == 1 .. Len(a.metadata.fields) + 1
    IN /\ \A flat \in flats :
            /\ Broken \notin {AsciiField(a, flat), FieldPhysical(a, flat)}
            /\ Broken \notin {ResolveFieldPhysical(a, flat, n) : n \in sizes}
       /\ \A mi \in messages :
            /\ Broken \notin {MessageRepresentation(a, mi), MessagePhysical(a, mi)}
            /\ Broken \notin {ResolveMessagePhysical(a, mi, n) : n \in sizes}
            /\ Broken \notin {AsciiSegment(a, mi, action, k) :
                               action \in actions, k \in 1 .. Limits.desktop.fields}
       /\ \A flat \in 1 .. a.metadata.counts.enums : ~None(EnumDescription(a, flat))

\* The bytes and bits a query names in a frame.
Named(frame, at) ==
  IF at.kind = "BYTE_RANGE" THEN SubSeq(frame, at.offset + 1, at.offset + at.length)
  ELSE {[byte |-> k.byte, bits |-> frame[k.byte + 1] & k.mask] : k \in at.masks}

\* No two of the pairs share a side.
OneToOne(pairs) ==
  /\ Cardinality({p[1] : p \in pairs}) = Cardinality(pairs)
  /\ Cardinality({p[2] : p \in pairs}) = Cardinality(pairs)

MarkedValues(records, fi, n, at) ==
  {<<Named(d.frame, at), d.slots[fi].v>> : d \in {e \in records : Len(e.frame) = n}}

\* A tool marks exactly the bits a value comes from: in records of one message and one size, the
\* marked bits are the same when and only when the decoded value is the same.
HighlightIn(records, mi) ==
  \A n \in SizesOf(answer.plan.messages[mi]) :
    \A fi \in DOMAIN answer.plan.messages[mi].fields :
      OneToOne(MarkedValues(records, fi, n,
                            ResolveFieldPhysical(answer, Flat(answer, mi, fi), n).value))

\* What is not inside one of the ranges.
Outside(frame, ranges) ==
  [i \in {i \in DOMAIN frame : \A r \in Range(ranges) :
                   i \notin r.offset + 1 .. r.offset + r.length}
     |-> frame[i]]

PlaceOf(at) ==
  IF at.kind = "BYTE_RANGE" THEN at.offset .. at.offset + at.length - 1
  ELSE {k.byte : k \in at.masks}

BytesIn(ranges) == {r.offset .. r.offset + r.length - 1 : r \in Range(ranges)}

SealedAt(m, at, places, frames) ==
  /\ \A s \in BytesIn(at.integrity), fi \in DOMAIN m.fields : s \cap places[fi] = {}
  /\ BytesIn(at.computed)
       = {places[fi] : fi \in {k \in DOMAIN m.fields : m.fields[k].source = "COMPUTED"}}
  /\ Cardinality({Outside(f, at.integrity \o at.computed) : f \in frames}) = Cardinality(frames)

\* The length and the integrity value are where the query says: no byte of the integrity value
\* belongs to a field, the length is its field, and the rest of a record leaves these bytes no
\* choice.
SealedIn(records, mi) ==
  LET m == answer.plan.messages[mi]
      place(fi, n) == PlaceOf(ResolveFieldPhysical(answer, Flat(answer, mi, fi), n).value)
  IN \A n \in SizesOf(m) :
       SealedAt(m, ResolveMessagePhysical(answer, mi, n).value,
                [fi \in DOMAIN m.fields |-> place(fi, n)],
                {d.frame : d \in {e \in records : Len(e.frame) = n}})

\* The values an Encode of this message may be given, for the fields described as the caller's:
\* those of its records whose enumerated values are known, or any text.
GivenValues(a, records, mi) ==
  LET m == a.plan.messages[mi]
      callers == {fi \in DOMAIN m.fields :
                    FieldDescription(a, Flat(a, mi, fi))[1].source = "CALLER_INPUT"}
      texts(f) == UNION {[1 .. n -> f.allowed] : n \in f.min .. f.max}
      chosen == {c \in [callers -> UNION {texts(m.fields[fi]) : fi \in callers}] :
                   \A fi \in callers : c[fi] \in texts(m.fields[fi])}
      order == SetToSortSeq(callers, <)
      value(fi, v) == [own |-> TRUE, message |-> mi, field |-> fi, kind |-> "BYTES", v |-> v,
                       null |-> FALSE]
  IN IF IsAsciiMessage(m)
     THEN {[k \in DOMAIN order |-> value(order[k], c[order[k]])] : c \in chosen}
     ELSE {SelectSeq(d.slots, LAMBDA s : s.field \in callers) :
             d \in {r \in records :
                      \A s \in Range(r.slots) : s.kind = "ENUM" => s.v.entry /= 0}}

EncodedIn(plan, pi, mi, values, size) ==
  Codec(plan)!Alone(
    [op |-> "ENCODE", own |-> TRUE, pipeline |-> pi, message |-> mi, values |-> values,
     null |-> FALSE, output |-> [i \in 1 .. size |-> 0], outputNull |-> FALSE, overlap |-> FALSE,
     fault |-> "none"])

\* The announced size is the size of every encoded record, or that of the longest one.
SizesAnnounced(sizes, output) ==
  /\ sizes /= {} /\ Max(sizes) = output.size
  /\ output.kind = "EXACT" <=> Cardinality(sizes) = 1

EncodeHonest(encoded, output) ==
  /\ {e.status : e \in encoded} \subseteq {"OK", "ASCII_TERMINATOR_CONFLICT"}
  /\ SizesAnnounced({Len(e.bytes) : e \in {x \in encoded : x.status = "OK"}}, output)

HonestFor(records, d, pi, mi) ==
  /\ d.decode <=> records /= {}
  /\ d.encode => EncodeHonest({EncodedIn(answer.plan, pi, mi, values, d.output.size) :
                                 values \in GivenValues(answer, records, mi)}, d.output)

\* A message is announced as decodable exactly when a record of it can be received, and the
\* announced size is the size of every encoded record or of the longest one.
ExecutionHonest ==
  Queried =>
    \A pi \in DOMAIN answer.plan.pipelines : \A mi \in answer.plan.pipelines[pi].allowed :
      HonestFor(RecordsOf(answer.plan, pi, mi), PipelineMessageExecution(answer, pi, mi)[1], pi, mi)

ValueOf(slots, field) ==
  FlattenSeq(Each(SelectSeq(slots, LAMBDA x : x.message = field.message /\ x.field = field.field),
                  LAMBDA x : x.v))

DescribedPart(slots, s) ==
  IF s.kind = "LITERAL" THEN s.literal ELSE ValueOf(slots, AsciiField(answer, s.flat).value)

\* The described segments, filled with the decoded values, are the record.
TemplateIn(records, mi) ==
  \A d \in records :
    d.frame = FlattenSeq([k \in 1 .. AsciiAction(answer, mi, "DECODE").value.segments |->
                            DescribedPart(d.slots, AsciiSegment(answer, mi, "DECODE", k).value)])

\* A decoded enumerated value has the description of its entry.
EnumsNamedIn(records, mi) ==
  \A d \in records : \A s \in Range(d.slots) :
    s.kind = "ENUM" =>
      LET flat == Flat(answer, mi, s.field)
          item == FieldDescription(answer, flat)[1].enums
      IN s.v.entry /= 0 =>
           EnumDescription(answer, item.begin + s.v.entry)
             = <<[field |-> flat, entry |-> s.v.entry, raw |-> s.v.raw]>>

\* What is described is what the records of the message are.
DescribedAsRead(records, pi, mi) ==
  /\ ~IsText(answer.plan) => HighlightIn(records, mi) /\ SealedIn(records, mi)
  /\ mi \in Range(answer.plan.pipelines[pi].text) => TemplateIn(records, mi)
  /\ EnumsNamedIn(records, mi)

\* What CompiledProtocol says of a plan is what its records and frames are, and what it
\* announces of a message in a pipeline is what the codec does with it.
QueriesTruthful ==
  /\ QueriesAnswer /\ ExecutionHonest
  /\ Queried =>
       \A pi \in DOMAIN answer.plan.pipelines : \A mi \in answer.plan.pipelines[pi].allowed :
         DescribedAsRead(RecordsOf(answer.plan, pi, mi), pi, mi)
=============================================================================
