----------------------------- MODULE ConfigCompile -----------------------------
(***************************************************************************)
(* CompileJsonToPlan and CompileJsonToPlanWithMetadata: a document goes    *)
(* through the stages of the compiler, each consuming what the one before  *)
(* left, until the first diagnostic or the frozen plan.  Memory may run    *)
(* out at any stage; the diagnostic then says so whatever the document.    *)
(*                                                                         *)
(* The DOM is built in a pool reserved beforehand from the input's size.   *)
(* What the strict profile of the text refuses never gets here.            *)
(***************************************************************************)
EXTENDS PlanFreeze

CONSTANTS Documents,         \* what may be compiled
          Entries,           \* which of "PLAN" and "METADATA" are called
          DescriptionLimit,  \* the caller's limit for the descriptions
          StringLimit,       \* text the compiler takes at all
          MaxFaults          \* bound: allocations that fail, 0 or 1

VARIABLES source,     \* the document
          entry,      \* the function called
          stage,      \* the next stage
          work,       \* what the last stage left: schema, draft or plan
          metadata,   \* the descriptions, once built
          faults,     \* allocations that failed
          answer      \* of the call

-----------------------------------------------------------------------------
(***************************************************************************)
(* The descriptions published beside a plan: one block with the flat       *)
(* tables of pipelines, messages, fields and enumerations and their texts. *)
(* A message knows which fields of the flat table are its own, a field     *)
(* which enumerations; both ranges must agree with the plan, which was     *)
(* built from the same schema on another path.  Every described object     *)
(* counts one unit of text.                                                *)
(***************************************************************************)

\* CountSchema: the lengths of the tables.
DescriptionCounts(schema) ==
  [pipelines |-> Len(schema.pipelines), messages |-> Len(schema.messages),
   fields |-> Total(schema.messages, LAMBDA m : Len(m.fields)),
   enums |-> Total(schema.messages, LAMBDA m : Total(m.fields, LAMBDA f : Len(f.enums)))]

\* CalculateLayout: the block behind its header.
LayoutSize(counts, text) ==
  2 + counts.pipelines + counts.messages + counts.fields + counts.enums + text

DescriptionText(counts) ==
  1 + counts.pipelines + counts.messages + counts.fields + counts.enums

\* The limit of a profile is the layout of its largest schema.
DerivedMetadataLimit(profile, text) ==
  LET l == Limits[profile] IN
  LayoutSize([pipelines |-> l.pipelines, messages |-> l.messages, fields |-> l.fields,
              enums |-> l.enums], text)

\* Consecutive ranges of these lengths.
RangesOf(lengths) ==
  SubSeq([i \in DOMAIN lengths |->
            [begin |-> Total(SubSeq(lengths, 1, i - 1), LAMBDA n : n), count |-> lengths[i]]],
         1, Len(lengths))

FieldsOf(messages) == FlattenSeq(Each(messages, LAMBDA m : m.fields))

MetadataOf(schema) ==
  LET counts == DescriptionCounts(schema) IN
  [counts   |-> counts, size |-> LayoutSize(counts, DescriptionText(counts)),
   messages |-> RangesOf(Each(schema.messages, LAMBDA m : Len(m.fields))),
   fields   |-> RangesOf(Each(FieldsOf(schema.messages), LAMBDA f : Len(f.enums)))]

\* Audit: the tables are as long as the plan's, and each range begins where the one before
\* ends and is as long as in the plan.
AuditPasses(plan, tables) ==
  LET consecutive(ranges, lengths) ==
        \A i \in DOMAIN ranges :
          /\ ranges[i].count = lengths[i]
          /\ ranges[i].begin = Total(SubSeq(lengths, 1, i - 1), LAMBDA n : n)
      fields == FieldsOf(plan.messages)
  IN /\ tables.size = LayoutSize(tables.counts, DescriptionText(tables.counts))
     /\ tables.counts.pipelines = Len(plan.pipelines)
     /\ Len(tables.messages) = Len(plan.messages) /\ Len(tables.fields) = Len(fields)
     /\ consecutive(tables.messages, Each(plan.messages, LAMBDA m : Len(m.fields)))
     /\ consecutive(tables.fields, Each(fields, LAMBDA f : Len(f.enums)))

-----------------------------------------------------------------------------
vars == <<source, entry, stage, work, metadata, faults, answer>>

Nothing == <<>>
Unanswered == [status |-> "NONE"]
Diagnostic(at, error) == [status |-> "DIAGNOSTIC", stage |-> at, error |-> error]

\* The plan limit reports as a resource error, whoever finds it.
Reported(error) == IF error = "PLAN_MEMORY_LIMIT_EXCEEDED" THEN "RESOURCE_LIMIT_EXCEEDED" ELSE error

Begun == stage = "DOM" /\ work = Nothing /\ metadata = Nothing /\ faults = 0 /\ answer = Unanswered

Init == source \in Documents /\ entry \in Entries /\ Begun

\* The answer ends the call; a stage that is refused leaves nothing behind.
End(reply) ==
  /\ answer' = reply /\ stage' = "ANSWERED" /\ work' = Nothing /\ metadata' = Nothing
  /\ UNCHANGED <<source, entry, faults>>

\* A stage that ends in one error or leaves its result.
Step(at, next, error, diagnosed, left) ==
  /\ stage = at
  /\ IF error /= "OK" THEN End(Diagnostic(diagnosed, Reported(error)))
     ELSE /\ work' = left /\ stage' = next
          /\ UNCHANGED <<source, entry, metadata, faults, answer>>

ReadDom == Step("DOM", "SCHEMA", "OK", "JSON_SYNTAX", source)

\* (A few structural errors, as of a CRC polynomial, carry the stage DOMAIN_VALIDATION in the
\* code; the stage of a refused structure is not told apart here.)
BuildSchema == Step("SCHEMA", "DOMAIN", DocumentError(work), "STRUCTURAL", SchemaIr(work))

ValidateDomain ==
  Step("DOMAIN", "BUDGET", DomainError(work), "DOMAIN_VALIDATION", Validated(work))

ValidateBudget ==
  Step("BUDGET", IF entry = "METADATA" THEN "DESCRIBE" ELSE "ASSEMBLE", BudgetError(work),
       "RESOURCE_BUDGET", work)

\* ProtocolMetadataBuilder::Build reads the schema; the assembler consumes it afterwards.
BuildMetadata ==
  LET limit == Min({DescriptionLimit, DerivedMetadataLimit(work.profile, StringLimit)}) IN
  /\ stage = "DESCRIBE"
  /\ \E described \in {MetadataOf(work)} :
       IF described.size > limit
       THEN End(Diagnostic("RESOURCE_BUDGET", "RESOURCE_LIMIT_EXCEEDED"))
       ELSE /\ metadata' = described /\ stage' = "ASSEMBLE"
            /\ UNCHANGED <<source, entry, work, faults, answer>>

AssembleDraft == Step("ASSEMBLE", "FREEZE", "OK", "INTERNAL", Assemble(work))

\* FreezeBudgetedPlanDraft: the builder's refusals are no errors of the document any more.
Unfrozen(problem) ==
  IF problem = "PLAN_MEMORY_LIMIT_EXCEEDED"
  THEN Diagnostic("RESOURCE_BUDGET", "RESOURCE_LIMIT_EXCEEDED")
  ELSE Diagnostic("PLAN_BUILD", "INTERNAL_CONTRACT_VIOLATION")

Frozen(plan) ==
  IF entry = "PLAN" THEN End([status |-> "PLAN", plan |-> plan, metadata |-> Nothing])
  ELSE /\ work' = plan /\ stage' = "AUDIT"
       /\ UNCHANGED <<source, entry, metadata, faults, answer>>

Freeze ==
  /\ stage = "FREEZE"
  /\ \E problem \in {FreezeProblem(work)} :
       IF problem = "OK" THEN Frozen(PlanOf(work)) ELSE End(Unfrozen(problem))

\* The plan is published with its descriptions, or not at all.
AuditMetadata ==
  /\ stage = "AUDIT"
  /\ IF AuditPasses(work, metadata)
     THEN End([status |-> "PLAN", plan |-> work, metadata |-> metadata])
     ELSE End(Diagnostic("INTERNAL", "INTERNAL_CONTRACT_VIOLATION"))

\* An allocation fails: the parser's pool has a diagnostic of its own, everything else ends in
\* std::bad_alloc or in the builder's ALLOCATION_FAILED.  Audit allocates nothing.
RunOutOfMemory ==
  /\ stage \in {"DOM", "SCHEMA", "DOMAIN", "BUDGET", "DESCRIBE", "ASSEMBLE", "FREEZE"}
  /\ faults < MaxFaults /\ faults' = faults + 1
  /\ answer' = IF stage = "DOM" THEN Diagnostic("JSON_RESOURCE", "JSON_ALLOCATION_FAILED")
               ELSE Diagnostic("INTERNAL", "COMPILER_ALLOCATION_FAILED")
  /\ stage' = "ANSWERED" /\ work' = Nothing /\ metadata' = Nothing
  /\ UNCHANGED <<source, entry>>

Next ==
  \/ ReadDom \/ BuildSchema \/ ValidateDomain \/ ValidateBudget \/ BuildMetadata
  \/ AssembleDraft \/ Freeze \/ AuditMetadata \/ RunOutOfMemory

Spec == Init /\ [][Next]_vars

-----------------------------------------------------------------------------
Compiled == answer.status = "PLAN"

CrLf == <<CR, LF>>

\* The codec on the compiled plan, with a workspace of its own for every call.
Codec(plan) == INSTANCE RecordCall WITH Plan <- plan

Decoded(plan, pipeline, frame) == Codec(plan)!DecodeOf(pipeline, frame)

\* The values an Encode of this record takes; a constant is received, but nobody supplies it.
Supplied(plan, decoded) ==
  SelectSeq(decoded.slots, LAMBDA s :
            plan.messages[decoded.message].fields[s.field].source = "INPUT")

\* The frame that the values of a decoded record give in a buffer full of one byte.
Encoded(plan, pipeline, decoded, size, filler) ==
  Codec(plan)!Alone(
    [op |-> "ENCODE", own |-> TRUE, pipeline |-> pipeline, message |-> decoded.message,
     values |-> Supplied(plan, decoded), null |-> FALSE,
     output |-> [i \in 1 .. size |-> filler], outputNull |-> FALSE, overlap |-> FALSE,
     fault |-> "none"])

\* Every frame of a size the pipeline knows.
FramesOf(plan, pi) ==
  UNION {[1 .. n -> Byte] :
                    n \in UNION {SizesOf(plan.messages[mi]) : mi \in plan.pipelines[pi].allowed}}

\* Two messages of a pipeline that are only sent, with records of one greatest length: there is
\* nothing to tell apart, but the builder compares them like the matchers of two binary messages.
SendsAlike(schema) ==
  LET onlySent(m) == ~None(m.text) /\ None(m.text[1].decode)
      message(id) == schema.messages[IndexOfId(schema.messages, id)]
  IN \E p \in Range(schema.pipelines) : \E k, l \in DOMAIN p.messages :
       /\ k < l /\ onlySent(message(p.messages[k])) /\ onlySent(message(p.messages[l]))
       /\ message(p.messages[k]).length = message(p.messages[l]).length

\* A payload that is always empty.
EmptyPayload(schema) ==
  \E m \in Range(schema.messages) : ~None(m.bounded) /\ m.bounded[1].maxPayload = 0

\* Of what the validator accepted the builder refuses exactly two kinds of document, and answers
\* as if the compiler were broken; of every other document one checks what the other checks, and
\* both count the same memory.
BuilderAgrees ==
  LET disputed == SendsAlike(Validated(SchemaIr(source))) \/ EmptyPayload(Validated(SchemaIr(source)))
  IN /\ Compiled => ~disputed
     /\ answer.status = "DIAGNOSTIC" /\ answer.stage = "PLAN_BUILD" => disputed

\* What the call answers when nothing fails: the plan, or the first refusal.
Judged(at, error, next) == IF error /= "OK" THEN Diagnostic(at, Reported(error)) ELSE next

DraftVerdict(draft) ==
  LET problem == FreezeProblem(draft) IN
  IF problem /= "OK" THEN Unfrozen(problem)
  ELSE [status |-> "PLAN", plan |-> PlanOf(draft), metadata |-> Nothing]

SchemaVerdict(schema) ==
  Judged("DOMAIN_VALIDATION", DomainError(schema),
         Judged("RESOURCE_BUDGET", BudgetError(Validated(schema)),
                DraftVerdict(Assemble(Validated(schema)))))

Verdict(doc) == Judged("STRUCTURAL", DocumentError(doc), SchemaVerdict(SchemaIr(doc)))

\* The same plan, but for the version it was written in.
SamePlan(later, version, plan) ==
  later.status = "PLAN" /\ [later.plan EXCEPT !.schema = version] = plan

\* A later binary version takes what an earlier one took, and makes the same plan of it.
LaterVersionsAgree ==
  Compiled /\ source.schema_version \in 1 .. 8 =>
    SamePlan(Verdict([source EXCEPT !.schema_version = @ + 1]), source.schema_version, answer.plan)

\* Asking for the descriptions changes neither the plan nor the diagnosis, unless they are too
\* large; every field of the plan has an entry, and as many enumerations there as in the plan.
DescriptionsAddTo(plain) ==
  LET described == answer.metadata
      entryOf(mi, fi) == described.fields[described.messages[mi].begin + fi]
  IN IF Compiled
     THEN /\ answer.plan = plain.plan
          /\ \A mi \in DOMAIN answer.plan.messages :
               \A fi \in DOMAIN answer.plan.messages[mi].fields :
                 entryOf(mi, fi).count = Len(answer.plan.messages[mi].fields[fi].enums)
     ELSE \/ answer = plain
          \/ /\ plain.status = "PLAN" /\ answer.stage = "RESOURCE_BUDGET"
             /\ MetadataOf(Validated(SchemaIr(source))).size > DescriptionLimit

DescriptionsChangeNothing ==
  stage = "ANSWERED" /\ entry = "METADATA" /\ faults = 0 => DescriptionsAddTo(Verdict(source))

\* No frame belongs to two messages of a binary pipeline.
MatchersDisjoint ==
  Compiled /\ ~IsText(answer.plan) =>
    \A pi \in DOMAIN answer.plan.pipelines : \A frame \in FramesOf(answer.plan, pi) :
      FindPipelineMatch(answer.plan, answer.plan.pipelines[pi], frame).count <= 1

\* A pipeline is refused as ambiguous only when some frame is really taken by two messages.
CommonFrame(l, r) ==
  \E frame \in UNION {[1 .. n -> Byte] : n \in SizesOf(l)} :
    MessageMatches(l, frame) /\ MessageMatches(r, frame)

AmbiguityIsReal ==
  answer.status = "DIAGNOSTIC" /\ answer.error = "AMBIGUOUS_MATCHER" =>
    LET schema == Validated(SchemaIr(source))
        message(id) == PreparedMessage(DraftMessage(schema, IndexOfId(schema.messages, id)))
    IN \E p \in Range(schema.pipelines) : \E k, l \in DOMAIN p.messages :
         k < l /\ CommonFrame(message(p.messages[k]), message(p.messages[l]))

\* What the framing of a stream delivers: a frame cut at this size.
CutAs(framing, frame) ==
  CASE framing.strategy = "SYNC_LENGTH_FIELD" ->
         /\ IsPrefix(framing.sync, frame) /\ Len(frame) \in framing.min .. framing.max
         /\ LoadUnsigned(frame, framing.offset, framing.width, framing.order) = Len(frame)
    [] framing.strategy = "ASCII_CRLF" ->
         /\ Len(frame) \in 2 .. framing.max
         /\ {i \in 1 .. Len(frame) - 1 : SubSeq(frame, i, i + 1) = CrLf} = {Len(frame) - 1}
    [] OTHER -> IsPrefix(framing.sync, frame) /\ Len(frame) = framing.length

\* What is Byte in a binary record and a character in a text.
Alphabet(plan) == IF IsText(plan) THEN Printable \cup Controls ELSE Byte

\* A stream pipeline receives every record it could decode: the framing cuts the record there
\* and nowhere else.
StreamsDeliver ==
  Compiled =>
    \A pi \in DOMAIN answer.plan.pipelines :
      LET framing == FramingIr(source.framing_profiles[answer.plan.pipelines[pi].framing])
          sizes == UNION {IF IsText(answer.plan) THEN 0 .. answer.plan.messages[mi].size
                          ELSE SizesOf(answer.plan.messages[mi]) :
                            mi \in answer.plan.pipelines[pi].allowed}
      IN framing.stream =>
           \A frame \in UNION {[1 .. n -> Alphabet(answer.plan)] : n \in sizes} :
             Decoded(answer.plan, pi, frame).status = "OK" => CutAs(framing, frame)

\* The frames of a pipeline that are records, as they were read.
ReadIn(plan, pi) ==
  {d \in {[frame |-> f, read |-> Decoded(plan, pi, f)] : f \in FramesOf(plan, pi)} :
     d.read.status = "OK"}

SameRecord(plan, a, b) ==
  a.status = "OK" /\ a.message = b.message /\ Supplied(plan, a) = Supplied(plan, b)

\* One frame, the same whatever was in the buffer, and read back as the record it was made from.
SentAgain(plan, pi, read, sent) ==
  \A s \in sent : sent = {s} /\ s.status = "OK"
                   /\ SameRecord(plan, Decoded(plan, pi, s.bytes), read)

\* Every message of a compiled binary plan can be received, and what was received can be sent
\* again: the frame is whole whatever was in the buffer, and it is the same record.
CompiledIsCodable ==
  Compiled /\ ~IsText(answer.plan) =>
    \A pi \in DOMAIN answer.plan.pipelines :
      \E records \in {ReadIn(answer.plan, pi)} :
        /\ answer.plan.pipelines[pi].allowed = {d.read.message : d \in records}
        /\ \A d \in records :
             d.read.tainted \/ SentAgain(answer.plan, pi, d.read,
                                        {Encoded(answer.plan, pi, d.read, Len(d.frame), filler) :
                                           filler \in {0, Radix - 1}})

\* The verdict on a document does not depend on what else was asked nor on the version it is
\* written in, and the builder disputes it in the two known cases only.
VerdictStable == BuilderAgrees /\ LaterVersionsAgree /\ DescriptionsChangeNothing

\* Pipelines are refused as ambiguous when and only when they are.
MatchersSound == MatchersDisjoint /\ AmbiguityIsReal

\* What the compiler accepts can be sent, received and framed.
PlanWorks == CompiledIsCodable /\ StreamsDeliver
=============================================================================
