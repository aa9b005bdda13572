------------------------------- MODULE PlanFreeze -------------------------------
(***************************************************************************)
(* The second half of the plan builder: the execution plan of every        *)
(* message and pipeline, the workspace one call needs, the memory of the   *)
(* plan counted from what was just built, and the freeze into one block.   *)
(***************************************************************************)
EXTENDS PlanBuild

CONSTANT SlotBytes    \* what one value index, container or conversion slot takes

-----------------------------------------------------------------------------
\* The execution description of a message.
CountUpTo(items, i, Test(_)) == Len(SelectSeq(SubSeq(items, 1, i), Test))

Lookup(f) ==
  SortSeq(SubSeq([e \in DOMAIN f.enums |-> [raw |-> f.enums[e].raw_value, entry |-> e]],
                 1, Len(f.enums)),
          LAMBDA a, b : a.raw < b.raw)

PreparedField(m, i) ==
  LET f == m.fields[i]
      bit == f.codec = "BITFIELD"
      x == IF bit THEN m.containers[f.container] ELSE f
      input(g) == g.source = "INPUT"
      converted(g) == g.conversion /= 0
  IN [type |-> f.type, offset |-> x.offset, width |-> x.width, order |-> f.order,
      source |-> f.source, constant |-> f.constant,
      ordinal |-> IF input(f) THEN CountUpTo(m.fields, i, input) ELSE 0,
      container |-> IF bit THEN f.container ELSE 0,
      shift |-> IF bit THEN BitShift(x, f) ELSE 0, bits |-> f.bits,
      lookup |-> Lookup(f), enums |-> Each(f.enums, LAMBDA e : e.raw_value), policy |-> f.policy,
      conversion |-> f.conversion,
      slot |-> IF converted(f) THEN CountUpTo(m.fields, i, converted) ELSE 0,
      min |-> 0, max |-> 0, allowed |-> {}, textInput |-> FALSE]

\* A text field is an input exactly when the Encode template refers to it.
PreparedTextField(m, i) ==
  LET f == m.fields[i]
      inputs == ReferencedIn(m.text[1].encode)
  IN [type |-> "BYTES", offset |-> 0, width |-> 0, order |-> "NOT_APPLICABLE", source |-> "INPUT",
      constant |-> 0, ordinal |-> IF i \in inputs THEN Cardinality(inputs \cap 1 .. i) ELSE 0,
      container |-> 0, shift |-> 0, bits |-> 0, lookup |-> <<>>, enums |-> <<>>,
      policy |-> "REJECT", conversion |-> 0, slot |-> 0, min |-> f.text[1].min,
      max |-> f.text[1].max, allowed |-> f.text[1].allowed, textInput |-> i \in inputs]

\* Mutant: Encode starts every container at zero.
PreparedMessage_NoBase(m) ==
  LET text == ~None(m.text)
      field(i) == IF text THEN PreparedTextField(m, i) ELSE PreparedField(m, i)
  IN [size |-> m.length, fixed |-> FixedOf(m), bounded |-> m.bounded, computed |-> m.computed,
      fields |-> SubSeq([i \in DOMAIN m.fields |-> field(i)], 1, Len(m.fields)),
      containers |-> Each(m.containers, LAMBDA c : [offset |-> c.offset, width |-> c.width,
                                                    order |-> c.order, base |-> 0]),
      integrity |-> m.integrity,
      decode |-> IF text THEN m.text[1].decode ELSE <<>>,
      encode |-> IF text THEN m.text[1].encode ELSE <<>>]

PreparedMessage(m) ==
  LET text == ~None(m.text)
      field(i) == IF text THEN PreparedTextField(m, i) ELSE PreparedField(m, i)
  IN [size |-> m.length, fixed |-> FixedOf(m), bounded |-> m.bounded, computed |-> m.computed,
      fields |-> SubSeq([i \in DOMAIN m.fields |-> field(i)], 1, Len(m.fields)),
      containers |-> Each(m.containers, LAMBDA c : [offset |-> c.offset, width |-> c.width,
                                                    order |-> c.order, base |-> c.base]),
      integrity |-> m.integrity,
      decode |-> IF text THEN m.text[1].decode ELSE <<>>,
      encode |-> IF text THEN m.text[1].encode ELSE <<>>]

InputsOf(m) ==
  Len(SelectSeq(m.fields, LAMBDA f : f.ordinal /= 0))

-----------------------------------------------------------------------------
\* The workspace holds the largest message of the plan, part by part.
WorkspaceBytes(prepared) ==
  LET inputs == Largest(prepared, InputsOf)
      slots == Largest(prepared, LAMBDA m : Len(SelectSeq(m.fields, LAMBDA f : f.slot /= 0)))
      containers == Largest(prepared, LAMBDA m : Len(m.containers))
  IN (inputs + Words(inputs) + containers + slots) * SlotBytes

\* Every conversion belongs to exactly one field.
ConversionsShared(d) ==
  LET uses(k) == Total(d.messages, LAMBDA m : Len(SelectSeq(m.fields, LAMBDA f : f.conversion = k)))
  IN \E k \in DOMAIN d.conversions : uses(k) /= 1

-----------------------------------------------------------------------------
\* Pipelines.
SizesOf(m) ==
  IF None(m.bounded) THEN m.size .. m.size ELSE m.bounded[1].minFrame .. m.bounded[1].maxFrame

\* No byte is fixed to two values and some size is common to both.
PlanMatchersIntersect(l, r) ==
  /\ SizesOf(l) \cap SizesOf(r) /= {}
  /\ \A i \in DOMAIN l.fixed, j \in DOMAIN r.fixed :
       l.fixed[i].offset = r.fixed[j].offset => l.fixed[i].value = r.fixed[j].value

StartsWithSync(m, sync) ==
  \A k \in DOMAIN sync : \E i \in DOMAIN m.fixed : /\ m.fixed[i].offset = k - 1
                                                   /\ m.fixed[i].value = sync[k]

DeclaresFrameLength(m, framing) ==
  /\ SizesOf(m) \subseteq framing.min .. framing.max
  /\ ~None(m.computed)
  /\ LET c == m.computed[1] IN
       /\ c.scope = "FRAME" /\ c.storage = framing.offset /\ c.width = framing.width
       /\ c.order = framing.order

StreamMessageValid(framing, m) ==
  CASE ~framing.stream                    -> TRUE
    [] framing.strategy = "ASCII_CRLF"    ->
         None(m.decode) \/ (/\ m.decode[1].max <= framing.max
                            /\ ProveAsciiCrLfBoundary(m.decode[1], m.fields))
    [] OTHER ->
         /\ framing.strategy \in {"FIXED_LENGTH", "SYNC_FIXED_LENGTH"}
              => SizesOf(m) = {framing.length}
         /\ framing.strategy /= "FIXED_LENGTH" => StartsWithSync(m, framing.sync)
         /\ framing.strategy = "SYNC_LENGTH_FIELD" => DeclaresFrameLength(m, framing)

\* Reference k of a pipeline: its direction, its stream, then the messages before it.
PlanReferenceProblem(d, prepared, p, k) ==
  LET mi == p.messages[k]
      before == {prepared[e] : e \in {x \in Earlier(p.messages, k) : None(prepared[x].decode)}}
  IN
  CASE \/ mi \notin DOMAIN prepared \/ mi \in Earlier(p.messages, k)
       \/ d.messages[mi].direction /= p.direction              -> "INVALID_PIPELINE_PLAN"
    [] ~StreamMessageValid(d.framings[p.framing], prepared[mi]) -> "INVALID_PIPELINE_PLAN"
    [] /\ None(prepared[mi].decode)
       /\ \E e \in before : PlanMatchersIntersect(e, prepared[mi]) -> "AMBIGUOUS_MATCHER"
    [] OTHER                                                   -> "OK"

PipelinePlanProblem(d, prepared, pi) ==
  LET p == d.pipelines[pi] IN
  Then(Refuse(\/ p.id \in {e.id : e \in Earlier(d.pipelines, pi)} \/ p.messages = <<>>
              \/ p.framing \notin DOMAIN d.framings, "INVALID_PIPELINE_PLAN"),
  Then(FirstError([k \in DOMAIN p.messages |-> PlanReferenceProblem(d, prepared, p, k)]),
       Refuse(/\ d.framings[p.framing].strategy = "ASCII_CRLF"
              /\ \A mi \in Range(p.messages) : None(prepared[mi].decode),
              "INVALID_PIPELINE_PLAN")))

\* Fixed messages by size, in the order of the references; bounded and text messages apart.
PreparedPipeline(prepared, p) ==
  LET are(Test(_)) == SelectSeq(p.messages, LAMBDA mi : Test(prepared[mi]))
      fixed == are(LAMBDA m : None(m.bounded) /\ None(m.decode) /\ None(m.encode))
      sizes == SetToSortSeq({prepared[mi].size : mi \in Range(fixed)}, <)
  IN [allowed |-> Range(p.messages), framing |-> p.framing,
      groups |-> Each(sizes, LAMBDA size :
                        [size |-> size,
                         messages |-> SelectSeq(fixed, LAMBDA mi : prepared[mi].size = size)]),
      variable |-> are(LAMBDA m : ~None(m.bounded)), text |-> are(LAMBDA m : ~None(m.decode))]

-----------------------------------------------------------------------------
\* The memory of the plan, counted from the descriptions and from the execution plan.
PreparedExecutionMemory(m) ==
  ExecutionMemory(Len(m.fixed), Len(m.containers), Len(m.fields),
                  Total(m.fields, LAMBDA f : Len(f.enums)),
                  Total(m.decode \o m.encode, LAMBDA a : Len(a.segments)),
                  Total(m.decode \o m.encode, LAMBDA a :
                          Total(a.segments, LAMBDA s : Len(s.literal))))

PreparedPipelineMemory(messages, p) ==
  PipelineMemory(messages, Cardinality(p.allowed), Len(p.groups),
                 Total(p.groups, LAMBDA g : Len(g.messages)), Len(p.variable), Len(p.text))

EstimatePreparedPlanMemory(d, prepared, pipelines) ==
  Sizes(PlanHead(Len(d.conversions))
        \o FlattenSeq(Each(d.framings, FramingMemory))
        \o FlattenSeq(Each(pipelines, LAMBDA p : PreparedPipelineMemory(Len(prepared), p)))
        \o FlattenSeq(Each(d.messages, MetadataMemory))
        \o FlattenSeq(Each(prepared, PreparedExecutionMemory)))

-----------------------------------------------------------------------------
\* FreezeImpl: the first refusal, or "OK" and then the plan.
FirstFreezeProblem(d) ==
  CASE ~MetadataValid(d)                                            -> "INVALID_METADATA"
    [] Len(d.conversions) > Limits[d.profile].fields                -> "RESOURCE_LIMIT_EXCEEDED"
    [] \E c \in Range(d.conversions) : ~ConversionValid(d, c)       -> "INVALID_FIELD_PLAN"
    [] ~CountsValid(d)                                              -> "RESOURCE_LIMIT_EXCEEDED"
    [] \E i \in DOMAIN d.framings : ~FramingPlanValid(d, i)         -> "INVALID_FRAMING_PLAN"
    [] \E f \in Range(d.framings) : ~StreamFits(d, f)               -> "RESOURCE_LIMIT_EXCEEDED"
    [] d.requirements /= ActualRequirements(d)              -> "RESOURCE_REQUIREMENTS_MISMATCH"
    [] OTHER -> FirstError([mi \in DOMAIN d.messages |-> MessagePlanProblem(d, mi)])

Prepared(d) == Each(d.messages, PreparedMessage)
Pipelines(d, prepared) == Each(d.pipelines, LAMBDA p : PreparedPipeline(prepared, p))

MemoryProblem(d, memory) ==
  CASE Bytes(memory) > PlanLimit -> "PLAN_MEMORY_LIMIT_EXCEEDED"
    [] memory /= d.memory        -> "PLAN_MEMORY_ESTIMATE_MISMATCH"
    [] OTHER                     -> "OK"

SecondFreezeProblem(d, prepared) ==
  Then(Refuse(ConversionsShared(d), "INVALID_FIELD_PLAN"),
  Then(Refuse(WorkspaceBytes(prepared) > Limits[d.profile].session, "RESOURCE_LIMIT_EXCEEDED"),
  Then(FirstError([pi \in DOMAIN d.pipelines |-> PipelinePlanProblem(d, prepared, pi)]),
       MemoryProblem(d, EstimatePreparedPlanMemory(d, prepared, Pipelines(d, prepared))))))

FreezeProblem(d) ==
  Then(FirstFreezeProblem(d), SecondFreezeProblem(d, Prepared(d)))

PlanFrom(d, prepared) ==
  [schema |-> d.version, messages |-> prepared, pipelines |-> Pipelines(d, prepared),
   conversions |-> Each(d.conversions, LAMBDA c : c.derived),
   maxValues |-> Largest(prepared, InputsOf)]

PlanOf(d) == PlanFrom(d, Prepared(d))
=============================================================================
