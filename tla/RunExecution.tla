---------------------------- MODULE RunExecution ----------------------------
(***************************************************************************)
(* One execution of the Lab bridge (v06_execution.cpp) and the run record  *)
(* built from it (v07_run.cpp), as operators: what each phase does to the  *)
(* outcome and to the list of phase events, and which outcomes the record  *)
(* reader (v07_run_evidence.cpp) takes for consistent.                     *)
(*                                                                         *)
(* An optional value that is absent is Null.  A hash is the hashed         *)
(* content itself, so that equal hashes mean equal contents.               *)
(***************************************************************************)
EXTENDS Naturals, Sequences, FiniteSets

CONSTANTS
    NumPipelines,       \* pipelines of every configuration
    Messages,           \* messages that every pipeline allows
    ForeignMessage,     \* a message that no pipeline allows
    FieldKinds,         \* field -> value kind, of every message
    EnumEntries         \* entries of every ENUM field

ASSUME PipelinesAssumption == NumPipelines \in Nat \ {0}
ASSUME MessagesAssumption == ForeignMessage \notin Messages

Null == "NULL"
Pipelines == 1..NumPipelines
Generations == {"0.5", "0.6", "0.7", "0.8"}
Operations == {"inspect", "encode"}

-----------------------------------------------------------------------------
(* Statuses a record may hold. *)

PreparationDiagnostics ==
    {"CONFIG_INVALID", "SCHEMA_UNSUPPORTED", "VALUES_INVALID", "UNKNOWN_PIPELINE",
     "UNKNOWN_MESSAGE", "MESSAGE_NOT_ALLOWED", "UNKNOWN_FIELD",
     "UNKNOWN_ENUM_ENTRY", "UNSUPPORTED_VALUE_KIND"}

\* Diagnostics about one entry of the values carry its index.
IndexedDiagnostics ==
    {"UNKNOWN_FIELD", "UNKNOWN_ENUM_ENTRY", "UNSUPPORTED_VALUE_KIND"}

CommonCodecStatuses ==
    {"OK", "INVALID_ARGUMENT", "INVALID_PLAN", "WORKSPACE_PLAN_MISMATCH",
     "WORKSPACE_BUSY", "INPUT_OUTPUT_OVERLAP", "VALUE_NOT_REPRESENTABLE",
     "INTERNAL_ERROR"}

DecodeOnlyStatuses ==
    {"UNKNOWN_MESSAGE", "AMBIGUOUS_MESSAGE", "OUTPUT_SLOTS_TOO_SMALL",
     "INTEGRITY_FAILED", "UNKNOWN_ENUM_VALUE", "LENGTH_MISMATCH"}

EncodeOnlyStatuses ==
    {"MESSAGE_NOT_ALLOWED", "FIELD_REFERENCE_MISMATCH", "DUPLICATE_FIELD",
     "MISSING_FIELD", "TYPE_MISMATCH", "BYTES_LENGTH_MISMATCH",
     "ENUM_REFERENCE_MISMATCH", "CONSTANT_FIELD_OVERRIDE", "BUFFER_TOO_SMALL",
     "FINAL_REVIEW_FAILED", "COMPUTED_FIELD_OVERRIDE"}

IsCodecStatus(status, encode) ==
    status \in CommonCodecStatuses
               \cup (IF encode THEN EncodeOnlyStatuses ELSE DecodeOnlyStatuses)

CandidateClass(status) ==
    CASE status = "OK" -> "ONE"
      [] status = "UNKNOWN_MESSAGE" -> "ZERO"
      [] status = "AMBIGUOUS_MESSAGE" -> "MULTIPLE"
      [] OTHER -> "UNDETERMINED"

-----------------------------------------------------------------------------
(* The outcome of an execution, and the events its observer collects. *)

NoOutcome ==
    [schema |-> Null, preparation |-> "OK", structural |-> Null, queries |-> 0,
     pipeline |-> 0, main |-> Null, review |-> Null, materialization |-> "NONE",
     result |-> <<>>]

\* EventCollector: the run has started, and so has the preparation.
FirstEvents ==
    << [kind |-> "RUN_STARTED", phase |-> "NONE", status |-> Null],
       [kind |-> "PHASE_STARTED", phase |-> "PREPARATION", status |-> Null] >>

PhaseStarted(events, phase) ==
    Append(events, [kind |-> "PHASE_STARTED", phase |-> phase, status |-> Null])

PhaseFinished(events, phase, status) ==
    Append(events, [kind |-> "PHASE_FINISHED", phase |-> phase, status |-> status])

\* A whole phase, for the phases that start and finish in one step.
Phase(events, phase, status) ==
    PhaseFinished(PhaseStarted(events, phase), phase, status)

\* Inspect asks every pipeline in order.  An ambiguous pipeline, or an error,
\* ends the loop; two pipelines that match are ambiguous as well.
StructuralQuery(answers) ==
    LET ends == {i \in Pipelines : answers[i] \notin {"OK", "UNKNOWN_MESSAGE"}}
        last == IF ends = {} THEN NumPipelines
                ELSE CHOOSE i \in ends : \A j \in ends : i <= j
        matches == {i \in 1..last : answers[i] = "OK"}
        status == CASE ends # {} -> answers[last]
                    [] ends = {} /\ matches = {} -> "UNKNOWN_MESSAGE"
                    [] ends = {} /\ Cardinality(matches) = 1 -> "OK"
                    [] OTHER -> "AMBIGUOUS_MESSAGE"
    IN [status |-> status, queries |-> last,
        pipeline |-> IF status = "OK" THEN CHOOSE i \in matches : TRUE ELSE 0]

\* InspectPipeline asks the one pipeline the replay names.
PipelineQuery(answers, pipeline) ==
    [status |-> answers[pipeline], queries |-> 1,
     pipeline |-> IF answers[pipeline] = "OK" THEN pipeline ELSE 0]

\* SetCodecResult after a main codec call, before any field is mapped.  The
\* frame is the inspected one, or the encoded one once its review succeeded.
CodecResult(op, config, generation, pipeline, status, frame) ==
    [format |-> generation, op |-> op, config |-> config, pipeline |-> pipeline,
     mode |-> IF op = "encode" THEN "ENCODE_TX" ELSE "DECODE_RX",
     operation |-> IF status = "OK" THEN "OK" ELSE "CODEC_ERROR",
     exit |-> IF status = "OK" THEN 0 ELSE 5,
     status |-> status,
     diagnostic |-> IF status = "OK" THEN Null ELSE status,
     frame |-> frame, fields |-> FALSE]

\* FinalizeFingerprint hashes every deterministic property of a result.
FinalizeFingerprint(result) == result

\* ValidateResult, which guards every result that is built, stored or read.
ValidateResult(result) ==
    /\ result.format \in Generations
    /\ result.status \in {"LENGTH_MISMATCH", "COMPUTED_FIELD_OVERRIDE"} =>
          result.format \in {"0.7", "0.8"}
    /\ result.mode \in {"ENCODE_TX", "DECODE_RX"}
    /\ result.status # "OK" => ~result.fields

\* What the codec answers to one tool for one configuration and one operation:
\* the structural match of every pipeline, the status of the main call and of
\* the review, and how the two mappings of the result end.
Answers(op, structurals, mains, reviews) ==
    {a \in [structural : IF op = "inspect" THEN [Pipelines -> structurals]
                         ELSE {[i \in Pipelines |-> "OK"]},
            main : mains, review : reviews, sameMessage : BOOLEAN,
            base : BOOLEAN, fields : {"NONE", "RAW_ASSOCIATION_FAILED", "INTERNAL_ERROR"}] :
        \* what is never asked has one answer
        /\ op = "inspect" => a.review = "OK" /\ a.sameMessage
        /\ op = "inspect" /\ StructuralQuery(a.structural).status # "OK" =>
              a.main = "OK" /\ a.base /\ a.fields = "NONE"
        /\ a.main # "OK" => a.review = "OK" /\ a.sameMessage /\ a.fields = "NONE"
        /\ a.review # "OK" => a.sameMessage
        /\ a.review # "OK" \/ ~a.sameMessage => a.base /\ a.fields = "NONE"
        /\ ~a.base => a.fields = "NONE"}

\* MaterializeFields: every slot of the decoded record becomes a field, or none.
MaterializeFields(result, a) == [result EXCEPT !.fields = a.fields = "NONE"]

\* The two result mappings that follow the codec: the base result, then, for a
\* success, its fields.  `done' is the outcome and its events so far.
MapResult(done, a, result) ==
    LET valid == a.base /\ ValidateResult(result)
        base == Phase(done.events, "RESULT_MAPPING", IF valid THEN "OK" ELSE "FAILED")
        full == MaterializeFields(result, a)
        fields == Phase(base, "RESULT_MAPPING", IF full.fields THEN "OK" ELSE "FAILED")
    IN IF ~valid
       THEN [out |-> [done.out EXCEPT !.materialization = "INTERNAL_ERROR"], events |-> base]
       ELSE IF done.out.main # "OK"
       THEN [out |-> [done.out EXCEPT !.result = <<result>>], events |-> base]
       ELSE IF ~full.fields
       THEN [out |-> [done.out EXCEPT !.materialization = a.fields], events |-> fields]
       ELSE [out |-> [done.out EXCEPT !.result = <<full>>],
             events |-> fields]

\* Prepare and AdoptCompiledPlan refuse a configuration that does not compile
\* and one whose schema the tool was not built for.
PreparationFailed(diagnostic, schema) ==
    [out |-> [NoOutcome EXCEPT !.preparation = diagnostic, !.schema = schema],
     events |-> PhaseFinished(FirstEvents, "PREPARATION", "FAILED")]

\* Inspect, or InspectPipeline when the request names a pipeline.
Inspect(config, schema, requested, a) ==
    LET query == IF requested = 0 THEN StructuralQuery(a.structural)
                 ELSE PipelineQuery(a.structural, requested)
        queried == Phase(PhaseFinished(FirstEvents, "PREPARATION", "OK"),
                         "STRUCTURAL_QUERY", query.status)
        out == [NoOutcome EXCEPT !.schema = schema, !.queries = query.queries,
                                 !.pipeline = query.pipeline]
    IN IF query.status # "OK"
       THEN [out |-> [out EXCEPT !.structural = query.status], events |-> queried]
       ELSE MapResult([out |-> [out EXCEPT !.main = a.main],
                       events |-> Phase(queried, "MAIN_CODEC", a.main)], a,
                      CodecResult("inspect", config, schema, query.pipeline, a.main, "FRAME"))

\* A values text is [format, pipeline, message, fields], each field
\* [id, kind, entry, canonical].  ParseValues takes the formats it knows, in
\* which no field comes twice and every value is in canonical form.
ParseValues(values) ==
    /\ values.format \in {"0.1", "0.2", "0.3", "0.4", "0.5"}
    /\ \A i, j \in DOMAIN values.fields :
          values.fields[i].id = values.fields[j].id => i = j
    /\ \A i \in DOMAIN values.fields : values.fields[i].canonical

\* ValuesFormatCompatibleWithSchema
ValuesFormatCompatible(values, schema) == values.format = "0.5" => schema = "0.8"

\* The diagnostic for one field of the values, as EncodeParsed translates it.
FieldDiagnostic(field) ==
    IF field.id \notin DOMAIN FieldKinds THEN "UNKNOWN_FIELD"
    ELSE IF /\ field.kind = "ENUM" /\ FieldKinds[field.id] = "ENUM"
            /\ field.entry \notin EnumEntries THEN "UNKNOWN_ENUM_ENTRY"
    ELSE "OK"

\* The first objection to the values; "OK" when the codec can be called.
ValuesDiagnostic(values, schema) ==
    LET bad == {i \in DOMAIN values.fields : FieldDiagnostic(values.fields[i]) # "OK"}
    IN IF ~ParseValues(values) \/ ~ValuesFormatCompatible(values, schema)
       THEN "VALUES_INVALID"
       ELSE IF values.pipeline \notin Pipelines THEN "UNKNOWN_PIPELINE"
       ELSE IF values.message \notin Messages \cup {ForeignMessage} THEN "UNKNOWN_MESSAGE"
       ELSE IF values.message = ForeignMessage THEN "MESSAGE_NOT_ALLOWED"
       ELSE IF bad = {} THEN "OK"
       ELSE FieldDiagnostic(values.fields[CHOOSE i \in bad : \A j \in bad : i <= j])

\* EncodeParsed once the values are translated.  A frame that was encoded is
\* decoded again before its result is built.
EncodeParsed(config, schema, values, a) ==
    LET coded == Phase(PhaseFinished(FirstEvents, "PREPARATION", "OK"), "MAIN_CODEC", a.main)
        out == [NoOutcome EXCEPT !.schema = schema, !.pipeline = values.pipeline,
                                 !.main = a.main]
        result(frame) == CodecResult("encode", config, schema, values.pipeline, a.main, frame)
        reviewed == [out |-> [out EXCEPT !.review = a.review],
                     events |-> Phase(coded, "REVIEW_DECODE", a.review)]
        failed(reason) == [reviewed EXCEPT !.out.materialization = reason]
    IN IF a.main # "OK"
       THEN MapResult([out |-> out, events |-> coded], a, result(Null))
       ELSE IF a.review # "OK" THEN failed("REVIEW_DECODE_FAILED")
       ELSE IF ~a.sameMessage THEN failed("REVIEW_MESSAGE_MISMATCH")
       ELSE MapResult(reviewed, a, result("FRAME"))

\* EncodeValuesText
EncodeValuesText(config, schema, values, a) ==
    IF ValuesDiagnostic(values, schema) # "OK"
    THEN PreparationFailed(ValuesDiagnostic(values, schema), schema)
    ELSE EncodeParsed(config, schema, values, a)

\* The execution half of ExecuteRunAndWrite.
ExecuteRun(request, schema, a) ==
    CASE schema \notin Generations ->
           PreparationFailed(IF schema = "INVALID" THEN "CONFIG_INVALID"
                             ELSE "SCHEMA_UNSUPPORTED", Null)
      [] schema \in Generations /\ request.op = "inspect" ->
           Inspect(request.config, schema, request.requested, a)
      [] schema \in Generations /\ request.op = "encode" ->
           EncodeValuesText(request.config, schema, request.values[1], a)

-----------------------------------------------------------------------------
(* BuildBundle: the record of an execution. *)

\* SetTerminal looks at the outcome from its earliest failure to its latest.
SetTerminal(out) ==
    CASE out.preparation # "OK" ->
           [stage |-> "PREPARATION", status |-> "PREPARATION_FAILED",
            reason |-> "PREPARATION_REJECTED"]
      [] out.preparation = "OK" /\ out.structural # Null /\ out.main = Null ->
           IF out.structural \in {"UNKNOWN_MESSAGE", "AMBIGUOUS_MESSAGE"}
           THEN [stage |-> "STRUCTURAL_QUERY", status |-> "STRUCTURAL_REJECTED",
                 reason |-> "STRUCTURAL_REJECTED"]
           ELSE [stage |-> "STRUCTURAL_QUERY", status |-> "STRUCTURAL_ERROR",
                 reason |-> "STRUCTURAL_QUERY_ERROR"]
      [] out.materialization \in {"REVIEW_DECODE_FAILED", "REVIEW_MESSAGE_MISMATCH"} ->
           [stage |-> "REVIEW_DECODE", status |-> "LAB_RESULT_FAILED",
            reason |-> out.materialization]
      [] out.materialization \in {"RAW_ASSOCIATION_FAILED", "INTERNAL_ERROR"} ->
           [stage |-> "RESULT_MAPPING", status |-> "LAB_RESULT_FAILED",
            reason |-> out.materialization]
      [] OTHER ->
           [stage |-> "RESULT_MAPPING", reason |-> "NONE",
            status |-> IF out.main = "OK" THEN "OK" ELSE "CODEC_ERROR"]

\* FindResultMapping: the last finished mapping decides.
FindResultMapping(events) ==
    LET mapped == {i \in DOMAIN events : /\ events[i].kind = "PHASE_FINISHED"
                                         /\ events[i].phase = "RESULT_MAPPING"}
    IN IF mapped = {} THEN Null
       ELSE events[CHOOSE i \in mapped : \A j \in mapped : j <= i].status

\* The execution facts of the record.  A successful structural query leaves no
\* status in the outcome of Inspect; the record restores it.
ExecutionFacts(op, out, events) ==
    LET structural == IF out.structural = Null /\ op = "inspect" /\ out.main # Null
                      THEN "OK" ELSE out.structural
    IN [terminal |-> SetTerminal(out),
        preparation |-> out.preparation,
        index |-> out.preparation \in IndexedDiagnostics,
        structural |-> structural,
        class |-> IF structural = Null THEN Null ELSE CandidateClass(structural),
        kind |-> IF out.main = Null THEN Null
                 ELSE IF op = "encode" THEN "ENCODE" ELSE "DECODE",
        main |-> out.main,
        review |-> out.review,
        mapping |-> FindResultMapping(events),
        queries |-> out.queries,
        encodes |-> IF out.main # Null /\ op = "encode" THEN 1 ELSE 0,
        decodes |-> IF out.main # Null /\ op = "inspect" THEN 1 ELSE 0,
        reviews |-> IF out.review # Null THEN 1 ELSE 0]

\* The generation of the record follows the schema of the plan; a run that
\* never had a plan is recorded in the oldest generation.
Generation(out) == IF out.schema = Null THEN "0.5" ELSE out.schema

Comparison(fingerprint, historical) ==
    IF fingerprint = <<>> THEN "NOT_EVALUATED"
    ELSE IF fingerprint = historical THEN "EQUAL" ELSE "DIFFERENT"

\* A request is [run, tool, op, config, values, invocation, parent, requested,
\* history], where history holds the parent's record, its result and its fingerprint.
BuildBundle(request, out, events) ==
    LET replay == request.invocation = "REPLAY"
        fingerprint == IF out.result = <<>> THEN <<>>
                       ELSE <<FinalizeFingerprint(out.result[1])>>
        framed == \/ request.op = "inspect"
                  \/ /\ out.result # <<>>
                     /\ out.main = "OK"
                     /\ out.materialization = "NONE"
    IN [record |->
          [format |-> Generation(out), run |-> request.run, tool |-> request.tool,
           op |-> request.op,
           invocation |-> request.invocation, parent |-> request.parent,
           requested |-> request.requested,
           values |-> request.values # <<>>, frame |-> framed,
           result |-> out.result # <<>>, fingerprint |-> fingerprint,
           execution |-> ExecutionFacts(request.op, out, events),
           comparison |-> IF replay
                          THEN Comparison(fingerprint, request.history[1].fingerprint)
                          ELSE Null,
           baseline |-> IF replay
                        THEN <<[generation |-> Generation(out),
                                parent |-> request.history[1].record,
                                result |-> request.history[1].result,
                                fingerprint |-> request.history[1].fingerprint]>>
                        ELSE <<>>],
        config |-> request.config,
        values |-> request.values,
        frame |-> IF framed THEN "FRAME" ELSE Null,
        result |-> out.result,
        events |-> Append(events, [kind |-> "RUN_FINISHED",
                                   phase |-> SetTerminal(out).stage,
                                   status |-> SetTerminal(out).status])]

-----------------------------------------------------------------------------
(* What the reader of a record checks. *)

ParsePreparation(execution) ==
    \/ execution.preparation = "OK" /\ ~execution.index
    \/ /\ execution.preparation \in PreparationDiagnostics
       /\ execution.index = (execution.preparation \in IndexedDiagnostics)

ParseStructural(execution) ==
    \/ execution.structural = Null
    \/ /\ execution.class = CandidateClass(execution.structural)
       /\ execution.structural \in {"OK", "UNKNOWN_MESSAGE", "AMBIGUOUS_MESSAGE",
                                    "INVALID_ARGUMENT", "INVALID_PLAN"}

ParseExecution(execution, op) ==
    /\ ParsePreparation(execution)
    /\ ParseStructural(execution)
    /\ execution.main # Null =>
          /\ execution.kind = IF op = "encode" THEN "ENCODE" ELSE "DECODE"
          /\ IsCodecStatus(execution.main, op = "encode")
    /\ execution.review # Null => IsCodecStatus(execution.review, FALSE)
    /\ execution.mapping \in {Null, "OK", "FAILED"}
    /\ execution.encodes <= 1 /\ execution.decodes <= 1 /\ execution.reviews <= 1

ParseRecord(record) ==
    LET replay == record.invocation = "REPLAY"
    IN /\ record.format \in Generations
       /\ record.op \in Operations
       /\ ParseExecution(record.execution, record.op)
       /\ replay = (record.parent # Null)
       /\ replay = (record.comparison # Null)
       /\ replay = (record.baseline # <<>>)
       /\ (record.requested # 0) = (replay /\ record.op = "inspect")
       /\ replay => record.baseline[1].generation = record.format

\* Which facts may stand beside each terminal status.
TerminalStateValid(record, hasResult) ==
    LET e == record.execution
        t == e.terminal
        nothingRun == e.main = Null /\ e.review = Null /\ e.mapping = Null /\ ~hasResult
    IN CASE t.status = "PREPARATION_FAILED" ->
              /\ t.stage = "PREPARATION" /\ t.reason = "PREPARATION_REJECTED"
              /\ e.preparation # "OK" /\ e.structural = Null /\ nothingRun
         [] t.status = "STRUCTURAL_REJECTED" ->
              /\ t.stage = "STRUCTURAL_QUERY" /\ t.reason = "STRUCTURAL_REJECTED"
              /\ e.structural \in {"UNKNOWN_MESSAGE", "AMBIGUOUS_MESSAGE"}
              /\ nothingRun
         [] t.status = "STRUCTURAL_ERROR" ->
              /\ t.stage = "STRUCTURAL_QUERY" /\ t.reason = "STRUCTURAL_QUERY_ERROR"
              /\ e.structural \in {"INVALID_ARGUMENT", "INVALID_PLAN"}
              /\ nothingRun
         [] t.status = "CODEC_ERROR" ->
              /\ t.stage = "RESULT_MAPPING" /\ t.reason = "NONE"
              /\ e.main \notin {Null, "OK"} /\ e.review = Null
              /\ e.mapping = "OK" /\ hasResult
         [] t.status = "OK" ->
              /\ t.stage = "RESULT_MAPPING" /\ t.reason = "NONE"
              /\ e.main = "OK" /\ e.mapping = "OK" /\ hasResult
              /\ record.op = "inspect" \/ e.review = "OK"
         [] t.status = "LAB_RESULT_FAILED" ->
              /\ ~hasResult /\ e.main # Null
              /\ \/ /\ t.stage = "REVIEW_DECODE" /\ record.op = "encode"
                    /\ e.review # Null /\ e.mapping = Null
                    /\ t.reason = IF e.review = "OK" THEN "REVIEW_MESSAGE_MISMATCH"
                                  ELSE "REVIEW_DECODE_FAILED"
                 \/ /\ t.stage = "RESULT_MAPPING" /\ e.mapping = "FAILED"
                    /\ t.reason \in {"INTERNAL_ERROR", "RAW_ASSOCIATION_FAILED"}
                    /\ t.reason = "RAW_ASSOCIATION_FAILED" => e.main = "OK"
                    /\ record.op = "encode" /\ e.main = "OK" => e.review = "OK"
         [] OTHER -> FALSE

ValidateTerminal(record, hasResult) ==
    LET e == record.execution
        inspect == record.op = "inspect"
    IN /\ inspect => e.preparation \in {"OK", "CONFIG_INVALID", "SCHEMA_UNSUPPORTED"}
       /\ e.review # Null => ~inspect /\ e.main = "OK"
       /\ inspect /\ e.main # Null => e.structural = "OK" /\ e.class = "ONE"
       /\ TerminalStateValid(record, hasResult)
       \* files
       /\ IF inspect THEN ~record.values /\ record.frame ELSE record.values
       /\ record.result = hasResult
       /\ (record.fingerprint # <<>>) = hasResult
       /\ ~inspect => record.frame = (e.terminal.status = "OK" /\ hasResult)
       \* counts
       /\ (e.main # Null) = ((IF inspect THEN e.decodes ELSE e.encodes) = 1)
       /\ inspect => /\ e.preparation = "OK" => e.structural # Null
                     /\ e.encodes = 0 /\ e.reviews = 0
       /\ ~inspect => e.structural = Null /\ e.decodes = 0
       /\ (e.review # Null) = (e.reviews = 1)
       /\ (e.structural = Null) = (e.queries = 0)
       /\ e.preparation # "OK" =>
             e.queries = 0 /\ e.encodes = 0 /\ e.decodes = 0 /\ e.reviews = 0

\* ParseEvents and the pairing at the head of ValidateEvents.
EventsWellFormed(events) ==
    LET n == Len(events)
    IN /\ n >= 4
       /\ events[1].kind = "RUN_STARTED" /\ events[1].phase = "NONE"
       /\ events[n].kind = "RUN_FINISHED"
       /\ n % 2 = 0
       /\ \A i \in 2..n-1 : i % 2 = 0 =>
             /\ events[i].kind = "PHASE_STARTED" /\ events[i].status = Null
             /\ events[i+1].kind = "PHASE_FINISHED" /\ events[i+1].status # Null
             /\ events[i+1].phase = events[i].phase

\* The phases an execution with these facts must have gone through, in order,
\* each with its status, before the result mappings.
ExpectedPhases(execution) ==
    LET optional(phase, status) ==
            IF status = Null THEN <<>> ELSE <<[phase |-> phase, status |-> status]>>
    IN <<[phase |-> "PREPARATION",
          status |-> IF execution.preparation = "OK" THEN "OK" ELSE "FAILED"]>>
       \o optional("STRUCTURAL_QUERY", execution.structural)
       \o optional("MAIN_CODEC", execution.main)
       \o optional("REVIEW_DECODE", execution.review)

ValidateEvents(record, events) ==
    LET e == record.execution
        t == e.terminal
        n == Len(events)
        phases == [i \in 1..(n \div 2) - 1 |->
                     [phase |-> events[2*i+1].phase, status |-> events[2*i+1].status]]
        expected == ExpectedPhases(e)
        before == Len(expected)
        mappings == [i \in 1..Len(phases) - before |-> phases[i + before].status]
        count == Len(mappings)
    IN /\ EventsWellFormed(events)
       /\ events[n].phase = t.stage /\ events[n].status = t.status
       /\ Len(phases) >= before
       /\ SubSeq(phases, 1, before) = expected
       /\ \A i \in before+1..Len(phases) : phases[i].phase = "RESULT_MAPPING"
       /\ count <= 2
       /\ \A i \in 1..count : mappings[i] \in {"OK", "FAILED"}
       /\ \A i \in 1..count : i < count => mappings[i] = "OK"
       /\ e.mapping = IF count = 0 THEN Null ELSE mappings[count]
       /\ t.status = "OK" => mappings = <<"OK", "OK">>
       /\ t.status = "CODEC_ERROR" => mappings = <<"OK">>
       /\ t.status = "LAB_RESULT_FAILED" /\ t.stage = "RESULT_MAPPING" =>
             count > 0 /\ mappings[count] = "FAILED"
       /\ \/ t.status \in {"PREPARATION_FAILED", "STRUCTURAL_REJECTED", "STRUCTURAL_ERROR"}
          \/ t.stage = "REVIEW_DECODE"
          => count = 0
       /\ t.reason = "RAW_ASSOCIATION_FAILED" => mappings = <<"OK", "FAILED">>

\* ValidateResultExecutionSemantics: a result agrees with the record it is in.
ResultMatchesRecord(record, result) ==
    LET e == record.execution
    IN /\ result.op = record.op
       /\ result.format = record.format
       /\ result.mode = IF record.op = "encode" THEN "ENCODE_TX" ELSE "DECODE_RX"
       /\ e.main # Null /\ result.status = e.main
       /\ record.fingerprint = <<FinalizeFingerprint(result)>>
       /\ \/ /\ e.terminal.status = "OK"
             /\ result.operation = "OK" /\ result.exit = 0 /\ result.status = "OK"
             /\ result.diagnostic = Null
          \/ /\ e.terminal.status = "CODEC_ERROR"
             /\ result.operation = "CODEC_ERROR" /\ result.exit = 5
             /\ result.status # "OK" /\ result.diagnostic = e.main
=============================================================================
