------------------------------ MODULE LabBundle -------------------------------
(***************************************************************************)
(* What the older commands of the Protocol Lab compute and store           *)
(* (protocol_operations.cpp, result_format.cpp, evidence_bundle.cpp):      *)
(* the result of inspecting a frame or encoding values; the files of the   *)
(* evidence bundle a transaction writes, the summary, the record and the   *)
(* event log among them; and the checks LoadStoredRun makes before it      *)
(* believes a stored run.                                                  *)
(*                                                                         *)
(* The codec is a table (Plan): for a pipeline and a frame the outcome of  *)
(* the structural match and of the decode, for a values file the outcome   *)
(* of the encode.  A digest stands for the content it is taken of.  A      *)
(* bundle is a function from paths to contents.  JSON texts are the        *)
(* records they serialise, or Garbage.                                     *)
(***************************************************************************)
EXTENDS Integers, Sequences, FiniteSets

CONSTANTS
    Configs,            \* configuration files
    Plan,               \* the compiled plan of each of them; <<>> when it does not compile
    Frames, FrameSize,  \* frames and their lengths in bytes
    EmptyFrame,         \* the frame without bytes
    MaxUdpPayload,      \* kMaximumIpv4UdpPayloadBytes
    Garbage             \* file content no parser accepts

ASSUME FrameSizeAssumption ==
    /\ EmptyFrame \in Frames
    /\ \A f \in Frames : FrameSize[f] \in Nat /\ (FrameSize[f] = 0 <=> f = EmptyFrame)

HexUpper(f) == IF f = EmptyFrame THEN <<>> ELSE <<f>>      \* the empty text for no bytes
Digest(x) == [digest |-> x]

\* FieldResult::enum_known and the like are part of the decoded fields, a model value.
NoFields == <<>>

-----------------------------------------------------------------------------
(* Values files: <<>> is a text that is no JSON object of the right shape. *)

\* ParseValues
ParseValues(text) ==
    /\ text # <<>>
    /\ text[1].format \in {"0.1", "0.2", "0.3"}
    /\ LET fields == text[1].fields IN
       /\ \A i, j \in DOMAIN fields : fields[i].id = fields[j].id => i = j
       /\ \A i \in DOMAIN fields :
             /\ fields[i].canonical
             /\ \/ fields[i].kind \in {"UINT64", "BYTES", "ENUM"}
                \/ fields[i].kind = "INT64" /\ text[1].format = "0.3"
                \/ fields[i].kind = "BOOL" /\ text[1].format \in {"0.2", "0.3"}

-----------------------------------------------------------------------------
(* OperationResult and the operations that produce one. *)

NoHistory == [present |-> FALSE]

NewResult ==
    [schema |-> "0.1", command |-> "", operation_kind |-> "", status |-> "INTERNAL_ERROR",
     exit_code |-> 10, config |-> "", pipeline |-> "", message |-> "", frame |-> EmptyFrame,
     fields |-> NoFields, diagnostic |-> "", fingerprint |-> <<>>, frame_file |-> "",
     transport |-> "OFFLINE", remote |-> "", received_from |-> "", receive_pipeline |-> "",
     tx_frame |-> EmptyFrame, rx_frame |-> EmptyFrame, send_attempted |-> FALSE,
     send_succeeded |-> FALSE, response_received |-> FALSE, response_decoded |-> FALSE,
     replay_mode |-> "NONE", replay_subject |-> "NONE", current_status |-> "NOT_EVALUATED",
     current_diagnostic |-> "", comparison |-> "NOT_APPLICABLE", comparison_equal |-> <<>>,
     historical |-> NoHistory, cross_config |-> FALSE]

\* CompileConfig; BindCompiledPlan
Compiles(c) == Plan[c] # <<>>
PlanOf(c) == Plan[c][1]
BindCompiledPlan(c, kind, r) ==
    [r EXCEPT !.schema = PlanOf(c).schema, !.operation_kind = kind, !.config = c]

\* DeterministicPayload, FinalizeFingerprint: what the hash is taken over.
DeterministicPayload(r) ==
    LET udp == r.operation_kind = "udp-exchange" IN
    <<IF r.schema \in {"0.2", "0.3", "0.4"} THEN r.schema ELSE "", r.operation_kind,
      IF udp THEN <<r.replay_mode, r.replay_subject, r.current_status, r.current_diagnostic,
                    r.tx_frame, r.rx_frame>>
             ELSE <<r.status, r.diagnostic>>,
      r.config, r.pipeline, r.message, r.frame, r.fields>>
FinalizeFingerprint(r) == [r EXCEPT !.fingerprint = DeterministicPayload(r)]

\* The four assignments that follow an execution of the codec.
Executed(r, mode, subject) ==
    [r EXCEPT !.replay_mode = mode, !.replay_subject = subject,
              !.current_status = r.status, !.current_diagnostic = r.diagnostic]
\* The gates after which the codec must not see the response.
NotExecuted(r, subject) ==
    [r EXCEPT !.replay_mode = "NO_CODEC_REEXECUTION", !.replay_subject = subject,
              !.current_status = "NOT_EVALUATED", !.current_diagnostic = ""]

Failed(r, status, diagnostic) == [r EXCEPT !.status = status, !.diagnostic = diagnostic]

\* FinalizePostPlanFailure: results of schema 0.1 keep the mode and the fingerprint they have.
NotCompared(r) ==
    IF r.command = "replay"
    THEN [r EXCEPT !.comparison_equal = <<>>, !.comparison = "NOT_EVALUATED"]
    ELSE r
FinalizePostPlanFailure(r, mode, subject) ==
    IF r.schema = "0.1" THEN r
    ELSE FinalizeFingerprint(NotCompared(
           IF mode = "NO_CODEC_REEXECUTION"
           THEN NotExecuted(r, subject) ELSE Executed(r, mode, subject)))

\* InspectFrame.  Plans with integrity checks (0.3, 0.4) first ask every pipeline for a
\* structural match, decode in the only one that matches and report what it says; older
\* plans decode in every pipeline and want exactly one success.
Structural(plan, f) == {i \in DOMAIN plan.pipelines : plan.match[plan.pipelines[i]][f] # "NONE"}
Decoded(plan, f) ==
    {i \in DOMAIN plan.pipelines : plan.decode[plan.pipelines[i]][f].status = "OK"}

FirstFailure(plan, f) ==
    LET status(i) == plan.decode[plan.pipelines[i]][f].status
        known == {i \in DOMAIN plan.pipelines : status(i) # "UNKNOWN_MESSAGE"}
    IN IF known = {} THEN "UNKNOWN_MESSAGE"
       ELSE status(CHOOSE i \in known : \A j \in known : i <= j)

\* What the executed codec leaves: results of schema 0.1 have no replay mode.
Recorded(c, r, mode, subject) ==
    IF PlanOf(c).schema = "0.1" THEN r ELSE Executed(r, mode, subject)

In(plan, i, f, s, base) ==
    [base EXCEPT !.pipeline = plan.pipelines[i], !.status = s,
                 !.message = plan.decode[plan.pipelines[i]][f].message]

MatchedIn(plan, hits, f, base) ==
    IF hits = {} THEN [base EXCEPT !.status = "UNKNOWN_MESSAGE"]
    ELSE IF Cardinality(hits) > 1 \/ \E i \in hits : plan.match[plan.pipelines[i]][f] = "MANY"
    THEN [base EXCEPT !.status = "AMBIGUOUS_MESSAGE"]
    ELSE LET i == CHOOSE i \in hits : TRUE
         IN In(plan, i, f, plan.decode[plan.pipelines[i]][f].status, base)

DecodedIn(plan, hits, f, base) ==
    IF hits = {} THEN [base EXCEPT !.status = FirstFailure(plan, f)]
    ELSE IF Cardinality(hits) > 1 THEN [base EXCEPT !.status = "AMBIGUOUS_MESSAGE"]
    ELSE In(plan, CHOOSE i \in hits : TRUE, f, "OK", base)

Inspected(c, f, r) ==
    IF r.status = "OK" THEN [r EXCEPT !.fields = <<c, r.pipeline, f>>]
    ELSE [r EXCEPT !.diagnostic = r.status]

InspectFrame(c, f) ==
    LET plan == PlanOf(c)
        base == [BindCompiledPlan(c, "inspect", NewResult) EXCEPT !.frame = f]
    IN Recorded(c,
         Inspected(c, f, IF plan.schema \in {"0.3", "0.4"}
                         THEN MatchedIn(plan, Structural(plan, f), f, base)
                         ELSE DecodedIn(plan, Decoded(plan, f), f, base)),
         "DECODE_RX", "RX")

\* InspectFrameInPipeline
DecodedAs(c, p, f, out, base) ==
    IF out.status = "OK"
    THEN [base EXCEPT !.status = "OK", !.message = out.message, !.fields = <<c, p, f>>]
    ELSE Failed(base, out.status, out.status)

InspectFrameInPipeline(c, p, f) ==
    LET base == [BindCompiledPlan(c, "inspect", NewResult) EXCEPT !.pipeline = p, !.frame = f]
    IN IF p \notin DOMAIN PlanOf(c).decode
       THEN Failed(base, "INVALID_ARGUMENT", "UNKNOWN_RECEIVE_PIPELINE")
       ELSE Recorded(c, DecodedAs(c, p, f, PlanOf(c).decode[p][f], base), "DECODE_RX", "RX")

\* EncodeValues: the checks in their order, the codec, and the review of its own output.
RejectedField(message, field) ==
    CASE field.id \notin DOMAIN message -> <<"VALUES_INVALID", "UNKNOWN_FIELD">>
      [] field.id \in DOMAIN message /\ message[field.id].source # "INPUT" ->
            <<"CONSTANT_FIELD_OVERRIDE", "CONSTANT_OVERRIDE">>
      [] OTHER ->
            IF field.kind # message[field.id].kind THEN <<"TYPE_MISMATCH", "TYPE_MISMATCH">>
            ELSE IF field.kind = "ENUM" /\ field.entry \notin message[field.id].entries
            THEN <<"VALUES_INVALID", "UNKNOWN_ENUM_ENTRY">> ELSE <<>>

RejectedFields(message, fields) ==
    {i \in DOMAIN fields : RejectedField(message, fields[i]) # <<>>}
Refused(base, why) == Failed(base, why[1], why[2])
FirstRejected(base, message, fields, bad) ==
    Refused(base, RejectedField(message, fields[CHOOSE i \in bad : \A j \in bad : i <= j]))

Reviewed(c, v, out, review, base) ==
    IF out.status # "OK" THEN Failed(base, out.status, out.status)
    ELSE IF review.status # "OK" \/ review.message # v.message
    THEN Failed(base, "FINAL_REVIEW_FAILED", "ENCODE_REVIEW_FAILED")
    ELSE [base EXCEPT !.status = "OK", !.frame = out.frame,
                      !.fields = <<c, v.pipeline, out.frame>>]

EncodedAs(c, v, text, base) ==
    LET plan == PlanOf(c)
        out == plan.encode[text]
        message == plan.messages[v.message]
    IN IF v.format = "0.3" /\ plan.schema # "0.4"
       THEN Failed(base, "VALUES_INVALID", "VALUES_VERSION_MISMATCH")
       ELSE IF v.pipeline \notin DOMAIN plan.decode \/ v.message \notin DOMAIN plan.messages
       THEN Failed(base, "VALUES_INVALID", "UNKNOWN_BINDING")
       ELSE IF RejectedFields(message, v.fields) # {}
       THEN FirstRejected(base, message, v.fields, RejectedFields(message, v.fields))
       ELSE Reviewed(c, v, out, plan.decode[v.pipeline][out.frame], base)

EncodeValues(c, text) ==
    Recorded(c,
      EncodedAs(c, text[1], text,
        [BindCompiledPlan(c, "encode", NewResult) EXCEPT
           !.pipeline = text[1].pipeline, !.message = text[1].message]),
      "ENCODE_TX", "TX")

-----------------------------------------------------------------------------
(* The files of a bundle. *)

Put(files, path, content) ==
    [p \in DOMAIN files \cup {path} |-> IF p = path THEN content ELSE files[p]]

ConfigPath == <<"inputs/protocol", "">>
ValuesPath == <<"inputs/values", "">>
CompletePath == <<"COMPLETE", "">>
SumsPath == <<"SHA256SUMS", "">>
Binary(stem) == <<stem, "bin">>
Hex(stem) == <<stem, "hex">>
MetaPath == <<"frames/000002_rx", "meta">>
Temporary(path) == <<path[1], path[2], "tmp">>
TxStem == "frames/000001_tx"
RxStem == "frames/000002_rx"
FrameStem == "frames/000001_frame"

ResultPath(format) == <<"result_summary", format>>
EventsPath(format) == <<"events", format>>
RecordPath(format) == <<"run_record", format>>
Formats == {"V1", "V2", "V3", "V4", "V5"}

\* The generation of a bundle: by schema, and for schema 0.1 by the kind of operation.
FormatOf(r) ==
    CASE r.schema = "0.4" -> "V5" [] r.schema = "0.3" -> "V4" [] r.schema = "0.2" -> "V3"
      [] OTHER -> IF r.operation_kind = "udp-exchange" THEN "V2" ELSE "V1"
Modern(format) == format # "V1"

-----------------------------------------------------------------------------
(* What is written. *)

TransportFacts(r) ==
    [present |-> TRUE, transport |-> r.transport, status |-> r.status,
     diagnostic |-> r.diagnostic, remote |-> r.remote, received_from |-> r.received_from,
     send_attempted |-> r.send_attempted, send_succeeded |-> r.send_succeeded,
     response_received |-> r.response_received, response_decoded |-> r.response_decoded]

\* SerializeResult: the summary, in the shape LoadStoredRun reads back.
SerializeResult(r) ==
    LET udp == r.command = "udp-exchange" IN
    [format |-> FormatOf(r), command |-> r.command, operation_kind |-> r.operation_kind,
     operation_status |-> r.status, exit_code |-> r.exit_code, config |-> r.config,
     pipeline |-> r.pipeline, message |-> r.message, frame_hex |-> HexUpper(r.frame),
     frame_file |-> IF r.frame_file = "" THEN FrameStem ELSE r.frame_file,
     tx_hex |-> HexUpper(r.tx_frame), rx_hex |-> HexUpper(r.rx_frame),
     tx_file |-> IF udp /\ r.tx_frame # EmptyFrame THEN TxStem ELSE "",
     rx_file |-> IF udp /\ r.response_received THEN RxStem ELSE "",
     values_file |-> r.operation_kind \in {"encode", "udp-exchange"},
     fields |-> r.fields, diagnostic |-> r.diagnostic, fingerprint |-> r.fingerprint,
     comparison_equal |-> r.comparison_equal, cross_config |-> r.cross_config,
     transport |-> r.transport, remote |-> r.remote, received_from |-> r.received_from,
     send_attempted |-> r.send_attempted, send_succeeded |-> r.send_succeeded,
     response_received |-> r.response_received, response_decoded |-> r.response_decoded,
     receive_pipeline |-> r.receive_pipeline, replay_mode |-> r.replay_mode,
     replay_subject |-> r.replay_subject, current_status |-> r.current_status,
     current_diagnostic |-> r.current_diagnostic, comparison |-> r.comparison,
     historical |-> IF udp THEN TransportFacts(r) ELSE r.historical]

\* ToStoredRun: the fields CompareStoredRuns looks at.
ToStoredRun(r) == SerializeResult(r)

\* NewEvent and the Capture* functions
NewEvent(events, kind, direction) ==
    [id |-> Len(events) + 1, kind |-> kind, direction |-> direction, file |-> "",
     frame |-> EmptyFrame, bound |-> FALSE, peer_kind |-> "", remote |-> "",
     received_from |-> "", succeeded |-> TRUE, diagnostic |-> ""]
CaptureTxFrame(events, f) ==
    Append(events, [NewEvent(events, "FRAME", "TX") EXCEPT
        !.file = TxStem, !.frame = f, !.bound = TRUE, !.peer_kind = "LAB_SIMULATED_PEER"])
CaptureOfflineFrame(events, r) ==
    LET direction == CASE r.command = "encode" -> "TX" [] r.command = "replay" -> "REPLAY"
                       [] OTHER -> "RX"
    IN Append(events, [NewEvent(events, "FRAME", direction) EXCEPT
         !.file = FrameStem, !.frame = r.frame, !.bound = TRUE, !.peer_kind = "OFFLINE_FILE",
         !.diagnostic = IF r.command = "replay" THEN r.diagnostic ELSE ""])
CaptureSendIntent(events, remote) ==
    Append(events, [NewEvent(events, "SEND_INTENT", "TX") EXCEPT !.remote = remote])
CaptureSendResult(events, succeeded, diagnostic) ==
    Append(events, [NewEvent(events, "SEND_RESULT", "TX") EXCEPT
        !.succeeded = succeeded, !.diagnostic = diagnostic])

\* RecordReceivedFrame: the event, and the metadata file that carries its id.
ReceivedEvent(events, f, from) ==
    [NewEvent(events, "FRAME", "RX") EXCEPT
        !.file = RxStem, !.frame = f, !.bound = TRUE, !.peer_kind = "LAB_SIMULATED_PEER",
        !.received_from = from]
ReceivedMetadata(events, f, from) ==
    [event_id |-> Len(events) + 1, file |-> RxStem, frame |-> f, received_from |-> from]

\* SerializeEvents: results of schema 0.1 that are no exchange keep the oldest format.
SerializeEvents(r, events) ==
    IF r.operation_kind # "udp-exchange" /\ r.schema = "0.1"
    THEN [format |-> "V1", events |-> <<>>]
    ELSE [format |-> CASE r.schema = "0.4" -> "V5" [] r.schema = "0.3" -> "V4"
                       [] r.schema = "0.2" -> "V3" [] OTHER -> "V2",
          events |-> events]

\* SerializeRunRecord
SerializeRunRecord(r, files) ==
    [format |-> FormatOf(r), command |-> r.command, end_status |-> r.status,
     transport |-> r.transport, remote |-> r.remote, received_from |-> r.received_from,
     send_attempted |-> r.send_attempted, send_succeeded |-> r.send_succeeded,
     response_received |-> r.response_received, response_decoded |-> r.response_decoded,
     receive_pipeline |-> r.receive_pipeline, replay_mode |-> r.replay_mode,
     replay_subject |-> r.replay_subject, current_status |-> r.current_status,
     comparison |-> r.comparison,
     payloads |-> [p \in DOMAIN files |-> Digest(files[p])]]

\* What goes into a file, given what is already in the directory.
Content(path, config, values, r, events, files) ==
    CASE path = ConfigPath -> config
      [] path = ValuesPath -> values
      [] path = Binary(TxStem) -> r.tx_frame
      [] path = Hex(TxStem) -> HexUpper(r.tx_frame)
      [] path = Binary(RxStem) -> r.rx_frame
      [] path = Hex(RxStem) -> HexUpper(r.rx_frame)
      [] path = MetaPath -> ReceivedMetadata(events, r.rx_frame, r.received_from)
      [] path = Binary(FrameStem) -> r.frame
      [] path = Hex(FrameStem) -> HexUpper(r.frame)
      [] path = ResultPath(FormatOf(r)) -> SerializeResult(r)
      [] path = EventsPath(FormatOf(r)) -> SerializeEvents(r, events)
      [] path = RecordPath(FormatOf(r)) -> SerializeRunRecord(r, files)
      [] path = CompletePath -> "empty"
      [] path = SumsPath -> [p \in DOMAIN files |-> Digest(files[p])]

\* Complete: the files it writes, in order.
SummaryFiles(r) ==
    <<ResultPath(FormatOf(r)), EventsPath(FormatOf(r)), RecordPath(FormatOf(r)),
      CompletePath, SumsPath>>

-----------------------------------------------------------------------------
(* What is checked when a run is read back. *)

\* ReadFile and ParseDocument of one path
Readable(files, path) == path \in DOMAIN files /\ files[path] # Garbage
Holds(files, path, digest) == path \in DOMAIN files /\ Digest(files[path]) = digest

\* VerifyBundleHashes: one generation is complete in the manifest, the directory holds nothing
\* else, and every listed file is as listed.
ListsGeneration(files) ==
    LET listed == DOMAIN files[SumsPath] IN
    /\ {CompletePath, ConfigPath} \subseteq listed
    /\ \E stem \in {FrameStem, TxStem, RxStem} : Binary(stem) \in listed
    /\ \E g \in Formats :
          /\ {ResultPath(g), EventsPath(g), RecordPath(g)} \subseteq listed
          /\ \A o \in Formats \ {g} :
                listed \cap {ResultPath(o), EventsPath(o), RecordPath(o)} = {}
    /\ DOMAIN files \ {SumsPath} \subseteq listed
VerifyBundleHashes(files) ==
    /\ Readable(files, SumsPath) /\ ListsGeneration(files)
    /\ \A p \in DOMAIN files[SumsPath] : p # SumsPath /\ Holds(files, p, files[SumsPath][p])

\* ReadEventV2: which fields an event of each kind may carry.
ReadEventV2(e) ==
    LET plain == e.file = "" /\ ~e.bound /\ e.peer_kind = "" /\ e.received_from = "" IN
    CASE e.kind = "FRAME" ->
            /\ e.direction \in {"TX", "RX", "REPLAY"}
            /\ e.file # "" /\ e.bound /\ e.peer_kind # "" /\ e.succeeded /\ e.remote = ""
            /\ e.direction # "REPLAY" => e.diagnostic = ""
            /\ (e.direction = "RX" /\ e.peer_kind # "OFFLINE_FILE") <=> e.received_from # ""
      [] e.kind = "SEND_INTENT" ->
            e.direction = "TX" /\ plain /\ e.remote # "" /\ e.succeeded /\ e.diagnostic = ""
      [] e.kind = "SEND_RESULT" ->
            /\ e.direction = "TX" /\ plain /\ e.remote = ""
            /\ e.diagnostic = IF e.succeeded THEN "" ELSE "UDP_SEND_FAILED"
      [] OTHER -> FALSE

\* EventBindsFrame
EventBindsFrame(files, e, stem, hex) ==
    /\ e.file = stem /\ HexUpper(e.frame) = hex
    /\ Readable(files, Binary(stem)) /\ HexUpper(files[Binary(stem)]) = hex

\* VerifyEventLogV2: the events tell the same story as the summary.
VerifyEventLogV2(files, run) ==
    /\ Readable(files, EventsPath(run.format))
    /\ LET log == files[EventsPath(run.format)]
           events == log.events
           udp == run.command = "udp-exchange"
           Of(kind, direction) ==
               {i \in DOMAIN events : events[i].kind = kind /\ events[i].direction = direction}
           tx == Of("FRAME", "TX")
           rx == Of("FRAME", "RX")
           replayed == Of("FRAME", "REPLAY")
           intents == Of("SEND_INTENT", "TX")
           results == Of("SEND_RESULT", "TX")
           one(S) == Cardinality(S) = 1
           silent == intents = {} /\ results = {}
       IN /\ log.format = run.format /\ events # <<>>
          /\ \A i \in DOMAIN events : events[i].id = i /\ ReadEventV2(events[i])
          /\ \A i \in tx : EventBindsFrame(files, events[i],
                IF udp THEN run.tx_file ELSE run.frame_file,
                 IF udp THEN run.tx_hex ELSE run.frame_hex)
          /\ \A i \in rx : EventBindsFrame(files, events[i],
                IF udp THEN run.rx_file ELSE run.frame_file,
                 IF udp THEN run.rx_hex ELSE run.frame_hex)
          /\ \A i \in replayed : EventBindsFrame(files, events[i], run.frame_file, run.frame_hex)
          /\ CASE run.command = "udp-exchange" ->
                    /\ one(tx) /\ replayed = {} /\ run.tx_file = TxStem
                    /\ \/ run.frame_file = run.tx_file /\ run.frame_hex = run.tx_hex
                       \/ run.rx_file # "" /\ run.frame_file = run.rx_file
                          /\ run.frame_hex = run.rx_hex
                    /\ run.send_succeeded => run.send_attempted
                    /\ IF run.send_attempted
                       THEN /\ one(intents) /\ one(results)
                            /\ \A i \in intents, j \in results :
                                  i < j /\ events[j].succeeded = run.send_succeeded
                       ELSE silent
                    /\ IF run.response_received THEN one(rx) /\ run.rx_file # ""
                                                ELSE rx = {} /\ run.rx_file = ""
                    /\ run.response_decoded =>
                          /\ run.response_received /\ run.replay_mode = "DECODE_RX"
                          /\ run.current_status = "OK"
               [] run.command = "replay" ->
                    /\ one(replayed) /\ tx = {} /\ rx = {} /\ silent
                    /\ ~run.send_attempted /\ ~run.send_succeeded /\ ~run.response_received
                    /\ run.tx_file = "" /\ run.rx_file = ""
                    /\ IF run.replay_mode = "ENCODE_TX" THEN run.replay_subject = "TX"
                       ELSE run.replay_subject \in {"RX", "RX_INCOMPLETE"}
                    /\ (run.operation_kind = "udp-exchange" /\ run.replay_mode # "ENCODE_TX")
                          => run.frame_hex = run.rx_hex
               [] run.command = "encode" /\ run.format # "V2" ->
                    one(tx) /\ rx = {} /\ replayed = {} /\ silent
               [] run.command = "inspect" /\ run.format # "V2" ->
                    one(rx) /\ tx = {} /\ replayed = {} /\ silent
               [] OTHER -> FALSE

\* VerifyRxMetadata
VerifyRxMetadata(files, run) ==
    /\ Readable(files, MetaPath) /\ Readable(files, EventsPath(run.format))
    /\ LET meta == files[MetaPath]
           events == files[EventsPath(run.format)].events
       IN /\ meta.file = RxStem /\ meta.received_from = run.received_from
          /\ Readable(files, Binary(RxStem)) /\ meta.frame = files[Binary(RxStem)]
          /\ HexUpper(meta.frame) = run.rx_hex
          /\ meta.event_id \in DOMAIN events
          /\ LET e == events[meta.event_id] IN
             /\ e.kind = "FRAME" /\ e.direction = "RX" /\ e.file = RxStem
             /\ e.frame = meta.frame /\ e.received_from = meta.received_from

\* VerifyRunRecord, first half: the record repeats the summary.
RecordAgrees(record, run) ==
    /\ record.format = run.format
    /\ record.command = run.command /\ record.end_status = run.operation_status
    /\ (Modern(run.format) \/ run.transport # "") => record.transport = run.transport
    /\ record.send_attempted = run.send_attempted /\ record.send_succeeded = run.send_succeeded
    /\ record.remote = run.remote /\ record.received_from = run.received_from
    /\ record.response_received = run.response_received
    /\ record.response_decoded = run.response_decoded
    /\ Modern(run.format) =>
          /\ record.receive_pipeline = run.receive_pipeline
          /\ record.replay_mode = run.replay_mode /\ record.replay_subject = run.replay_subject
          /\ record.current_status = run.current_status /\ record.comparison = run.comparison

\* VerifyRunRecord, second half: the record lists every payload, and every one is intact.
PayloadsRecorded(files, record, run) ==
    LET listed == DOMAIN record.payloads
        frames(stem) == {Binary(stem), Hex(stem)}
    IN /\ \A p \in listed : Holds(files, p, record.payloads[p])
       /\ {ConfigPath, ResultPath(run.format), EventsPath(run.format)} \subseteq listed
       /\ run.values_file => ValuesPath \in listed
       /\ frames(run.frame_file) \subseteq listed
       /\ run.tx_file # "" => frames(run.tx_file) \subseteq listed
       /\ run.rx_file # "" => frames(run.rx_file) \cup {MetaPath} \subseteq listed
       /\ DOMAIN files \ {SumsPath, CompletePath, RecordPath(run.format)} \subseteq listed

VerifyRunRecord(files, run) ==
    /\ Readable(files, RecordPath(run.format))
    /\ LET record == files[RecordPath(run.format)]
       IN RecordAgrees(record, run) /\ PayloadsRecorded(files, record, run)

\* LoadStoredRun, what it reads from a summary: the oldest format has no replay fields.
StoredRun(summary) ==
    IF Modern(summary.format) THEN summary
    ELSE [summary EXCEPT !.receive_pipeline = "", !.replay_mode = "", !.replay_subject = "",
                         !.current_status = "", !.current_diagnostic = "", !.comparison = "",
                         !.tx_file = "", !.rx_file = "", !.historical = NoHistory]

\* LoadStoredRun, the checks between fields of an exchange.
TransportConsistent(run) ==
    (Modern(run.format) /\ run.operation_kind = "udp-exchange") =>
      /\ run.historical.present
      /\ run.historical.send_succeeded => run.historical.send_attempted
      /\ run.historical.response_decoded => run.historical.response_received
      /\ run.replay_mode = "ENCODE_TX" => run.replay_subject = "TX"
      /\ run.replay_mode = "DECODE_RX" => run.replay_subject = "RX"
      /\ run.replay_mode = "NO_CODEC_REEXECUTION" =>
            run.replay_subject \in {"RX", "RX_INCOMPLETE"}
      /\ run.command = "replay" =>
            /\ ~run.send_attempted /\ ~run.send_succeeded /\ ~run.response_received
            /\ run.response_decoded = (run.replay_mode = "DECODE_RX" /\ run.current_status = "OK")
            /\ run.replay_mode = "NO_CODEC_REEXECUTION" =>
                  /\ run.current_status = "NOT_EVALUATED" /\ run.comparison = "NOT_EVALUATED"
                  /\ run.comparison_equal = <<>>

Summaries(files) == {g \in Formats : ResultPath(g) \in DOMAIN files}
RunOf(files) == StoredRun(files[ResultPath(CHOOSE g \in Summaries(files) : TRUE)])

LoadStoredRun(files) ==
    /\ CompletePath \in DOMAIN files
    /\ VerifyBundleHashes(files)
    /\ Cardinality(Summaries(files)) = 1
    /\ \A g \in Summaries(files) :
          Readable(files, ResultPath(g)) /\ files[ResultPath(g)].format = g
    /\ LET run == RunOf(files)
           exchange == Modern(run.format) /\ run.command = "udp-exchange"
       IN /\ TransportConsistent(run)
          /\ (exchange /\ run.response_received) => MetaPath \in DOMAIN files
          /\ VerifyRunRecord(files, run)
          /\ exchange => run.replay_mode \in {"ENCODE_TX", "DECODE_RX", "NO_CODEC_REEXECUTION"}
          /\ Modern(run.format) => VerifyEventLogV2(files, run)
          /\ (exchange /\ run.response_received) => VerifyRxMetadata(files, run)

\* CompareStoredRuns: the categories in which two runs differ.
When(differs, category) == IF differs THEN {category} ELSE {}

\* The categories, the fingerprint left aside.
Differences(left, right) ==
    LET modern == /\ left.format = right.format
                  /\ \/ left.format \in {"V3", "V4", "V5"}
                     \/ /\ left.format = "V2"
                        /\ left.operation_kind = "udp-exchange"
                        /\ right.operation_kind = "udp-exchange"
    IN When(left.operation_kind # right.operation_kind, "OPERATION_KIND")
       \cup When(left.config # right.config, "CONFIG")
       \cup When(left.frame_hex # right.frame_hex \/ left.tx_hex # right.tx_hex
                 \/ left.rx_hex # right.rx_hex, "WIRE_BYTES")
       \cup When(left.pipeline # right.pipeline \/ left.message # right.message, "MESSAGE_MATCH")
       \cup When(IF modern THEN left.current_status # right.current_status
                 ELSE left.operation_status # right.operation_status, "STATUS")
       \cup When(left.fields # right.fields, "TYPED_FIELDS")
       \cup When(IF modern THEN left.current_diagnostic # right.current_diagnostic
                 ELSE left.diagnostic # right.diagnostic, "STABLE_DIAGNOSTIC")

CompareStoredRuns(left, right) ==
    IF Differences(left, right) = {} /\ left.fingerprint # right.fingerprint
    THEN {"DETERMINISTIC_FINGERPRINT"} ELSE Differences(left, right)

Generation(format) == IF format \in {"V1", "V2"} THEN 2 ELSE IF format = "V3" THEN 3
                      ELSE IF format = "V4" THEN 4 ELSE 5
SameRun(left, right) ==
    left.fingerprint = right.fingerprint /\ CompareStoredRuns(left, right) = {}

====
