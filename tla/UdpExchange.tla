------------------------------ MODULE UdpExchange -----------------------------
(***************************************************************************)
(* The older commands of the Protocol Lab (protocol_lab.cpp) with their    *)
(* UDP exchange (udp_exchange.cpp) and their evidence transaction          *)
(* (evidence_bundle.cpp).  One process runs at a time.  udp-exchange       *)
(* writes its inputs and its request to disk, sends one datagram, takes    *)
(* the first datagram that arrives before the deadline, judges it, and     *)
(* completes the bundle; inspect, encode and replay execute first and      *)
(* write afterwards.                                                       *)
(*                                                                         *)
(* Any endpoint can send any frame to the bound socket at any time: late,  *)
(* repeated and foreign datagrams are all among them.  A file operation    *)
(* can fail, the process can die between any two steps, and a file of a    *)
(* published bundle can be damaged.                                        *)
(***************************************************************************)
EXTENDS LabBundle

CONSTANTS
    RunIds,             \* names RandomRunId can produce
    Endpoint,           \* endpoint texts and what they denote: loopback, unicast, ...
    Commands,           \* argument records
    MaxCommands,        \* bound on commands
    MaxDatagrams,       \* bound on datagrams that arrive at the socket
    MaxFaults           \* bound on failed operations, crashes and damaged files

VARIABLES
    pc,                 \* where the process is; "idle" when there is none
    cmd,                \* its arguments
    res,                \* its OperationResult
    config, values,     \* config_text and values_text; values is <<>> for none
    dir,                \* run directory of its transaction, "" before there is one
    todo,               \* files it still has to write before it goes on
    events,             \* events captured so far
    response,           \* UdpExchangeStatus of the exchange
    sock,               \* datagrams in the buffer of the bound socket
    exit,               \* exit code of the last command
    disk,               \* run directories
    sent, heard,        \* history, per run: datagrams sent; the datagram it took
    parent,             \* history, per run: the run it replays
    intact,             \* history, per run: its files when the last one was written
    commands, datagrams, faults
vars == <<pc, cmd, res, config, values, dir, todo, events, response, sock, exit, disk, sent,
          heard, parent, intact, commands, datagrams, faults>>
transaction == <<config, values, dir, todo, events>>
history == <<sent, heard, parent, intact>>

NoFiles == [p \in {} |-> Garbage]
Absent == [state |-> "absent", files |-> NoFiles]

Init ==
    /\ pc = "idle" /\ cmd = (CHOOSE a \in Commands : TRUE) /\ res = NewResult /\ config = ""
    /\ values = <<>> /\ dir = "" /\ todo = <<>> /\ events = <<>> /\ response = "OK"
    /\ sock = <<>> /\ exit = 0
    /\ disk = [id \in RunIds |-> Absent]
    /\ sent = [id \in RunIds |-> 0] /\ heard = [id \in RunIds |-> <<>>]
    /\ parent = [id \in RunIds |-> ""] /\ intact = [id \in RunIds |-> NoFiles]
    /\ commands = 0 /\ datagrams = 0 /\ faults = 0

-----------------------------------------------------------------------------
(* Pure parts of the commands. *)

\* ApplyExpectedStatus
ApplyExpectedStatus(a, r, natural) ==
    IF a.expect = "" THEN natural ELSE IF r.status = a.expect THEN 0 ELSE 5

\* RunUdpExchange, the checks before anything is written: 0 or the exit code.
EndpointRejected(a) ==
    \/ Endpoint[a.local] = "invalid" \/ Endpoint[a.remote] = "invalid"
    \/ Endpoint[a.remote] \in {"unspecified", "multicast", "broadcast"}
    \/ Endpoint[a.local] \in {"multicast", "broadcast"}
    \/ /\ ~(Endpoint[a.local] = "loopback" /\ Endpoint[a.remote] = "loopback")
       /\ ~(a.send /\ a.allow)

RequestProblem(r) ==
    IF r.status # "OK" THEN 5
    ELSE IF r.frame = EmptyFrame \/ FrameSize[r.frame] > MaxUdpPayload THEN 8 ELSE 0

UdpPreparation(a) ==
    IF EndpointRejected(a) THEN 2
    ELSE IF ~Compiles(a.config) THEN 4
    ELSE IF a.receive_pipeline \notin DOMAIN PlanOf(a.config).decode THEN 2
    ELSE IF ~a.readable THEN 3
    ELSE IF ~ParseValues(a.values) THEN 5
    ELSE RequestProblem(EncodeValues(a.config, a.values))

\* RunUdpExchange, the result as it stands when the transaction begins.
AsExchange(a, r) ==
    [r EXCEPT !.command = "udp-exchange", !.operation_kind = "udp-exchange",
              !.transport = "UDP", !.remote = a.remote, !.receive_pipeline = a.receive_pipeline,
              !.tx_frame = r.frame, !.frame_file = TxStem]
UdpPrepared(a) ==
    AsExchange(a, Executed(EncodeValues(a.config, a.values), "ENCODE_TX", "TX"))

\* RunUdpExchange, what becomes of the result after the exchange.
\* Mutant: whoever answers is believed.
PeerMatches_Anyone(a, r) == TRUE
PeerMatches(a, r) == r.received_from = a.remote          \* SameUdpEndpoint

NaturalExit(status) == IF status = "TIMEOUT" THEN 9 ELSE 8
Answered(r, d) ==
    [res |-> [Executed(d, "DECODE_RX", "RX") EXCEPT
                !.command = "udp-exchange", !.operation_kind = "udp-exchange",
                !.frame_file = RxStem, !.transport = r.transport, !.remote = r.remote,
                !.received_from = r.received_from, !.receive_pipeline = r.receive_pipeline,
                !.tx_frame = r.tx_frame, !.rx_frame = r.rx_frame,
                !.send_attempted = r.send_attempted, !.send_succeeded = r.send_succeeded,
                !.response_received = TRUE, !.response_decoded = d.status = "OK"],
     exit |-> IF d.status = "OK" THEN 0 ELSE 5]

JudgeResponse(a, r, status) ==
    IF status # "OK"
    THEN LET failed == Failed(r, IF status = "TIMEOUT" THEN "TIMEOUT" ELSE "TRANSPORT_FAILED",
                              status)
         IN [res |-> IF status = "DATAGRAM_TRUNCATED" THEN NotExecuted(failed, "RX_INCOMPLETE")
                     ELSE failed,
             exit |-> NaturalExit(status)]
    ELSE IF ~PeerMatches(a, r)
    THEN [res |-> NotExecuted(Failed(r, "TRANSPORT_FAILED", "UDP_PEER_MISMATCH"), "RX"),
          exit |-> 8]
    ELSE IF FrameSize[r.rx_frame] > PlanOf(a.config).limit
    THEN [res |-> NotExecuted(Failed(r, "TRANSPORT_FAILED", "UDP_DATAGRAM_TOO_LARGE"), "RX"),
          exit |-> 8]
    ELSE Answered(r, InspectFrameInPipeline(a.config, a.receive_pipeline, r.rx_frame))

\* InspectWithinPlanLimit
InspectWithinPlanLimit(c, f, r) ==
    IF FrameSize[f] > PlanOf(c).limit
    THEN FinalizePostPlanFailure(
           Failed([r EXCEPT !.frame = f], "INPUT_ERROR", "FRAME_LIMIT_EXCEEDED"), "DECODE_RX", "RX")
    ELSE InspectFrame(c, f)

\* Outcome of a command that executes before it records.  "record" says whether the
\* required inputs are there, "root" whether the command itself supplies a record root.
Outcome(r, code, v, record, root) ==
    [res |-> r, exit |-> code, values |-> v, record |-> record, root |-> root]

\* RunInspectOrEncode
Ended(a, r, v) ==
    Outcome(FinalizeFingerprint([r EXCEPT !.command = a.command]),
            IF r.status = "OK" THEN 0 ELSE 5, v, TRUE, FALSE)

RunInspectOrEncode(a) ==
    LET inspect == a.command = "inspect"
        base == [NewResult EXCEPT !.command = a.command, !.config = a.config]
        bound == BindCompiledPlan(a.config, a.command, base)
    IN IF ~Compiles(a.config)
       THEN Outcome(Failed(base, "CONFIG_COMPILE_FAILED", "CONFIG_COMPILE_FAILED"), 4, <<>>,
                    TRUE, FALSE)
       ELSE IF inspect
       THEN IF ~a.readable \/ a.frame = EmptyFrame
            THEN Outcome(FinalizePostPlanFailure(
                           Failed(bound, "INPUT_ERROR", "FRAME_INPUT_ERROR"), "DECODE_RX", "RX"),
                         3, <<>>, FALSE, FALSE)
            ELSE IF FrameSize[a.frame] > PlanOf(a.config).limit
            THEN Outcome(InspectWithinPlanLimit(a.config, a.frame, bound), 3, <<>>, TRUE, FALSE)
            ELSE Ended(a, InspectWithinPlanLimit(a.config, a.frame, bound), <<>>)
       ELSE IF ~a.readable
       THEN Outcome(FinalizePostPlanFailure(
                      Failed(bound, "INPUT_ERROR", "VALUES_INPUT_ERROR"), "ENCODE_TX", "TX"),
                    3, <<>>, FALSE, FALSE)
       ELSE IF ~ParseValues(a.values)
       THEN Outcome(FinalizePostPlanFailure(
                      Failed(bound, "VALUES_INVALID", "VALUES_INVALID"), "ENCODE_TX", "TX"),
                    5, <<a.values>>, TRUE, FALSE)
       ELSE Ended(a, EncodeValues(a.config, a.values), <<a.values>>)

\* RunReplay: the result before a codec is asked.
ReplayBase(a, c, stored) ==
    LET mode == CASE stored.operation_kind = "inspect" -> <<"DECODE_RX", "RX">>
                  [] stored.operation_kind = "encode" -> <<"ENCODE_TX", "TX">>
                  [] OTHER -> <<stored.replay_mode, stored.replay_subject>>
    IN [BindCompiledPlan(c, stored.operation_kind, NewResult) EXCEPT
          !.command = "replay", !.cross_config = a.config # "",
          !.receive_pipeline = stored.receive_pipeline, !.replay_mode = mode[1],
          !.replay_subject = mode[2]]

\* Mutant: the replay of an exchange does not say what the exchange met.
PreserveHistoricalTransport_Forgets(stored, r) == r
\* PreserveHistoricalTransport: LoadStoredRun has made sure that an exchange has them.
PreserveHistoricalTransport(stored, r) ==
    IF stored.operation_kind # "udp-exchange" THEN r
    ELSE [r EXCEPT !.historical = stored.historical]

\* RunReplay, the branch for an exchange.  The stored mode decides: the request is encoded
\* again, the response decoded again, or neither.
DecodedAgain(d) ==
    [Executed(d, "DECODE_RX", "RX") EXCEPT !.response_decoded = d.status = "OK"]
ReplayExchange(c, files, stored, base) ==
    LET uses_rx == \/ stored.replay_mode = "DECODE_RX"
                   \/ /\ stored.replay_mode = "NO_CODEC_REEXECUTION"
                      /\ stored.replay_subject \in {"RX", "RX_INCOMPLETE"}
        ParseFrameHex(hex) == IF hex = <<>> THEN EmptyFrame ELSE hex[1]
        rx == IF uses_rx THEN ParseFrameHex(stored.rx_hex) ELSE EmptyFrame
        tx == ParseFrameHex(stored.tx_hex)
        r == CASE stored.replay_mode = "ENCODE_TX" ->
                    Executed(EncodeValues(c, files[ValuesPath]), "ENCODE_TX", "TX")
               [] stored.replay_mode = "DECODE_RX" ->
                    DecodedAgain(InspectFrameInPipeline(c, stored.receive_pipeline, rx))
               [] OTHER ->
                    [NotExecuted(base, stored.replay_subject) EXCEPT
                       !.status = "EVIDENCE_VERIFIED", !.comparison = "NOT_EVALUATED",
                       !.frame = IF uses_rx THEN rx ELSE tx]
    IN [r EXCEPT !.operation_kind = "udp-exchange", !.frame_file = FrameStem,
                 !.tx_frame = tx, !.rx_frame = rx,
                 !.receive_pipeline = stored.receive_pipeline]

\* RunReplay, after the codec: the comparison with the stored run.
WithComparison(r, equal) ==
    [r EXCEPT !.comparison_equal = <<equal>>, !.comparison = IF equal THEN "EQUAL" ELSE "DIFFERENT"]
Compared(stored, full) ==
    IF full.replay_mode = "NO_CODEC_REEXECUTION" THEN full
    ELSE WithComparison(full, SameRun(stored, StoredRun(ToStoredRun(full))))

CompareReplay(a, c, stored, r) ==
    Compared(stored, FinalizeFingerprint(PreserveHistoricalTransport(stored,
               [r EXCEPT !.command = "replay", !.schema = PlanOf(c).schema, !.config = c,
                         !.cross_config = a.config # ""])))

ReplayExit(r) ==
    IF r.replay_mode = "NO_CODEC_REEXECUTION" THEN 0
    ELSE IF r.status # "OK" THEN 5
    ELSE IF r.comparison_equal = <<TRUE>> THEN 0 ELSE 6

Replayed(r, v) == Outcome(r, ReplayExit(r), v, TRUE, TRUE)

RunReplay(a, files) ==
    LET stored == RunOf(files)
        c == IF a.config = "" THEN files[ConfigPath] ELSE a.config
        base == PreserveHistoricalTransport(stored, ReplayBase(a, c, stored))
        refused(status, diagnostic, v) ==
            Outcome(FinalizePostPlanFailure(Failed(base, status, diagnostic),
                                            base.replay_mode, base.replay_subject),
                    3, v, stored.operation_kind \notin {"encode", "udp-exchange"} \/ v # <<>>, FALSE)
        generation == CASE PlanOf(c).schema = "0.4" -> 5 [] PlanOf(c).schema = "0.3" -> 4
                        [] PlanOf(c).schema = "0.2" -> 3 [] OTHER -> 2
        text == IF ValuesPath \in DOMAIN files THEN <<files[ValuesPath]>> ELSE <<>>
        compared(r, v) == Replayed(CompareReplay(a, c, stored, r), v)
    IN IF ~LoadStoredRun(files)
       THEN Outcome(Failed([NewResult EXCEPT !.command = "replay"], "INPUT_ERROR", "RUN_INPUT"),
                    3, <<>>, FALSE, FALSE)
       ELSE IF ~Compiles(c)
       THEN Outcome(Failed([NewResult EXCEPT !.command = "replay", !.config = c],
                           "CONFIG_COMPILE_FAILED", "CONFIG_COMPILE_FAILED"), 4, <<>>, TRUE, FALSE)
       ELSE IF Generation(stored.format) # generation
       THEN refused("INPUT_ERROR", "CROSS_SCHEMA_REPLAY_UNSUPPORTED", <<>>)
       ELSE CASE stored.operation_kind = "inspect" ->
                   compared(InspectWithinPlanLimit(c, files[Binary(stored.frame_file)], base), <<>>)
              [] stored.operation_kind = "encode" ->
                   IF ParseValues(text[1]) THEN compared(EncodeValues(c, text[1]), text)
                   ELSE refused("INPUT_ERROR", "REPLAY_VALUES_ERROR", text)
              [] stored.operation_kind = "udp-exchange" ->
                   IF stored.replay_mode = "ENCODE_TX" /\ ~ParseValues(text[1])
                   THEN refused("EVIDENCE_INSUFFICIENT", "EVIDENCE_INSUFFICIENT", text)
                   ELSE compared(ReplayExchange(c, files, stored, base), text)
              [] OTHER -> refused("INPUT_ERROR", "REPLAY_OPERATION_UNSUPPORTED", <<>>)

\* RunCompare
RunCompare(left, right) ==
    IF ~LoadStoredRun(left) \/ ~LoadStoredRun(right) THEN 3
    ELSE IF Generation(RunOf(left).format) # Generation(RunOf(right).format) THEN 3
    ELSE IF SameRun(RunOf(left), RunOf(right)) THEN 0 ELSE 6

-----------------------------------------------------------------------------
(* Steps of the process. *)

Exit(code) == pc' = "idle" /\ exit' = code /\ sock' = <<>>

StartCommand(a) ==
    /\ pc = "idle" /\ commands < MaxCommands
    /\ commands' = commands + 1 /\ cmd' = a

\* RunUdpExchange up to the transaction
StartUdpExchange(a) ==
    /\ a.command = "udp-exchange" /\ StartCommand(a)
    /\ IF UdpPreparation(a) # 0
       THEN /\ \E code \in {UdpPreparation(a)} : Exit(code)
            /\ dir' = "" /\ UNCHANGED <<res, config, values, todo, events>>
       ELSE /\ pc' = "begin" /\ res' = UdpPrepared(a) /\ dir' = ""
            /\ config' = a.config /\ values' = <<a.values>>
            /\ todo' = <<ConfigPath, ValuesPath, Binary(TxStem), Hex(TxStem)>>
            /\ events' = <<>> /\ UNCHANGED <<exit, sock>>
    /\ UNCHANGED <<response, disk, history, datagrams, faults>>

\* RunApplicationWithDependencies for a command that executes first: it records the result
\* when there is a record root and the inputs that belong to the result.
StartOffline(a) ==
    /\ a.command \in {"inspect", "encode", "replay"} /\ StartCommand(a)
    /\ a.command = "replay" => a.bundle \in RunIds /\ disk[a.bundle].state = "final"
    /\ \E out \in {IF a.command = "replay" THEN RunReplay(a, disk[a.bundle].files)
                   ELSE RunInspectOrEncode(a)} :
       \E code \in {ApplyExpectedStatus(a, out.res, out.exit)} :
          /\ res' = [out.res EXCEPT !.exit_code = code, !.frame_file = FrameStem]
          /\ dir' = ""
          /\ IF out.record /\ (a.record \/ out.root)
             THEN /\ pc' = "begin" /\ config' = out.res.config /\ values' = out.values
                  /\ todo' = <<ConfigPath>>
                       \o (IF out.values = <<>> THEN <<>> ELSE <<ValuesPath>>)
                       \o <<Binary(FrameStem), Hex(FrameStem)>>
                  /\ events' = <<>> /\ UNCHANGED <<exit, sock>>
             ELSE Exit(code) /\ UNCHANGED <<config, values, todo, events>>
    /\ UNCHANGED <<response, disk, history, datagrams, faults>>

StartCompare(a) ==
    /\ a.command = "compare" /\ StartCommand(a)
    /\ {a.bundle, a.right} \subseteq {id \in RunIds : disk[id].state = "final"}
    /\ Exit(RunCompare(disk[a.bundle].files, disk[a.right].files)) /\ dir' = ""
    /\ UNCHANGED <<res, config, values, todo, events, response, disk, history, datagrams, faults>>

\* Begin: names that are taken are skipped; then the directory is created.
Begin(id) ==
    /\ pc = "begin" /\ disk[id].state = "absent"
    /\ disk' = [disk EXCEPT ![id].state = "inprogress"]
    /\ dir' = id /\ pc' = "writing"
    /\ parent' = [parent EXCEPT ![id] = IF cmd.command = "replay" THEN cmd.bundle ELSE ""]
    /\ UNCHANGED <<cmd, res, config, values, todo, events, response, sock, exit, sent, heard,
                   intact, commands, datagrams, faults>>

\* WriteVerified, on a file that is there in the end
WriteVerified ==
    /\ pc \in {"writing", "receiving", "completing"} /\ todo # <<>>
    /\ LET path == Head(todo)
           content == Content(path, config, IF values = <<>> THEN <<>> ELSE values[1], res,
                              events, disk[dir].files)
           files == Put(disk[dir].files, path, content)
       IN /\ disk' = [disk EXCEPT ![dir].files = files]
          /\ intact' = IF path = SumsPath THEN [intact EXCEPT ![dir] = files] ELSE intact
    /\ todo' = Tail(todo)
    /\ UNCHANGED <<pc, cmd, res, config, values, dir, events, response, sock, exit, sent, heard,
                   parent, commands, datagrams, faults>>

\* FailRecord: an operation on the run directory fails.  What is there stays there.
FailRecord ==
    /\ pc \in {"begin", "writing", "receiving", "completing"} /\ faults < MaxFaults
    /\ faults' = faults + 1
    /\ disk' \in {disk} \cup
          (IF pc # "begin" /\ todo # <<>>
           THEN {[disk EXCEPT ![dir].files = Put(@, Temporary(Head(todo)), Garbage)]} ELSE {})
    /\ Exit(7)
    /\ UNCHANGED <<cmd, res, transaction, response, history, commands, datagrams>>

\* CompleteUdpTransaction and Complete: the result is final, its files are written next.
CompleteWith(r, natural, log) ==
    LET code == ApplyExpectedStatus(cmd, r, natural) IN
    /\ res' = FinalizeFingerprint([r EXCEPT !.exit_code = code])
    /\ events' = log /\ todo' = SummaryFiles(r) /\ pc' = "completing"

\* The request is on disk: without --send the command ends here, with it the adapter runs.
RequestRecorded ==
    /\ pc = "writing" /\ todo = <<>> /\ cmd.command = "udp-exchange"
    /\ IF cmd.send
       THEN pc' = "open" /\ events' = CaptureTxFrame(events, res.tx_frame)
             /\ UNCHANGED <<res, todo>>
       ELSE CompleteWith(res, 0, CaptureTxFrame(events, res.tx_frame))
    /\ UNCHANGED <<cmd, config, values, dir, response, sock, exit, disk, history, commands,
                   datagrams, faults>>

\* CreateEvidenceBundle
OfflineFrameRecorded ==
    /\ pc = "writing" /\ todo = <<>> /\ cmd.command # "udp-exchange"
    /\ events' = CaptureOfflineFrame(events, res)
    /\ todo' = SummaryFiles(res) /\ pc' = "completing"
    /\ UNCHANGED <<cmd, res, config, values, dir, response, sock, exit, disk, history, commands,
                   datagrams, faults>>

\* Exchange: WSAStartup, socket, bind and getsockname
OpenSocket ==
    /\ pc = "open"
    /\ \/ /\ response' \in {"STARTUP_FAILED", "SOCKET_CREATE_FAILED", "BIND_FAILED",
                            "PLATFORM_UNSUPPORTED"}
          /\ pc' = "judge" /\ faults < MaxFaults /\ faults' = faults + 1
       \/ pc' = "send" /\ UNCHANGED <<response, faults>>
    /\ UNCHANGED <<cmd, res, transaction, sock, exit, disk, history, commands, datagrams>>

\* Exchange: the intent, sendto, and its result.  The events are kept in memory.
SendTo(ok) ==
    /\ pc = "send"
    /\ events' = CaptureSendResult(CaptureSendIntent(events, res.remote), ok,
                                   IF ok THEN "" ELSE "UDP_SEND_FAILED")
    /\ res' = [res EXCEPT !.send_attempted = TRUE, !.send_succeeded = ok]
    /\ IF ok THEN /\ sent' = [sent EXCEPT ![dir] = @ + 1] /\ pc' = "wait"
                  /\ UNCHANGED <<response, sock, faults>>
       ELSE /\ response' = "SEND_FAILED" /\ pc' = "judge" /\ sock' = <<>>
            /\ faults < MaxFaults /\ faults' = faults + 1 /\ UNCHANGED sent
    /\ UNCHANGED <<cmd, config, values, dir, todo, exit, disk, heard, parent, intact, commands,
                   datagrams>>

\* A datagram reaches the bound socket.
Arrive(from, frame) ==
    /\ pc \in {"send", "wait"} /\ datagrams < MaxDatagrams
    /\ datagrams' = datagrams + 1 /\ sock' = Append(sock, [from |-> from, frame |-> frame])
    /\ UNCHANGED <<pc, cmd, res, transaction, response, exit, disk, history, commands, faults>>

\* Exchange: select finds nothing before the deadline, or it or recvfrom fails.
\* Mutant: recvfrom is called without a deadline.
GiveUp_Blocks(status) ==
    /\ pc = "wait" /\ status # "TIMEOUT" /\ response' = status /\ pc' = "judge"
    /\ sock' = <<>> /\ faults < MaxFaults /\ faults' = faults + 1
    /\ UNCHANGED <<cmd, res, transaction, exit, disk, history, commands, datagrams>>
GiveUp(status) ==
    /\ pc = "wait" /\ response' = status /\ pc' = "judge" /\ sock' = <<>>
    /\ status = "TIMEOUT" => sock = <<>>
    /\ faults' = IF status = "TIMEOUT" THEN faults ELSE faults + 1
    /\ faults' <= MaxFaults
    /\ UNCHANGED <<cmd, res, transaction, exit, disk, history, commands, datagrams>>

\* Exchange: recvfrom takes the first datagram, whoever sent it; the socket is closed.
ReceiveFrom ==
    /\ pc = "wait" /\ sock # <<>> /\ sock' = <<>>
    /\ LET d == Head(sock) IN
       IF FrameSize[d.frame] > MaxUdpPayload
       THEN /\ response' = "DATAGRAM_TRUNCATED" /\ pc' = "judge" /\ UNCHANGED <<res, todo, heard>>
       ELSE /\ response' = "OK" /\ pc' = "receiving"
            /\ res' = [res EXCEPT !.response_received = TRUE, !.rx_frame = d.frame,
                                  !.received_from = d.from]
            /\ todo' = <<Binary(RxStem), Hex(RxStem), MetaPath>>
            /\ heard' = [heard EXCEPT ![dir] = <<d>>]
    /\ UNCHANGED <<cmd, config, values, dir, events, exit, disk, sent, parent, intact, commands,
                   datagrams, faults>>

\* RecordReceivedFrame pushes its event after its three files.
ResponseRecorded ==
    /\ pc = "receiving" /\ todo = <<>>
    /\ events' = Append(events, ReceivedEvent(events, res.rx_frame, res.received_from))
    /\ pc' = "judge"
    /\ UNCHANGED <<cmd, res, config, values, dir, todo, response, sock, exit, disk, history,
                   commands, datagrams, faults>>

\* RunUdpExchange after the exchange
Judge ==
    /\ pc = "judge"
    /\ \E out \in {JudgeResponse(cmd, res, response)} : CompleteWith(out.res, out.exit, events)
    /\ UNCHANGED <<cmd, config, values, dir, response, sock, exit, disk, history, commands,
                   datagrams, faults>>

\* Complete renames the directory; the command ends with the exit code of its result.
Publish ==
    /\ pc = "completing" /\ todo = <<>>
    /\ disk' = [disk EXCEPT ![dir].state = "final"]
    /\ Exit(res.exit_code)
    /\ UNCHANGED <<cmd, res, transaction, response, history, commands, datagrams, faults>>

-----------------------------------------------------------------------------
(* The environment. *)

Crash ==
    /\ pc # "idle" /\ faults < MaxFaults /\ faults' = faults + 1
    /\ disk' \in {disk} \cup
          (IF pc \in {"writing", "receiving", "completing"} /\ todo # <<>>
           THEN {[disk EXCEPT ![dir].files = Put(@, Temporary(Head(todo)), Garbage)]} ELSE {})
    /\ pc' = "idle" /\ sock' = <<>> /\ exit' = 255
    /\ UNCHANGED <<cmd, res, transaction, response, history, commands, datagrams>>

\* A stored file is changed or lost, or a file is added to the directory.
Damage(id, path) ==
    /\ disk[id].state = "final" /\ faults < MaxFaults /\ faults' = faults + 1
    /\ \/ disk' = [disk EXCEPT ![id].files = Put(@, path, Garbage)]
       \/ /\ path \in DOMAIN disk[id].files
          /\ disk' = [disk EXCEPT ![id].files = [p \in DOMAIN @ \ {path} |-> @[p]]]
    /\ UNCHANGED <<pc, cmd, res, transaction, response, sock, exit, history, commands, datagrams>>

Start(a) == StartUdpExchange(a) \/ StartOffline(a) \/ StartCompare(a)

Process ==
    \/ \E id \in RunIds : Begin(id)
    \/ WriteVerified \/ FailRecord \/ RequestRecorded \/ OfflineFrameRecorded
    \/ OpenSocket \/ \E ok \in BOOLEAN : SendTo(ok)
    \/ \E status \in {"TIMEOUT", "RECEIVE_FAILED"} : GiveUp(status)
    \/ ReceiveFrom \/ ResponseRecorded \/ Judge \/ Publish

Hosts == {from \in DOMAIN Endpoint : Endpoint[from] \in {"loopback", "unicast"}}

Environment ==
    \/ \E from \in Hosts, frame \in Frames : Arrive(from, frame)
    \/ Crash
    \/ \E id \in RunIds : \E path \in DOMAIN disk[id].files \cup {<<"stray", "">>} :
                 Damage(id, path)

Next == (\E a \in Commands : Start(a)) \/ Process \/ Environment
Spec == Init /\ [][Next]_vars

\* Every step of a running command is taken: nothing in it waits without a deadline.
Continue ==
    \/ \E id \in RunIds : Begin(id)
    \/ WriteVerified \/ RequestRecorded \/ OfflineFrameRecorded \/ OpenSocket \/ SendTo(TRUE)
    \/ GiveUp("TIMEOUT") \/ ReceiveFrom \/ ResponseRecorded \/ Judge \/ Publish
FairSpec == Spec /\ WF_vars(Continue)

-----------------------------------------------------------------------------
(* Properties. *)

\* The bundles that the next command can be given.
Published == {id \in RunIds : pc = "idle" /\ disk[id].state = "final"}

TypeOK ==
    /\ pc \in {"idle", "begin", "writing", "open", "send", "wait", "receiving", "judge",
               "completing"}
    /\ cmd \in Commands /\ dir \in RunIds \cup {""}
    /\ pc \in {"writing", "open", "send", "wait", "receiving", "judge", "completing"} =>
          dir \in RunIds /\ disk[dir].state = "inprogress"
    /\ \A id \in RunIds : disk[id].state \in {"absent", "inprogress", "final"}
    /\ exit \in {0, 2, 3, 4, 5, 6, 7, 8, 9, 255}

\* A replay of a run without an operation (its configuration did not compile) with a
\* configuration of a later generation: it is refused and recorded, and its bundle names neither
\* a mode nor a subject.
RefusedWithoutOperation(id) ==
    /\ parent[id] # ""
    /\ LET stored == RunOf(intact[parent[id]]) IN
       /\ stored.operation_kind = ""
       /\ Generation(RunOf(intact[id]).format) # Generation(stored.format)

\* Complete publishes without reading the bundle back: whatever the exchange met, the bundle
\* of every command that completed satisfies all the checks of LoadStoredRun.  The one exception
\* is the refused replay of a run without an operation, which the reader never accepts.
CompletedIsLoadable ==
    \A id \in Published : LoadStoredRun(intact[id]) <=> ~RefusedWithoutOperation(id)

\* A datagram leaves the process only when the configuration, the values and the request
\* are already on disk: whatever happens afterwards, what was sent can be told.
SentIsRecorded ==
    \A id \in RunIds : sent[id] > 0 =>
        /\ sent[id] = 1
        /\ {ConfigPath, ValuesPath, Binary(TxStem), Hex(TxStem)} \subseteq
              DOMAIN disk[id].files \cup DOMAIN intact[id]

\* A published exchange tells what happened on the wire: whether a datagram was sent, and
\* which datagram was taken from whom.
TellsTheWire ==
    \A id \in Published :
        LET run == RunOf(intact[id]) IN
        /\ run.send_succeeded <=> sent[id] = 1
        /\ run.response_received <=> heard[id] # <<>>
        /\ heard[id] # <<>> =>
              run.received_from = heard[id][1].from /\ run.rx_hex = HexUpper(heard[id][1].frame)

\* A datagram from anyone but the configured remote endpoint, or one over the limit of the
\* plan, never reaches the codec, and no replay decodes it either.
ForeignNeverDecoded ==
    \A id \in Published :
        LET run == RunOf(intact[id])
            origin == IF parent[id] = "" THEN id ELSE parent[id]
        IN (run.operation_kind = "udp-exchange" /\ run.replay_mode = "DECODE_RX") =>
              /\ heard[origin] # <<>> => heard[origin][1].from = RunOf(intact[origin]).remote
              /\ heard[origin] # <<>> =>
                    ~(FrameSize[heard[origin][1].frame] > PlanOf(intact[origin][ConfigPath]).limit)

\* The commands end with one of these before they ask the codec or the limit of its frames.
NotAsked ==
    {"CONFIG_COMPILE_FAILED", "VALUES_INVALID", "REPLAY_VALUES_ERROR",
     "CROSS_SCHEMA_REPLAY_UNSUPPORTED", "REPLAY_OPERATION_UNSUPPORTED"}

\* Replaying a published run with its own configuration repeats it, the comparison is EQUAL,
\* exactly if the codec or its limit was asked and the run has a fingerprint; an inspection of
\* schema 0.1 that met the limit has none.  The gates of an exchange are not evaluated again:
\* then nothing is compared and the frame is the stored one.
ReplayRepeats ==
    \A id \in Published :
        LET run == RunOf(intact[id])
            own == [command |-> "replay", config |-> "", expect |-> ""]
            again == RunReplay(own, intact[id]).res
        IN IF run.replay_mode = "NO_CODEC_REEXECUTION"
           THEN /\ again.comparison = "NOT_EVALUATED"
                /\ again.frame = IF run.rx_hex = <<>> THEN EmptyFrame ELSE run.rx_hex[1]
           ELSE again.comparison = "EQUAL"
                  <=> run.diagnostic \notin NotAsked /\ run.fingerprint # <<>>

\* A bundle that LoadStoredRun accepts has every file its command wrote and nothing else:
\* no interrupted command, no lost, changed or added file goes unnoticed.
AcceptedIsWritten ==
    \A id \in RunIds : LoadStoredRun(disk[id].files) => disk[id].files = intact[id]

\* A command that ends with 0 without --expect-status has its evidence in place: a sent
\* request was answered by the remote endpoint and the answer decoded.
ExitTruthful ==
    (pc = "idle" /\ exit = 0 /\ commands > 0 /\ cmd.command = "udp-exchange" /\ cmd.expect = ""
       /\ dir # "") =>
        /\ disk[dir].state = "final"
        /\ cmd.send => /\ RunOf(intact[dir]).response_decoded
                       /\ RunOf(intact[dir]).replay_mode = "DECODE_RX"

\* The run directories tell what happened, whatever the disk did to them and wherever a command
\* stopped: what was sent is on disk, what is accepted is what was written, what is published
\* is what happened on the wire, no foreign answer was decoded for it, and the exit code
\* agrees with it.
DirectoriesTruthful ==
    SentIsRecorded /\ AcceptedIsWritten /\ TellsTheWire /\ ForeignNeverDecoded /\ ExitTruthful

\* A published bundle can be loaded, and its replay repeats it, but for the two kinds of run
\* that are told apart above.
PublishedTruthful == CompletedIsLoadable /\ ReplayRepeats

\* Every command ends, answered or not.
CommandEnds == pc # "idle" ~> pc = "idle"
==============================================================================
