----------------------------- MODULE RunEvidence -----------------------------
(***************************************************************************)
(* Stored runs of the Protocol Lab (c3_cli.cpp, v07_run.cpp,               *)
(* v07_run_evidence.cpp): command line processes execute a request, write  *)
(* its bundle file by file into a directory with the suffix .inprogress,   *)
(* read it back, and publish it by renaming the directory.  Published      *)
(* bundles are replayed and compared.                                      *)
(*                                                                         *)
(* Several processes share one record root, a process can die between any  *)
(* two file operations, an operation can fail, and a stored file can be    *)
(* damaged.  RunExecution defines what an execution records.               *)
(***************************************************************************)
EXTENDS RunExecution

CONSTANTS
    Processes,          \* command line processes
    RunIds,             \* names NewRunId can produce
    Configs,            \* configuration files
    Schema,             \* the schema each of them declares, or INVALID / UNSUPPORTED
    Tools,              \* tool versions that are in use
    ValuesTexts,        \* values files
    StructuralAnswers, MainAnswers, ReviewAnswers,      \* of the codec
    Expectations,       \* values of --expect-status; Null for none
    Garbage,            \* content no parser accepts
    MaxStarts,          \* bound on runs that are not replays
    MaxReplays,         \* bound on replays
    MaxFaults           \* bound on crashes, I/O failures and damaged files

ASSUME SchemaAssumption == DOMAIN Schema = Configs

VARIABLES
    proc,       \* the processes
    oracle,     \* answers of compiler and codec so far, per tool, config, operation
    disk,       \* directories of the record root: <<run, state>> -> path -> content
    meant,      \* history: the complete bundles that processes set out to write
    starts, replays, faults
vars == <<proc, oracle, disk, meant, starts, replays, faults>>

-----------------------------------------------------------------------------
(* Files of a bundle. *)

\* ResultFileFor, RecordFileFor, ParentRecordFileFor, HistoricalResultFileFor:
\* the generation is part of the file name.
ResultFileFor(record) == <<"result", record.format>>
RecordFileFor(record) == <<"record", record.format>>
ParentRecordFileFor(record) == <<"history/record", record.format>>
HistoricalResultFileFor(record) == <<"history/result", record.format>>
ConfigFile == <<"config", "">>
ValuesFile == <<"values", "">>
FrameFile == <<"frame", "">>
EventFile == <<"events", "">>
CompleteFile == <<"COMPLETE", "">>
ManifestFile == <<"SHA256SUMS", "">>

OnlyAt(f, S) == [x \in S |-> f[x]]
Put(f, x, value) == [y \in DOMAIN f \cup {x} |-> IF y = x THEN value ELSE f[y]]

\* ExpectedPayloadPaths
ExpectedPayloadPaths(record) ==
    {ConfigFile, EventFile}
    \cup (IF record.values THEN {ValuesFile} ELSE {})
    \cup (IF record.frame THEN {FrameFile} ELSE {})
    \cup (IF record.result THEN {ResultFileFor(record)} ELSE {})
    \cup (IF record.invocation = "REPLAY"
          THEN {ParentRecordFileFor(record), HistoricalResultFileFor(record)} ELSE {})

\* The payloads of a bundle in the order WriteRunBundle writes them.
PayloadFiles(b) ==
    LET optional(present, path, content) == IF present THEN <<<<path, content>>>> ELSE <<>>
        replay == b.record.invocation = "REPLAY"
    IN <<<<ConfigFile, b.config>>>>
       \o optional(b.values # <<>>, ValuesFile, b.values)
       \o optional(b.frame # Null, FrameFile, b.frame)
       \o optional(b.result # <<>>, ResultFileFor(b.record), b.result)
       \o (IF replay
           THEN << <<ParentRecordFileFor(b.record), b.record.baseline[1].parent>>,
                   <<HistoricalResultFileFor(b.record), b.record.baseline[1].result>> >>
           ELSE <<>>)
       \o <<<<EventFile, b.events>>>>

ToFiles(seq) ==
    [path \in {seq[i][1] : i \in DOMAIN seq} |->
        seq[CHOOSE i \in DOMAIN seq : seq[i][1] = path][2]]

\* The record names every payload with its hash.
SerializeRecord(b) == [facts |-> b.record, payloads |-> ToFiles(PayloadFiles(b))]

\* The manifest names record and COMPLETE too; it is the last file.
BundleFiles(b) ==
    LET payloads == PayloadFiles(b)
        listed == payloads \o << <<RecordFileFor(b.record), SerializeRecord(b)>>,
                                <<CompleteFile, "">> >>
    IN Append(listed, <<ManifestFile, ToFiles(listed)>>)

\* ValidateInputAssociations
ValidateInputAssociations(b) ==
    LET r == b.record
        encode == r.op = "encode"
        replay == r.invocation = "REPLAY"
    IN /\ encode = (b.values # <<>>) /\ (~encode => b.frame # Null)
       /\ r.values = (b.values # <<>>) /\ r.frame = (b.frame # Null)
       /\ r.result = (b.result # <<>>)
       /\ IF b.result = <<>> THEN r.fingerprint = <<>>
          ELSE /\ b.result[1].format = r.format
               /\ r.fingerprint = <<FinalizeFingerprint(b.result[1])>>
               /\ b.result[1].config = b.config
               /\ b.result[1].op = r.op
               /\ b.result[1].frame = b.frame
       /\ replay = (r.parent # Null) /\ replay = (r.comparison # Null)
       /\ replay = (r.baseline # <<>>)
       /\ encode => r.requested = 0
       /\ replay /\ ~encode => r.requested # 0

-----------------------------------------------------------------------------
(* The reader of a bundle. *)

\* ParseManifest: every listed file is there with the listed hash.
ParseManifest(files) ==
    /\ ManifestFile \in DOMAIN files
    /\ files[ManifestFile] # Garbage
    /\ \A path \in DOMAIN files[ManifestFile] :
          path \in DOMAIN files /\ files[path] = files[ManifestFile][path]

\* Mutant: unlisted files are tolerated.
FileSetComplete_Extra(files) ==
    LET listed == DOMAIN files[ManifestFile]
    IN /\ Cardinality({path \in listed : path[1] = "record"}) = 1
       /\ {ConfigFile, EventFile, CompleteFile} \subseteq listed
       /\ listed \cup {ManifestFile} \subseteq DOMAIN files

\* One record generation, the mandatory files, and no file beside the listed ones.
FileSetComplete(files) ==
    LET listed == DOMAIN files[ManifestFile]
    IN /\ Cardinality({path \in listed : path[1] = "record"}) = 1
       /\ {ConfigFile, EventFile, CompleteFile} \subseteq listed
       /\ DOMAIN files = listed \cup {ManifestFile}

ValidatePayloadRoleSet(stored) == DOMAIN stored.payloads = ExpectedPayloadPaths(stored.facts)

\* ParseResult
ParseResult(content) == content # Garbage /\ ValidateResult(content[1])

\* A result that is present agrees with config, frame and record.
ResultBound(files, record) ==
    \/ ~record.result /\ record.fingerprint = <<>>
    \/ /\ record.result
       /\ LET result == files[ResultFileFor(record)][1]
          IN /\ ParseResult(files[ResultFileFor(record)])
             /\ ResultMatchesRecord(record, result)
             /\ result.config = files[ConfigFile]
             /\ result.frame = IF record.frame THEN files[FrameFile] ELSE Null

\* The historical snapshots of a replay agree with the parent they name, and
\* the replay took the parent's material.
HistoryBound(files, stored) ==
    LET record == stored.facts
        base == record.baseline[1]
        parent == files[ParentRecordFileFor(record)]
        result == files[HistoricalResultFileFor(record)]
        input == IF record.op = "encode" THEN ValuesFile ELSE FrameFile
    IN /\ parent = base.parent /\ result = base.result
       /\ ParseRecord(parent.facts) /\ ParseResult(result)
       /\ parent.facts.run = record.parent
       /\ parent.facts.format = record.format
       /\ parent.facts.op = record.op
       /\ parent.facts.result
       /\ ValidatePayloadRoleSet(parent)
       /\ parent.payloads[ResultFileFor(parent.facts)] = result
       /\ parent.facts.fingerprint = <<FinalizeFingerprint(result[1])>>
       /\ base.fingerprint = parent.facts.fingerprint
       /\ ResultMatchesRecord(parent.facts, result[1])
       /\ ValidateTerminal(parent.facts, TRUE)
       /\ parent.payloads[ConfigFile] = stored.payloads[ConfigFile]
       /\ result[1].config = parent.payloads[ConfigFile]
       /\ result[1].frame = IF parent.facts.frame THEN parent.payloads[FrameFile] ELSE Null
       /\ parent.payloads[input] = stored.payloads[input]
       /\ record.op = "inspect" => record.requested = result[1].pipeline
       /\ record.comparison = Comparison(record.fingerprint, base.fingerprint)

\* LoadRunBundle on the files of a directory that is named after `run'.
LoadRunBundle(run, files) ==
    /\ ParseManifest(files)
    /\ FileSetComplete(files)
    /\ LET listed == DOMAIN files[ManifestFile]
           path == CHOOSE path \in listed : path[1] = "record"
           stored == files[path]
       IN /\ stored # Garbage
          /\ ParseRecord(stored.facts)
          /\ path = RecordFileFor(stored.facts)
          /\ stored.facts.run = run
          /\ \A payload \in DOMAIN stored.payloads :
                payload \in DOMAIN files /\ files[payload] = stored.payloads[payload]
          /\ ValidatePayloadRoleSet(stored)
          /\ listed = DOMAIN stored.payloads \cup {CompleteFile, path}
          /\ ResultBound(files, stored.facts)
          /\ stored.facts.invocation = "REPLAY" => HistoryBound(files, stored)
          /\ ValidateTerminal(stored.facts, stored.facts.result)
          /\ ValidateEvents(stored.facts, files[EventFile])

StoredRecord(files) == files[CHOOSE path \in DOMAIN files : path[1] = "record"]

\* The values of an encode run are the ones the result is about.
QualifyValues(files, record, result) ==
    /\ record.values
    /\ ParseValues(files[ValuesFile][1])
    /\ ValuesFormatCompatible(files[ValuesFile][1], record.format)
    /\ files[ValuesFile][1].pipeline = result.pipeline

\* QualifyRunEvidence: the record has a result that the plan of its
\* configuration could have produced.
QualifyRunEvidence(files) ==
    LET record == StoredRecord(files).facts
        result == files[ResultFileFor(record)][1]
    IN /\ record.result
       /\ Schema[files[ConfigFile]] \in Generations
       /\ result.format = Schema[files[ConfigFile]] /\ record.format = result.format
       /\ result.pipeline \in Pipelines
       /\ record.invocation = "REPLAY" /\ record.op = "inspect" =>
             record.requested = result.pipeline
       /\ result.operation = "OK" => result.fields
       /\ record.op = "encode" => QualifyValues(files, record, result)
       /\ record.op = "inspect" =>
             record.execution.queries <= IF record.invocation = "REPLAY" THEN 1 ELSE NumPipelines

\* CompareRunEvidence
CompareRunEvidence(left, right) ==
    LET l == StoredRecord(left).facts
        r == StoredRecord(right).facts
    IN IF l.op # r.op \/ l.format # r.format THEN "REFUSED"
       ELSE IF l.fingerprint = r.fingerprint THEN "EQUAL" ELSE "DIFFERENT"

-----------------------------------------------------------------------------
(* Processes. *)

Final(run) == <<run, "FINAL">>
Progress(run) == <<run, "INPROGRESS">>
Readable(dir) == LoadRunBundle(dir[1], disk[dir])

IdleProcess ==
    [pc |-> "idle", request |-> <<>>, expect |-> Null,
     bundle |-> <<>>, left |-> <<>>, exit |-> 0, error |-> Null]

Init ==
    /\ proc = [p \in Processes |-> IdleProcess]
    /\ oracle = <<>>
    /\ disk = <<>>
    /\ meant = {}
    /\ starts = 0 /\ replays = 0 /\ faults = 0

\* NewRunId: a name with neither directory.  The name is not reserved.
NewRunId(run) == Final(run) \notin DOMAIN disk /\ Progress(run) \notin DOMAIN disk

\* RunExecute of c3_cli.cpp up to the execution.
Start(p, run, op, config, values, tool, expect) ==
    /\ (values = <<>>) <=> op = "inspect"
    /\ proc[p].pc = "idle"
    /\ starts < MaxStarts
    /\ NewRunId(run)
    /\ proc' = [proc EXCEPT ![p] =
          [IdleProcess EXCEPT !.pc = "execute", !.expect = expect,
             !.request = <<[run |-> run, tool |-> tool, op |-> op, config |-> config,
                            values |-> values, invocation |-> "RUN", parent |-> Null,
                            requested |-> 0, history |-> <<>>]>>]]
    /\ starts' = starts + 1
    /\ UNCHANGED <<oracle, disk, meant, replays, faults>>

\* ReplayRunAndWrite up to the execution: the request is taken from the parent.
StartReplay(p, run, dir, tool, expect) ==
    /\ proc[p].pc = "idle"
    /\ replays < MaxReplays
    /\ NewRunId(run)
    /\ replays' = replays + 1
    /\ LET files == disk[dir]
           stored == StoredRecord(files)
           result == files[ResultFileFor(stored.facts)]
       IN proc' = [proc EXCEPT ![p] =
            IF Readable(dir) /\ QualifyRunEvidence(files)
            THEN [IdleProcess EXCEPT !.pc = "execute", !.expect = expect,
                    !.request = <<[run |-> run, tool |-> tool, op |-> stored.facts.op,
                                   config |-> files[ConfigFile],
                                   values |-> IF stored.facts.values THEN files[ValuesFile]
                                              ELSE <<>>,
                                   invocation |-> "REPLAY",
                                   parent |-> stored.facts.run,
                                   requested |-> IF stored.facts.op = "inspect"
                                                 THEN result[1].pipeline ELSE 0,
                                   history |-> <<[record |-> stored, result |-> result,
                                                  fingerprint |-> stored.facts.fingerprint]>>]>>]
            ELSE [IdleProcess EXCEPT !.pc = "done", !.exit = 3,
                               !.error = "REPLAY_EVIDENCE_INVALID"]]
    /\ UNCHANGED <<oracle, disk, meant, starts, faults>>

\* ExecuteRunAndWrite: execute and build the bundle.  Compiler and codec are
\* deterministic: a tool answers the same question always in the same way.
Execute(p, structurals, mains, reviews) ==
    /\ proc[p].pc = "execute"
    /\ LET r == proc[p].request[1]
           key == <<r.tool, r.config, r.op, r.values>>
           possible == IF key \in DOMAIN oracle THEN {oracle[key]}
                       ELSE Answers(r.op, structurals, mains, reviews)
       IN \E a \in possible :
             LET run == ExecuteRun(r, Schema[r.config], a)
                 bundle == BuildBundle(r, run.out, run.events)
             IN /\ oracle' = IF run.out.preparation = "OK" THEN Put(oracle, key, a) ELSE oracle
                /\ proc' = [proc EXCEPT ![p].pc = "check", ![p].bundle = <<bundle>>,
                                        ![p].left = BundleFiles(bundle)]
                /\ meant' = meant \cup {[run |-> r.run, files |-> ToFiles(BundleFiles(bundle))]}
    /\ UNCHANGED <<disk, starts, replays, faults>>

\* RunExecute and RunReplay answer 7 when the bundle was not published.
Fail(p, error) ==
    proc' = [proc EXCEPT ![p].pc = "done", ![p].exit = 7, ![p].error = error, ![p].left = <<>>]

\* WriteRunBundle up to the existence checks.
CheckDestination(p) ==
    /\ proc[p].pc = "check"
    /\ LET b == proc[p].bundle[1]
       IN IF ~ValidateInputAssociations(b) THEN Fail(p, "ASSOCIATIONS")
          ELSE IF ~NewRunId(b.record.run) THEN Fail(p, "EXISTS")
          ELSE proc' = [proc EXCEPT ![p].pc = "create"]
    /\ UNCHANGED <<oracle, disk, meant, starts, replays, faults>>

\* CreateDirectory fails for a directory that is there.
CreateDirectory(p) ==
    /\ proc[p].pc = "create"
    /\ LET dir == Progress(proc[p].bundle[1].record.run)
       IN IF dir \in DOMAIN disk
          THEN Fail(p, "EXISTS") /\ disk' = disk
          ELSE /\ disk' = Put(disk, dir, <<>>)
               /\ proc' = [proc EXCEPT ![p].pc = "write"]
    /\ UNCHANGED <<oracle, meant, starts, replays, faults>>

\* WriteVerified: the file is written, closed and read back.
WriteVerified(p) ==
    /\ proc[p].pc = "write"
    /\ LET dir == Progress(proc[p].bundle[1].record.run)
           file == Head(proc[p].left)
       IN disk' = [disk EXCEPT ![dir] = Put(@, file[1], file[2])]
    /\ proc' = [proc EXCEPT ![p].left = Tail(@),
                            ![p].pc = IF Len(proc[p].left) = 1 THEN "review" ELSE "write"]
    /\ UNCHANGED <<oracle, meant, starts, replays, faults>>

\* The preflight: the writer loads what it wrote.
Preflight(p) ==
    /\ proc[p].pc = "review"
    /\ IF Readable(Progress(proc[p].bundle[1].record.run))
       THEN proc' = [proc EXCEPT ![p].pc = "publish"]
       ELSE Fail(p, "PREFLIGHT")
    /\ UNCHANGED <<oracle, disk, meant, starts, replays, faults>>

\* BindExecution and SelectProcessExit after a publication.
IsInternal(record) ==
    \/ record.execution.terminal.status \in {"STRUCTURAL_ERROR", "LAB_RESULT_FAILED"}
    \/ record.execution.main \in {"INTERNAL_ERROR", "FINAL_REVIEW_FAILED"}

ExecutionExit(record) ==
    LET status == record.execution.terminal.status
    IN IF status = "PREPARATION_FAILED"
       THEN IF record.execution.preparation \in {"CONFIG_INVALID", "SCHEMA_UNSUPPORTED"}
            THEN 4 ELSE 5
       ELSE IF IsInternal(record) THEN 10
       ELSE IF status \in {"STRUCTURAL_REJECTED", "CODEC_ERROR"} THEN 5
       ELSE 0

\* Mutant: an expectation that is met hides the difference.
SelectProcessExit_ExpectedOnly(record, expect) ==
    LET execution == ExecutionExit(record)
    IN IF execution = 10 THEN 10
       ELSE IF expect # Null /\ record.execution.main # Null
       THEN IF expect = record.execution.main THEN 0 ELSE 5
       ELSE IF execution = 0 /\ record.comparison = "DIFFERENT" THEN 6 ELSE execution

SelectProcessExit(record, expect) ==
    LET execution == ExecutionExit(record)
        selected == IF expect = Null \/ record.execution.main = Null THEN execution
                    ELSE IF expect # record.execution.main THEN 5
                    ELSE IF execution = 5 THEN 0 ELSE execution
    IN IF execution = 10 THEN 10
       ELSE IF selected = 0 /\ record.comparison = "DIFFERENT" THEN 6
       ELSE selected

\* Mutant: the rename replaces a directory that is there.
Publish_Replaces(p) ==
    /\ proc[p].pc = "publish"
    /\ LET record == proc[p].bundle[1].record
           from == Progress(record.run)
       IN /\ disk' = Put(OnlyAt(disk, DOMAIN disk \ {from}), Final(record.run), disk[from])
          /\ proc' = [proc EXCEPT ![p].pc = "done",
                                  ![p].exit = SelectProcessExit(record, proc[p].expect)]
    /\ UNCHANGED <<oracle, meant, starts, replays, faults>>

\* Rename: the directory of another run with the same name is never replaced.
Publish(p) ==
    /\ proc[p].pc = "publish"
    /\ LET record == proc[p].bundle[1].record
           from == Progress(record.run)
           to == Final(record.run)
       IN IF to \in DOMAIN disk
          THEN Fail(p, "RENAME") /\ disk' = disk
          ELSE /\ disk' = Put(OnlyAt(disk, DOMAIN disk \ {from}), to, disk[from])
               /\ proc' = [proc EXCEPT ![p].pc = "done",
                                       ![p].exit = SelectProcessExit(record, proc[p].expect)]
    /\ UNCHANGED <<oracle, meant, starts, replays, faults>>

\* The process ends; the next command line takes its place.
Finish(p) ==
    /\ proc[p].pc = "done"
    /\ proc' = [proc EXCEPT ![p] = IdleProcess]
    /\ UNCHANGED <<oracle, disk, meant, starts, replays, faults>>

\* A file operation fails, or what is read back differs: the process answers 7
\* and leaves the directory as it is.
IoFails(p) ==
    /\ faults < MaxFaults
    /\ faults' = faults + 1
    /\ proc[p].pc \in {"check", "create", "write", "review", "publish"}
    /\ Fail(p, "IO")
    /\ UNCHANGED <<oracle, disk, meant, starts, replays>>

\* What a write that was cut off leaves of a file among the others: nothing, an
\* unreadable beginning, or, of the manifest, a readable beginning.
Torn(files, file) ==
    {files, Put(files, file[1], Garbage)}
    \cup (IF file[1] = ManifestFile
          THEN {Put(files, ManifestFile, OnlyAt(file[2], DOMAIN file[2] \ {path})) :
                   path \in DOMAIN file[2]}
          ELSE {})

\* The process dies, possibly inside a write.
Crash(p) ==
    /\ faults < MaxFaults
    /\ faults' = faults + 1
    /\ proc[p].pc \notin {"idle", "done"}
    /\ IF proc[p].pc = "write"
       THEN LET dir == Progress(proc[p].bundle[1].record.run)
            IN \E torn \in Torn(disk[dir], Head(proc[p].left)) :
                   disk' = [disk EXCEPT ![dir] = torn]
       ELSE disk' = disk
    /\ proc' = [proc EXCEPT ![p] = IdleProcess]
    /\ UNCHANGED <<oracle, meant, starts, replays>>

\* A stored file is damaged, removed or added, or a directory is copied under
\* the name of another run.
Damage(dir) ==
    /\ faults < MaxFaults
    /\ faults' = faults + 1
    /\ \/ \E path \in DOMAIN disk[dir] :
             disk' = [disk EXCEPT ![dir] = Put(@, path, Garbage)]
       \/ \E path \in DOMAIN disk[dir] :
             disk' = [disk EXCEPT ![dir] = OnlyAt(@, DOMAIN @ \ {path})]
       \/ disk' = [disk EXCEPT ![dir] = Put(@, <<"extra", "">>, Garbage)]
       \/ \E run \in RunIds \ {dir[1]} :
             NewRunId(run) /\ disk' = Put(disk, Final(run), disk[dir])
    /\ UNCHANGED <<proc, oracle, meant, starts, replays>>

\* A process that has executed carries its bundle to the final directory.
FileStep(p) ==
    \/ CheckDestination(p) \/ CreateDirectory(p) \/ WriteVerified(p)
    \/ Preflight(p) \/ Publish(p) \/ Finish(p)

Fault == (\E p \in Processes : IoFails(p) \/ Crash(p)) \/ (\E dir \in DOMAIN disk : Damage(dir))

RunStep(p) ==
    \/ \E run \in RunIds, op \in Operations, config \in Configs,
          values \in {<<>>} \cup ValuesTexts, tool \in Tools, expect \in Expectations :
          Start(p, run, op, config, values, tool, expect)
    \/ \E run \in RunIds, dir \in DOMAIN disk, tool \in Tools, expect \in Expectations :
          StartReplay(p, run, dir, tool, expect)
    \/ Execute(p, StructuralAnswers, MainAnswers, ReviewAnswers)
    \/ FileStep(p)

Next == (\E p \in Processes : RunStep(p)) \/ Fault

Spec == Init /\ [][Next]_vars

-----------------------------------------------------------------------------
(* Properties. *)

\* Every process is at a known place, the record root holds only directories of
\* known runs.
TypeOK ==
    /\ \A p \in Processes :
          /\ proc[p].pc \in {"idle", "execute", "check", "create", "write",
                             "review", "publish", "done"}
          /\ proc[p].exit \in {0, 3, 4, 5, 6, 7, 10}
          /\ (proc[p].pc \in {"write"}) => proc[p].left # <<>>
    /\ DOMAIN disk \subseteq RunIds \X {"FINAL", "INPROGRESS"}
    /\ \A m \in meant : m.run \in RunIds

\* The writer never refuses its own output: ValidateInputAssociations accepts
\* every bundle that BuildBundle makes, and the preflight every bundle that was
\* written completely.  Every outcome of the execution can be recorded.
WriterAcceptsOwnOutput ==
    \A p \in Processes :
       proc[p].error = "ASSOCIATIONS" \/ proc[p].error = "PREFLIGHT" => faults > 0

\* A directory that the reader accepts, at any moment and under any name, is a
\* complete bundle that one process set out to write for the run it is named
\* after: no half-written, mixed or damaged directory is accepted.
AcceptedIsComplete ==
    \A dir \in DOMAIN disk : Readable(dir) => [run |-> dir[1], files |-> disk[dir]] \in meant

\* As long as nothing was damaged, every published bundle is accepted, and if it
\* has a result it qualifies for replay and comparison.
PublishedQualifies ==
    faults = 0 =>
       \A dir \in DOMAIN disk : dir[2] = "FINAL" =>
          /\ Readable(dir)
          /\ StoredRecord(disk[dir]).facts.result => QualifyRunEvidence(disk[dir])

\* A replay by the tool that made the parent repeats the stored result: it
\* records EQUAL, whatever pipelines the first run had to ask.
ReplayRepeats ==
    replays > 0 => \A d \in DOMAIN disk : d[2] = "FINAL" /\ Readable(d) =>
       LET record == StoredRecord(disk[d]).facts
       IN /\ record.invocation = "REPLAY"
          /\ record.baseline[1].parent.facts.tool = record.tool
          => record.comparison = "EQUAL"

\* compare, given a replay and its parent, says what the replay recorded.
CompareAgrees ==
    replays > 0 => \A d \in DOMAIN disk :
       Readable(d) /\ StoredRecord(disk[d]).facts.invocation = "REPLAY" =>
          \A e \in DOMAIN disk :
             /\ StoredRecord(disk[d]).facts.parent = e[1] /\ Readable(e)
             /\ QualifyRunEvidence(disk[d]) /\ QualifyRunEvidence(disk[e])
             => CompareRunEvidence(disk[d], disk[e]) = StoredRecord(disk[d]).facts.comparison

\* A process that ends with 0 has published: the final directory is there, and
\* it records the success or the failure that was expected, and no difference.
ExitZeroMeansPublished ==
    \A p \in Processes :
       proc[p].pc = "done" /\ proc[p].exit = 0 =>
          LET record == proc[p].bundle[1].record
          IN /\ Final(record.run) \in DOMAIN disk
             /\ faults = 0 => disk[Final(record.run)] = ToFiles(BundleFiles(proc[p].bundle[1]))
             /\ record.comparison # "DIFFERENT"
             /\ \/ record.execution.terminal.status = "OK" /\ proc[p].expect \in {Null, "OK"}
                \/ proc[p].expect = record.execution.main

\* What runs, replays and comparisons say is true, of others and of themselves.
EvidenceTruthful ==
    /\ WriterAcceptsOwnOutput /\ PublishedQualifies
    /\ ReplayRepeats /\ CompareAgrees
    /\ ExitZeroMeansPublished

\* Publication is final: only damage changes a published bundle.
PublishedImmutable ==
    [][\A dir \in DOMAIN disk :
          dir[2] = "FINAL" =>
             \/ dir \in DOMAIN disk' /\ disk'[dir] = disk[dir]
             \/ proc' = proc /\ faults' # faults]_vars
=============================================================================
