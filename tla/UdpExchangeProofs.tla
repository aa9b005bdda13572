-------------------------- MODULE UdpExchangeProofs --------------------------
(***************************************************************************)
(* Theorems about the older commands, for any number of runs, commands,    *)
(* datagrams and faults: what was sent is on disk, a bundle that is        *)
(* accepted is the one that was written, and what a bundle says of the     *)
(* wire is what happened there.  The invariant follows each run directory  *)
(* with its history, and the one process through the phases in which it    *)
(* fills a directory.                                                      *)
(***************************************************************************)
EXTENDS UdpExchange, TLAPS

IsFunction(f) == f = [x \in DOMAIN f |-> f[x]]
Members(seq) == {seq[i] : i \in DOMAIN seq}

-----------------------------------------------------------------------------
(***************************************************************************)
(* Paths.                                                                  *)
(***************************************************************************)

RequestFiles == {ConfigPath, ValuesPath, Binary(TxStem), Hex(TxStem)}
DataPaths == RequestFiles \cup {Binary(FrameStem), Hex(FrameStem), Binary(RxStem), Hex(RxStem),
                                MetaPath}
SummaryPaths == {ResultPath(g) : g \in Formats} \cup {EventsPath(g) : g \in Formats}
                  \cup {RecordPath(g) : g \in Formats} \cup {CompletePath, SumsPath}

LEMMA PathFacts ==
    /\ SumsPath \notin DataPaths /\ \A g \in Formats : ResultPath(g) \notin DataPaths
    /\ \A g \in Formats : /\ ResultPath(g) # SumsPath /\ EventsPath(g) # SumsPath
                          /\ RecordPath(g) # SumsPath
    /\ CompletePath # SumsPath
    /\ \A g, k \in Formats : ResultPath(g) # EventsPath(k) /\ ResultPath(g) # RecordPath(k)
                             /\ (ResultPath(g) = ResultPath(k) => g = k)
    /\ \A g \in Formats : ResultPath(g) # CompletePath
  BY DEF DataPaths, RequestFiles, ConfigPath, ValuesPath, Binary, Hex, TxStem, RxStem, FrameStem,
     MetaPath, SumsPath, CompletePath, ResultPath, EventsPath, RecordPath

\* An unfinished file is none of the files of a bundle.
LEMMA TemporaryPath ==
    ASSUME NEW path
    PROVE  /\ Temporary(path) # SumsPath
           /\ \A g : Temporary(path) # ResultPath(g)
<1>1. /\ DOMAIN Temporary(path) = 1..3 /\ DOMAIN SumsPath = 1..2
      /\ \A g : DOMAIN ResultPath(g) = 1..2
  BY DEF Temporary, SumsPath, ResultPath
<1>2. 1..3 # 1..2
  <2>1. 3 \in 1..3 /\ 3 \notin 1..2
    OBVIOUS
  <2> QED
    BY <2>1
<1> QED
  BY <1>1, <1>2

LEMMA FormatFacts == ASSUME NEW r PROVE FormatOf(r) \in Formats
  BY DEF FormatOf, Formats

\* The files of a summary are pairwise what they are called.
LEMMA SummaryFacts ==
    ASSUME NEW r
    PROVE  /\ SummaryFiles(r) \in Seq(SummaryPaths) /\ Len(SummaryFiles(r)) = 5
           /\ SummaryFiles(r)[1] = ResultPath(FormatOf(r))
           /\ SummaryFiles(r)[2] = EventsPath(FormatOf(r))
           /\ SummaryFiles(r)[3] = RecordPath(FormatOf(r))
           /\ SummaryFiles(r)[4] = CompletePath
           /\ SummaryFiles(r)[5] = SumsPath
<1> DEFINE a == ResultPath(FormatOf(r))
           b == EventsPath(FormatOf(r))
           c == RecordPath(FormatOf(r))
<1>1. a \in SummaryPaths /\ b \in SummaryPaths /\ c \in SummaryPaths
      /\ CompletePath \in SummaryPaths /\ SumsPath \in SummaryPaths
  BY FormatFacts DEF SummaryPaths
<1>2. SummaryFiles(r) = <<a, b, c, CompletePath, SumsPath>>
  BY DEF SummaryFiles
<1> HIDE DEF a, b, c
<1>3. SummaryFiles(r) \in Seq(SummaryPaths) /\ Len(SummaryFiles(r)) = 5
  BY <1>1, <1>2
<1> QED
  BY <1>2, <1>3 DEF a, b, c

\* The manifest lists what is there.
LEMMA SumsContent ==
    ASSUME NEW c, NEW v, NEW r, NEW log, NEW files
    PROVE  Content(SumsPath, c, v, r, log, files) = [p \in DOMAIN files |-> Digest(files[p])]
<1>1. /\ SumsPath # ConfigPath /\ SumsPath # ValuesPath /\ SumsPath # Binary(TxStem)
      /\ SumsPath # Hex(TxStem) /\ SumsPath # Binary(RxStem) /\ SumsPath # Hex(RxStem)
      /\ SumsPath # MetaPath /\ SumsPath # Binary(FrameStem) /\ SumsPath # Hex(FrameStem)
  BY PathFacts DEF DataPaths, RequestFiles
<1>2. /\ SumsPath # ResultPath(FormatOf(r)) /\ SumsPath # EventsPath(FormatOf(r))
      /\ SumsPath # RecordPath(FormatOf(r)) /\ SumsPath # CompletePath
  BY PathFacts, FormatFacts
<1> QED
  BY <1>1, <1>2 DEF Content

LEMMA ResultContent ==
    ASSUME NEW c, NEW v, NEW r, NEW log, NEW files
    PROVE  Content(ResultPath(FormatOf(r)), c, v, r, log, files) = SerializeResult(r)
<1> DEFINE path == ResultPath(FormatOf(r))
<1>1. /\ path # ConfigPath /\ path # ValuesPath /\ path # Binary(TxStem)
      /\ path # Hex(TxStem) /\ path # Binary(RxStem) /\ path # Hex(RxStem)
      /\ path # MetaPath /\ path # Binary(FrameStem) /\ path # Hex(FrameStem)
  BY PathFacts, FormatFacts DEF DataPaths, RequestFiles
<1>2. /\ path # EventsPath(FormatOf(r)) /\ path # RecordPath(FormatOf(r))
      /\ path # CompletePath /\ path # SumsPath
  BY PathFacts, FormatFacts
<1> HIDE DEF path
<1>3. path = ResultPath(FormatOf(r))
  BY DEF path
<1>4. Content(path, c, v, r, log, files) = SerializeResult(r)
  BY <1>1, <1>2, <1>3 DEF Content
<1> QED
  BY <1>3, <1>4

-----------------------------------------------------------------------------
(***************************************************************************)
(* The invariant, of the state in its parts: a run directory d, what was   *)
(* in it when its last file was written, how many datagrams were sent for  *)
(* it and which one was taken.                                             *)
(***************************************************************************)

Working == {"writing", "open", "send", "wait", "receiving", "judge", "completing"}
InExchange == {"open", "send", "wait", "receiving", "judge"}

\* A result says what happened on the wire so far.
Truth(r, s, h) ==
    /\ DOMAIN r = DOMAIN NewResult
    /\ r.send_succeeded = (s = 1)
    /\ r.response_received = (h # <<>>)
    /\ h # <<>> => r.received_from = h[1].from /\ r.rx_frame = h[1].frame

\* Files with a manifest that lists all of them.
Whole(files) ==
    /\ IsFunction(files) /\ SumsPath \in DOMAIN files
    /\ files[SumsPath] = [p \in DOMAIN files \ {SumsPath} |-> Digest(files[p])]

\* Files with one summary that says what happened on the wire.
Told(files, s, h) ==
    \E g \in Formats :
       /\ Summaries(files) = {g}
       /\ LET run == files[ResultPath(g)]
          IN /\ DOMAIN run = DOMAIN SerializeResult(NewResult)
             /\ run.send_succeeded = (s = 1)
             /\ run.response_received = (h # <<>>)
             /\ h # <<>> => run.received_from = h[1].from /\ run.rx_hex = HexUpper(h[1].frame)

\* A run directory, whether its process goes on, died or has published.
Stored(d, whole, s, h) ==
    /\ d = [state |-> d.state, files |-> d.files] /\ IsFunction(d.files)
    /\ d.state \in {"absent", "inprogress", "final"}
    /\ s \in {0, 1}
    /\ d.state = "absent" => s = 0 /\ h = <<>> /\ d.files = NoFiles
    /\ d.state = "inprogress" /\ s = 1 => RequestFiles \subseteq DOMAIN d.files
    /\ d.state = "final" => /\ Whole(whole) /\ Told(whole, s, h)
                            /\ s = 1 => RequestFiles \subseteq DOMAIN whole
    /\ SumsPath \in DOMAIN d.files =>
          \/ d.files[SumsPath] = Garbage
          \/ Whole(whole) /\ d.files[SumsPath] = whole[SumsPath]

AllStored ==
    /\ DOMAIN disk = RunIds /\ DOMAIN intact = RunIds
    /\ DOMAIN sent = RunIds /\ DOMAIN heard = RunIds
    /\ \A id \in RunIds : Stored(disk[id], intact[id], sent[id], heard[id])

\* The summary is there, and no other.
OnlySummary(files, r) ==
    /\ \A g \in Formats : ResultPath(g) \in DOMAIN files <=> g = FormatOf(r)
    /\ files[ResultPath(FormatOf(r))] = SerializeResult(r)

NoSummary(files) == \A g \in Formats : ResultPath(g) \notin DOMAIN files

\* Complete has written the first of its five files, up to those in td.
Completing(r, td, files, whole) ==
    /\ td \in Seq(SummaryPaths) /\ Len(td) <= 5
    /\ \A i \in 1..Len(td) : td[i] = SummaryFiles(r)[5 - Len(td) + i]
    /\ IF Len(td) = 5 THEN NoSummary(files) ELSE OnlySummary(files, r)
    /\ IF Len(td) = 0 THEN whole = files /\ Whole(files) ELSE SumsPath \notin DOMAIN files

\* The process between the start of its transaction and its end.
Prepared ==
    /\ Truth(res, 0, <<>>) /\ todo \in Seq(DataPaths)
    /\ cmd.command = "udp-exchange" => RequestFiles \subseteq Members(todo)

Writes(d, s, h) ==
    /\ d.state = "inprogress" /\ Truth(res, s, h)
    /\ pc # "completing" => /\ todo \in Seq(DataPaths)
                            /\ NoSummary(d.files) /\ SumsPath \notin DOMAIN d.files
    /\ pc \in {"writing", "open", "send"} => s = 0
    /\ pc \in {"writing", "open", "send", "wait"} => h = <<>>
    /\ pc = "writing" /\ cmd.command = "udp-exchange" =>
          RequestFiles \subseteq DOMAIN d.files \cup Members(todo)
    /\ pc \in InExchange => RequestFiles \subseteq DOMAIN d.files
    /\ pc = "receiving" => response = "OK"
    /\ pc \in {"receiving", "judge"} /\ response = "OK" => h # <<>>
    /\ pc = "completing" => Completing(res, todo, d.files, intact[dir])

ProcInv ==
    /\ pc \in {"idle", "begin"} \cup Working
    /\ pc = "begin" => Prepared
    /\ pc \in Working => dir \in RunIds /\ Writes(disk[dir], sent[dir], heard[dir])

IInv == AllStored /\ ProcInv

-----------------------------------------------------------------------------
(***************************************************************************)
(* Results.  Most of what the commands compute has no part in what is said *)
(* of the wire: they start from a result that says nothing.                *)
(***************************************************************************)

WireFields == {"send_succeeded", "response_received", "received_from", "rx_frame"}
IsResult(r) == DOMAIN r = DOMAIN NewResult
Quiet(r) == IsResult(r) /\ r.send_succeeded = FALSE /\ r.response_received = FALSE

LEMMA ResultFields ==
    WireFields \cup {"schema", "operation_kind", "command", "fingerprint", "exit_code", "frame"}
        \subseteq DOMAIN NewResult
  BY DEF NewResult, WireFields

LEMMA QuietNew == Quiet(NewResult)
  BY DEF NewResult, Quiet, IsResult

LEMMA QuietIsTruth == ASSUME NEW r, Quiet(r) PROVE Truth(r, 0, <<>>)
<1>1. (0 = 1) = FALSE /\ (<<>> # <<>>) = FALSE
  OBVIOUS
<1>2. r.send_succeeded = (0 = 1)
  BY <1>1, Zenon DEF Quiet
<1>3. r.response_received = (<<>> # <<>>)
  BY <1>1, Zenon DEF Quiet
<1>4. DOMAIN r = DOMAIN NewResult
  BY DEF Quiet, IsResult
<1> QED
  BY <1>1, <1>2, <1>3, <1>4, Zenon DEF Truth

\* Two results that say the same of the wire.
Agrees(a, b) ==
    /\ IsResult(a) /\ IsResult(b)
    /\ a.send_succeeded = b.send_succeeded /\ a.response_received = b.response_received
    /\ a.received_from = b.received_from /\ a.rx_frame = b.rx_frame

LEMMA AgreesTruth ==
    ASSUME NEW a, NEW b, Agrees(a, b), NEW s, NEW h, Truth(b, s, h)
    PROVE  Truth(a, s, h)
  BY DEF Agrees, IsResult, Truth

LEMMA AgreesQuiet == ASSUME NEW a, NEW b, Agrees(a, b), Quiet(b) PROVE Quiet(a)
  BY DEF Agrees, Quiet

\* The helpers that touch other fields.
LEMMA Untouched ==
    ASSUME NEW r, IsResult(r)
    PROVE  /\ \A status, diagnostic : Agrees(Failed(r, status, diagnostic), r)
           /\ \A mode, subject : Agrees(Executed(r, mode, subject), r)
           /\ \A subject : Agrees(NotExecuted(r, subject), r)
           /\ Agrees(FinalizeFingerprint(r), r)
           /\ \A code : Agrees([r EXCEPT !.exit_code = code], r)
           /\ Agrees(NotCompared(r), r)
           /\ \A kind, c : Agrees(BindCompiledPlan(c, kind, r), r)
           /\ \A equal : Agrees(WithComparison(r, equal), r)
           /\ \A c, mode, subject : Agrees(Recorded(c, r, mode, subject), r)
           /\ \A c, f : Agrees(Inspected(c, f, r), r)
           /\ \A stored : Agrees(PreserveHistoricalTransport(stored, r), r)
<1>1. WireFields \subseteq DOMAIN r
  BY ResultFields DEF IsResult
<1>2. /\ "send_succeeded" \in DOMAIN r /\ "response_received" \in DOMAIN r
      /\ "received_from" \in DOMAIN r /\ "rx_frame" \in DOMAIN r
  BY <1>1 DEF WireFields
<1>3. \A status, diagnostic : Agrees(Failed(r, status, diagnostic), r)
  BY <1>2 DEF Failed, Agrees, IsResult
<1>4. \A mode, subject : Agrees(Executed(r, mode, subject), r)
  BY <1>2 DEF Executed, Agrees, IsResult
<1>5. \A subject : Agrees(NotExecuted(r, subject), r)
  BY <1>2 DEF NotExecuted, Agrees, IsResult
<1>6. Agrees(FinalizeFingerprint(r), r)
  BY <1>2 DEF FinalizeFingerprint, Agrees, IsResult
<1>7. \A code : Agrees([r EXCEPT !.exit_code = code], r)
  BY <1>2 DEF Agrees, IsResult
<1>8. Agrees(NotCompared(r), r)
  BY <1>2 DEF NotCompared, Agrees, IsResult
<1>9. \A kind, c : Agrees(BindCompiledPlan(c, kind, r), r)
  BY <1>2 DEF BindCompiledPlan, Agrees, IsResult
<1>10. \A equal : Agrees(WithComparison(r, equal), r)
  BY <1>2 DEF WithComparison, Agrees, IsResult
<1>11. \A c, mode, subject : Agrees(Recorded(c, r, mode, subject), r)
  BY <1>4 DEF Recorded, Agrees
<1>12. \A c, f : Agrees(Inspected(c, f, r), r)
  BY <1>2 DEF Inspected, Agrees, IsResult
<1>13. \A stored : Agrees(PreserveHistoricalTransport(stored, r), r)
  BY <1>2 DEF PreserveHistoricalTransport, Agrees, IsResult
<1> QED
  BY <1>3, <1>4, <1>5, <1>6, <1>7, <1>8, <1>9, <1>10, <1>11, <1>12, <1>13

\* What is read off a result that is replaced field by field.
LEMMA QuietSteps ==
    ASSUME NEW r, Quiet(r)
    PROVE  /\ \A status, diagnostic : Quiet(Failed(r, status, diagnostic))
           /\ \A mode, subject : Quiet(Executed(r, mode, subject))
           /\ \A subject : Quiet(NotExecuted(r, subject))
           /\ Quiet(FinalizeFingerprint(r))
           /\ \A code : Quiet([r EXCEPT !.exit_code = code])
           /\ Quiet(NotCompared(r))
           /\ \A kind, c : Quiet(BindCompiledPlan(c, kind, r))
           /\ \A equal : Quiet(WithComparison(r, equal))
           /\ \A c, mode, subject : Quiet(Recorded(c, r, mode, subject))
           /\ \A c, f : Quiet(Inspected(c, f, r))
           /\ \A stored : Quiet(PreserveHistoricalTransport(stored, r))
<1>1. IsResult(r)
  BY DEF Quiet
<1> QED
  BY <1>1, Untouched, AgreesQuiet

LEMMA QuietPostPlan ==
    ASSUME NEW r, NEW mode, NEW subject, Quiet(r)
    PROVE  Quiet(FinalizePostPlanFailure(r, mode, subject))
<1>1. Quiet(NotExecuted(r, subject)) /\ Quiet(Executed(r, mode, subject))
  BY QuietSteps
<1>2. Quiet(FinalizeFingerprint(NotCompared(NotExecuted(r, subject))))
      /\ Quiet(FinalizeFingerprint(NotCompared(Executed(r, mode, subject))))
  BY <1>1, QuietSteps
<1>3. FinalizePostPlanFailure(r, mode, subject) \in
         {r, FinalizeFingerprint(NotCompared(NotExecuted(r, subject))),
          FinalizeFingerprint(NotCompared(Executed(r, mode, subject)))}
  BY DEF FinalizePostPlanFailure
<1> QED
  BY <1>2, <1>3

\* Fields that say nothing of the wire.
LEMMA QuietFields ==
    ASSUME NEW r, Quiet(r)
    PROVE  /\ \A x : Quiet([r EXCEPT !.status = x]) /\ Quiet([r EXCEPT !.frame = x])
                     /\ Quiet([r EXCEPT !.command = x])
           /\ \A x, y : Quiet([r EXCEPT !.pipeline = x, !.frame = y])
           /\ \A x, y : Quiet([r EXCEPT !.pipeline = x, !.message = y])
           /\ \A x, y : Quiet([r EXCEPT !.command = x, !.config = y])
           /\ \A x, y, z : Quiet([r EXCEPT !.pipeline = x, !.status = y, !.message = z])
           /\ \A x, y, z : Quiet([r EXCEPT !.status = x, !.message = y, !.fields = z])
           /\ \A x, y, z : Quiet([r EXCEPT !.status = x, !.frame = y, !.fields = z])
<1>1. "send_succeeded" \in DOMAIN r /\ "response_received" \in DOMAIN r
  BY ResultFields DEF Quiet, IsResult, WireFields
<1> QED
  BY <1>1 DEF Quiet, IsResult

LEMMA QuietBound == ASSUME NEW c, NEW kind PROVE Quiet(BindCompiledPlan(c, kind, NewResult))
  BY QuietNew, QuietSteps

LEMMA QuietInspect == ASSUME NEW c, NEW f PROVE Quiet(InspectFrame(c, f))
<1> DEFINE plan == PlanOf(c)
           base == [BindCompiledPlan(c, "inspect", NewResult) EXCEPT !.frame = f]
           r == IF plan.schema \in {"0.3", "0.4"}
                THEN MatchedIn(plan, Structural(plan, f), f, base)
                ELSE DecodedIn(plan, Decoded(plan, f), f, base)
<1>1. Quiet(base)
  BY QuietBound, QuietFields
<1> HIDE DEF base
<1>2. \A i, s : Quiet(In(plan, i, f, s, base))
  BY <1>1, QuietFields DEF In
<1>3. Quiet(MatchedIn(plan, Structural(plan, f), f, base))
  BY <1>1, <1>2, QuietFields DEF MatchedIn
<1>4. Quiet(DecodedIn(plan, Decoded(plan, f), f, base))
  BY <1>1, <1>2, QuietFields DEF DecodedIn
<1>5. Quiet(r)
  BY <1>3, <1>4
<1> HIDE DEF r
<1>6. Quiet(Inspected(c, f, r))
  BY <1>5, QuietSteps
<1>7. Quiet(Recorded(c, Inspected(c, f, r), "DECODE_RX", "RX"))
  BY <1>6, QuietSteps
<1> QED
  BY <1>7 DEF InspectFrame, r, base

LEMMA QuietInPipeline ==
    ASSUME NEW c, NEW p, NEW f
    PROVE  Quiet(InspectFrameInPipeline(c, p, f))
<1> DEFINE base == [BindCompiledPlan(c, "inspect", NewResult) EXCEPT !.pipeline = p, !.frame = f]
           out == PlanOf(c).decode[p][f]
<1>1. Quiet(base)
  BY QuietBound, QuietFields
<1> HIDE DEF base
<1>2. \A status, diagnostic : Quiet(Failed(base, status, diagnostic))
  BY <1>1, QuietSteps
<1>3. Quiet(DecodedAs(c, p, f, out, base))
  BY <1>1, <1>2, QuietFields DEF DecodedAs
<1>4. Quiet(Recorded(c, DecodedAs(c, p, f, out, base), "DECODE_RX", "RX"))
  BY <1>3, QuietSteps
<1> QED
  BY <1>2, <1>4 DEF InspectFrameInPipeline, base

LEMMA QuietEncode == ASSUME NEW c, NEW text PROVE Quiet(EncodeValues(c, text))
<1> DEFINE base == [BindCompiledPlan(c, "encode", NewResult) EXCEPT
                      !.pipeline = text[1].pipeline, !.message = text[1].message]
           v == text[1]
<1>1. Quiet(base)
  BY QuietBound, QuietFields
<1> HIDE DEF base, v
<1>2. \A status, diagnostic : Quiet(Failed(base, status, diagnostic))
  BY <1>1, QuietSteps
<1>3. \A why : Quiet(Refused(base, why))
  BY <1>2 DEF Refused
<1>4. \A message, fields, bad : Quiet(FirstRejected(base, message, fields, bad))
  BY <1>3 DEF FirstRejected
<1>5. \A out, review : Quiet(Reviewed(c, v, out, review, base))
  BY <1>1, <1>2, QuietFields DEF Reviewed
<1>6. Quiet(EncodedAs(c, v, text, base))
  BY <1>2, <1>4, <1>5 DEF EncodedAs
<1>7. Quiet(Recorded(c, EncodedAs(c, v, text, base), "ENCODE_TX", "TX"))
  BY <1>6, QuietSteps
<1> QED
  BY <1>7 DEF EncodeValues, base, v

\* What inspect and encode answer, and what a replay answers, is quiet: they
\* have no socket.
LEMMA QuietOutcome ==
    ASSUME NEW r, Quiet(r)
    PROVE  \A code, v, record, root : Quiet(Outcome(r, code, v, record, root).res)
<1> SUFFICES ASSUME NEW code, NEW v, NEW record, NEW root
             PROVE  Quiet(Outcome(r, code, v, record, root).res)
  OBVIOUS
<1>1. Outcome(r, code, v, record, root).res = r
  BY DEF Outcome
<1> QED
  BY <1>1, Zenon

LEMMA QuietWithinLimit ==
    ASSUME NEW c, NEW f, NEW r, Quiet(r)
    PROVE  Quiet(InspectWithinPlanLimit(c, f, r))
<1>1. Quiet([r EXCEPT !.frame = f])
  BY QuietFields
<1>2. Quiet(Failed([r EXCEPT !.frame = f], "INPUT_ERROR", "FRAME_LIMIT_EXCEEDED"))
  BY <1>1, QuietSteps
<1> QED
  BY <1>2, QuietPostPlan, QuietInspect DEF InspectWithinPlanLimit

LEMMA QuietOffline == ASSUME NEW a PROVE Quiet(RunInspectOrEncode(a).res)
<1> DEFINE base == [NewResult EXCEPT !.command = a.command, !.config = a.config]
           bound == BindCompiledPlan(a.config, a.command, base)
           ended(r, v) == Ended(a, r, v)
<1>1. Quiet(base)
  BY QuietNew, QuietFields
<1> HIDE DEF base
<1>2. Quiet(bound)
  BY <1>1, QuietSteps
<1>3. \A status, diagnostic : Quiet(Failed(base, status, diagnostic))
  BY <1>1, QuietSteps
<1> HIDE DEF bound
<1>4. \A status, diagnostic : Quiet(Failed(bound, status, diagnostic))
  BY <1>2, QuietSteps
<1>5. \A status, diagnostic, mode, subject :
         Quiet(FinalizePostPlanFailure(Failed(bound, status, diagnostic), mode, subject))
  BY <1>4, QuietPostPlan
<1>6. ASSUME NEW r, NEW v, Quiet(r) PROVE Quiet(Ended(a, r, v).res)
  <2>1. Quiet([r EXCEPT !.command = a.command])
    BY <1>6, QuietFields
  <2>2. Quiet(FinalizeFingerprint([r EXCEPT !.command = a.command]))
    BY <2>1, QuietSteps
  <2> DEFINE full == FinalizeFingerprint([r EXCEPT !.command = a.command])
  <2>3. Quiet(full)
    BY <2>2
  <2> HIDE DEF full
  <2>4. \A code, w, record, root : Quiet(Outcome(full, code, w, record, root).res)
    BY <2>3, QuietOutcome
  <2>5. Quiet(Outcome(full, IF r.status = "OK" THEN 0 ELSE 5, v, TRUE, FALSE).res)
    BY <2>4
  <2> QED
    BY <2>5 DEF Ended, full
<1>7. Quiet(Ended(a, InspectWithinPlanLimit(a.config, a.frame, bound), <<>>).res)
  BY <1>2, <1>6, QuietWithinLimit
<1>8. Quiet(Ended(a, EncodeValues(a.config, a.values), <<a.values>>).res)
  BY <1>6, QuietEncode
<1>9. Quiet(InspectWithinPlanLimit(a.config, a.frame, bound))
  BY <1>2, QuietWithinLimit
<1> DEFINE misconfigured == Failed(base, "CONFIG_COMPILE_FAILED", "CONFIG_COMPILE_FAILED")
           unframed == FinalizePostPlanFailure(Failed(bound, "INPUT_ERROR", "FRAME_INPUT_ERROR"),
                                               "DECODE_RX", "RX")
           toolong == InspectWithinPlanLimit(a.config, a.frame, bound)
           unread == FinalizePostPlanFailure(Failed(bound, "INPUT_ERROR", "VALUES_INPUT_ERROR"),
                                             "ENCODE_TX", "TX")
           unparsed == FinalizePostPlanFailure(Failed(bound, "VALUES_INVALID", "VALUES_INVALID"),
                                               "ENCODE_TX", "TX")
           inspected == Ended(a, InspectWithinPlanLimit(a.config, a.frame, bound), <<>>)
           encoded == Ended(a, EncodeValues(a.config, a.values), <<a.values>>)
<1>10. /\ Quiet(misconfigured) /\ Quiet(unframed) /\ Quiet(toolong) /\ Quiet(unread)
       /\ Quiet(unparsed) /\ Quiet(inspected.res) /\ Quiet(encoded.res)
  BY <1>3, <1>5, <1>7, <1>8, <1>9
<1>11. \/ RunInspectOrEncode(a) = Outcome(misconfigured, 4, <<>>, TRUE, FALSE)
       \/ RunInspectOrEncode(a) = Outcome(unframed, 3, <<>>, FALSE, FALSE)
       \/ RunInspectOrEncode(a) = Outcome(toolong, 3, <<>>, TRUE, FALSE)
       \/ RunInspectOrEncode(a) = inspected
       \/ RunInspectOrEncode(a) = Outcome(unread, 3, <<>>, FALSE, FALSE)
       \/ RunInspectOrEncode(a) = Outcome(unparsed, 5, <<a.values>>, TRUE, FALSE)
       \/ RunInspectOrEncode(a) = encoded
  BY Zenon DEF RunInspectOrEncode, misconfigured, unframed, toolong, unread, unparsed, inspected,
       encoded, base, bound
<1> HIDE DEF misconfigured, unframed, toolong, unread, unparsed, inspected, encoded
<1>12. \A code, v, record, root :
         /\ Quiet(Outcome(misconfigured, code, v, record, root).res)
         /\ Quiet(Outcome(unframed, code, v, record, root).res)
         /\ Quiet(Outcome(toolong, code, v, record, root).res)
         /\ Quiet(Outcome(unread, code, v, record, root).res)
         /\ Quiet(Outcome(unparsed, code, v, record, root).res)
  BY <1>10, QuietOutcome
<1> QED
  BY <1>10, <1>11, <1>12, Zenon

LEMMA QuietReplayBase ==
    ASSUME NEW a, NEW c, NEW stored
    PROVE  Quiet(PreserveHistoricalTransport(stored, ReplayBase(a, c, stored)))
<1> DEFINE bound == BindCompiledPlan(c, stored.operation_kind, NewResult)
<1>1. Quiet(bound)
  BY QuietBound
<1> HIDE DEF bound
<1>2. "send_succeeded" \in DOMAIN bound /\ "response_received" \in DOMAIN bound
  BY <1>1, ResultFields DEF Quiet, IsResult, WireFields
<1>3. Quiet(ReplayBase(a, c, stored))
  BY <1>1, <1>2 DEF ReplayBase, bound, Quiet, IsResult
<1> QED
  BY <1>3, QuietSteps

LEMMA QuietReplayed ==
    ASSUME NEW a, NEW c, NEW stored, NEW r, NEW v, Quiet(r)
    PROVE  Quiet(Replayed(CompareReplay(a, c, stored, r), v).res)
<1> DEFINE named == [r EXCEPT !.command = "replay", !.schema = PlanOf(c).schema, !.config = c,
                              !.cross_config = a.config # ""]
           full == FinalizeFingerprint(PreserveHistoricalTransport(stored, named))
<1>1. "send_succeeded" \in DOMAIN r /\ "response_received" \in DOMAIN r
  BY ResultFields DEF Quiet, IsResult, WireFields
<1>2. Quiet(named)
  BY <1>1 DEF Quiet, IsResult
<1> HIDE DEF named
<1>3. Quiet(PreserveHistoricalTransport(stored, named))
  BY <1>2, QuietSteps
<1>4. Quiet(full)
  BY <1>3, QuietSteps
<1> HIDE DEF full
<1>5. \A equal : Quiet(WithComparison(full, equal))
  BY <1>4, QuietSteps
<1>6. Quiet(Compared(stored, full))
  BY <1>4, <1>5 DEF Compared
<1> DEFINE cmp == Compared(stored, full)
<1>7. \A code, w, record, root : Quiet(Outcome(cmp, code, w, record, root).res)
  <2> HIDE DEF cmp
  <2>1. Quiet(cmp)
    BY <1>6 DEF cmp
  <2> QED
    BY <2>1, QuietOutcome
<1>8. Quiet(Outcome(cmp, ReplayExit(cmp), v, TRUE, TRUE).res)
  BY <1>7
<1>9. CompareReplay(a, c, stored, r) = cmp
  BY Zenon DEF CompareReplay, full, named
<1> HIDE DEF cmp
<1> QED
  BY <1>8, <1>9, Zenon DEF Replayed

LEMMA QuietReplayExchange ==
    ASSUME NEW c, NEW files, NEW stored, NEW base, Quiet(base)
    PROVE  Quiet(ReplayExchange(c, files, stored, base))
<1> DEFINE uses_rx == \/ stored.replay_mode = "DECODE_RX"
                      \/ /\ stored.replay_mode = "NO_CODEC_REEXECUTION"
                         /\ stored.replay_subject \in {"RX", "RX_INCOMPLETE"}
           ParseFrameHex(hex) == IF hex = <<>> THEN EmptyFrame ELSE hex[1]
           rx == IF uses_rx THEN ParseFrameHex(stored.rx_hex) ELSE EmptyFrame
           tx == ParseFrameHex(stored.tx_hex)
           encoded == Executed(EncodeValues(c, files[ValuesPath]), "ENCODE_TX", "TX")
           decoded == DecodedAgain(InspectFrameInPipeline(c, stored.receive_pipeline, rx))
           verified == [NotExecuted(base, stored.replay_subject) EXCEPT
                          !.status = "EVIDENCE_VERIFIED", !.comparison = "NOT_EVALUATED",
                          !.frame = IF uses_rx THEN rx ELSE tx]
           r == CASE stored.replay_mode = "ENCODE_TX" -> encoded
                  [] stored.replay_mode = "DECODE_RX" -> decoded
                  [] OTHER -> verified
           done == [r EXCEPT !.operation_kind = "udp-exchange", !.frame_file = FrameStem,
                             !.tx_frame = tx, !.rx_frame = rx,
                             !.receive_pipeline = stored.receive_pipeline]
<1>1. Quiet(encoded)
  BY QuietEncode, QuietSteps
<1>2. Quiet(decoded)
  <2> DEFINE d == InspectFrameInPipeline(c, stored.receive_pipeline, rx)
  <2>1. Quiet(d)
    BY QuietInPipeline
  <2> HIDE DEF d
  <2>2. Quiet(Executed(d, "DECODE_RX", "RX"))
    BY <2>1, QuietSteps
  <2>3. Quiet(DecodedAgain(d))
    <3> DEFINE e == Executed(d, "DECODE_RX", "RX")
    <3>1. Quiet(e)
      BY <2>2
    <3> HIDE DEF e
    <3>2. "send_succeeded" \in DOMAIN e /\ "response_received" \in DOMAIN e
      BY <3>1, ResultFields DEF Quiet, IsResult, WireFields
    <3>3. Quiet([e EXCEPT !.response_decoded = (d.status = "OK")])
      BY <3>1, <3>2 DEF Quiet, IsResult
    <3> QED
      BY <3>3 DEF DecodedAgain, e
  <2> QED
    BY <2>3 DEF d
<1>3. Quiet(verified)
  <2> DEFINE e == NotExecuted(base, stored.replay_subject)
  <2>1. Quiet(e)
    BY QuietSteps
  <2> HIDE DEF e, rx, tx, uses_rx
  <2>2. "send_succeeded" \in DOMAIN e /\ "response_received" \in DOMAIN e
    BY <2>1, ResultFields DEF Quiet, IsResult, WireFields
  <2> QED
    BY <2>1, <2>2 DEF Quiet, IsResult, e
<1> HIDE DEF encoded, decoded, verified, rx, tx
<1>4. Quiet(r)
  BY <1>1, <1>2, <1>3
<1> HIDE DEF r
<1>5. "send_succeeded" \in DOMAIN r /\ "response_received" \in DOMAIN r
  BY <1>4, ResultFields DEF Quiet, IsResult, WireFields
<1>6. Quiet(done)
  BY <1>4, <1>5 DEF Quiet, IsResult
<1> QED
  BY <1>6 DEF ReplayExchange, done, r, encoded, decoded, verified, rx, tx

\* A replay, by what it starts from: the stored run, the configuration, and the result before
\* a codec is asked.
ReplayConfig(a, files) == IF a.config = "" THEN files[ConfigPath] ELSE a.config
ReplayStart(a, files) ==
    PreserveHistoricalTransport(RunOf(files), ReplayBase(a, ReplayConfig(a, files), RunOf(files)))
ReplayRefused(a, files, status, diagnostic, v) ==
    LET base == ReplayStart(a, files) IN
    Outcome(FinalizePostPlanFailure(Failed(base, status, diagnostic), base.replay_mode,
                                    base.replay_subject),
            3, v, RunOf(files).operation_kind \notin {"encode", "udp-exchange"} \/ v # <<>>, FALSE)
ReplayCompared(a, files, r, v) ==
    Replayed(CompareReplay(a, ReplayConfig(a, files), RunOf(files), r), v)
RunUnread == Failed([NewResult EXCEPT !.command = "replay"], "INPUT_ERROR", "RUN_INPUT")
RunUncompiled(c) == Failed([NewResult EXCEPT !.command = "replay", !.config = c],
                           "CONFIG_COMPILE_FAILED", "CONFIG_COMPILE_FAILED")

\* What RunReplay can answer, and which stored runs lead there.
LEMMA ReplayCases ==
    ASSUME NEW a, NEW files
    PROVE  LET out == RunReplay(a, files)
               c == ReplayConfig(a, files)
               kind == RunOf(files).operation_kind
           IN \/ out = Outcome(RunUnread, 3, <<>>, FALSE, FALSE)
              \/ out = Outcome(RunUncompiled(c), 4, <<>>, TRUE, FALSE)
              \/ /\ LoadStoredRun(files)
                 /\ \E status, diagnostic, v :
                       out = ReplayRefused(a, files, status, diagnostic, v)
              \/ /\ kind = "inspect"
                 /\ \E f, v : out = ReplayCompared(a, files,
                                      InspectWithinPlanLimit(c, f, ReplayStart(a, files)), v)
              \/ \E text, v : out = ReplayCompared(a, files, EncodeValues(c, text), v)
              \/ /\ LoadStoredRun(files) /\ kind = "udp-exchange"
                 /\ \E v : out = ReplayCompared(a, files,
                                   ReplayExchange(c, files, RunOf(files), ReplayStart(a, files)), v)
<1> DEFINE stored == RunOf(files)
           c == ReplayConfig(a, files)
           base == ReplayStart(a, files)
           refused(status, diagnostic, v) == ReplayRefused(a, files, status, diagnostic, v)
           text == IF ValuesPath \in DOMAIN files THEN <<files[ValuesPath]>> ELSE <<>>
           compared(r, v) == ReplayCompared(a, files, r, v)
           out == RunReplay(a, files)
           generation == CASE PlanOf(c).schema = "0.4" -> 5 [] PlanOf(c).schema = "0.3" -> 4
                           [] PlanOf(c).schema = "0.2" -> 3 [] OTHER -> 2
           kind == stored.operation_kind
           inspects == compared(InspectWithinPlanLimit(c, files[Binary(stored.frame_file)], base),
                                <<>>)
           encodes == IF ParseValues(text[1]) THEN compared(EncodeValues(c, text[1]), text)
                      ELSE refused("INPUT_ERROR", "REPLAY_VALUES_ERROR", text)
           exchanges == IF stored.replay_mode = "ENCODE_TX" /\ ~ParseValues(text[1])
                        THEN refused("EVIDENCE_INSUFFICIENT", "EVIDENCE_INSUFFICIENT", text)
                        ELSE compared(ReplayExchange(c, files, stored, base), text)
           unsupported == refused("INPUT_ERROR", "REPLAY_OPERATION_UNSUPPORTED", <<>>)
           crossed == refused("INPUT_ERROR", "CROSS_SCHEMA_REPLAY_UNSUPPORTED", <<>>)
           executed == CASE kind = "inspect" -> inspects
                         [] kind = "encode" -> encodes
                         [] kind = "udp-exchange" -> exchanges
                         [] OTHER -> unsupported
           anyRefused == \E status, diagnostic, v : out = refused(status, diagnostic, v)
           anyInspected == \E f, v : out = compared(InspectWithinPlanLimit(c, f, base), v)
           anyEncoded == \E x, v : out = compared(EncodeValues(c, x), v)
           anyExchanged == \E v : out = compared(ReplayExchange(c, files, stored, base), v)
<1>1. out = IF ~LoadStoredRun(files) THEN Outcome(RunUnread, 3, <<>>, FALSE, FALSE)
            ELSE IF ~Compiles(c) THEN Outcome(RunUncompiled(c), 4, <<>>, TRUE, FALSE)
            ELSE IF Generation(stored.format) # generation THEN crossed ELSE executed
  BY DEF RunReplay, ReplayConfig, ReplayStart, ReplayRefused, ReplayCompared, RunUnread,
     RunUncompiled
<1>2. /\ kind = "inspect" => executed = inspects
      /\ kind = "encode" => executed = encodes
      /\ kind = "udp-exchange" => executed = exchanges
      /\ kind \notin {"inspect", "encode", "udp-exchange"} => executed = unsupported
  <2> HIDE DEF inspects, encodes, exchanges, unsupported
  <2> QED
    OBVIOUS
<1> HIDE DEF refused, compared, out, stored, c, base, text, kind, executed, generation
<1>3. out = inspects => anyInspected
  BY Zenon
<1>4. out = encodes => anyEncoded \/ anyRefused
  BY Zenon
<1>5. out = exchanges => anyExchanged \/ anyRefused
  BY Zenon
<1>6. out = unsupported \/ out = crossed => anyRefused
  BY Zenon
<1> HIDE DEF inspects, encodes, exchanges, unsupported, crossed, anyRefused, anyInspected,
             anyEncoded, anyExchanged
<1>7. \/ out = Outcome(RunUnread, 3, <<>>, FALSE, FALSE)
      \/ out = Outcome(RunUncompiled(c), 4, <<>>, TRUE, FALSE)
      \/ LoadStoredRun(files) /\ (out = crossed \/ out = executed)
  BY <1>1, Zenon
<1>8. \/ out = Outcome(RunUnread, 3, <<>>, FALSE, FALSE)
      \/ out = Outcome(RunUncompiled(c), 4, <<>>, TRUE, FALSE)
      \/ LoadStoredRun(files) /\ anyRefused
      \/ kind = "inspect" /\ anyInspected
      \/ anyEncoded
      \/ LoadStoredRun(files) /\ kind = "udp-exchange" /\ anyExchanged
  BY <1>2, <1>3, <1>4, <1>5, <1>6, <1>7
<1> QED
  BY <1>8, Zenon DEF anyRefused, anyInspected, anyEncoded, anyExchanged, refused, compared, out,
     stored, c, base, kind

LEMMA QuietReplay == ASSUME NEW a, NEW files PROVE Quiet(RunReplay(a, files).res)
<1> DEFINE stored == RunOf(files)
           c == ReplayConfig(a, files)
           base == ReplayStart(a, files)
           compared(r, v) == ReplayCompared(a, files, r, v)
           refused(status, diagnostic, v) == ReplayRefused(a, files, status, diagnostic, v)
<1>1. Quiet(base)
  BY QuietReplayBase DEF ReplayStart
<1>2. Quiet(RunUnread) /\ Quiet(RunUncompiled(c))
  <2>1. Quiet([NewResult EXCEPT !.command = "replay"])
        /\ \A x : Quiet([NewResult EXCEPT !.command = "replay", !.config = x])
    BY QuietNew, QuietFields
  <2> QED
    BY <2>1, QuietSteps DEF RunUnread, RunUncompiled
<1> HIDE DEF base, stored, c
<1>3. ASSUME NEW status, NEW diagnostic, NEW v PROVE Quiet(refused(status, diagnostic, v).res)
  <2> DEFINE full == FinalizePostPlanFailure(Failed(base, status, diagnostic),
                                             base.replay_mode, base.replay_subject)
  <2>1. Quiet(Failed(base, status, diagnostic))
    BY <1>1, QuietSteps
  <2>2. Quiet(full)
    BY <2>1, QuietPostPlan
  <2>3. refused(status, diagnostic, v)
          = Outcome(full, 3, v,
                    RunOf(files).operation_kind \notin {"encode", "udp-exchange"} \/ v # <<>>, FALSE)
    BY DEF ReplayRefused, base
  <2> HIDE DEF full, refused
  <2> QED
    BY <2>2, <2>3, QuietOutcome
<1>4. \A r, v : Quiet(r) => Quiet(compared(r, v).res)
  BY QuietReplayed DEF ReplayCompared
<1> HIDE DEF refused, compared
<1>5. /\ \A f, v : Quiet(compared(InspectWithinPlanLimit(c, f, base), v).res)
      /\ \A text, v : Quiet(compared(EncodeValues(c, text), v).res)
      /\ \A v : Quiet(compared(ReplayExchange(c, files, stored, base), v).res)
  BY <1>1, <1>4, QuietWithinLimit, QuietEncode, QuietReplayExchange
<1>6. \A code, v, record, root :
         /\ Quiet(Outcome(RunUnread, code, v, record, root).res)
         /\ Quiet(Outcome(RunUncompiled(c), code, v, record, root).res)
  BY <1>2, QuietOutcome
<1> DEFINE out == RunReplay(a, files)
<1>7. \/ out = Outcome(RunUnread, 3, <<>>, FALSE, FALSE)
      \/ out = Outcome(RunUncompiled(c), 4, <<>>, TRUE, FALSE)
      \/ \E status, diagnostic, v : out = refused(status, diagnostic, v)
      \/ \E f, v : out = compared(InspectWithinPlanLimit(c, f, base), v)
      \/ \E text, v : out = compared(EncodeValues(c, text), v)
      \/ \E v : out = compared(ReplayExchange(c, files, stored, base), v)
  BY ReplayCases, Zenon DEF refused, compared, c, base, stored
<1> QED
  BY <1>3, <1>5, <1>6, <1>7

LEMMA AgreesTrans ==
    ASSUME NEW a, NEW b, NEW c, Agrees(a, b), Agrees(b, c)
    PROVE  Agrees(a, c)
  BY DEF Agrees

\* The result with which a transaction of an exchange begins.
LEMMA QuietPrepared == ASSUME NEW a PROVE Quiet(UdpPrepared(a))
<1> DEFINE r == Executed(EncodeValues(a.config, a.values), "ENCODE_TX", "TX")
<1>1. Quiet(r)
  BY QuietEncode, QuietSteps
<1> HIDE DEF r
<1>2. "send_succeeded" \in DOMAIN r /\ "response_received" \in DOMAIN r
  BY <1>1, ResultFields DEF Quiet, IsResult, WireFields
<1>3. Quiet(AsExchange(a, r))
  BY <1>1, <1>2 DEF AsExchange, Quiet, IsResult
<1> QED
  BY <1>3 DEF UdpPrepared, r

\* An answer keeps what the exchange wrote down of the wire.
LEMMA AnsweredAgrees ==
    ASSUME NEW r, IsResult(r), r.response_received = TRUE, NEW d, Quiet(d)
    PROVE  Agrees(Answered(r, d).res, r)
<1> DEFINE e == Executed(d, "DECODE_RX", "RX")
           full == [e EXCEPT
                !.command = "udp-exchange", !.operation_kind = "udp-exchange",
                !.frame_file = RxStem, !.transport = r.transport, !.remote = r.remote,
                !.received_from = r.received_from, !.receive_pipeline = r.receive_pipeline,
                !.tx_frame = r.tx_frame, !.rx_frame = r.rx_frame,
                !.send_attempted = r.send_attempted, !.send_succeeded = r.send_succeeded,
                !.response_received = TRUE, !.response_decoded = d.status = "OK"]
<1>1. Quiet(e)
  BY QuietSteps
<1>2. Answered(r, d).res = full
  BY DEF Answered
<1> HIDE DEF e
<1>3. IsResult(e) /\ WireFields \subseteq DOMAIN e
  BY <1>1, ResultFields DEF Quiet, IsResult
<1>4. DOMAIN full = DOMAIN e
  OBVIOUS
<1>5. full.send_succeeded = r.send_succeeded
  BY <1>3 DEF WireFields
<1>6. full.response_received = TRUE
  BY <1>3 DEF WireFields
<1>7. full.received_from = r.received_from /\ full.rx_frame = r.rx_frame
  BY <1>3 DEF WireFields
<1> HIDE DEF full
<1>8. full.response_received = r.response_received
  BY <1>6
<1>9. Agrees(full, r)
  BY <1>3, <1>4, <1>5, <1>7, <1>8 DEF Agrees, IsResult
<1> QED
  BY <1>2, <1>9

LEMMA JudgedAgrees ==
    ASSUME NEW a, NEW r, NEW status, IsResult(r), status = "OK" => r.response_received = TRUE
    PROVE  Agrees(JudgeResponse(a, r, status).res, r)
<1> DEFINE failed == Failed(r, IF status = "TIMEOUT" THEN "TIMEOUT" ELSE "TRANSPORT_FAILED", status)
           foreign == Failed(r, "TRANSPORT_FAILED", "UDP_PEER_MISMATCH")
           large == Failed(r, "TRANSPORT_FAILED", "UDP_DATAGRAM_TOO_LARGE")
           answer == InspectFrameInPipeline(a.config, a.receive_pipeline, r.rx_frame)
<1>1. Agrees(failed, r) /\ Agrees(foreign, r) /\ Agrees(large, r)
  BY Untouched
<1>2. IsResult(failed) /\ IsResult(foreign) /\ IsResult(large)
  BY <1>1 DEF Agrees
<1>3. Quiet(answer)
  BY QuietInPipeline
<1> HIDE DEF failed, foreign, large, answer
<1>4. /\ Agrees(NotExecuted(failed, "RX_INCOMPLETE"), r)
      /\ Agrees(NotExecuted(foreign, "RX"), r) /\ Agrees(NotExecuted(large, "RX"), r)
  <2>1. /\ Agrees(NotExecuted(failed, "RX_INCOMPLETE"), failed)
        /\ Agrees(NotExecuted(foreign, "RX"), foreign)
        /\ Agrees(NotExecuted(large, "RX"), large)
    BY <1>2, Untouched
  <2> QED
    BY <1>1, <2>1, AgreesTrans
<1>5. status = "OK" => Agrees(Answered(r, answer).res, r)
  BY <1>3, AnsweredAgrees
<1>6. CASE status # "OK"
  <2>1. JudgeResponse(a, r, status).res =
          IF status = "DATAGRAM_TRUNCATED" THEN NotExecuted(failed, "RX_INCOMPLETE") ELSE failed
    BY <1>6 DEF JudgeResponse, failed
  <2> QED
    BY <1>1, <1>4, <2>1
<1>7. CASE status = "OK"
  <2>1. CASE ~PeerMatches(a, r)
    <3>1. JudgeResponse(a, r, status).res = NotExecuted(foreign, "RX")
      BY <1>7, <2>1 DEF JudgeResponse, foreign
    <3> QED
      BY <1>4, <3>1
  <2>2. CASE PeerMatches(a, r) /\ FrameSize[r.rx_frame] > PlanOf(a.config).limit
    <3>1. JudgeResponse(a, r, status).res = NotExecuted(large, "RX")
      BY <1>7, <2>2 DEF JudgeResponse, large
    <3> QED
      BY <1>4, <3>1
  <2>3. CASE PeerMatches(a, r) /\ ~(FrameSize[r.rx_frame] > PlanOf(a.config).limit)
    <3>1. JudgeResponse(a, r, status) = Answered(r, answer)
      BY <1>7, <2>3 DEF JudgeResponse, answer
    <3> QED
      BY <1>5, <1>7, <3>1
  <2> QED
    BY <2>1, <2>2, <2>3
<1> QED
  BY <1>6, <1>7

-----------------------------------------------------------------------------
(***************************************************************************)
(* Files of a directory.                                                   *)
(***************************************************************************)

LEMMA PutIsFunction ==
    ASSUME NEW files, NEW path, NEW content PROVE IsFunction(Put(files, path, content))
  BY DEF Put, IsFunction

LEMMA PutDomain ==
    ASSUME NEW files, NEW path, NEW content
    PROVE  DOMAIN Put(files, path, content) = DOMAIN files \cup {path}
  BY DEF Put

LEMMA PutThere ==
    ASSUME NEW files, NEW path, NEW content PROVE Put(files, path, content)[path] = content
  BY DEF Put

LEMMA PutElsewhere ==
    ASSUME NEW files, NEW path, NEW content, NEW other, other # path, other \in DOMAIN files
    PROVE  Put(files, path, content)[other] = files[other]
  BY DEF Put

\* A file that is written while the manifest is not there yet.
LEMMA StoredPut ==
    ASSUME NEW d, NEW w, NEW s, NEW h, Stored(d, w, s, h), d.state = "inprogress",
           NEW path, NEW content, path # SumsPath
    PROVE  Stored([d EXCEPT !.files = Put(d.files, path, content)], w, s, h)
<1> DEFINE files == Put(d.files, path, content)
           e == [d EXCEPT !.files = files]
<1>1. e = [state |-> "inprogress", files |-> files]
  BY DEF Stored
<1>2. IsFunction(files) /\ DOMAIN files = DOMAIN d.files \cup {path}
  BY PutIsFunction, PutDomain
<1>3. SumsPath \in DOMAIN files =>
         SumsPath \in DOMAIN d.files /\ files[SumsPath] = d.files[SumsPath]
  BY <1>2, PutElsewhere
<1> HIDE DEF files, e
<1>4. e.state = "inprogress" /\ e.files = files
  BY <1>1
<1>5. /\ IsFunction(d.files) /\ s \in {0, 1}
      /\ s = 1 => RequestFiles \subseteq DOMAIN d.files
      /\ SumsPath \in DOMAIN d.files =>
            d.files[SumsPath] = Garbage \/ (Whole(w) /\ d.files[SumsPath] = w[SumsPath])
  BY DEF Stored
<1>6. Stored(e, w, s, h)
  <2>1. e = [state |-> e.state, files |-> e.files]
    BY <1>1, <1>4
  <2>2. s = 1 => RequestFiles \subseteq DOMAIN e.files
    BY <1>2, <1>4, <1>5
  <2>3. SumsPath \in DOMAIN e.files =>
            e.files[SumsPath] = Garbage \/ (Whole(w) /\ e.files[SumsPath] = w[SumsPath])
    BY <1>3, <1>4, <1>5
  <2> QED
    BY <1>2, <1>4, <1>5, <2>1, <2>2, <2>3 DEF Stored
<1> QED
  BY <1>6 DEF e, files

\* One directory changes with its history, the others do not.
LEMMA OneDirectory ==
    ASSUME AllStored, NEW x \in RunIds,
           DOMAIN disk' = RunIds, DOMAIN intact' = RunIds, DOMAIN sent' = RunIds,
           DOMAIN heard' = RunIds,
           \A id \in RunIds \ {x} : /\ disk'[id] = disk[id] /\ intact'[id] = intact[id]
                                    /\ sent'[id] = sent[id] /\ heard'[id] = heard[id],
           Stored(disk'[x], intact'[x], sent'[x], heard'[x])
    PROVE  AllStored'
<1>1. \A id \in RunIds : Stored(disk'[id], intact'[id], sent'[id], heard'[id])
  <2> TAKE id \in RunIds
  <2>1. CASE id = x
    BY <2>1
  <2>2. CASE id # x
    <3>1. Stored(disk[id], intact[id], sent[id], heard[id])
      BY DEF AllStored
    <3>2. /\ disk'[id] = disk[id] /\ intact'[id] = intact[id]
          /\ sent'[id] = sent[id] /\ heard'[id] = heard[id]
      BY <2>2
    <3> QED
      BY <3>1, <3>2
  <2> QED
    BY <2>1, <2>2
<1> QED
  BY <1>1 DEF AllStored

\* Nothing on disk changes, nor its history.
LEMMA SameDirectories == ASSUME AllStored, UNCHANGED <<disk, history>> PROVE AllStored'
  BY DEF AllStored, history

-----------------------------------------------------------------------------
(***************************************************************************)
(* The steps of a process.                                                 *)
(***************************************************************************)

LEMMA MembersOfTail ==
    ASSUME NEW S, NEW seq \in Seq(S), seq # <<>>
    PROVE  /\ Head(seq) \in S /\ Tail(seq) \in Seq(S)
           /\ Members(seq) \subseteq {Head(seq)} \cup Members(Tail(seq))
<1>1. Head(seq) \in S /\ Tail(seq) \in Seq(S)
  OBVIOUS
<1>2. ASSUME NEW i \in DOMAIN seq PROVE seq[i] \in {Head(seq)} \cup Members(Tail(seq))
  <2>1. i \in 1..Len(seq) /\ Len(seq) \in Nat
    BY <1>2
  <2>2. CASE i = 1
    BY <2>2
  <2>3. CASE i # 1
    <3>1. i - 1 \in 1..(Len(seq) - 1)
      BY <2>1, <2>3
    <3>2. Len(Tail(seq)) = Len(seq) - 1 /\ DOMAIN Tail(seq) = 1..(Len(seq) - 1)
      BY <1>1
    <3>3. seq[i] = Tail(seq)[i - 1]
      BY <2>1, <3>1
    <3> QED
      BY <3>1, <3>2, <3>3 DEF Members
  <2> QED
    BY <2>2, <2>3
<1> QED
  BY <1>1, <1>2 DEF Members

LEMMA InitInv == Init => IInv
<1> SUFFICES ASSUME Init PROVE IInv
  OBVIOUS
<1>1. \A id \in RunIds : Stored(Absent, NoFiles, 0, <<>>)
  BY DEF Stored, Absent, NoFiles, IsFunction
<1>2. AllStored
  BY <1>1 DEF AllStored, Init
<1>3. ProcInv
  BY DEF ProcInv, Init, Working
<1> QED
  BY <1>2, <1>3 DEF IInv

\* A command that ends leaves nothing to say of its process.
LEMMA Ends == ASSUME AllStored', pc' = "idle" PROVE IInv'
  BY DEF IInv, ProcInv, Working

LEMMA StartUdpExchangeStep ==
    ASSUME IInv, NEW a, StartUdpExchange(a)
    PROVE  IInv'
<1>1. AllStored'
  BY SameDirectories DEF IInv, StartUdpExchange
<1>2. CASE UdpPreparation(a) # 0
  <2>1. pc' = "idle"
    BY <1>2 DEF StartUdpExchange, Exit
  <2> QED
    BY <1>1, <2>1, Ends
<1>3. CASE UdpPreparation(a) = 0
  <2>1. /\ pc' = "begin" /\ res' = UdpPrepared(a)
        /\ todo' = <<ConfigPath, ValuesPath, Binary(TxStem), Hex(TxStem)>>
    BY <1>3 DEF StartUdpExchange
  <2>2. Truth(res', 0, <<>>)
    BY <2>1, QuietPrepared, QuietIsTruth
  <2>3. todo' \in Seq(DataPaths)
    <3>1. /\ ConfigPath \in DataPaths /\ ValuesPath \in DataPaths
          /\ Binary(TxStem) \in DataPaths /\ Hex(TxStem) \in DataPaths
      BY DEF DataPaths, RequestFiles
    <3> QED
      BY <2>1, <3>1
  <2>4. RequestFiles \subseteq Members(todo')
    <3> DEFINE p1 == ConfigPath  p2 == ValuesPath  p3 == Binary(TxStem)  p4 == Hex(TxStem)
    <3>1. todo' = <<p1, p2, p3, p4>> /\ RequestFiles = {p1, p2, p3, p4}
      BY <2>1 DEF RequestFiles
    <3> HIDE DEF p1, p2, p3, p4
    <3>2. /\ DOMAIN todo' = 1..4
          /\ todo'[1] = p1 /\ todo'[2] = p2 /\ todo'[3] = p3 /\ todo'[4] = p4
      BY <3>1
    <3>3. p1 \in Members(todo') /\ p2 \in Members(todo') /\ p3 \in Members(todo')
          /\ p4 \in Members(todo')
      BY <3>2 DEF Members
    <3> QED
      BY <3>1, <3>3
  <2>5. Prepared'
    BY <2>2, <2>3, <2>4 DEF Prepared
  <2> QED
    BY <1>1, <2>1, <2>5 DEF IInv, ProcInv, Working
<1> QED
  BY <1>2, <1>3

LEMMA StartOfflineStep ==
    ASSUME IInv, NEW a, StartOffline(a)
    PROVE  IInv'
<1>1. AllStored'
  BY SameDirectories DEF IInv, StartOffline
<1> DEFINE out == IF a.command = "replay" THEN RunReplay(a, disk[a.bundle].files)
                  ELSE RunInspectOrEncode(a)
           code == ApplyExpectedStatus(a, out.res, out.exit)
<1>2. Quiet(out.res)
  BY QuietReplay, QuietOffline
<1>3. cmd' = a /\ a.command # "udp-exchange"
  BY DEF StartOffline, StartCommand
<1>4. /\ res' = [out.res EXCEPT !.exit_code = code, !.frame_file = FrameStem]
      /\ \/ pc' = "idle"
         \/ /\ pc' = "begin"
            /\ todo' = <<ConfigPath>>
                         \o (IF out.values = <<>> THEN <<>> ELSE <<ValuesPath>>)
                         \o <<Binary(FrameStem), Hex(FrameStem)>>
  BY Zenon DEF StartOffline, Exit
<1> HIDE DEF out, code
<1>5. Quiet(res')
  <2>1. "send_succeeded" \in DOMAIN out.res /\ "response_received" \in DOMAIN out.res
    BY <1>2, ResultFields DEF Quiet, IsResult, WireFields
  <2> QED
    BY <1>2, <1>4, <2>1 DEF Quiet, IsResult
<1>6. CASE pc' = "idle"
  BY <1>1, <1>6, Ends
<1>7. CASE pc' = "begin"
  <2>1. todo' \in Seq(DataPaths)
    <3>1. /\ ConfigPath \in DataPaths /\ ValuesPath \in DataPaths
          /\ Binary(FrameStem) \in DataPaths /\ Hex(FrameStem) \in DataPaths
      BY DEF DataPaths, RequestFiles
    <3> DEFINE first == <<ConfigPath>>
               second == IF out.values = <<>> THEN <<>> ELSE <<ValuesPath>>
               third == <<Binary(FrameStem), Hex(FrameStem)>>
    <3>2. first \in Seq(DataPaths) /\ second \in Seq(DataPaths) /\ third \in Seq(DataPaths)
      BY <3>1
    <3>3. todo' = first \o second \o third
      BY <1>4, <1>7
    <3> HIDE DEF first, second, third
    <3> QED
      BY <3>2, <3>3
  <2>2. Truth(res', 0, <<>>)
    BY <1>5, QuietIsTruth
  <2>3. Prepared'
    BY <1>3, <2>1, <2>2 DEF Prepared
  <2> QED
    BY <1>1, <1>7, <2>3 DEF IInv, ProcInv, Working
<1> QED
  BY <1>4, <1>6, <1>7

LEMMA StartCompareStep ==
    ASSUME IInv, NEW a, StartCompare(a)
    PROVE  IInv'
<1>1. AllStored'
  BY SameDirectories DEF IInv, StartCompare
<1>2. pc' = "idle"
  BY DEF StartCompare, Exit
<1> QED
  BY <1>1, <1>2, Ends

LEMMA BeginStep ==
    ASSUME IInv, NEW id \in RunIds, Begin(id)
    PROVE  IInv'
<1>1. /\ pc = "begin" /\ disk[id].state = "absent" /\ Prepared /\ AllStored
  BY DEF IInv, ProcInv, Begin
<1>2. Stored(disk[id], intact[id], sent[id], heard[id])
  BY <1>1 DEF AllStored
<1>3. sent[id] = 0 /\ heard[id] = <<>> /\ disk[id] = [state |-> "absent", files |-> NoFiles]
  BY <1>1, <1>2 DEF Stored
<1>4. /\ disk' = [disk EXCEPT ![id].state = "inprogress"] /\ dir' = id /\ pc' = "writing"
      /\ UNCHANGED <<cmd, res, todo, sent, heard, intact>>
  BY DEF Begin
<1>5. DOMAIN disk = RunIds /\ DOMAIN intact = RunIds /\ DOMAIN sent = RunIds
      /\ DOMAIN heard = RunIds
  BY <1>1 DEF AllStored
<1>6. disk'[id] = [state |-> "inprogress", files |-> NoFiles]
  BY <1>3, <1>4, <1>5
<1>7. Stored(disk'[id], intact[id], 0, <<>>)
  BY <1>6 DEF Stored, NoFiles, IsFunction
<1>8. AllStored'
  BY <1>1, <1>3, <1>4, <1>5, <1>7, OneDirectory
<1>9. Writes(disk[id], sent[id], heard[id])'
  BY <1>1, <1>3, <1>4, <1>6 DEF Writes, Prepared, NoSummary, NoFiles, InExchange
<1> QED
  BY <1>4, <1>8, <1>9 DEF IInv, ProcInv, Working

\* The process while it has a directory.
LEMMA AtWork ==
    ASSUME IInv, pc \in Working
    PROVE  /\ dir \in RunIds /\ Writes(disk[dir], sent[dir], heard[dir])
           /\ Stored(disk[dir], intact[dir], sent[dir], heard[dir])
           /\ disk[dir].state = "inprogress"
           /\ DOMAIN disk = RunIds /\ DOMAIN intact = RunIds /\ DOMAIN sent = RunIds
           /\ DOMAIN heard = RunIds /\ AllStored
<1>1. dir \in RunIds /\ Writes(disk[dir], sent[dir], heard[dir]) /\ AllStored
  BY DEF IInv, ProcInv
<1> QED
  BY <1>1 DEF AllStored, Writes

\* Nothing is on disk that was not, and the wire says what it said.
LEMMA OnlyProcess ==
    ASSUME IInv, pc \in Working, UNCHANGED <<disk, history, dir>>, pc' \in Working,
           (Writes(disk[dir], sent[dir], heard[dir]))'
    PROVE  IInv'
<1>1. AllStored'
  BY SameDirectories DEF IInv
<1>2. dir' \in RunIds
  BY AtWork
<1>3. pc' # "begin"
  BY DEF Working
<1> QED
  BY <1>1, <1>2, <1>3 DEF IInv, ProcInv

\* The parts of Writes that a data file leaves as they are.
LEMMA DataFilesKept ==
    ASSUME NEW files, NEW path \in DataPaths, NEW content, NoSummary(files),
           SumsPath \notin DOMAIN files
    PROVE  /\ NoSummary(Put(files, path, content))
           /\ SumsPath \notin DOMAIN Put(files, path, content)
<1>1. \A g \in Formats : ResultPath(g) # path
  BY PathFacts
<1>2. path # SumsPath
  BY PathFacts
<1> DEFINE f2 == Put(files, path, content)
<1>3. DOMAIN f2 = DOMAIN files \cup {path}
  BY PutDomain
<1> HIDE DEF f2
<1>4. NoSummary(f2) /\ SumsPath \notin DOMAIN f2
  BY <1>1, <1>2, <1>3 DEF NoSummary
<1> QED
  BY <1>4 DEF f2

\* WriteVerified of a file of the data, before the bundle is completed.
LEMMA WriteDataStep ==
    ASSUME IInv, WriteVerified, pc \in {"writing", "receiving"}
    PROVE  IInv'
<1> DEFINE path == Head(todo)
           content == Content(path, config, IF values = <<>> THEN <<>> ELSE values[1], res,
                              events, disk[dir].files)
           files == Put(disk[dir].files, path, content)
<1>1. pc \in Working /\ pc # "completing"
  BY DEF Working
<1>2. /\ todo # <<>> /\ disk' = [disk EXCEPT ![dir].files = files] /\ todo' = Tail(todo)
      /\ intact' = IF path = SumsPath THEN [intact EXCEPT ![dir] = files] ELSE intact
      /\ UNCHANGED <<pc, cmd, res, dir, response, sent, heard>>
  BY DEF WriteVerified
<1> HIDE DEF content
<1>3. /\ todo \in Seq(DataPaths) /\ NoSummary(disk[dir].files)
      /\ SumsPath \notin DOMAIN disk[dir].files
  BY <1>1, AtWork DEF Writes
<1>4. /\ path \in DataPaths /\ todo' \in Seq(DataPaths)
      /\ Members(todo) \subseteq {path} \cup Members(todo')
  BY <1>2, <1>3, MembersOfTail
<1> HIDE DEF path
<1>5. path # SumsPath
  BY <1>4, PathFacts
<1>6. intact' = intact
  BY <1>2, <1>5
<1>7. DOMAIN files = DOMAIN disk[dir].files \cup {path}
  BY PutDomain
<1>8. NoSummary(files) /\ SumsPath \notin DOMAIN files
  BY <1>3, <1>4, DataFilesKept
<1>9. Stored([disk[dir] EXCEPT !.files = files], intact[dir], sent[dir], heard[dir])
  BY <1>1, <1>5, AtWork, StoredPut
<1> HIDE DEF files
<1>10. /\ dir \in RunIds /\ DOMAIN disk = RunIds /\ DOMAIN intact = RunIds
       /\ DOMAIN sent = RunIds /\ DOMAIN heard = RunIds
  BY <1>1, AtWork
<1>11. disk'[dir] = [disk[dir] EXCEPT !.files = files] /\ DOMAIN disk' = RunIds
       /\ \A id \in RunIds \ {dir} : disk'[id] = disk[id]
  BY <1>2, <1>10
<1>12. AllStored'
  BY <1>1, <1>2, <1>6, <1>9, <1>10, <1>11, AtWork, OneDirectory
<1>13. disk'[dir'].files = files /\ disk'[dir'].state = "inprogress"
  <2>1. disk[dir] = [state |-> disk[dir].state, files |-> disk[dir].files]
        /\ disk[dir].state = "inprogress"
    BY <1>1, AtWork DEF Stored
  <2> QED
    BY <1>2, <1>11, <2>1
<1>14. Writes(disk[dir], sent[dir], heard[dir])'
  <2>1. Writes(disk[dir], sent[dir], heard[dir])
    BY <1>1, AtWork
  <2>2. Truth(res', sent'[dir'], heard'[dir'])
    BY <1>2, <2>1 DEF Writes
  <2>3. pc' = "writing" /\ cmd'.command = "udp-exchange" =>
           RequestFiles \subseteq DOMAIN files \cup Members(todo')
    BY <1>2, <1>4, <1>7, <2>1 DEF Writes
  <2>4. pc' \in InExchange => RequestFiles \subseteq DOMAIN files
    BY <1>2, <1>7, <2>1 DEF Writes
  <2>5. /\ pc' \in {"writing", "open", "send"} => sent'[dir'] = 0
        /\ pc' \in {"writing", "open", "send", "wait"} => heard'[dir'] = <<>>
        /\ pc' = "receiving" => response' = "OK"
        /\ pc' \in {"receiving", "judge"} /\ response' = "OK" => heard'[dir'] # <<>>
    BY <1>2, <2>1 DEF Writes
  <2>6. pc' # "completing"
    BY <1>1, <1>2
  <2> QED
    BY <1>4, <1>8, <1>13, <2>2, <2>3, <2>4, <2>5, <2>6 DEF Writes
<1> QED
  BY <1>1, <1>2, <1>10, <1>12, <1>14 DEF IInv, ProcInv, Working

\* The next file of a summary: the result, its event log, its record, the mark, the manifest.
LEMMA NextSummary ==
    ASSUME NEW r, NEW td, NEW files, NEW whole, Completing(r, td, files, whole), td # <<>>
    PROVE  /\ Head(td) \in SummaryPaths /\ Tail(td) \in Seq(SummaryPaths)
           /\ Len(td) \in 1..5 /\ Len(Tail(td)) = Len(td) - 1
           /\ Head(td) = SummaryFiles(r)[6 - Len(td)]
           /\ \A i \in 1..Len(Tail(td)) : Tail(td)[i] = SummaryFiles(r)[5 - Len(Tail(td)) + i]
<1>1. td \in Seq(SummaryPaths) /\ Len(td) <= 5
      /\ \A i \in 1..Len(td) : td[i] = SummaryFiles(r)[5 - Len(td) + i]
  BY DEF Completing
<1>2. /\ Head(td) = td[1] /\ Head(td) \in SummaryPaths /\ Tail(td) \in Seq(SummaryPaths)
      /\ Len(td) \in 1..5 /\ Len(Tail(td)) = Len(td) - 1
  <2>1. td \in Seq(SummaryPaths) /\ Len(td) \in Nat /\ Len(td) # 0
    BY <1>1
  <2> DEFINE n == Len(td)
  <2>3. n \in Nat /\ n # 0 /\ n <= 5
    BY <1>1, <2>1
  <2> HIDE DEF n
  <2>4. n \in 1..5
    BY <2>3
  <2>2. Len(td) \in 1..5
    BY <2>4 DEF n
  <2> QED
    BY <2>1, <2>2
<1>3. td[1] = SummaryFiles(r)[5 - Len(td) + 1]
  BY <1>1, <1>2
<1>4. 5 - Len(td) + 1 = 6 - Len(td)
  BY <1>2
<1>5. ASSUME NEW i \in 1..Len(Tail(td))
      PROVE  Tail(td)[i] = SummaryFiles(r)[5 - Len(Tail(td)) + i]
  <2>1. i + 1 \in 1..Len(td) /\ Tail(td)[i] = td[i + 1]
    BY <1>1, <1>2
  <2>2. 5 - Len(td) + (i + 1) = 5 - Len(Tail(td)) + i
    BY <1>2
  <2>3. td[i + 1] = SummaryFiles(r)[5 - Len(td) + (i + 1)]
    BY <1>1, <2>1
  <2> QED
    BY <2>1, <2>2, <2>3
<1> QED
  BY <1>2, <1>3, <1>4, <1>5

\* Each of the five files keeps the directory on the way to a whole bundle.
LEMMA CompletingGoesOn ==
    ASSUME NEW r, NEW td, NEW files, NEW whole, NEW whole2, Completing(r, td, files, whole),
           td # <<>>, IsFunction(files), NEW c, NEW v, NEW log,
           NEW f2, f2 = Put(files, Head(td), Content(Head(td), c, v, r, log, files)),
           Head(td) = SumsPath => whole2 = f2
    PROVE  /\ Completing(r, Tail(td), f2, whole2)
           /\ Head(td) = SumsPath => Whole(f2)
<1> DEFINE n == Len(td)  path == Head(td)
<1>1. /\ path \in SummaryPaths /\ Tail(td) \in Seq(SummaryPaths) /\ n \in 1..5
      /\ Len(Tail(td)) = n - 1 /\ path = SummaryFiles(r)[6 - n]
      /\ \A i \in 1..Len(Tail(td)) : Tail(td)[i] = SummaryFiles(r)[5 - Len(Tail(td)) + i]
  BY NextSummary
<1>2. /\ n = 5 => NoSummary(files)
      /\ n # 5 => OnlySummary(files, r)
      /\ SumsPath \notin DOMAIN files
  BY <1>1 DEF Completing
<1>3. /\ IsFunction(f2) /\ DOMAIN f2 = DOMAIN files \cup {path}
      /\ f2[path] = Content(path, c, v, r, log, files)
      /\ \A p \in DOMAIN files : p # path => f2[p] = files[p]
  <2> DEFINE content == Content(Head(td), c, v, r, log, files)
  <2>1. IsFunction(f2) /\ DOMAIN f2 = DOMAIN files \cup {path}
    BY PutIsFunction, PutDomain
  <2>2. Put(files, path, content)[path] = content
    BY PutThere
  <2>3. \A p \in DOMAIN files : p # path => Put(files, path, content)[p] = files[p]
    BY PutElsewhere
  <2> QED
    BY <2>1, <2>2, <2>3
<1> DEFINE m == Len(Tail(td))
<1>30. m = n - 1
  BY <1>1
<1>31. /\ m = 5 => NoSummary(f2)
       /\ m # 5 => OnlySummary(f2, r)
       /\ m = 0 => whole2 = f2 /\ Whole(f2)
       /\ m # 0 => SumsPath \notin DOMAIN f2
       /\ m <= 5
       => Completing(r, Tail(td), f2, whole2)
  BY <1>1 DEF Completing
<1> HIDE DEF n, path, m
<1>4. CASE n = 5
  <2>1. path = ResultPath(FormatOf(r)) /\ path # SumsPath
    <3>1. 6 - n = 1
      BY <1>4
    <3> QED
      BY <1>1, <3>1, SummaryFacts, PathFacts, FormatFacts
  <2>2. f2[path] = SerializeResult(r)
    BY <1>3, <2>1, ResultContent
  <2>3. \A g \in Formats : ResultPath(g) \in DOMAIN f2 <=> g = FormatOf(r)
    BY <1>2, <1>3, <1>4, <2>1, PathFacts, FormatFacts DEF NoSummary
  <2>4. OnlySummary(f2, r)
    BY <2>1, <2>2, <2>3 DEF OnlySummary
  <2>5. SumsPath \notin DOMAIN f2
    BY <1>2, <1>3, <2>1
  <2>6. m = 4
    BY <1>30, <1>4
  <2>7. Completing(r, Tail(td), f2, whole2)
    BY <1>31, <2>4, <2>5, <2>6
  <2> QED
    BY <2>1, <2>7 DEF path
<1>5. CASE n # 5
  <2>1. OnlySummary(files, r)
    BY <1>2, <1>5
  <2>2. path \notin {ResultPath(g) : g \in Formats}
    <3>1. CASE n = 4
      <4>1. 6 - n = 2
        BY <3>1
      <4> QED
        BY <1>1, <4>1, SummaryFacts, PathFacts, FormatFacts
    <3>2. CASE n = 3
      <4>1. 6 - n = 3
        BY <3>2
      <4> QED
        BY <1>1, <4>1, SummaryFacts, PathFacts, FormatFacts
    <3>3. CASE n = 2
      <4>1. 6 - n = 4
        BY <3>3
      <4> QED
        BY <1>1, <4>1, SummaryFacts, PathFacts, FormatFacts
    <3>4. CASE n = 1
      <4>1. 6 - n = 5
        BY <3>4
      <4> QED
        BY <1>1, <4>1, SummaryFacts, PathFacts, FormatFacts
    <3> QED
      BY <1>1, <1>5, <3>1, <3>2, <3>3, <3>4
  <2>3. OnlySummary(f2, r)
    <3>1. ResultPath(FormatOf(r)) \in DOMAIN files
      BY <2>1, FormatFacts DEF OnlySummary
    <3>2. f2[ResultPath(FormatOf(r))] = files[ResultPath(FormatOf(r))]
      BY <1>3, <2>2, <3>1, FormatFacts
    <3>3. \A g \in Formats : ResultPath(g) \in DOMAIN f2 <=> g = FormatOf(r)
      BY <1>3, <2>1, <2>2 DEF OnlySummary
    <3> QED
      BY <2>1, <3>2, <3>3 DEF OnlySummary
  <2>4. m \in 0..3
    BY <1>1, <1>30, <1>5
  <2>5. CASE n # 1
    <3>1. path # SumsPath
      <4>1. CASE n = 4
        <5>1. 6 - n = 2
          BY <4>1
        <5> QED
          BY <1>1, <5>1, SummaryFacts, PathFacts, FormatFacts
      <4>2. CASE n = 3
        <5>1. 6 - n = 3
          BY <4>2
        <5> QED
          BY <1>1, <5>1, SummaryFacts, PathFacts, FormatFacts
      <4>3. CASE n = 2
        <5>1. 6 - n = 4
          BY <4>3
        <5> QED
          BY <1>1, <5>1, SummaryFacts, PathFacts, FormatFacts
      <4> QED
        BY <1>1, <1>5, <2>5, <4>1, <4>2, <4>3
    <3>2. SumsPath \notin DOMAIN f2
      BY <1>2, <1>3, <3>1
    <3>3. m # 0 /\ m # 5 /\ m <= 5
      BY <1>1, <1>30, <2>4, <2>5
    <3>4. Completing(r, Tail(td), f2, whole2)
      BY <1>31, <2>3, <3>2, <3>3
    <3> QED
      BY <3>1, <3>4 DEF path
  <2>6. CASE n = 1
    <3>1. path = SumsPath
      <4>1. 6 - n = 5
        BY <2>6
      <4> QED
        BY <1>1, <4>1, SummaryFacts
    <3>2. f2[SumsPath] = [p \in DOMAIN files |-> Digest(files[p])]
      BY <1>3, <3>1, SumsContent
    <3>3. DOMAIN f2 \ {SumsPath} = DOMAIN files
      BY <1>2, <1>3, <3>1
    <3>4. \A p \in DOMAIN files : f2[p] = files[p]
      BY <1>2, <1>3, <3>1
    <3>5. f2[SumsPath] = [p \in DOMAIN f2 \ {SumsPath} |-> Digest(f2[p])]
      BY <3>2, <3>3, <3>4
    <3>6. Whole(f2)
      BY <1>3, <3>1, <3>5 DEF Whole
    <3>7. whole2 = f2
      BY <3>1 DEF path
    <3>8. m = 0
      BY <1>30, <2>6
    <3>9. Completing(r, Tail(td), f2, whole2)
      BY <1>31, <2>3, <3>6, <3>7, <3>8
    <3> QED
      BY <3>6, <3>9
  <2> QED
    BY <2>5, <2>6
<1> QED
  BY <1>4, <1>5

\* WriteVerified of a file of the summary.
LEMMA WriteSummaryStep ==
    ASSUME IInv, WriteVerified, pc = "completing"
    PROVE  IInv'
<1> DEFINE path == Head(todo)
           v == IF values = <<>> THEN <<>> ELSE values[1]
           content == Content(path, config, v, res, events, disk[dir].files)
           files == Put(disk[dir].files, path, content)
           whole == intact'[dir]
<1>1. pc \in Working
  BY DEF Working
<1>2. /\ todo # <<>> /\ disk' = [disk EXCEPT ![dir].files = files] /\ todo' = Tail(todo)
      /\ intact' = IF path = SumsPath THEN [intact EXCEPT ![dir] = files] ELSE intact
      /\ UNCHANGED <<pc, cmd, res, dir, response, sent, heard>>
  BY DEF WriteVerified
<1>3. /\ dir \in RunIds /\ DOMAIN disk = RunIds /\ DOMAIN intact = RunIds
      /\ DOMAIN sent = RunIds /\ DOMAIN heard = RunIds /\ AllStored
      /\ Writes(disk[dir], sent[dir], heard[dir])
      /\ Stored(disk[dir], intact[dir], sent[dir], heard[dir])
      /\ disk[dir].state = "inprogress"
  BY <1>1, AtWork
<1>4. /\ Completing(res, todo, disk[dir].files, intact[dir]) /\ IsFunction(disk[dir].files)
      /\ Truth(res, sent[dir], heard[dir])
  BY <1>3 DEF Writes, Stored
<1>5. path = SumsPath => whole = files
  <2> HIDE DEF files, path
  <2> QED
    BY <1>2, <1>3
<1>6. Completing(res, todo', files, whole) /\ (path = SumsPath => Whole(files))
  BY <1>2, <1>4, <1>5, CompletingGoesOn
<1>7. path # SumsPath =>
         Stored([disk[dir] EXCEPT !.files = files], intact[dir], sent[dir], heard[dir])
  BY <1>3, StoredPut
<1>8. /\ files = Put(disk[dir].files, path, content) /\ IsFunction(files)
      /\ DOMAIN files = DOMAIN disk[dir].files \cup {path}
  BY PutDomain, PutIsFunction
<1> HIDE DEF files, path, content
<1>9. disk'[dir] = [disk[dir] EXCEPT !.files = files] /\ DOMAIN disk' = RunIds
      /\ \A id \in RunIds \ {dir} : disk'[id] = disk[id]
  BY <1>2, <1>3
<1>10. disk'[dir] = [state |-> "inprogress", files |-> files]
  <2>1. disk[dir] = [state |-> disk[dir].state, files |-> disk[dir].files]
    BY <1>3 DEF Stored
  <2> QED
    BY <1>3, <1>9, <2>1
<1>11. DOMAIN intact' = RunIds /\ \A id \in RunIds \ {dir} : intact'[id] = intact[id]
  BY <1>2, <1>3
<1>12. Stored(disk'[dir], whole, sent[dir], heard[dir])
  <2>1. CASE path # SumsPath
    <3>1. whole = intact[dir]
      BY <1>2, <2>1
    <3> QED
      BY <1>7, <1>9, <2>1, <3>1
  <2>2. CASE path = SumsPath
    <3>1. whole = files /\ Whole(files)
      BY <1>5, <1>6, <2>2
    <3>2. /\ sent[dir] \in {0, 1}
          /\ sent[dir] = 1 => RequestFiles \subseteq DOMAIN files
      BY <1>3, <1>8 DEF Stored
    <3> DEFINE d == disk'[dir]
    <3>3. d.state = "inprogress" /\ d.files = files /\ d = [state |-> d.state, files |-> d.files]
      BY <1>10
    <3> HIDE DEF d
    <3>4. Stored(d, files, sent[dir], heard[dir])
      BY <1>8, <3>1, <3>2, <3>3 DEF Stored
    <3> QED
      BY <3>1, <3>4 DEF d
  <2> QED
    BY <2>1, <2>2
<1>13. AllStored'
  <2>1. dir' = dir /\ DOMAIN sent' = RunIds /\ DOMAIN heard' = RunIds
        /\ sent' = sent /\ heard' = heard
    BY <1>2, <1>3
  <2> QED
    BY <1>3, <1>9, <1>11, <1>12, <2>1, OneDirectory
<1>14. Writes(disk[dir], sent[dir], heard[dir])'
  <2>1. disk'[dir'].files = files /\ disk'[dir'].state = "inprogress"
    BY <1>2, <1>10
  <2>2. Completing(res', todo', disk'[dir'].files, intact'[dir'])
    BY <1>2, <1>6, <2>1
  <2>3. Truth(res', sent'[dir'], heard'[dir'])
    BY <1>2, <1>4
  <2>4. pc' = "completing"
    BY <1>2
  <2> QED
    BY <2>1, <2>2, <2>3, <2>4 DEF Writes, InExchange
<1> QED
  BY <1>1, <1>2, <1>3, <1>13, <1>14 DEF IInv, ProcInv, Working

\* A step that leaves at most an unfinished file, and ends the process.
LEMMA UnfinishedFile ==
    ASSUME IInv, pc' = "idle", UNCHANGED history,
           disk' = disk
           \/ /\ pc \in Working
              /\ \E path : disk' = [disk EXCEPT ![dir].files = Put(@, Temporary(path), Garbage)]
    PROVE  IInv'
<1>1. CASE disk' = disk
  <2>1. AllStored'
    BY <1>1, SameDirectories DEF IInv
  <2> QED
    BY <2>1, Ends
<1>2. CASE disk' # disk
  <2>1. PICK path : disk' = [disk EXCEPT ![dir].files = Put(@, Temporary(path), Garbage)]
    BY <1>2
  <2>2. pc \in Working
    BY <1>2
  <2>3. /\ dir \in RunIds /\ DOMAIN disk = RunIds /\ DOMAIN intact = RunIds
        /\ DOMAIN sent = RunIds /\ DOMAIN heard = RunIds /\ AllStored
        /\ Stored(disk[dir], intact[dir], sent[dir], heard[dir])
        /\ disk[dir].state = "inprogress"
    BY <2>2, AtWork
  <2>4. Temporary(path) # SumsPath
    BY TemporaryPath
  <2> DEFINE t == Temporary(path)
             files == Put(disk[dir].files, t, Garbage)
  <2>5. Stored([disk[dir] EXCEPT !.files = files], intact[dir], sent[dir], heard[dir])
    BY <2>3, <2>4, StoredPut
  <2>6. disk' = [disk EXCEPT ![dir].files = files]
    BY <2>1
  <2> HIDE DEF files
  <2>7. disk'[dir] = [disk[dir] EXCEPT !.files = files] /\ DOMAIN disk' = RunIds
        /\ \A id \in RunIds \ {dir} : disk'[id] = disk[id]
    BY <2>3, <2>6
  <2>8. sent' = sent /\ heard' = heard /\ intact' = intact
    BY DEF history
  <2>9. AllStored'
    BY <2>3, <2>5, <2>7, <2>8, OneDirectory
  <2> QED
    BY <2>9, Ends
<1> QED
  BY <1>1, <1>2

LEMMA FailRecordStep == ASSUME IInv, FailRecord PROVE IInv'
<1>1. pc' = "idle" /\ UNCHANGED history
  BY DEF FailRecord, Exit
<1>2. disk' = disk
      \/ /\ pc # "begin" /\ todo # <<>>
         /\ disk' = [disk EXCEPT ![dir].files = Put(@, Temporary(Head(todo)), Garbage)]
  BY DEF FailRecord
<1>3. pc # "begin" => pc \in Working
  BY DEF FailRecord, Working
<1> QED
  BY <1>1, <1>2, <1>3, UnfinishedFile

LEMMA CrashStep == ASSUME IInv, Crash PROVE IInv'
<1>1. pc' = "idle" /\ UNCHANGED history
  BY DEF Crash
<1>2. disk' = disk
      \/ /\ pc \in {"writing", "receiving", "completing"}
         /\ disk' = [disk EXCEPT ![dir].files = Put(@, Temporary(Head(todo)), Garbage)]
  BY DEF Crash
<1>3. pc \in {"writing", "receiving", "completing"} => pc \in Working
  BY DEF Working
<1> QED
  BY <1>1, <1>2, <1>3, UnfinishedFile

\* CompleteWith: the result is final, and the first of the five files is the next one.
LEMMA CompletionStarts ==
    ASSUME IInv, pc \in Working \ {"completing"}, NEW r, NEW natural, NEW log,
           Truth(r, sent[dir], heard[dir]), CompleteWith(r, natural, log),
           UNCHANGED <<disk, history, dir>>
    PROVE  IInv'
<1>1. /\ Writes(disk[dir], sent[dir], heard[dir]) /\ disk[dir].state = "inprogress"
  BY AtWork
<1>2. NoSummary(disk[dir].files) /\ SumsPath \notin DOMAIN disk[dir].files
  BY <1>1 DEF Writes
<1> DEFINE code == ApplyExpectedStatus(cmd, r, natural)
           r1 == [r EXCEPT !.exit_code = code]
<1>3. res' = FinalizeFingerprint(r1) /\ todo' = SummaryFiles(r) /\ pc' = "completing"
  BY DEF CompleteWith
<1>4. IsResult(r)
  BY DEF Truth, IsResult
<1>5. Agrees(r1, r)
  BY <1>4, Untouched
<1> HIDE DEF code
<1>6. Agrees(res', r)
  <2>1. IsResult(r1)
    BY <1>5 DEF Agrees
  <2> HIDE DEF r1
  <2>2. Agrees(FinalizeFingerprint(r1), r1)
    BY <2>1, Untouched
  <2> QED
    BY <1>3, <1>5, <2>2, AgreesTrans
<1>7. Truth(res', sent[dir], heard[dir])
  BY <1>6, AgreesTruth
<1>8. SummaryFiles(res') = SummaryFiles(r)
  <2>1. res'.schema = r.schema /\ res'.operation_kind = r.operation_kind
    <3>1. "schema" \in DOMAIN r /\ "operation_kind" \in DOMAIN r
      BY <1>4, ResultFields DEF IsResult
    <3> QED
      BY <1>3, <3>1 DEF FinalizeFingerprint
  <2>2. FormatOf(res') = FormatOf(r)
    BY <2>1 DEF FormatOf
  <2> QED
    BY <2>2 DEF SummaryFiles
<1>9. Completing(res', todo', disk[dir].files, intact'[dir])
  <2>1. todo' = SummaryFiles(res')
    BY <1>3, <1>8
  <2>2. todo' \in Seq(SummaryPaths) /\ Len(todo') = 5
    BY <2>1, SummaryFacts
  <2>3. \A i \in 1..Len(todo') : todo'[i] = SummaryFiles(res')[5 - Len(todo') + i]
    <3> TAKE i \in 1..Len(todo')
    <3>1. 5 - Len(todo') + i = i
      BY <2>2
    <3> QED
      BY <2>1, <3>1
  <2>4. Len(todo') # 0 /\ Len(todo') <= 5
    BY <2>2
  <2> QED
    BY <1>2, <2>2, <2>3, <2>4 DEF Completing
<1>10. Writes(disk[dir], sent[dir], heard[dir])'
  <2>1. disk' = disk /\ dir' = dir /\ sent' = sent /\ heard' = heard
    BY DEF history
  <2> QED
    BY <1>1, <1>3, <1>7, <1>9, <2>1 DEF Writes, InExchange
<1>11. pc' \in Working
  BY <1>3 DEF Working
<1> QED
  BY <1>10, <1>11, OnlyProcess

LEMMA RequestRecordedStep == ASSUME IInv, RequestRecorded PROVE IInv'
<1>1. /\ pc = "writing" /\ todo = <<>> /\ cmd.command = "udp-exchange"
      /\ UNCHANGED <<cmd, dir, response, disk, history>>
  BY DEF RequestRecorded
<1>2. pc \in Working
  BY <1>1 DEF Working
<1>3. /\ Writes(disk[dir], sent[dir], heard[dir])
  BY <1>2, AtWork
<1>4. CASE cmd.send
  <2>1. pc' = "open" /\ UNCHANGED <<res, todo>>
    BY <1>4 DEF RequestRecorded
  <2>2. Members(todo) = {}
    BY <1>1 DEF Members
  <2>3. RequestFiles \subseteq DOMAIN disk[dir].files
    BY <1>1, <1>3, <2>2 DEF Writes
  <2>4. disk' = disk /\ dir' = dir /\ sent' = sent /\ heard' = heard
    BY <1>1 DEF history
  <2>5. Writes(disk[dir], sent[dir], heard[dir])'
    BY <1>1, <1>3, <2>1, <2>3, <2>4 DEF Writes
  <2>6. pc' \in Working
    BY <2>1 DEF Working
  <2> QED
    BY <1>1, <1>2, <2>5, <2>6, OnlyProcess
<1>5. CASE ~cmd.send
  <2>1. CompleteWith(res, 0, CaptureTxFrame(events, res.tx_frame))
    BY <1>5 DEF RequestRecorded
  <2>2. Truth(res, sent[dir], heard[dir])
    BY <1>3 DEF Writes
  <2> QED
    BY <1>1, <1>2, <2>1, <2>2, CompletionStarts
<1> QED
  BY <1>4, <1>5

LEMMA OfflineFrameRecordedStep == ASSUME IInv, OfflineFrameRecorded PROVE IInv'
<1>1. /\ pc = "writing" /\ todo' = SummaryFiles(res) /\ pc' = "completing"
      /\ UNCHANGED <<cmd, res, dir, response, disk, history>>
  BY DEF OfflineFrameRecorded
<1>2. pc \in Working /\ pc' \in Working
  BY <1>1 DEF Working
<1>3. /\ Writes(disk[dir], sent[dir], heard[dir]) /\ disk[dir].state = "inprogress"
  BY <1>2, AtWork
<1>4. NoSummary(disk[dir].files) /\ SumsPath \notin DOMAIN disk[dir].files
  BY <1>1, <1>3 DEF Writes
<1>5. Completing(res', todo', disk[dir].files, intact'[dir])
  <2>1. todo' = SummaryFiles(res')
    BY <1>1
  <2>2. todo' \in Seq(SummaryPaths) /\ Len(todo') = 5
    BY <2>1, SummaryFacts
  <2>3. \A i \in 1..Len(todo') : todo'[i] = SummaryFiles(res')[5 - Len(todo') + i]
    <3> TAKE i \in 1..Len(todo')
    <3>1. 5 - Len(todo') + i = i
      BY <2>2
    <3> QED
      BY <2>1, <3>1
  <2>4. Len(todo') # 0 /\ Len(todo') <= 5
    BY <2>2
  <2> QED
    BY <1>4, <2>2, <2>3, <2>4 DEF Completing
<1>6. Writes(disk[dir], sent[dir], heard[dir])'
  <2>1. disk' = disk /\ dir' = dir /\ sent' = sent /\ heard' = heard
    BY <1>1 DEF history
  <2> QED
    BY <1>1, <1>3, <1>5, <2>1 DEF Writes, InExchange
<1> QED
  BY <1>1, <1>2, <1>6, OnlyProcess

LEMMA OpenSocketStep == ASSUME IInv, OpenSocket PROVE IInv'
<1>1. /\ pc = "open" /\ UNCHANGED <<cmd, res, todo, dir, disk, history>>
      /\ \/ pc' = "judge" /\ response' # "OK"
         \/ pc' = "send" /\ response' = response
  BY DEF OpenSocket, transaction
<1>2. pc \in Working /\ pc' \in Working
  BY <1>1 DEF Working
<1>3. Writes(disk[dir], sent[dir], heard[dir])
  BY <1>2, AtWork
<1>4. disk' = disk /\ dir' = dir /\ sent' = sent /\ heard' = heard
  BY <1>1 DEF history
<1>5. Writes(disk[dir], sent[dir], heard[dir])'
  BY <1>1, <1>3, <1>4 DEF Writes, InExchange
<1> QED
  BY <1>1, <1>2, <1>5, OnlyProcess

\* Nothing of the directory changes, and the process goes on to judge.
LEMMA GiveUpStep == ASSUME IInv, NEW status \in {"TIMEOUT", "RECEIVE_FAILED"}, GiveUp(status)
                    PROVE  IInv'
<1>1. /\ pc = "wait" /\ pc' = "judge" /\ response' # "OK"
      /\ UNCHANGED <<cmd, res, todo, dir, disk, history>>
  BY DEF GiveUp, transaction
<1>2. pc \in Working /\ pc' \in Working
  BY <1>1 DEF Working
<1>3. Writes(disk[dir], sent[dir], heard[dir])
  BY <1>2, AtWork
<1>4. disk' = disk /\ dir' = dir /\ sent' = sent /\ heard' = heard
  BY <1>1 DEF history
<1>5. Writes(disk[dir], sent[dir], heard[dir])'
  BY <1>1, <1>3, <1>4 DEF Writes, InExchange
<1> QED
  BY <1>1, <1>2, <1>5, OnlyProcess

LEMMA ResponseRecordedStep == ASSUME IInv, ResponseRecorded PROVE IInv'
<1>1. /\ pc = "receiving" /\ pc' = "judge"
      /\ UNCHANGED <<cmd, res, todo, dir, response, disk, history>>
  BY DEF ResponseRecorded
<1>2. pc \in Working /\ pc' \in Working
  BY <1>1 DEF Working
<1>3. Writes(disk[dir], sent[dir], heard[dir])
  BY <1>2, AtWork
<1>4. disk' = disk /\ dir' = dir /\ sent' = sent /\ heard' = heard
  BY <1>1 DEF history
<1>5. Writes(disk[dir], sent[dir], heard[dir])'
  BY <1>1, <1>3, <1>4 DEF Writes, InExchange
<1> QED
  BY <1>1, <1>2, <1>5, OnlyProcess

LEMMA ArriveStep == ASSUME IInv, NEW from, NEW frame, Arrive(from, frame) PROVE IInv'
<1>1. UNCHANGED <<pc, cmd, res, todo, dir, response, disk, history>> /\ pc \in {"send", "wait"}
  BY DEF Arrive, transaction
<1>2. pc \in Working /\ pc' \in Working
  BY <1>1 DEF Working
<1>3. Writes(disk[dir], sent[dir], heard[dir])
  BY <1>2, AtWork
<1>4. disk' = disk /\ dir' = dir /\ sent' = sent /\ heard' = heard
  BY <1>1 DEF history
<1>5. Writes(disk[dir], sent[dir], heard[dir])'
  BY <1>1, <1>3, <1>4 DEF Writes, InExchange
<1> QED
  BY <1>1, <1>2, <1>5, OnlyProcess

LEMMA JudgeStep == ASSUME IInv, Judge PROVE IInv'
<1>1. pc = "judge" /\ UNCHANGED <<dir, disk, history>>
  BY DEF Judge
<1>2. pc \in Working
  BY <1>1 DEF Working
<1>3. Writes(disk[dir], sent[dir], heard[dir])
  BY <1>2, AtWork
<1> DEFINE out == JudgeResponse(cmd, res, response)
<1>4. CompleteWith(out.res, out.exit, events)
  BY DEF Judge
<1>5. Truth(res, sent[dir], heard[dir])
  BY <1>3 DEF Writes
<1>6. response = "OK" => res.response_received = TRUE
  <2>1. response = "OK" => heard[dir] # <<>>
    BY <1>1, <1>3 DEF Writes
  <2>2. res.response_received = (heard[dir] # <<>>)
    BY <1>5 DEF Truth
  <2> QED
    BY <2>1, <2>2, Zenon
<1>7. Agrees(out.res, res)
  <2>1. IsResult(res)
    BY <1>5 DEF Truth, IsResult
  <2> QED
    BY <1>6, <2>1, JudgedAgrees
<1> HIDE DEF out
<1>8. Truth(out.res, sent[dir], heard[dir])
  BY <1>5, <1>7, AgreesTruth
<1> QED
  BY <1>1, <1>2, <1>4, <1>8, CompletionStarts

LEMMA SendToStep == ASSUME IInv, NEW ok \in BOOLEAN, SendTo(ok) PROVE IInv'
<1>1. /\ pc = "send" /\ UNCHANGED <<cmd, dir, todo, disk, heard, intact>>
      /\ res' = [res EXCEPT !.send_attempted = TRUE, !.send_succeeded = ok]
      /\ ok => sent' = [sent EXCEPT ![dir] = @ + 1] /\ pc' = "wait"
      /\ ~ok => sent' = sent /\ pc' = "judge" /\ response' = "SEND_FAILED"
  BY DEF SendTo
<1>2. pc \in Working
  BY <1>1 DEF Working
<1>3. /\ dir \in RunIds /\ DOMAIN disk = RunIds /\ DOMAIN intact = RunIds
      /\ DOMAIN sent = RunIds /\ DOMAIN heard = RunIds /\ AllStored
      /\ Writes(disk[dir], sent[dir], heard[dir])
      /\ Stored(disk[dir], intact[dir], sent[dir], heard[dir])
      /\ disk[dir].state = "inprogress"
  BY <1>2, AtWork
<1>4. /\ sent[dir] = 0 /\ heard[dir] = <<>> /\ Truth(res, 0, <<>>)
      /\ RequestFiles \subseteq DOMAIN disk[dir].files
  BY <1>1, <1>3 DEF Writes, InExchange
<1>5. sent'[dir] = IF ok THEN 1 ELSE 0
  BY <1>1, <1>3, <1>4
<1>6. DOMAIN sent' = RunIds /\ \A id \in RunIds \ {dir} : sent'[id] = sent[id]
  BY <1>1, <1>3
<1>7. disk' = disk /\ heard' = heard /\ intact' = intact /\ dir' = dir
  BY <1>1
<1>8. Stored(disk[dir], intact[dir], sent'[dir], heard[dir])
  BY <1>3, <1>4, <1>5 DEF Stored
<1>9. AllStored'
  BY <1>3, <1>6, <1>7, <1>8, OneDirectory
<1>10. Truth(res', sent'[dir], <<>>)
  <2>1. /\ DOMAIN res = DOMAIN NewResult /\ res.response_received = (<<>> # <<>>)
    BY <1>4 DEF Truth
  <2>2. "send_succeeded" \in DOMAIN res /\ "response_received" \in DOMAIN res
    BY <2>1, ResultFields DEF WireFields
  <2>3. DOMAIN res' = DOMAIN NewResult /\ res'.send_succeeded = ok
        /\ res'.response_received = res.response_received
    BY <1>1, <2>1, <2>2
  <2>4. ok = (sent'[dir] = 1)
    BY <1>5
  <2>5. res'.send_succeeded = (sent'[dir] = 1)
    BY <2>3, <2>4, Zenon
  <2>6. res'.response_received = (<<>> # <<>>)
    BY <2>1, <2>3, Zenon
  <2>7. (<<>> # <<>>) = FALSE
    OBVIOUS
  <2> QED
    BY <2>3, <2>5, <2>6, <2>7, Zenon DEF Truth
<1>11. Writes(disk[dir], sent[dir], heard[dir])'
  <2>1. /\ disk'[dir'] = disk[dir] /\ sent'[dir'] = sent'[dir] /\ heard'[dir'] = <<>>
    BY <1>4, <1>7
  <2>2. pc' \in {"wait", "judge"} /\ (pc' = "judge" => response' # "OK")
    BY <1>1
  <2>3. todo' \in Seq(DataPaths) /\ NoSummary(disk[dir].files)
        /\ SumsPath \notin DOMAIN disk[dir].files
    BY <1>1, <1>3 DEF Writes
  <2> QED
    BY <1>3, <1>4, <1>10, <2>1, <2>2, <2>3 DEF Writes
<1>12. pc' \in {"wait", "judge"}
  BY <1>1
<1> QED
  BY <1>3, <1>7, <1>9, <1>11, <1>12 DEF IInv, ProcInv, Working

LEMMA ReceiveFromStep == ASSUME IInv, ReceiveFrom PROVE IInv'
<1> DEFINE d == Head(sock)
<1>1. /\ pc = "wait" /\ UNCHANGED <<cmd, dir, disk, sent, intact>>
      /\ \/ response' = "DATAGRAM_TRUNCATED" /\ pc' = "judge" /\ UNCHANGED <<res, todo, heard>>
         \/ /\ response' = "OK" /\ pc' = "receiving"
            /\ res' = [res EXCEPT !.response_received = TRUE, !.rx_frame = d.frame,
                                  !.received_from = d.from]
            /\ todo' = <<Binary(RxStem), Hex(RxStem), MetaPath>>
            /\ heard' = [heard EXCEPT ![dir] = <<d>>]
  BY DEF ReceiveFrom
<1>2. pc \in Working /\ pc' \in Working
  BY <1>1 DEF Working
<1>3. /\ dir \in RunIds /\ DOMAIN disk = RunIds /\ DOMAIN intact = RunIds
      /\ DOMAIN sent = RunIds /\ DOMAIN heard = RunIds /\ AllStored
      /\ Writes(disk[dir], sent[dir], heard[dir])
      /\ Stored(disk[dir], intact[dir], sent[dir], heard[dir])
      /\ disk[dir].state = "inprogress"
  BY <1>2, AtWork
<1>4. /\ heard[dir] = <<>> /\ Truth(res, sent[dir], <<>>)
      /\ RequestFiles \subseteq DOMAIN disk[dir].files
      /\ NoSummary(disk[dir].files) /\ SumsPath \notin DOMAIN disk[dir].files
  BY <1>1, <1>3 DEF Writes, InExchange
<1> HIDE DEF d
<1>5. CASE response' = "DATAGRAM_TRUNCATED"
  <2>1. pc' = "judge" /\ UNCHANGED <<cmd, res, todo, dir, disk, sent, heard, intact>>
    BY <1>1, <1>5
  <2>2. AllStored'
    BY <1>3, <2>1 DEF AllStored
  <2>3. Writes(disk[dir], sent[dir], heard[dir])'
    BY <1>1, <1>3, <1>4, <1>5, <2>1 DEF Writes, InExchange
  <2> QED
    BY <1>2, <1>3, <2>1, <2>2, <2>3 DEF IInv, ProcInv
<1>6. CASE response' = "OK"
  <2>1. /\ pc' = "receiving" /\ UNCHANGED <<cmd, dir, disk, sent, intact>>
        /\ res' = [res EXCEPT !.response_received = TRUE, !.rx_frame = d.frame,
                              !.received_from = d.from]
        /\ todo' = <<Binary(RxStem), Hex(RxStem), MetaPath>>
        /\ heard' = [heard EXCEPT ![dir] = <<d>>]
    BY <1>1, <1>6
  <2>2. /\ heard'[dir] = <<d>> /\ DOMAIN heard' = RunIds
        /\ \A id \in RunIds \ {dir} : heard'[id] = heard[id]
    BY <1>3, <2>1
  <2> DEFINE h == <<d>>
  <2>3. h # <<>> /\ h[1] = d
    OBVIOUS
  <2>4. heard'[dir] = h
    BY <2>2
  <2> HIDE DEF h
  <2>5. Stored(disk[dir], intact[dir], sent[dir], h)
    BY <1>3 DEF Stored
  <2>6. AllStored'
    BY <1>3, <2>1, <2>2, <2>4, <2>5, OneDirectory
  <2>7. Truth(res', sent[dir], h)
    <3>1. DOMAIN res = DOMAIN NewResult /\ res.send_succeeded = (sent[dir] = 1)
      BY <1>4 DEF Truth
    <3>2. WireFields \subseteq DOMAIN res
      BY <3>1, ResultFields
    <3>3. /\ DOMAIN res' = DOMAIN NewResult /\ res'.send_succeeded = res.send_succeeded
          /\ res'.response_received = TRUE /\ res'.received_from = d.from
          /\ res'.rx_frame = d.frame
      BY <2>1, <3>1, <3>2 DEF WireFields
    <3>4. (h # <<>>) = TRUE
      BY <2>3
    <3>5. res'.response_received = (h # <<>>)
      BY <3>3, <3>4, Zenon
    <3>6. res'.send_succeeded = (sent[dir] = 1)
      BY <3>1, <3>3, Zenon
    <3> QED
      BY <2>3, <3>3, <3>5, <3>6, Zenon DEF Truth
  <2>8. todo' \in Seq(DataPaths)
    <3>1. Binary(RxStem) \in DataPaths /\ Hex(RxStem) \in DataPaths /\ MetaPath \in DataPaths
      BY DEF DataPaths
    <3> QED
      BY <2>1, <3>1
  <2>9. Writes(disk[dir], sent[dir], heard[dir])'
    <3>1. disk'[dir'] = disk[dir] /\ sent'[dir'] = sent[dir] /\ heard'[dir'] = h
      BY <2>1, <2>4
    <3> QED
      BY <1>3, <1>4, <1>6, <2>1, <2>3, <2>7, <2>8, <3>1 DEF Writes
  <2> QED
    BY <1>2, <1>3, <2>1, <2>6, <2>9 DEF IInv, ProcInv, Working
<1> QED
  BY <1>1, <1>5, <1>6

\* A summary that says what the result says.
LEMMA SummaryTells ==
    ASSUME NEW r, NEW s, NEW h, Truth(r, s, h), NEW files, OnlySummary(files, r)
    PROVE  Told(files, s, h)
<1> DEFINE g == FormatOf(r)
           run == SerializeResult(r)
<1>1. g \in Formats /\ Summaries(files) = {g}
  BY FormatFacts DEF OnlySummary, Summaries
<1>2. files[ResultPath(g)] = run
  BY DEF OnlySummary
<1>3. DOMAIN run = DOMAIN SerializeResult(NewResult)
  BY DEF SerializeResult
<1>4. /\ run.send_succeeded = r.send_succeeded /\ run.response_received = r.response_received
      /\ run.received_from = r.received_from /\ run.rx_hex = HexUpper(r.rx_frame)
  BY DEF SerializeResult
<1> HIDE DEF run, g
<1>5. run.send_succeeded = (s = 1)
  BY <1>4, Zenon DEF Truth
<1>6. run.response_received = (h # <<>>)
  BY <1>4, Zenon DEF Truth
<1>7. h # <<>> => run.received_from = h[1].from /\ run.rx_hex = HexUpper(h[1].frame)
  BY <1>4, Zenon DEF Truth
<1> QED
  BY <1>1, <1>2, <1>3, <1>5, <1>6, <1>7, Zenon DEF Told

LEMMA PublishStep == ASSUME IInv, Publish PROVE IInv'
<1>1. /\ pc = "completing" /\ todo = <<>> /\ pc' = "idle" /\ UNCHANGED <<dir, history>>
      /\ disk' = [disk EXCEPT ![dir].state = "final"]
  BY DEF Publish, Exit, transaction
<1>2. pc \in Working
  BY <1>1 DEF Working
<1>3. /\ dir \in RunIds /\ DOMAIN disk = RunIds /\ DOMAIN intact = RunIds
      /\ DOMAIN sent = RunIds /\ DOMAIN heard = RunIds /\ AllStored
      /\ Writes(disk[dir], sent[dir], heard[dir])
      /\ Stored(disk[dir], intact[dir], sent[dir], heard[dir])
      /\ disk[dir].state = "inprogress"
  BY <1>2, AtWork
<1> DEFINE files == disk[dir].files
<1>4. disk'[dir] = [state |-> "final", files |-> files] /\ DOMAIN disk' = RunIds
      /\ \A id \in RunIds \ {dir} : disk'[id] = disk[id]
  BY <1>1, <1>3 DEF Stored
<1> HIDE DEF files
<1>5. Completing(res, todo, files, intact[dir]) /\ Truth(res, sent[dir], heard[dir])
  BY <1>1, <1>3 DEF Writes, files
<1>6. intact[dir] = files /\ Whole(files) /\ OnlySummary(files, res)
  <2>1. Len(todo) = 0 /\ Len(todo) # 5
    BY <1>1
  <2> QED
    BY <1>5, <2>1 DEF Completing
<1>7. Told(files, sent[dir], heard[dir])
  BY <1>5, <1>6, SummaryTells
<1>8. IsFunction(files) /\ sent[dir] \in {0, 1}
      /\ (sent[dir] = 1 => RequestFiles \subseteq DOMAIN files)
  BY <1>3 DEF Stored, files
<1> DEFINE d == disk'[dir]
<1>9. d.state = "final" /\ d.files = files /\ d = [state |-> d.state, files |-> d.files]
  BY <1>4
<1> HIDE DEF d
<1>10. Stored(d, files, sent[dir], heard[dir])
  BY <1>6, <1>7, <1>8, <1>9 DEF Stored
<1>11. sent' = sent /\ heard' = heard /\ intact' = intact
  BY <1>1 DEF history
<1>12. Stored(disk'[dir], intact'[dir], sent'[dir], heard'[dir])
  BY <1>6, <1>10, <1>11 DEF d
<1>13. AllStored'
  BY <1>3, <1>4, <1>11, <1>12, OneDirectory
<1> QED
  BY <1>1, <1>13, Ends

\* A changed, lost or added file: the manifest stays what it was, or is none any more.
LEMMA StoredDamaged ==
    ASSUME NEW d, NEW w, NEW s, NEW h, Stored(d, w, s, h), d.state = "final",
           NEW files, IsFunction(files),
           SumsPath \in DOMAIN files =>
              \/ files[SumsPath] = Garbage
              \/ SumsPath \in DOMAIN d.files /\ files[SumsPath] = d.files[SumsPath]
    PROVE  Stored([d EXCEPT !.files = files], w, s, h)
<1> DEFINE e == [d EXCEPT !.files = files]
<1>1. e = [state |-> "final", files |-> files]
  BY DEF Stored
<1> HIDE DEF e
<1>2. e.state = "final" /\ e.files = files /\ e = [state |-> e.state, files |-> e.files]
  BY <1>1
<1>3. Stored(e, w, s, h)
  BY <1>2 DEF Stored
<1> QED
  BY <1>3 DEF e

LEMMA DamageStep == ASSUME IInv, NEW id \in RunIds, NEW path, Damage(id, path) PROVE IInv'
<1>1. /\ disk[id].state = "final" /\ UNCHANGED <<pc, cmd, res, todo, dir, response, history>>
      /\ \/ disk' = [disk EXCEPT ![id].files = Put(@, path, Garbage)]
         \/ /\ path \in DOMAIN disk[id].files
            /\ disk' = [disk EXCEPT ![id].files = [p \in DOMAIN @ \ {path} |-> @[p]]]
  BY DEF Damage, transaction
<1>2. /\ AllStored /\ DOMAIN disk = RunIds /\ DOMAIN intact = RunIds
      /\ DOMAIN sent = RunIds /\ DOMAIN heard = RunIds
      /\ Stored(disk[id], intact[id], sent[id], heard[id])
  BY DEF IInv, AllStored
<1> DEFINE old == disk[id].files
           put == Put(old, path, Garbage)
           lost == [p \in DOMAIN old \ {path} |-> old[p]]
<1>3. PICK files \in {put, lost} : disk' = [disk EXCEPT ![id].files = files]
  BY <1>1
<1>4. IsFunction(files)
  BY <1>3, PutIsFunction DEF IsFunction
<1>5. SumsPath \in DOMAIN files =>
         files[SumsPath] = Garbage
         \/ (SumsPath \in DOMAIN old /\ files[SumsPath] = old[SumsPath])
  <2>1. CASE files = lost
    BY <2>1
  <2>2. CASE files = put
    <3>1. DOMAIN put = DOMAIN old \cup {path} /\ put[path] = Garbage
      BY DEF Put
    <3>2. SumsPath \in DOMAIN old /\ SumsPath # path => put[SumsPath] = old[SumsPath]
      BY PutElsewhere
    <3> QED
      BY <2>2, <3>1, <3>2
  <2> QED
    BY <1>3, <2>1, <2>2
<1>6. Stored([disk[id] EXCEPT !.files = files], intact[id], sent[id], heard[id])
  BY <1>1, <1>2, <1>4, <1>5, StoredDamaged
<1> HIDE DEF put, lost
<1>7. disk'[id] = [disk[id] EXCEPT !.files = files] /\ DOMAIN disk' = RunIds
      /\ \A x \in RunIds \ {id} : disk'[x] = disk[x]
  BY <1>2, <1>3
<1>8. sent' = sent /\ heard' = heard /\ intact' = intact
  BY <1>1 DEF history
<1>9. AllStored'
  BY <1>2, <1>6, <1>7, <1>8, OneDirectory
<1>10. ASSUME pc \in Working PROVE dir' \in RunIds /\ Writes(disk[dir], sent[dir], heard[dir])'
  <2>1. dir \in RunIds /\ Writes(disk[dir], sent[dir], heard[dir])
        /\ disk[dir].state = "inprogress"
    BY <1>10, AtWork
  <2>2. dir # id
    BY <1>1, <2>1
  <2>3. disk'[dir] = disk[dir]
    BY <1>7, <2>1, <2>2
  <2> QED
    BY <1>1, <1>8, <2>1, <2>3 DEF Writes
<1>11. pc = "begin" => Prepared'
  BY <1>1 DEF IInv, ProcInv, Prepared
<1> QED
  BY <1>1, <1>9, <1>10, <1>11 DEF IInv, ProcInv

LEMMA StepInv == IInv /\ [Next]_vars => IInv'
<1> SUFFICES ASSUME IInv, [Next]_vars PROVE IInv'
  OBVIOUS
<1>1. CASE UNCHANGED vars
  <2>1. /\ pc' = pc /\ cmd' = cmd /\ res' = res /\ dir' = dir /\ todo' = todo
        /\ response' = response /\ disk' = disk /\ intact' = intact /\ sent' = sent
        /\ heard' = heard
    BY <1>1 DEF vars
  <2> QED
    BY <2>1 DEF IInv, AllStored, ProcInv, Prepared, Writes
<1>2. ASSUME NEW a \in Commands, Start(a) PROVE IInv'
  BY <1>2, StartUdpExchangeStep, StartOfflineStep, StartCompareStep DEF Start
<1>3. CASE Process
  <2>1. ASSUME NEW id \in RunIds, Begin(id) PROVE IInv'
    BY <2>1, BeginStep
  <2>2. CASE WriteVerified
    <3>1. pc \in {"writing", "receiving"} \/ pc = "completing"
      BY <2>2 DEF WriteVerified
    <3> QED
      BY <2>2, <3>1, WriteDataStep, WriteSummaryStep
  <2>3. ASSUME NEW ok \in BOOLEAN, SendTo(ok) PROVE IInv'
    BY <2>3, SendToStep
  <2>4. ASSUME NEW status \in {"TIMEOUT", "RECEIVE_FAILED"}, GiveUp(status) PROVE IInv'
    BY <2>4, GiveUpStep
  <2> QED
    BY <1>3, <2>1, <2>2, <2>3, <2>4, FailRecordStep, RequestRecordedStep,
       OfflineFrameRecordedStep, OpenSocketStep, ReceiveFromStep, ResponseRecordedStep,
       JudgeStep, PublishStep DEF Process
<1>4. CASE Environment
  <2>1. ASSUME NEW from, NEW frame, Arrive(from, frame) PROVE IInv'
    BY <2>1, ArriveStep
  <2>2. ASSUME NEW id \in RunIds, NEW path, Damage(id, path) PROVE IInv'
    BY <2>2, DamageStep
  <2> QED
    BY <1>4, <2>1, <2>2, CrashStep DEF Environment
<1> QED
  BY <1>1, <1>2, <1>3, <1>4 DEF Next

\* In every state the program reaches, each run directory is in order with its history and
\* the process with its directory.
THEOREM Invariant == Spec => []IInv
  BY InitInv, StepInv, PTL DEF Spec

-----------------------------------------------------------------------------
(***************************************************************************)
(* What follows.                                                           *)
(***************************************************************************)

\* A datagram leaves the process (sendto in RunUdpExchange) only when the configuration, the
\* values and the request are already on disk, and at most one leaves per run.
THEOREM SentRecorded == Spec => []SentIsRecorded
<1>1. IInv => SentIsRecorded
  <2> SUFFICES ASSUME IInv, NEW id \in RunIds, sent[id] > 0
               PROVE  /\ sent[id] = 1
                      /\ RequestFiles \subseteq DOMAIN disk[id].files \cup DOMAIN intact[id]
    BY DEF SentIsRecorded, RequestFiles
  <2>1. Stored(disk[id], intact[id], sent[id], heard[id])
    BY DEF IInv, AllStored
  <2>2. sent[id] = 1
    BY <2>1 DEF Stored
  <2> QED
    BY <2>1, <2>2 DEF Stored
<1> QED
  BY <1>1, Invariant, PTL

\* A manifest that fits what is there is the one that was written, and lists all of it.
LEMMA AcceptedInv == IInv => AcceptedIsWritten
<1> SUFFICES ASSUME IInv, NEW id \in RunIds, LoadStoredRun(disk[id].files)
             PROVE  disk[id].files = intact[id]
  BY DEF AcceptedIsWritten
<1> DEFINE files == disk[id].files
           whole == intact[id]
<1>1. Stored(disk[id], whole, sent[id], heard[id])
  BY DEF IInv, AllStored
<1>2. VerifyBundleHashes(files)
  BY DEF LoadStoredRun
<1>3. IsFunction(files)
      /\ (SumsPath \in DOMAIN files =>
            files[SumsPath] = Garbage \/ (Whole(whole) /\ files[SumsPath] = whole[SumsPath]))
  BY <1>1 DEF Stored
<1> HIDE DEF files, whole
<1>4. Whole(whole) /\ files[SumsPath] = whole[SumsPath] /\ SumsPath \in DOMAIN files
  BY <1>2, <1>3 DEF VerifyBundleHashes, Readable
<1> DEFINE listed == DOMAIN files[SumsPath]
<1>5. listed = DOMAIN whole \ {SumsPath}
      /\ \A p \in listed : files[SumsPath][p] = Digest(whole[p])
  BY <1>4 DEF Whole
<1>6. /\ \A p \in listed : p \in DOMAIN files /\ Digest(files[p]) = files[SumsPath][p]
      /\ DOMAIN files \ {SumsPath} \subseteq listed
  BY <1>2 DEF VerifyBundleHashes, ListsGeneration, Holds
<1> HIDE DEF listed
<1>7. SumsPath \in DOMAIN whole /\ IsFunction(whole)
  BY <1>4 DEF Whole
<1>8. DOMAIN files = DOMAIN whole
  BY <1>4, <1>5, <1>6, <1>7
<1>9. ASSUME NEW p \in DOMAIN files PROVE files[p] = whole[p]
  <2>1. CASE p = SumsPath
    BY <1>4, <2>1
  <2>2. CASE p # SumsPath
    <3>1. p \in listed
      BY <1>6, <2>2
    <3>2. Digest(files[p]) = Digest(whole[p])
      BY <1>5, <1>6, <3>1
    <3> QED
      BY <3>2 DEF Digest
  <2> QED
    BY <2>1, <2>2
<1>10. files = whole
  BY <1>3, <1>7, <1>8, <1>9 DEF IsFunction
<1> QED
  BY <1>10 DEF files, whole

\* A bundle that LoadStoredRun accepts has every file its command wrote and nothing else: no
\* interrupted command, and no lost, changed or added file, goes unnoticed.
THEOREM AcceptedWritten == Spec => []AcceptedIsWritten
  BY AcceptedInv, Invariant, PTL

\* A published exchange tells what happened on the wire: whether a datagram was sent, and
\* which datagram was taken from whom.
THEOREM WireIsTold == Spec => []TellsTheWire
<1>1. IInv => TellsTheWire
  <2> SUFFICES ASSUME IInv, NEW id \in Published
               PROVE  LET run == RunOf(intact[id]) IN
                      /\ run.send_succeeded <=> sent[id] = 1
                      /\ run.response_received <=> heard[id] # <<>>
                      /\ heard[id] # <<>> =>
                            /\ run.received_from = heard[id][1].from
                            /\ run.rx_hex = HexUpper(heard[id][1].frame)
    BY DEF TellsTheWire
  <2> DEFINE files == intact[id]  s == sent[id]  h == heard[id]
  <2>1. Told(files, s, h)
    BY DEF IInv, AllStored, Stored, Published
  <2> HIDE DEF files, s, h
  <2>2. PICK g \in Formats :
           /\ Summaries(files) = {g}
           /\ DOMAIN files[ResultPath(g)] = DOMAIN SerializeResult(NewResult)
           /\ files[ResultPath(g)].send_succeeded = (s = 1)
           /\ files[ResultPath(g)].response_received = (h # <<>>)
           /\ h # <<>> => /\ files[ResultPath(g)].received_from = h[1].from
                          /\ files[ResultPath(g)].rx_hex = HexUpper(h[1].frame)
    BY <2>1, Zenon DEF Told
  <2> DEFINE summary == files[ResultPath(g)]
             run == RunOf(files)
  <2>3. run = StoredRun(summary)
    <3>1. (CHOOSE x \in Summaries(files) : TRUE) = g
      BY <2>2
    <3> QED
      BY <3>1 DEF RunOf
  <2> HIDE DEF run
  <2>4. DOMAIN summary = DOMAIN SerializeResult(NewResult)
    BY <2>2
  <2> HIDE DEF summary
  <2>5. /\ "send_succeeded" \in DOMAIN summary /\ "response_received" \in DOMAIN summary
        /\ "received_from" \in DOMAIN summary /\ "rx_hex" \in DOMAIN summary
    BY <2>4 DEF SerializeResult
  <2>6. /\ run.send_succeeded = summary.send_succeeded
        /\ run.response_received = summary.response_received
        /\ run.received_from = summary.received_from /\ run.rx_hex = summary.rx_hex
    BY <2>3, <2>5 DEF StoredRun
  <2>7. run.send_succeeded = (s = 1)
    BY <2>2, <2>6, Zenon DEF summary
  <2>8. run.response_received = (h # <<>>)
    BY <2>2, <2>6, Zenon DEF summary
  <2>9. h # <<>> => run.received_from = h[1].from /\ run.rx_hex = HexUpper(h[1].frame)
    BY <2>2, <2>6, Zenon DEF summary
  <2> QED
    BY <2>7, <2>8, <2>9, Zenon DEF run, files, s, h
<1> QED
  BY <1>1, Invariant, PTL

-----------------------------------------------------------------------------
(***************************************************************************)
(* What a result is a result of: the operation it belongs to, and what of  *)
(* it the codec executed.                                                  *)
(***************************************************************************)

IsOf(r, kind) == IsResult(r) /\ r.operation_kind = kind
SameLabel(a, b) ==
    IsResult(a) /\ a.operation_kind = b.operation_kind /\ a.replay_mode = b.replay_mode

\* The fields of a result that the lemmas below are about.
LEMMA LabelFields ==
    {"operation_kind", "replay_mode", "response_decoded", "remote", "received_from", "rx_frame",
     "exit_code", "schema", "command"} \subseteq DOMAIN NewResult
  BY DEF NewResult

\* The helpers that leave both labels alone.
LEMMA LabelKept ==
    ASSUME NEW r, IsResult(r)
    PROVE  /\ \A status, diagnostic : SameLabel(Failed(r, status, diagnostic), r)
           /\ SameLabel(FinalizeFingerprint(r), r)
           /\ SameLabel(NotCompared(r), r)
           /\ \A equal : SameLabel(WithComparison(r, equal), r)
           /\ \A stored : SameLabel(PreserveHistoricalTransport(stored, r), r)
           /\ \A x, y, z, u : SameLabel([r EXCEPT !.command = x, !.schema = y, !.config = z,
                                                  !.cross_config = u], r)
<1>1. "operation_kind" \in DOMAIN r /\ "replay_mode" \in DOMAIN r
  BY LabelFields DEF IsResult
<1>2. \A status, diagnostic : SameLabel(Failed(r, status, diagnostic), r)
  BY <1>1 DEF Failed, SameLabel, IsResult
<1>3. SameLabel(FinalizeFingerprint(r), r)
  BY <1>1 DEF FinalizeFingerprint, SameLabel, IsResult
<1>4. SameLabel(NotCompared(r), r)
  BY <1>1 DEF NotCompared, SameLabel, IsResult
<1>5. \A equal : SameLabel(WithComparison(r, equal), r)
  BY <1>1 DEF WithComparison, SameLabel, IsResult
<1>6. \A stored : SameLabel(PreserveHistoricalTransport(stored, r), r)
  BY <1>1 DEF PreserveHistoricalTransport, SameLabel, IsResult
<1>7. \A x, y, z, u : SameLabel([r EXCEPT !.command = x, !.schema = y, !.config = z,
                                          !.cross_config = u], r)
  BY <1>1 DEF SameLabel, IsResult
<1> QED
  BY <1>2, <1>3, <1>4, <1>5, <1>6, <1>7

\* Results with the same label as a third.
LEMMA SameLabelTrans ==
    ASSUME NEW a, NEW b, NEW c, SameLabel(a, b), SameLabel(b, c)
    PROVE  SameLabel(a, c)
  BY DEF SameLabel

\* The helpers that leave the operation alone, and those that set what was executed.
LEMMA OperationKept ==
    ASSUME NEW r, NEW kind, IsOf(r, kind)
    PROVE  /\ \A status, diagnostic : IsOf(Failed(r, status, diagnostic), kind)
           /\ \A mode, subject : /\ IsOf(Executed(r, mode, subject), kind)
                                 /\ Executed(r, mode, subject).replay_mode = mode
           /\ \A subject : /\ IsOf(NotExecuted(r, subject), kind)
                           /\ NotExecuted(r, subject).replay_mode = "NO_CODEC_REEXECUTION"
           /\ \A c, mode, subject : IsOf(Recorded(c, r, mode, subject), kind)
           /\ \A c, f : IsOf(Inspected(c, f, r), kind)
<1>1. "operation_kind" \in DOMAIN r /\ "replay_mode" \in DOMAIN r
  BY LabelFields DEF IsOf, IsResult
<1>2. \A status, diagnostic : IsOf(Failed(r, status, diagnostic), kind)
  BY <1>1 DEF Failed, IsOf, IsResult
<1>3. \A mode, subject : /\ IsOf(Executed(r, mode, subject), kind)
                         /\ Executed(r, mode, subject).replay_mode = mode
  BY <1>1 DEF Executed, IsOf, IsResult
<1>4. \A subject : /\ IsOf(NotExecuted(r, subject), kind)
                   /\ NotExecuted(r, subject).replay_mode = "NO_CODEC_REEXECUTION"
  BY <1>1 DEF NotExecuted, IsOf, IsResult
<1>5. \A c, mode, subject : IsOf(Recorded(c, r, mode, subject), kind)
  BY <1>3 DEF Recorded, IsOf
<1>6. \A c, f : IsOf(Inspected(c, f, r), kind)
  BY <1>1 DEF Inspected, IsOf, IsResult
<1> QED
  BY <1>2, <1>3, <1>4, <1>5, <1>6

\* Assignments to other fields leave the operation alone.
LEMMA OperationFields ==
    ASSUME NEW r, NEW kind, IsOf(r, kind)
    PROVE  /\ \A x : /\ IsOf([r EXCEPT !.status = x], kind) /\ IsOf([r EXCEPT !.frame = x], kind)
                     /\ IsOf([r EXCEPT !.command = x], kind)
           /\ \A x, y : IsOf([r EXCEPT !.pipeline = x, !.message = y], kind)
           /\ \A x, y, z : IsOf([r EXCEPT !.pipeline = x, !.status = y, !.message = z], kind)
           /\ \A x, y, z : IsOf([r EXCEPT !.status = x, !.frame = y, !.fields = z], kind)
<1>1. "operation_kind" \in DOMAIN r
  BY LabelFields DEF IsOf, IsResult
<1> QED
  BY <1>1 DEF IsOf, IsResult

\* BindCompiledPlan names the operation.
LEMMA BoundOperation ==
    ASSUME NEW c, NEW kind, NEW r, IsResult(r) PROVE IsOf(BindCompiledPlan(c, kind, r), kind)
<1>1. "operation_kind" \in DOMAIN r
  BY LabelFields DEF IsResult
<1> QED
  BY <1>1 DEF BindCompiledPlan, IsOf, IsResult

\* What InspectFrame answers is an inspection.
LEMMA InspectOperation == ASSUME NEW c, NEW f PROVE IsOf(InspectFrame(c, f), "inspect")
<1> DEFINE plan == PlanOf(c)
           base == [BindCompiledPlan(c, "inspect", NewResult) EXCEPT !.frame = f]
           r == IF plan.schema \in {"0.3", "0.4"}
                THEN MatchedIn(plan, Structural(plan, f), f, base)
                ELSE DecodedIn(plan, Decoded(plan, f), f, base)
<1>1. IsOf(base, "inspect")
  BY BoundOperation, OperationFields DEF IsResult
<1> HIDE DEF base
<1>2. \A i, s : IsOf(In(plan, i, f, s, base), "inspect")
  BY <1>1, OperationFields DEF In
<1>3. IsOf(MatchedIn(plan, Structural(plan, f), f, base), "inspect")
  BY <1>1, <1>2, OperationFields DEF MatchedIn
<1>4. IsOf(DecodedIn(plan, Decoded(plan, f), f, base), "inspect")
  BY <1>1, <1>2, OperationFields DEF DecodedIn
<1>5. IsOf(r, "inspect")
  BY <1>3, <1>4
<1> HIDE DEF r
<1>6. IsOf(Recorded(c, Inspected(c, f, r), "DECODE_RX", "RX"), "inspect")
  BY <1>5, OperationKept
<1> QED
  BY <1>6 DEF InspectFrame, r, base

\* What EncodeValues answers is an encoding.
LEMMA EncodeOperation == ASSUME NEW c, NEW text PROVE IsOf(EncodeValues(c, text), "encode")
<1> DEFINE base == [BindCompiledPlan(c, "encode", NewResult) EXCEPT
                      !.pipeline = text[1].pipeline, !.message = text[1].message]
           v == text[1]
<1>1. IsOf(base, "encode")
  BY BoundOperation, OperationFields DEF IsResult
<1> HIDE DEF base, v
<1>2. \A status, diagnostic : IsOf(Failed(base, status, diagnostic), "encode")
  BY <1>1, OperationKept
<1>3. \A message, fields, bad : IsOf(FirstRejected(base, message, fields, bad), "encode")
  BY <1>2 DEF FirstRejected, Refused
<1>4. \A out, review : IsOf(Reviewed(c, v, out, review, base), "encode")
  BY <1>1, <1>2, OperationFields DEF Reviewed
<1>5. IsOf(EncodedAs(c, v, text, base), "encode")
  BY <1>2, <1>3, <1>4 DEF EncodedAs
<1>6. IsOf(Recorded(c, EncodedAs(c, v, text, base), "ENCODE_TX", "TX"), "encode")
  BY <1>5, OperationKept
<1> QED
  BY <1>6 DEF EncodeValues, base, v

\* A failure after the plan is bound keeps the operation, and the mode it is told to keep.
LEMMA PostPlanLabel ==
    ASSUME NEW r, IsResult(r), NEW subject
    PROVE  /\ \A mode : FinalizePostPlanFailure(r, mode, subject).operation_kind = r.operation_kind
           /\ SameLabel(FinalizePostPlanFailure(r, r.replay_mode, subject), r)
<1> DEFINE kind == r.operation_kind
           done(x) == FinalizeFingerprint(NotCompared(x))
<1>1. IsOf(r, kind)
  BY DEF IsOf
<1>2. ASSUME NEW x, IsResult(x) PROVE SameLabel(done(x), x)
  <2>1. SameLabel(NotCompared(x), x)
    BY <1>2, LabelKept
  <2>2. SameLabel(done(x), NotCompared(x))
    <3> DEFINE y == NotCompared(x)
    <3>1. IsResult(y)
      BY <2>1 DEF SameLabel
    <3> HIDE DEF y
    <3>2. SameLabel(FinalizeFingerprint(y), y)
      BY <3>1, LabelKept
    <3> QED
      BY <3>2 DEF y
  <2> QED
    BY <2>1, <2>2, SameLabelTrans
<1>3. /\ IsOf(NotExecuted(r, subject), kind)
      /\ NotExecuted(r, subject).replay_mode = "NO_CODEC_REEXECUTION"
      /\ \A mode : /\ IsOf(Executed(r, mode, subject), kind)
                   /\ Executed(r, mode, subject).replay_mode = mode
  BY <1>1, OperationKept
<1>4. /\ SameLabel(done(NotExecuted(r, subject)), NotExecuted(r, subject))
      /\ \A mode : SameLabel(done(Executed(r, mode, subject)), Executed(r, mode, subject))
  BY <1>2, <1>3 DEF IsOf
<1>5. \A mode : FinalizePostPlanFailure(r, mode, subject) =
         IF r.schema = "0.1" THEN r
         ELSE IF mode = "NO_CODEC_REEXECUTION" THEN done(NotExecuted(r, subject))
              ELSE done(Executed(r, mode, subject))
  BY DEF FinalizePostPlanFailure
<1> HIDE DEF done
<1> QED
  BY <1>3, <1>4, <1>5 DEF SameLabel, IsOf

\* InspectWithinPlanLimit keeps the operation or makes it an inspection.
LEMMA WithinLimitOperation ==
    ASSUME NEW c, NEW f, NEW r, IsResult(r)
    PROVE  InspectWithinPlanLimit(c, f, r).operation_kind \in {"inspect", r.operation_kind}
<1> DEFINE kind == r.operation_kind
           framed == Failed([r EXCEPT !.frame = f], "INPUT_ERROR", "FRAME_LIMIT_EXCEEDED")
<1>1. IsOf(r, kind)
  BY DEF IsOf
<1>2. IsOf(framed, kind)
  <2> DEFINE e == [r EXCEPT !.frame = f]
  <2>1. IsOf(e, kind)
    BY <1>1, OperationFields
  <2> HIDE DEF e, kind
  <2>2. IsOf(Failed(e, "INPUT_ERROR", "FRAME_LIMIT_EXCEEDED"), kind)
    BY <2>1, OperationKept
  <2> QED
    BY <2>2 DEF e
<1> HIDE DEF framed, kind
<1>3. FinalizePostPlanFailure(framed, "DECODE_RX", "RX").operation_kind = kind
  BY <1>2, PostPlanLabel DEF IsOf
<1>4. InspectFrame(c, f).operation_kind = "inspect"
  BY InspectOperation DEF IsOf
<1> QED
  BY <1>3, <1>4 DEF InspectWithinPlanLimit, framed, kind

-----------------------------------------------------------------------------
(***************************************************************************)
(* Whose answer a run tells.  A second invariant, on top of the first: the *)
(* process of an exchange says that it decoded only what it judged, a      *)
(* replay only what the run it replays says, and an exit code of zero what *)
(* is published.                                                           *)
(***************************************************************************)

NoName == ""

\* A result, or a stored run, of an exchange whose answer was decoded.
Decodes(r) == r.operation_kind = "udp-exchange" /\ r.replay_mode = "DECODE_RX"

\* The answer taken, if there is one, came from the remote endpoint and fits the plan.
Believed(h, remote, c) ==
    h # <<>> => h[1].from = remote /\ ~(FrameSize[h[1].frame] > PlanOf(c).limit)

\* A published run whose answer was decoded, by an exchange or by a replay of one.
FinalSound(id) ==
    (disk[id].state = "final" /\ Decodes(RunOf(intact[id]))) =>
        /\ Believed(heard[id], RunOf(intact[id]).remote, intact[id][ConfigPath])
        /\ parent[id] # NoName => /\ parent[id] \in RunIds /\ disk[parent[id]].state = "final"
                                  /\ Decodes(RunOf(intact[parent[id]]))

\* The process of an exchange.
Exchanging ==
    /\ res.operation_kind = "udp-exchange" /\ res.remote = cmd.remote /\ config = cmd.config
    /\ pc # "completing" => res.replay_mode = "ENCODE_TX"
    /\ pc \in InExchange => cmd.send
    /\ pc = "completing" =>
          /\ ConfigPath \in DOMAIN disk[dir].files
          /\ res.replay_mode = "DECODE_RX" => Believed(heard[dir], cmd.remote, config)
          /\ cmd.send /\ cmd.expect = NoName /\ res.exit_code = 0 =>
                res.response_decoded = TRUE /\ res.replay_mode = "DECODE_RX"

\* The process of another command.
Offline ==
    /\ pc \notin InExchange
    /\ Decodes(res) => /\ cmd.command = "replay" /\ cmd.bundle \in RunIds
                       /\ disk[cmd.bundle].state = "final" /\ Decodes(RunOf(intact[cmd.bundle]))

\* A process and its directory.
Recording ==
    /\ parent[dir] = IF cmd.command = "replay" THEN cmd.bundle ELSE NoName
    /\ ConfigPath \in DOMAIN disk[dir].files => disk[dir].files[ConfigPath] = config
    /\ cmd.command # "udp-exchange" => heard[dir] = <<>>

\* What an exit code of zero says of an exchange that got as far as a directory.
ZeroHeld ==
    (pc = "idle" /\ exit = 0 /\ cmd.command = "udp-exchange" /\ cmd.expect = NoName /\ dir # NoName) =>
        /\ dir \in RunIds /\ disk[dir].state = "final"
        /\ cmd.send => /\ RunOf(intact[dir]).response_decoded = TRUE
                       /\ RunOf(intact[dir]).replay_mode = "DECODE_RX"

JudgeInv ==
    /\ DOMAIN parent = RunIds
    /\ \A id \in RunIds : FinalSound(id)
    /\ pc # "idle" => IF cmd.command = "udp-exchange" THEN Exchanging ELSE Offline
    /\ pc \in Working => Recording
    /\ ZeroHeld

\* A replay of an exchange decodes an answer only where the exchange did.
LEMMA ReplayExchangeMode ==
    ASSUME NEW c, NEW files, NEW stored, NEW base, IsResult(base),
           ReplayExchange(c, files, stored, base).replay_mode = "DECODE_RX"
    PROVE  stored.replay_mode = "DECODE_RX"
<1> DEFINE uses_rx == \/ stored.replay_mode = "DECODE_RX"
                      \/ /\ stored.replay_mode = "NO_CODEC_REEXECUTION"
                         /\ stored.replay_subject \in {"RX", "RX_INCOMPLETE"}
           ParseFrameHex(hex) == IF hex = <<>> THEN EmptyFrame ELSE hex[1]
           rx == IF uses_rx THEN ParseFrameHex(stored.rx_hex) ELSE EmptyFrame
           tx == ParseFrameHex(stored.tx_hex)
           encoded == Executed(EncodeValues(c, files[ValuesPath]), "ENCODE_TX", "TX")
           decoded == DecodedAgain(InspectFrameInPipeline(c, stored.receive_pipeline, rx))
           verified == [NotExecuted(base, stored.replay_subject) EXCEPT
                          !.status = "EVIDENCE_VERIFIED", !.comparison = "NOT_EVALUATED",
                          !.frame = IF uses_rx THEN rx ELSE tx]
           r == CASE stored.replay_mode = "ENCODE_TX" -> encoded
                  [] stored.replay_mode = "DECODE_RX" -> decoded
                  [] OTHER -> verified
           done == [r EXCEPT !.operation_kind = "udp-exchange", !.frame_file = FrameStem,
                             !.tx_frame = tx, !.rx_frame = rx,
                             !.receive_pipeline = stored.receive_pipeline]
<1>1. encoded.replay_mode = "ENCODE_TX" /\ IsResult(encoded)
  BY EncodeOperation, OperationKept DEF IsOf
<1>2. verified.replay_mode = "NO_CODEC_REEXECUTION" /\ IsResult(verified)
  <2> DEFINE e == NotExecuted(base, stored.replay_subject)
  <2>1. IsOf(base, base.operation_kind)
    BY DEF IsOf
  <2>2. IsResult(e) /\ e.replay_mode = "NO_CODEC_REEXECUTION"
    BY <2>1, OperationKept DEF IsOf
  <2> HIDE DEF e, rx, tx, uses_rx
  <2>3. "replay_mode" \in DOMAIN e
    BY <2>2, LabelFields DEF IsResult
  <2> QED
    BY <2>2, <2>3 DEF IsResult, e
<1>3. done.replay_mode = "DECODE_RX"
  BY DEF ReplayExchange
<1> HIDE DEF encoded, decoded, verified, rx, tx, uses_rx
<1>4. ASSUME stored.replay_mode # "DECODE_RX" PROVE FALSE
  <2>1. r = encoded \/ r = verified
    BY <1>4
  <2> HIDE DEF r
  <2>2. IsResult(r) /\ r.replay_mode # "DECODE_RX"
    BY <1>1, <1>2, <2>1
  <2>3. "replay_mode" \in DOMAIN r
    BY <2>2, LabelFields DEF IsResult
  <2>4. done.replay_mode = r.replay_mode
    BY <2>3
  <2> QED
    BY <1>3, <2>2, <2>4
<1> QED
  BY <1>4

\* What inspect and encode answer is no exchange.
LEMMA OfflineOperation ==
    ASSUME NEW a, a.command # "udp-exchange"
    PROVE  RunInspectOrEncode(a).res.operation_kind # "udp-exchange"
<1> DEFINE base == [NewResult EXCEPT !.command = a.command, !.config = a.config]
           bound == BindCompiledPlan(a.config, a.command, base)
           Allowed(r) == r.operation_kind # "udp-exchange"
<1>1. IsResult(base) /\ base.operation_kind = ""
  BY DEF NewResult, IsResult
<1> HIDE DEF base
<1>2. IsOf(bound, a.command)
  BY <1>1, BoundOperation
<1> HIDE DEF bound
<1>3. ASSUME NEW x, NEW mode, NEW subject
      PROVE  Allowed(FinalizePostPlanFailure(Failed(bound, x, x), mode, subject))
  <2> DEFINE f == Failed(bound, x, x)
  <2>1. IsOf(f, a.command)
    BY <1>2, OperationKept
  <2> HIDE DEF f
  <2>2. FinalizePostPlanFailure(f, mode, subject).operation_kind = a.command
    BY <2>1, PostPlanLabel DEF IsOf
  <2> QED
    BY <2>2 DEF f
<1> DEFINE misconfigured == Failed(base, "CONFIG_COMPILE_FAILED", "CONFIG_COMPILE_FAILED")
           refusal(x, mode, subject) ==
               FinalizePostPlanFailure(
                  Failed(bound, x, IF x = "INPUT_ERROR" THEN IF mode = "DECODE_RX"
                         THEN "FRAME_INPUT_ERROR" ELSE "VALUES_INPUT_ERROR" ELSE x), mode, subject)
           looked == InspectWithinPlanLimit(a.config, a.frame, bound)
           coded == EncodeValues(a.config, a.values)
<1>4. Allowed(misconfigured)
  <2>1. IsOf(base, "")
    BY <1>1 DEF IsOf
  <2>2. IsOf(misconfigured, "")
    BY <2>1, OperationKept
  <2> QED
    BY <2>2 DEF IsOf
<1>5. ASSUME NEW x, NEW y, NEW mode, NEW subject
      PROVE  Allowed(FinalizePostPlanFailure(Failed(bound, x, y), mode, subject))
  <2> DEFINE f == Failed(bound, x, y)
  <2>1. IsOf(f, a.command)
    BY <1>2, OperationKept
  <2> HIDE DEF f
  <2>2. FinalizePostPlanFailure(f, mode, subject).operation_kind = a.command
    BY <2>1, PostPlanLabel DEF IsOf
  <2> QED
    BY <2>2 DEF f
<1>6. IsResult(looked) /\ Allowed(looked)
  <2>1. looked.operation_kind \in {"inspect", a.command}
    BY <1>2, WithinLimitOperation DEF IsOf
  <2>2. IsResult(looked)
    <3>1. Quiet(base)
      BY QuietNew, QuietFields DEF base
    <3>2. Quiet(bound)
      BY <3>1, QuietSteps DEF bound
    <3> QED
      BY <3>2, QuietWithinLimit DEF Quiet
  <2> QED
    BY <2>1, <2>2
<1>7. IsResult(coded) /\ Allowed(coded)
  BY EncodeOperation DEF IsOf
<1>8. ASSUME NEW r, NEW v, IsResult(r), Allowed(r) PROVE Allowed(Ended(a, r, v).res)
  <2> DEFINE named == [r EXCEPT !.command = a.command]
  <2>1. IsOf(r, r.operation_kind)
    BY <1>8 DEF IsOf
  <2>2. IsOf(named, r.operation_kind)
    BY <2>1, OperationFields
  <2> HIDE DEF named
  <2>3. SameLabel(FinalizeFingerprint(named), named)
    BY <2>2, LabelKept DEF IsOf
  <2> DEFINE full == FinalizeFingerprint(named)
             code == IF r.status = "OK" THEN 0 ELSE 5
  <2>4. Ended(a, r, v) = Outcome(full, code, v, TRUE, FALSE)
    BY Zenon DEF Ended, named
  <2>5. full.operation_kind = r.operation_kind
    BY <2>2, <2>3 DEF SameLabel, IsOf
  <2> HIDE DEF full, code
  <2>6. Ended(a, r, v).res = full
    BY <2>4 DEF Outcome
  <2> QED
    BY <1>8, <2>5, <2>6, Zenon
<1>9. Allowed(Ended(a, looked, <<>>).res) /\ Allowed(Ended(a, coded, <<a.values>>).res)
  <2> HIDE DEF looked, coded
  <2> QED
    BY <1>6, <1>7, <1>8
<1> DEFINE unframed == FinalizePostPlanFailure(Failed(bound, "INPUT_ERROR", "FRAME_INPUT_ERROR"),
                                               "DECODE_RX", "RX")
           unread == FinalizePostPlanFailure(Failed(bound, "INPUT_ERROR", "VALUES_INPUT_ERROR"),
                                             "ENCODE_TX", "TX")
           unparsed == FinalizePostPlanFailure(Failed(bound, "VALUES_INVALID", "VALUES_INVALID"),
                                               "ENCODE_TX", "TX")
<1>10. Allowed(unframed) /\ Allowed(unread) /\ Allowed(unparsed)
  BY <1>5
<1>11. \/ RunInspectOrEncode(a) = Outcome(misconfigured, 4, <<>>, TRUE, FALSE)
       \/ RunInspectOrEncode(a) = Outcome(unframed, 3, <<>>, FALSE, FALSE)
       \/ RunInspectOrEncode(a) = Outcome(looked, 3, <<>>, TRUE, FALSE)
       \/ RunInspectOrEncode(a) = Ended(a, looked, <<>>)
       \/ RunInspectOrEncode(a) = Outcome(unread, 3, <<>>, FALSE, FALSE)
       \/ RunInspectOrEncode(a) = Outcome(unparsed, 5, <<a.values>>, TRUE, FALSE)
       \/ RunInspectOrEncode(a) = Ended(a, coded, <<a.values>>)
  BY Zenon DEF RunInspectOrEncode, misconfigured, unframed, looked, unread, unparsed, coded, base,
       bound
<1> DEFINE out == RunInspectOrEncode(a)
<1> HIDE DEF misconfigured, unframed, looked, unread, unparsed, coded, out, Allowed
<1>12. \/ out.res \in {misconfigured, unframed, looked, unread, unparsed}
       \/ out = Ended(a, looked, <<>>) \/ out = Ended(a, coded, <<a.values>>)
  BY <1>11 DEF Outcome, out
<1>13. Allowed(out.res)
  BY <1>4, <1>6, <1>9, <1>10, <1>12
<1> QED
  BY <1>13 DEF Allowed, out

\* A replay says that an answer was decoded only of a stored run that says so.
LEMMA ReplayDecodes ==
    ASSUME NEW a, NEW files, Decodes(RunReplay(a, files).res)
    PROVE  LoadStoredRun(files) /\ Decodes(RunOf(files))
<1> DEFINE stored == RunOf(files)
           kind == stored.operation_kind
           c == ReplayConfig(a, files)
           base == ReplayStart(a, files)
           out == RunReplay(a, files)
<1>1. /\ IsResult(base) /\ base.operation_kind = kind
      /\ kind = "udp-exchange" => base.replay_mode = stored.replay_mode
  <2> DEFINE bound == BindCompiledPlan(c, kind, NewResult)
             first == ReplayBase(a, c, stored)
  <2>1. IsOf(bound, kind)
    BY BoundOperation DEF IsResult
  <2> HIDE DEF bound
  <2>2. IsResult(first) /\ first.operation_kind = kind
        /\ (kind = "udp-exchange" => first.replay_mode = stored.replay_mode)
    <3> DEFINE mode == CASE kind = "inspect" -> <<"DECODE_RX", "RX">>
                         [] kind = "encode" -> <<"ENCODE_TX", "TX">>
                         [] OTHER -> <<stored.replay_mode, stored.replay_subject>>
    <3>1. kind = "udp-exchange" => mode[1] = stored.replay_mode
      OBVIOUS
    <3> HIDE DEF mode
    <3>2. first = [bound EXCEPT !.command = "replay", !.cross_config = a.config # "",
                                !.receive_pipeline = stored.receive_pipeline,
                                !.replay_mode = mode[1], !.replay_subject = mode[2]]
      BY DEF ReplayBase, bound, mode
    <3>3. "operation_kind" \in DOMAIN bound /\ "replay_mode" \in DOMAIN bound
      BY <2>1, LabelFields DEF IsOf, IsResult
    <3> HIDE DEF first, kind
    <3> QED
      BY <2>1, <3>1, <3>2, <3>3 DEF IsOf, IsResult
  <2> HIDE DEF first
  <2>3. SameLabel(PreserveHistoricalTransport(stored, first), first)
    BY <2>2, LabelKept
  <2> QED
    BY <2>2, <2>3 DEF SameLabel, ReplayStart, first
<1> HIDE DEF base
<1>2. ASSUME NEW r, NEW v, IsResult(r), NEW cmp, cmp = ReplayCompared(a, files, r, v).res
      PROVE  SameLabel(cmp, r)
  <2> DEFINE named == [r EXCEPT !.command = "replay", !.schema = PlanOf(c).schema, !.config = c,
                                !.cross_config = a.config # ""]
             preserved == PreserveHistoricalTransport(stored, named)
             full == FinalizeFingerprint(preserved)
  <2>1. SameLabel(named, r)
    BY <1>2, LabelKept
  <2> HIDE DEF named
  <2>2. SameLabel(preserved, named)
    BY <2>1, LabelKept DEF SameLabel
  <2> HIDE DEF preserved
  <2>3. SameLabel(full, preserved)
    BY <2>2, LabelKept DEF SameLabel
  <2> HIDE DEF full
  <2>4. SameLabel(full, r)
    BY <2>1, <2>2, <2>3, SameLabelTrans
  <2>5. SameLabel(Compared(stored, full), r)
    <3>1. \A equal : SameLabel(WithComparison(full, equal), full)
      BY <2>3, LabelKept DEF SameLabel
    <3> QED
      BY <2>4, <3>1, SameLabelTrans DEF Compared
  <2>6. CompareReplay(a, c, stored, r) = Compared(stored, full)
    BY Zenon DEF CompareReplay, full, preserved, named
  <2> DEFINE last == Compared(stored, full)
  <2>7. cmp = last
    <3> HIDE DEF last, c, stored
    <3>1. Replayed(last, v).res = last
      BY DEF Replayed, Outcome
    <3>2. ReplayCompared(a, files, r, v) = Replayed(last, v)
      BY <2>6, Zenon DEF ReplayCompared, last, c, stored
    <3> QED
      BY <1>2, <3>1, <3>2
  <2> QED
    BY <2>5, <2>7
<1>3. ASSUME NEW status, NEW diagnostic, NEW v,
             out = ReplayRefused(a, files, status, diagnostic, v)
      PROVE  Decodes(stored)
  <2> DEFINE failed == Failed(base, status, diagnostic)
             full == FinalizePostPlanFailure(failed, base.replay_mode, base.replay_subject)
  <2>1. SameLabel(failed, base)
    BY <1>1, LabelKept
  <2> HIDE DEF failed
  <2>2. full = FinalizePostPlanFailure(failed, failed.replay_mode, base.replay_subject)
    BY <2>1 DEF SameLabel
  <2>3. SameLabel(FinalizePostPlanFailure(failed, failed.replay_mode, base.replay_subject), failed)
    BY <2>1, PostPlanLabel DEF SameLabel
  <2>4. SameLabel(full, base)
    BY <2>1, <2>2, <2>3, SameLabelTrans
  <2> DEFINE record == stored.operation_kind \notin {"encode", "udp-exchange"} \/ v # <<>>
  <2>5. out = Outcome(full, 3, v, record, FALSE)
    <3> HIDE DEF out
    <3> QED
      BY <1>3, Zenon DEF ReplayRefused, full, failed, base
  <2> HIDE DEF full, record
  <2>6. out.res = full
    BY <2>5 DEF Outcome
  <2> QED
    BY <1>1, <2>4, <2>6 DEF SameLabel, Decodes
<1>4. ASSUME NEW f, NEW v, kind = "inspect",
             out = ReplayCompared(a, files, InspectWithinPlanLimit(c, f, base), v)
      PROVE  FALSE
  <2> DEFINE r == InspectWithinPlanLimit(c, f, base)
  <2>1. r.operation_kind \in {"inspect", base.operation_kind}
    BY <1>1, WithinLimitOperation
  <2>2. IsResult(r)
    <3>1. Quiet(base)
      BY QuietReplayBase DEF base, ReplayStart
    <3> QED
      BY <3>1, QuietWithinLimit DEF Quiet
  <2> HIDE DEF r
  <2>3. SameLabel(out.res, r)
    BY <1>2, <1>4, <2>2 DEF r
  <2> QED
    BY <1>1, <1>4, <2>1, <2>3 DEF SameLabel, Decodes
<1>5. ASSUME NEW text, NEW v, out = ReplayCompared(a, files, EncodeValues(c, text), v)
      PROVE  FALSE
  <2>1. IsOf(EncodeValues(c, text), "encode")
    BY EncodeOperation
  <2>2. SameLabel(out.res, EncodeValues(c, text))
    BY <1>2, <1>5, <2>1 DEF IsOf
  <2> QED
    BY <2>1, <2>2 DEF SameLabel, IsOf, Decodes
<1>6. ASSUME NEW v, kind = "udp-exchange",
             out = ReplayCompared(a, files, ReplayExchange(c, files, stored, base), v)
      PROVE  Decodes(stored)
  <2> DEFINE full == ReplayExchange(c, files, stored, base)
  <2>1. IsResult(full)
    <3>1. Quiet(base)
      BY QuietReplayBase DEF base, ReplayStart
    <3> QED
      BY <3>1, QuietReplayExchange DEF Quiet
  <2> HIDE DEF full
  <2>2. SameLabel(out.res, full)
    BY <1>2, <1>6, <2>1 DEF full
  <2>3. full.replay_mode = "DECODE_RX" => stored.replay_mode = "DECODE_RX"
    BY <1>1, ReplayExchangeMode DEF full
  <2> QED
    BY <1>6, <2>2, <2>3 DEF SameLabel, Decodes
<1>7. RunUnread.operation_kind # "udp-exchange"
      /\ RunUncompiled(c).operation_kind # "udp-exchange"
  BY DEF RunUnread, RunUncompiled, Failed, NewResult
<1> HIDE DEF c, stored, kind
<1>8. \/ out = Outcome(RunUnread, 3, <<>>, FALSE, FALSE)
      \/ out = Outcome(RunUncompiled(c), 4, <<>>, TRUE, FALSE)
      \/ /\ LoadStoredRun(files)
         /\ \E status, diagnostic, v : out = ReplayRefused(a, files, status, diagnostic, v)
      \/ /\ kind = "inspect"
         /\ \E f, v : out = ReplayCompared(a, files, InspectWithinPlanLimit(c, f, base), v)
      \/ \E text, v : out = ReplayCompared(a, files, EncodeValues(c, text), v)
      \/ /\ LoadStoredRun(files) /\ kind = "udp-exchange"
         /\ \E v : out = ReplayCompared(a, files, ReplayExchange(c, files, stored, base), v)
  BY ReplayCases, Zenon DEF c, base, stored, kind
<1> HIDE DEF out
<1>9. LoadStoredRun(files) /\ Decodes(stored)
  <2>1. CASE out = Outcome(RunUnread, 3, <<>>, FALSE, FALSE)
             \/ out = Outcome(RunUncompiled(c), 4, <<>>, TRUE, FALSE)
    <3>1. out.res \in {RunUnread, RunUncompiled(c)}
      BY <2>1 DEF Outcome
    <3> QED
      BY <1>7, <3>1 DEF Decodes, out
  <2> QED
    BY <1>3, <1>4, <1>5, <1>6, <1>8, <2>1
<1> QED
  BY <1>9 DEF stored

\* The result with which an exchange begins.
LEMMA PreparedLabel ==
    ASSUME NEW a
    PROVE  LET r == UdpPrepared(a) IN
           /\ IsOf(r, "udp-exchange") /\ r.replay_mode = "ENCODE_TX" /\ r.remote = a.remote
<1> DEFINE e == Executed(EncodeValues(a.config, a.values), "ENCODE_TX", "TX")
<1>1. IsOf(e, "encode") /\ e.replay_mode = "ENCODE_TX"
  BY EncodeOperation, OperationKept
<1> HIDE DEF e
<1>2. /\ "operation_kind" \in DOMAIN e /\ "replay_mode" \in DOMAIN e /\ "remote" \in DOMAIN e
  BY <1>1, LabelFields DEF IsOf, IsResult
<1>3. UdpPrepared(a) = AsExchange(a, e)
  BY DEF UdpPrepared, e
<1> QED
  BY <1>1, <1>2, <1>3 DEF AsExchange, IsOf, IsResult

\* What is said of the judgement of a result.
SoundlyJudged(a, r, status, out) ==
    /\ out.res.operation_kind = "udp-exchange" /\ out.res.remote = r.remote
    /\ out.res.replay_mode = "DECODE_RX" =>
          status = "OK" /\ PeerMatches(a, r) /\ ~(FrameSize[r.rx_frame] > PlanOf(a.config).limit)
    /\ out.exit = 0 => out.res.response_decoded = TRUE /\ out.res.replay_mode = "DECODE_RX"

\* JudgeResponse gives to the codec only an answer of the remote endpoint that fits the plan,
\* and it is content only with an answer that was decoded.
LEMMA JudgedSound ==
    ASSUME NEW a, NEW r, NEW status, IsOf(r, "udp-exchange"), r.replay_mode = "ENCODE_TX"
    PROVE  SoundlyJudged(a, r, status, JudgeResponse(a, r, status))
<1> DEFINE failed == Failed(r, IF status = "TIMEOUT" THEN "TIMEOUT" ELSE "TRANSPORT_FAILED", status)
           foreign == Failed(r, "TRANSPORT_FAILED", "UDP_PEER_MISMATCH")
           large == Failed(r, "TRANSPORT_FAILED", "UDP_DATAGRAM_TOO_LARGE")
           answer == InspectFrameInPipeline(a.config, a.receive_pipeline, r.rx_frame)
           big == FrameSize[r.rx_frame] > PlanOf(a.config).limit
           out == JudgeResponse(a, r, status)
           Held(x) == /\ IsOf(x, "udp-exchange") /\ x.remote = r.remote
                      /\ x.replay_mode # "DECODE_RX"
<1>0. {"operation_kind", "replay_mode", "remote"} \subseteq DOMAIN r
  BY LabelFields DEF IsOf, IsResult
<1>1. \A s, d : Held(Failed(r, s, d))
  BY <1>0 DEF Failed, IsOf, IsResult
<1>2. ASSUME NEW x, Held(x) PROVE \A s : Held(NotExecuted(x, s))
  <2>1. {"operation_kind", "replay_mode", "remote"} \subseteq DOMAIN x
    BY <1>2, LabelFields DEF IsOf, IsResult
  <2> QED
    BY <1>2, <2>1 DEF NotExecuted, IsOf, IsResult
<1>3. Held(failed) /\ Held(foreign) /\ Held(large)
  BY <1>1
<1> HIDE DEF failed, foreign, large, big, Held
<1>4. /\ Held(NotExecuted(failed, "RX_INCOMPLETE")) /\ Held(NotExecuted(foreign, "RX"))
      /\ Held(NotExecuted(large, "RX"))
  BY <1>2, <1>3
<1>5. CASE status # "OK" \/ ~PeerMatches(a, r) \/ big
  <2>1. /\ out.res \in {failed, NotExecuted(failed, "RX_INCOMPLETE"), NotExecuted(foreign, "RX"),
                        NotExecuted(large, "RX")}
        /\ out.exit \in {8, 9}
    BY <1>5 DEF JudgeResponse, NaturalExit, failed, foreign, large, big
  <2>2. Held(out.res)
    BY <1>3, <1>4, <2>1
  <2>3. out.exit # 0
    BY <2>1
  <2> QED
    BY <2>2, <2>3 DEF SoundlyJudged, Held, IsOf
<1>6. CASE status = "OK" /\ PeerMatches(a, r) /\ ~big
  <2> DEFINE e == Executed(answer, "DECODE_RX", "RX")
             ok == answer.status = "OK"
             full == [e EXCEPT
                !.command = "udp-exchange", !.operation_kind = "udp-exchange",
                !.frame_file = RxStem, !.transport = r.transport, !.remote = r.remote,
                !.received_from = r.received_from, !.receive_pipeline = r.receive_pipeline,
                !.tx_frame = r.tx_frame, !.rx_frame = r.rx_frame,
                !.send_attempted = r.send_attempted, !.send_succeeded = r.send_succeeded,
                !.response_received = TRUE, !.response_decoded = ok]
  <2>1. IsResult(answer)
    BY QuietInPipeline DEF Quiet
  <2> HIDE DEF answer
  <2>2. IsResult(e) /\ e.replay_mode = "DECODE_RX"
    <3>1. IsOf(answer, answer.operation_kind)
      BY <2>1 DEF IsOf
    <3> QED
      BY <3>1, OperationKept DEF IsOf
  <2>3. out = Answered(r, answer)
    BY <1>6 DEF JudgeResponse, answer, big
  <2>4. out.res = full /\ out.exit = IF ok THEN 0 ELSE 5
    BY <2>3 DEF Answered
  <2> HIDE DEF e, ok
  <2>5. {"operation_kind", "replay_mode", "remote", "response_decoded"} \subseteq DOMAIN e
    BY <2>2, LabelFields DEF IsResult
  <2>6. /\ full.operation_kind = "udp-exchange" /\ full.remote = r.remote
        /\ full.replay_mode = "DECODE_RX"
    BY <2>2, <2>5
  <2>7. full.response_decoded = ok
    BY <2>5
  <2> HIDE DEF full, out
  <2>8. out.exit = 0 => ok
    BY <2>4
  <2>9. ok => full.response_decoded = TRUE
    BY <2>7, Zenon
  <2> QED
    BY <1>6, <2>4, <2>6, <2>8, <2>9 DEF SoundlyJudged, big, out
<1> QED
  BY <1>5, <1>6

\* CompleteWith leaves all but the exit code and the fingerprint as they are.
LEMMA Completed ==
    ASSUME NEW r, IsResult(r), NEW natural, NEW log, CompleteWith(r, natural, log)
    PROVE  /\ SameLabel(res', r) /\ res'.remote = r.remote
           /\ res'.response_decoded = r.response_decoded
           /\ cmd.expect = NoName => res'.exit_code = natural
<1> DEFINE code == ApplyExpectedStatus(cmd, r, natural)
<1>1. res' = FinalizeFingerprint([r EXCEPT !.exit_code = code])
  BY DEF CompleteWith
<1>2. cmd.expect = NoName => code = natural
  BY Zenon DEF ApplyExpectedStatus, NoName
<1> HIDE DEF code
<1>3. {"operation_kind", "replay_mode", "remote", "response_decoded", "exit_code"} \subseteq DOMAIN r
  BY LabelFields DEF IsResult
<1> QED
  BY <1>1, <1>2, <1>3 DEF FinalizeFingerprint, SameLabel, IsResult

\* What the stored run says that LoadStoredRun reads from the summary of a result.
LEMMA SummaryRun ==
    ASSUME NEW r, NEW files, OnlySummary(files, r)
    PROVE  /\ Decodes(RunOf(files)) => Decodes(r)
           /\ r.operation_kind = "udp-exchange" =>
                 /\ RunOf(files).remote = r.remote /\ RunOf(files).replay_mode = r.replay_mode
                 /\ RunOf(files).response_decoded = r.response_decoded
<1> DEFINE g == FormatOf(r)
           summary == SerializeResult(r)
<1>1. Summaries(files) = {g} /\ files[ResultPath(g)] = summary
  BY FormatFacts DEF OnlySummary, Summaries
<1>2. RunOf(files) = StoredRun(summary)
  <2>1. (CHOOSE x \in Summaries(files) : TRUE) = g
    BY <1>1
  <2> QED
    BY <1>1, <2>1 DEF RunOf
<1>3. /\ summary.operation_kind = r.operation_kind /\ summary.replay_mode = r.replay_mode
      /\ summary.remote = r.remote /\ summary.response_decoded = r.response_decoded
      /\ summary.format = g
      /\ "operation_kind" \in DOMAIN summary
  BY DEF SerializeResult
<1> HIDE DEF summary
<1>4. r.operation_kind = "udp-exchange" => StoredRun(summary) = summary
  <2>1. r.operation_kind = "udp-exchange" => g # "V1"
    BY DEF FormatOf
  <2> QED
    BY <1>3, <2>1, Zenon DEF StoredRun, Modern
<1>5. StoredRun(summary).operation_kind = summary.operation_kind
  <2>1. CASE Modern(summary.format)
    BY <2>1, Zenon DEF StoredRun
  <2>2. CASE ~Modern(summary.format)
    <3> DEFINE none == NoName
    <3>1. StoredRun(summary) =
            [summary EXCEPT !.receive_pipeline = none, !.replay_mode = none,
                            !.replay_subject = none, !.current_status = none,
                            !.current_diagnostic = none, !.comparison = none,
                            !.tx_file = none, !.rx_file = none, !.historical = NoHistory]
      BY <2>2, Zenon DEF StoredRun, NoName
    <3> HIDE DEF none
    <3> QED
      BY <1>3, <3>1
  <2> QED
    BY <2>1, <2>2
<1> QED
  BY <1>2, <1>3, <1>4, <1>5 DEF Decodes

-----------------------------------------------------------------------------
(***************************************************************************)
(* The steps that keep it.                                                 *)
(***************************************************************************)

\* What is published stays, with its history.
Lasting ==
    /\ DOMAIN parent' = RunIds
    /\ \A id \in RunIds :
          /\ disk'[id].state = "final" <=> disk[id].state = "final"
          /\ disk[id].state = "final" => /\ intact'[id] = intact[id] /\ heard'[id] = heard[id]
                                         /\ parent'[id] = parent[id]

\* Nothing happens to any directory.
LEMMA NothingOnDisk == ASSUME JudgeInv, UNCHANGED <<disk, history>> PROVE Lasting
  BY DEF JudgeInv, Lasting, history

\* Something happens to one directory that is not published.
LEMMA OneUnfinished ==
    ASSUME NEW x \in RunIds, disk[x].state # "final", disk'[x].state # "final",
           DOMAIN parent' = RunIds,
           \A id \in RunIds \ {x} : /\ disk'[id] = disk[id] /\ intact'[id] = intact[id]
                                    /\ heard'[id] = heard[id] /\ parent'[id] = parent[id]
    PROVE  Lasting
<1> SUFFICES ASSUME NEW id \in RunIds
             PROVE  /\ disk'[id].state = "final" <=> disk[id].state = "final"
                    /\ disk[id].state = "final" =>
                          /\ intact'[id] = intact[id] /\ heard'[id] = heard[id]
                          /\ parent'[id] = parent[id]
  BY DEF Lasting
<1>1. CASE id = x
  BY <1>1
<1>2. CASE id # x
  BY <1>2
<1> QED
  BY <1>1, <1>2

\* Then what is said of the published runs stays true.
LEMMA FinalsKept == ASSUME JudgeInv, Lasting PROVE \A id \in RunIds : FinalSound(id)'
<1> SUFFICES ASSUME NEW id \in RunIds, disk'[id].state = "final", Decodes(RunOf(intact'[id]))
             PROVE  /\ Believed(heard'[id], RunOf(intact'[id]).remote, intact'[id][ConfigPath])
                    /\ parent'[id] # NoName =>
                          /\ parent'[id] \in RunIds /\ disk'[parent'[id]].state = "final"
                          /\ Decodes(RunOf(intact'[parent'[id]]))
  BY DEF FinalSound
<1>1. /\ disk[id].state = "final" /\ intact'[id] = intact[id] /\ heard'[id] = heard[id]
      /\ parent'[id] = parent[id]
  BY DEF Lasting
<1>2. FinalSound(id)
  BY DEF JudgeInv
<1>3. /\ Believed(heard[id], RunOf(intact[id]).remote, intact[id][ConfigPath])
      /\ parent[id] # NoName => /\ parent[id] \in RunIds /\ disk[parent[id]].state = "final"
                                /\ Decodes(RunOf(intact[parent[id]]))
  BY <1>1, <1>2 DEF FinalSound
<1>4. ASSUME parent[id] # NoName
      PROVE  disk'[parent[id]].state = "final" /\ intact'[parent[id]] = intact[parent[id]]
  BY <1>3, <1>4 DEF Lasting
<1> QED
  BY <1>1, <1>3, <1>4

\* A command that ends without a published run to show for it.
LEMMA EndsSilent ==
    ASSUME JudgeInv, Lasting, pc' = "idle", exit' # 0 \/ dir' = NoName
    PROVE  JudgeInv'
<1>1. \A id \in RunIds : FinalSound(id)'
  BY FinalsKept
<1>2. DOMAIN parent' = RunIds
  BY DEF Lasting
<1>3. ZeroHeld'
  BY DEF ZeroHeld
<1>4. pc' \notin Working
  BY DEF Working
<1> QED
  BY <1>1, <1>2, <1>3, <1>4 DEF JudgeInv

\* A command that goes on.
LEMMA GoesOn ==
    ASSUME JudgeInv, Lasting, pc' # "idle",
           IF cmd'.command = "udp-exchange" THEN Exchanging' ELSE Offline',
           pc' \in Working => Recording'
    PROVE  JudgeInv'
<1>1. \A id \in RunIds : FinalSound(id)'
  BY FinalsKept
<1>2. DOMAIN parent' = RunIds
  BY DEF Lasting
<1>3. ZeroHeld'
  BY DEF ZeroHeld
<1> QED
  BY <1>1, <1>2, <1>3 DEF JudgeInv

\* Between its request and its judgement, an exchange learns what it has sent and heard.
LEMMA ExchangeGoesOn ==
    ASSUME JudgeInv, Lasting, pc \in InExchange, pc' \in InExchange,
           UNCHANGED <<cmd, config, dir, parent, disk>>,
           SameLabel(res', res), res'.remote = res.remote
    PROVE  JudgeInv'
<1>1. /\ cmd.command = "udp-exchange" /\ Exchanging /\ Recording
      /\ pc # "completing" /\ pc' # "completing" /\ pc' # "idle"
  BY DEF JudgeInv, InExchange, Offline, Working
<1>2. Exchanging'
  BY <1>1 DEF Exchanging, SameLabel
<1>3. Recording'
  BY <1>1 DEF Recording
<1> QED
  BY <1>1, <1>2, <1>3, GoesOn

\* What is known of the result of a process at work.
LEMMA ExchangeFields ==
    ASSUME IInv, pc \in Working
    PROVE  /\ IsResult(res) /\ Truth(res, sent[dir], heard[dir])
           /\ {"operation_kind", "replay_mode", "remote"} \subseteq DOMAIN res
<1>1. Truth(res, sent[dir], heard[dir])
  BY AtWork DEF Writes
<1> QED
  BY <1>1, LabelFields DEF Truth, IsResult

\* A command begins: udp-exchange.
LEMMA StartUdpExchangeJudges ==
    ASSUME IInv, JudgeInv, NEW a, StartUdpExchange(a) PROVE JudgeInv'
<1>1. Lasting
  BY NothingOnDisk DEF StartUdpExchange
<1>2. CASE UdpPreparation(a) # 0
  <2>1. dir' = NoName
    BY <1>2, Zenon DEF StartUdpExchange, NoName
  <2>2. pc' = "idle"
    BY <1>2 DEF StartUdpExchange, Exit
  <2> QED
    BY <1>1, <2>1, <2>2, EndsSilent
<1>3. CASE UdpPreparation(a) = 0
  <2>1. /\ pc' = "begin" /\ res' = UdpPrepared(a) /\ config' = a.config /\ cmd' = a
        /\ a.command = "udp-exchange"
    BY <1>3, Zenon DEF StartUdpExchange, StartCommand
  <2>2. Exchanging'
    BY <2>1, PreparedLabel DEF Exchanging, IsOf, InExchange
  <2>3. pc' \notin Working /\ pc' # "idle"
    BY <2>1 DEF Working
  <2> QED
    BY <1>1, <2>1, <2>2, <2>3, GoesOn
<1> QED
  BY <1>2, <1>3

\* What LoadStoredRun accepts is what was written (see AcceptedIsWritten).
LEMMA StartOfflineJudges ==
    ASSUME IInv, JudgeInv, NEW a, StartOffline(a) PROVE JudgeInv'
<1> DEFINE replayed == RunReplay(a, disk[a.bundle].files)
           out == IF a.command = "replay" THEN replayed ELSE RunInspectOrEncode(a)
           code == ApplyExpectedStatus(a, out.res, out.exit)
<1>1. Lasting
  BY NothingOnDisk DEF StartOffline
<1>2. /\ a.command \in {"inspect", "encode", "replay"} /\ cmd' = a
      /\ a.command = "replay" => a.bundle \in RunIds /\ disk[a.bundle].state = "final"
  BY DEF StartOffline, StartCommand
<1>3. /\ res' = [out.res EXCEPT !.exit_code = code, !.frame_file = FrameStem]
      /\ dir' = NoName
      /\ pc' = "begin" \/ pc' = "idle"
  BY Zenon DEF StartOffline, Exit, NoName
<1>4. CASE pc' = "idle"
  BY <1>1, <1>3, <1>4, EndsSilent
<1>5. CASE pc' = "begin"
  <2>1. IsResult(out.res)
    BY QuietReplay, QuietOffline DEF Quiet
  <2>2. Decodes(res') => Decodes(out.res)
    <3> DEFINE r == out.res
    <3> HIDE DEF out, code
    <3>1. "operation_kind" \in DOMAIN r /\ "replay_mode" \in DOMAIN r
      BY <2>1, LabelFields DEF IsResult
    <3> QED
      BY <1>3, <3>1 DEF Decodes
  <2>3. ASSUME Decodes(res')
        PROVE  /\ a.command = "replay" /\ LoadStoredRun(disk[a.bundle].files)
               /\ Decodes(RunOf(disk[a.bundle].files))
    <3>1. Decodes(out.res)
      BY <2>2, <2>3
    <3>2. a.command = "replay"
      <4>1. ASSUME a.command # "replay" PROVE FALSE
        <5>1. out = RunInspectOrEncode(a)
          BY <4>1
        <5>2. a.command # "udp-exchange"
          BY <1>2
        <5> HIDE DEF out
        <5> QED
          BY <3>1, <5>1, <5>2, OfflineOperation DEF Decodes
      <4> QED
        BY <4>1
    <3>3. Decodes(replayed.res)
      BY <3>1, <3>2
    <3> QED
      BY <3>2, <3>3, ReplayDecodes
  <2>4. ASSUME Decodes(res')
        PROVE  Decodes(RunOf(intact[a.bundle]))
    <3>1. a.bundle \in RunIds
      BY <1>2, <2>3, <2>4
    <3>2. disk[a.bundle].files = intact[a.bundle]
      BY <2>3, <2>4, <3>1, AcceptedInv DEF AcceptedIsWritten
    <3> QED
      BY <2>3, <2>4, <3>2
  <2> HIDE DEF out, code, replayed
  <2>5. ASSUME Decodes(res')
        PROVE  /\ a.command = "replay" /\ a.bundle \in RunIds
               /\ disk'[a.bundle].state = "final" /\ Decodes(RunOf(intact'[a.bundle]))
    <3>1. a.command = "replay" /\ a.bundle \in RunIds /\ disk[a.bundle].state = "final"
      BY <1>2, <2>3, <2>5
    <3>2. disk'[a.bundle].state = "final" /\ intact'[a.bundle] = intact[a.bundle]
      BY <1>1, <3>1 DEF Lasting
    <3> QED
      BY <2>4, <2>5, <3>1, <3>2
  <2>6. Offline'
    BY <1>2, <1>5, <2>5 DEF Offline, InExchange
  <2>7. pc' \notin Working /\ pc' # "idle" /\ cmd'.command # "udp-exchange"
    BY <1>2, <1>5 DEF Working
  <2> QED
    BY <1>1, <2>6, <2>7, GoesOn
<1> QED
  BY <1>3, <1>4, <1>5

\* A comparison writes nothing.
LEMMA StartCompareJudges == ASSUME IInv, JudgeInv, NEW a, StartCompare(a) PROVE JudgeInv'
<1>1. Lasting
  BY NothingOnDisk DEF StartCompare, history
<1>2. dir' = NoName
  BY Zenon DEF StartCompare, NoName
<1>3. pc' = "idle"
  BY DEF StartCompare, Exit
<1> QED
  BY <1>1, <1>2, <1>3, EndsSilent

\* The run directory is created.
LEMMA BeginJudges == ASSUME IInv, JudgeInv, NEW id \in RunIds, Begin(id) PROVE JudgeInv'
<1>1. /\ pc = "begin" /\ disk[id].state = "absent" /\ AllStored
      /\ disk' = [disk EXCEPT ![id].state = "inprogress"] /\ dir' = id /\ pc' = "writing"
      /\ UNCHANGED <<cmd, res, config, heard, intact>>
  BY DEF IInv, Begin
<1> DEFINE origin == IF cmd.command = "replay" THEN cmd.bundle ELSE NoName
<1>2. parent' = [parent EXCEPT ![id] = origin]
  BY Zenon DEF Begin, NoName
<1>3. DOMAIN disk = RunIds /\ DOMAIN parent = RunIds
      /\ disk[id] = [state |-> "absent", files |-> NoFiles] /\ heard[id] = <<>>
  <2>1. Stored(disk[id], intact[id], sent[id], heard[id])
    BY <1>1 DEF AllStored
  <2> QED
    BY <1>1, <2>1 DEF Stored, AllStored, JudgeInv
<1>4. /\ disk'[id] = [state |-> "inprogress", files |-> NoFiles] /\ DOMAIN disk' = RunIds
      /\ \A x \in RunIds \ {id} : disk'[x] = disk[x]
  BY <1>1, <1>3
<1> HIDE DEF origin
<1>5. /\ parent'[id] = origin /\ DOMAIN parent' = RunIds
      /\ \A x \in RunIds \ {id} : parent'[x] = parent[x]
  BY <1>2, <1>3
<1>6. Lasting
  BY <1>1, <1>4, <1>5, OneUnfinished, ZenonT(40)
<1>7. IF cmd.command = "udp-exchange" THEN Exchanging' ELSE Offline'
  <2>1. CASE cmd.command = "udp-exchange"
    <3>1. Exchanging
      BY <1>1, <2>1 DEF JudgeInv
    <3>2. Exchanging'
      BY <1>1, <3>1 DEF Exchanging, InExchange
    <3> QED
      BY <2>1, <3>2
  <2>2. CASE cmd.command # "udp-exchange"
    <3>1. Offline
      BY <1>1, <2>2 DEF JudgeInv
    <3>2. ASSUME Decodes(res)
          PROVE  /\ cmd.command = "replay" /\ cmd.bundle \in RunIds
                 /\ disk'[cmd.bundle].state = "final" /\ Decodes(RunOf(intact[cmd.bundle]))
      BY <1>6, <3>1, <3>2 DEF Offline, Lasting
    <3>3. Offline'
      BY <1>1, <3>2 DEF Offline, InExchange
    <3> QED
      BY <2>2, <3>3
  <2> QED
    BY <2>1, <2>2
<1>8. Recording'
  BY <1>1, <1>3, <1>4, <1>5 DEF Recording, NoFiles, origin
<1> QED
  BY <1>1, <1>6, <1>7, <1>8, GoesOn

\* The configuration is the only thing written under its name.
LEMMA ConfigContent ==
    ASSUME NEW c, NEW v, NEW r, NEW log, NEW files
    PROVE  Content(ConfigPath, c, v, r, log, files) = c
<1> DEFINE path == ConfigPath
<1>1. /\ path # ValuesPath /\ path # Binary(TxStem) /\ path # Hex(TxStem)
      /\ path # Binary(RxStem) /\ path # Hex(RxStem) /\ path # MetaPath
      /\ path # Binary(FrameStem) /\ path # Hex(FrameStem)
      /\ path # CompletePath /\ path # SumsPath
      /\ \A g : path # ResultPath(g) /\ path # EventsPath(g) /\ path # RecordPath(g)
  BY DEF ConfigPath, ValuesPath, Binary, Hex, TxStem, RxStem, FrameStem, MetaPath, CompletePath,
     SumsPath, ResultPath, EventsPath, RecordPath
<1>2. path = ConfigPath
  OBVIOUS
<1> HIDE DEF path
<1>3. Content(path, c, v, r, log, files) = c
  BY <1>1, <1>2 DEF Content
<1> QED
  BY <1>2, <1>3

\* A file is written.
LEMMA WriteVerifiedJudges == ASSUME IInv, JudgeInv, WriteVerified PROVE JudgeInv'
<1> DEFINE path == Head(todo)
           content == Content(path, config, IF values = <<>> THEN <<>> ELSE values[1], res,
                              events, disk[dir].files)
           files == Put(disk[dir].files, path, content)
<1>1. /\ pc \in Working /\ disk' = [disk EXCEPT ![dir].files = files]
      /\ intact' = IF path = SumsPath THEN [intact EXCEPT ![dir] = files] ELSE intact
      /\ UNCHANGED <<pc, cmd, res, config, dir, heard, parent>>
  BY DEF WriteVerified, Working
<1>2. /\ dir \in RunIds /\ DOMAIN disk = RunIds /\ DOMAIN intact = RunIds
      /\ disk[dir].state = "inprogress" /\ Stored(disk[dir], intact[dir], sent[dir], heard[dir])
  BY <1>1, AtWork
<1>3. DOMAIN files = DOMAIN disk[dir].files \cup {path}
  BY PutDomain
<1>4. path = ConfigPath => content = config
  BY ConfigContent
<1> HIDE DEF content
<1>5. ConfigPath \in DOMAIN disk[dir].files => disk[dir].files[ConfigPath] = config
  <2>1. Recording
    BY <1>1 DEF JudgeInv
  <2> QED
    BY <2>1 DEF Recording
<1>6. ConfigPath \in DOMAIN files => files[ConfigPath] = config
  <2>1. CASE path = ConfigPath
    <3>1. files[path] = content
      BY PutThere
    <3> QED
      BY <1>4, <2>1, <3>1
  <2>2. CASE path # ConfigPath
    <3>1. ConfigPath \in DOMAIN disk[dir].files => files[ConfigPath] = disk[dir].files[ConfigPath]
      BY <2>2, PutElsewhere
    <3> QED
      BY <1>3, <1>5, <2>2, <3>1
  <2> QED
    BY <2>1, <2>2
<1> HIDE DEF files, path
<1>7. disk[dir] = [state |-> "inprogress", files |-> disk[dir].files]
  BY <1>2 DEF Stored
<1>8. /\ disk'[dir].state = "inprogress" /\ disk'[dir].files = files /\ DOMAIN disk' = RunIds
      /\ \A id \in RunIds \ {dir} : disk'[id] = disk[id] /\ intact'[id] = intact[id]
  BY <1>1, <1>2, <1>7
<1>9. Lasting
  BY <1>1, <1>2, <1>8, OneUnfinished DEF JudgeInv
<1>10. pc' # "idle" /\ pc # "idle"
  BY <1>1 DEF Working
<1>11. IF cmd.command = "udp-exchange" THEN Exchanging' ELSE Offline'
  <2>1. CASE cmd.command = "udp-exchange"
    <3>1. Exchanging
      BY <1>10, <2>1 DEF JudgeInv
    <3>2. Exchanging'
      BY <1>1, <1>3, <1>8, <3>1 DEF Exchanging
    <3> QED
      BY <2>1, <3>2
  <2>2. CASE cmd.command # "udp-exchange"
    <3>1. Offline
      BY <1>10, <2>2 DEF JudgeInv
    <3>2. ASSUME Decodes(res)
          PROVE  /\ cmd.command = "replay" /\ cmd.bundle \in RunIds
                 /\ disk'[cmd.bundle].state = "final" /\ Decodes(RunOf(intact'[cmd.bundle]))
      BY <1>9, <3>1, <3>2 DEF Offline, Lasting
    <3>3. Offline'
      BY <1>1, <3>1, <3>2 DEF Offline
    <3> QED
      BY <2>2, <3>3
  <2> QED
    BY <2>1, <2>2
<1>12. Recording'
  <2>1. Recording
    BY <1>1 DEF JudgeInv
  <2> QED
    BY <1>1, <1>6, <1>8, <2>1 DEF Recording
<1> QED
  BY <1>1, <1>9, <1>10, <1>11, <1>12, GoesOn

\* An operation on the directory fails, or the process dies.
LEMMA UnfinishedJudges ==
    ASSUME IInv, JudgeInv, pc' = "idle", exit' # 0, UNCHANGED history,
           disk' = disk
           \/ /\ pc \in Working
              /\ \E path : disk' = [disk EXCEPT ![dir].files = Put(@, Temporary(path), Garbage)]
    PROVE  JudgeInv'
<1>1. CASE disk' = disk
  <2>1. Lasting
    BY <1>1, NothingOnDisk
  <2> QED
    BY <2>1, EndsSilent
<1>2. CASE disk' # disk
  <2>1. PICK path : disk' = [disk EXCEPT ![dir].files = Put(@, Temporary(path), Garbage)]
    BY <1>2
  <2> DEFINE files == Put(disk[dir].files, Temporary(path), Garbage)
  <2>2. /\ dir \in RunIds /\ DOMAIN disk = RunIds /\ disk[dir].state = "inprogress"
        /\ disk[dir] = [state |-> disk[dir].state, files |-> disk[dir].files]
    BY <1>2, AtWork DEF Stored
  <2>3. disk' = [disk EXCEPT ![dir].files = files]
    BY <2>1
  <2> HIDE DEF files
  <2>4. disk'[dir].state = "inprogress" /\ \A id \in RunIds \ {dir} : disk'[id] = disk[id]
    BY <2>2, <2>3
  <2>5. Lasting
    BY <2>2, <2>4, OneUnfinished DEF JudgeInv, history
  <2> QED
    BY <2>5, EndsSilent
<1> QED
  BY <1>1, <1>2

\* An operation on the directory fails.
LEMMA FailRecordJudges == ASSUME IInv, JudgeInv, FailRecord PROVE JudgeInv'
<1>1. pc' = "idle" /\ exit' = 7 /\ UNCHANGED history
  BY DEF FailRecord, Exit
<1>2. disk' = disk
      \/ /\ pc # "begin" /\ todo # <<>>
         /\ disk' = [disk EXCEPT ![dir].files = Put(@, Temporary(Head(todo)), Garbage)]
  BY DEF FailRecord
<1>3. pc # "begin" => pc \in Working
  BY DEF FailRecord, Working
<1> QED
  BY <1>1, <1>2, <1>3, UnfinishedJudges

\* The process dies.
LEMMA CrashJudges == ASSUME IInv, JudgeInv, Crash PROVE JudgeInv'
<1>1. pc' = "idle" /\ exit' = 255 /\ UNCHANGED history
  BY DEF Crash
<1>2. disk' = disk
      \/ /\ pc \in {"writing", "receiving", "completing"}
         /\ disk' = [disk EXCEPT ![dir].files = Put(@, Temporary(Head(todo)), Garbage)]
  BY DEF Crash
<1>3. pc \in {"writing", "receiving", "completing"} => pc \in Working
  BY DEF Working
<1> QED
  BY <1>1, <1>2, <1>3, UnfinishedJudges


\* An exchange is completed: what it says was decoded is believed, and it says that it went
\* well only of a decoded answer.
LEMMA CompletionJudges ==
    ASSUME IInv, JudgeInv, pc \in Working, pc # "completing", cmd.command = "udp-exchange",
           NEW r, NEW natural, NEW log, CompleteWith(r, natural, log),
           IsOf(r, "udp-exchange"), r.remote = cmd.remote,
           r.replay_mode = "DECODE_RX" => Believed(heard[dir], cmd.remote, config),
           natural = 0 /\ cmd.send => r.response_decoded = TRUE /\ r.replay_mode = "DECODE_RX",
           ConfigPath \in DOMAIN disk[dir].files,
           UNCHANGED <<cmd, config, dir, disk, history>>
    PROVE  JudgeInv'
<1>1. /\ SameLabel(res', r) /\ res'.remote = r.remote
      /\ res'.response_decoded = r.response_decoded
      /\ cmd.expect = NoName => res'.exit_code = natural
  BY Completed DEF IsOf
<1>2. pc' = "completing" /\ pc # "idle" /\ pc' # "idle" /\ heard' = heard /\ parent' = parent
  BY DEF CompleteWith, Working, history
<1>3. Lasting
  BY NothingOnDisk
<1>4. Exchanging /\ Recording
  BY <1>2 DEF JudgeInv
<1>5. Exchanging'
  <2>1. /\ res'.operation_kind = "udp-exchange" /\ res'.remote = cmd.remote
        /\ res'.replay_mode = r.replay_mode
    BY <1>1 DEF SameLabel, IsOf
  <2>2. config = cmd.config
    BY <1>4 DEF Exchanging
  <2>3. cmd.send /\ cmd.expect = NoName /\ res'.exit_code = 0 =>
           res'.response_decoded = TRUE /\ res'.replay_mode = "DECODE_RX"
    BY <1>1, <2>1
  <2> QED
    BY <1>2, <2>1, <2>2, <2>3 DEF Exchanging, InExchange
<1>6. Recording'
  BY <1>2, <1>4 DEF Recording
<1> QED
  BY <1>2, <1>3, <1>5, <1>6, GoesOn

\* The request is on disk; without --send the exchange ends there.
LEMMA RequestRecordedJudges == ASSUME IInv, JudgeInv, RequestRecorded PROVE JudgeInv'
<1>1. /\ pc = "writing" /\ todo = <<>> /\ cmd.command = "udp-exchange"
      /\ UNCHANGED <<cmd, config, dir, disk, history>>
  BY DEF RequestRecorded
<1>2. pc \in Working /\ pc # "completing" /\ pc # "idle"
  BY <1>1 DEF Working
<1>3. Exchanging /\ Recording
  BY <1>1, <1>2 DEF JudgeInv
<1>4. CASE cmd.send
  <2>1. pc' = "open" /\ UNCHANGED res /\ heard' = heard /\ parent' = parent
    BY <1>1, <1>4 DEF RequestRecorded, history
  <2>2. Exchanging'
    BY <1>1, <1>2, <1>3, <1>4, <2>1 DEF Exchanging
  <2>3. Recording'
    BY <1>1, <1>3, <2>1 DEF Recording
  <2>4. Lasting
    BY <1>1, NothingOnDisk
  <2> QED
    BY <1>1, <2>1, <2>2, <2>3, <2>4, GoesOn
<1>5. CASE ~cmd.send
  <2>1. CompleteWith(res, 0, CaptureTxFrame(events, res.tx_frame))
    BY <1>5 DEF RequestRecorded
  <2>2. IsOf(res, "udp-exchange") /\ res.remote = cmd.remote /\ res.replay_mode = "ENCODE_TX"
    BY <1>2, <1>3, ExchangeFields DEF Exchanging, IsOf
  <2>3. ConfigPath \in DOMAIN disk[dir].files
    <3>1. Writes(disk[dir], sent[dir], heard[dir])
      BY <1>2, AtWork
    <3>2. Members(todo) = {}
      BY <1>1 DEF Members
    <3>3. RequestFiles \subseteq DOMAIN disk[dir].files
      BY <1>1, <3>1, <3>2 DEF Writes
    <3> QED
      BY <3>3 DEF RequestFiles
  <2> QED
    BY <1>1, <1>2, <1>5, <2>1, <2>2, <2>3, CompletionJudges
<1> QED
  BY <1>4, <1>5

\* The frame of another command is on disk.
LEMMA OfflineFrameRecordedJudges == ASSUME IInv, JudgeInv, OfflineFrameRecorded PROVE JudgeInv'
<1>1. /\ pc = "writing" /\ cmd.command # "udp-exchange" /\ pc' = "completing"
      /\ UNCHANGED <<cmd, res, config, dir, disk, heard, intact, parent>>
  BY DEF OfflineFrameRecorded, history
<1>2. Offline /\ Recording
  BY <1>1 DEF JudgeInv, Working
<1>3. Offline'
  BY <1>1, <1>2 DEF Offline, InExchange
<1>4. Recording'
  BY <1>1, <1>2 DEF Recording
<1>5. Lasting
  BY NothingOnDisk DEF OfflineFrameRecorded
<1> QED
  BY <1>1, <1>3, <1>4, <1>5, GoesOn

\* The steps of an exchange that write nothing and hear nothing.
LEMMA QuietExchangeJudges ==
    ASSUME IInv, JudgeInv, pc \in InExchange, pc' \in InExchange,
           UNCHANGED <<cmd, res, config, dir, disk, history>>
    PROVE  JudgeInv'
<1>1. Lasting
  BY NothingOnDisk
<1>2. IsResult(res)
  BY ExchangeFields DEF InExchange, Working
<1>3. SameLabel(res', res) /\ parent' = parent
  BY <1>2 DEF SameLabel, history
<1> QED
  BY <1>1, <1>3, ExchangeGoesOn

\* The socket is opened, or not.
LEMMA OpenSocketJudges == ASSUME IInv, JudgeInv, OpenSocket PROVE JudgeInv'
<1>1. pc \in InExchange /\ pc' \in InExchange /\ UNCHANGED <<cmd, res, config, dir, disk, history>>
  BY DEF OpenSocket, transaction, InExchange
<1> QED
  BY <1>1, QuietExchangeJudges

\* No datagram is taken.
LEMMA GiveUpJudges == ASSUME IInv, JudgeInv, NEW status, GiveUp(status) PROVE JudgeInv'
<1>1. pc \in InExchange /\ pc' \in InExchange /\ UNCHANGED <<cmd, res, config, dir, disk, history>>
  BY DEF GiveUp, transaction, InExchange
<1> QED
  BY <1>1, QuietExchangeJudges

\* A datagram waits at the socket.
LEMMA ArriveJudges == ASSUME IInv, JudgeInv, NEW from, NEW frame, Arrive(from, frame)
                      PROVE  JudgeInv'
<1>1. pc \in InExchange /\ pc' \in InExchange /\ UNCHANGED <<cmd, res, config, dir, disk, history>>
  BY DEF Arrive, transaction, InExchange
<1> QED
  BY <1>1, QuietExchangeJudges

\* The answer is on disk.
LEMMA ResponseRecordedJudges == ASSUME IInv, JudgeInv, ResponseRecorded PROVE JudgeInv'
<1>1. pc \in InExchange /\ pc' \in InExchange /\ UNCHANGED <<cmd, res, config, dir, disk, history>>
  BY DEF ResponseRecorded, InExchange
<1> QED
  BY <1>1, QuietExchangeJudges

\* The request is sent, or not.
LEMMA SendToJudges == ASSUME IInv, JudgeInv, NEW ok \in BOOLEAN, SendTo(ok) PROVE JudgeInv'
<1>1. /\ pc \in InExchange /\ pc' \in InExchange
      /\ UNCHANGED <<cmd, config, dir, disk, heard, parent, intact>>
      /\ res' = [res EXCEPT !.send_attempted = TRUE, !.send_succeeded = ok]
  BY DEF SendTo, InExchange
<1>2. Lasting
  BY <1>1 DEF JudgeInv, Lasting
<1>3. IsResult(res) /\ {"operation_kind", "replay_mode", "remote"} \subseteq DOMAIN res
  BY <1>1, ExchangeFields DEF InExchange, Working
<1>4. SameLabel(res', res) /\ res'.remote = res.remote
  BY <1>1, <1>3 DEF SameLabel, IsResult
<1> QED
  BY <1>1, <1>2, <1>4, ExchangeGoesOn

\* The first datagram is taken.
LEMMA ReceiveFromJudges == ASSUME IInv, JudgeInv, ReceiveFrom PROVE JudgeInv'
<1> DEFINE d == Head(sock)
<1>1. /\ pc \in InExchange /\ pc' \in InExchange
      /\ UNCHANGED <<cmd, config, dir, disk, parent, intact>>
      /\ \/ UNCHANGED <<res, heard>>
         \/ /\ res' = [res EXCEPT !.response_received = TRUE, !.rx_frame = d.frame,
                                  !.received_from = d.from]
            /\ heard' = [heard EXCEPT ![dir] = <<d>>]
  BY DEF ReceiveFrom, InExchange
<1> HIDE DEF d
<1>2. pc \in Working
  BY <1>1 DEF InExchange, Working
<1>3. /\ dir \in RunIds /\ disk[dir].state = "inprogress" /\ DOMAIN heard = RunIds
      /\ DOMAIN parent = RunIds
  BY <1>2, AtWork DEF JudgeInv
<1>4. Lasting
  <2>1. \A id \in RunIds \ {dir} : heard'[id] = heard[id]
    BY <1>1, <1>3
  <2>2. disk[dir].state # "final" /\ disk'[dir].state # "final"
    BY <1>1, <1>3
  <2> QED
    BY <1>1, <1>3, <2>1, <2>2, OneUnfinished
<1>5. IsResult(res) /\ {"operation_kind", "replay_mode", "remote"} \subseteq DOMAIN res
  BY <1>2, ExchangeFields
<1>6. SameLabel(res', res) /\ res'.remote = res.remote
  <2>1. CASE UNCHANGED res
    BY <1>5, <2>1 DEF SameLabel
  <2>2. CASE res' = [res EXCEPT !.response_received = TRUE, !.rx_frame = d.frame,
                                !.received_from = d.from]
    BY <1>5, <2>2 DEF SameLabel, IsResult
  <2> QED
    BY <1>1, <2>1, <2>2
<1> QED
  BY <1>1, <1>4, <1>6, ExchangeGoesOn

\* The answer is judged.
LEMMA JudgeJudges == ASSUME IInv, JudgeInv, Judge PROVE JudgeInv'
<1> DEFINE out == JudgeResponse(cmd, res, response)
<1>1. /\ pc = "judge" /\ UNCHANGED <<cmd, config, dir, disk, history>>
      /\ CompleteWith(out.res, out.exit, events)
  BY DEF Judge
<1>2. pc \in Working /\ pc \in InExchange /\ pc # "completing" /\ pc # "idle"
  BY <1>1 DEF InExchange, Working
<1>3. cmd.command = "udp-exchange" /\ Exchanging
  BY <1>2 DEF JudgeInv, Offline
<1>4. IsOf(res, "udp-exchange") /\ res.replay_mode = "ENCODE_TX" /\ res.remote = cmd.remote
      /\ config = cmd.config /\ Truth(res, sent[dir], heard[dir])
  BY <1>2, <1>3, ExchangeFields DEF Exchanging, IsOf
<1>5. SoundlyJudged(cmd, res, response, out)
  BY <1>4, JudgedSound
<1>6. IsResult(out.res)
  <2>1. Writes(disk[dir], sent[dir], heard[dir])
    BY <1>2, AtWork
  <2>2. response = "OK" => res.response_received = TRUE
    <3>1. response = "OK" => heard[dir] # <<>>
      BY <1>1, <2>1 DEF Writes
    <3>2. res.response_received = (heard[dir] # <<>>)
      BY <1>4 DEF Truth
    <3> QED
      BY <3>1, <3>2, Zenon
  <2>3. IsResult(res)
    BY <1>4 DEF IsOf
  <2>4. Agrees(out.res, res)
    BY <2>2, <2>3, JudgedAgrees
  <2> QED
    BY <2>4 DEF Agrees
<1> HIDE DEF out
<1>7. out.res.replay_mode = "DECODE_RX" => Believed(heard[dir], cmd.remote, config)
  BY <1>4, <1>5 DEF SoundlyJudged, Believed, PeerMatches, Truth
<1>8. ConfigPath \in DOMAIN disk[dir].files
  <2>1. Writes(disk[dir], sent[dir], heard[dir])
    BY <1>2, AtWork
  <2> QED
    BY <1>2, <2>1 DEF Writes, RequestFiles
<1>9. IsOf(out.res, "udp-exchange") /\ out.res.remote = cmd.remote
  BY <1>4, <1>5, <1>6 DEF SoundlyJudged, IsOf
<1>10. out.exit = 0 => out.res.response_decoded = TRUE /\ out.res.replay_mode = "DECODE_RX"
  BY <1>5 DEF SoundlyJudged
<1> QED
  BY <1>1, <1>2, <1>3, <1>7, <1>8, <1>9, <1>10, CompletionJudges

\* The run is published.
LEMMA PublishJudges == ASSUME IInv, JudgeInv, Publish PROVE JudgeInv'
<1>1. /\ pc = "completing" /\ todo = <<>> /\ pc' = "idle" /\ exit' = res.exit_code
      /\ UNCHANGED <<cmd, dir, heard, parent, intact>>
      /\ disk' = [disk EXCEPT ![dir].state = "final"]
  BY DEF Publish, Exit, transaction, history
<1>2. pc \in Working /\ pc # "idle"
  BY <1>1 DEF Working
<1>3. /\ dir \in RunIds /\ DOMAIN disk = RunIds /\ disk[dir].state = "inprogress"
      /\ Writes(disk[dir], sent[dir], heard[dir])
      /\ Stored(disk[dir], intact[dir], sent[dir], heard[dir])
  BY <1>2, AtWork
<1>4. /\ disk'[dir].state = "final"
      /\ \A id \in RunIds \ {dir} : disk'[id] = disk[id]
  BY <1>1, <1>3 DEF Stored
<1> DEFINE files == intact[dir]
           run == RunOf(files)
<1>5. files = disk[dir].files /\ OnlySummary(files, res)
  <2>1. Completing(res, todo, disk[dir].files, intact[dir])
    BY <1>1, <1>3 DEF Writes
  <2>2. Len(todo) = 0 /\ Len(todo) # 5
    BY <1>1
  <2> QED
    BY <2>1, <2>2 DEF Completing
<1>6. /\ Decodes(run) => Decodes(res)
      /\ res.operation_kind = "udp-exchange" =>
            /\ run.remote = res.remote /\ run.replay_mode = res.replay_mode
            /\ run.response_decoded = res.response_decoded
  BY <1>5, SummaryRun
<1> HIDE DEF run, files
<1>7. Recording /\ (IF cmd.command = "udp-exchange" THEN Exchanging ELSE Offline)
      /\ DOMAIN parent = RunIds
  BY <1>2 DEF JudgeInv
<1>8. ASSUME Decodes(run)
      PROVE  /\ Believed(heard[dir], run.remote, files[ConfigPath])
             /\ parent[dir] # NoName => /\ parent[dir] \in RunIds
                                        /\ disk[parent[dir]].state = "final"
                                        /\ Decodes(RunOf(intact[parent[dir]]))
  <2>1. CASE cmd.command = "udp-exchange"
    <3>1. Exchanging /\ parent[dir] = NoName
      BY <1>7, <2>1 DEF Recording
    <3>2. res.remote = cmd.remote /\ ConfigPath \in DOMAIN disk[dir].files
          /\ (res.replay_mode = "DECODE_RX" => Believed(heard[dir], cmd.remote, config))
      BY <1>1, <3>1 DEF Exchanging
    <3>3. files[ConfigPath] = config
      BY <1>5, <1>7, <3>2 DEF Recording
    <3>4. res.replay_mode = "DECODE_RX" /\ run.remote = cmd.remote
      BY <1>6, <1>8, <3>2 DEF Decodes
    <3> QED
      BY <3>1, <3>2, <3>3, <3>4
  <2>2. CASE cmd.command # "udp-exchange"
    <3>1. /\ cmd.command = "replay" /\ cmd.bundle \in RunIds
          /\ disk[cmd.bundle].state = "final" /\ Decodes(RunOf(intact[cmd.bundle]))
      BY <1>6, <1>7, <1>8, <2>2 DEF Offline
    <3>2. parent[dir] = cmd.bundle /\ heard[dir] = <<>>
      BY <1>7, <2>2, <3>1 DEF Recording
    <3> QED
      BY <3>1, <3>2 DEF Believed
  <2> QED
    BY <2>1, <2>2
<1>9. ASSUME NEW id \in RunIds PROVE FinalSound(id)'
  <2>1. CASE id = dir
    <3>1. ASSUME Decodes(run)
          PROVE  /\ Believed(heard'[id], RunOf(intact'[id]).remote, intact'[id][ConfigPath])
                 /\ parent'[id] # NoName => /\ parent'[id] \in RunIds
                                            /\ disk'[parent'[id]].state = "final"
                                            /\ Decodes(RunOf(intact'[parent'[id]]))
      <4>1. parent[dir] # NoName => disk'[parent[dir]].state = "final"
        BY <1>4, <1>8, <3>1
      <4> QED
        BY <1>1, <1>8, <2>1, <3>1, <4>1 DEF run, files
    <3>2. Decodes(RunOf(intact'[id])) => Decodes(run)
      BY <1>1, <2>1 DEF run, files
    <3> QED
      BY <3>1, <3>2 DEF FinalSound
  <2>2. CASE id # dir
    <3>1. disk'[id] = disk[id] /\ FinalSound(id)
      BY <1>4, <2>2 DEF JudgeInv
    <3>2. \A x \in RunIds : disk[x].state = "final" => disk'[x].state = "final"
      BY <1>4
    <3> QED
      BY <1>1, <3>1, <3>2 DEF FinalSound
  <2> QED
    BY <2>1, <2>2
<1>10. ZeroHeld'
  <2> SUFFICES ASSUME res.exit_code = 0, cmd.command = "udp-exchange", cmd.expect = NoName
               PROVE  cmd.send => /\ RunOf(intact'[dir]).response_decoded = TRUE
                                  /\ RunOf(intact'[dir]).replay_mode = "DECODE_RX"
    BY <1>1, <1>3, <1>4 DEF ZeroHeld
  <2>1. Exchanging
    BY <1>7
  <2>2. cmd.send => res.response_decoded = TRUE /\ res.replay_mode = "DECODE_RX"
    BY <1>1, <2>1 DEF Exchanging
  <2>3. run.replay_mode = res.replay_mode /\ run.response_decoded = res.response_decoded
    BY <1>6, <2>1 DEF Exchanging
  <2> QED
    BY <1>1, <2>2, <2>3 DEF run, files
<1>11. pc' \notin Working
  BY <1>1 DEF Working
<1> QED
  BY <1>1, <1>7, <1>9, <1>10, <1>11 DEF JudgeInv

\* What is published is damaged; what was written, and the process, stay what they are.
LEMMA DamageJudges == ASSUME IInv, JudgeInv, NEW id \in RunIds, NEW path, Damage(id, path)
                      PROVE  JudgeInv'
<1>1. /\ disk[id].state = "final"
      /\ UNCHANGED <<pc, cmd, res, config, dir, exit, heard, parent, intact>>
      /\ \E files : disk' = [disk EXCEPT ![id].files = files]
  BY DEF Damage, transaction, history
<1>2. Stored(disk[id], intact[id], sent[id], heard[id]) /\ DOMAIN disk = RunIds
  BY DEF IInv, AllStored
<1>3. disk'[id].state = "final" /\ \A x \in RunIds \ {id} : disk'[x] = disk[x]
  BY <1>1, <1>2 DEF Stored
<1>4. \A x \in RunIds : disk'[x].state = disk[x].state
  BY <1>1, <1>3
<1>5. Lasting
  BY <1>1, <1>4 DEF Lasting, JudgeInv
<1>6. pc \in Working => disk'[dir] = disk[dir]
  <2>1. pc \in Working => dir \in RunIds /\ dir # id
    BY <1>1, AtWork
  <2> QED
    BY <1>3, <2>1
<1>7. \A x \in RunIds : FinalSound(x)'
  BY <1>5, FinalsKept
<1>8. ASSUME pc # "idle", cmd.command = "udp-exchange" PROVE Exchanging'
  <2>1. Exchanging
    BY <1>8 DEF JudgeInv
  <2>2. pc = "completing" => disk'[dir] = disk[dir]
    BY <1>6 DEF Working
  <2> QED
    BY <1>1, <2>1, <2>2 DEF Exchanging
<1>9. ASSUME pc # "idle", cmd.command # "udp-exchange" PROVE Offline'
  <2>1. Offline
    BY <1>9 DEF JudgeInv
  <2> QED
    BY <1>1, <1>4, <2>1 DEF Offline
<1>10. ASSUME pc \in Working PROVE Recording'
  <2>1. Recording
    BY <1>10 DEF JudgeInv
  <2> QED
    BY <1>1, <1>6, <1>10, <2>1 DEF Recording
<1>11. ZeroHeld'
  <2>1. ZeroHeld
    BY DEF JudgeInv
  <2> QED
    BY <1>1, <1>4, <2>1 DEF ZeroHeld
<1> QED
  BY <1>1, <1>5, <1>7, <1>8, <1>9, <1>10, <1>11 DEF JudgeInv, Lasting

\* Nothing is published before the first command.
LEMMA InitJudges == Init => JudgeInv
<1> SUFFICES ASSUME Init PROVE JudgeInv
  OBVIOUS
<1>1. pc = "idle" /\ DOMAIN parent = RunIds /\ \A id \in RunIds : disk[id].state = "absent"
  BY DEF Init, Absent
<1>2. dir = NoName
  BY Zenon DEF Init, NoName
<1> QED
  BY <1>1, <1>2 DEF JudgeInv, FinalSound, ZeroHeld, Working

\* Every step keeps it.
LEMMA StepJudges == IInv /\ JudgeInv /\ [Next]_vars => JudgeInv'
<1> SUFFICES ASSUME IInv, JudgeInv, [Next]_vars PROVE JudgeInv'
  OBVIOUS
<1>1. CASE UNCHANGED vars
  <2>1. UNCHANGED <<pc, cmd, res, config, dir, exit, disk, heard, parent, intact>>
    BY <1>1 DEF vars
  <2> QED
    BY <2>1 DEF JudgeInv, FinalSound, Exchanging, Offline, Recording, ZeroHeld
<1>2. ASSUME NEW a \in Commands, Start(a) PROVE JudgeInv'
  BY <1>2, StartUdpExchangeJudges, StartOfflineJudges, StartCompareJudges DEF Start
<1>3. CASE Process
  <2>1. ASSUME NEW id \in RunIds, Begin(id) PROVE JudgeInv'
    BY <2>1, BeginJudges
  <2>2. ASSUME NEW ok \in BOOLEAN, SendTo(ok) PROVE JudgeInv'
    BY <2>2, SendToJudges
  <2>3. ASSUME NEW status \in {"TIMEOUT", "RECEIVE_FAILED"}, GiveUp(status) PROVE JudgeInv'
    BY <2>3, GiveUpJudges
  <2> QED
    BY <1>3, <2>1, <2>2, <2>3, WriteVerifiedJudges, FailRecordJudges, RequestRecordedJudges,
       OfflineFrameRecordedJudges, OpenSocketJudges, ReceiveFromJudges, ResponseRecordedJudges,
       JudgeJudges, PublishJudges DEF Process
<1>4. CASE Environment
  <2>1. ASSUME NEW from, NEW frame, Arrive(from, frame) PROVE JudgeInv'
    BY <2>1, ArriveJudges
  <2>2. ASSUME NEW id \in RunIds, NEW path, Damage(id, path) PROVE JudgeInv'
    BY <2>2, DamageJudges
  <2> QED
    BY <1>4, <2>1, <2>2, CrashJudges DEF Environment
<1> QED
  BY <1>1, <1>2, <1>3, <1>4 DEF Next

\* In every state the program reaches, an exchange says that it decoded an answer only if it
\* judged that answer to be the remote endpoint's, and a replay only if the run it replays
\* says so.
THEOREM Judgement == Spec => [](IInv /\ JudgeInv)
  BY InitInv, StepInv, InitJudges, StepJudges, PTL DEF Spec

\* A datagram from anyone but the configured remote endpoint, or one over the limit of the
\* plan, never reaches the codec (JudgeResponse), and no replay decodes it either (RunReplay).
THEOREM ForeignUndecoded == Spec => []ForeignNeverDecoded
<1>1. JudgeInv => ForeignNeverDecoded
  <2> SUFFICES ASSUME JudgeInv, NEW id \in Published, Decodes(RunOf(intact[id]))
               PROVE  LET origin == IF parent[id] = NoName THEN id ELSE parent[id] IN
                      Believed(heard[origin], RunOf(intact[origin]).remote,
                               intact[origin][ConfigPath])
    BY Zenon DEF ForeignNeverDecoded, Decodes, Believed, NoName
  <2>1. id \in RunIds /\ disk[id].state = "final" /\ FinalSound(id)
    BY DEF Published, JudgeInv
  <2>2. CASE parent[id] = NoName
    BY <2>1, <2>2 DEF FinalSound
  <2>3. CASE parent[id] # NoName
    <3>1. /\ parent[id] \in RunIds /\ disk[parent[id]].state = "final"
          /\ Decodes(RunOf(intact[parent[id]]))
      BY <2>1, <2>3 DEF FinalSound
    <3>2. FinalSound(parent[id])
      BY <3>1 DEF JudgeInv
    <3> QED
      BY <2>3, <3>1, <3>2 DEF FinalSound
  <2> QED
    BY <2>2, <2>3
<1> QED
  BY <1>1, Judgement, PTL

\* A command that ends with 0 without --expect-status has its evidence in place: a sent
\* request was answered by the remote endpoint and the answer decoded (RunUdpExchange).
THEOREM ExitIsTrue == Spec => []ExitTruthful
<1>1. JudgeInv => ExitTruthful
  <2>1. JudgeInv => ZeroHeld
    BY DEF JudgeInv
  <2>2. ZeroHeld => ExitTruthful
    BY Zenon DEF ZeroHeld, ExitTruthful, NoName
  <2> QED
    BY <2>1, <2>2
<1> QED
  BY <1>1, Judgement, PTL

\* The run directories tell what happened: what a command sent is on disk, what the reader
\* accepts is what a command wrote, what is published is what happened on the wire, no foreign
\* answer was decoded for it, and the exit code agrees with it.
THEOREM DirectoriesTell == Spec => []DirectoriesTruthful
<1>1. SentIsRecorded /\ AcceptedIsWritten /\ TellsTheWire /\ ForeignNeverDecoded /\ ExitTruthful
         => DirectoriesTruthful
  BY DEF DirectoriesTruthful
<1> QED
  BY <1>1, SentRecorded, AcceptedWritten, WireIsTold, ForeignUndecoded, ExitIsTrue, PTL
=============================================================================
