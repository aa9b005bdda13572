----------------------------- MODULE DocumentTab -----------------------------
(***************************************************************************)
(* One document tab of the Lab UI: the handlers of its widgets around a    *)
(* DocumentSession, the compile requests it has at the worker, and the     *)
(* questions it asks.  A question runs an event loop of its own: the poll  *)
(* timer keeps delivering completions below it, except when the question   *)
(* was asked by a handler of that timer.  Encode and Inspect first process *)
(* pending events, so a completion can slip in between press and run.      *)
(*                                                                         *)
(* The worker is CompileWorker.tla; here it is the sequence of requests of *)
(* this document that it has not answered yet.                             *)
(***************************************************************************)
EXTENDS DocumentSession

CONSTANTS Sources,     \* configurations a path may hold; "bad" does not compile
          Tables,      \* binding tables the user may apply
          Chunks,      \* drafts the user may type
          MaxLoads, MaxApplies, MaxTaken   \* bounds of the instance

ASSUME TablesAssumption == \A t \in Tables : Len(t) > 0

\* What is typed consists of the tokens; no configuration has the name of "no configuration".
ASSUME ChunksAssumption == Chunks \subseteq Seq(Tokens \cup {"junk"})
ASSUME SourcesAssumption == "none" \notin Sources

VARIABLES s,           \* the session
          inflight,    \* requests at the worker, oldest first
          pending,     \* the Host request whose answer is awaited, as <<>> or <<request>>
          hostText,    \* the text kept for Host requests: a source or "none"
          dialogs,     \* open questions, the innermost last
          armed,       \* a pressed Encode or Inspect whose events are being processed
          applies,     \* host_request_sequence_
          closed,
          answer,      \* the answer the last step gave, if it gave one
          entered      \* history: the drafts last typed into each flow of the table

vars == <<s, inflight, pending, hostText, dialogs, armed, applies, closed, answer, entered>>

Typed == {"none", "invalid", "garbled"} \cup Values
Ops == {"RELOAD", "RELOAD_HOST", "PIPELINE", "MODE", "CLOSE", "CLOSE_HOST", "PUBLISH"}

TypeOK ==
  /\ s.state \in {"EMPTY", "LOADING", "READY", "PREVIEW_VALID", "CONFIG_ERROR", "CLOSED"}
  /\ s.config \in Sources \cup {"none"} /\ s.mode \in {"ENCODE", "INSPECT", "STREAM"}
  /\ s.pipe \in 0 .. Len(Pipelines) /\ s.typed \in Typed
  /\ s.draft \in Chunks \cup {<<>>} /\ Len(s.result) <= 1 /\ Len(s.preview) <= 1
  /\ DOMAIN s = DOMAIN NewSession
  /\ s.host => DOMAIN s.slots = Flows(s.table) /\ Selected(s) \in Flows(s.table)
  /\ \A k \in DOMAIN s.streams : s.streams[k].current \in Steps
  /\ \A i \in DOMAIN dialogs : dialogs[i].op \in Ops
  /\ armed \in {"", "ENCODE", "INSPECT"} /\ Len(pending) <= 1
  /\ closed = (s.state = "CLOSED")

Init == /\ s = NewSession /\ inflight = <<>> /\ pending = <<>> /\ hostText = "none"
        /\ dialogs = <<>> /\ armed = "" /\ applies = 0 /\ closed = FALSE /\ answer = ""
        /\ entered = <<>>

-----------------------------------------------------------------------------
(* Helpers. *)

UserFree == dialogs = <<>> /\ armed = "" /\ ~closed
Loading == s.state = "LOADING"
HasDescription == s.config /= "none"

Ask(op, arg) == dialogs' = Append(dialogs, [op |-> op, arg |-> arg])

\* What was typed, kept apart from the session.
Entries(t) ==
  [k \in DOMAIN t.slots |-> IF k = Selected(t) THEN [draft |-> t.draft, typed |-> t.typed]
                            ELSE [draft |-> <<>>, typed |-> "none"]]
Note(t) == entered' = IF ~t.host THEN <<>>
                      ELSE [entered EXCEPT ![Selected(t)] = [draft |-> t.draft, typed |-> t.typed]]

\* A submitted request replaces the queued one of its document unless that one was taken up.
Submit(queue, r) == {Append(queue, r)} \cup (IF queue = <<>> THEN {} ELSE {Append(Front(queue), r)})

Request(kind, load, source, table, seq) ==
  [kind |-> kind, load |-> load, config |-> source, ok |-> source /= "bad", table |-> table,
   seq |-> seq, rev |-> s.rev + 1]

-----------------------------------------------------------------------------
(* Loading. *)

\* Mutant: the Host request of the old load stays awaited.
StartLoad_KeepsPending(t) ==
  \E source \in Sources \cup {"unreadable"} :
    LET begun == BeginLoad(t)
        failed == ApplyCompileCompletion(begun,
                                         [load |-> begun.load, config |-> source, ok |-> FALSE])
    IN /\ IF source = "unreadable"
          THEN s' = failed /\ hostText' = "none" /\ UNCHANGED inflight
          ELSE /\ s' = begun /\ hostText' = source
               /\ inflight' \in Submit(inflight, Request("LOAD", begun.load, source, <<>>, 0))
       /\ entered' = <<>> /\ UNCHANGED pending

\* The rest of BeginLoadFromPath, once nothing is left to ask.  A file that cannot be read,
\* is too large or is refused by the worker completes the load at once with a failure.
StartLoad(t) ==
  \E source \in Sources \cup {"unreadable"} :
    LET begun == BeginLoad(t)
        failed == ApplyCompileCompletion(begun,
                                         [load |-> begun.load, config |-> source, ok |-> FALSE])
    IN /\ IF source = "unreadable"
          THEN s' = failed /\ hostText' = "none" /\ UNCHANGED inflight
          ELSE /\ s' = begun /\ hostText' = source
               /\ inflight' \in Submit(inflight, Request("LOAD", begun.load, source, <<>>, 0))
       /\ pending' = <<>> /\ entered' = <<>>

\* The second question of a reload: drafts, results or a Host request of a Binary document.
ReloadHostAsked(t, rest) ==
  IF BinaryHasDiscardableState(t) \/ (Kind = "BINARY" /\ t.config /= "none" /\ pending /= <<>>)
  THEN /\ s' = t /\ dialogs' = Append(rest, [op |-> "RELOAD_HOST", arg |-> 0])
       /\ UNCHANGED <<inflight, pending, hostText>>
       /\ Note(t)
  ELSE StartLoad(t) /\ dialogs' = rest

BeginLoadFromPath ==
  /\ UserFree /\ s.load < MaxLoads
  /\ IF StreamHasDiscardableState(s)
     THEN Ask("RELOAD", 0) /\ UNCHANGED <<s, inflight, pending, hostText, entered>>
     ELSE ReloadHostAsked(s, dialogs)
  /\ answer' = "" /\ UNCHANGED <<armed, applies, closed>>

\* Mutant: the reset has succeeded only when no stream of the document holds anything more.
ConfirmStreamDiscard_AsksAgain(t) ==
  IF ~StreamHasDiscardableState(t) THEN [ok |-> TRUE, s |-> t]
  ELSE IF IsAscii /\ t.host THEN [ok |-> TRUE, s |-> ResetAllHostStreams(t)]
  ELSE [ok |-> StreamInspectAvailable(t) /\ ~StreamHasDiscardableState(ResetStream(t)),
        s |-> ResetStream(t)]

\* What a confirmed discard does before the step it was asked for goes on, if it does.
ConfirmStreamDiscard(t) ==
  IF ~StreamHasDiscardableState(t) THEN [ok |-> TRUE, s |-> t]
  ELSE IF IsAscii /\ t.host THEN [ok |-> TRUE, s |-> ResetAllHostStreams(t)]
  ELSE [ok |-> StreamInspectAvailable(t), s |-> ResetStream(t)]

-----------------------------------------------------------------------------
(* Host requests. *)

ApplyHostDraft ==
  /\ UserFree /\ ~Loading /\ HasDescription /\ pending = <<>> /\ hostText /= "none"
  /\ Kind \in {"BINARY", "ASCII10", "ASCII11"} /\ applies < MaxApplies
  /\ \E table \in Tables :
       LET r == Request("HOST", s.load, hostText, table, applies + 1)
       IN pending' = <<r>> /\ inflight' \in Submit(inflight, r)
  /\ applies' = applies + 1
  /\ answer' = "" /\ UNCHANGED <<s, hostText, dialogs, armed, closed, entered>>

\* Publication would discard something: ask before replacing the session.
NeedsConsent ==
  IF Kind = "BINARY" THEN BinaryHasDiscardableState(s)
  ELSE (Kind = "ASCII10" /\ HostHasDiscardableState(s)) \/ StreamHasDiscardableState(s)

Publish(c) ==
  LET t == IF Kind = "BINARY" THEN PublishBinaryHostPublication(s, c) ELSE ApplyHostAdapter(s, c)
  IN s' = t /\ entered' = Entries(t)

\* The candidate is still the one asked for; creating it may also fail for want of memory.
AcceptableCandidate(c) ==
  IF Kind = "BINARY" THEN PrepareBinaryHostPublication(s, c)
  ELSE HasDescription /\ c.config = s.config

AcceptHostCompletion(c) ==
  /\ pending' = <<>>
  /\ \/ UNCHANGED <<s, dialogs, entered>>
     \/ /\ AcceptableCandidate(c)
        /\ IF NeedsConsent THEN Ask("PUBLISH", c) /\ UNCHANGED <<s, entered>>
           ELSE Publish(c) /\ UNCHANGED dialogs

\* The poll timer hands one completion to the tab.  Its handler is not entered twice.
AcceptCompletion ==
  /\ inflight /= <<>> /\ ~closed
  /\ \A i \in DOMAIN dialogs : dialogs[i].op /= "PUBLISH"
  /\ LET c == Head(inflight)
     IN IF pending /= <<>> /\ c.kind = "HOST" /\ c.seq = pending[1].seq
        THEN AcceptHostCompletion(c)
        ELSE /\ s' = IF c.kind = "LOAD" THEN ApplyCompileCompletion(s, c) ELSE s
             /\ UNCHANGED <<pending, dialogs, entered>>
  /\ inflight' = Tail(inflight)
  /\ answer' = "" /\ UNCHANGED <<hostText, armed, applies, closed>>

SelectHostView ==
  /\ UserFree /\ s.host
  /\ \E k \in Flows(s.table) \ {Selected(s)}, copied \in BOOLEAN :
       /\ ~copied => Kind = "BINARY" /\ k \in DOMAIN s.streams /\ s.streams[k].used
       /\ s' = IF Kind = "BINARY" THEN PublishBinaryHostFlow(s, k, copied) ELSE SelectHostFlow(s, k)
  /\ answer' = ""
   /\ UNCHANGED <<inflight, pending, hostText, dialogs, armed, applies, closed, entered>>

-----------------------------------------------------------------------------
(* Selectors and editors. *)

\* The mode follows when the new pipeline has no stream, and a message is selected again.
PipelineSelected(t, p) ==
  LET u == SelectPipeline(t, p)
      v == IF u.mode = "STREAM" /\ ~StreamInspectAvailable(u) THEN SetMode(u, "ENCODE") ELSE u
  IN SelectMessage(v, Front1(Messages(p)))

SelectorsEnabled == UserFree /\ ~Loading /\ HasDescription /\ ~s.host

SelectPipelineAction ==
  /\ SelectorsEnabled
  /\ \E p \in (1 .. Len(Pipelines)) \ {s.pipe} :
       IF StreamHasDiscardableState(s) THEN Ask("PIPELINE", p) /\ UNCHANGED s
       ELSE s' = PipelineSelected(s, p) /\ UNCHANGED dialogs
  /\ answer' = "" /\ UNCHANGED <<inflight, pending, hostText, armed, applies, closed, entered>>

SelectMode ==
  /\ SelectorsEnabled
  /\ \E m \in {"ENCODE", "INSPECT", "STREAM"} \ {s.mode} :
       /\ m = "INSPECT" => InspectAvailable(s)
       /\ m = "STREAM" => StreamInspectAvailable(s)
       /\ IF s.mode = "STREAM" /\ StreamHasDiscardableState(s)
          THEN Ask("MODE", m) /\ UNCHANGED s
          ELSE s' = SetMode(s, m) /\ UNCHANGED dialogs
  /\ answer' = "" /\ UNCHANGED <<inflight, pending, hostText, armed, applies, closed, entered>>

\* Steps of the editors: they change the session and nothing else.
Edited(t) == /\ s' = t /\ Note(t) /\ answer' = ""
             /\ UNCHANGED <<inflight, pending, hostText, dialogs, armed, applies, closed>>

SelectRepresentation ==
  /\ UserFree /\ ~Loading /\ HasDescription /\ IsAscii
  /\ \E r \in {"HEX", "ASCII"} \ {s.repr} : Edited(SetRepresentation(s, r))

SelectMessageAction ==
  /\ UserFree /\ ~Loading /\ HasDescription /\ s.mode = "ENCODE"
  /\ \E m \in (IF Kind = "BINARY" THEN Pipelines[s.pipe].enc ELSE Messages(s.pipe)) \ {s.msg} :
       Edited(SelectMessage(s, m))

\* Opening the editor of the field drops its draft; committing sets it or marks it invalid.
EditField ==
  /\ UserFree /\ ~Loading /\ HasDescription /\ s.mode = "ENCODE" /\ s.msg /= 0
  /\ \/ Edited(InvalidateDraft(s))
     \/ \E v \in Values : Edited(SetDraft(InvalidateDraft(s), v))
     \/ \E v \in {"invalid", "garbled"} : Edited(SetInvalidDraft(s, v))

\* The chunk editor is read-only while the stream still has something to continue.
ChunkEditable == ~(s.mode = "STREAM" /\ StreamContinueAvailable(s))

EditInspect ==
  /\ UserFree /\ ~Loading /\ HasDescription /\ s.mode /= "ENCODE" /\ ChunkEditable
  /\ \/ \E d \in Chunks \ {s.draft} : Edited(SetInspectDraft(s, d))
     \/ Edited(RejectInspectCapacity(s))

-----------------------------------------------------------------------------
(* Encode, Inspect and the stream buttons. *)

Press ==
  /\ UserFree /\ ~Loading /\ HasDescription
  /\ armed' \in {op \in {"ENCODE", "INSPECT"} :
        IF op = "ENCODE" THEN s.mode = "ENCODE" /\ EncodeAvailable(s)
        ELSE IF s.mode = "INSPECT" THEN InspectAvailable(s)
        ELSE s.mode = "STREAM" /\ StreamInspectAvailable(s) /\ ChunkEditable}
  /\ answer' = "" /\ UNCHANGED <<s, inflight, pending, hostText, dialogs, applies, closed, entered>>

EncodeCurrent ==
  /\ armed = "ENCODE" /\ dialogs = <<>>
  /\ \E ok \in BOOLEAN : s' = Encode(s, ok)
  /\ armed' = "" /\ answer' = ""
  /\ UNCHANGED <<inflight, pending, hostText, dialogs, applies, closed, entered>>

InspectCurrent ==
  /\ armed = "INSPECT" /\ dialogs = <<>>
  /\ IF s.mode = "STREAM"
     THEN /\ StreamInspectAvailable(s)
             => Len(s.streams[StreamKey(s)].taken) + Len(s.draft) <= MaxTaken \/ ~Parses(s)
          /\ \E o \in SubmitOutcomes(s) : s' = SubmitStream(s, o)
     ELSE \E ok \in BOOLEAN : s' = Inspect(s, ok)
  /\ armed' = "" /\ answer' = ""
  /\ UNCHANGED <<inflight, pending, hostText, dialogs, applies, closed, entered>>

ContinueStreamAction ==
  /\ UserFree /\ s.mode = "STREAM" /\ StreamContinueAvailable(s)
  /\ \E o \in ContinueOutcomes(s) : s' = ContinueStream(s, o)
  /\ answer' = ""
   /\ UNCHANGED <<inflight, pending, hostText, dialogs, armed, applies, closed, entered>>

ResetStreamAction ==
  /\ UserFree /\ s.mode = "STREAM" /\ StreamInspectAvailable(s)
  /\ Edited(ResetStream(s))

-----------------------------------------------------------------------------
(* Closing and answering. *)

CloseNow(rest) ==
  /\ closed' = TRUE /\ s' = Close(s) /\ inflight' = <<>> /\ pending' = <<>>
  /\ dialogs' = rest /\ entered' = <<>> /\ UNCHANGED hostText

\* The Binary question of a close; streams already asked about are not asked about again.
CloseHostAsked(streamAsked, rest) ==
  IF (~streamAsked /\ BinaryHasDiscardableState(s))
     \/ (Kind = "BINARY" /\ HasDescription /\ pending /= <<>>)
  THEN /\ dialogs' = Append(rest, [op |-> "CLOSE_HOST", arg |-> 0])
       /\ UNCHANGED <<s, inflight, pending, hostText, closed, entered>>
  ELSE CloseNow(rest)

CloseDocument ==
  /\ UserFree
  /\ IF StreamHasDiscardableState(s)
     THEN Ask("CLOSE", 0) /\ UNCHANGED <<s, inflight, pending, hostText, closed, entered>>
     ELSE CloseHostAsked(FALSE, dialogs)
  /\ answer' = "" /\ UNCHANGED <<armed, applies>>

Top == Last(dialogs)

AnswerNo ==
  /\ dialogs /= <<>> /\ dialogs' = Front(dialogs) /\ answer' = "NO"
  /\ UNCHANGED <<s, inflight, pending, hostText, armed, applies, closed, entered>>

\* A confirmed step goes on with the session as it is now.
AnswerYes ==
  /\ dialogs /= <<>> /\ answer' = "YES" /\ UNCHANGED <<armed, applies>>
  /\ LET rest == Front(dialogs)
         discard == ConfirmStreamDiscard(s)
     IN \/ /\ Top.op = "RELOAD" /\ UNCHANGED closed
           /\ IF discard.ok THEN ReloadHostAsked(discard.s, rest)
              ELSE dialogs' = rest /\ UNCHANGED <<s, inflight, pending, hostText, entered>>
        \/ /\ Top.op = "RELOAD_HOST" /\ StartLoad(s) /\ dialogs' = rest /\ UNCHANGED closed
        \/ /\ Top.op \in {"PIPELINE", "MODE"} /\ dialogs' = rest
           /\ s' = IF ~discard.ok THEN discard.s
                   ELSE IF Top.op = "MODE" THEN SetMode(discard.s, Top.arg)
                   ELSE PipelineSelected(discard.s, Top.arg)
           /\ entered' = IF s'.host THEN Entries(s') ELSE <<>>
           /\ UNCHANGED <<inflight, pending, hostText, closed>>
        \/ /\ Top.op = "PUBLISH" /\ Publish(Top.arg) /\ dialogs' = rest
           /\ UNCHANGED <<inflight, pending, hostText, closed>>
        \/ /\ Top.op = "CLOSE" /\ CloseHostAsked(TRUE, rest)
        \/ /\ Top.op = "CLOSE_HOST" /\ CloseNow(rest)

Next ==
  \/ BeginLoadFromPath \/ AcceptCompletion \/ ApplyHostDraft \/ SelectHostView
  \/ SelectPipelineAction \/ SelectMode \/ SelectRepresentation \/ SelectMessageAction
  \/ EditField \/ EditInspect \/ Press \/ EncodeCurrent \/ InspectCurrent
  \/ ContinueStreamAction \/ ResetStreamAction \/ CloseDocument \/ AnswerYes \/ AnswerNo

Spec == Init /\ [][Next]_vars

\* The worker answers, the poll timer runs, a pressed button returns, a question is answered.
Fairness == WF_vars(AcceptCompletion) /\ WF_vars(EncodeCurrent) /\ WF_vars(InspectCurrent)
            /\ WF_vars(AnswerYes \/ AnswerNo)

FairSpec == Spec /\ Fairness

-----------------------------------------------------------------------------
(* Properties. *)

\* The drafts shown for the selected flow are the ones last typed into it, however often the
\* view went to other flows in between (SaveHostView, SaveDraftsAndSelect).
DraftsSurvive ==
  s.host => [draft |-> s.draft, typed |-> s.typed] = entered[Selected(s)]

\* A preview on screen is the Encode of the message and the input that are on screen.
PreviewOfShownInput == s.preview /= <<>> => s.preview[1] = Shown(s)

\* The result of a complete-record Inspect on screen is of other input than the draft.
ResultStale(t) == t.mode = "INSPECT" /\ t.result /= <<>> /\ t.result[1] /= t.draft

\* A result on screen is that of the draft on screen, with one exception: the adapter of a
\* Binary Host keeps the last Decode of a flow over later edits of its draft, and only a
\* change of flow shows it again beside the edited draft (MapCurrent, SetDraft).
ResultOfShownInputStep ==
  ResultStale(s') =>
    \/ ResultStale(s) /\ s'.result = s.result /\ s'.draft = s.draft
    \/ /\ Kind = "BINARY" /\ s.host /\ s'.table = s.table /\ Selected(s') /= Selected(s)
       /\ s'.result = s.slots[Selected(s')].result

\* Each token given to a flow is framed, buffered or still frozen, once and in order.
BytesOnce == \A k \in DOMAIN s.streams : Conserved(s.streams[k])

\* An edit reaches the Host at most once: a chunk is taken only while it is not marked, taking
\* marks it, and while the flow stays in view only other input removes the mark
\* (document_session.cpp, UI_STREAM_CHUNK_ALREADY_SUBMITTED).
SubmittedOnceStep ==
  /\ \A k \in DOMAIN s.streams \cap DOMAIN s'.streams :
       s'.streams[k].taken \notin {s.streams[k].taken, <<>>} => ~s.submitted /\ s'.submitted
  /\ s.submitted /\ ~s'.submitted => s'.draft /= s.draft \/ StreamKey(s') /= StreamKey(s)
\* The Host session in use was prepared for this load of this configuration: a preparation
\* that was overtaken by a reload is never published.
PublishedForCurrentLoad == s.host => s.hostFor = <<s.load, s.config>>

\* A failing step of an ASCII stream takes the result off the screen and leaves the label.
LabelLags ==
  /\ IsAscii /\ s.mode = "STREAM" /\ s.state = "PREVIEW_VALID" /\ s.result = <<>>
  /\ StreamInspectAvailable(s) /\ ResetRequired(s.streams[StreamKey(s)])

\* PREVIEW_VALID says that the current mode shows a valid result and READY that it does not,
\* except for PREVIEW_VALID without a result while an ASCII stream waits for its Reset.
StateLabel ==
  s.state \in {"READY", "PREVIEW_VALID"} =>
    \/ (s.state = "PREVIEW_VALID") <=> (IF s.mode = "ENCODE" THEN s.preview /= <<>>
                                        ELSE s.result /= <<>>)
    \/ LabelLags

\* With a table in force the pipeline and the mode are those of the selected binding.
HostSelectionAgrees(t) == t.host => t.pipe = Binding(t).pipe /\ t.mode = ModeOf(Binding(t))

\* A question about the pipeline or the mode is answered with Yes after a Host was published
\* below it: the index that was read before it is applied all the same (SelectPipeline).
OvertakenAnswer ==
  dialogs /= <<>> /\ Top.op \in {"PIPELINE", "MODE"} /\ answer' = "YES" /\ s.host

\* Pipeline and mode leave those of the selected binding by an overtaken answer, which
\* applies what was asked for, and by no other step.
HostSelectionStep ==
  /\ ~HostSelectionAgrees(s') =>
       \/ OvertakenAnswer
       \/ ~HostSelectionAgrees(s) /\ s'.pipe = s.pipe /\ s'.mode = s.mode
  /\ OvertakenAnswer => IF Top.op = "PIPELINE" THEN s'.pipe = Top.arg ELSE s'.mode = Top.arg

\* Bytes a stream holds are lost only when a question was answered with Yes, or by Reset of
\* the selected stream.
NoSilentDiscardStep ==
  \A k \in DOMAIN s.streams :
    StreamDiscardable(s.streams[k])
    /\ (k \notin DOMAIN s'.streams \/ ~IsPrefix(s.streams[k].taken, s'.streams[k].taken))
    => \/ answer' = "YES"
       \/ k = StreamKey(s) /\ s' = ResetStream(s)

\* The selected flow of a Binary Host, the one route besides the text routes that has
\* streams, has none while another flow has something to discard (ConfirmStreamDiscard
\* resets the selected stream and gives up when there is none).
ReloadDropped == ~IsAscii /\ StreamHasDiscardableState(s) /\ ~StreamInspectAvailable(s)

\* A reload the user confirmed begins, unless a further question has to be asked.  It is
\* dropped, and nothing happens, exactly when a Binary Host shows a flow without a stream.
ConfirmedReloadStep ==
  dialogs /= <<>> /\ Top.op = "RELOAD" /\ answer' = "YES" =>
    IF ReloadDropped THEN s' = s /\ dialogs' = Front(dialogs)
    ELSE dialogs' = Front(dialogs) => s'.load = s.load + 1

\* The user's input is neither taken twice nor lost unasked, and a Yes to a reload is acted
\* upon but in the one case named.  Only the text routes mark an edit as submitted.
InputRespectedStep ==
  NoSilentDiscardStep /\ ConfirmedReloadStep /\ (IsAscii => SubmittedOnceStep)
InputRespected == [][InputRespectedStep]_vars

\* A load ends: in a usable document, in an error, or in the closed tab.
LoadSettles == Loading ~> ~Loading

\* A Host request does not block the next one for good: it is answered, or forgotten when a
\* reload takes its place in the queue.
HostRequestSettles == pending /= <<>> ~> pending = <<>>

\* Neither a load nor a Host request stays open for good.
RequestsSettle == LoadSettles /\ HostRequestSettles
=============================================================================
