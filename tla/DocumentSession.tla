--------------------------- MODULE DocumentSession ---------------------------
(***************************************************************************)
(* The document session of the Lab UI as functions of its state: what each *)
(* call of DocumentSession does to the record s.  The tab that calls them  *)
(* is DocumentTab.tla.                                                     *)
(*                                                                         *)
(* A message has one caller-input field; typed is its draft: "none", a     *)
(* member of Values, "invalid" (bytes that do not fit the field) or        *)
(* "garbled" (text that is not bytes at all).  The inspect draft is a      *)
(* sequence of tokens, <<"junk">> being text that does not parse.          *)
(* Optional values are sequences of length 0 or 1.                         *)
(***************************************************************************)
EXTENDS LabStreamFlow, FiniteSets, FiniteSetsExt

CONSTANTS Kind,       \* the schema route of the document's configurations
          Pipelines,  \* a sequence of [stream, enc, dec], enc and dec sets of message indices
          Values      \* valid values of the input field

ASSUME KindAssumption == Kind \in {"BINARY", "ASCII10", "ASCII11", "LEGACY", "BRIDGE"}

IsAscii == Kind \in {"ASCII10", "ASCII11"}
Messages(p) == Pipelines[p].enc \cup Pipelines[p].dec
Front1(S) == Min(S)          \* indices are listed in ascending order

Junk == <<"junk">>

\* What is kept of a flow of the binding table while another one is shown.
NoSlot == [draft |-> <<>>, typed |-> "none", msg |-> 0, repr |-> "HEX", submitted |-> FALSE,
           result |-> <<>>, ifail |-> FALSE, preview |-> <<>>, efail |-> FALSE]

NewSession ==
  [state |-> "EMPTY", load |-> 0, config |-> "none", rev |-> 0,
   host |-> FALSE, hostFor |-> <<0, "none">>, table |-> <<>>, bind |-> 1, flow |-> 1,
   pipe |-> 0, mode |-> "ENCODE", slots |-> <<>>, streams |-> <<>>,
   draft |-> <<>>, typed |-> "none", msg |-> 0, repr |-> "HEX", submitted |-> FALSE,
   result |-> <<>>, ifail |-> FALSE, preview |-> <<>>, efail |-> FALSE]

Visible == DOMAIN NoSlot
WithView(s, v) == [x \in DOMAIN s |-> IF x \in Visible THEN v[x] ELSE s[x]]

FlowCount(binding) == IF binding.action = "DECODE" THEN 2 ELSE 1
Flows(table) == {k \in (1 .. Len(table)) \X (1 .. 2) : k[2] <= FlowCount(table[k[1]])}
StreamFlows(table) == {k \in Flows(table) : table[k[1]].action = "DECODE"
                                            /\ Pipelines[table[k[1]].pipe].stream}

Binding(s) == s.table[s.bind]
Selected(s) == <<s.bind, s.flow>>
BinaryHost(s) == Kind = "BINARY" /\ s.host
EncodeFlow(s) == s.host /\ Binding(s).action = "ENCODE"

\* The flow a stream operation works on: the selected one of the Host, or the direct
\* Decode binding every streaming pipeline has before a table is applied.
StreamKey(s) == IF s.host THEN Selected(s) ELSE <<0, s.pipe>>

RefreshDocumentState(s) ==
  IF s.state \notin {"EMPTY", "READY", "PREVIEW_VALID"} THEN s
  ELSE [s EXCEPT !.state = IF (s.mode = "ENCODE" /\ s.preview /= <<>>)
                              \/ (s.mode /= "ENCODE" /\ s.result /= <<>>)
                           THEN "PREVIEW_VALID" ELSE "READY"]

ClearInspectOutcome(s) == [s EXCEPT !.result = <<>>, !.ifail = FALSE]
ClearEncode(s) == [s EXCEPT !.preview = <<>>, !.efail = FALSE]
ClearSelectionAndPreview(s) == [ClearEncode(s) EXCEPT !.pipe = 0, !.msg = 0, !.typed = "none"]

-----------------------------------------------------------------------------
(* Loading. *)

\* Mutant: the Host session of the old configuration stays in use while the next one loads.
BeginLoad_KeepsHost(s) ==
  IF s.state = "CLOSED" THEN s
  ELSE [ClearInspectOutcome(ClearSelectionAndPreview(s)) EXCEPT
          !.load = @ + 1, !.config = "none", !.draft = <<>>, !.submitted = FALSE,
          !.state = "LOADING"]

BeginLoad(s) ==
  IF s.state = "CLOSED" THEN s
  ELSE [ClearInspectOutcome(ClearSelectionAndPreview(s)) EXCEPT
          !.load = @ + 1, !.config = "none", !.host = FALSE, !.table = <<>>, !.slots = <<>>,
          !.streams = <<>>, !.draft = <<>>, !.repr = "HEX", !.submitted = FALSE,
          !.state = "LOADING"]

SelectPipeline(s, p) ==
  [ClearEncode(ClearInspectOutcome(s)) EXCEPT !.pipe = p, !.msg = 0, !.typed = "none",
     !.draft = <<>>, !.submitted = FALSE, !.state = "READY"]

\* The message of an Encode flow of a Binary Host lives in the adapter: a new one drops the
\* typed input and the result of the old one there as well.
SelectEncodeMessage(s, m) ==
  IF BinaryHost(s) /\ EncodeFlow(s) /\ s.slots[Selected(s)].msg /= m
  THEN [s EXCEPT !.slots[Selected(s)] = [@ EXCEPT !.msg = m, !.typed = "none",
                                                  !.preview = <<>>, !.efail = FALSE]] ELSE s

SelectMessage(s, m) ==
  IF s.pipe = 0 \/ m \notin Messages(s.pipe)
     \/ (BinaryHost(s) /\ EncodeFlow(s) /\ m \notin Pipelines[Binding(s).pipe].enc) THEN s
  ELSE RefreshDocumentState([ClearEncode(SelectEncodeMessage(s, m)) EXCEPT !.msg = m,
                                                                          !.typed = "none"])

SetInitialSelection(s) ==
  LET p == Min({q \in 1 .. Len(Pipelines) : Messages(q) /= {}})
  IN SelectMessage(SelectPipeline(s, p), Front1(Messages(p)))

\* The public routes of a completed compile.  The stream route creates one direct channel
\* for each streaming pipeline; a Binary document is shown in Inspect until it is bound.
AdoptLegacy(s) == SetInitialSelection(s)
AdoptBinary(s) == [SetInitialSelection(s) EXCEPT !.mode = "INSPECT"]
AdoptAsciiComplete(s) == SetInitialSelection(s)
AdoptAsciiStream(s) ==
  [SetInitialSelection(s) EXCEPT
     !.streams = [k \in {<<0, p>> : p \in {q \in 1 .. Len(Pipelines) : Pipelines[q].stream}}
                    |-> EmptyStream]]
AdoptBridge(s) == SetInitialSelection(s)

\* A late completion, good or bad, touches nothing.
ApplyCompileCompletion(s, c) ==
  IF s.state /= "LOADING" \/ c.load /= s.load THEN s
  ELSE IF ~c.ok THEN [s EXCEPT !.state = "CONFIG_ERROR"]
  ELSE LET t == [s EXCEPT !.config = c.config]
       IN [(CASE Kind = "LEGACY" -> AdoptLegacy(t) [] Kind = "BINARY" -> AdoptBinary(t)
              [] Kind = "ASCII10" -> AdoptAsciiComplete(t)
               [] Kind = "ASCII11" -> AdoptAsciiStream(t)
              [] Kind = "BRIDGE" -> AdoptBridge(t)) EXCEPT !.state = "READY"]

Close(s) == [NewSession EXCEPT !.state = "CLOSED", !.load = s.load, !.rev = s.rev,
                               !.bind = s.bind, !.flow = s.flow, !.mode = s.mode]

-----------------------------------------------------------------------------
(* Modes, representation and drafts. *)

EncodeAvailable(s) ==
  /\ s.config /= "none" /\ s.msg /= 0
  /\ Kind = "BINARY" => s.host
  /\ s.host => Binding(s).action = "ENCODE"
  /\ s.msg \in UNION {Pipelines[p].enc : p \in IF Kind = "LEGACY" THEN {s.pipe}
                                               ELSE 1 .. Len(Pipelines)}

InspectAvailable(s) ==
  /\ s.config /= "none" /\ s.pipe /= 0
  /\ Kind = "BINARY" => s.host
  /\ s.host => Binding(s).action = "DECODE"
  /\ Pipelines[s.pipe].dec /= {} /\ ~Pipelines[s.pipe].stream

StreamInspectAvailable(s) ==
  s.config /= "none" /\ s.pipe /= 0 /\ StreamKey(s) \in DOMAIN s.streams

SetMode(s, m) == RefreshDocumentState([s EXCEPT !.mode = m])

\* Mutant: a converted chunk counts as new input and can be submitted twice.
SetRepresentation_Resubmits(s, r) ==
  IF ~IsAscii \/ s.repr = r \/ s.draft = Junk \/ s.typed = "garbled" THEN s
  ELSE RefreshDocumentState([ClearEncode(ClearInspectOutcome(s)) EXCEPT !.repr = r,
                                                                       !.submitted = FALSE])

\* The drafts are converted between Hex and escaped ASCII, or the switch is refused whole.
\* A chunk that was submitted stays submitted under its new spelling.
SetRepresentation(s, r) ==
  IF ~IsAscii \/ s.repr = r \/ s.draft = Junk \/ s.typed = "garbled" THEN s
  ELSE RefreshDocumentState([ClearEncode(ClearInspectOutcome(s)) EXCEPT !.repr = r])

\* Mutant: an edited field leaves the result of the last Encode in the adapter.
InvalidateInput_KeepsCurrent(s) == RefreshDocumentState(ClearEncode(s))

\* Every edit of the field drops the preview, and the Encode result the adapter keeps.
InvalidateInput(s) ==
  RefreshDocumentState(ClearEncode(
    IF BinaryHost(s) /\ EncodeFlow(s)
    THEN [s EXCEPT !.slots[Selected(s)].preview = <<>>] ELSE s))

InvalidateDraft(s) == [InvalidateInput(s) EXCEPT !.typed = "none"]

SetInvalidDraft(s, v) == [InvalidateInput(s) EXCEPT !.typed = v, !.efail = TRUE]

SetDraft(s, v) == [InvalidateInput(s) EXCEPT !.typed = v]

SetInspectDraft(s, d) ==
  IF s.pipe = 0 \/ s.draft = d THEN s
  ELSE RefreshDocumentState([ClearInspectOutcome(s) EXCEPT !.draft = d, !.submitted = FALSE])

\* An edit that is too long is refused whole; the draft and its submission are kept.
RejectInspectCapacity(s) == RefreshDocumentState(ClearInspectOutcome(s))

-----------------------------------------------------------------------------
(* Encode and Inspect: ok is the verdict of the codec, unless the input fails first. *)

Shown(s) == [msg |-> s.msg, typed |-> s.typed]

EncodeFailed(s) == [s EXCEPT !.preview = <<>>, !.efail = TRUE]
EncodeDone(s) == [s EXCEPT !.preview = <<Shown(s)>>, !.efail = FALSE]
Encoded(s, ok) == RefreshDocumentState(IF ok THEN EncodeDone(s) ELSE EncodeFailed(s))

EncodeBinary(s, ok) ==
  IF ~EncodeFlow(s) THEN EncodeFailed(s)
  ELSE IF s.typed \notin Values THEN Encoded(s, FALSE)
  ELSE Encoded([s EXCEPT !.slots[Selected(s)].preview = IF ok THEN <<Shown(s)>> ELSE <<>>], ok)

\* A message that cannot be encoded is handed to the adapter all the same, which refuses it.
EncodeAscii(s, ok) ==
  LET encodable == s.msg \in UNION {Pipelines[p].enc : p \in 1 .. Len(Pipelines)}
  IN Encoded(s, ok /\ encodable /\ s.typed \in Values
                   /\ (s.host => EncodeFlow(s)) /\ s.msg \in Pipelines[s.pipe].enc)

EncodeLegacy(s, ok) == Encoded(s, ok /\ s.typed \in Values)

\* The private bridge decodes what it encoded and shows the frame only if both are right.
EncodeBridge(s, ok) == Encoded(s, ok /\ s.typed \in Values)

Encode(s, ok) ==
  IF s.msg = 0 \/ s.config = "none" THEN EncodeFailed(s)
  ELSE CASE Kind = "BINARY" -> EncodeBinary(s, ok) [] IsAscii -> EncodeAscii(s, ok)
         [] Kind = "LEGACY" -> EncodeLegacy(s, ok) [] Kind = "BRIDGE" -> EncodeBridge(s, ok)

InspectFailed(s) == RefreshDocumentState([s EXCEPT !.result = <<>>, !.ifail = TRUE])
Inspected(s, ok) ==
  IF ok THEN RefreshDocumentState([s EXCEPT !.result = <<s.draft>>, !.ifail = FALSE])
  ELSE InspectFailed(s)

Parses(s) == s.draft \notin {Junk, <<>>}

\* The Host keeps the last Decode of the flow; input that does not parse never reaches it.
InspectBinary(s, ok) ==
  IF ~InspectAvailable(s) \/ ~Parses(s) THEN InspectFailed(s)
  ELSE Inspected([s EXCEPT !.slots[Selected(s)].result = IF ok THEN <<s.draft>> ELSE <<>>,
                           !.slots[Selected(s)].ifail = ~ok], ok)

InspectAscii(s, ok) ==
  Inspected(s, ok /\ ~Pipelines[s.pipe].stream /\ Parses(s)
               /\ (s.host => Binding(s).action = "DECODE"))

InspectLegacy(s, ok) == Inspected(s, ok /\ Parses(s))

\* The bridge names the message it matched; one of another pipeline is refused here.
InspectBridge(s, ok) == Inspected(s, ok /\ Parses(s) /\ Pipelines[s.pipe].dec /= {})

Inspect(s, ok) ==
  IF s.config = "none" \/ s.pipe = 0 THEN InspectFailed(s)
  ELSE CASE Kind = "BINARY" -> InspectBinary(s, ok) [] IsAscii -> InspectAscii(s, ok)
         [] Kind = "LEGACY" -> InspectLegacy(s, ok) [] Kind = "BRIDGE" -> InspectBridge(s, ok)

-----------------------------------------------------------------------------
(* Stream Inspect. *)

\* The candidate of the last step as result or failure; a failed copy is a failure.
ProjectStream(s, st) ==
  [s EXCEPT !.result = IF st.current.kind = "result" /\ ~st.mapFaulted
                       THEN <<<<st.current.of>>>> ELSE <<>>,
            !.ifail = st.current.kind \in {"failure", "copy_failed"}
                      \/ (st.mapFaulted /\ st.current.kind /= "none")]

BinaryStepped(s, st, o) ==
  LET mapped == MapStreamStep(st, o)
  IN RefreshDocumentState(ProjectStream([s EXCEPT !.streams[StreamKey(s)] = mapped], mapped))

\* A step that failed drops the old result and leaves the document state as it was.
AsciiStepped(s, st) ==
  LET t == [s EXCEPT !.streams[StreamKey(s)] = st]
  IN IF ResetRequired(st) THEN ClearInspectOutcome(t)
     ELSE RefreshDocumentState(ProjectStream(t, st))

SubmitOutcomes(s) ==
  IF ~StreamInspectAvailable(s) \/ ~Parses(s) \/ ~AcceptsChunk(s.streams[StreamKey(s)], s.draft)
  THEN {[took |-> 0, frames |-> 0, copied |-> TRUE, mapped |-> TRUE]}
  ELSE {o \in HostOutcomes(Frozen(s.streams[StreamKey(s)], s.draft)) : IsAscii => o.mapped}

SubmitStreamBinary(s, o) ==
  LET st == s.streams[StreamKey(s)]
  IN IF ~Parses(s) \/ ~AcceptsChunk(st, s.draft) THEN s
     ELSE BinaryStepped(s, SubmitChunk(st, s.draft, o), o)

\* One edit is submitted once: only a call that reached the Host marks the draft.
SubmitStreamAscii(s, o) ==
  LET st == s.streams[StreamKey(s)]
  IN IF s.submitted \/ (~Parses(s) /\ s.repr = "HEX") THEN s
     ELSE IF ~Parses(s) THEN [s EXCEPT !.ifail = TRUE]
     ELSE IF ~AcceptsChunk(st, s.draft) THEN ClearInspectOutcome(s)
     ELSE AsciiStepped([s EXCEPT !.submitted = TRUE], SubmitChunk(st, s.draft, o))

SubmitStream(s, o) ==
  IF ~StreamInspectAvailable(s) THEN s
  ELSE IF Kind = "BINARY" THEN SubmitStreamBinary(s, o) ELSE SubmitStreamAscii(s, o)

StreamContinueAvailable(s) ==
  StreamInspectAvailable(s) /\ ContinueAvailable(s.streams[StreamKey(s)])

ContinueOutcomes(s) ==
  {o \in HostOutcomes(s.streams[StreamKey(s)]) : IsAscii => o.mapped}

ContinueStreamBinary(s, o) == BinaryStepped(s, RunStreamStep(s.streams[StreamKey(s)], o), o)
ContinueStreamAscii(s, o) == AsciiStepped(s, RunStreamStep(s.streams[StreamKey(s)], o))

ContinueStream(s, o) ==
  IF ~StreamContinueAvailable(s) THEN s
  ELSE IF Kind = "BINARY" THEN ContinueStreamBinary(s, o) ELSE ContinueStreamAscii(s, o)

ResetStreamBinary(s) ==
  RefreshDocumentState([ClearInspectOutcome(s) EXCEPT !.streams[StreamKey(s)] = EmptyStream,
                                                      !.draft = <<>>])
ResetStreamAscii(s) == [ResetStreamBinary(s) EXCEPT !.submitted = FALSE]

ResetStream(s) ==
  IF ~StreamInspectAvailable(s) THEN s
  ELSE IF Kind = "BINARY" THEN ResetStreamBinary(s) ELSE ResetStreamAscii(s)

\* Every channel of the table is reset and the saved view of its flow is dropped.
ResetAllHostStreams(s) ==
  [ClearInspectOutcome(s) EXCEPT !.streams = [k \in DOMAIN s.streams |-> EmptyStream],
     !.slots = [k \in DOMAIN s.slots |-> NoSlot], !.draft = <<>>, !.submitted = FALSE]

\* A Binary flow counts as soon as it has been used at all.
StreamHasDiscardableState(s) ==
  /\ s.config /= "none"
  /\ \E k \in DOMAIN s.streams :
       \/ StreamDiscardable(s.streams[k])
       \/ BinaryHost(s) /\ (s.slots[k].draft /= <<>> \/ s.streams[k].used)

BinaryHasDiscardableState(s) ==
  /\ BinaryHost(s)
  /\ \/ s.draft /= <<>> \/ s.result /= <<>> \/ s.ifail
     \/ \E k \in DOMAIN s.slots : LET v == s.slots[k] IN
           v.draft /= <<>> \/ v.result /= <<>> \/ v.ifail \/ v.preview /= <<>>
     \/ \E k \in DOMAIN s.streams : s.streams[k].used \/ StreamDiscardable(s.streams[k])

HostHasDiscardableState(s) ==
  /\ IsAscii /\ s.host
  /\ LET Busy(v) == v.draft /= <<>> \/ v.typed /= "none" \/ v.result /= <<>> \/ v.ifail
                    \/ v.preview /= <<>> \/ v.efail
     IN Busy(s) \/ \E k \in DOMAIN s.slots : Busy(s.slots[k])

-----------------------------------------------------------------------------
(* Binding tables and their flows. *)

ModeOf(binding) == IF binding.action = "ENCODE" THEN "ENCODE"
                   ELSE IF Pipelines[binding.pipe].stream THEN "STREAM" ELSE "INSPECT"

FirstMessage(binding) ==
  Front1(IF Kind = "BINARY" /\ binding.action = "ENCODE" THEN Pipelines[binding.pipe].enc
         ELSE Messages(binding.pipe))

\* A new table starts from nothing: every flow idle, the first one selected.
Bound(s, table, from) ==
  [ClearInspectOutcome(ClearSelectionAndPreview(s)) EXCEPT
     !.host = TRUE, !.hostFor = from, !.table = table, !.bind = 1, !.flow = 1,
     !.slots = [k \in Flows(table) |->
                  [NoSlot EXCEPT !.msg = IF Kind = "BINARY" /\ table[k[1]].action = "ENCODE"
                                         THEN FirstMessage(table[k[1]]) ELSE 0]],
     !.streams = [k \in StreamFlows(table) |-> EmptyStream],
     !.draft = <<>>, !.submitted = FALSE, !.repr = "HEX",
     !.pipe = table[1].pipe, !.msg = Front1(Messages(table[1].pipe)),
     !.mode = ModeOf(table[1]), !.state = "READY"]

\* A Binary candidate belongs to this load and configuration and is the next session.
PrepareBinaryHostPublication(s, c) ==
  /\ Kind = "BINARY" /\ s.config /= "none"
  /\ c.load = s.load /\ c.config = s.config /\ c.rev = s.rev + 1
  /\ c.table[1].action = "DECODE" /\ Messages(c.table[1].pipe) /= {}

PublishBinaryHostPublication(s, c) ==
  [Bound(s, c.table, <<c.load, c.config>>) EXCEPT !.rev = c.rev]

ApplyHostAdapter(s, c) == Bound(s, c.table, <<c.load, c.config>>)

\* The drafts and the message of the flow that is left; its results are in the Host already.
SaveDraftsAndSelect(s, k) ==
  [s EXCEPT !.slots[Selected(s)] =
     [@ EXCEPT !.draft = s.draft, !.typed = s.typed, !.efail = s.efail,
               !.msg = IF EncodeFlow(s) THEN s.msg ELSE @]]

\* Showing a stream flow copies its last candidate again, and that copy may fail.
MapCurrentStream(s, copied) ==
  LET st == s.streams[Selected(s)]
      shown == IF ~st.used \/ copied THEN st ELSE [st EXCEPT !.mapFaulted = TRUE]
  IN ProjectStream([s EXCEPT !.streams[Selected(s)] = shown], shown)

\* Everything the view of flow k needs, taken from what was kept of it.
ShowFlow(s, k) ==
  LET v == s.slots[k]
      b == s.table[k[1]]
  IN [s EXCEPT !.bind = k[1], !.flow = k[2], !.pipe = b.pipe, !.mode = ModeOf(b),
               !.msg = IF b.action = "ENCODE" THEN v.msg ELSE Front1(Pipelines[b.pipe].dec),
               !.draft = v.draft, !.typed = v.typed, !.preview = v.preview,
               !.efail = v.efail /\ v.preview = <<>>, !.result = v.result,
               !.ifail = v.ifail, !.repr = "HEX"]

PublishBinaryHostFlow(s, k, copied) ==
  IF k = Selected(s) THEN s
  ELSE LET t == ShowFlow(SaveDraftsAndSelect(s, k), k)
       IN RefreshDocumentState(IF k \in DOMAIN s.streams THEN MapCurrentStream(t, copied) ELSE t)

SaveHostView(s) ==
  IF ~s.host \/ s.pipe = 0 THEN s
  ELSE [s EXCEPT !.slots[Selected(s)] = [x \in Visible |-> s[x]]]

\* The view of the flow is saved whole and that of the next one is put in its place.
SelectHostFlow(s, k) ==
  IF k = Selected(s) /\ s.pipe /= 0 THEN s
  ELSE LET b == s.table[k[1]]
           t == [SelectPipeline([SaveHostView(s) EXCEPT !.bind = k[1], !.flow = k[2]], b.pipe)
                   EXCEPT !.mode = ModeOf(b)]
           u == SelectMessage(t, Front1(Messages(b.pipe)))
           v == u.slots[k]
       IN RefreshDocumentState([WithView(u, v) EXCEPT
                                  !.msg = IF v.msg = 0 THEN u.msg ELSE v.msg])
=============================================================================
