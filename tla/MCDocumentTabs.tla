--------------------------- MODULE MCDocumentTabs ---------------------------
(***************************************************************************)
(* Every schema route of a document in one state space.  The document of a *)
(* behaviour is drawn once; its steps are those of DocumentTab for it.     *)
(*   BINARY           a Host of a stream and an Encode binding, applied    *)
(*                    twice                                                *)
(*   BINARY_RELOAD    the same, applied once, with values and a reload     *)
(*   BINARY_COMPLETE  a Host of complete records, applied twice, records   *)
(*                    that do not decode                                   *)
(*   ASCII_COMPLETE   complete records of the text route, with values      *)
(*   ASCII_STREAM     one stream binding, a reload that may not compile    *)
(*   ASCII_PAIR       one flow, two records in one chunk                   *)
(*   LEGACY, BRIDGE   the routes without a Host, drafts that do not parse  *)
(***************************************************************************)

TwoValues == {"a", "b"}
NoValues == {}
OneValue == {"a"}

StreamPipelines == <<[stream |-> TRUE, enc |-> {1}, dec |-> {1}],
                     [stream |-> FALSE, enc |-> {2}, dec |-> {2}]>>
FlowPipeline == <<[stream |-> TRUE, enc |-> {}, dec |-> {1}]>>
CompletePipelines == <<[stream |-> FALSE, enc |-> {1, 2}, dec |-> {1}],
                       [stream |-> FALSE, enc |-> {3}, dec |-> {}]>>

Decode(p) == [pipe |-> p, action |-> "DECODE"]
Encoding(p) == [pipe |-> p, action |-> "ENCODE"]

\* Receive on the first pipeline and send on the second; receive only.
MixedTable == {<<Decode(1), Encoding(2)>>}
CompleteTable == {<<Decode(2), Encoding(2)>>}
FlowTable == {<<Decode(1)>>}
NoTables == {}

OneChunk == {<<"r", "part">>}
OneRecord == {<<"r">>}
TwoRecords == {<<"r", "r">>}
RecordOrJunk == {<<"r">>, <<"junk">>}
DraftChunks == {<<"r">>, <<"bad">>, <<"junk">>}

-----------------------------------------------------------------------------
VARIABLES s, inflight, pending, hostText, dialogs, armed, applies, closed, answer, entered,
          document

Binary == INSTANCE DocumentTab WITH
    Kind <- "BINARY", Pipelines <- StreamPipelines, Values <- NoValues, Records <- {"r"},
    Sources <- {"c1"}, Tables <- MixedTable, Chunks <- OneChunk,
    MaxLoads <- 1, MaxApplies <- 2, MaxTaken <- 2

BinaryReload == INSTANCE DocumentTab WITH
    Kind <- "BINARY", Pipelines <- StreamPipelines, Values <- OneValue, Records <- {"r"},
    Sources <- {"c1"}, Tables <- MixedTable, Chunks <- OneChunk,
    MaxLoads <- 2, MaxApplies <- 1, MaxTaken <- 2

BinaryComplete == INSTANCE DocumentTab WITH
    Kind <- "BINARY", Pipelines <- StreamPipelines, Values <- OneValue, Records <- {"r"},
    Sources <- {"c1"}, Tables <- CompleteTable, Chunks <- RecordOrJunk,
    MaxLoads <- 1, MaxApplies <- 2, MaxTaken <- 2

AsciiComplete == INSTANCE DocumentTab WITH
    Kind <- "ASCII10", Pipelines <- CompletePipelines, Values <- OneValue, Records <- {"r"},
    Sources <- {"c1"}, Tables <- MixedTable, Chunks <- OneRecord,
    MaxLoads <- 1, MaxApplies <- 1, MaxTaken <- 2

AsciiStream == INSTANCE DocumentTab WITH
    Kind <- "ASCII11", Pipelines <- StreamPipelines, Values <- NoValues, Records <- {"r"},
    Sources <- {"c1", "bad"}, Tables <- FlowTable, Chunks <- OneChunk,
    MaxLoads <- 2, MaxApplies <- 1, MaxTaken <- 2

AsciiPair == INSTANCE DocumentTab WITH
    Kind <- "ASCII11", Pipelines <- FlowPipeline, Values <- NoValues, Records <- {"r"},
    Sources <- {"c1"}, Tables <- FlowTable, Chunks <- TwoRecords,
    MaxLoads <- 1, MaxApplies <- 1, MaxTaken <- 2

Legacy == INSTANCE DocumentTab WITH
    Kind <- "LEGACY", Pipelines <- CompletePipelines, Values <- TwoValues, Records <- {"r"},
    Sources <- {"c1", "bad"}, Tables <- NoTables, Chunks <- DraftChunks,
    MaxLoads <- 2, MaxApplies <- 0, MaxTaken <- 2

Bridge == INSTANCE DocumentTab WITH
    Kind <- "BRIDGE", Pipelines <- CompletePipelines, Values <- TwoValues, Records <- {"r"},
    Sources <- {"c1", "bad"}, Tables <- NoTables, Chunks <- DraftChunks,
    MaxLoads <- 2, MaxApplies <- 0, MaxTaken <- 2

tabVars == <<Binary!vars, document>>

TabInit ==
    \/ document = "BINARY" /\ Binary!Init
    \/ document = "BINARY_RELOAD" /\ BinaryReload!Init
    \/ document = "BINARY_COMPLETE" /\ BinaryComplete!Init
    \/ document = "ASCII_COMPLETE" /\ AsciiComplete!Init
    \/ document = "ASCII_STREAM" /\ AsciiStream!Init
    \/ document = "ASCII_PAIR" /\ AsciiPair!Init
    \/ document = "LEGACY" /\ Legacy!Init
    \/ document = "BRIDGE" /\ Bridge!Init

TabNext ==
    /\ \/ document = "BINARY" /\ Binary!Next
       \/ document = "BINARY_RELOAD" /\ BinaryReload!Next
       \/ document = "BINARY_COMPLETE" /\ BinaryComplete!Next
       \/ document = "ASCII_COMPLETE" /\ AsciiComplete!Next
       \/ document = "ASCII_STREAM" /\ AsciiStream!Next
       \/ document = "ASCII_PAIR" /\ AsciiPair!Next
       \/ document = "LEGACY" /\ Legacy!Next
       \/ document = "BRIDGE" /\ Bridge!Next
    /\ UNCHANGED document

TabSpec == TabInit /\ [][TabNext]_tabVars

-----------------------------------------------------------------------------

\* Whatever flows were shown in between, the drafts on screen are the ones last typed into
\* the selected flow (SaveHostView, SaveDraftsAndSelect).
DraftsSurvive ==
    CASE document = "BINARY" -> Binary!DraftsSurvive
      [] document = "BINARY_RELOAD" -> BinaryReload!DraftsSurvive
      [] document = "BINARY_COMPLETE" -> BinaryComplete!DraftsSurvive
      [] document = "ASCII_COMPLETE" -> AsciiComplete!DraftsSurvive
      [] document = "ASCII_STREAM" -> AsciiStream!DraftsSurvive
      [] document = "ASCII_PAIR" -> AsciiPair!DraftsSurvive
      [] document = "LEGACY" -> Legacy!DraftsSurvive
      [] document = "BRIDGE" -> Bridge!DraftsSurvive

\* A preview on screen is the Encode of the message and the input that are on screen.
PreviewOfShownInput ==
    CASE document = "BINARY" -> Binary!PreviewOfShownInput
      [] document = "BINARY_RELOAD" -> BinaryReload!PreviewOfShownInput
      [] document = "BINARY_COMPLETE" -> BinaryComplete!PreviewOfShownInput
      [] document = "ASCII_COMPLETE" -> AsciiComplete!PreviewOfShownInput
      [] document = "ASCII_STREAM" -> AsciiStream!PreviewOfShownInput
      [] document = "ASCII_PAIR" -> AsciiPair!PreviewOfShownInput
      [] document = "LEGACY" -> Legacy!PreviewOfShownInput
      [] document = "BRIDGE" -> Bridge!PreviewOfShownInput

\* PREVIEW_VALID says that the current mode shows a valid result; it outlives its result
\* only while an ASCII stream waits for its Reset (RefreshDocumentState).
StateLabel ==
    CASE document = "BINARY" -> Binary!StateLabel
      [] document = "BINARY_RELOAD" -> BinaryReload!StateLabel
      [] document = "BINARY_COMPLETE" -> BinaryComplete!StateLabel
      [] document = "ASCII_COMPLETE" -> AsciiComplete!StateLabel
      [] document = "ASCII_STREAM" -> AsciiStream!StateLabel
      [] document = "ASCII_PAIR" -> AsciiPair!StateLabel
      [] document = "LEGACY" -> Legacy!StateLabel
      [] document = "BRIDGE" -> Bridge!StateLabel

\* A result on screen is that of the draft, but for the one a Binary Host shows again after
\* its draft was edited and another flow was shown in between (MapCurrent).
ResultOfShownInputStep ==
    CASE document = "BINARY" -> Binary!ResultOfShownInputStep
      [] document = "BINARY_RELOAD" -> BinaryReload!ResultOfShownInputStep
      [] document = "BINARY_COMPLETE" -> BinaryComplete!ResultOfShownInputStep
      [] document = "ASCII_COMPLETE" -> AsciiComplete!ResultOfShownInputStep
      [] document = "ASCII_STREAM" -> AsciiStream!ResultOfShownInputStep
      [] document = "ASCII_PAIR" -> AsciiPair!ResultOfShownInputStep
      [] document = "LEGACY" -> Legacy!ResultOfShownInputStep
      [] document = "BRIDGE" -> Bridge!ResultOfShownInputStep

\* With a table in force, pipeline and mode are those of the selected binding, until a
\* question older than the Host is answered with Yes (SelectPipeline, SelectMode).
HostSelectionStep ==
    CASE document = "BINARY" -> Binary!HostSelectionStep
      [] document = "BINARY_RELOAD" -> BinaryReload!HostSelectionStep
      [] document = "BINARY_COMPLETE" -> BinaryComplete!HostSelectionStep
      [] document = "ASCII_COMPLETE" -> AsciiComplete!HostSelectionStep
      [] document = "ASCII_STREAM" -> AsciiStream!HostSelectionStep
      [] document = "ASCII_PAIR" -> AsciiPair!HostSelectionStep
      [] document = "LEGACY" -> Legacy!HostSelectionStep
      [] document = "BRIDGE" -> Bridge!HostSelectionStep

\* Each token given to a flow is framed, buffered or still frozen, once and in order.
BytesOnce ==
    CASE document = "BINARY" -> Binary!BytesOnce
      [] document = "BINARY_RELOAD" -> BinaryReload!BytesOnce
      [] document = "BINARY_COMPLETE" -> BinaryComplete!BytesOnce
      [] document = "ASCII_COMPLETE" -> AsciiComplete!BytesOnce
      [] document = "ASCII_STREAM" -> AsciiStream!BytesOnce
      [] document = "ASCII_PAIR" -> AsciiPair!BytesOnce
      [] document = "LEGACY" -> Legacy!BytesOnce
      [] document = "BRIDGE" -> Bridge!BytesOnce

\* The Host session in use was prepared for this load of this configuration: a preparation
\* that a reload overtook is never published.
PublishedForCurrentLoad ==
    CASE document = "BINARY" -> Binary!PublishedForCurrentLoad
      [] document = "BINARY_RELOAD" -> BinaryReload!PublishedForCurrentLoad
      [] document = "BINARY_COMPLETE" -> BinaryComplete!PublishedForCurrentLoad
      [] document = "ASCII_COMPLETE" -> AsciiComplete!PublishedForCurrentLoad
      [] document = "ASCII_STREAM" -> AsciiStream!PublishedForCurrentLoad
      [] document = "ASCII_PAIR" -> AsciiPair!PublishedForCurrentLoad
      [] document = "LEGACY" -> Legacy!PublishedForCurrentLoad
      [] document = "BRIDGE" -> Bridge!PublishedForCurrentLoad

\* What a tab shows belongs together, and what it holds is all there and of the current
\* load.  Each part is asked of every route, with its exceptions stated as exactly as the
\* code has them.
TabInOrder ==
    DraftsSurvive /\ PreviewOfShownInput /\ StateLabel /\ BytesOnce /\ PublishedForCurrentLoad

\* (A new tab shows nothing; every later state is the second of a step.)
TabTruthful ==
    [][TabInOrder' /\ ResultOfShownInputStep /\ HostSelectionStep]_tabVars

\* The user's input is neither taken twice nor lost unasked, and a confirmed reload begins
\* or asks on, except on a Binary Host that shows a flow without a stream
\* (UI_STREAM_CHUNK_ALREADY_SUBMITTED and the questions of the tab).
InputRespectedStep ==
    CASE document = "BINARY" -> Binary!InputRespectedStep
      [] document = "BINARY_RELOAD" -> BinaryReload!InputRespectedStep
      [] document = "BINARY_COMPLETE" -> BinaryComplete!InputRespectedStep
      [] document = "ASCII_COMPLETE" -> AsciiComplete!InputRespectedStep
      [] document = "ASCII_STREAM" -> AsciiStream!InputRespectedStep
      [] document = "ASCII_PAIR" -> AsciiPair!InputRespectedStep
      [] document = "LEGACY" -> Legacy!InputRespectedStep
      [] document = "BRIDGE" -> Bridge!InputRespectedStep

InputRespected == [][InputRespectedStep]_tabVars
=============================================================================
