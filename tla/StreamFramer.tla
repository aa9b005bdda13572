---------------------------- MODULE StreamFramer ----------------------------
(***************************************************************************)
(* The bounded stream framer: StreamFramingWorkspace, PushStreamChunk and  *)
(* ResetStreamFramingWorkspace.  One action is one turn of the main loop   *)
(* of PushStreamChunk (one turn of the inner loops of COPY_SYNC and        *)
(* RESCAN_INVALID); a call starts with Push and ends with an action that   *)
(* sets in_push to FALSE.  Every scan, copy and read is charged against    *)
(* the work budget before it is committed, so a call may stop between any  *)
(* two of these actions and the next call, with or without input, resumes. *)
(*                                                                         *)
(* The caller holds the transport bytes that were not consumed yet and     *)
(* offers any prefix of them, the empty one included, so every way to cut  *)
(* a stream into chunks is a behaviour.                                    *)
(*                                                                         *)
(* buffer holds the live bytes of buffer_[0, buffered_size_).  The         *)
(* per-call counters bytes_discarded and malformed_candidates and          *)
(* last_framing_issue move with the totals and are left out.               *)
(***************************************************************************)
EXTENDS FramingPlan

CONSTANTS MaxSubmitBytes,       \* effective max_submit_bytes
          MaxFramesPerSubmit,   \* effective max_frames_per_submit
          MaxWorkUnits,         \* effective max_work_units
          MaxStreamBytes        \* bound on the bytes that ever arrive

\* The smallest budget a workspace is created with.
MinimumProgressBudget == Max({4, 1 + 2 * Len(Sync)})

ASSUME LimitsAssumption ==
    /\ MaxSubmitBytes \in Nat \ {0}
    /\ MaxFramesPerSubmit \in Nat \ {0}
    /\ MaxWorkUnits \in Nat
    /\ MaxWorkUnits >= MinimumProgressBudget
    /\ MaxStreamBytes \in Nat

VARIABLES
    state,              \* state_
    buffer,             \* buffer_ up to buffered_size_
    progress,           \* target, match, copy, rescan and compaction progress
    total_discarded,    \* total_discarded_bytes_
    total_malformed,    \* total_malformed_candidates_
    in_push,            \* a call of PushStreamChunk is running
    result,             \* its SubmitResult, and the bytes it was offered
    input,              \* bytes the caller holds that were not consumed
    stream, base,       \* history: consumed bytes, offset of the last reset
    frames, delivered,  \* history: delivered frames and their bytes
    dropped             \* history: bytes that resets dropped

workspaceVars == <<state, buffer, progress, total_discarded, total_malformed>>
historyVars == <<stream, base, frames, delivered, dropped>>
vars == <<workspaceVars, in_push, result, input, historyVars>>

State == {"COLLECT_FIXED", "SEARCH_SYNC", "COPY_SYNC", "READ_LENGTH", "COLLECT_DECLARED",
          "DELIVER_PENDING", "RESCAN_INVALID", "COMPACT_INVALID", "COLLECT_ASCII",
          "DISCARD_UNTIL_CRLF"}
ApiStatus == {"OK", "LIMIT_EXCEEDED", "INTERNAL_ERROR"}
StopReason == {"INPUT_EXHAUSTED", "NEED_MORE", "WORK_BUDGET_REACHED", "SINK_STOP"}

-----------------------------------------------------------------------------
(***************************************************************************)
(* The workspace.                                                          *)
(***************************************************************************)
InitialState ==
    CASE framing.strategy = "ASCII_CRLF" -> "COLLECT_ASCII"
      [] framing.strategy = "FIXED_LENGTH" -> "COLLECT_FIXED"
      [] framing.strategy \in {"SYNC_FIXED_LENGTH", "SYNC_LENGTH_FIELD"} -> "SEARCH_SYNC"

NoProgress ==
    [target_size |-> IF framing.strategy = "FIXED_LENGTH" THEN framing.frame_length_bytes ELSE 0,
     sync_match |-> 0, copy_sync_index |-> 0,
     rescan_index |-> 0, rescan_match |-> 0,
     compact_start |-> 0, compact_size |-> 0, compact_moved |-> 0,
     previous_was_cr |-> FALSE]

ResetCandidate ==
    /\ state' = InitialState
    /\ buffer' = << >>
    /\ progress' = NoProgress

HasInternalWork ==
    \/ state \in {"COPY_SYNC", "RESCAN_INVALID", "COMPACT_INVALID", "DELIVER_PENDING"}
    \/ state = "READ_LENGTH" /\ Len(buffer) >= HeaderEnd

\* Mutant: a half frame in the buffer is not reported.
HasHalfFrame_NoBuffer ==
    \/ state = "DISCARD_UNTIL_CRLF"
    \/ state = "SEARCH_SYNC" /\ progress.sync_match # 0

HasHalfFrame ==
    \/ state \in {"COLLECT_ASCII", "COLLECT_FIXED", "COLLECT_DECLARED", "READ_LENGTH"}
         /\ buffer # << >>
    \/ state = "DISCARD_UNTIL_CRLF"
    \/ state = "SEARCH_SYNC" /\ progress.sync_match # 0

\* Consumed bytes whose fate is not decided.
Retained ==
    CASE state = "SEARCH_SYNC" -> progress.sync_match
      [] state = "COPY_SYNC" -> Len(Sync)
      [] state \notin {"SEARCH_SYNC", "COPY_SYNC"} -> Len(buffer)

Cut == Len(stream) - Retained

-----------------------------------------------------------------------------
(***************************************************************************)
(* Budget, input and returns.                                              *)
(***************************************************************************)
InputExhausted == result.bytes_consumed = result.offered

CanCharge(units) == result.work_units_used + units <= MaxWorkUnits

Charged(units) == [result EXCEPT !.work_units_used = @ + units]

ConsumedFor(units) ==
    [result EXCEPT !.work_units_used = @ + units, !.bytes_consumed = @ + 1]

ConsumeByte ==
    /\ input' = Tail(input)
    /\ stream' = Append(stream, Head(input))
    /\ UNCHANGED <<base, frames, delivered, dropped>>

\* The states that can only go on with a byte of this call's input.
NeedsByte ==
    \/ state \in {"COLLECT_ASCII", "DISCARD_UNTIL_CRLF", "SEARCH_SYNC"}
    \/ state = "READ_LENGTH" /\ Len(buffer) < HeaderEnd
    \/ state \in {"COLLECT_FIXED", "COLLECT_DECLARED"} /\ Len(buffer) # progress.target_size

\* Work units of the next turn of the loop; nothing is committed without them.
NextCharge ==
    CASE state = "SEARCH_SYNC" -> MatchUnits(progress.sync_match, Head(input))
      [] state = "COPY_SYNC" -> IF progress.copy_sync_index < Len(Sync) THEN 1 ELSE 0
      [] state = "RESCAN_INVALID" ->
           IF progress.rescan_index < Len(buffer)
           THEN MatchUnits(progress.rescan_match, buffer[progress.rescan_index + 1]) ELSE 0
      [] state = "COMPACT_INVALID" ->
           IF progress.compact_moved < progress.compact_size THEN 1 ELSE 0
      [] state = "DELIVER_PENDING" -> 0
      [] state = "READ_LENGTH" -> IF NeedsByte THEN 2 ELSE framing.length_field_width
      [] state \in {"COLLECT_ASCII", "DISCARD_UNTIL_CRLF", "COLLECT_FIXED", "COLLECT_DECLARED"} ->
           IF NeedsByte THEN 2 ELSE 0

\* The turn of the loop for state s is taken: it has its input and its budget.
Turn(s) ==
    /\ in_push
    /\ state = s
    /\ NeedsByte => ~InputExhausted
    /\ CanCharge(NextCharge)

Return(stop_reason) ==
    /\ in_push' = FALSE
    /\ result' = [result EXCEPT !.stop_reason = stop_reason]

\* A byte that does not fit the buffer is refused after its work was charged.
InternalError(units) ==
    /\ in_push' = FALSE
    /\ result' = [result EXCEPT !.api_status = "INTERNAL_ERROR", !.work_units_used = @ + units]
    /\ UNCHANGED <<workspaceVars, input, historyVars>>

\* Mutant: the rescan position is not kept across calls.
BudgetStop_RestartsRescan ==
    /\ in_push
    /\ NeedsByte => ~InputExhausted
    /\ \/ ~CanCharge(NextCharge)
       \/ state = "DELIVER_PENDING" /\ result.frames_delivered >= MaxFramesPerSubmit
    /\ Return("WORK_BUDGET_REACHED")
    /\ progress' = IF state = "RESCAN_INVALID"
                   THEN [progress EXCEPT !.rescan_index = 1, !.rescan_match = 0] ELSE progress
    /\ UNCHANGED <<state, buffer, total_discarded, total_malformed, input, historyVars>>

BudgetStop ==
    /\ in_push
    /\ NeedsByte => ~InputExhausted
    /\ \/ ~CanCharge(NextCharge)
       \/ state = "DELIVER_PENDING" /\ result.frames_delivered >= MaxFramesPerSubmit
    /\ Return("WORK_BUDGET_REACHED")
    /\ UNCHANGED <<workspaceVars, input, historyVars>>

InputStop ==
    /\ in_push
    /\ NeedsByte
    /\ InputExhausted
    /\ Return(IF HasInternalWork THEN "WORK_BUDGET_REACHED"
              ELSE IF HasHalfFrame THEN "NEED_MORE" ELSE "INPUT_EXHAUSTED")
    /\ UNCHANGED <<workspaceVars, input, historyVars>>

-----------------------------------------------------------------------------
(***************************************************************************)
(* The turns of the loop.                                                  *)
(***************************************************************************)
DeliverPending ==
    /\ Turn("DELIVER_PENDING")
    /\ result.frames_delivered < MaxFramesPerSubmit
    /\ frames' = Append(frames, [from |-> Len(stream) - Len(buffer), bytes |-> buffer])
    /\ delivered' = delivered + Len(buffer)
    /\ ResetCandidate
    /\ \E action \in {"CONTINUE", "STOP"} :
         /\ in_push' = (action = "CONTINUE")
         /\ result' = [result EXCEPT !.frames_delivered = @ + 1,
                                     !.stop_reason = IF action = "STOP" THEN "SINK_STOP" ELSE @]
    /\ UNCHANGED <<total_discarded, total_malformed, input, stream, base, dropped>>

CollectAscii ==
    /\ Turn("COLLECT_ASCII")
    /\ IF Len(buffer) >= FrameCapacity
       THEN InternalError(2)
       ELSE LET byte == Head(input)
                record == Append(buffer, byte)
                terminated == buffer # << >> /\ buffer[Len(buffer)] = CR /\ byte = LF
                tooLong == ~terminated /\ Len(record) = FrameCapacity
            IN /\ state' = IF terminated THEN "DELIVER_PENDING"
                           ELSE IF tooLong THEN "DISCARD_UNTIL_CRLF" ELSE state
               /\ buffer' = IF tooLong THEN << >> ELSE record
               /\ progress' = IF tooLong THEN [progress EXCEPT !.previous_was_cr = (byte = CR)]
                              ELSE progress
               /\ total_discarded' = total_discarded + IF tooLong THEN Len(record) ELSE 0
               /\ total_malformed' = total_malformed + IF tooLong THEN 1 ELSE 0
               /\ result' = ConsumedFor(2)
               /\ ConsumeByte
               /\ UNCHANGED in_push

DiscardUntilCrLf ==
    /\ Turn("DISCARD_UNTIL_CRLF")
    /\ LET byte == Head(input)
           terminated == progress.previous_was_cr /\ byte = LF
       IN /\ state' = IF terminated THEN "COLLECT_ASCII" ELSE state
          /\ progress' = [progress EXCEPT !.previous_was_cr = (byte = CR)]
    /\ total_discarded' = total_discarded + 1
    /\ result' = ConsumedFor(2)
    /\ ConsumeByte
    /\ UNCHANGED <<buffer, total_malformed, in_push>>

\* The sync bytes were consumed by the search; they are written from the plan.
CopySyncByte ==
    /\ Turn("COPY_SYNC")
    /\ progress.copy_sync_index < Len(Sync)
    /\ IF Len(buffer) >= FrameCapacity
       THEN InternalError(1)
       ELSE /\ buffer' = Append(buffer, Sync[progress.copy_sync_index + 1])
            /\ progress' = [progress EXCEPT !.copy_sync_index = @ + 1]
            /\ result' = Charged(1)
            /\ UNCHANGED <<state, total_discarded, total_malformed, in_push, input, historyVars>>

CopySyncDone ==
    /\ Turn("COPY_SYNC")
    /\ progress.copy_sync_index = Len(Sync)
    /\ IF framing.strategy = "SYNC_FIXED_LENGTH"
       THEN /\ progress' = [progress EXCEPT !.copy_sync_index = 0,
                                            !.target_size = framing.frame_length_bytes]
            /\ state' = IF Len(buffer) = framing.frame_length_bytes
                        THEN "DELIVER_PENDING" ELSE "COLLECT_DECLARED"
       ELSE /\ progress' = [progress EXCEPT !.copy_sync_index = 0]
            /\ state' = "READ_LENGTH"
    /\ UNCHANGED <<buffer, total_discarded, total_malformed, in_push, result, input, historyVars>>

RescanByte ==
    /\ Turn("RESCAN_INVALID")
    /\ progress.rescan_index < Len(buffer)
    /\ LET index == progress.rescan_index + 1
           match == NextMatch(progress.rescan_match, buffer[index])
           scanned == [progress EXCEPT !.rescan_index = index, !.rescan_match = match]
       IN IF match = Len(Sync)
          THEN /\ progress' = [scanned EXCEPT !.compact_start = index - Len(Sync),
                                              !.compact_size = Len(buffer) - (index - Len(Sync)),
                                              !.compact_moved = 0]
               /\ state' = "COMPACT_INVALID"
          ELSE /\ progress' = scanned
               /\ UNCHANGED state
    /\ result' = Charged(NextCharge)
    /\ UNCHANGED <<buffer, total_discarded, total_malformed, in_push, input, historyVars>>

\* Mutant: the partial sync at the end of the rescan is discarded and kept.
RescanEnd_CountsRetained ==
    /\ Turn("RESCAN_INVALID")
    /\ progress.rescan_index = Len(buffer)
    /\ total_discarded' = total_discarded + Len(buffer)
    /\ buffer' = << >>
    /\ progress' = [progress EXCEPT !.sync_match = progress.rescan_match,
                                    !.rescan_index = 0, !.rescan_match = 0]
    /\ state' = "SEARCH_SYNC"
    /\ UNCHANGED <<total_malformed, in_push, result, input, historyVars>>

RescanEnd ==
    /\ Turn("RESCAN_INVALID")
    /\ progress.rescan_index = Len(buffer)
    /\ total_discarded' = total_discarded + Len(buffer) - progress.rescan_match
    /\ buffer' = << >>
    /\ progress' = [progress EXCEPT !.sync_match = progress.rescan_match,
                                    !.rescan_index = 0, !.rescan_match = 0]
    /\ state' = "SEARCH_SYNC"
    /\ UNCHANGED <<total_malformed, in_push, result, input, historyVars>>

\* Mutant: a resumed move starts over at the front of the buffer.
Moved_FromFront(chunk) ==
    [i \in 1..Len(buffer) |->
        IF i \in 1..chunk THEN buffer[progress.compact_start + i] ELSE buffer[i]]

\* memmove of as many bytes as the budget has left; the move is resumable.
Moved(chunk) ==
    [i \in 1..Len(buffer) |->
        IF i \in (progress.compact_moved + 1)..(progress.compact_moved + chunk)
        THEN buffer[progress.compact_start + i] ELSE buffer[i]]

CompactInvalid ==
    /\ Turn("COMPACT_INVALID")
    /\ LET remaining == progress.compact_size - progress.compact_moved
           chunk == Min({remaining, MaxWorkUnits - result.work_units_used})
           done == chunk = remaining
       IN /\ buffer' = IF done THEN SubSeq(Moved(chunk), 1, progress.compact_size)
                       ELSE Moved(chunk)
          /\ progress' = IF done
                         THEN [progress EXCEPT !.compact_start = 0, !.compact_size = 0,
                                               !.compact_moved = 0, !.rescan_index = 0,
                                               !.rescan_match = 0]
                         ELSE [progress EXCEPT !.compact_moved = @ + chunk]
          /\ state' = IF done THEN "READ_LENGTH" ELSE state
          /\ total_discarded' = total_discarded + IF done THEN progress.compact_start ELSE 0
          /\ in_push' = done
          /\ result' = [result EXCEPT !.work_units_used = @ + chunk,
                                      !.stop_reason = IF done THEN @ ELSE "WORK_BUDGET_REACHED"]
    /\ UNCHANGED <<total_malformed, input, historyVars>>

ReadHeaderByte ==
    /\ Turn("READ_LENGTH")
    /\ NeedsByte
    /\ IF Len(buffer) >= FrameCapacity
       THEN InternalError(2)
       ELSE /\ buffer' = Append(buffer, Head(input))
            /\ result' = ConsumedFor(2)
            /\ ConsumeByte
            /\ UNCHANGED <<state, progress, total_discarded, total_malformed, in_push>>

ReadLength ==
    /\ Turn("READ_LENGTH")
    /\ ~NeedsByte
    /\ LET declared == DeclaredLength(buffer)
       IN IF LengthAccepted(declared)
          THEN /\ progress' = [progress EXCEPT !.target_size = declared]
               /\ state' = IF Len(buffer) = declared THEN "DELIVER_PENDING" ELSE "COLLECT_DECLARED"
               /\ UNCHANGED total_malformed
          ELSE /\ progress' = [progress EXCEPT !.rescan_index = 1, !.rescan_match = 0]
               /\ state' = "RESCAN_INVALID"
               /\ total_malformed' = total_malformed + 1
    /\ result' = Charged(framing.length_field_width)
    /\ UNCHANGED <<buffer, total_discarded, in_push, input, historyVars>>

CollectByte ==
    /\ Turn("COLLECT_FIXED") \/ Turn("COLLECT_DECLARED")
    /\ NeedsByte
    /\ IF Len(buffer) >= FrameCapacity
       THEN InternalError(2)
       ELSE /\ buffer' = Append(buffer, Head(input))
            /\ result' = ConsumedFor(2)
            /\ ConsumeByte
            /\ UNCHANGED <<state, progress, total_discarded, total_malformed, in_push>>

CollectDone ==
    /\ Turn("COLLECT_FIXED") \/ Turn("COLLECT_DECLARED")
    /\ ~NeedsByte
    /\ state' = "DELIVER_PENDING"
    /\ UNCHANGED <<buffer, progress, total_discarded, total_malformed, in_push, result, input,
                   historyVars>>

SearchSync ==
    /\ Turn("SEARCH_SYNC")
    /\ LET old == progress.sync_match
           match == NextMatch(old, Head(input))
       IN IF match = Len(Sync)
          THEN /\ state' = "COPY_SYNC"
               /\ progress' = [progress EXCEPT !.sync_match = 0, !.copy_sync_index = 0]
               /\ buffer' = << >>
               /\ UNCHANGED total_discarded
          ELSE /\ progress' = [progress EXCEPT !.sync_match = match]
               /\ total_discarded' = total_discarded + old + 1 - match
               /\ UNCHANGED <<state, buffer>>
    /\ result' = ConsumedFor(NextCharge)
    /\ ConsumeByte
    /\ UNCHANGED <<total_malformed, in_push>>

-----------------------------------------------------------------------------
(***************************************************************************)
(* The caller.                                                             *)
(***************************************************************************)
NewResult(status, offered) ==
    [api_status |-> status, stop_reason |-> "INPUT_EXHAUSTED", offered |-> offered,
     bytes_consumed |-> 0, frames_delivered |-> 0, work_units_used |-> 0]

\* The transport hands the caller a byte (environment).
Arrive(byte) ==
    /\ ~in_push
    /\ Len(input) <= MaxSubmitBytes
    /\ Len(stream) + Len(input) < MaxStreamBytes
    /\ input' = Append(input, byte)
    /\ UNCHANGED <<workspaceVars, in_push, result, historyVars>>

\* PushStreamChunk with the first `offered` bytes; 0 continues pending work.
Push(offered) ==
    /\ ~in_push
    /\ IF offered > MaxSubmitBytes
       THEN result' = NewResult("LIMIT_EXCEEDED", offered) /\ in_push' = FALSE
       ELSE result' = NewResult("OK", offered) /\ in_push' = TRUE
    /\ UNCHANGED <<workspaceVars, input, historyVars>>

\* ResetStreamFramingWorkspace: nothing is flushed to the sink and the totals
\* stay.  The caller's last SubmitResult no longer describes the workspace.
Reset ==
    /\ ~in_push
    /\ ResetCandidate
    /\ result' = NewResult("OK", 0)
    /\ base' = Len(stream)
    /\ dropped' = dropped + Retained
    /\ UNCHANGED <<total_discarded, total_malformed, in_push, input, stream, frames,
                   delivered>>

Init ==
    /\ state = InitialState
    /\ buffer = << >>
    /\ progress = NoProgress
    /\ total_discarded = 0
    /\ total_malformed = 0
    /\ in_push = FALSE
    /\ result = NewResult("OK", 0)
    /\ input = << >>
    /\ stream = << >>
    /\ base = 0
    /\ frames = << >>
    /\ delivered = 0
    /\ dropped = 0

\* The loop of PushStreamChunk: one turn per state, until the call returns.
LoopTurn ==
    /\ in_push
    /\ \/ DeliverPending
       \/ CollectAscii \/ DiscardUntilCrLf
       \/ SearchSync \/ CopySyncByte \/ CopySyncDone
       \/ ReadHeaderByte \/ ReadLength
       \/ RescanByte \/ RescanEnd \/ CompactInvalid
       \/ CollectByte \/ CollectDone
       \/ BudgetStop \/ InputStop

Next ==
    \/ LoopTurn
    \/ \E byte \in Bytes : Arrive(byte)
    \/ \E offered \in 0..Len(input) : Push(offered)
    \/ Reset

Spec == Init /\ [][Next]_vars

\* The caller follows the documented protocol: it keeps offering what it
\* holds, and continues with an empty chunk when it holds nothing.
Offer ==
    \E offered \in 0..Min({Len(input), MaxSubmitBytes}) :
        (input # << >> => offered > 0) /\ Push(offered)

\* A running call is executed by its thread.
FairSpec == Spec /\ WF_vars(LoopTurn) /\ SF_vars(Offer)

-----------------------------------------------------------------------------
(***************************************************************************)
(* Properties.                                                             *)
(***************************************************************************)

FrameType == [from : Nat, bytes : Seq(Octet)]

ProgressType ==
    [target_size : 0..FrameCapacity, sync_match : 0..Len(Sync), copy_sync_index : 0..Len(Sync),
     rescan_index : 0..FrameCapacity, rescan_match : 0..Len(Sync),
     compact_start : 0..FrameCapacity, compact_size : 0..FrameCapacity,
     compact_moved : 0..FrameCapacity, previous_was_cr : BOOLEAN]

ResultType ==
    [api_status : ApiStatus, stop_reason : StopReason, offered : Nat, bytes_consumed : Nat,
     frames_delivered : Nat, work_units_used : 0..MaxWorkUnits]

\* Every variable has its type; the buffered bytes never exceed the buffer
\* allocated when the workspace was created, whatever lengths peers declare.
TypeOK ==
    /\ state \in State
    /\ buffer \in Seq(Octet)
    /\ Len(buffer) <= FrameCapacity
    /\ progress \in ProgressType
    /\ total_discarded \in Nat
    /\ total_malformed \in Nat
    /\ in_push \in BOOLEAN
    /\ result \in ResultType
    /\ input \in Seq(Bytes)
    /\ stream \in Seq(Bytes)
    /\ base \in 0..Len(stream)
    /\ frames \in Seq(FrameType)
    /\ delivered \in Nat
    /\ dropped \in Nat

\* Byte accounting of SubmitResult and the totals: at any stop, every consumed
\* byte was delivered once, counted as discarded once, dropped by a reset, or
\* is still retained.  No byte is counted twice when a candidate is rescanned.
ByteAccounting ==
    Len(stream) = delivered + total_discarded + dropped + Retained

\* The fail-closed INTERNAL_ERROR returns of PushStreamChunk are never taken
\* for a plan that the builder accepted.
NoInternalError == result.api_status # "INTERNAL_ERROR"

Framed == INSTANCE FrameStream WITH cut <- Cut

\* Chunking, budgets, STOP and buffer compaction do not change what the stream
\* means: the framer delivers frames and skips bytes as FrameStream allows.
FramesTheStream == Framed!Spec

\* The stop reason is what the caller acts on.  NEED_MORE and INPUT_EXHAUSTED
\* say that no byte was left over and that no complete frame is waiting;
\* WORK_BUDGET_REACHED says that another call, even an empty one, has work;
\* SINK_STOP says that the delivered frame left the workspace.
StopReasonTruthful ==
    ~in_push /\ result.api_status = "OK" =>
        CASE result.stop_reason = "NEED_MORE" ->
               InputExhausted /\ ~Framed!FrameReady(stream, base, Cut)
          [] result.stop_reason = "INPUT_EXHAUSTED" ->
               InputExhausted /\ ~HasInternalWork /\ Retained = 0
          [] result.stop_reason = "WORK_BUDGET_REACHED" ->
               ~InputExhausted \/ HasInternalWork
          [] result.stop_reason = "SINK_STOP" ->
               result.frames_delivered > 0 /\ Retained = 0

\* total_malformed_candidates_ counts every sync header with a refused length
\* once, however often the buffer behind it is rescanned (before any reset).
MalformedCounted ==
    framing.strategy = "SYNC_LENGTH_FIELD" /\ base = 0 =>
        total_malformed =
            Cardinality({p \in 0..(Cut - 1) :
                            /\ Framed!BadLengthAt(stream, p)
                            /\ \A i \in DOMAIN frames :
                                 p \notin frames[i].from ..
                                           (frames[i].from + Len(frames[i].bytes) - 1)})
            + IF state \in {"RESCAN_INVALID", "COMPACT_INVALID"} THEN 1 ELSE 0

\* However small the admitted budget and however the sink stops, a caller that
\* keeps offering gets every byte consumed and all pending work finished.
EverythingDrains ==
    (input # << >> \/ HasInternalWork) ~> (input = << >> /\ ~HasInternalWork)

\* What a finished call and the counters report is true.
ReportsTruthful == StopReasonTruthful /\ MalformedCounted
=============================================================================
