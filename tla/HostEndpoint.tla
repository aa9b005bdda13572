---------------------------- MODULE HostEndpoint ----------------------------
(***************************************************************************)
(* The public HostEndpoint with the record views of its codecs: several    *)
(* hosts, each with a table of channels, called by several threads and,    *)
(* from inside an observer or business callback, by the same thread again. *)
(*                                                                         *)
(* A call is an entry on its thread's stack.  Enter is the callback-chain  *)
(* check and the atomic test_and_set of the host lease; the operation runs *)
(* under the lease, stopping at every callback so that the application and *)
(* the other threads can act; the last action of a call gives the lease    *)
(* back.  The application may pass any handle Find has been able to issue. *)
(*                                                                         *)
(* The framer of a channel (module StreamFramer) and the codec are reached *)
(* only under the lease.  A Push sees of the framer how many candidates it *)
(* delivers and whether it refuses the chunk; a decode succeeds or fails.  *)
(***************************************************************************)
EXTENDS Integers, Sequences, FiniteSets

CONSTANTS Thread,
          Host,            \* HostEndpoint instances
          Channel,         \* channel indices, the same in every host
          binding,         \* what a channel is bound to
          MaxGeneration,   \* stands for the largest uint64_t generation
          MaxCandidates,   \* effective max_frames_per_submit of the framers
          MaxCodecCalls    \* bound on the codec calls of one channel

BindingKind == {"STREAM", "RECORD", "ENCODE"}

ASSUME BindingAssumption == binding \in [Channel -> BindingKind]

ASSUME HostLimitsAssumption ==
    /\ MaxGeneration \in Nat \ {0}
    /\ MaxCandidates \in Nat \ {0}
    /\ MaxCodecCalls \in Nat

VARIABLES
    alive,      \* hosts that are not destroyed
    in_use,     \* the lease flag of each host
    channels,   \* per host and channel: generation, faulted and the codec
    stack,      \* per thread: the calls it is in, innermost last
    outcome,    \* history: the result of the call that returned last
    views       \* history: record views of live hosts given to callbacks

vars == <<alive, in_use, channels, stack, outcome, views>>

HostStatus ==
    {"OK", "WORKSPACE_BUSY", "REENTRANT_CALL", "INVALID_BINDING", "EXPIRED_HANDLE",
     "FOREIGN_HANDLE", "STALE_HANDLE", "WRONG_ACTION", "WRONG_INPUT_KIND", "INVALID_ARGUMENT",
     "RESET_REQUIRED", "GENERATION_EXHAUSTED", "FRAMING_FAILED", "CODEC_FAILED",
     "CALLBACK_FAILED"}

CallbackPhase == {"OBSERVER", "BUSINESS"}

NoResult ==
    [status |-> "OK", decode_successes |-> 0, decode_failures |-> 0,
     business_callbacks_returned |-> 0, reset_required |-> FALSE]

Refusal(status) ==
    [NoResult EXCEPT !.status = status, !.reset_required = (status = "RESET_REQUIRED")]

-----------------------------------------------------------------------------
(***************************************************************************)
(* The codec of a channel and the views of its records.  written counts    *)
(* the decodes that may have written to the field slots, so it identifies  *)
(* what a reader of the slots would see.                                   *)
(***************************************************************************)
NewCodec == [generation |-> 0, published |-> FALSE, view_epoch |-> 1, written |-> 0]

\* Mutant: a guarded call does not retract the record published before it.
BeginGuardedCall_KeepsPublished(codec) == codec

BeginGuardedCall(codec) ==
    [generation |-> codec.generation + 1, published |-> FALSE,
     view_epoch |-> codec.view_epoch, written |-> codec.written]

CodecDecode(codec, ok) ==
    LET begun == BeginGuardedCall(codec)
    IN [generation |-> begun.generation, published |-> ok \/ begun.published,
        view_epoch |-> begun.view_epoch, written |-> begun.written + 1]

AdvanceViewEpoch(codec) == [codec EXCEPT !.view_epoch = @ + 1]

ViewOf(h, c, codec) ==
    [host |-> h, channel |-> c, epoch |-> codec.view_epoch, generation |-> codec.generation,
     written |-> codec.written, channel_generation |-> channels[h][c].generation]

HasValue(view) ==
    LET codec == channels[view.host][view.channel].codec
    IN /\ codec.view_epoch = view.epoch
       /\ codec.published
       /\ codec.generation = view.generation

-----------------------------------------------------------------------------
(***************************************************************************)
(* Handles.                                                                *)
(***************************************************************************)
NoHandle == [assigned |-> FALSE]

\* What Find has been able to return so far, and a default handle.
Handles ==
    {NoHandle} \cup
    UNION {{[assigned |-> TRUE, host |-> h, channel |-> c, generation |-> g] :
                g \in 1..channels[h][c].generation} : h \in Host, c \in Channel}

\* Mutant: the generation is not part of a handle's identity.
Resolve_AnyGeneration(h, handle) ==
    CASE ~handle.assigned -> "INVALID_BINDING"
      [] handle.assigned /\ handle.host \notin alive -> "EXPIRED_HANDLE"
      [] handle.assigned /\ handle.host \in alive \ {h} -> "FOREIGN_HANDLE"
      [] handle.assigned /\ handle.host = h -> "OK"

Resolve(h, handle) ==
    IF ~handle.assigned THEN "INVALID_BINDING"
    ELSE IF handle.host \notin alive THEN "EXPIRED_HANDLE"
    ELSE IF handle.host # h THEN "FOREIGN_HANDLE"
    ELSE IF handle.generation # channels[h][handle.channel].generation THEN "STALE_HANDLE"
    ELSE "OK"

\* Checks of Decode (kind RECORD) and Push (kind STREAM), in their order.
DecodeAdmission(h, handle, kind, arguments_valid) ==
    IF Resolve(h, handle) # "OK" THEN Resolve(h, handle)
    ELSE IF binding[handle.channel] = "ENCODE" THEN "WRONG_ACTION"
    ELSE IF binding[handle.channel] # kind THEN "WRONG_INPUT_KIND"
    ELSE IF ~arguments_valid THEN "INVALID_ARGUMENT"
    ELSE IF channels[h][handle.channel].faulted THEN "RESET_REQUIRED"
    ELSE "OK"

\* Checks of Encode; the arguments include the message selector.
EncodeAdmission(h, handle, arguments_valid) ==
    IF Resolve(h, handle) # "OK" THEN Resolve(h, handle)
    ELSE IF binding[handle.channel] # "ENCODE" THEN "WRONG_ACTION"
    ELSE IF channels[h][handle.channel].faulted THEN "RESET_REQUIRED"
    ELSE IF ~arguments_valid THEN "INVALID_ARGUMENT"
    ELSE "OK"

-----------------------------------------------------------------------------
(***************************************************************************)
(* Calls.                                                                  *)
(***************************************************************************)
Top(t) == stack[t][Len(stack[t])]
Below(t) == SubSeq(stack[t], 1, Len(stack[t]) - 1)

InPhase(t, phases) == stack[t] # << >> /\ Top(t).phase \in phases

\* Application code runs on t: outside any host, or in a callback.
ApplicationRuns(t) == stack[t] = << >> \/ InPhase(t, CallbackPhase)

\* Mutant: only the innermost callback owner is compared.
IsCallbackOwnerActive_Innermost(t, h) == stack[t] # << >> /\ Top(t).host = h

IsCallbackOwnerActive(t, h) == \E i \in DOMAIN stack[t] : stack[t][i].host = h

EnteredCall(h) ==
    [host |-> h, phase |-> "ENTERED", op |-> "NONE", channel |-> "NONE", generation |-> 0,
     observer |-> FALSE, decoded |-> FALSE, record |-> 0, proceed |-> TRUE,
     result |-> NoResult]

\* Mutant: the lease is not tested before it is set.
Enter_NoTest(t, h) ==
    /\ ApplicationRuns(t)
    /\ h \in alive
    /\ IF IsCallbackOwnerActive(t, h)
       THEN /\ outcome' = Refusal("REENTRANT_CALL")
            /\ UNCHANGED <<in_use, stack>>
       ELSE /\ in_use' = [in_use EXCEPT ![h] = TRUE]
            /\ stack' = [stack EXCEPT ![t] = Append(@, EnteredCall(h))]
            /\ UNCHANGED outcome
    /\ UNCHANGED <<alive, channels, views>>

Enter(t, h) ==
    /\ ApplicationRuns(t)
    /\ h \in alive
    /\ IF IsCallbackOwnerActive(t, h)
       THEN /\ outcome' = Refusal("REENTRANT_CALL")
            /\ UNCHANGED <<in_use, stack>>
       ELSE IF in_use[h]
       THEN /\ outcome' = Refusal("WORKSPACE_BUSY")
            /\ UNCHANGED <<in_use, stack>>
       ELSE /\ in_use' = [in_use EXCEPT ![h] = TRUE]
            /\ stack' = [stack EXCEPT ![t] = Append(@, EnteredCall(h))]
            /\ UNCHANGED outcome
    /\ UNCHANGED <<alive, channels, views>>

\* The operation returns: the lease is released on every path.
Return(t, result) ==
    /\ stack' = [stack EXCEPT ![t] = Below(t)]
    /\ in_use' = [in_use EXCEPT ![Top(t).host] = FALSE]
    /\ outcome' = result

\* The innermost call goes on as `call`, or returns its result.
Resume(t, call) ==
    IF call.phase = "DONE"
    THEN Return(t, call.result)
    ELSE /\ stack' = [stack EXCEPT ![t] = Append(Below(t), call)]
         /\ UNCHANGED <<in_use, outcome>>

WithCodec(h, c, codec) == [channels EXCEPT ![h][c].codec = codec]

\* A candidate is finished: the framer goes on if every callback said so.
AfterCandidate(call, continue) ==
    [call EXCEPT !.phase = IF call.op = "PUSH" /\ continue THEN "FRAMING" ELSE "DONE"]

\* Mutant: STOP of the observer cancels the delivery of the candidate.
AfterObserver_StopCancels(call, continue) ==
    IF call.decoded /\ continue THEN [call EXCEPT !.phase = "BUSINESS"]
    ELSE AfterCandidate(call, continue)

AfterObserver(call, continue) ==
    IF call.decoded THEN [call EXCEPT !.phase = "BUSINESS", !.proceed = continue]
    ELSE AfterCandidate(call, continue)

\* One decode of the candidate, then the observer, if any, or what follows it.
DecodeCandidate(t, call, ok) ==
    LET h == call.host
        c == call.channel
        codec == CodecDecode(channels[h][c].codec, ok)
        counted == [call EXCEPT !.decoded = ok,
                                !.record = codec.generation,
                                !.proceed = TRUE,
                                !.result.decode_successes = @ + IF ok THEN 1 ELSE 0,
                                !.result.decode_failures = @ + IF ok THEN 0 ELSE 1,
                                !.result.status =
                                    IF ~ok /\ @ = "OK" THEN "CODEC_FAILED" ELSE @]
    IN /\ channels[h][c].codec.written < MaxCodecCalls
       /\ channels' = WithCodec(h, c, codec)
       /\ views' = IF ok THEN views \cup {ViewOf(h, c, codec)} ELSE views
       /\ Resume(t, IF call.observer THEN [counted EXCEPT !.phase = "OBSERVER"]
                    ELSE AfterObserver(counted, TRUE))
       /\ UNCHANGED alive

-----------------------------------------------------------------------------
(***************************************************************************)
(* The operations, under the lease.                                        *)
(***************************************************************************)
Begun(t) == InPhase(t, {"ENTERED"})

Find(t, found) ==
    /\ Begun(t)
    /\ Return(t, Refusal(IF found THEN "OK" ELSE "INVALID_BINDING"))
    /\ UNCHANGED <<alive, channels, views>>

Observe(t, handle) ==
    /\ Begun(t)
    /\ LET status == Resolve(Top(t).host, handle)
       IN Return(t, [NoResult EXCEPT !.status = status,
                        !.reset_required = /\ status = "OK"
                                           /\ channels[Top(t).host][handle.channel].faulted])
    /\ UNCHANGED <<alive, channels, views>>

\* Drops the framer's half frame (module StreamFramer), retracts the views,
\* makes the old handles stale and clears the fault.
Reset(t, handle) ==
    /\ Begun(t)
    /\ LET h == Top(t).host
           status == Resolve(h, handle)
       IN IF status # "OK"
          THEN Return(t, Refusal(status)) /\ UNCHANGED channels
          ELSE IF channels[h][handle.channel].generation = MaxGeneration
          THEN Return(t, Refusal("GENERATION_EXHAUSTED")) /\ UNCHANGED channels
          ELSE /\ Return(t, NoResult)
               /\ channels' = [channels EXCEPT ![h][handle.channel] =
                                  [generation |-> @.generation + 1, faulted |-> FALSE,
                                   codec |-> AdvanceViewEpoch(@.codec)]]
    /\ UNCHANGED <<alive, views>>

Decode(t, handle, arguments_valid, observer, ok) ==
    /\ Begun(t)
    /\ LET h == Top(t).host
           status == DecodeAdmission(h, handle, "RECORD", arguments_valid)
       IN IF status # "OK"
          THEN Return(t, Refusal(status)) /\ UNCHANGED <<alive, channels, views>>
          ELSE DecodeCandidate(t, [Top(t) EXCEPT !.op = "DECODE", !.channel = handle.channel,
                                                 !.generation = handle.generation,
                                                 !.observer = observer], ok)

\* Push, and Continue, which is a Push without input.
Push(t, handle, arguments_valid, observer) ==
    /\ Begun(t)
    /\ LET h == Top(t).host
           status == DecodeAdmission(h, handle, "STREAM", arguments_valid)
       IN IF status # "OK"
          THEN Return(t, Refusal(status))
          ELSE Resume(t, [Top(t) EXCEPT !.op = "PUSH", !.channel = handle.channel,
                                        !.generation = handle.generation,
                                        !.observer = observer, !.phase = "FRAMING"])
    /\ UNCHANGED <<alive, channels, views>>

CandidatesOf(call) == call.result.decode_successes + call.result.decode_failures

FramerDelivers(t, ok) ==
    /\ InPhase(t, {"FRAMING"})
    /\ CandidatesOf(Top(t)) < MaxCandidates
    /\ DecodeCandidate(t, Top(t), ok)

\* The chunk exceeds max_submit_bytes; the framer looked at none of it.
FramerRefuses(t) ==
    /\ InPhase(t, {"FRAMING"})
    /\ CandidatesOf(Top(t)) = 0
    /\ Return(t, Refusal("FRAMING_FAILED"))
    /\ UNCHANGED <<alive, channels, views>>

FramerReturns(t) ==
    /\ InPhase(t, {"FRAMING"})
    /\ Return(t, Top(t).result)
    /\ UNCHANGED <<alive, channels, views>>

Encode(t, handle, arguments_valid, ok) ==
    /\ Begun(t)
    /\ LET h == Top(t).host
           status == EncodeAdmission(h, handle, arguments_valid)
       IN IF status # "OK"
          THEN Return(t, Refusal(status)) /\ UNCHANGED channels
          ELSE LET codec == channels[h][handle.channel].codec
               IN /\ codec.generation < MaxCodecCalls
                  /\ channels' = WithCodec(h, handle.channel, BeginGuardedCall(codec))
                  /\ IF ok
                     THEN Resume(t, [Top(t) EXCEPT !.op = "ENCODE", !.phase = "BUSINESS",
                                                   !.channel = handle.channel,
                                                   !.generation = handle.generation])
                     ELSE Return(t, Refusal("CODEC_FAILED"))
    /\ UNCHANGED <<alive, views>>

-----------------------------------------------------------------------------
(***************************************************************************)
(* The callbacks.  Between its start and its end the application may make  *)
(* further calls on the same thread.                                       *)
(***************************************************************************)
ObserverReturns(t, continue) ==
    /\ InPhase(t, {"OBSERVER"})
    /\ Resume(t, AfterObserver(Top(t), continue))
    /\ UNCHANGED <<alive, channels, views>>

BusinessReturns(t, continue) ==
    /\ InPhase(t, {"BUSINESS"})
    /\ Resume(t, AfterCandidate([Top(t) EXCEPT !.result.business_callbacks_returned = @ + 1],
                                Top(t).proceed /\ continue))
    /\ UNCHANGED <<alive, channels, views>>

\* Mutant: the framer goes on after the exception.
CallbackThrows_GoesOn(t) ==
    /\ InPhase(t, CallbackPhase)
    /\ channels' = [channels EXCEPT ![Top(t).host][Top(t).channel].faulted = TRUE]
    /\ Resume(t, AfterCandidate([Top(t) EXCEPT !.result.status = "CALLBACK_FAILED",
                                               !.result.reset_required = TRUE], TRUE))
    /\ UNCHANGED <<alive, views>>

\* The exception is caught: the channel is faulted and the framer is stopped.
CallbackThrows(t) ==
    /\ InPhase(t, CallbackPhase)
    /\ channels' = [channels EXCEPT ![Top(t).host][Top(t).channel].faulted = TRUE]
    /\ Return(t, [Top(t).result EXCEPT !.status = "CALLBACK_FAILED", !.reset_required = TRUE])
    /\ UNCHANGED <<alive, views>>

\* A host is destroyed only while no call of it runs, and only hosts whose
\* handles another host may still be shown are of interest.
Destroy(h) ==
    /\ h \in alive
    /\ alive \ {h} # {}
    /\ ~in_use[h]
    /\ alive' = alive \ {h}
    /\ views' = {v \in views : v.host # h}
    /\ UNCHANGED <<in_use, channels, stack, outcome>>

-----------------------------------------------------------------------------
Init ==
    /\ alive = Host
    /\ in_use = [h \in Host |-> FALSE]
    /\ channels = [h \in Host |-> [c \in Channel |->
                      [generation |-> 1, faulted |-> FALSE, codec |-> NewCodec]]]
    /\ stack = [t \in Thread |-> << >>]
    /\ outcome = NoResult
    /\ views = {}

OperationOn(t, handle) ==
    \/ Observe(t, handle)
    \/ Reset(t, handle)
    \/ \E valid, observer, ok \in BOOLEAN : Decode(t, handle, valid, observer, ok)
    \/ \E valid, observer \in BOOLEAN : Push(t, handle, valid, observer)
    \/ \E valid, ok \in BOOLEAN : Encode(t, handle, valid, ok)

Operation(t) ==
    \/ \E found \in BOOLEAN : Find(t, found)
    \/ \E handle \in Handles : OperationOn(t, handle)

FramerStep(t) ==
    \/ \E ok \in BOOLEAN : FramerDelivers(t, ok)
    \/ FramerRefuses(t)
    \/ FramerReturns(t)

CallbackEnds(t) ==
    \/ \E continue \in BOOLEAN : ObserverReturns(t, continue) \/ BusinessReturns(t, continue)
    \/ CallbackThrows(t)

Next ==
    \/ \E t \in Thread :
          \/ \E h \in Host : Enter(t, h)
          \/ Operation(t)
          \/ FramerStep(t)
          \/ CallbackEnds(t)
    \/ \E h \in Host : Destroy(h)

Spec == Init /\ [][Next]_vars

-----------------------------------------------------------------------------
(***************************************************************************)
(* Properties.                                                             *)
(***************************************************************************)

ResultType ==
    [status : HostStatus, decode_successes : Nat, decode_failures : Nat,
     business_callbacks_returned : Nat, reset_required : BOOLEAN]

CodecType ==
    [generation : Nat, published : BOOLEAN, view_epoch : Nat, written : Nat]

ChannelType == [generation : 1..MaxGeneration, faulted : BOOLEAN, codec : CodecType]

CallType ==
    [host : Host, phase : {"ENTERED", "FRAMING"} \cup CallbackPhase,
     op : {"NONE", "DECODE", "PUSH", "ENCODE"}, channel : Channel \cup {"NONE"}, generation : Nat,
     observer : BOOLEAN, decoded : BOOLEAN, record : Nat, proceed : BOOLEAN, result : ResultType]

ViewType ==
    [host : Host, channel : Channel, epoch : Nat, generation : Nat, written : Nat,
     channel_generation : Nat]

\* Every variable has its type; no generation exceeds the largest one, and a
\* call that passed its admission checks is bound to a channel.
TypeOK ==
    /\ alive \subseteq Host
    /\ in_use \in [Host -> BOOLEAN]
    /\ channels \in [Host -> [Channel -> ChannelType]]
    /\ stack \in [Thread -> Seq(CallType)]
    /\ \A t \in Thread : \A i \in DOMAIN stack[t] :
          stack[t][i].phase # "ENTERED" => stack[t][i].channel \in Channel
    /\ outcome \in ResultType
    /\ views \subseteq ViewType

\* HostLease: at any time at most one call of a host runs, counting the calls
\* suspended in a callback, and the flag is set exactly while one does.
LeaseExclusive ==
    /\ \A t, u \in Thread : \A i \in DOMAIN stack[t], j \in DOMAIN stack[u] :
          stack[t][i].host = stack[u][j].host => t = u /\ i = j
    /\ \A h \in Host : in_use[h] <=> \E t \in Thread : IsCallbackOwnerActive(t, h)

\* A record view that still has a value shows the record it was made for: no
\* decode wrote to the slots since, and the channel was not reset since.
RecordViewsHonest ==
    \A v \in views :
        HasValue(v) => LET channel == channels[v.host][v.channel]
                       IN /\ channel.codec.written = v.written
                          /\ channel.generation = v.channel_generation

\* What a callback borrows stays valid until it returns, whatever it calls and
\* whatever other threads do: the handle of the call is not stale, and the
\* record has a value exactly if the candidate was decoded.
BorrowedWhileInCallback ==
    \A t \in Thread : \A i \in DOMAIN stack[t] :
        LET call == stack[t][i] IN
        call.phase \in CallbackPhase =>
            LET channel == channels[call.host][call.channel]
            IN /\ channel.generation = call.generation
               /\ call.op \in {"DECODE", "PUSH"} =>
                    (call.decoded <=> /\ channel.codec.published
                                      /\ channel.codec.generation = call.record)

\* After a callback threw, nothing runs on the channel until Reset: no framer
\* step, no observer and no business callback.
FaultedChannelSilent ==
    \A t \in Thread : \A i \in DOMAIN stack[t] :
        LET call == stack[t][i] IN
        call.phase # "ENTERED" => ~channels[call.host][call.channel].faulted

\* The counts of HostOperationResult add up: an OK result brought every
\* candidate (or the one encoded record, which is no candidate) to the business
\* sink; decode failures leave the successes delivered; only a callback failure
\* loses one, and it asks for a reset.
ResultTruthful ==
    LET lost == outcome.decode_successes - outcome.business_callbacks_returned
    IN /\ outcome.status = "OK" => outcome.decode_failures = 0 /\ lost \in {0, -1}
       /\ outcome.status = "CODEC_FAILED" => lost = 0 /\ ~outcome.reset_required
       /\ outcome.status = "CALLBACK_FAILED" => lost \in {0, 1} /\ outcome.reset_required

\* REENTRANT_CALL and WORKSPACE_BUSY tell the two causes apart: a call refused
\* as busy met a call of another thread, also when the chain is A, B, A.
BusyMeansContention ==
    [][\A t \in Thread, h \in Host :
          Enter(t, h) /\ stack' = stack /\ outcome'.status = "WORKSPACE_BUSY" =>
              \E u \in Thread \ {t} : \E i \in DOMAIN stack[u] : stack[u][i].host = h]_vars

\* The host contract (section 3, step 5): a call with a current handle, the
\* right action and input kind returns RESET_REQUIRED if the channel is faulted.
FaultReportedBeforeArguments ==
    [][\A t \in Thread, handle \in Handles : \A valid, observer, ok \in BOOLEAN :
          /\ Decode(t, handle, valid, observer, ok)
          /\ Resolve(Top(t).host, handle) = "OK"
          /\ binding[handle.channel] = "RECORD"
          /\ channels[Top(t).host][handle.channel].faulted
          => outcome'.status = "RESET_REQUIRED"]_vars

=============================================================================
