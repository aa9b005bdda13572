------------------------- MODULE HostEndpointProofs -------------------------
(***************************************************************************)
(* Theorems about HostEndpoint, for any number of threads, hosts and       *)
(* channels: type correctness, exclusive use of a host, and silence of a   *)
(* faulted channel.  The three together are inductive: a step of a thread  *)
(* changes channels of the host its innermost call is on, and exclusive    *)
(* use says that no other call, of this thread or another, is on it.       *)
(***************************************************************************)
EXTENDS HostEndpoint, SequenceTheorems, TLAPS

\* The typed calls together with the marker of a call that is over.
CallOrDone ==
    [host : Host, phase : {"ENTERED", "FRAMING", "DONE"} \cup CallbackPhase,
     op : {"NONE", "DECODE", "PUSH", "ENCODE"}, channel : Channel \cup {"NONE"}, generation : Nat,
     observer : BOOLEAN, decoded : BOOLEAN, record : Nat, proceed : BOOLEAN, result : ResultType]

StackTyped ==
    /\ in_use \in [Host -> BOOLEAN]
    /\ stack \in [Thread -> Seq(CallType)]
    /\ \A t \in Thread : \A i \in DOMAIN stack[t] :
          stack[t][i].phase # "ENTERED" => stack[t][i].channel \in Channel

RestTyped ==
    /\ alive \subseteq Host
    /\ channels \in [Host -> [Channel -> ChannelType]]
    /\ outcome \in ResultType
    /\ views \subseteq ViewType

\* What the proofs carry through every step.
IInv == StackTyped /\ RestTyped /\ LeaseExclusive /\ FaultedChannelSilent

StackInv == StackTyped /\ LeaseExclusive /\ FaultedChannelSilent

\* A step changes channels of host h only.
OnlyOn(h) == \A g \in Host \ {h} : channels'[g] = channels[g]

-----------------------------------------------------------------------------
(***************************************************************************)
(* The stack.                                                              *)
(***************************************************************************)

\* A thread that is in a call has an innermost one, and the rest of its stack
\* is what Below keeps.
LEMMA StackSplit ==
    ASSUME StackTyped, NEW t \in Thread, stack[t] # << >>
    PROVE /\ Len(stack[t]) \in Nat \ {0}
          /\ DOMAIN stack[t] = 1..Len(stack[t])
          /\ Top(t) \in CallType
          /\ Below(t) \in Seq(CallType)
          /\ Len(Below(t)) = Len(stack[t]) - 1
          /\ DOMAIN Below(t) = 1..(Len(stack[t]) - 1)
          /\ \A i \in 1..(Len(stack[t]) - 1) : Below(t)[i] = stack[t][i]
<1>1. stack[t] \in Seq(CallType)
  BY DEF StackTyped
<1>2. Len(stack[t]) \in Nat \ {0} /\ DOMAIN stack[t] = 1..Len(stack[t])
  BY <1>1
<1>3. Top(t) \in CallType
  BY <1>1, <1>2 DEF Top
<1>4. Below(t) \in Seq(CallType) /\ Len(Below(t)) = Len(stack[t]) - 1
  BY <1>1, <1>2 DEF Below
<1>5. \A i \in 1..(Len(stack[t]) - 1) : Below(t)[i] = stack[t][i]
  BY <1>1, <1>2 DEF Below
<1>6. DOMAIN Below(t) = 1..(Len(stack[t]) - 1)
  BY <1>4
<1> QED
  BY <1>2, <1>3, <1>4, <1>5, <1>6

\* Every call on a stack is on a host.
LEMMA CallsTyped ==
    ASSUME StackTyped
    PROVE \A u \in Thread : \A i \in DOMAIN stack[u] :
             stack[u][i] \in CallType /\ stack[u][i].host \in Host
<1> SUFFICES ASSUME NEW u \in Thread, NEW i \in DOMAIN stack[u]
             PROVE stack[u][i] \in CallType /\ stack[u][i].host \in Host
  OBVIOUS
<1>1. stack[u] \in Seq(CallType)
  BY DEF StackTyped
<1>2. stack[u][i] \in CallType
  BY <1>1
<1> QED
  BY <1>2 DEF CallType

\* Replacing the innermost call leaves the others in their places.
LEMMA TopReplaced ==
    ASSUME StackTyped, NEW t \in Thread, stack[t] # << >>, NEW call \in CallType
    PROVE /\ Append(Below(t), call) \in Seq(CallType)
          /\ DOMAIN Append(Below(t), call) = DOMAIN stack[t]
          /\ \A i \in DOMAIN stack[t] :
               Append(Below(t), call)[i] = IF i = Len(stack[t]) THEN call ELSE stack[t][i]
<1> DEFINE n == Len(stack[t])
<1>1. /\ n \in Nat \ {0}
      /\ DOMAIN stack[t] = 1..n
      /\ Below(t) \in Seq(CallType)
      /\ Len(Below(t)) = n - 1
      /\ \A i \in 1..(n - 1) : Below(t)[i] = stack[t][i]
  BY StackSplit
<1> HIDE DEF n
<1>2. Append(Below(t), call) \in Seq(CallType) /\ Len(Append(Below(t), call)) = n
  BY <1>1
<1>3. DOMAIN Append(Below(t), call) = 1..n
  BY <1>1, <1>2
<1>4. \A i \in 1..n : Append(Below(t), call)[i] = IF i = n THEN call ELSE stack[t][i]
  BY <1>1
<1> QED
  BY <1>1, <1>2, <1>3, <1>4 DEF n

\* A call is entered only if its host was not in use.
LEMMA EnterKeeps ==
    ASSUME StackInv, NEW t \in Thread, NEW h \in Host, ~in_use[h],
           in_use' = [in_use EXCEPT ![h] = TRUE],
           stack' = [stack EXCEPT ![t] = Append(@, EnteredCall(h))],
           UNCHANGED channels
    PROVE StackInv'
<1> DEFINE n == Len(stack[t])
           call == EnteredCall(h)
           s == Append(stack[t], call)
<1>1. call \in CallType /\ call.host = h /\ call.phase = "ENTERED"
  BY DEF EnteredCall, CallType, ResultType, NoResult, HostStatus, CallbackPhase
<1> HIDE DEF call
<1>2. stack[t] \in Seq(CallType) /\ n \in Nat /\ DOMAIN stack[t] = 1..n
  BY DEF StackInv, StackTyped
<1>3. /\ s \in Seq(CallType)
      /\ DOMAIN s = 1..(n + 1)
      /\ \A i \in 1..n : s[i] = stack[t][i]
      /\ s[n + 1] = call
  BY <1>1, <1>2
<1>s. UNCHANGED channels /\ in_use' = [in_use EXCEPT ![h] = TRUE]
  OBVIOUS
<1> HIDE DEF s, n
<1>4. stack' = [stack EXCEPT ![t] = s]
  BY DEF s, call
<1>5. \A u \in Thread : stack'[u] = IF u = t THEN s ELSE stack[u]
  BY <1>4 DEF StackInv, StackTyped
<1>6. StackTyped'
  BY <1>1, <1>2, <1>3, <1>4, <1>5 DEF StackInv, StackTyped
<1>7. \A u \in Thread : \A i \in DOMAIN stack[u] : stack[u][i].host # h
  BY DEF StackInv, LeaseExclusive, IsCallbackOwnerActive
<1>8. /\ \A u \in Thread : DOMAIN stack[u] \subseteq DOMAIN stack'[u]
      /\ \A u \in Thread : \A i \in DOMAIN stack[u] : stack'[u][i] = stack[u][i]
  BY <1>2, <1>3, <1>5
<1>9. /\ n + 1 \in DOMAIN stack'[t]
      /\ stack'[t][n + 1] = call
      /\ \A u \in Thread : \A i \in DOMAIN stack'[u] :
           i \in DOMAIN stack[u] \/ (u = t /\ i = n + 1)
  <2>1. stack'[t] = s
    BY <1>5
  <2>2. n + 1 \in 1..(n + 1)
    BY <1>2
  <2>3. \A i \in 1..(n + 1) : i \in 1..n \/ i = n + 1
    BY <1>2
  <2> QED
    BY <2>1, <2>2, <2>3, <1>2, <1>3, <1>5
<1>10. LeaseExclusive'
  <2>1. \A u, v \in Thread : \A i \in DOMAIN stack'[u], j \in DOMAIN stack'[v] :
           stack'[u][i].host = stack'[v][j].host => u = v /\ i = j
    <3> SUFFICES ASSUME NEW u \in Thread, NEW v \in Thread, NEW i \in DOMAIN stack'[u],
                        NEW j \in DOMAIN stack'[v],
                        stack'[u][i].host = stack'[v][j].host
                 PROVE u = v /\ i = j
      OBVIOUS
    <3>1. CASE i \in DOMAIN stack[u] /\ j \in DOMAIN stack[v]
      BY <3>1, <1>8 DEF StackInv, LeaseExclusive
    <3>2. CASE i \notin DOMAIN stack[u]
      BY <3>2, <1>1, <1>7, <1>8, <1>9
    <3>3. CASE j \notin DOMAIN stack[v]
      BY <3>3, <1>1, <1>7, <1>8, <1>9
    <3> QED
      BY <3>1, <3>2, <3>3
  <2>2. ASSUME NEW g \in Host
        PROVE in_use'[g] <=> \E u \in Thread : \E i \in DOMAIN stack'[u] : stack'[u][i].host = g
    <3>1. CASE g = h
      <4>1. in_use'[g]
        BY <3>1, <1>s DEF StackInv, StackTyped
      <4>2. stack'[t][n + 1].host = g
        BY <3>1, <1>1, <1>9
      <4>3. \E u \in Thread : \E i \in DOMAIN stack'[u] : stack'[u][i].host = g
        BY <4>2, <1>9
      <4> QED
        BY <4>1, <4>3
    <3>2. CASE g # h
      <4>1. in_use'[g] = in_use[g]
        BY <3>2, <1>s DEF StackInv, StackTyped
      <4>2. in_use[g] <=> \E u \in Thread : \E i \in DOMAIN stack[u] : stack[u][i].host = g
        BY DEF StackInv, LeaseExclusive, IsCallbackOwnerActive
      <4>3. \A u \in Thread : \A i \in DOMAIN stack'[u] :
               stack'[u][i].host = g => i \in DOMAIN stack[u]
        BY <3>2, <1>1, <1>9
      <4>4. (\E u \in Thread : \E i \in DOMAIN stack'[u] : stack'[u][i].host = g)
            <=> \E u \in Thread : \E i \in DOMAIN stack[u] : stack[u][i].host = g
        BY <4>3, <1>8
      <4> QED
        BY <4>1, <4>2, <4>4
    <3> QED
      BY <3>1, <3>2
  <2> QED
    BY <2>1, <2>2 DEF LeaseExclusive, IsCallbackOwnerActive
<1>11. FaultedChannelSilent'
  <2> SUFFICES ASSUME NEW u \in Thread, NEW i \in DOMAIN stack'[u],
                      stack'[u][i].phase # "ENTERED"
               PROVE ~channels'[stack'[u][i].host][stack'[u][i].channel].faulted
    BY DEF FaultedChannelSilent
  <2>1. CASE i \in DOMAIN stack[u]
    <3>1. stack'[u][i] = stack[u][i]
      BY <1>8, <2>1
    <3>2. ~channels[stack[u][i].host][stack[u][i].channel].faulted
      BY <2>1, <3>1 DEF StackInv, FaultedChannelSilent
    <3> QED
      BY <1>s, <3>1, <3>2
  <2>2. CASE i \notin DOMAIN stack[u]
    <3>1. stack'[u][i] = call
      BY <1>9, <2>2
    <3> QED
      BY <1>1, <3>1
  <2> QED
    BY <2>1, <2>2
<1> QED
  BY <1>6, <1>10, <1>11 DEF StackInv

\* When a call returns, its host has no call left and the flag is cleared.
LEMMA ReturnKeeps ==
    ASSUME StackInv, NEW t \in Thread, stack[t] # << >>, NEW result,
           Return(t, result), OnlyOn(Top(t).host)
    PROVE StackInv'
<1> DEFINE n == Len(stack[t])
           h == Top(t).host
           s == Below(t)
<1>1. /\ n \in Nat \ {0}
      /\ DOMAIN stack[t] = 1..n
      /\ Top(t) \in CallType
      /\ s \in Seq(CallType)
      /\ DOMAIN s = 1..(n - 1)
      /\ \A i \in 1..(n - 1) : s[i] = stack[t][i]
      /\ Top(t) = stack[t][n]
  BY StackSplit DEF StackInv, Top
<1>2. h \in Host
  BY <1>1 DEF CallType
<1>3. stack' = [stack EXCEPT ![t] = s] /\ in_use' = [in_use EXCEPT ![h] = FALSE]
  BY DEF Return
<1>4. OnlyOn(h)
  OBVIOUS
<1>5. \A u \in Thread : \A i \in DOMAIN stack[u] :
         stack[u][i].host = h => u = t /\ i = n
  BY <1>1 DEF StackInv, LeaseExclusive
<1>h. stack[t][n].host = h
  BY <1>1
<1> HIDE DEF n, h, s
<1>6. \A u \in Thread : stack'[u] = IF u = t THEN s ELSE stack[u]
  BY <1>3 DEF StackInv, StackTyped
<1>7. StackTyped'
  BY <1>1, <1>2, <1>3, <1>6 DEF StackInv, StackTyped
<1>8. \A u \in Thread : \A i \in DOMAIN stack'[u] :
         /\ i \in DOMAIN stack[u]
         /\ stack'[u][i] = stack[u][i]
         /\ stack[u][i].host # h
  BY <1>1, <1>5, <1>6
<1>9. LeaseExclusive'
  <2>1. \A u, v \in Thread : \A i \in DOMAIN stack'[u], j \in DOMAIN stack'[v] :
           stack'[u][i].host = stack'[v][j].host => u = v /\ i = j
    BY <1>8 DEF StackInv, LeaseExclusive
  <2>2. ASSUME NEW g \in Host
        PROVE in_use'[g] <=> \E u \in Thread : \E i \in DOMAIN stack'[u] : stack'[u][i].host = g
    <3>1. CASE g = h
      BY <3>1, <1>3, <1>8 DEF StackInv, StackTyped
    <3>2. CASE g # h
      <4>1. in_use'[g] = in_use[g]
        BY <3>2, <1>3 DEF StackInv, StackTyped
      <4>2. in_use[g] <=> \E u \in Thread : \E i \in DOMAIN stack[u] : stack[u][i].host = g
        BY DEF StackInv, LeaseExclusive, IsCallbackOwnerActive
      <4>3. \A u \in Thread : \A i \in DOMAIN stack[u] :
               stack[u][i].host = g => i \in DOMAIN stack'[u]
        BY <3>2, <1>1, <1>6, <1>h
      <4> QED
        BY <4>1, <4>2, <4>3, <1>8
    <3> QED
      BY <3>1, <3>2
  <2> QED
    BY <2>1, <2>2 DEF LeaseExclusive, IsCallbackOwnerActive
<1>10. FaultedChannelSilent'
  <2>1. \A u \in Thread : \A i \in DOMAIN stack[u] : stack[u][i].host \in Host
    BY CallsTyped DEF StackInv
  <2> QED
    BY <2>1, <1>4, <1>8 DEF StackInv, FaultedChannelSilent, OnlyOn
<1> QED
  BY <1>7, <1>9, <1>10 DEF StackInv

\* A call that goes on stays on its host, and the channel it is bound to is
\* not faulted.
LEMMA ReplaceKeeps ==
    ASSUME StackInv, NEW t \in Thread, stack[t] # << >>, NEW call \in CallType,
           call.host = Top(t).host, call.channel \in Channel,
           ~channels'[call.host][call.channel].faulted,
           stack' = [stack EXCEPT ![t] = Append(Below(t), call)],
           UNCHANGED in_use, OnlyOn(Top(t).host)
    PROVE StackInv'
<1> DEFINE n == Len(stack[t])
           h == Top(t).host
           s == Append(Below(t), call)
<1>1. /\ n \in Nat \ {0}
      /\ DOMAIN stack[t] = 1..n
      /\ Top(t) = stack[t][n]
  BY StackSplit DEF StackInv, Top
<1>2. /\ s \in Seq(CallType)
      /\ DOMAIN s = 1..n
      /\ \A i \in 1..n : s[i] = IF i = n THEN call ELSE stack[t][i]
  BY <1>1, TopReplaced DEF StackInv
<1>3. OnlyOn(h) /\ call.host = h /\ stack[t][n].host = h
  BY <1>1
<1>4. stack' = [stack EXCEPT ![t] = s]
  OBVIOUS
<1>5. \A u \in Thread : \A i \in DOMAIN stack[u] :
         stack[u][i].host = h => u = t /\ i = n
  BY <1>1 DEF StackInv, LeaseExclusive
<1> HIDE DEF n, h, s
<1>6. \A u \in Thread : stack'[u] = IF u = t THEN s ELSE stack[u]
  BY <1>4 DEF StackInv, StackTyped
<1>7. StackTyped'
  <2>1. stack' \in [Thread -> Seq(CallType)]
    BY <1>2, <1>4 DEF StackInv, StackTyped
  <2>2. \A u \in Thread : \A i \in DOMAIN stack'[u] :
           stack'[u][i] = call \/ (i \in DOMAIN stack[u] /\ stack'[u][i] = stack[u][i])
    BY <1>1, <1>2, <1>6
  <2> QED
    BY <2>1, <2>2 DEF StackInv, StackTyped
<1>8. \A u \in Thread : /\ DOMAIN stack'[u] = DOMAIN stack[u]
                        /\ \A i \in DOMAIN stack[u] : stack'[u][i].host = stack[u][i].host
  BY <1>1, <1>2, <1>3, <1>6
<1>9. LeaseExclusive'
  BY <1>8 DEF StackInv, LeaseExclusive, IsCallbackOwnerActive
<1>10. FaultedChannelSilent'
  <2> SUFFICES ASSUME NEW u \in Thread, NEW i \in DOMAIN stack'[u],
                      stack'[u][i].phase # "ENTERED"
               PROVE ~channels'[stack'[u][i].host][stack'[u][i].channel].faulted
    BY DEF FaultedChannelSilent
  <2>1. CASE u = t /\ i = n
    <3>1. stack'[u][i] = call
      BY <2>1, <1>1, <1>2, <1>6
    <3> QED
      BY <3>1
  <2>2. CASE ~(u = t /\ i = n)
    <3>1. i \in DOMAIN stack[u] /\ stack'[u][i] = stack[u][i]
      BY <2>2, <1>1, <1>2, <1>6
    <3>2. stack[u][i].host \in Host \ {h}
      BY <2>2, <3>1, <1>5, CallsTyped DEF StackInv
    <3> QED
      BY <3>1, <3>2, <1>3 DEF StackInv, FaultedChannelSilent, OnlyOn
  <2> QED
    BY <2>1, <2>2
<1> QED
  BY <1>7, <1>9, <1>10 DEF StackInv
-----------------------------------------------------------------------------
(***************************************************************************)
(* The steps.                                                              *)
(***************************************************************************)

\* A finished call returns, an unfinished one goes on.
LEMMA ResumeKeeps ==
    ASSUME StackInv, NEW t \in Thread, stack[t] # << >>, NEW call \in CallOrDone,
           call.host = Top(t).host, call.channel \in Channel,
           call.phase # "DONE" => ~channels'[call.host][call.channel].faulted,
           Resume(t, call), OnlyOn(Top(t).host), outcome \in ResultType
    PROVE StackInv' /\ outcome' \in ResultType
<1>1. CASE call.phase = "DONE"
  <2>1. Return(t, call.result)
    BY <1>1 DEF Resume
  <2>2. outcome' \in ResultType
    BY <2>1 DEF Return, CallOrDone
  <2> QED
    BY <2>1, <2>2, ReturnKeeps
<1>2. CASE call.phase # "DONE"
  <2>1. call \in CallType
    BY <1>2 DEF CallOrDone, CallType
  <2>2. stack' = [stack EXCEPT ![t] = Append(Below(t), call)] /\ UNCHANGED <<in_use, outcome>>
    BY <1>2 DEF Resume
  <2> QED
    BY <1>2, <2>1, <2>2, ReplaceKeeps
<1> QED
  BY <1>1, <1>2

\* Refusals and empty results are results.
LEMMA RefusalTyped ==
    ASSUME NEW status \in HostStatus
    PROVE Refusal(status) \in ResultType /\ NoResult \in ResultType
BY DEF Refusal, NoResult, ResultType, HostStatus

\* An operation that returns without touching a channel keeps the invariant.
LEMMA PlainReturnKeeps ==
    ASSUME IInv, NEW t \in Thread, stack[t] # << >>, NEW result \in ResultType,
           Return(t, result), UNCHANGED <<alive, channels, views>>
    PROVE IInv'
<1>1. OnlyOn(Top(t).host)
  BY DEF OnlyOn
<1>2. StackInv'
  BY <1>1, ReturnKeeps DEF IInv, StackInv
<1>3. RestTyped'
  BY DEF IInv, RestTyped, Return
<1> QED
  BY <1>2, <1>3 DEF IInv, StackInv
\* A handle that resolves names a channel of this host.
LEMMA HandleFacts ==
    ASSUME RestTyped, NEW h \in Host, NEW handle \in Handles
    PROVE /\ Resolve(h, handle) \in HostStatus
          /\ Resolve(h, handle) = "OK" => handle.channel \in Channel /\ handle.generation \in Nat
<1>1. Resolve(h, handle) \in HostStatus
  BY DEF Resolve, HostStatus
<1>2. ASSUME handle.assigned
      PROVE handle.channel \in Channel /\ handle.generation \in Nat
  <2>1. handle # NoHandle
    BY <1>2 DEF NoHandle
  <2>2. PICK g \in Host, c \in Channel :
           \E k \in 1..channels[g][c].generation :
              handle = [assigned |-> TRUE, host |-> g, channel |-> c, generation |-> k]
    BY <2>1 DEF Handles
  <2>3. channels[g][c].generation \in Nat
    BY DEF RestTyped, ChannelType
  <2> QED
    BY <2>2, <2>3
<1>3. Resolve(h, handle) = "OK" => handle.assigned
  BY DEF Resolve
<1> QED
  BY <1>1, <1>2, <1>3

\* A call that is admitted has a current handle of a channel that is not faulted.
LEMMA AdmissionFacts ==
    ASSUME RestTyped, NEW h \in Host, NEW handle \in Handles, NEW valid \in BOOLEAN,
           NEW kind
    PROVE /\ DecodeAdmission(h, handle, kind, valid) \in HostStatus
          /\ EncodeAdmission(h, handle, valid) \in HostStatus
          /\ \/ DecodeAdmission(h, handle, kind, valid) = "OK"
             \/ EncodeAdmission(h, handle, valid) = "OK"
             => /\ handle.channel \in Channel
                /\ handle.generation \in Nat
                /\ ~channels[h][handle.channel].faulted
<1>1. DecodeAdmission(h, handle, kind, valid) \in HostStatus
  BY HandleFacts DEF DecodeAdmission, HostStatus
<1>2. EncodeAdmission(h, handle, valid) \in HostStatus
  BY HandleFacts DEF EncodeAdmission, HostStatus
<1>3. \/ DecodeAdmission(h, handle, kind, valid) = "OK"
      \/ EncodeAdmission(h, handle, valid) = "OK"
      => Resolve(h, handle) = "OK" /\ ~channels[h][handle.channel].faulted
  BY DEF DecodeAdmission, EncodeAdmission
<1> QED
  BY <1>1, <1>2, <1>3, HandleFacts

\* The bookkeeping after a callback keeps a call well formed and on its channel.
LEMMA AfterFacts ==
    ASSUME NEW call \in CallOrDone, NEW continue \in BOOLEAN
    PROVE /\ AfterCandidate(call, continue) \in CallOrDone
          /\ AfterCandidate(call, continue).host = call.host
          /\ AfterCandidate(call, continue).channel = call.channel
          /\ AfterObserver(call, continue) \in CallOrDone
          /\ AfterObserver(call, continue).host = call.host
          /\ AfterObserver(call, continue).channel = call.channel
<1>1. /\ AfterCandidate(call, continue) \in CallOrDone
      /\ AfterCandidate(call, continue).host = call.host
      /\ AfterCandidate(call, continue).channel = call.channel
  BY DEF AfterCandidate, CallOrDone, CallbackPhase
<1>2. CASE call.decoded
  BY <1>1, <1>2 DEF AfterObserver, CallOrDone, CallbackPhase
<1>3. CASE ~call.decoded
  BY <1>1, <1>3 DEF AfterObserver
<1> QED
  BY <1>1, <1>2, <1>3

\* The codec's counters stay counters.
LEMMA CodecTyped ==
    ASSUME NEW k \in CodecType, NEW ok \in BOOLEAN
    PROVE /\ BeginGuardedCall(k) \in CodecType
          /\ CodecDecode(k, ok) \in CodecType
          /\ AdvanceViewEpoch(k) \in CodecType
<1>1. k.generation + 1 \in Nat /\ k.written + 1 \in Nat /\ k.view_epoch + 1 \in Nat
  BY DEF CodecType
<1>2. BeginGuardedCall(k) \in CodecType
  BY <1>1 DEF BeginGuardedCall, CodecType
<1>3. AdvanceViewEpoch(k) \in CodecType
  BY <1>1 DEF AdvanceViewEpoch, CodecType
<1>4. BeginGuardedCall(k).written = k.written /\ BeginGuardedCall(k).published \in BOOLEAN
  BY DEF BeginGuardedCall, CodecType
<1>5. CodecDecode(k, ok) \in CodecType
  BY <1>1, <1>2, <1>4 DEF CodecDecode, CodecType
<1> QED
  BY <1>2, <1>3, <1>5

\* A decode leaves the fault flag and the generation of its channel alone.
LEMMA WithCodecFacts ==
    ASSUME RestTyped, NEW h \in Host, NEW c \in Channel, NEW codec \in CodecType,
           channels' = WithCodec(h, c, codec)
    PROVE /\ channels' \in [Host -> [Channel -> ChannelType]]
          /\ channels'[h][c].faulted = channels[h][c].faulted
          /\ OnlyOn(h)
<1>1. channels[h][c] \in ChannelType
  BY DEF RestTyped
<1>2. [channels[h][c] EXCEPT !.codec = codec] \in ChannelType
  BY <1>1 DEF ChannelType
<1>3. channels' = [channels EXCEPT ![h] = [channels[h] EXCEPT ![c] =
                       [channels[h][c] EXCEPT !.codec = codec]]]
  BY DEF WithCodec
<1>4. channels'[h][c] = [channels[h][c] EXCEPT !.codec = codec]
  BY <1>3 DEF RestTyped
<1>5. channels' \in [Host -> [Channel -> ChannelType]]
  BY <1>2, <1>3 DEF RestTyped
<1>6. OnlyOn(h)
  BY <1>3 DEF RestTyped, OnlyOn
<1> QED
  BY <1>1, <1>4, <1>5, <1>6 DEF ChannelType

\* One candidate: the decode, and the callback or the end it leads to.
LEMMA CandidateKeeps ==
    ASSUME IInv, NEW t \in Thread, stack[t] # << >>, NEW call \in CallOrDone,
           call.host = Top(t).host, call.channel \in Channel,
           ~channels[call.host][call.channel].faulted,
           NEW ok \in BOOLEAN, DecodeCandidate(t, call, ok)
    PROVE IInv'
<1> DEFINE h == call.host
           c == call.channel
           codec == CodecDecode(channels[h][c].codec, ok)
           counted == [call EXCEPT !.decoded = ok,
                                   !.record = codec.generation,
                                   !.proceed = TRUE,
                                   !.result.decode_successes = @ + IF ok THEN 1 ELSE 0,
                                   !.result.decode_failures = @ + IF ok THEN 0 ELSE 1,
                                   !.result.status =
                                       IF ~ok /\ @ = "OK" THEN "CODEC_FAILED" ELSE @]
           next == IF call.observer THEN [counted EXCEPT !.phase = "OBSERVER"]
                   ELSE AfterObserver(counted, TRUE)
<1>1. h \in Host
  BY DEF CallOrDone
<1>2. channels[h][c].codec \in CodecType /\ channels[h][c].generation \in Nat
  BY <1>1 DEF IInv, RestTyped, ChannelType
<1>3. codec \in CodecType
  BY <1>2, CodecTyped
<1>4. /\ channels' = WithCodec(h, c, codec)
      /\ views' = IF ok THEN views \cup {ViewOf(h, c, codec)} ELSE views
      /\ Resume(t, next)
      /\ UNCHANGED alive
  BY DEF DecodeCandidate
<1> HIDE DEF codec
<1>5. ViewOf(h, c, codec) \in ViewType
  BY <1>1, <1>2, <1>3 DEF ViewOf, ViewType, CodecType
<1>6. /\ channels' \in [Host -> [Channel -> ChannelType]]
      /\ ~channels'[h][c].faulted
      /\ OnlyOn(h)
  BY <1>1, <1>3, <1>4, WithCodecFacts DEF IInv
<1>7. counted \in CallOrDone /\ counted.host = h /\ counted.channel = c
  <2>1. codec.generation \in Nat
    BY <1>3 DEF CodecType
  <2>2. call.result \in ResultType
    BY DEF CallOrDone
  <2>3. [call.result EXCEPT !.decode_successes = @ + IF ok THEN 1 ELSE 0,
                            !.decode_failures = @ + IF ok THEN 0 ELSE 1,
                            !.status = IF ~ok /\ @ = "OK" THEN "CODEC_FAILED" ELSE @]
        \in ResultType
    <3>1. /\ call.result.decode_successes + (IF ok THEN 1 ELSE 0) \in Nat
          /\ call.result.decode_failures + (IF ok THEN 0 ELSE 1) \in Nat
      BY <2>2 DEF ResultType
    <3>2. (IF ~ok /\ call.result.status = "OK" THEN "CODEC_FAILED" ELSE call.result.status)
          \in HostStatus
      BY <2>2 DEF ResultType, HostStatus
    <3> QED
      BY <2>2, <3>1, <3>2 DEF ResultType
  <2>4. counted = [call EXCEPT !.decoded = ok, !.record = codec.generation, !.proceed = TRUE,
                      !.result = [call.result EXCEPT
                          !.decode_successes = @ + IF ok THEN 1 ELSE 0,
                          !.decode_failures = @ + IF ok THEN 0 ELSE 1,
                          !.status = IF ~ok /\ @ = "OK" THEN "CODEC_FAILED" ELSE @]]
    BY <2>2 DEF CallOrDone, ResultType
  <2> QED
    BY <2>1, <2>3, <2>4 DEF CallOrDone
<1> HIDE DEF counted
<1>8. next \in CallOrDone /\ next.host = h /\ next.channel = c
  <2>1. CASE call.observer
    BY <2>1, <1>7 DEF CallOrDone, CallbackPhase
  <2>2. CASE ~call.observer
    BY <2>2, <1>7, AfterFacts
  <2> QED
    BY <2>1, <2>2
<1> HIDE DEF next
<1>9. StackInv' /\ outcome' \in ResultType
  <2>1. next.host = Top(t).host /\ next.channel \in Channel
    BY <1>8
  <2>2. next.phase # "DONE" => ~channels'[next.host][next.channel].faulted
    BY <1>6, <1>8
  <2>3. OnlyOn(Top(t).host) /\ outcome \in ResultType /\ StackInv
    BY <1>6 DEF IInv, StackInv, RestTyped
  <2> QED
    BY <1>4, <1>8, <2>1, <2>2, <2>3, ResumeKeeps
<1>10. RestTyped'
  BY <1>4, <1>5, <1>6, <1>9 DEF IInv, RestTyped
<1> QED
  BY <1>9, <1>10 DEF IInv, StackInv
\* What a thread inside a call can rely on.
LEMMA InCallFacts ==
    ASSUME IInv, NEW t \in Thread, NEW phases, InPhase(t, phases)
    PROVE /\ stack[t] # << >>
          /\ Top(t) \in CallType
          /\ Top(t) \in CallOrDone
          /\ Top(t).host \in Host
          /\ Top(t).phase \in phases
          /\ Top(t).phase # "ENTERED" => /\ Top(t).channel \in Channel
                                         /\ ~channels[Top(t).host][Top(t).channel].faulted
<1>1. stack[t] # << >> /\ Top(t).phase \in phases
  BY DEF InPhase
<1>2. Top(t) \in CallType /\ Len(stack[t]) \in DOMAIN stack[t] /\ Top(t) = stack[t][Len(stack[t])]
  <2>1. /\ Len(stack[t]) \in Nat \ {0}
        /\ DOMAIN stack[t] = 1..Len(stack[t])
        /\ Top(t) \in CallType
    BY <1>1, StackSplit DEF IInv
  <2> QED
    BY <2>1 DEF Top
<1>3. Top(t).phase # "ENTERED" => /\ Top(t).channel \in Channel
                                  /\ ~channels[Top(t).host][Top(t).channel].faulted
  BY <1>2 DEF IInv, StackTyped, FaultedChannelSilent
<1>4. Top(t) \in CallOrDone /\ Top(t).host \in Host
  BY <1>2 DEF CallType, CallOrDone
<1> QED
  BY <1>1, <1>2, <1>3, <1>4

\* Enter keeps the invariant: refused calls change nothing but the result.
LEMMA EnterStep ==
    ASSUME IInv, NEW t \in Thread, NEW h \in Host, Enter(t, h)
    PROVE IInv'
<1>1. UNCHANGED <<alive, channels, views>>
  BY DEF Enter
<1>2. CASE UNCHANGED <<in_use, stack>> /\ outcome' \in ResultType
  <2>1. StackTyped' /\ LeaseExclusive' /\ FaultedChannelSilent'
    BY <1>1, <1>2 DEF IInv, StackTyped, LeaseExclusive, IsCallbackOwnerActive,
                      FaultedChannelSilent
  <2>2. RestTyped'
    BY <1>1, <1>2 DEF IInv, RestTyped
  <2> QED
    BY <2>1, <2>2 DEF IInv
<1>3. CASE /\ ~in_use[h]
           /\ in_use' = [in_use EXCEPT ![h] = TRUE]
           /\ stack' = [stack EXCEPT ![t] = Append(@, EnteredCall(h))]
           /\ UNCHANGED outcome
  <2>1. StackInv'
    BY <1>1, <1>3, EnterKeeps DEF IInv, StackInv
  <2>2. RestTyped'
    BY <1>1, <1>3 DEF IInv, RestTyped
  <2> QED
    BY <2>1, <2>2 DEF IInv, StackInv
<1>4. Refusal("REENTRANT_CALL") \in ResultType /\ Refusal("WORKSPACE_BUSY") \in ResultType
  BY RefusalTyped DEF HostStatus
<1> QED
  BY <1>2, <1>3, <1>4 DEF Enter

\* Find and Observe only report.
LEMMA ReportStep ==
    ASSUME IInv, NEW t \in Thread, NEW handle \in Handles, NEW found \in BOOLEAN,
           Find(t, found) \/ Observe(t, handle)
    PROVE IInv'
<1>1. CASE Find(t, found)
  <2>1. Refusal(IF found THEN "OK" ELSE "INVALID_BINDING") \in ResultType
    BY RefusalTyped DEF HostStatus
  <2>2. stack[t] # << >>
    BY <1>1, InCallFacts DEF Find, Begun
  <2> QED
    BY <1>1, <2>1, <2>2, PlainReturnKeeps DEF Find
<1>2. CASE Observe(t, handle)
  <2> DEFINE status == Resolve(Top(t).host, handle)
             required == status = "OK" /\ channels[Top(t).host][handle.channel].faulted
  <2>1. stack[t] # << >> /\ Top(t).host \in Host
    BY <1>2, InCallFacts DEF Observe, Begun
  <2>2. status \in HostStatus /\ (status = "OK" => handle.channel \in Channel)
    BY <2>1, HandleFacts DEF IInv
  <2>3. required \in BOOLEAN
    OBVIOUS
  <2> HIDE DEF required, status
  <2>4. [NoResult EXCEPT !.status = status, !.reset_required = required] \in ResultType
    BY <2>2, <2>3 DEF NoResult, ResultType
  <2> QED
    BY <1>2, <2>1, <2>4, PlainReturnKeeps DEF Observe, status, required
<1> QED
  BY <1>1, <1>2

\* Reset touches one channel of the host whose only call it is.
LEMMA ResetStep ==
    ASSUME IInv, NEW t \in Thread, NEW handle \in Handles, Reset(t, handle)
    PROVE IInv'
<1> DEFINE h == Top(t).host
           c == handle.channel
           status == Resolve(h, handle)
<1>1. stack[t] # << >> /\ h \in Host
  BY InCallFacts DEF Reset, Begun
<1>2. status \in HostStatus /\ (status = "OK" => c \in Channel)
  BY <1>1, HandleFacts DEF IInv
<1>3. CASE status # "OK"
  BY <1>1, <1>2, <1>3, RefusalTyped, PlainReturnKeeps DEF Reset
<1>4. CASE status = "OK" /\ channels[h][c].generation = MaxGeneration
  BY <1>1, <1>4, RefusalTyped, PlainReturnKeeps DEF Reset, HostStatus
<1>5. CASE status = "OK" /\ channels[h][c].generation # MaxGeneration
  <2> DEFINE fresh == [generation |-> channels[h][c].generation + 1, faulted |-> FALSE,
                       codec |-> AdvanceViewEpoch(channels[h][c].codec)]
  <2>1. /\ Return(t, NoResult)
        /\ channels' = [channels EXCEPT ![h] = [channels[h] EXCEPT ![c] = fresh]]
        /\ UNCHANGED <<alive, views>>
    BY <1>5 DEF Reset
  <2>2. channels[h][c] \in ChannelType
    BY <1>1, <1>2, <1>5 DEF IInv, RestTyped
  <2>3. fresh \in ChannelType
    <3>1. channels[h][c].generation + 1 \in 1..MaxGeneration
      BY <2>2, <1>5, HostLimitsAssumption DEF ChannelType
    <3>2. AdvanceViewEpoch(channels[h][c].codec) \in CodecType
      BY <2>2, CodecTyped DEF ChannelType
    <3> QED
      BY <3>1, <3>2 DEF ChannelType
  <2> HIDE DEF fresh
  <2>4. channels' \in [Host -> [Channel -> ChannelType]] /\ OnlyOn(h)
    BY <2>1, <2>3 DEF IInv, RestTyped, OnlyOn
  <2>5. StackInv'
    BY <1>1, <2>1, <2>4, ReturnKeeps DEF IInv, StackInv
  <2>6. outcome' \in ResultType
    BY <2>1, RefusalTyped DEF Return, HostStatus
  <2>7. RestTyped'
    BY <2>1, <2>4, <2>6 DEF IInv, RestTyped
  <2> QED
    BY <2>5, <2>7 DEF IInv, StackInv
<1> QED
  BY <1>3, <1>4, <1>5

\* Decode runs its one candidate if it is admitted.
LEMMA DecodeStep ==
    ASSUME IInv, NEW t \in Thread, NEW handle \in Handles, NEW valid \in BOOLEAN,
           NEW observer \in BOOLEAN, NEW ok \in BOOLEAN,
           Decode(t, handle, valid, observer, ok)
    PROVE IInv'
<1> DEFINE h == Top(t).host
           status == DecodeAdmission(h, handle, "RECORD", valid)
           call == [Top(t) EXCEPT !.op = "DECODE", !.channel = handle.channel,
                                  !.generation = handle.generation, !.observer = observer]
<1>1. stack[t] # << >> /\ h \in Host /\ Top(t) \in CallOrDone
  BY InCallFacts DEF Decode, Begun
<1>2. /\ status \in HostStatus
      /\ status = "OK" => /\ handle.channel \in Channel
                          /\ handle.generation \in Nat
                          /\ ~channels[h][handle.channel].faulted
  BY <1>1, AdmissionFacts DEF IInv
<1>3. CASE status # "OK"
  BY <1>1, <1>2, <1>3, RefusalTyped, PlainReturnKeeps DEF Decode
<1>4. CASE status = "OK"
  <2>1. call \in CallOrDone /\ call.host = h /\ call.channel = handle.channel
    BY <1>1, <1>2, <1>4 DEF CallOrDone
  <2>2. DecodeCandidate(t, call, ok)
    BY <1>4 DEF Decode
  <2> HIDE DEF call
  <2> QED
    BY <1>1, <1>2, <1>4, <2>1, <2>2, CandidateKeeps
<1> QED
  BY <1>3, <1>4

\* Push starts the framer if it is admitted.
LEMMA PushStep ==
    ASSUME IInv, NEW t \in Thread, NEW handle \in Handles, NEW valid \in BOOLEAN,
           NEW observer \in BOOLEAN, Push(t, handle, valid, observer)
    PROVE IInv'
<1> DEFINE h == Top(t).host
           status == DecodeAdmission(h, handle, "STREAM", valid)
           call == [Top(t) EXCEPT !.op = "PUSH", !.channel = handle.channel,
                                  !.generation = handle.generation,
                                  !.observer = observer, !.phase = "FRAMING"]
<1>1. stack[t] # << >> /\ h \in Host /\ Top(t) \in CallOrDone
  BY InCallFacts DEF Push, Begun
<1>2. /\ status \in HostStatus
      /\ status = "OK" => /\ handle.channel \in Channel
                          /\ handle.generation \in Nat
                          /\ ~channels[h][handle.channel].faulted
  BY <1>1, AdmissionFacts DEF IInv
<1>3. UNCHANGED <<alive, channels, views>>
  BY DEF Push
<1>4. CASE status # "OK"
  BY <1>1, <1>2, <1>3, <1>4, RefusalTyped, PlainReturnKeeps DEF Push
<1>5. CASE status = "OK"
  <2>1. call \in CallOrDone /\ call.host = h /\ call.channel = handle.channel
    BY <1>1, <1>2, <1>5 DEF CallOrDone
  <2>2. Resume(t, call)
    BY <1>5 DEF Push
  <2> HIDE DEF call
  <2>3. OnlyOn(h) /\ ~channels'[call.host][call.channel].faulted
    BY <1>2, <1>3, <1>5, <2>1 DEF OnlyOn
  <2>4. StackInv' /\ outcome' \in ResultType
    BY <1>1, <1>2, <1>5, <2>1, <2>2, <2>3, ResumeKeeps DEF IInv, StackInv, RestTyped
  <2>5. RestTyped'
    BY <1>3, <2>4 DEF IInv, RestTyped
  <2> QED
    BY <2>4, <2>5 DEF IInv, StackInv
<1> QED
  BY <1>4, <1>5
\* Encode delivers from its own channel, or returns.
LEMMA EncodeStep ==
    ASSUME IInv, NEW t \in Thread, NEW handle \in Handles, NEW valid \in BOOLEAN,
           NEW ok \in BOOLEAN, Encode(t, handle, valid, ok)
    PROVE IInv'
<1> DEFINE h == Top(t).host
           c == handle.channel
           status == EncodeAdmission(h, handle, valid)
           codec == BeginGuardedCall(channels[h][c].codec)
           call == [Top(t) EXCEPT !.op = "ENCODE", !.phase = "BUSINESS", !.channel = c,
                                  !.generation = handle.generation]
<1>1. stack[t] # << >> /\ h \in Host /\ Top(t) \in CallOrDone
  BY InCallFacts DEF Encode, Begun
<1>2. /\ status \in HostStatus
      /\ status = "OK" => /\ c \in Channel
                          /\ handle.generation \in Nat
                          /\ ~channels[h][c].faulted
  BY <1>1, AdmissionFacts DEF IInv
<1>3. UNCHANGED <<alive, views>>
  BY DEF Encode
<1>4. CASE status # "OK"
  BY <1>1, <1>2, <1>3, <1>4, RefusalTyped, PlainReturnKeeps DEF Encode
<1>5. CASE status = "OK"
  <2>1. channels' = WithCodec(h, c, codec)
    BY <1>5 DEF Encode
  <2>2. channels[h][c].codec \in CodecType
    BY <1>1, <1>2, <1>5 DEF IInv, RestTyped, ChannelType
  <2>3. codec \in CodecType
    BY <2>2, CodecTyped
  <2>4. call \in CallOrDone /\ call.host = h /\ call.channel = c
    BY <1>1, <1>2, <1>5 DEF CallOrDone, CallbackPhase
  <2>5. (ok /\ Resume(t, call)) \/ (~ok /\ Return(t, Refusal("CODEC_FAILED")))
    BY <1>5 DEF Encode
  <2> HIDE DEF codec, call
  <2>6. /\ channels' \in [Host -> [Channel -> ChannelType]]
        /\ ~channels'[h][c].faulted
        /\ OnlyOn(h)
    BY <1>1, <1>2, <1>5, <2>1, <2>3, WithCodecFacts DEF IInv
  <2>7. ASSUME ok, Resume(t, call)
        PROVE StackInv' /\ outcome' \in ResultType
    BY <1>1, <1>2, <1>5, <2>4, <2>6, <2>7, ResumeKeeps DEF IInv, StackInv, RestTyped
  <2>8. ASSUME ~ok, Return(t, Refusal("CODEC_FAILED"))
        PROVE StackInv' /\ outcome' \in ResultType
    <3>1. outcome' \in ResultType
      BY <2>8, RefusalTyped DEF Return, HostStatus
    <3> QED
      BY <1>1, <2>6, <2>8, <3>1, ReturnKeeps DEF IInv, StackInv
  <2>9. StackInv' /\ outcome' \in ResultType
    BY <2>5, <2>7, <2>8
  <2>10. RestTyped'
    BY <1>3, <2>6, <2>9 DEF IInv, RestTyped
  <2> QED
    BY <2>9, <2>10 DEF IInv, StackInv
<1> QED
  BY <1>4, <1>5

\* The framer of a running Push delivers, refuses or returns.
LEMMA FramerStepKeeps ==
    ASSUME IInv, NEW t \in Thread, FramerStep(t)
    PROVE IInv'
<1>1. /\ stack[t] # << >>
      /\ Top(t) \in CallType
      /\ Top(t) \in CallOrDone
      /\ Top(t).channel \in Channel
      /\ ~channels[Top(t).host][Top(t).channel].faulted
  <2>1. InPhase(t, {"FRAMING"})
    BY DEF FramerStep, FramerDelivers, FramerRefuses, FramerReturns
  <2> QED
    BY <2>1, InCallFacts
<1>2. ASSUME NEW ok \in BOOLEAN, FramerDelivers(t, ok)
      PROVE IInv'
  BY <1>1, <1>2, CandidateKeeps DEF FramerDelivers
<1>3. CASE FramerRefuses(t)
  <2>1. Refusal("FRAMING_FAILED") \in ResultType
    BY RefusalTyped DEF HostStatus
  <2>2. Return(t, Refusal("FRAMING_FAILED")) /\ UNCHANGED <<alive, channels, views>>
    BY <1>3 DEF FramerRefuses
  <2> QED
    BY <1>1, <2>1, <2>2, PlainReturnKeeps
<1>4. CASE FramerReturns(t)
  <2>1. Top(t).result \in ResultType
    BY <1>1 DEF CallType
  <2>2. Return(t, Top(t).result) /\ UNCHANGED <<alive, channels, views>>
    BY <1>4 DEF FramerReturns
  <2> QED
    BY <1>1, <2>1, <2>2, PlainReturnKeeps
<1> QED
  BY <1>2, <1>3, <1>4 DEF FramerStep

\* A callback that returns resumes its call; one that throws marks the channel
\* of that call and ends it.
LEMMA CallbackStep ==
    ASSUME IInv, NEW t \in Thread, CallbackEnds(t)
    PROVE IInv'
<1> DEFINE h == Top(t).host
           c == Top(t).channel
<1>1. /\ stack[t] # << >>
      /\ Top(t) \in CallType
      /\ Top(t) \in CallOrDone
      /\ h \in Host
      /\ c \in Channel
      /\ ~channels[h][c].faulted
  <2>1. InPhase(t, CallbackPhase)
    BY DEF CallbackEnds, ObserverReturns, BusinessReturns, CallbackThrows, InPhase, CallbackPhase
  <2>2. Top(t).phase # "ENTERED"
    BY <2>1 DEF InPhase, CallbackPhase
  <2> QED
    BY <2>1, <2>2, InCallFacts
<1>2. ASSUME NEW call \in CallOrDone, call.host = h, call.channel = c, Resume(t, call),
             UNCHANGED <<alive, channels, views>>
      PROVE IInv'
  <2>1. OnlyOn(h)
    BY <1>2 DEF OnlyOn
  <2>2. ~channels'[call.host][call.channel].faulted
    BY <1>1, <1>2
  <2>3. StackInv' /\ outcome' \in ResultType
    BY <1>1, <1>2, <2>1, <2>2, ResumeKeeps DEF IInv, StackInv, RestTyped
  <2>4. RestTyped'
    BY <1>2, <2>3 DEF IInv, RestTyped
  <2> QED
    BY <2>3, <2>4 DEF IInv, StackInv
<1>3. ASSUME NEW continue \in BOOLEAN, ObserverReturns(t, continue)
      PROVE IInv'
  BY <1>1, <1>2, <1>3, AfterFacts DEF ObserverReturns
<1>4. ASSUME NEW continue \in BOOLEAN, BusinessReturns(t, continue)
      PROVE IInv'
  <2> DEFINE counted == [Top(t) EXCEPT !.result.business_callbacks_returned = @ + 1]
  <2>1. Top(t).result \in ResultType
    BY <1>1 DEF CallType
  <2>2. [Top(t).result EXCEPT !.business_callbacks_returned = @ + 1] \in ResultType
    BY <2>1 DEF ResultType
  <2>3. counted \in CallOrDone /\ counted.host = h /\ counted.channel = c
    BY <1>1, <2>2 DEF CallOrDone
  <2>4. (Top(t).proceed /\ continue) \in BOOLEAN
    OBVIOUS
  <2>5. /\ Resume(t, AfterCandidate(counted, Top(t).proceed /\ continue))
        /\ UNCHANGED <<alive, channels, views>>
    BY <1>4 DEF BusinessReturns
  <2> HIDE DEF counted
  <2> QED
    BY <1>2, <2>3, <2>4, <2>5, AfterFacts
<1>5. CASE CallbackThrows(t)
  <2> DEFINE result == [Top(t).result EXCEPT !.status = "CALLBACK_FAILED", !.reset_required = TRUE]
             marked == [channels[h][c] EXCEPT !.faulted = TRUE]
  <2>1. /\ channels' = [channels EXCEPT ![h] = [channels[h] EXCEPT ![c] = marked]]
        /\ Return(t, result)
        /\ UNCHANGED <<alive, views>>
    BY <1>5 DEF CallbackThrows
  <2>2. result \in ResultType
    BY <1>1 DEF CallType, ResultType, HostStatus
  <2>3. marked \in ChannelType
    <3>1. channels[h][c] \in ChannelType
      BY <1>1 DEF IInv, RestTyped
    <3> QED
      BY <3>1 DEF ChannelType
  <2> HIDE DEF result, marked
  <2>4. channels' \in [Host -> [Channel -> ChannelType]] /\ OnlyOn(h)
    BY <1>1, <2>1, <2>3 DEF IInv, RestTyped, OnlyOn
  <2>5. StackInv'
    BY <1>1, <2>1, <2>4, ReturnKeeps DEF IInv, StackInv
  <2>6. RestTyped'
    BY <2>1, <2>2, <2>4 DEF IInv, RestTyped, Return
  <2> QED
    BY <2>5, <2>6 DEF IInv, StackInv
<1> QED
  BY <1>3, <1>4, <1>5 DEF CallbackEnds

\* Destroying an idle host concerns no call.
LEMMA DestroyStep ==
    ASSUME IInv, NEW h \in Host, Destroy(h)
    PROVE IInv'
<1>1. UNCHANGED <<in_use, channels, stack, outcome>>
  BY DEF Destroy
<1>2. StackTyped' /\ LeaseExclusive' /\ FaultedChannelSilent'
  BY <1>1 DEF IInv, StackTyped, LeaseExclusive, IsCallbackOwnerActive, FaultedChannelSilent
<1>3. RestTyped'
  BY <1>1 DEF IInv, RestTyped, Destroy
<1> QED
  BY <1>2, <1>3 DEF IInv

\* No thread is in a call when the hosts are created.
LEMMA InitialState == Init => IInv
<1> SUFFICES ASSUME Init PROVE IInv
  OBVIOUS
<1>1. NoResult \in ResultType
  BY RefusalTyped DEF HostStatus
<1>2. [generation |-> 1, faulted |-> FALSE, codec |-> NewCodec] \in ChannelType
  BY HostLimitsAssumption DEF ChannelType, CodecType, NewCodec
<1>3. RestTyped
  BY <1>1, <1>2 DEF Init, RestTyped
<1>4. \A t \in Thread : stack[t] = << >> /\ DOMAIN stack[t] = {}
  BY DEF Init
<1>5. StackTyped
  BY <1>4 DEF Init, StackTyped
<1>6. LeaseExclusive /\ FaultedChannelSilent
  BY <1>4 DEF Init, LeaseExclusive, FaultedChannelSilent, IsCallbackOwnerActive
<1> QED
  BY <1>3, <1>5, <1>6 DEF IInv

\* Every behaviour of the hosts keeps the inductive invariant: typed stacks,
\* exclusive leases and silent faulted channels, for any number of threads.
THEOREM Invariance == Spec => []IInv
<1>1. IInv /\ [Next]_vars => IInv'
  <2> SUFFICES ASSUME IInv, [Next]_vars PROVE IInv'
    OBVIOUS
  <2>1. ASSUME NEW t \in Thread, NEW h \in Host, Enter(t, h)
        PROVE IInv'
    BY <2>1, EnterStep
  <2>2. ASSUME NEW t \in Thread, Operation(t)
        PROVE IInv'
    <3>1. ASSUME NEW found \in BOOLEAN, Find(t, found)
          PROVE IInv'
      <4>1. NoHandle \in Handles
        BY DEF Handles
      <4> QED
        BY <3>1, <4>1, ReportStep
    <3>2. ASSUME NEW handle \in Handles, Observe(t, handle)
          PROVE IInv'
      <4>1. TRUE \in BOOLEAN
        OBVIOUS
      <4> QED
        BY <3>2, <4>1, ReportStep
    <3>3. ASSUME NEW handle \in Handles, Reset(t, handle)
          PROVE IInv'
      BY <3>3, ResetStep
    <3>4. ASSUME NEW handle \in Handles, NEW valid \in BOOLEAN, NEW observer \in BOOLEAN,
                 NEW ok \in BOOLEAN, Decode(t, handle, valid, observer, ok)
          PROVE IInv'
      BY <3>4, DecodeStep
    <3>5. ASSUME NEW handle \in Handles, NEW valid \in BOOLEAN, NEW observer \in BOOLEAN,
                 Push(t, handle, valid, observer)
          PROVE IInv'
      BY <3>5, PushStep
    <3>6. ASSUME NEW handle \in Handles, NEW valid \in BOOLEAN, NEW ok \in BOOLEAN,
                 Encode(t, handle, valid, ok)
          PROVE IInv'
      BY <3>6, EncodeStep
    <3> QED
      BY <2>2, <3>1, <3>2, <3>3, <3>4, <3>5, <3>6 DEF Operation, OperationOn
  <2>3. ASSUME NEW t \in Thread, FramerStep(t)
        PROVE IInv'
    BY <2>3, FramerStepKeeps
  <2>4. ASSUME NEW t \in Thread, CallbackEnds(t)
        PROVE IInv'
    BY <2>4, CallbackStep
  <2>5. ASSUME NEW h \in Host, Destroy(h)
        PROVE IInv'
    BY <2>5, DestroyStep
  <2>6. CASE UNCHANGED vars
    BY <2>6 DEF vars, IInv, StackTyped, RestTyped, LeaseExclusive, IsCallbackOwnerActive,
                FaultedChannelSilent
  <2> QED
    BY <2>1, <2>2, <2>3, <2>4, <2>5, <2>6 DEF Next
<1> QED
  BY <1>1, InitialState, PTL DEF Spec

\* Type correctness of HostEndpoint.
THEOREM TypeCorrect == Spec => []TypeOK
<1>1. IInv => TypeOK
  BY DEF IInv, StackTyped, RestTyped, TypeOK
<1> QED
  BY <1>1, Invariance, PTL

\* HostLease works: however threads, callbacks and hosts call each other, at
\* most one call of a host runs, and the flag is set exactly while one does.
THEOREM LeaseIsExclusive == Spec => []LeaseExclusive
<1>1. IInv => LeaseExclusive
  BY DEF IInv
<1> QED
  BY <1>1, Invariance, PTL

\* After a callback threw, neither the framer nor a callback runs on the channel
\* until Reset, on whatever thread a call was in flight.
THEOREM FaultsSilence == Spec => []FaultedChannelSilent
<1>1. IInv => FaultedChannelSilent
  BY DEF IInv
<1> QED
  BY <1>1, Invariance, PTL

-----------------------------------------------------------------------------
(* What HostEndpoint tells its callers: the results of the operations, the *)
(* record views handed to callbacks, what a callback may rely on, and the  *)
(* two refusals of a call.  The proofs follow each call through its        *)
(* candidates: between two steps of a call no other call reaches its       *)
(* channel, by the exclusive lease proved above.                           *)

\* What a result may say: lost candidates only where a callback failed.
ResultSound(r) ==
    LET lost == r.decode_successes - r.business_callbacks_returned
    IN /\ r.status = "OK" => r.decode_failures = 0 /\ lost \in {0, -1}
       /\ r.status = "CODEC_FAILED" => lost = 0 /\ ~r.reset_required
       /\ r.status = "CALLBACK_FAILED" => lost \in {0, 1} /\ r.reset_required

\* Decoded candidates that a call still has to bring to the business sink.
Owed(r) == r.decode_successes - r.business_callbacks_returned

\* The running result of a call whose callbacks all returned so far.
CountsSound(r) ==
    /\ ~r.reset_required
    /\ r.status = IF r.decode_failures = 0 THEN "OK" ELSE "CODEC_FAILED"

\* A call, the channel it is bound to, and how far it got with its candidate.
CallSound(call, channel) ==
    /\ call.phase = "ENTERED" => call.result = NoResult
    /\ call.phase # "ENTERED" =>
          /\ channel.generation = call.generation
          /\ call.op \in {"DECODE", "PUSH", "ENCODE"}
          /\ CountsSound(call.result)
    /\ call.phase = "FRAMING" => call.op = "PUSH" /\ Owed(call.result) = 0
    /\ call.phase \in CallbackPhase /\ call.op # "ENCODE" =>
          (call.decoded <=> /\ channel.codec.published
                            /\ channel.codec.generation = call.record)
    /\ call.phase = "OBSERVER" =>
          call.op # "ENCODE" /\ Owed(call.result) = IF call.decoded THEN 1 ELSE 0
    /\ call.phase = "BUSINESS" /\ call.op # "ENCODE" => call.decoded /\ Owed(call.result) = 1
    /\ call.phase = "BUSINESS" /\ call.op = "ENCODE" => call.result = NoResult

CallsSound ==
    \A t \in Thread : \A i \in DOMAIN stack[t] :
        CallSound(stack[t][i], channels[stack[t][i].host][stack[t][i].channel])

\* A view is at most as recent as its channel, and tells by its two marks
\* whether a decode or a reset came after it.
ViewMarked(v, channel) ==
    /\ v.generation <= channel.codec.generation
    /\ v.epoch <= channel.codec.view_epoch
    /\ v.generation = channel.codec.generation => v.written = channel.codec.written
    /\ v.epoch = channel.codec.view_epoch => v.channel_generation = channel.generation

ViewsMarked == \A v \in views : ViewMarked(v, channels[v.host][v.channel])

\* What the proofs of this module carry through every step.
ResultsInv == IInv /\ CallsSound /\ ViewsMarked /\ ResultSound(outcome)

-----------------------------------------------------------------------------
(***************************************************************************)
(* Calls that step, and calls that wait.                                   *)
(***************************************************************************)

\* The calls of the other hosts keep their channels.
LEMMA OthersSound ==
    ASSUME IInv, CallsSound, NEW t \in Thread, OnlyOn(Top(t).host), stack[t] # << >>,
           NEW u \in Thread, NEW i \in DOMAIN stack[u], u # t \/ i # Len(stack[t])
    PROVE  CallSound(stack[u][i], channels'[stack[u][i].host][stack[u][i].channel])
<1>1. Len(stack[t]) \in DOMAIN stack[t] /\ Top(t) = stack[t][Len(stack[t])]
  BY StackSplit DEF IInv, Top
<1>2. stack[u][i].host \in Host \ {Top(t).host}
  BY <1>1, CallsTyped DEF IInv, LeaseExclusive
<1> QED
  BY <1>2 DEF CallsSound, OnlyOn

\* A call that returns leaves the waiting calls as they were.
LEMMA ReturnSound ==
    ASSUME IInv, CallsSound, NEW t \in Thread, stack[t] # << >>, NEW result,
           Return(t, result), OnlyOn(Top(t).host)
    PROVE  CallsSound'
<1> DEFINE n == Len(stack[t])
           s == Below(t)
<1>1. /\ n \in Nat \ {0}
      /\ DOMAIN stack[t] = 1..n
      /\ DOMAIN s = 1..(n - 1)
      /\ \A i \in 1..(n - 1) : s[i] = stack[t][i]
  BY StackSplit DEF IInv
<1>2. \A u \in Thread : stack'[u] = IF u = t THEN s ELSE stack[u]
  BY DEF IInv, StackTyped, Return
<1>3. \A u \in Thread : \A i \in DOMAIN stack'[u] :
         /\ i \in DOMAIN stack[u]
         /\ stack'[u][i] = stack[u][i]
         /\ u # t \/ i # n
  <2> HIDE DEF n, s
  <2> QED
    BY <1>1, <1>2
<1> QED
  BY <1>3, OthersSound DEF CallsSound

\* A call that goes on is sound after its step.
LEMMA ReplaceSound ==
    ASSUME IInv, CallsSound, NEW t \in Thread, stack[t] # << >>, NEW call \in CallType,
           CallSound(call, channels'[call.host][call.channel]),
           stack' = [stack EXCEPT ![t] = Append(Below(t), call)], OnlyOn(Top(t).host)
    PROVE  CallsSound'
<1> DEFINE n == Len(stack[t])
           s == Append(Below(t), call)
<1>1. /\ DOMAIN s = DOMAIN stack[t]
      /\ \A i \in DOMAIN stack[t] : s[i] = IF i = n THEN call ELSE stack[t][i]
  BY TopReplaced DEF IInv
<1>2. \A u \in Thread : stack'[u] = IF u = t THEN s ELSE stack[u]
  BY DEF IInv, StackTyped
<1>3. \A u \in Thread : \A i \in DOMAIN stack'[u] :
         /\ i \in DOMAIN stack[u]
         /\ stack'[u][i] = IF u = t /\ i = n THEN call ELSE stack[u][i]
  <2> HIDE DEF n, s
  <2> TAKE u \in Thread
  <2>1. CASE u = t
    BY <1>1, <1>2, <2>1
  <2>2. CASE u # t
    BY <1>2, <2>2
  <2> QED
    BY <2>1, <2>2
<1> SUFFICES ASSUME NEW u \in Thread, NEW i \in DOMAIN stack'[u]
             PROVE  CallSound(stack'[u][i], channels'[stack'[u][i].host][stack'[u][i].channel])
  BY DEF CallsSound
<1>4. CASE u = t /\ i = n
  BY <1>3, <1>4
<1>5. CASE ~ (u = t /\ i = n)
  BY <1>3, <1>5, OthersSound
<1> QED
  BY <1>4, <1>5

\* A call goes on, or returns with a result that tells the truth.
LEMMA ResumeSound ==
    ASSUME IInv, CallsSound, ResultSound(outcome), NEW t \in Thread, stack[t] # << >>,
           NEW call \in CallOrDone, OnlyOn(Top(t).host),
           call.phase # "DONE" => CallSound(call, channels'[call.host][call.channel]),
           call.phase = "DONE" => ResultSound(call.result),
           Resume(t, call)
    PROVE  CallsSound' /\ ResultSound(outcome')
<1>1. CASE call.phase = "DONE"
  <2>1. Return(t, call.result)
    BY <1>1 DEF Resume
  <2> QED
    BY <1>1, <2>1, ReturnSound DEF Return
<1>2. CASE call.phase # "DONE"
  <2>1. call \in CallType
    BY <1>2 DEF CallOrDone, CallType
  <2>2. stack' = [stack EXCEPT ![t] = Append(Below(t), call)] /\ outcome' = outcome
    BY <1>2 DEF Resume
  <2> QED
    BY <1>2, <2>1, <2>2, ReplaceSound
<1> QED
  BY <1>1, <1>2

\* Refusals lose nothing.
LEMMA RefusalSound ==
    ASSUME NEW status \in HostStatus, status # "CALLBACK_FAILED"
    PROVE  ResultSound(Refusal(status)) /\ ResultSound(NoResult)
<1>1. /\ Refusal(status).status = status
      /\ Refusal(status).decode_successes = 0 /\ Refusal(status).decode_failures = 0
      /\ Refusal(status).business_callbacks_returned = 0
      /\ status = "CODEC_FAILED" => ~ Refusal(status).reset_required
  BY DEF Refusal, NoResult
<1> QED
  BY <1>1 DEF ResultSound, NoResult

-----------------------------------------------------------------------------
(***************************************************************************)
(* A candidate, from its decode to the end of its business callback.       *)
(***************************************************************************)

\* The call is through with a candidate and owes the sink nothing.
Settled(call, channel) ==
    /\ channel.generation = call.generation
    /\ call.op \in {"DECODE", "PUSH"}
    /\ CountsSound(call.result)
    /\ Owed(call.result) = 0

\* After a candidate the framer goes on, or the call ends with a sound result.
LEMMA AfterCandidateSound ==
    ASSUME NEW call \in CallOrDone, NEW channel \in ChannelType, NEW continue \in BOOLEAN,
           Settled(call, channel)
    PROVE  LET next == AfterCandidate(call, continue)
           IN /\ next.phase # "DONE" => CallSound(next, channel)
              /\ next.phase = "DONE" => ResultSound(next.result)
<1> DEFINE next == AfterCandidate(call, continue)
<1>1. /\ next.phase \in {"FRAMING", "DONE"}
      /\ next.phase = "FRAMING" => call.op = "PUSH"
      /\ next.op = call.op /\ next.result = call.result /\ next.generation = call.generation
  BY DEF AfterCandidate, CallOrDone
<1>2. call.result \in ResultType
  BY DEF CallOrDone
<1> HIDE DEF next
<1>3. next.phase = "FRAMING" => CallSound(next, channel)
  BY <1>1 DEF CallSound, Settled, CallbackPhase
<1>4. ResultSound(next.result)
  BY <1>1, <1>2 DEF ResultSound, Settled, CountsSound, Owed, ResultType
<1> QED
  BY <1>1, <1>3, <1>4 DEF next

\* The decoded candidate waits for its callbacks.
Decoding(call, channel) ==
    /\ channel.generation = call.generation
    /\ call.op \in {"DECODE", "PUSH"}
    /\ CountsSound(call.result)
    /\ Owed(call.result) = IF call.decoded THEN 1 ELSE 0
    /\ call.decoded <=> channel.codec.published /\ channel.codec.generation = call.record

\* After the observer the decoded record goes to the sink, whatever it returned.
LEMMA AfterObserverSound ==
    ASSUME NEW call \in CallOrDone, NEW channel \in ChannelType, NEW continue \in BOOLEAN,
           Decoding(call, channel)
    PROVE  LET next == AfterObserver(call, continue)
           IN /\ next.phase # "DONE" => CallSound(next, channel)
              /\ next.phase = "DONE" => ResultSound(next.result)
<1>1. CASE call.decoded
  <2> DEFINE next == AfterObserver(call, continue)
  <2>1. /\ next.phase = "BUSINESS" /\ next.op = call.op /\ next.result = call.result
        /\ next.generation = call.generation /\ next.decoded = call.decoded
        /\ next.record = call.record
    BY <1>1 DEF AfterObserver, CallOrDone
  <2> HIDE DEF next
  <2>2. CallSound(next, channel)
    BY <1>1, <2>1 DEF CallSound, Decoding, CallbackPhase
  <2> QED
    BY <2>1, <2>2 DEF next
<1>2. CASE ~ call.decoded
  <2>1. Settled(call, channel)
    BY <1>2 DEF Settled, Decoding
  <2>2. AfterObserver(call, continue) = AfterCandidate(call, continue)
    BY <1>2 DEF AfterObserver
  <2> QED
    BY <2>1, <2>2, AfterCandidateSound
<1> QED
  BY <1>1, <1>2 DEF CallOrDone

-----------------------------------------------------------------------------
(***************************************************************************)
(* Channels and the views of their records.                                *)
(***************************************************************************)

\* How a channel changes: not, by a guarded call of its codec, or by a reset.
\* The first two leave the fault flag open.
Moved(old, new) ==
    \/ new.codec = old.codec /\ new.generation = old.generation
    \/ /\ new.codec.generation > old.codec.generation
       /\ new.codec.view_epoch = old.codec.view_epoch
       /\ new.generation = old.generation
    \/ /\ new.codec.generation = old.codec.generation
       /\ new.codec.written = old.codec.written
       /\ new.codec.view_epoch > old.codec.view_epoch

\* A view that was marked stays marked when its channel changes.
LEMMA MarkedMoves ==
    ASSUME NEW v \in ViewType, NEW old \in ChannelType, NEW new \in ChannelType,
           ViewMarked(v, old), Moved(old, new)
    PROVE  ViewMarked(v, new)
<1>1. /\ v.generation \in Nat /\ v.epoch \in Nat
      /\ old.codec.generation \in Nat /\ old.codec.view_epoch \in Nat
      /\ new.codec.generation \in Nat /\ new.codec.view_epoch \in Nat
  BY DEF ViewType, ChannelType, CodecType
<1> QED
  BY <1>1 DEF ViewMarked, Moved

\* The views stay marked if every channel moves and new views are marked.
LEMMA ViewsKept ==
    ASSUME RestTyped, RestTyped', ViewsMarked,
           \A h \in Host, c \in Channel : Moved(channels[h][c], channels'[h][c]),
           \A v \in views' : v \in views \/ ViewMarked(v, channels'[v.host][v.channel])
    PROVE  ViewsMarked'
<1> SUFFICES ASSUME NEW v \in views' PROVE ViewMarked(v, channels'[v.host][v.channel])
  BY DEF ViewsMarked
<1>1. v \in ViewType /\ v.host \in Host /\ v.channel \in Channel
  BY DEF RestTyped, ViewType
<1>2. /\ channels[v.host][v.channel] \in ChannelType
      /\ channels'[v.host][v.channel] \in ChannelType
  BY <1>1 DEF RestTyped
<1>3. CASE v \in views
  BY <1>1, <1>2, <1>3, MarkedMoves DEF ViewsMarked
<1> QED
  BY <1>3

\* A step that changes no channel and shows no new view.
LEMMA ViewsUntouched ==
    ASSUME RestTyped, ViewsMarked, UNCHANGED channels, views' \subseteq views
    PROVE  ViewsMarked'
  BY DEF ViewsMarked

\* What a guarded call and a decode do to the codec.
LEMMA CodecMoves ==
    ASSUME NEW k \in CodecType, NEW ok \in BOOLEAN
    PROVE  /\ BeginGuardedCall(k).generation = k.generation + 1
           /\ BeginGuardedCall(k).view_epoch = k.view_epoch
           /\ CodecDecode(k, ok).generation = k.generation + 1
           /\ CodecDecode(k, ok).view_epoch = k.view_epoch
           /\ CodecDecode(k, ok).published = ok
           /\ AdvanceViewEpoch(k).generation = k.generation
           /\ AdvanceViewEpoch(k).written = k.written
           /\ AdvanceViewEpoch(k).view_epoch = k.view_epoch + 1
<1>1. AdvanceViewEpoch(k) = [k EXCEPT !.view_epoch = k.view_epoch + 1]
  BY DEF AdvanceViewEpoch
<1>2. BeginGuardedCall(k) = [generation |-> k.generation + 1, published |-> FALSE,
                             view_epoch |-> k.view_epoch, written |-> k.written]
  BY DEF BeginGuardedCall
<1> DEFINE begun == BeginGuardedCall(k)
<1>b. /\ begun.generation = k.generation + 1 /\ begun.view_epoch = k.view_epoch
      /\ begun.published = FALSE
  BY <1>2
<1>3. /\ CodecDecode(k, ok).generation = begun.generation
      /\ CodecDecode(k, ok).view_epoch = begun.view_epoch
      /\ CodecDecode(k, ok).published = (ok \/ begun.published)
  BY DEF CodecDecode
<1> HIDE DEF begun
<1>p. CodecDecode(k, ok).published = ok
  BY <1>b, <1>3
<1>4. AdvanceViewEpoch(k).generation = k.generation
  BY <1>1 DEF CodecType
<1>5. AdvanceViewEpoch(k).written = k.written
  BY <1>1 DEF CodecType
<1>6. AdvanceViewEpoch(k).view_epoch = k.view_epoch + 1
  BY <1>1 DEF CodecType
<1> QED
  BY <1>b, <1>3, <1>p, <1>4, <1>5, <1>6 DEF begun

\* A new codec state replaces that of one channel, and nothing else.
LEMMA WithCodecMoves ==
    ASSUME RestTyped, NEW h \in Host, NEW c \in Channel, NEW codec \in CodecType,
           channels' = WithCodec(h, c, codec)
    PROVE  /\ channels'[h][c].codec = codec
           /\ channels'[h][c].generation = channels[h][c].generation
           /\ \A g \in Host, d \in Channel :
                 g # h \/ d # c => channels'[g][d] = channels[g][d]
<1>1. channels[h][c] \in ChannelType
  BY DEF RestTyped
<1>2. channels' = [channels EXCEPT ![h] = [channels[h] EXCEPT ![c] =
                       [channels[h][c] EXCEPT !.codec = codec]]]
  BY DEF WithCodec
<1>3. channels'[h][c] = [channels[h][c] EXCEPT !.codec = codec]
  BY <1>2 DEF RestTyped
<1>4. \A g \in Host, d \in Channel : g # h \/ d # c => channels'[g][d] = channels[g][d]
  BY <1>2 DEF RestTyped
<1> QED
  BY <1>1, <1>3, <1>4 DEF ChannelType

\* A guarded call moves its channel and leaves the others alone.
LEMMA GuardedCallMoves ==
    ASSUME RestTyped, NEW h \in Host, NEW c \in Channel, NEW codec \in CodecType,
           channels' = WithCodec(h, c, codec),
           codec.generation = channels[h][c].codec.generation + 1,
           codec.view_epoch = channels[h][c].codec.view_epoch
    PROVE  \A g \in Host, d \in Channel : Moved(channels[g][d], channels'[g][d])
<1>1. channels[h][c].codec.generation \in Nat
  BY DEF RestTyped, ChannelType, CodecType
<1> QED
  BY <1>1, WithCodecMoves DEF Moved

-----------------------------------------------------------------------------
(***************************************************************************)
(* The steps.                                                              *)
(***************************************************************************)

\* A return that touches no channel.
LEMMA PlainReturnSound ==
    ASSUME ResultsInv, NEW t \in Thread, stack[t] # << >>, NEW result, ResultSound(result),
           Return(t, result), UNCHANGED <<channels, views>>
    PROVE  CallsSound' /\ ViewsMarked' /\ ResultSound(outcome')
<1>1. OnlyOn(Top(t).host)
  BY DEF OnlyOn
<1>2. CallsSound'
  BY <1>1, ReturnSound DEF ResultsInv
<1>3. ViewsMarked'
  BY ViewsUntouched DEF ResultsInv, IInv
<1> QED
  BY <1>2, <1>3 DEF Return

\* One candidate: the record is published exactly if the decode succeeded.
LEMMA CandidateSound ==
    ASSUME ResultsInv, IInv', NEW t \in Thread, stack[t] # << >>, NEW call \in CallOrDone,
           call.host = Top(t).host, call.channel \in Channel,
           Settled(call, channels[call.host][call.channel]),
           NEW ok \in BOOLEAN, DecodeCandidate(t, call, ok)
    PROVE  CallsSound' /\ ViewsMarked' /\ ResultSound(outcome')
<1> DEFINE h == call.host
           c == call.channel
           codec == CodecDecode(channels[h][c].codec, ok)
           result == [call.result EXCEPT
                         !.decode_successes = @ + IF ok THEN 1 ELSE 0,
                         !.decode_failures = @ + IF ok THEN 0 ELSE 1,
                         !.status = IF ~ok /\ @ = "OK" THEN "CODEC_FAILED" ELSE @]
           counted == [call EXCEPT !.decoded = ok,
                                   !.record = codec.generation,
                                   !.proceed = TRUE,
                                   !.result.decode_successes = @ + IF ok THEN 1 ELSE 0,
                                   !.result.decode_failures = @ + IF ok THEN 0 ELSE 1,
                                   !.result.status =
                                       IF ~ok /\ @ = "OK" THEN "CODEC_FAILED" ELSE @]
           next == IF call.observer THEN [counted EXCEPT !.phase = "OBSERVER"]
                   ELSE AfterObserver(counted, TRUE)
<1>1. h \in Host /\ call.result \in ResultType
  BY DEF CallOrDone
<1>2. channels[h][c] \in ChannelType /\ channels[h][c].codec \in CodecType
  BY <1>1 DEF ResultsInv, IInv, RestTyped, ChannelType
<1>3. /\ codec \in CodecType
      /\ codec.generation = channels[h][c].codec.generation + 1
      /\ codec.view_epoch = channels[h][c].codec.view_epoch
      /\ codec.published = ok
  BY <1>2, CodecTyped, CodecMoves
<1>4. /\ channels' = WithCodec(h, c, codec)
      /\ views' = IF ok THEN views \cup {ViewOf(h, c, codec)} ELSE views
      /\ Resume(t, next)
  BY DEF DecodeCandidate
<1> HIDE DEF codec
<1>r. RestTyped /\ RestTyped'
  BY DEF ResultsInv, IInv
<1>5. /\ channels'[h][c].codec = codec
      /\ channels'[h][c].generation = channels[h][c].generation
      /\ channels'[h][c] \in ChannelType
      /\ OnlyOn(h)
  <2>1. channels' = WithCodec(h, c, codec) /\ codec \in CodecType
    BY <1>3, <1>4
  <2> HIDE DEF counted, result, next
  <2>2. /\ channels'[h][c].codec = codec
        /\ channels'[h][c].generation = channels[h][c].generation
    BY <1>1, <1>r, <2>1, WithCodecMoves
  <2>3. OnlyOn(h)
    BY <1>1, <1>r, <2>1, WithCodecFacts
  <2>4. channels'[h][c] \in ChannelType
    BY <1>1, <1>r DEF RestTyped
  <2> QED
    BY <2>2, <2>3, <2>4
<1>6. ViewsMarked'
  <2>1. \A g \in Host, d \in Channel : Moved(channels[g][d], channels'[g][d])
    BY <1>1, <1>3, <1>4, GuardedCallMoves DEF ResultsInv, IInv
  <2> DEFINE view == ViewOf(h, c, codec)
  <2>2. ViewMarked(view, channels'[view.host][view.channel])
    <3>1. /\ view.host = h /\ view.channel = c /\ view.epoch = codec.view_epoch
          /\ view.generation = codec.generation /\ view.written = codec.written
          /\ view.channel_generation = channels[h][c].generation
      BY DEF ViewOf
    <3> HIDE DEF view
    <3>2. codec.generation \in Nat /\ codec.view_epoch \in Nat
      BY <1>3 DEF CodecType
    <3> QED
      BY <3>1, <3>2, <1>5 DEF ViewMarked
  <2> HIDE DEF view
  <2>3. \A v \in views' : v \in views \/ v = view
    BY <1>4 DEF view
  <2> QED
    BY <2>1, <2>2, <2>3, ViewsKept DEF ResultsInv, IInv
<1>7. counted \in CallOrDone /\ Decoding(counted, channels'[h][c])
  <2>1. /\ result \in ResultType
        /\ result.business_callbacks_returned = call.result.business_callbacks_returned
        /\ result.reset_required = call.result.reset_required
        /\ result.decode_successes = call.result.decode_successes + IF ok THEN 1 ELSE 0
        /\ result.decode_failures = call.result.decode_failures + IF ok THEN 0 ELSE 1
        /\ result.status = IF ~ok /\ call.result.status = "OK" THEN "CODEC_FAILED"
                           ELSE call.result.status
    <3>1. /\ call.result.decode_successes + (IF ok THEN 1 ELSE 0) \in Nat
          /\ call.result.decode_failures + (IF ok THEN 0 ELSE 1) \in Nat
      BY <1>1 DEF ResultType
    <3>2. (IF ~ok /\ call.result.status = "OK" THEN "CODEC_FAILED" ELSE call.result.status)
          \in HostStatus
      BY <1>1 DEF ResultType, HostStatus
    <3> QED
      BY <1>1, <3>1, <3>2 DEF ResultType
  <2>2. counted = [call EXCEPT !.decoded = ok, !.record = codec.generation, !.proceed = TRUE,
                               !.result = result]
    BY <1>1 DEF CallOrDone, ResultType
  <2> HIDE DEF result
  <2>c. codec.generation \in Nat
    BY <1>3 DEF CodecType
  <2> DEFINE fresh == [call EXCEPT !.decoded = ok, !.record = codec.generation,
                                   !.proceed = TRUE, !.result = result]
  <2>f. /\ fresh \in CallOrDone
        /\ fresh.generation = call.generation /\ fresh.op = call.op
        /\ fresh.decoded = ok /\ fresh.record = codec.generation
        /\ fresh.result = result
    BY <2>c, <2>1 DEF CallOrDone
  <2> HIDE DEF fresh
  <2>3. /\ counted \in CallOrDone
        /\ counted.generation = call.generation /\ counted.op = call.op
        /\ counted.decoded = ok /\ counted.record = codec.generation
        /\ counted.result = result
    BY <2>2, <2>f DEF fresh
  <2> HIDE DEF counted
  <2>4. CountsSound(result)
    <3>1. CountsSound(call.result)
      BY DEF Settled
    <3>2. CASE ok
      BY <1>1, <2>1, <3>1, <3>2 DEF CountsSound, ResultType
    <3>3. CASE ~ok
      BY <1>1, <2>1, <3>1, <3>3 DEF CountsSound, ResultType
    <3> QED
      BY <3>2, <3>3
  <2>5. Owed(result) = IF ok THEN 1 ELSE 0
    BY <1>1, <2>1 DEF Owed, Settled, ResultType
  <2> QED
    BY <1>3, <1>5, <2>3, <2>4, <2>5 DEF Decoding, Settled
<1>n. counted.host = h /\ counted.channel = c
  BY DEF CallOrDone
<1> HIDE DEF counted
<1>8. /\ next \in CallOrDone /\ next.host = h /\ next.channel = c
      /\ next.phase # "DONE" => CallSound(next, channels'[h][c])
      /\ next.phase = "DONE" => ResultSound(next.result)
  <2>1. CASE call.observer
    <3>1. /\ next \in CallOrDone /\ next.host = h /\ next.channel = c /\ next.phase = "OBSERVER"
          /\ next.op = counted.op /\ next.result = counted.result
          /\ next.generation = counted.generation /\ next.decoded = counted.decoded
          /\ next.record = counted.record
      BY <2>1, <1>7, <1>n DEF CallOrDone, CallbackPhase
    <3> HIDE DEF next
    <3> QED
      BY <3>1, <1>7 DEF CallSound, Decoding, CallbackPhase
  <2>2. CASE ~ call.observer
    BY <2>2, <1>5, <1>7, <1>n, AfterFacts, AfterObserverSound
  <2> QED
    BY <2>1, <2>2
<1> HIDE DEF next
<1>9. CallsSound' /\ ResultSound(outcome')
  BY <1>4, <1>5, <1>8, ResumeSound DEF ResultsInv
<1> QED
  BY <1>6, <1>9

\* What the innermost call of a thread says of its channel.
LEMMA CurrentSound ==
    ASSUME IInv, CallsSound, NEW t \in Thread, stack[t] # << >>
    PROVE  CallSound(Top(t), channels[Top(t).host][Top(t).channel])
<1>1. Len(stack[t]) \in DOMAIN stack[t] /\ Top(t) = stack[t][Len(stack[t])]
  BY StackSplit DEF IInv, Top
<1> QED
  BY <1>1 DEF CallsSound

\* A step that leaves the stacks and the channels alone.
LEMMA CallsUntouched ==
    ASSUME CallsSound, UNCHANGED <<stack, channels>>
    PROVE  CallsSound'
  BY DEF CallsSound

\* Enter: a refused call changes nothing, an entered one has no result yet.
LEMMA EnterSound ==
    ASSUME ResultsInv, NEW t \in Thread, NEW h \in Host, Enter(t, h)
    PROVE  CallsSound' /\ ViewsMarked' /\ ResultSound(outcome')
<1>1. UNCHANGED <<channels, views>>
  BY DEF Enter
<1>2. ViewsMarked'
  BY <1>1, ViewsUntouched DEF ResultsInv, IInv
<1>3. ResultSound(Refusal("REENTRANT_CALL")) /\ ResultSound(Refusal("WORKSPACE_BUSY"))
  BY RefusalSound DEF HostStatus
<1>4. CASE UNCHANGED stack
  <2>1. CallsSound'
    BY <1>1, <1>4, CallsUntouched DEF ResultsInv
  <2>2. ResultSound(outcome')
    BY <1>3 DEF Enter, ResultsInv
  <2> QED
    BY <1>2, <2>1, <2>2
<1>5. CASE stack' = [stack EXCEPT ![t] = Append(@, EnteredCall(h))] /\ UNCHANGED outcome
  <2> DEFINE n == Len(stack[t])
             call == EnteredCall(h)
             s == Append(stack[t], call)
  <2>1. call.phase = "ENTERED" /\ call.result = NoResult
    BY DEF EnteredCall
  <2>2. stack[t] \in Seq(CallType) /\ n \in Nat
    BY DEF ResultsInv, IInv, StackTyped
  <2> HIDE DEF call
  <2>3. /\ DOMAIN s = 1..(n + 1) /\ DOMAIN stack[t] = 1..n
        /\ \A i \in 1..n : s[i] = stack[t][i]
        /\ s[n + 1] = call
    BY <2>2
  <2>4. \A u \in Thread : stack'[u] = IF u = t THEN s ELSE stack[u]
    BY <1>5 DEF ResultsInv, IInv, StackTyped, call
  <2> HIDE DEF s, n
  <2>5. ASSUME NEW u \in Thread, NEW i \in DOMAIN stack'[u]
        PROVE  stack'[u][i] = call \/ (i \in DOMAIN stack[u] /\ stack'[u][i] = stack[u][i])
    BY <2>2, <2>3, <2>4, <2>5
  <2>6. \A channel : CallSound(call, channel)
    BY <2>1 DEF CallSound, CallbackPhase
  <2>7. CallsSound'
    BY <1>1, <2>5, <2>6 DEF CallsSound, ResultsInv
  <2> QED
    BY <1>2, <1>5, <2>7 DEF ResultsInv
<1> QED
  BY <1>4, <1>5 DEF Enter

\* Admission never speaks for a codec or for a callback.
LEMMA AdmissionStatus ==
    ASSUME NEW h \in Host, NEW handle \in Handles, NEW valid \in BOOLEAN, NEW kind
    PROVE  /\ Resolve(h, handle) \notin {"CODEC_FAILED", "CALLBACK_FAILED"}
           /\ DecodeAdmission(h, handle, kind, valid) # "CALLBACK_FAILED"
           /\ EncodeAdmission(h, handle, valid) # "CALLBACK_FAILED"
           /\ Resolve(h, handle) = "OK" =>
                handle.generation = channels[h][handle.channel].generation
           /\ DecodeAdmission(h, handle, kind, valid) = "OK" => Resolve(h, handle) = "OK"
           /\ EncodeAdmission(h, handle, valid) = "OK" => Resolve(h, handle) = "OK"
<1>1. /\ Resolve(h, handle) \notin {"CODEC_FAILED", "CALLBACK_FAILED"}
      /\ Resolve(h, handle) = "OK" =>
           handle.generation = channels[h][handle.channel].generation
  BY DEF Resolve
<1> QED
  BY <1>1 DEF DecodeAdmission, EncodeAdmission

\* Find and Observe report.
LEMMA ReportSound ==
    ASSUME ResultsInv, NEW t \in Thread, NEW handle \in Handles, NEW found \in BOOLEAN,
           Find(t, found) \/ Observe(t, handle)
    PROVE  CallsSound' /\ ViewsMarked' /\ ResultSound(outcome')
<1>i. IInv
  BY DEF ResultsInv
<1>1. CASE Find(t, found)
  <2>1. ResultSound(Refusal(IF found THEN "OK" ELSE "INVALID_BINDING"))
    BY RefusalSound DEF HostStatus
  <2>2. stack[t] # << >>
    BY <1>1, <1>i, InCallFacts DEF Find, Begun
  <2> QED
    BY <1>1, <2>1, <2>2, PlainReturnSound DEF Find
<1>2. CASE Observe(t, handle)
  <2> DEFINE status == Resolve(Top(t).host, handle)
             required == status = "OK" /\ channels[Top(t).host][handle.channel].faulted
             result == [NoResult EXCEPT !.status = status, !.reset_required = required]
  <2>1. stack[t] # << >> /\ Top(t).host \in Host
    BY <1>2, <1>i, InCallFacts DEF Observe, Begun
  <2>2. status \notin {"CODEC_FAILED", "CALLBACK_FAILED"}
    BY <2>1, AdmissionStatus
  <2>3. /\ Return(t, result)
        /\ UNCHANGED <<channels, views>>
    BY <1>2 DEF Observe
  <2> HIDE DEF required, status
  <2>4. ResultSound(result)
    BY <2>2 DEF NoResult, ResultSound
  <2> HIDE DEF result
  <2> QED
    BY <2>1, <2>3, <2>4, PlainReturnSound
<1> QED
  BY <1>1, <1>2

\* Reset: the views of the channel lose their epoch before its generation moves.
LEMMA ResetSound ==
    ASSUME ResultsInv, IInv', NEW t \in Thread, NEW handle \in Handles, Reset(t, handle)
    PROVE  CallsSound' /\ ViewsMarked' /\ ResultSound(outcome')
<1> DEFINE h == Top(t).host
           c == handle.channel
           status == Resolve(h, handle)
<1>i. IInv /\ RestTyped /\ RestTyped'
  BY DEF ResultsInv, IInv
<1>1. stack[t] # << >> /\ h \in Host
  BY <1>i, InCallFacts DEF Reset, Begun
<1>2. status \in HostStatus /\ (status = "OK" => c \in Channel) /\ status # "CALLBACK_FAILED"
  BY <1>i, <1>1, HandleFacts, AdmissionStatus
<1>3. UNCHANGED views
  BY DEF Reset
<1>4. CASE status # "OK"
  BY <1>1, <1>2, <1>3, <1>4, RefusalSound, PlainReturnSound DEF Reset
<1>5. CASE status = "OK" /\ channels[h][c].generation = MaxGeneration
  <2>1. ResultSound(Refusal("GENERATION_EXHAUSTED"))
    BY RefusalSound DEF HostStatus
  <2> QED
    BY <1>1, <1>3, <1>5, <2>1, PlainReturnSound DEF Reset
<1>6. CASE status = "OK" /\ channels[h][c].generation # MaxGeneration
  <2> DEFINE codec == channels[h][c].codec
             fresh == [generation |-> channels[h][c].generation + 1, faulted |-> FALSE,
                       codec |-> AdvanceViewEpoch(codec)]
  <2>1. /\ Return(t, NoResult)
        /\ channels' = [channels EXCEPT ![h] = [channels[h] EXCEPT ![c] = fresh]]
    BY <1>6 DEF Reset
  <2>2. codec \in CodecType
    BY <1>i, <1>1, <1>2, <1>6 DEF RestTyped, ChannelType
  <2>3. Moved(channels[h][c], fresh)
    <3>1. /\ AdvanceViewEpoch(codec).generation = codec.generation
          /\ AdvanceViewEpoch(codec).written = codec.written
          /\ AdvanceViewEpoch(codec).view_epoch = codec.view_epoch + 1
      BY <2>2, CodecMoves
    <3>2. codec.view_epoch \in Nat
      BY <2>2 DEF CodecType
    <3> QED
      BY <3>1, <3>2 DEF Moved
  <2> HIDE DEF fresh
  <2>4. \A g \in Host, d \in Channel :
           channels'[g][d] = IF g = h /\ d = c THEN fresh ELSE channels[g][d]
    BY <1>i, <1>1, <2>1 DEF RestTyped
  <2>5. OnlyOn(h)
    BY <1>i, <2>1 DEF RestTyped, OnlyOn
  <2>6. ASSUME NEW g \in Host, NEW d \in Channel
        PROVE  Moved(channels[g][d], channels'[g][d])
    <3>1. Moved(channels[g][d], channels[g][d])
      BY DEF Moved
    <3> QED
      BY <2>3, <2>4, <3>1
  <2>7. ViewsMarked'
    BY <1>i, <1>3, <2>6, ViewsKept DEF ResultsInv
  <2>8. CallsSound'
    BY <1>i, <1>1, <2>1, <2>5, ReturnSound DEF ResultsInv
  <2>9. ResultSound(outcome')
    BY <2>1, RefusalSound DEF Return, HostStatus
  <2> QED
    BY <2>7, <2>8, <2>9
<1> QED
  BY <1>4, <1>5, <1>6

\* Decode: an admitted call starts its one candidate with a current handle.
LEMMA DecodeSound ==
    ASSUME ResultsInv, IInv', NEW t \in Thread, NEW handle \in Handles, NEW valid \in BOOLEAN,
           NEW observer \in BOOLEAN, NEW ok \in BOOLEAN,
           Decode(t, handle, valid, observer, ok)
    PROVE  CallsSound' /\ ViewsMarked' /\ ResultSound(outcome')
<1> DEFINE h == Top(t).host
           c == handle.channel
           status == DecodeAdmission(h, handle, "RECORD", valid)
           call == [Top(t) EXCEPT !.op = "DECODE", !.channel = handle.channel,
                                  !.generation = handle.generation, !.observer = observer]
<1>i. IInv /\ RestTyped
  BY DEF ResultsInv, IInv
<1>1. /\ stack[t] # << >> /\ h \in Host /\ Top(t) \in CallOrDone
      /\ Top(t).phase = "ENTERED"
  BY <1>i, InCallFacts DEF Decode, Begun
<1>2. /\ status \in HostStatus /\ status # "CALLBACK_FAILED"
      /\ status = "OK" => /\ c \in Channel
                          /\ handle.generation \in Nat
                          /\ handle.generation = channels[h][c].generation
  BY <1>i, <1>1, AdmissionFacts, AdmissionStatus
<1>3. CASE status # "OK"
  BY <1>1, <1>2, <1>3, RefusalSound, PlainReturnSound DEF Decode
<1>4. CASE status = "OK"
  <2>1. /\ call \in CallOrDone /\ call.host = h /\ call.channel = c /\ call.op = "DECODE"
        /\ call.generation = handle.generation /\ call.result = Top(t).result
    BY <1>1, <1>2, <1>4 DEF CallOrDone
  <2>2. DecodeCandidate(t, call, ok)
    BY <1>4 DEF Decode
  <2> HIDE DEF call
  <2>3. Top(t).result = NoResult
    BY <1>i, <1>1, CurrentSound DEF CallSound, ResultsInv
  <2>4. Settled(call, channels[call.host][call.channel])
    BY <1>2, <1>4, <2>1, <2>3 DEF Settled, CountsSound, Owed, NoResult
  <2> QED
    BY <1>1, <1>2, <1>4, <2>1, <2>2, <2>4, CandidateSound
<1> QED
  BY <1>3, <1>4

\* Push: an admitted call starts the framer with nothing owed.
LEMMA PushSound ==
    ASSUME ResultsInv, NEW t \in Thread, NEW handle \in Handles, NEW valid \in BOOLEAN,
           NEW observer \in BOOLEAN, Push(t, handle, valid, observer)
    PROVE  CallsSound' /\ ViewsMarked' /\ ResultSound(outcome')
<1> DEFINE h == Top(t).host
           c == handle.channel
           status == DecodeAdmission(h, handle, "STREAM", valid)
           call == [Top(t) EXCEPT !.op = "PUSH", !.channel = handle.channel,
                                  !.generation = handle.generation,
                                  !.observer = observer, !.phase = "FRAMING"]
<1>i. IInv /\ RestTyped
  BY DEF ResultsInv, IInv
<1>1. /\ stack[t] # << >> /\ h \in Host /\ Top(t) \in CallOrDone
      /\ Top(t).phase = "ENTERED"
  BY <1>i, InCallFacts DEF Push, Begun
<1>2. /\ status \in HostStatus /\ status # "CALLBACK_FAILED"
      /\ status = "OK" => /\ c \in Channel
                          /\ handle.generation \in Nat
                          /\ handle.generation = channels[h][c].generation
  BY <1>i, <1>1, AdmissionFacts, AdmissionStatus
<1>3. UNCHANGED <<channels, views>>
  BY DEF Push
<1>4. CASE status # "OK"
  BY <1>1, <1>2, <1>3, <1>4, RefusalSound, PlainReturnSound DEF Push
<1>5. CASE status = "OK"
  <2>1. /\ call \in CallOrDone /\ call.host = h /\ call.channel = c /\ call.op = "PUSH"
        /\ call.generation = handle.generation /\ call.result = Top(t).result
        /\ call.phase = "FRAMING"
    BY <1>1, <1>2, <1>5 DEF CallOrDone
  <2>2. Resume(t, call)
    BY <1>5 DEF Push
  <2> HIDE DEF call
  <2>3. Top(t).result = NoResult
    BY <1>i, <1>1, CurrentSound DEF CallSound, ResultsInv
  <2>4. CallSound(call, channels'[call.host][call.channel])
    BY <1>2, <1>3, <1>5, <2>1, <2>3 DEF CallSound, CountsSound, Owed, NoResult, CallbackPhase
  <2>5. OnlyOn(h)
    BY <1>3 DEF OnlyOn
  <2>6. CallsSound' /\ ResultSound(outcome')
    BY <1>i, <1>1, <2>1, <2>2, <2>4, <2>5, ResumeSound DEF ResultsInv
  <2>7. ViewsMarked'
    BY <1>i, <1>3, ViewsUntouched DEF ResultsInv
  <2> QED
    BY <2>6, <2>7
<1> QED
  BY <1>4, <1>5

\* Encode: the record of a guarded call is delivered, or the codec refuses it.
LEMMA EncodeSound ==
    ASSUME ResultsInv, IInv', NEW t \in Thread, NEW handle \in Handles, NEW valid \in BOOLEAN,
           NEW ok \in BOOLEAN, Encode(t, handle, valid, ok)
    PROVE  CallsSound' /\ ViewsMarked' /\ ResultSound(outcome')
<1> DEFINE h == Top(t).host
           c == handle.channel
           status == EncodeAdmission(h, handle, valid)
           codec == BeginGuardedCall(channels[h][c].codec)
           call == [Top(t) EXCEPT !.op = "ENCODE", !.phase = "BUSINESS", !.channel = c,
                                  !.generation = handle.generation]
<1>i. IInv /\ RestTyped /\ RestTyped'
  BY DEF ResultsInv, IInv
<1>1. /\ stack[t] # << >> /\ h \in Host /\ Top(t) \in CallOrDone
      /\ Top(t).phase = "ENTERED"
  BY <1>i, InCallFacts DEF Encode, Begun
<1>2. /\ status \in HostStatus /\ status # "CALLBACK_FAILED"
      /\ status = "OK" => /\ c \in Channel
                          /\ handle.generation \in Nat
                          /\ handle.generation = channels[h][c].generation
  BY <1>i, <1>1, AdmissionFacts, AdmissionStatus
<1>3. UNCHANGED views
  BY DEF Encode
<1>4. CASE status # "OK"
  BY <1>1, <1>2, <1>3, <1>4, RefusalSound, PlainReturnSound DEF Encode
<1>5. CASE status = "OK"
  <2>1. channels' = WithCodec(h, c, codec)
    BY <1>5 DEF Encode
  <2>2. channels[h][c].codec \in CodecType
    BY <1>i, <1>1, <1>2, <1>5 DEF RestTyped, ChannelType
  <2>3. /\ codec \in CodecType
        /\ codec.generation = channels[h][c].codec.generation + 1
        /\ codec.view_epoch = channels[h][c].codec.view_epoch
    BY <2>2, CodecTyped, CodecMoves
  <2>4. /\ call \in CallOrDone /\ call.host = h /\ call.channel = c /\ call.op = "ENCODE"
        /\ call.generation = handle.generation /\ call.result = Top(t).result
        /\ call.phase = "BUSINESS"
    BY <1>1, <1>2, <1>5 DEF CallOrDone, CallbackPhase
  <2>5. (ok /\ Resume(t, call)) \/ (~ok /\ Return(t, Refusal("CODEC_FAILED")))
    BY <1>5 DEF Encode
  <2> HIDE DEF codec, call
  <2>6. OnlyOn(h) /\ channels'[h][c].generation = channels[h][c].generation
    <3> HIDE DEF h, c
    <3> QED
      BY <1>i, <1>1, <1>2, <1>5, <2>1, <2>3, WithCodecFacts, WithCodecMoves
  <2>7. ViewsMarked'
    <3>1. \A g \in Host, d \in Channel : Moved(channels[g][d], channels'[g][d])
      BY <1>i, <1>1, <1>2, <1>5, <2>1, <2>3, GuardedCallMoves
    <3> QED
      BY <1>i, <1>3, <3>1, ViewsKept DEF ResultsInv
  <2>8. Top(t).result = NoResult
    BY <1>i, <1>1, CurrentSound DEF CallSound, ResultsInv
  <2>9. CallSound(call, channels'[call.host][call.channel])
    BY <1>2, <1>5, <2>4, <2>6, <2>8 DEF CallSound, CountsSound, NoResult, CallbackPhase
  <2>10. ASSUME Resume(t, call)
         PROVE  CallsSound' /\ ResultSound(outcome')
    BY <1>i, <1>1, <2>4, <2>6, <2>9, <2>10, ResumeSound DEF ResultsInv
  <2>11. ASSUME Return(t, Refusal("CODEC_FAILED"))
         PROVE  CallsSound' /\ ResultSound(outcome')
    <3>1. ResultSound(Refusal("CODEC_FAILED"))
      BY RefusalSound DEF HostStatus
    <3>2. CallsSound'
      BY <1>i, <1>1, <2>6, <2>11, ReturnSound DEF ResultsInv
    <3> QED
      BY <2>11, <3>1, <3>2 DEF Return
  <2> QED
    BY <2>5, <2>7, <2>10, <2>11
<1> QED
  BY <1>4, <1>5

\* A result that owes nothing, with the counts of a running call, may be returned.
LEMMA SettledResult ==
    ASSUME NEW r \in ResultType, CountsSound(r), Owed(r) = 0
    PROVE  ResultSound(r)
  BY DEF ResultSound, CountsSound, Owed, ResultType

\* The framer delivers a candidate, refuses the chunk, or returns the counts.
LEMMA FramerSound ==
    ASSUME ResultsInv, IInv', NEW t \in Thread, FramerStep(t)
    PROVE  CallsSound' /\ ViewsMarked' /\ ResultSound(outcome')
<1> DEFINE channel == channels[Top(t).host][Top(t).channel]
<1>i. IInv /\ CallsSound
  BY DEF ResultsInv
<1>1. /\ stack[t] # << >> /\ Top(t) \in CallOrDone /\ Top(t).phase = "FRAMING"
      /\ Top(t).channel \in Channel
  <2>1. InPhase(t, {"FRAMING"})
    BY DEF FramerStep, FramerDelivers, FramerRefuses, FramerReturns
  <2> QED
    BY <1>i, <2>1, InCallFacts
<1>2. Settled(Top(t), channel) /\ Top(t).result \in ResultType
  <2>1. CallSound(Top(t), channel)
    BY <1>i, <1>1, CurrentSound
  <2> QED
    BY <1>1, <2>1 DEF CallSound, Settled, CallOrDone
<1>3. ASSUME NEW ok \in BOOLEAN, FramerDelivers(t, ok)
      PROVE  CallsSound' /\ ViewsMarked' /\ ResultSound(outcome')
  BY <1>1, <1>2, <1>3, CandidateSound DEF FramerDelivers
<1>4. CASE FramerRefuses(t)
  <2>1. ResultSound(Refusal("FRAMING_FAILED"))
    BY RefusalSound DEF HostStatus
  <2> QED
    BY <1>1, <1>4, <2>1, PlainReturnSound DEF FramerRefuses
<1>5. CASE FramerReturns(t)
  <2>1. ResultSound(Top(t).result)
    BY <1>2, SettledResult DEF Settled
  <2> QED
    BY <1>1, <1>5, <2>1, PlainReturnSound DEF FramerReturns
<1> QED
  BY <1>3, <1>4, <1>5 DEF FramerStep

\* A callback that returns resumes its call with the channel as it was.
LEMMA ResumePlain ==
    ASSUME ResultsInv, NEW t \in Thread, stack[t] # << >>, NEW call \in CallOrDone,
           call.host = Top(t).host, call.channel = Top(t).channel, Resume(t, call),
           call.phase # "DONE" =>
               CallSound(call, channels[Top(t).host][Top(t).channel]),
           call.phase = "DONE" => ResultSound(call.result),
           UNCHANGED <<channels, views>>
    PROVE  CallsSound' /\ ViewsMarked' /\ ResultSound(outcome')
<1>1. OnlyOn(Top(t).host)
  BY DEF OnlyOn
<1>2. ViewsMarked'
  BY ViewsUntouched DEF ResultsInv, IInv
<1> QED
  BY <1>1, <1>2, ResumeSound DEF ResultsInv

\* An observer returned: the record goes on to the sink.
LEMMA ObserverSound ==
    ASSUME ResultsInv, NEW t \in Thread, NEW continue \in BOOLEAN, ObserverReturns(t, continue)
    PROVE  CallsSound' /\ ViewsMarked' /\ ResultSound(outcome')
<1> DEFINE channel == channels[Top(t).host][Top(t).channel]
           next == AfterObserver(Top(t), continue)
<1>i. IInv /\ CallsSound
  BY DEF ResultsInv
<1>1. /\ stack[t] # << >> /\ Top(t) \in CallOrDone /\ Top(t).phase = "OBSERVER"
      /\ Top(t).channel \in Channel /\ Top(t).host \in Host
  BY <1>i, InCallFacts DEF ObserverReturns
<1>2. CallSound(Top(t), channel) /\ channel \in ChannelType
  BY <1>i, <1>1, CurrentSound DEF IInv, RestTyped
<1>3. Decoding(Top(t), channel)
  BY <1>1, <1>2 DEF CallSound, Decoding, CallbackPhase
<1>4. /\ next.phase # "DONE" => CallSound(next, channel)
      /\ next.phase = "DONE" => ResultSound(next.result)
  BY <1>1, <1>2, <1>3, AfterObserverSound
<1>5. next \in CallOrDone /\ next.host = Top(t).host /\ next.channel = Top(t).channel
  BY <1>1, AfterFacts
<1>6. Resume(t, next) /\ UNCHANGED <<channels, views>>
  BY DEF ObserverReturns
<1> HIDE DEF next
<1> QED
  BY <1>1, <1>4, <1>5, <1>6, ResumePlain

\* A business callback returned: the call owes one candidate less.
LEMMA BusinessSound ==
    ASSUME ResultsInv, NEW t \in Thread, NEW continue \in BOOLEAN, BusinessReturns(t, continue)
    PROVE  CallsSound' /\ ViewsMarked' /\ ResultSound(outcome')
<1> DEFINE channel == channels[Top(t).host][Top(t).channel]
           result == [Top(t).result EXCEPT !.business_callbacks_returned = @ + 1]
           counted == [Top(t) EXCEPT !.result.business_callbacks_returned = @ + 1]
           goes_on == Top(t).proceed /\ continue
           next == AfterCandidate(counted, goes_on)
<1>i. IInv /\ CallsSound
  BY DEF ResultsInv
<1>1. /\ stack[t] # << >> /\ Top(t) \in CallOrDone /\ Top(t).phase = "BUSINESS"
      /\ Top(t).channel \in Channel /\ Top(t).host \in Host
      /\ Top(t).result \in ResultType
  <2>1. /\ stack[t] # << >> /\ Top(t) \in CallOrDone /\ Top(t).phase = "BUSINESS"
        /\ Top(t).channel \in Channel /\ Top(t).host \in Host
    BY <1>i, InCallFacts DEF BusinessReturns
  <2> QED
    BY <2>1 DEF CallOrDone
<1>2. CallSound(Top(t), channel) /\ channel \in ChannelType
  BY <1>i, <1>1, CurrentSound DEF IInv, RestTyped
<1>3. /\ result \in ResultType
      /\ result.business_callbacks_returned = Top(t).result.business_callbacks_returned + 1
      /\ result.decode_successes = Top(t).result.decode_successes
      /\ result.decode_failures = Top(t).result.decode_failures
      /\ result.status = Top(t).result.status
      /\ result.reset_required = Top(t).result.reset_required
  BY <1>1 DEF ResultType
<1>4. counted = [Top(t) EXCEPT !.result = result]
  BY <1>1 DEF CallOrDone, ResultType
<1> HIDE DEF result
<1>5. /\ counted \in CallOrDone /\ counted.host = Top(t).host
      /\ counted.channel = Top(t).channel /\ counted.op = Top(t).op
      /\ counted.generation = Top(t).generation /\ counted.result = result
  BY <1>1, <1>3, <1>4 DEF CallOrDone
<1>6. goes_on \in BOOLEAN
  OBVIOUS
<1>7. Resume(t, next) /\ UNCHANGED <<channels, views>>
  BY DEF BusinessReturns
<1> HIDE DEF counted, goes_on
<1>8. /\ next \in CallOrDone /\ next.host = Top(t).host /\ next.channel = Top(t).channel
  BY <1>5, <1>6, AfterFacts
<1>9. CountsSound(result) /\ channel.generation = Top(t).generation
  BY <1>1, <1>2, <1>3 DEF CallSound, CountsSound
<1>10. CASE Top(t).op # "ENCODE"
  <2>1. Owed(Top(t).result) = 1 /\ Top(t).op \in {"DECODE", "PUSH"}
    BY <1>1, <1>2, <1>10 DEF CallSound
  <2>2. Owed(result) = 0
    BY <1>1, <1>3, <2>1 DEF Owed, ResultType
  <2>3. Settled(counted, channel)
    BY <1>5, <1>9, <2>1, <2>2 DEF Settled
  <2>4. /\ next.phase # "DONE" => CallSound(next, channel)
        /\ next.phase = "DONE" => ResultSound(next.result)
    BY <1>2, <1>5, <1>6, <2>3, AfterCandidateSound
  <2> HIDE DEF next
  <2> QED
    BY <1>1, <1>7, <1>8, <2>4, ResumePlain
<1>11. CASE Top(t).op = "ENCODE"
  <2>1. Top(t).result = NoResult
    BY <1>1, <1>2, <1>11 DEF CallSound
  <2>2. ResultSound(result)
    BY <1>3, <2>1 DEF ResultSound, NoResult
  <2>3. next.phase = "DONE" /\ next.result = result
    BY <1>5, <1>11 DEF AfterCandidate, CallOrDone
  <2> HIDE DEF next
  <2> QED
    BY <1>1, <1>7, <1>8, <2>2, <2>3, ResumePlain
<1> QED
  BY <1>10, <1>11

\* A callback threw: the candidate in hand is the only one lost.
LEMMA ThrowSound ==
    ASSUME ResultsInv, IInv', NEW t \in Thread, CallbackThrows(t)
    PROVE  CallsSound' /\ ViewsMarked' /\ ResultSound(outcome')
<1> DEFINE h == Top(t).host
           c == Top(t).channel
           result == [Top(t).result EXCEPT !.status = "CALLBACK_FAILED", !.reset_required = TRUE]
           marked == [channels[h][c] EXCEPT !.faulted = TRUE]
<1>i. IInv /\ CallsSound /\ RestTyped /\ RestTyped'
  BY DEF ResultsInv, IInv
<1>1. /\ stack[t] # << >> /\ Top(t).phase \in CallbackPhase
      /\ c \in Channel /\ h \in Host
      /\ Top(t).result \in ResultType
  <2>1. /\ stack[t] # << >> /\ Top(t) \in CallOrDone /\ Top(t).phase \in CallbackPhase
        /\ (Top(t).phase # "ENTERED" => c \in Channel) /\ h \in Host
    BY <1>i, InCallFacts DEF CallbackThrows
  <2> QED
    BY <2>1 DEF CallOrDone, CallbackPhase
<1>2. CallSound(Top(t), channels[h][c]) /\ channels[h][c] \in ChannelType
  BY <1>i, <1>1, CurrentSound DEF RestTyped
<1>3. /\ channels' = [channels EXCEPT ![h] = [channels[h] EXCEPT ![c] = marked]]
      /\ Return(t, result)
      /\ UNCHANGED views
  BY DEF CallbackThrows
<1>4. marked.codec = channels[h][c].codec /\ marked.generation = channels[h][c].generation
  BY <1>2 DEF ChannelType
<1> HIDE DEF marked
<1>5. \A g \in Host, d \in Channel :
         channels'[g][d] = IF g = h /\ d = c THEN marked ELSE channels[g][d]
  BY <1>i, <1>1, <1>3 DEF RestTyped
<1>6. OnlyOn(h)
  BY <1>i, <1>3 DEF RestTyped, OnlyOn
<1>7. \A g \in Host, d \in Channel : Moved(channels[g][d], channels'[g][d])
  BY <1>4, <1>5 DEF Moved
<1>8. ViewsMarked'
  BY <1>i, <1>3, <1>7, ViewsKept DEF ResultsInv
<1>9. CallsSound'
  BY <1>i, <1>1, <1>3, <1>6, ReturnSound
<1>10. ResultSound(result)
  <2>1. /\ result.status = "CALLBACK_FAILED" /\ result.reset_required = TRUE
        /\ result.decode_successes = Top(t).result.decode_successes
        /\ result.business_callbacks_returned = Top(t).result.business_callbacks_returned
    BY <1>1 DEF ResultType
  <2>2. Owed(Top(t).result) \in {0, 1}
    <3>1. Owed(NoResult) = 0
      BY DEF Owed, NoResult
    <3> QED
      BY <1>1, <1>2, <3>1 DEF CallSound, CallbackPhase
  <2> QED
    BY <2>1, <2>2 DEF ResultSound, Owed
<1> QED
  BY <1>3, <1>8, <1>9, <1>10 DEF Return

\* Destroying an idle host takes its views out of reach and touches no call.
LEMMA DestroySound ==
    ASSUME ResultsInv, NEW h \in Host, Destroy(h)
    PROVE  CallsSound' /\ ViewsMarked' /\ ResultSound(outcome')
<1>1. UNCHANGED <<channels, stack, outcome>> /\ views' \subseteq views
  BY DEF Destroy
<1> QED
  BY <1>1, CallsUntouched, ViewsUntouched DEF ResultsInv, IInv

-----------------------------------------------------------------------------
(***************************************************************************)
(* The theorems.                                                           *)
(***************************************************************************)

Sound == CallsSound /\ ViewsMarked /\ ResultSound(outcome)

\* New hosts have no calls, no views and an empty result.
LEMMA InitialSound == Init => Sound
<1> SUFFICES ASSUME Init PROVE Sound
  OBVIOUS
<1>1. \A t \in Thread : DOMAIN stack[t] = {}
  BY DEF Init
<1>2. ResultSound(outcome)
  BY RefusalSound DEF Init, HostStatus
<1> QED
  BY <1>1, <1>2 DEF Init, Sound, CallsSound, ViewsMarked

\* Every step keeps the calls, the views and the results sound.
LEMMA NextSound ==
    ASSUME IInv, IInv', Sound, [Next]_vars
    PROVE  Sound'
<1>1. ResultsInv
  BY DEF Sound, ResultsInv
<1>2. ASSUME NEW t \in Thread, NEW h \in Host, Enter(t, h)
      PROVE  Sound'
  BY <1>1, <1>2, EnterSound DEF Sound
<1>3. ASSUME NEW t \in Thread, Operation(t)
      PROVE  Sound'
  <2>1. ASSUME NEW found \in BOOLEAN, Find(t, found)
        PROVE  Sound'
    <3>1. NoHandle \in Handles
      BY DEF Handles
    <3> QED
      BY <1>1, <2>1, <3>1, ReportSound DEF Sound
  <2>2. ASSUME NEW handle \in Handles, Observe(t, handle)
        PROVE  Sound'
    <3>1. TRUE \in BOOLEAN
      OBVIOUS
    <3> QED
      BY <1>1, <2>2, <3>1, ReportSound DEF Sound
  <2>3. ASSUME NEW handle \in Handles, Reset(t, handle)
        PROVE  Sound'
    BY <1>1, <2>3, ResetSound DEF Sound
  <2>4. ASSUME NEW handle \in Handles, NEW valid \in BOOLEAN, NEW observer \in BOOLEAN,
               NEW ok \in BOOLEAN, Decode(t, handle, valid, observer, ok)
        PROVE  Sound'
    BY <1>1, <2>4, DecodeSound DEF Sound
  <2>5. ASSUME NEW handle \in Handles, NEW valid \in BOOLEAN, NEW observer \in BOOLEAN,
               Push(t, handle, valid, observer)
        PROVE  Sound'
    BY <1>1, <2>5, PushSound DEF Sound
  <2>6. ASSUME NEW handle \in Handles, NEW valid \in BOOLEAN, NEW ok \in BOOLEAN,
               Encode(t, handle, valid, ok)
        PROVE  Sound'
    BY <1>1, <2>6, EncodeSound DEF Sound
  <2> QED
    BY <1>3, <2>1, <2>2, <2>3, <2>4, <2>5, <2>6 DEF Operation, OperationOn
<1>4. ASSUME NEW t \in Thread, FramerStep(t)
      PROVE  Sound'
  BY <1>1, <1>4, FramerSound DEF Sound
<1>5. ASSUME NEW t \in Thread, CallbackEnds(t)
      PROVE  Sound'
  <2>1. ASSUME NEW continue \in BOOLEAN, ObserverReturns(t, continue)
        PROVE  Sound'
    BY <1>1, <2>1, ObserverSound DEF Sound
  <2>2. ASSUME NEW continue \in BOOLEAN, BusinessReturns(t, continue)
        PROVE  Sound'
    BY <1>1, <2>2, BusinessSound DEF Sound
  <2>3. CASE CallbackThrows(t)
    BY <1>1, <2>3, ThrowSound DEF Sound
  <2> QED
    BY <1>5, <2>1, <2>2, <2>3 DEF CallbackEnds
<1>6. ASSUME NEW h \in Host, Destroy(h)
      PROVE  Sound'
  BY <1>1, <1>6, DestroySound DEF Sound
<1>7. CASE UNCHANGED vars
  BY <1>7 DEF vars, Sound, CallsSound, ViewsMarked
<1> QED
  BY <1>2, <1>3, <1>4, <1>5, <1>6, <1>7 DEF Next

\* In every reachable state the calls, the views and the last result are sound.
THEOREM ResultsInvariance == Spec => []ResultsInv
<1>1. IInv /\ IInv' /\ Sound /\ [Next]_vars => Sound'
  BY NextSound
<1>2. IInv /\ Sound => ResultsInv
  BY DEF Sound, ResultsInv
<1> QED
  BY <1>1, <1>2, InitialSound, Invariance, PTL DEF Spec

\* The counts of HostOperationResult add up: an OK result brought every
\* candidate to the sink, and only a failed callback loses one.
THEOREM ResultsTruthful == Spec => []ResultTruthful
<1>1. ResultsInv => ResultTruthful
  BY DEF ResultsInv, ResultSound, ResultTruthful
<1> QED
  BY <1>1, ResultsInvariance, PTL

\* RecordView::has_value: a view that still has a value shows the record it was
\* made for, whatever decodes, resets and other hosts did since.
THEOREM ViewsAreHonest == Spec => []RecordViewsHonest
<1>1. ResultsInv => RecordViewsHonest
  BY DEF ResultsInv, ViewsMarked, ViewMarked, RecordViewsHonest, HasValue
<1> QED
  BY <1>1, ResultsInvariance, PTL

\* What a callback borrows, the handle of its call and the decoded record, is
\* valid until it returns, whatever it and other threads call meanwhile.
THEOREM BorrowsHold == Spec => []BorrowedWhileInCallback
<1>1. ResultsInv => BorrowedWhileInCallback
  <2> SUFFICES ASSUME ResultsInv, NEW t \in Thread, NEW i \in DOMAIN stack[t],
                      stack[t][i].phase \in CallbackPhase
               PROVE  LET call == stack[t][i]
                          channel == channels[call.host][call.channel]
                      IN /\ channel.generation = call.generation
                         /\ call.op \in {"DECODE", "PUSH"} =>
                              (call.decoded <=> /\ channel.codec.published
                                                /\ channel.codec.generation = call.record)
    BY DEF BorrowedWhileInCallback
  <2>1. CallSound(stack[t][i], channels[stack[t][i].host][stack[t][i].channel])
    BY DEF ResultsInv, CallsSound
  <2> QED
    BY <2>1 DEF CallSound, CallbackPhase
<1> QED
  BY <1>1, ResultsInvariance, PTL

\* A refusal as busy is contention: the host was in a call of another thread.
LEMMA BusyIsContention ==
    ASSUME IInv, NEW t \in Thread, NEW h \in Host, Enter(t, h), stack' = stack,
           outcome'.status = "WORKSPACE_BUSY"
    PROVE  \E u \in Thread \ {t} : \E i \in DOMAIN stack[u] : stack[u][i].host = h
<1>1. ~ IsCallbackOwnerActive(t, h)
  <2>1. Refusal("REENTRANT_CALL").status = "REENTRANT_CALL"
    BY DEF Refusal, NoResult
  <2> QED
    BY <2>1 DEF Enter
<1>2. stack' # [stack EXCEPT ![t] = Append(@, EnteredCall(h))]
  <2> DEFINE s == Append(stack[t], EnteredCall(h))
  <2>1. stack[t] \in Seq(CallType) /\ stack \in [Thread -> Seq(CallType)]
    BY DEF IInv, StackTyped
  <2>2. Len(s) = Len(stack[t]) + 1 /\ Len(stack[t]) \in Nat
    BY <2>1
  <2>3. s # stack[t]
    BY <2>2
  <2> QED
    BY <2>1, <2>3
<1>3. in_use[h]
  BY <1>1, <1>2 DEF Enter
<1>4. \E u \in Thread : IsCallbackOwnerActive(u, h)
  BY <1>3 DEF IInv, LeaseExclusive
<1> QED
  BY <1>1, <1>4 DEF IsCallbackOwnerActive

\* WORKSPACE_BUSY is told apart from REENTRANT_CALL: a call refused as busy met
\* a call of another thread, also when hosts call each other in a chain.
THEOREM BusyTellsContention == Spec => BusyMeansContention
<1>1. IInv => [\A t \in Thread, h \in Host :
          Enter(t, h) /\ stack' = stack /\ outcome'.status = "WORKSPACE_BUSY" =>
              \E u \in Thread \ {t} : \E i \in DOMAIN stack[u] : stack[u][i].host = h]_vars
  BY BusyIsContention
<1> QED
  BY <1>1, Invariance, PTL DEF BusyMeansContention
=============================================================================
