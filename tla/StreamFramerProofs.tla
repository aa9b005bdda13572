-------------------------- MODULE StreamFramerProofs --------------------------
(***************************************************************************)
(* Proofs about StreamFramer, for every framing plan the builder accepts,  *)
(* every admitted limit and streams of any length.                         *)
(***************************************************************************)
EXTENDS StreamFramer, FiniteSetTheorems, SequenceTheorems, WellFoundedInduction, TLAPS

(***************************************************************************)
(* Facts about the plan.                                                   *)
(***************************************************************************)

\* The shape of an accepted plan: capacities are positive, the sync bytes and
\* the length header fit the smallest frame.
LEMMA PlanShape ==
    /\ Sync \in Seq(Octet) /\ Len(Sync) \in Nat
    /\ HeaderEnd \in Nat
    /\ FrameCapacity \in Nat \ {0}
    /\ framing.strategy \in FramingStrategy
    /\ framing.frame_length_bytes \in Nat
    /\ framing.strategy = "FIXED_LENGTH" => FrameCapacity = framing.frame_length_bytes
    /\ framing.strategy = "SYNC_FIXED_LENGTH" =>
         /\ FrameCapacity = framing.frame_length_bytes
         /\ Len(Sync) > 0 /\ Len(Sync) <= FrameCapacity
    /\ framing.strategy = "SYNC_LENGTH_FIELD" =>
         /\ FrameCapacity = framing.maximum_frame_length
         /\ Len(Sync) > 0 /\ Len(Sync) < HeaderEnd /\ HeaderEnd <= FrameCapacity
         /\ HeaderEnd <= framing.minimum_frame_length
         /\ framing.minimum_frame_length \in Nat
         /\ framing.length_field_width \in {1, 2, 4}
         /\ framing.length_field_offset \in Nat
    /\ framing.strategy = "ASCII_CRLF" => FrameCapacity >= 2
    /\ framing.length_field_width \in Nat
<1> USE DEF Sync, HeaderEnd, FrameCapacity, FramingStrategy
<1>1. framing \in FramingPlanType
  BY FramingTypeAssumption
<1>2. StrategyAccepted
  BY FramingAccepted
<1>3. /\ framing.strategy \in FramingStrategy
      /\ framing.frame_length_bytes \in Nat
      /\ framing.sync_bytes \in Seq(Octet)
      /\ framing.length_field_offset \in Nat
      /\ framing.length_field_width \in Nat
      /\ framing.minimum_frame_length \in Nat
      /\ framing.maximum_frame_length \in Nat
  BY <1>1 DEF FramingPlanType
<1>4. Len(framing.sync_bytes) \in Nat
  BY <1>3
<1>5. framing.sync_bytes # << >> => Len(framing.sync_bytes) > 0
  BY <1>3, <1>4
<1>6. CASE framing.strategy = "FIXED_LENGTH"
  BY <1>2, <1>3, <1>4, <1>6 DEF StrategyAccepted
<1>7. CASE framing.strategy = "SYNC_FIXED_LENGTH"
  BY <1>2, <1>3, <1>4, <1>5, <1>7 DEF StrategyAccepted
<1>8. CASE framing.strategy = "SYNC_LENGTH_FIELD"
  BY <1>2, <1>3, <1>4, <1>5, <1>8, SMTT(20) DEF StrategyAccepted
<1>9. CASE framing.strategy = "ASCII_CRLF"
  BY <1>2, <1>3, <1>4, <1>9 DEF StrategyAccepted
<1> QED
  BY <1>3, <1>6, <1>7, <1>8, <1>9

\* The sizes the workspace counts with are naturals.
LEMMA Ranges ==
    /\ Len(Sync) \in Nat /\ FrameCapacity \in Nat /\ HeaderEnd \in Nat
    /\ 0 \in 0..Len(Sync) /\ 0 \in 0..FrameCapacity
<1>1. Len(Sync) \in Nat /\ FrameCapacity \in Nat /\ HeaderEnd \in Nat
  BY PlanShape
<1> QED
  BY <1>1

\* Falling back strictly shortens the match.
LEMMA PrefixShortens ==
    ASSUME NEW k \in 1..Len(Sync)
    PROVE  framing.sync_prefix_table[k] \in 0..(k - 1)
<1>1. framing.sync_prefix_table \in Seq(Nat)
  BY FramingTypeAssumption DEF FramingPlanType
<1>2. /\ Len(framing.sync_prefix_table) = Len(Sync)
      /\ framing.sync_prefix_table[k] <= k - 1
  BY FramingAccepted DEF PrefixTableAccepted
<1>3. framing.sync_prefix_table[k] \in Nat
  BY <1>1, <1>2
<1> QED
  BY <1>2, <1>3, PlanShape

\* A non-empty set of naturals has a least element.
LEMMA LeastElement ==
    ASSUME NEW S \in SUBSET Nat, S # {}
    PROVE  \E k \in S : \A j \in S : k <= j
<1> DEFINE R == OpToRel(<, Nat)
<1>1. IsWellFoundedOn(R, Nat)
  BY NatLessThanWellFounded
<1> HIDE DEF R
<1>2. PICK k \in S : \A j \in S : ~(<<j, k>> \in R)
  BY <1>1, WFMin
<1>3. ASSUME NEW j \in S
      PROVE  k <= j
  <2>1. j \in Nat /\ k \in Nat
    OBVIOUS
  <2>2. <<j, k>> \notin R
    BY <1>2
  <2>3. ~(j < k)
    BY <2>1, <2>2 DEF R, OpToRel
  <2> QED
    BY <2>1, <2>3
<1> QED
  BY <1>3

\* A non-empty set of naturals up to a bound has a largest element.
LEMMA BoundedMax ==
    ASSUME NEW m \in Nat, NEW T \in SUBSET (0..m), T # {}
    PROVE  Max(T) \in T /\ \A k \in T : k <= Max(T)
<1> DEFINE D == {m - k : k \in T}
<1>1. D \subseteq Nat /\ D # {}
  OBVIOUS
<1>2. PICK d \in D : \A e \in D : d <= e
  BY <1>1, LeastElement
<1>3. PICK k \in T : d = m - k
  BY <1>2
<1>4. \A j \in T : k >= j
  <2> TAKE j \in T
  <2>1. m - j \in D
    OBVIOUS
  <2> QED
    BY <1>2, <1>3, <2>1
<1>5. \E x \in T : \A y \in T : x >= y
  BY <1>4
<1> QED
  BY <1>5 DEF Max

\* std::min, as the compaction uses it.
LEMMA MinOfTwo ==
    ASSUME NEW a \in Nat, NEW b \in Nat
    PROVE  Min({a, b}) \in Nat /\ Min({a, b}) <= a /\ Min({a, b}) <= b
<1>1. \E x \in {a, b} : \A y \in {a, b} : x <= y
  OBVIOUS
<1>2. Min({a, b}) \in {a, b} /\ \A y \in {a, b} : Min({a, b}) <= y
  BY <1>1 DEF Min
<1> QED
  BY <1>2

\* The fallback loop ends: 0 is on every chain.
LEMMA ChainReachesZero ==
    ASSUME NEW m \in 0..(Len(Sync) - 1)
    PROVE  0 \in FallbackChain(m)
<1> SUFFICES ASSUME NEW S \in SUBSET (0..m), m \in S, PrefixClosed(S)
             PROVE  0 \in S
  BY PlanShape DEF FallbackChain
<1>1. S \subseteq Nat /\ S # {}
  BY PlanShape
<1>2. PICK k \in S : \A j \in S : k <= j
  BY <1>1, LeastElement
<1>3. CASE k = 0
  BY <1>3, <1>2
<1>4. CASE k # 0
  <2>1. k \in 1..Len(Sync)
    BY <1>2, <1>4, PlanShape
  <2>2. framing.sync_prefix_table[k] \in S
    BY <1>2, <1>4 DEF PrefixClosed
  <2> QED
    BY <1>2, <2>1, <2>2, PrefixShortens, PlanShape
<1> QED
  BY <1>3, <1>4

\* One step of the automaton grows the match by at most one byte.
LEMMA MatchStep ==
    ASSUME NEW m \in 0..(Len(Sync) - 1), NEW byte
    PROVE  /\ FallbackTo(m, byte) \in 0..m
           /\ NextMatch(m, byte) \in 0..(m + 1)
           /\ MatchUnits(m, byte) \in Nat
<1> DEFINE T == {k \in FallbackChain(m) : k = 0 \/ Extends(k, byte)}
<1>1. m \in Nat
  BY PlanShape
<1>2. T \in SUBSET (0..m) /\ T # {}
  BY ChainReachesZero DEF FallbackChain
<1> HIDE DEF T
<1>3. Max(T) \in 0..m
  BY <1>1, <1>2, BoundedMax
<1>4. FallbackTo(m, byte) \in 0..m
  BY <1>3 DEF FallbackTo, T
<1>5. NextMatch(m, byte) \in 0..(m + 1)
  BY <1>1, <1>4 DEF NextMatch
<1>6. Cardinality({k \in FallbackChain(m) : k > FallbackTo(m, byte)}) \in Nat
  <2>1. IsFiniteSet(0..m)
    BY <1>1, FS_Interval
  <2>2. {k \in FallbackChain(m) : k > FallbackTo(m, byte)} \subseteq 0..m
    BY DEF FallbackChain
  <2> QED
    BY <2>1, <2>2, FS_Subset, FS_CardinalityType
<1>7. MatchUnits(m, byte) \in Nat
  BY <1>6 DEF MatchUnits
<1> QED
  BY <1>4, <1>5, <1>7

\* The length field is decoded from bytes the header holds.
LEMMA DeclaredLengthNat ==
    ASSUME framing.strategy = "SYNC_LENGTH_FIELD",
           NEW b \in Seq(Octet), Len(b) = HeaderEnd
    PROVE  DeclaredLength(b) \in Nat
<1>1. /\ framing.length_field_width \in {1, 2, 4}
      /\ framing.length_field_offset \in Nat
      /\ HeaderEnd = framing.length_field_offset + framing.length_field_width
  BY PlanShape DEF HeaderEnd
<1>2. \A i \in 0..(framing.length_field_width - 1) : LengthByte(b, i) \in Nat
  <2> TAKE i \in 0..(framing.length_field_width - 1)
  <2> DEFINE j == IF framing.length_field_byte_order = "LITTLE"
                  THEN framing.length_field_width - 1 - i ELSE i
  <2>1. j \in 0..(framing.length_field_width - 1)
    BY <1>1
  <2> HIDE DEF j
  <2>2. framing.length_field_offset + 1 + j \in 1..Len(b)
    BY <1>1, <2>1
  <2>3. b[framing.length_field_offset + 1 + j] \in Octet
    BY <2>2, ElementOfSeq
  <2>4. \A x \in Octet : x \in Nat
    BY DEF Octet
  <2> QED
    BY <2>3, <2>4 DEF LengthByte, j
<1>3. CASE framing.length_field_width = 1
  <2>1. LengthByte(b, 0) \in Nat
    BY <1>2, <1>3
  <2> QED
    BY <1>3, <2>1 DEF DeclaredLength
<1>4. CASE framing.length_field_width = 2
  <2>1. LengthByte(b, 0) \in Nat /\ LengthByte(b, 1) \in Nat
    BY <1>2, <1>4
  <2> QED
    BY <1>4, <2>1 DEF DeclaredLength
<1>5. CASE framing.length_field_width = 4
  <2>1. /\ LengthByte(b, 0) \in Nat /\ LengthByte(b, 1) \in Nat
        /\ LengthByte(b, 2) \in Nat /\ LengthByte(b, 3) \in Nat
    BY <1>2, <1>5
  <2> QED
    BY <1>5, <2>1 DEF DeclaredLength
<1> QED
  BY <1>1, <1>3, <1>4, <1>5

-----------------------------------------------------------------------------
(***************************************************************************)
(* The inductive invariant.  CandidateShape says what buffer and progress  *)
(* mean in each state; without it a header byte might not fit the buffer   *)
(* and a rescan might count bytes it never held.                           *)
(***************************************************************************)
SyncStrategy == framing.strategy \in {"SYNC_FIXED_LENGTH", "SYNC_LENGTH_FIELD"}

CandidateShape ==
    /\ state = "COLLECT_FIXED" =>
         framing.strategy = "FIXED_LENGTH" /\ progress.target_size = FrameCapacity
    /\ state = "SEARCH_SYNC" => SyncStrategy /\ progress.sync_match < Len(Sync)
    /\ state = "COPY_SYNC" => SyncStrategy /\ Len(buffer) = progress.copy_sync_index
    /\ state = "READ_LENGTH" =>
         framing.strategy = "SYNC_LENGTH_FIELD" /\ Len(buffer) <= HeaderEnd
    /\ state = "COLLECT_DECLARED" => SyncStrategy /\ Len(buffer) <= progress.target_size
    /\ state = "RESCAN_INVALID" =>
         /\ framing.strategy = "SYNC_LENGTH_FIELD"
         /\ Len(buffer) <= HeaderEnd
         /\ 1 <= progress.rescan_index /\ progress.rescan_index <= Len(buffer)
         /\ progress.rescan_match < Len(Sync)
         /\ progress.rescan_match < progress.rescan_index
    /\ state = "COMPACT_INVALID" =>
         /\ framing.strategy = "SYNC_LENGTH_FIELD"
         /\ Len(buffer) <= HeaderEnd
         /\ progress.compact_start + progress.compact_size = Len(buffer)
         /\ progress.compact_moved <= progress.compact_size
    /\ state = "COLLECT_ASCII" =>
         framing.strategy = "ASCII_CRLF" /\ Len(buffer) < FrameCapacity
    /\ state = "DISCARD_UNTIL_CRLF" => framing.strategy = "ASCII_CRLF" /\ buffer = << >>

\* A running call still has the bytes it was offered and did not consume.
OfferHeld ==
    in_push => /\ result.bytes_consumed <= result.offered
               /\ result.offered <= result.bytes_consumed + Len(input)

IInv ==
    /\ TypeOK
    /\ CandidateShape
    /\ OfferHeld
    /\ ByteAccounting
    /\ NoInternalError

-----------------------------------------------------------------------------
(***************************************************************************)
(* What the actions have in common.                                        *)
(***************************************************************************)

\* A result that grew within the budget has its type.
LEMMA ResultGrows ==
    ASSUME result \in ResultType, NEW units \in Nat, CanCharge(units)
    PROVE  Charged(units) \in ResultType /\ ConsumedFor(units) \in ResultType
<1>1. /\ result.work_units_used + units \in 0..MaxWorkUnits
      /\ result.bytes_consumed + 1 \in Nat
  BY LimitsAssumption DEF ResultType, CanCharge
<1>2. Charged(units) \in ResultType
  BY <1>1 DEF ResultType, Charged
<1>3. ConsumedFor(units) \in ResultType
  BY <1>1 DEF ResultType, ConsumedFor
<1> QED
  BY <1>2, <1>3

\* A result with a new stop reason has its type.
LEMMA ResultStops ==
    ASSUME result \in ResultType, NEW n \in Nat, NEW reason \in StopReason
    PROVE  /\ [result EXCEPT !.stop_reason = reason] \in ResultType
           /\ [result EXCEPT !.frames_delivered = n, !.stop_reason = reason] \in ResultType
BY DEF ResultType

\* Everything a consumed byte changes outside the workspace.
LEMMA ByteConsumed ==
    ASSUME IInv, in_push, ~InputExhausted,
           NEW units \in Nat, CanCharge(units), result' = ConsumedFor(units),
           ConsumeByte, in_push' = in_push
    PROVE  /\ Head(input) \in Octet
           /\ result' \in ResultType
           /\ in_push' \in BOOLEAN
           /\ input' \in Seq(Bytes)
           /\ stream' \in Seq(Bytes) /\ Len(stream') = Len(stream) + 1
           /\ base' \in 0..Len(stream')
           /\ frames' \in Seq(FrameType)
           /\ delivered' = delivered /\ dropped' = dropped
           /\ OfferHeld'
           /\ NoInternalError'
<1> USE DEF IInv, TypeOK
<1>1. result \in ResultType /\ input \in Seq(Bytes) /\ stream \in Seq(Bytes)
  OBVIOUS
<1>2. result' \in ResultType
  BY <1>1, ResultGrows
<1>3. /\ result.bytes_consumed \in Nat /\ result.offered \in Nat
      /\ result'.bytes_consumed = result.bytes_consumed + 1
      /\ result'.offered = result.offered
      /\ result'.api_status = result.api_status
  BY <1>1 DEF ResultType, ConsumedFor
<1>4. Len(input) \in Nat /\ input # << >>
  BY <1>1, <1>3 DEF OfferHeld, InputExhausted
<1>5. Head(input) \in Bytes /\ Tail(input) \in Seq(Bytes) /\ Len(Tail(input)) = Len(input) - 1
  BY <1>1, <1>4
<1>6. /\ Append(stream, Head(input)) \in Seq(Bytes)
      /\ Len(Append(stream, Head(input))) = Len(stream) + 1
      /\ Len(stream) \in Nat
  BY <1>1, <1>5
<1>7. OfferHeld'
  BY <1>3, <1>4, <1>5, SMTT(30) DEF OfferHeld, InputExhausted, ConsumeByte
<1>8. NoInternalError'
  BY <1>3 DEF NoInternalError
<1>9. base' \in 0..Len(stream')
  BY <1>6 DEF ConsumeByte
<1> QED
  BY <1>2, <1>5, <1>6, <1>7, <1>8, <1>9, BytesAssumption DEF ConsumeByte

\* Everything a charge without a byte changes outside the workspace.
LEMMA WorkCharged ==
    ASSUME IInv, NEW units \in Nat, CanCharge(units), result' = Charged(units),
           UNCHANGED <<in_push, input, historyVars>>
    PROVE  /\ result' \in ResultType
           /\ in_push' \in BOOLEAN
           /\ input' \in Seq(Bytes)
           /\ stream' \in Seq(Bytes) /\ Len(stream') = Len(stream)
           /\ base' \in 0..Len(stream')
           /\ frames' \in Seq(FrameType)
           /\ delivered' = delivered /\ dropped' = dropped
           /\ OfferHeld'
           /\ NoInternalError'
<1> USE DEF IInv, TypeOK, historyVars
<1>1. result' \in ResultType
  BY ResultGrows
<1>2. /\ result'.bytes_consumed = result.bytes_consumed
      /\ result'.offered = result.offered
      /\ result'.api_status = result.api_status
  BY DEF ResultType, Charged
<1>3. OfferHeld' /\ NoInternalError'
  BY <1>2 DEF OfferHeld, NoInternalError
<1> QED
  BY <1>1, <1>3

\* A step that leaves the workspace and the history alone.
LEMMA OnlyCallChanges ==
    ASSUME IInv, UNCHANGED <<workspaceVars, historyVars>>,
           result' \in ResultType, in_push' \in BOOLEAN, input' \in Seq(Bytes),
           OfferHeld', NoInternalError'
    PROVE  IInv'
<1> USE DEF IInv, workspaceVars, historyVars
<1>1. TypeOK'
  BY DEF TypeOK
<1>2. CandidateShape'
  BY DEF CandidateShape
<1>3. ByteAccounting'
  BY DEF ByteAccounting, Retained
<1> QED
  BY <1>1, <1>2, <1>3

\* A step that consumes n bytes and moves others from retained to discarded.
LEMMA AccountKept ==
    ASSUME TypeOK, ByteAccounting, NEW n \in Nat, Len(stream') = Len(stream) + n,
           delivered' = delivered, dropped' = dropped, total_discarded' \in Nat,
           NEW r \in Nat, Retained = r, NEW rr \in Nat, Retained' = rr,
           total_discarded' + rr = total_discarded + r + n
    PROVE  ByteAccounting'
<1>1. delivered \in Nat /\ total_discarded \in Nat /\ dropped \in Nat
  BY DEF TypeOK
<1>2. Len(stream') = delivered + total_discarded + dropped + r + n
  BY DEF ByteAccounting
<1> DEFINE dd == total_discarded'
<1>3. dd \in Nat /\ dd + rr = total_discarded + r + n
  OBVIOUS
<1> HIDE DEF dd
<1>4. delivered + total_discarded + dropped + r + n = delivered + dd + dropped + rr
  BY <1>1, <1>3
<1> QED
  BY <1>2, <1>4 DEF ByteAccounting, dd

\* A new or finished candidate leaves an empty workspace.
LEMMA CandidateReset ==
    ASSUME ResetCandidate
    PROVE  /\ state' \in State
           /\ buffer' \in Seq(Octet) /\ Len(buffer') = 0
           /\ progress' \in ProgressType
           /\ CandidateShape'
           /\ Retained' = 0
<1>1. state' = InitialState /\ buffer' = << >> /\ progress' = NoProgress
  BY DEF ResetCandidate
<1>2. progress' \in ProgressType
  BY <1>1, PlanShape DEF NoProgress, ProgressType
<1>3. CASE framing.strategy = "FIXED_LENGTH"
  BY <1>1, <1>2, <1>3, PlanShape
     DEF InitialState, NoProgress, CandidateShape, Retained, State
<1>4. CASE framing.strategy = "ASCII_CRLF"
  BY <1>1, <1>2, <1>4, PlanShape
     DEF InitialState, NoProgress, CandidateShape, Retained, State
<1>5. CASE framing.strategy \in {"SYNC_FIXED_LENGTH", "SYNC_LENGTH_FIELD"}
  BY <1>1, <1>2, <1>5, PlanShape
     DEF InitialState, NoProgress, CandidateShape, Retained, State, SyncStrategy
<1> QED
  BY <1>3, <1>4, <1>5, PlanShape DEF FramingStrategy

-----------------------------------------------------------------------------
(***************************************************************************)
(* Every action preserves the invariant.                                   *)
(***************************************************************************)

\* Assembles IInv' from the parts that the lemmas above establish.
LEMMA Assembled ==
    ASSUME TypeOK', CandidateShape', OfferHeld', ByteAccounting', NoInternalError'
    PROVE  IInv'
BY DEF IInv

\* A workspace as its constructor leaves it.
LEMMA InitEstablishes ==
    ASSUME Init
    PROVE  IInv
<1> USE DEF Init
<1>1. progress \in ProgressType
  BY PlanShape DEF NoProgress, ProgressType
<1>2. result \in ResultType
  BY LimitsAssumption DEF NewResult, ResultType, ApiStatus, StopReason
<1>3. state \in State
  BY PlanShape DEF InitialState, State, FramingStrategy
<1>4. TypeOK
  <2>1. FrameCapacity \in Nat
    BY PlanShape
  <2>2. \A S : << >> \in Seq(S)
    OBVIOUS
  <2>3. Len(buffer) <= FrameCapacity /\ base \in 0..Len(stream)
    BY <2>1
  <2> QED
    BY <1>1, <1>2, <1>3, <2>2, <2>3 DEF TypeOK
<1>5. CandidateShape
  BY PlanShape DEF InitialState, NoProgress, CandidateShape, SyncStrategy, FramingStrategy
<1>6. Retained = 0
  BY PlanShape DEF Retained, InitialState, NoProgress, FramingStrategy
<1>7. ByteAccounting
  BY <1>6 DEF ByteAccounting
<1> QED
  BY <1>4, <1>5, <1>7 DEF IInv, OfferHeld, NoInternalError, NewResult

\* Delivery hands over the whole buffer and starts a new candidate, whether the
\* sink continues or stops.
LEMMA DeliverPendingPreserves ==
    ASSUME IInv, DeliverPending
    PROVE  IInv'
<1> USE DEF IInv, TypeOK
<1>1. /\ state = "DELIVER_PENDING"
      /\ frames' = Append(frames, [from |-> Len(stream) - Len(buffer), bytes |-> buffer])
      /\ delivered' = delivered + Len(buffer)
      /\ ResetCandidate
      /\ UNCHANGED <<total_discarded, total_malformed, input, stream, base, dropped>>
      /\ in_push
  BY DEF DeliverPending, Turn
<1>2. PICK action \in {"CONTINUE", "STOP"} :
         /\ in_push' = (action = "CONTINUE")
         /\ result' = [result EXCEPT !.frames_delivered = @ + 1,
                                     !.stop_reason = IF action = "STOP" THEN "SINK_STOP" ELSE @]
  BY DEF DeliverPending
<1>3. result' \in ResultType
  <2>1. result \in ResultType
    OBVIOUS
  <2> DEFINE reason == IF action = "STOP" THEN "SINK_STOP" ELSE result.stop_reason
  <2>2. reason \in StopReason
    BY <2>1 DEF ResultType, StopReason
  <2>3. result' = [result EXCEPT !.frames_delivered = @ + 1, !.stop_reason = reason]
    BY <1>2
  <2>4. result.frames_delivered + 1 \in Nat
    BY <2>1 DEF ResultType
  <2> HIDE DEF reason
  <2> QED
    BY <2>1, <2>2, <2>3, <2>4, ResultStops
<1>4. OfferHeld' /\ NoInternalError'
  <2>1. /\ result'.bytes_consumed = result.bytes_consumed
        /\ result'.offered = result.offered
        /\ result'.api_status = result.api_status
    BY <1>2 DEF ResultType
  <2> QED
    BY <1>1, <2>1 DEF OfferHeld, NoInternalError
<1>5. Len(buffer) <= Len(stream) /\ Len(buffer) \in Nat /\ Len(stream) \in Nat
  BY <1>1 DEF ByteAccounting, Retained
<1>6. frames' \in Seq(FrameType)
  <2>1. [from |-> Len(stream) - Len(buffer), bytes |-> buffer] \in FrameType
    BY <1>5 DEF FrameType
  <2> QED
    BY <1>1, <2>1
<1>7. ByteAccounting'
  <2>1. Retained = Len(buffer)
    BY <1>1 DEF Retained
  <2>2. Retained' = 0
    BY <1>1, CandidateReset
  <2> QED
    BY <1>1, <1>5, <2>1, <2>2 DEF ByteAccounting
<1>8. TypeOK'
  BY <1>1, <1>2, <1>3, <1>5, <1>6, CandidateReset, PlanShape
<1> QED
  BY <1>1, <1>4, <1>7, <1>8, CandidateReset, Assembled

\* A record byte fits the buffer; a record that fills it is discarded whole.
LEMMA CollectAsciiPreserves ==
    ASSUME IInv, CollectAscii
    PROVE  IInv'
<1> USE DEF IInv, TypeOK
<1>1. /\ state = "COLLECT_ASCII" /\ in_push /\ ~InputExhausted
      /\ CanCharge(2)
      /\ Len(buffer) < FrameCapacity /\ Len(buffer) \in Nat
      /\ framing.strategy = "ASCII_CRLF"
  BY DEF CollectAscii, Turn, NeedsByte, NextCharge, CandidateShape
<1> DEFINE byte == Head(input)
           record == Append(buffer, byte)
           terminated == buffer # << >> /\ buffer[Len(buffer)] = CR /\ byte = LF
           tooLong == ~terminated /\ Len(record) = FrameCapacity
<1>2. /\ state' = IF terminated THEN "DELIVER_PENDING"
                  ELSE IF tooLong THEN "DISCARD_UNTIL_CRLF" ELSE state
      /\ buffer' = IF tooLong THEN << >> ELSE record
      /\ progress' = IF tooLong THEN [progress EXCEPT !.previous_was_cr = (byte = CR)]
                     ELSE progress
      /\ total_discarded' = total_discarded + IF tooLong THEN Len(record) ELSE 0
      /\ total_malformed' = total_malformed + IF tooLong THEN 1 ELSE 0
      /\ result' = ConsumedFor(2)
      /\ ConsumeByte
      /\ UNCHANGED in_push
  <2>1. ~(Len(buffer) >= FrameCapacity)
    BY <1>1, PlanShape
  <2> QED
    BY <2>1 DEF CollectAscii
<1>3. /\ byte \in Octet
      /\ result' \in ResultType /\ in_push' \in BOOLEAN /\ input' \in Seq(Bytes)
      /\ stream' \in Seq(Bytes) /\ Len(stream') = Len(stream) + 1
      /\ base' \in 0..Len(stream')
      /\ frames' \in Seq(FrameType)
      /\ delivered' = delivered /\ dropped' = dropped
      /\ OfferHeld' /\ NoInternalError'
  BY <1>1, <1>2, ByteConsumed
<1>4. record \in Seq(Octet) /\ Len(record) = Len(buffer) + 1
  BY <1>3
<1>5. progress' \in ProgressType
  BY <1>2 DEF ProgressType
<1> HIDE DEF byte, record
<1>6. TypeOK'
  <2>1. state' \in State
    BY <1>1, <1>2 DEF State
  <2>2. buffer' \in Seq(Octet) /\ Len(buffer') <= FrameCapacity
    BY <1>1, <1>2, <1>4, PlanShape
  <2>3. total_discarded' \in Nat /\ total_malformed' \in Nat
    BY <1>1, <1>2, <1>4
  <2> QED
    BY <1>3, <1>5, <2>1, <2>2, <2>3
<1>7. CandidateShape'
  BY <1>1, <1>2, <1>4, PlanShape DEF CandidateShape
<1>8. ByteAccounting'
  <2>1. Retained = Len(buffer)
    BY <1>1 DEF Retained
  <2>2. Retained' = Len(buffer')
    BY <1>1, <1>2 DEF Retained
  <2>3. Len(buffer') = IF tooLong THEN 0 ELSE Len(buffer) + 1
    BY <1>2, <1>4
  <2>4. total_discarded' = total_discarded + IF tooLong THEN Len(buffer) + 1 ELSE 0
    BY <1>2, <1>4
  <2> HIDE DEF tooLong
  <2> QED
    BY <1>1, <1>3, <2>1, <2>2, <2>3, <2>4 DEF ByteAccounting
<1> QED
  BY <1>3, <1>6, <1>7, <1>8, Assembled

\* Each byte of an overlong record is counted when it is consumed.
LEMMA DiscardUntilCrLfPreserves ==
    ASSUME IInv, DiscardUntilCrLf
    PROVE  IInv'
<1> USE DEF IInv, TypeOK
<1>1. /\ state = "DISCARD_UNTIL_CRLF" /\ in_push /\ ~InputExhausted
      /\ CanCharge(2)
      /\ buffer = << >> /\ framing.strategy = "ASCII_CRLF"
  BY DEF DiscardUntilCrLf, Turn, NeedsByte, NextCharge, CandidateShape
<1>2. /\ state' \in {"COLLECT_ASCII", state}
      /\ progress' = [progress EXCEPT !.previous_was_cr = (Head(input) = CR)]
      /\ total_discarded' = total_discarded + 1
      /\ result' = ConsumedFor(2)
      /\ ConsumeByte
      /\ UNCHANGED <<buffer, total_malformed, in_push>>
  BY DEF DiscardUntilCrLf
<1>3. /\ result' \in ResultType /\ in_push' \in BOOLEAN /\ input' \in Seq(Bytes)
      /\ stream' \in Seq(Bytes) /\ Len(stream') = Len(stream) + 1
      /\ base' \in 0..Len(stream')
      /\ frames' \in Seq(FrameType)
      /\ delivered' = delivered /\ dropped' = dropped
      /\ OfferHeld' /\ NoInternalError'
  BY <1>1, <1>2, ByteConsumed
<1>4. progress' \in ProgressType
  BY <1>2 DEF ProgressType
<1>5. TypeOK'
  <2>1. state' \in State
    BY <1>1, <1>2 DEF State
  <2>2. total_discarded' \in Nat
    BY <1>2
  <2> QED
    BY <1>2, <1>3, <1>4, <2>1, <2>2
<1>6. CandidateShape'
  <2>1. Len(buffer) < FrameCapacity
    BY <1>1, PlanShape
  <2> QED
    BY <1>1, <1>2, <2>1 DEF CandidateShape
<1>7. ByteAccounting'
  <2>1. Retained = 0 /\ Retained' = 0
    BY <1>1, <1>2 DEF Retained
  <2>2. total_discarded' \in Nat /\ total_discarded' + 0 = total_discarded + 0 + 1
    BY <1>2
  <2> QED
    BY <1>3, <2>1, <2>2, AccountKept
<1> QED
  BY <1>3, <1>5, <1>6, <1>7, Assembled

\* The copied sync bytes fit the buffer, and were counted when they were found.
LEMMA CopySyncBytePreserves ==
    ASSUME IInv, CopySyncByte
    PROVE  IInv'
<1> USE DEF IInv, TypeOK
<1>1. /\ state = "COPY_SYNC"
      /\ CanCharge(1)
      /\ progress.copy_sync_index \in Nat /\ progress.copy_sync_index < Len(Sync)
      /\ Len(buffer) = progress.copy_sync_index
      /\ SyncStrategy
  BY DEF CopySyncByte, Turn, NextCharge, CandidateShape, ProgressType
<1>2. Len(buffer) < FrameCapacity
  BY <1>1, PlanShape DEF SyncStrategy
<1>3. /\ buffer' = Append(buffer, Sync[progress.copy_sync_index + 1])
      /\ progress' = [progress EXCEPT !.copy_sync_index = @ + 1]
      /\ result' = Charged(1)
      /\ UNCHANGED <<state, total_discarded, total_malformed>>
      /\ UNCHANGED <<in_push, input, historyVars>>
  <2>1. ~(Len(buffer) >= FrameCapacity)
    BY <1>1, <1>2, PlanShape
  <2> QED
    BY <2>1 DEF CopySyncByte
<1>4. /\ buffer' \in Seq(Octet)
      /\ Len(buffer') = Len(buffer) + 1
  <2>1. Sync[progress.copy_sync_index + 1] \in Octet
    BY <1>1, PlanShape, ElementOfSeq
  <2> QED
    BY <1>3, <2>1
<1>5. progress' \in ProgressType /\ progress'.copy_sync_index = progress.copy_sync_index + 1
  <2>1. progress.copy_sync_index + 1 \in 0..Len(Sync)
    BY <1>1, PlanShape
  <2> QED
    BY <1>3, <2>1 DEF ProgressType
<1>6. TypeOK'
  <2>1. Len(buffer') <= FrameCapacity
    BY <1>2, <1>4, Ranges
  <2> QED
    BY <1>1, <1>3, <1>4, <1>5, <2>1, WorkCharged
<1>7. CandidateShape'
  BY <1>1, <1>3, <1>4, <1>5 DEF CandidateShape
<1>8. ByteAccounting'
  <2>1. Retained = Len(Sync) /\ Retained' = Len(Sync)
    BY <1>1, <1>3 DEF Retained
  <2> QED
    BY <1>1, <1>3, <2>1, WorkCharged DEF ByteAccounting
<1> QED
  BY <1>1, <1>3, <1>6, <1>7, <1>8, WorkCharged, Assembled

\* After the copy the buffer holds exactly the sync bytes, which is no more than
\* the smallest frame.
LEMMA CopySyncDonePreserves ==
    ASSUME IInv, CopySyncDone
    PROVE  IInv'
<1> USE DEF IInv, TypeOK
<1>1. /\ state = "COPY_SYNC"
      /\ SyncStrategy
      /\ Len(buffer) = Len(Sync)
      /\ UNCHANGED <<buffer, total_discarded, total_malformed, in_push, result, input, historyVars>>
  BY DEF CopySyncDone, Turn, CandidateShape
<1>2. Retained = Len(buffer)
  BY <1>1 DEF Retained
<1>3. CASE framing.strategy = "SYNC_FIXED_LENGTH"
  <2>1. /\ progress' = [progress EXCEPT !.copy_sync_index = 0,
                                        !.target_size = framing.frame_length_bytes]
        /\ state' = IF Len(buffer) = framing.frame_length_bytes
                    THEN "DELIVER_PENDING" ELSE "COLLECT_DECLARED"
    BY <1>3 DEF CopySyncDone
  <2>2. progress' \in ProgressType /\ progress'.target_size = FrameCapacity
    <3>1. framing.frame_length_bytes = FrameCapacity /\ FrameCapacity \in 0..FrameCapacity
      BY <1>3, PlanShape, Ranges
    <3> QED
      BY <2>1, <3>1, Ranges DEF ProgressType
  <2>3. CandidateShape'
    BY <1>1, <1>3, <2>1, <2>2, PlanShape DEF CandidateShape, SyncStrategy
  <2>4. Retained' = Len(buffer)
    BY <1>1, <2>1 DEF Retained
  <2>5. TypeOK'
    BY <1>1, <2>1, <2>2 DEF historyVars, State
  <2> QED
    BY <1>1, <1>2, <2>3, <2>4, <2>5, Assembled
       DEF historyVars, ByteAccounting, OfferHeld, NoInternalError
<1>4. CASE framing.strategy = "SYNC_LENGTH_FIELD"
  <2>1. /\ progress' = [progress EXCEPT !.copy_sync_index = 0]
        /\ state' = "READ_LENGTH"
    BY <1>4 DEF CopySyncDone
  <2>2. progress' \in ProgressType
    BY <2>1, Ranges DEF ProgressType
  <2>3. CandidateShape'
    BY <1>1, <1>4, <2>1, PlanShape DEF CandidateShape
  <2>4. Retained' = Len(buffer)
    BY <1>1, <2>1 DEF Retained
  <2>5. TypeOK'
    BY <1>1, <2>1, <2>2 DEF historyVars, State
  <2> QED
    BY <1>1, <1>2, <2>3, <2>4, <2>5, Assembled
       DEF historyVars, ByteAccounting, OfferHeld, NoInternalError
<1> QED
  BY <1>1, <1>3, <1>4 DEF SyncStrategy

\* A match found by the rescan lies inside the buffer, behind its first byte.
LEMMA RescanBytePreserves ==
    ASSUME IInv, RescanByte
    PROVE  IInv'
<1> USE DEF IInv, TypeOK
<1> DEFINE index == progress.rescan_index + 1
           match == NextMatch(progress.rescan_match, buffer[index])
           scanned == [progress EXCEPT !.rescan_index = index, !.rescan_match = match]
           start == index - Len(Sync)
<1>1. /\ state = "RESCAN_INVALID"
      /\ CanCharge(NextCharge)
      /\ result' = Charged(NextCharge)
      /\ UNCHANGED <<buffer, total_discarded, total_malformed>>
      /\ UNCHANGED <<in_push, input, historyVars>>
  BY DEF RescanByte, Turn
<1>2. /\ framing.strategy = "SYNC_LENGTH_FIELD"
      /\ Len(buffer) \in Nat /\ Len(buffer) <= HeaderEnd /\ Len(buffer) <= FrameCapacity
      /\ progress.rescan_index \in Nat /\ progress.rescan_match \in Nat
      /\ 1 <= progress.rescan_index /\ progress.rescan_index < Len(buffer)
      /\ progress.rescan_match < Len(Sync)
      /\ progress.rescan_match < progress.rescan_index
  BY <1>1 DEF CandidateShape, ProgressType, RescanByte
<1>3. progress.rescan_match \in 0..(Len(Sync) - 1)
  BY <1>2, PlanShape
<1>4. match \in 0..(progress.rescan_match + 1)
  BY <1>3, MatchStep
<1>5. NextCharge \in Nat
  BY <1>1, <1>2, <1>3, MatchStep DEF NextCharge
<1> HIDE DEF match
<1>6. index \in 1..Len(buffer) /\ match \in 0..Len(Sync) /\ match < index
  <2>1. Len(Sync) \in Nat
    BY Ranges
  <2> HIDE DEF IInv, TypeOK
  <2> QED
    BY <1>2, <1>4, <2>1
<1>7. scanned \in ProgressType /\ scanned.rescan_index = index /\ scanned.rescan_match = match
  <2>1. index \in 0..FrameCapacity
    <3> HIDE DEF IInv, TypeOK
    <3> QED
      BY <1>2, Ranges
  <2> HIDE DEF index
  <2> QED
    BY <1>6, <2>1 DEF ProgressType
<1>8. Retained = Len(buffer)
  BY <1>1 DEF Retained
<1>9. CASE match = Len(Sync)
  <2>1. /\ progress' = [scanned EXCEPT !.compact_start = start,
                                       !.compact_size = Len(buffer) - start,
                                       !.compact_moved = 0]
        /\ state' = "COMPACT_INVALID"
    BY <1>9 DEF RescanByte, match, start
  <2>2. /\ start \in 0..Len(buffer) /\ Len(buffer) - start \in 0..Len(buffer)
        /\ start + (Len(buffer) - start) = Len(buffer)
    <3> HIDE DEF index
    <3> QED
      BY <1>6, <1>9, <1>2, Ranges
  <2> HIDE DEF start
  <2>3. start \in 0..FrameCapacity /\ Len(buffer) - start \in 0..FrameCapacity
    BY <1>2, <2>2, Ranges
  <2>4. /\ progress' \in ProgressType
        /\ progress'.compact_start = start /\ progress'.compact_size = Len(buffer) - start
        /\ progress'.compact_moved = 0
    <3> HIDE DEF scanned
    <3> QED
      BY <1>7, <2>1, <2>3, Ranges DEF ProgressType
  <2>5. CandidateShape'
    <3>1. progress'.compact_start + progress'.compact_size = Len(buffer)
      BY <1>2, <2>2, <2>4
    <3> QED
      BY <1>1, <1>2, <2>1, <2>2, <2>4, <3>1 DEF CandidateShape
  <2>6. Retained' = Len(buffer)
    BY <1>1, <2>1 DEF Retained
  <2>7. TypeOK'
    BY <1>1, <1>5, <2>1, <2>4, WorkCharged DEF State
  <2>8. ByteAccounting'
    BY <1>1, <1>5, <1>8, <2>6, WorkCharged DEF ByteAccounting
  <2> QED
    BY <1>1, <1>5, <2>5, <2>7, <2>8, WorkCharged, Assembled
<1>10. CASE match # Len(Sync)
  <2>1. progress' = scanned /\ state' = state
    BY <1>10 DEF RescanByte, match
  <2>2. CandidateShape'
    <3>1. match < Len(Sync) /\ 1 <= index /\ index <= Len(buffer)
      BY <1>2, <1>6, <1>10, Ranges
    <3> HIDE DEF IInv, TypeOK, index, scanned
    <3> QED
      BY <1>1, <1>2, <1>6, <1>7, <2>1, <3>1 DEF CandidateShape
  <2>3. Retained' = Len(buffer)
    BY <1>1, <2>1 DEF Retained
  <2>4. TypeOK'
    BY <1>1, <1>5, <1>7, <2>1, WorkCharged DEF State
  <2>5. ByteAccounting'
    BY <1>1, <1>5, <1>8, <2>3, WorkCharged DEF ByteAccounting
  <2> QED
    BY <1>1, <1>5, <2>2, <2>4, <2>5, WorkCharged, Assembled
<1> QED
  BY <1>9, <1>10

\* At the end of a rescan the partial match is retained, the rest is discarded.
LEMMA RescanEndPreserves ==
    ASSUME IInv, RescanEnd
    PROVE  IInv'
<1> USE DEF IInv, TypeOK
<1>1. /\ state = "RESCAN_INVALID"
      /\ total_discarded' = total_discarded + Len(buffer) - progress.rescan_match
      /\ buffer' = << >>
      /\ progress' = [progress EXCEPT !.sync_match = progress.rescan_match,
                                      !.rescan_index = 0, !.rescan_match = 0]
      /\ state' = "SEARCH_SYNC"
      /\ UNCHANGED <<total_malformed, in_push, result, input, historyVars>>
  BY DEF RescanEnd, Turn
<1>2. /\ framing.strategy = "SYNC_LENGTH_FIELD"
      /\ Len(buffer) \in Nat
      /\ progress.rescan_match \in Nat /\ progress.rescan_match < Len(Sync)
      /\ progress.rescan_match < Len(buffer)
  BY <1>1 DEF CandidateShape, ProgressType, RescanEnd
<1>3. progress' \in ProgressType /\ progress'.sync_match = progress.rescan_match
  <2>1. progress.rescan_match \in 0..Len(Sync)
    BY <1>2, Ranges
  <2> QED
    BY <1>1, <2>1, Ranges DEF ProgressType
<1>4. TypeOK'
  <2>1. total_discarded' \in Nat
    BY <1>1, <1>2
  <2>2. buffer' \in Seq(Octet) /\ Len(buffer') <= FrameCapacity
    BY <1>1, PlanShape
  <2> QED
    BY <1>1, <1>3, <2>1, <2>2 DEF State, historyVars
<1>5. CandidateShape'
  BY <1>1, <1>2, <1>3 DEF CandidateShape, SyncStrategy
<1>6. ByteAccounting'
  <2>1. Retained = Len(buffer) /\ Retained' = progress.rescan_match
    BY <1>1, <1>3 DEF Retained
  <2>2. stream' = stream /\ delivered' = delivered /\ dropped' = dropped
    BY <1>1 DEF historyVars
  <2>3. /\ total_discarded' \in Nat
        /\ total_discarded' + progress.rescan_match = total_discarded + Len(buffer) + 0
        /\ Len(stream) = Len(stream) + 0
    <3>1. total_discarded \in Nat /\ Len(stream) \in Nat
      OBVIOUS
    <3> HIDE DEF IInv, TypeOK
    <3> QED
      BY <1>1, <1>2, <3>1
  <2> QED
    BY <1>2, <2>1, <2>2, <2>3, AccountKept
<1> QED
  BY <1>1, <1>4, <1>5, <1>6, Assembled DEF OfferHeld, NoInternalError, historyVars

\* A move that the budget interrupts keeps all bytes; the finished one discards
\* those before the new candidate.
LEMMA CompactInvalidPreserves ==
    ASSUME IInv, CompactInvalid
    PROVE  IInv'
<1> USE DEF IInv, TypeOK
<1> DEFINE remaining == progress.compact_size - progress.compact_moved
           budget == MaxWorkUnits - result.work_units_used
           chunk == Min({remaining, budget})
           done == chunk = remaining
<1>1. /\ state = "COMPACT_INVALID" /\ in_push
      /\ buffer' = IF done THEN SubSeq(Moved(chunk), 1, progress.compact_size) ELSE Moved(chunk)
      /\ progress' = IF done
                     THEN [progress EXCEPT !.compact_start = 0, !.compact_size = 0,
                                           !.compact_moved = 0, !.rescan_index = 0,
                                           !.rescan_match = 0]
                     ELSE [progress EXCEPT !.compact_moved = @ + chunk]
      /\ state' = IF done THEN "READ_LENGTH" ELSE state
      /\ total_discarded' = total_discarded + IF done THEN progress.compact_start ELSE 0
      /\ in_push' = done
      /\ result' = [result EXCEPT !.work_units_used = @ + chunk,
                                  !.stop_reason = IF done THEN @ ELSE "WORK_BUDGET_REACHED"]
      /\ UNCHANGED <<total_malformed, input, historyVars>>
  BY DEF CompactInvalid, Turn
<1>2. /\ framing.strategy = "SYNC_LENGTH_FIELD"
      /\ Len(buffer) \in Nat /\ Len(buffer) <= HeaderEnd /\ Len(buffer) <= FrameCapacity
      /\ progress.compact_start \in Nat /\ progress.compact_size \in Nat
      /\ progress.compact_moved \in Nat
      /\ progress.compact_start + progress.compact_size = Len(buffer)
      /\ progress.compact_moved <= progress.compact_size
  BY <1>1 DEF CandidateShape, ProgressType
<1>3. budget \in Nat /\ remaining \in Nat
  <2>1. result.work_units_used \in 0..MaxWorkUnits /\ MaxWorkUnits \in Nat
    BY LimitsAssumption DEF ResultType
  <2> HIDE DEF IInv, TypeOK
  <2> QED
    BY <1>2, <2>1
<1>4. /\ chunk \in Nat /\ chunk <= budget
      /\ progress.compact_moved + chunk <= progress.compact_size
  <2>1. chunk \in Nat /\ chunk <= remaining /\ chunk <= budget
    BY <1>3, MinOfTwo
  <2> HIDE DEF chunk
  <2> QED
    BY <1>2, <2>1
<1> HIDE DEF chunk, done
<1>5. result' \in ResultType
  <2>1. result.work_units_used + chunk \in 0..MaxWorkUnits
    BY <1>4, LimitsAssumption DEF ResultType
  <2> DEFINE reason == IF done THEN result.stop_reason ELSE "WORK_BUDGET_REACHED"
  <2>2. reason \in StopReason
    BY DEF ResultType, StopReason
  <2>3. result' = [result EXCEPT !.work_units_used = @ + chunk, !.stop_reason = reason]
    BY <1>1
  <2> HIDE DEF reason
  <2> QED
    BY <2>1, <2>2, <2>3 DEF ResultType
<1>6. OfferHeld' /\ NoInternalError'
  <2>1. /\ result'.bytes_consumed = result.bytes_consumed
        /\ result'.offered = result.offered
        /\ result'.api_status = result.api_status
    BY <1>1 DEF ResultType
  <2> QED
    BY <1>1, <2>1 DEF OfferHeld, NoInternalError
<1>7. Moved(chunk) \in Seq(Octet) /\ Len(Moved(chunk)) = Len(buffer)
  <2>1. \A i \in 1..Len(buffer) :
           (IF i \in (progress.compact_moved + 1)..(progress.compact_moved + chunk)
            THEN buffer[progress.compact_start + i] ELSE buffer[i]) \in Octet
    <3> TAKE i \in 1..Len(buffer)
    <3>1. CASE i \in (progress.compact_moved + 1)..(progress.compact_moved + chunk)
      <4>1. progress.compact_start + i \in 1..Len(buffer)
        <5>1. i \in Nat /\ 1 <= i /\ i <= progress.compact_size
          BY <1>2, <1>4, <3>1
        <5> HIDE DEF IInv, TypeOK
        <5> QED
          BY <1>2, <5>1
      <4> QED
        BY <3>1, <4>1, ElementOfSeq
    <3>2. CASE i \notin (progress.compact_moved + 1)..(progress.compact_moved + chunk)
      BY <3>2, ElementOfSeq
    <3> QED
      BY <3>1, <3>2
  <2>2. Moved(chunk) \in [1..Len(buffer) -> Octet]
    BY <2>1 DEF Moved
  <2> HIDE DEF Moved
  <2>3. Moved(chunk) \in Seq(Octet)
    BY <1>2, <2>2, SeqDef
  <2>4. DOMAIN Moved(chunk) = 1..Len(buffer)
    BY <2>2
  <2> QED
    BY <1>2, <2>3, <2>4, LenProperties
<1>8. Retained = Len(buffer)
  BY <1>1 DEF Retained
<1>9. CASE done
  <2>1. /\ buffer' = SubSeq(Moved(chunk), 1, progress.compact_size)
        /\ progress' = [progress EXCEPT !.compact_start = 0, !.compact_size = 0,
                                        !.compact_moved = 0, !.rescan_index = 0,
                                        !.rescan_match = 0]
        /\ state' = "READ_LENGTH"
        /\ total_discarded' = total_discarded + progress.compact_start
    BY <1>1, <1>9
  <2>2. buffer' \in Seq(Octet) /\ Len(buffer') = progress.compact_size
    <3>1. progress.compact_size <= Len(Moved(chunk))
      BY <1>2, <1>7
    <3> HIDE DEF Moved, IInv, TypeOK
    <3> QED
      BY <1>2, <1>7, <2>1, <3>1, SubSeqProperties
  <2>3. progress' \in ProgressType
    BY <2>1, Ranges DEF ProgressType
  <2>4. TypeOK'
    <3>1. Len(buffer') <= FrameCapacity
      BY <1>2, <2>2, Ranges
    <3>2. total_discarded' \in Nat
      <4>1. total_discarded \in Nat
        OBVIOUS
      <4> HIDE DEF IInv, TypeOK
      <4> QED
        BY <1>2, <2>1, <4>1
    <3>3. state' \in State /\ in_push' \in BOOLEAN
      BY <1>1, <1>9, <2>1 DEF State
    <3> QED
      BY <1>1, <1>5, <2>2, <2>3, <3>1, <3>2, <3>3 DEF historyVars
  <2>5. CandidateShape'
    <3>1. Len(buffer') <= HeaderEnd
      BY <1>2, <2>2, Ranges
    <3> QED
      BY <1>2, <2>1, <3>1 DEF CandidateShape
  <2>6. ByteAccounting'
    <3>1. Retained' = progress.compact_size
      BY <2>1, <2>2 DEF Retained
    <3>2. stream' = stream /\ delivered' = delivered /\ dropped' = dropped
      BY <1>1 DEF historyVars
    <3>3. /\ progress.compact_size \in Nat /\ Len(buffer) \in Nat
          /\ total_discarded' \in Nat
          /\ total_discarded' + progress.compact_size = total_discarded + Len(buffer) + 0
          /\ Len(stream) = Len(stream) + 0
      <4>1. total_discarded \in Nat /\ Len(stream) \in Nat
        OBVIOUS
      <4> HIDE DEF IInv, TypeOK
      <4> QED
        BY <1>2, <2>1, <4>1
    <3> QED
      BY <1>8, <3>1, <3>2, <3>3, AccountKept
  <2> QED
    BY <1>6, <2>4, <2>5, <2>6, Assembled
<1>10. CASE ~done
  <2>1. /\ buffer' = Moved(chunk)
        /\ progress' = [progress EXCEPT !.compact_moved = @ + chunk]
        /\ state' = state
        /\ total_discarded' = total_discarded
    BY <1>1, <1>10
  <2>2. progress.compact_moved + chunk \in 0..progress.compact_size
    BY <1>2, <1>4
  <2>3. /\ progress' \in ProgressType
        /\ progress'.compact_moved = progress.compact_moved + chunk
        /\ progress'.compact_start = progress.compact_start
        /\ progress'.compact_size = progress.compact_size
    <3>1. progress.compact_moved + chunk \in 0..FrameCapacity
      BY <1>2, <2>2, Ranges
    <3> QED
      BY <2>1, <3>1 DEF ProgressType
  <2>4. TypeOK'
    BY <1>1, <1>2, <1>5, <1>7, <2>1, <2>3 DEF State, historyVars, done
  <2>5. CandidateShape'
    BY <1>1, <1>2, <1>7, <2>1, <2>2, <2>3 DEF CandidateShape
  <2>6. ByteAccounting'
    <3>1. Retained' = Len(buffer)
      BY <1>1, <1>7, <2>1 DEF Retained
    <3> QED
      BY <1>1, <1>8, <2>1, <3>1 DEF ByteAccounting, historyVars
  <2> QED
    BY <1>6, <2>4, <2>5, <2>6, Assembled
<1> QED
  BY <1>9, <1>10

\* A byte of input that still fits is appended, in the header or the body.
LEMMA BytePutPreserves ==
    ASSUME IInv, in_push, ~InputExhausted, CanCharge(2),
           state \in {"READ_LENGTH", "COLLECT_FIXED", "COLLECT_DECLARED"},
           Len(buffer) < FrameCapacity,
           state = "READ_LENGTH" => Len(buffer) < HeaderEnd,
           state = "COLLECT_DECLARED" => Len(buffer) < progress.target_size,
           buffer' = Append(buffer, Head(input)), result' = ConsumedFor(2), ConsumeByte,
           UNCHANGED <<state, progress, total_discarded, total_malformed, in_push>>
    PROVE  IInv'
<1> USE DEF IInv, TypeOK
<1>1. /\ Head(input) \in Octet
      /\ result' \in ResultType /\ in_push' \in BOOLEAN /\ input' \in Seq(Bytes)
      /\ stream' \in Seq(Bytes) /\ Len(stream') = Len(stream) + 1
      /\ base' \in 0..Len(stream')
      /\ frames' \in Seq(FrameType)
      /\ delivered' = delivered /\ dropped' = dropped
      /\ OfferHeld' /\ NoInternalError'
  BY ByteConsumed
<1>2. buffer' \in Seq(Octet) /\ Len(buffer') = Len(buffer) + 1 /\ Len(buffer) \in Nat
  BY <1>1
<1>3. TypeOK'
  <2>1. Len(buffer') <= FrameCapacity
    BY <1>2, Ranges
  <2> QED
    BY <1>1, <1>2, <2>1
<1>4. CandidateShape'
  <2>1. progress.target_size \in Nat
    BY DEF ProgressType
  <2> QED
    BY <1>2, <2>1, Ranges DEF CandidateShape
<1>5. ByteAccounting'
  <2>1. Retained = Len(buffer) /\ Retained' = Len(buffer) + 1
    BY <1>2 DEF Retained
  <2> QED
    BY <1>1, <1>2, <2>1 DEF ByteAccounting
<1> QED
  BY <1>1, <1>3, <1>4, <1>5, Assembled

\* A header byte always fits: the header is no longer than the smallest frame.
LEMMA ReadHeaderBytePreserves ==
    ASSUME IInv, ReadHeaderByte
    PROVE  IInv'
<1> USE DEF IInv, TypeOK
<1>1. /\ state = "READ_LENGTH" /\ in_push /\ ~InputExhausted
      /\ CanCharge(2)
      /\ Len(buffer) < HeaderEnd
      /\ framing.strategy = "SYNC_LENGTH_FIELD"
  BY DEF ReadHeaderByte, Turn, NeedsByte, NextCharge, CandidateShape
<1>2. Len(buffer) < FrameCapacity /\ ~(Len(buffer) >= FrameCapacity)
  <2>1. HeaderEnd <= FrameCapacity
    BY <1>1, PlanShape
  <2> QED
    BY <1>1, <2>1, Ranges
<1> QED
  BY <1>1, <1>2, BytePutPreserves DEF ReadHeaderByte

\* A body byte always fits: the target was checked against the capacity.
LEMMA CollectBytePreserves ==
    ASSUME IInv, CollectByte
    PROVE  IInv'
<1> USE DEF IInv, TypeOK
<1>1. /\ state \in {"COLLECT_FIXED", "COLLECT_DECLARED"} /\ in_push /\ ~InputExhausted
      /\ CanCharge(2)
      /\ Len(buffer) # progress.target_size
  BY DEF CollectByte, Turn, NeedsByte, NextCharge
<1>2. progress.target_size \in 0..FrameCapacity
  BY DEF ProgressType
<1>3. Len(buffer) < progress.target_size
  BY <1>1, <1>2, Ranges DEF CandidateShape
<1>4. Len(buffer) < FrameCapacity /\ ~(Len(buffer) >= FrameCapacity)
  BY <1>2, <1>3, Ranges
<1> QED
  BY <1>1, <1>3, <1>4, BytePutPreserves DEF CollectByte

\* A complete frame waits for delivery as it is.
LEMMA CollectDonePreserves ==
    ASSUME IInv, CollectDone
    PROVE  IInv'
<1> USE DEF IInv, TypeOK
<1>1. /\ state \in {"COLLECT_FIXED", "COLLECT_DECLARED"}
      /\ state' = "DELIVER_PENDING"
      /\ UNCHANGED <<buffer, progress, total_discarded, total_malformed, in_push, result, input,
                     historyVars>>
  BY DEF CollectDone, Turn
<1>2. TypeOK'
  BY <1>1 DEF State, historyVars
<1>3. CandidateShape'
  BY <1>1 DEF CandidateShape
<1>4. ByteAccounting'
  <2>1. Retained' = Retained
    BY <1>1 DEF Retained
  <2> QED
    BY <1>1, <2>1 DEF ByteAccounting, historyVars
<1> QED
  BY <1>1, <1>2, <1>3, <1>4, Assembled DEF OfferHeld, NoInternalError

\* The declared length becomes the target only inside the plan's bounds.
LEMMA ReadLengthPreserves ==
    ASSUME IInv, ReadLength
    PROVE  IInv'
<1> USE DEF IInv, TypeOK
<1> DEFINE declared == DeclaredLength(buffer)
<1>1. /\ state = "READ_LENGTH" /\ ~NeedsByte
      /\ CanCharge(framing.length_field_width)
      /\ framing.strategy = "SYNC_LENGTH_FIELD"
      /\ Len(buffer) \in Nat /\ Len(buffer) <= HeaderEnd
      /\ result' = Charged(framing.length_field_width)
      /\ UNCHANGED <<buffer, total_discarded>>
      /\ UNCHANGED <<in_push, input, historyVars>>
  BY DEF ReadLength, Turn, NextCharge, CandidateShape
<1>2. Len(buffer) = HeaderEnd /\ framing.length_field_width \in Nat
  BY <1>1, PlanShape DEF NeedsByte
<1>3. declared \in Nat
  BY <1>1, <1>2, DeclaredLengthNat
<1> HIDE DEF declared
<1>4. Retained = Len(buffer)
  BY <1>1 DEF Retained
<1>5. CASE LengthAccepted(declared)
  <2>1. /\ progress' = [progress EXCEPT !.target_size = declared]
        /\ state' \in {"DELIVER_PENDING", "COLLECT_DECLARED"}
        /\ total_malformed' = total_malformed
    BY <1>5 DEF ReadLength, declared
  <2>2. declared \in 0..FrameCapacity /\ Len(buffer) <= declared
    BY <1>1, <1>2, <1>3, <1>5, PlanShape DEF LengthAccepted
  <2>3. progress' \in ProgressType /\ progress'.target_size = declared
    BY <2>1, <2>2 DEF ProgressType
  <2>4. TypeOK'
    BY <1>1, <1>2, <2>1, <2>3, WorkCharged DEF State
  <2>5. CandidateShape'
    BY <1>1, <2>1, <2>2, <2>3 DEF CandidateShape, SyncStrategy
  <2>6. ByteAccounting'
    <3>1. Retained' = Len(buffer)
      BY <1>1, <2>1 DEF Retained
    <3> QED
      BY <1>1, <1>2, <1>4, <3>1, WorkCharged DEF ByteAccounting
  <2> QED
    BY <1>1, <1>2, <2>4, <2>5, <2>6, WorkCharged, Assembled
<1>6. CASE ~LengthAccepted(declared)
  <2>1. /\ progress' = [progress EXCEPT !.rescan_index = 1, !.rescan_match = 0]
        /\ state' = "RESCAN_INVALID"
        /\ total_malformed' = total_malformed + 1
    BY <1>6 DEF ReadLength, declared
  <2>2. 1 \in 0..FrameCapacity /\ 1 <= Len(buffer) /\ 0 < Len(Sync)
    BY <1>1, <1>2, PlanShape
  <2>3. progress' \in ProgressType /\ progress'.rescan_index = 1 /\ progress'.rescan_match = 0
    BY <2>1, <2>2, Ranges DEF ProgressType
  <2>4. TypeOK'
    BY <1>1, <1>2, <2>1, <2>3, WorkCharged, SMTT(30) DEF State
  <2>5. CandidateShape'
    BY <1>1, <2>1, <2>2, <2>3 DEF CandidateShape
  <2>6. ByteAccounting'
    <3>1. Retained' = Len(buffer)
      BY <1>1, <2>1 DEF Retained
    <3> QED
      BY <1>1, <1>2, <1>4, <3>1, WorkCharged DEF ByteAccounting
  <2> QED
    BY <1>1, <1>2, <2>4, <2>5, <2>6, WorkCharged, Assembled
<1> QED
  BY <1>5, <1>6

\* A byte that breaks a partial match discards what the match no longer covers.
LEMMA SearchSyncPreserves ==
    ASSUME IInv, SearchSync
    PROVE  IInv'
<1> USE DEF IInv, TypeOK
<1> DEFINE old == progress.sync_match
           match == NextMatch(old, Head(input))
<1>1. /\ state = "SEARCH_SYNC" /\ in_push /\ ~InputExhausted
      /\ CanCharge(NextCharge)
      /\ result' = ConsumedFor(NextCharge)
      /\ ConsumeByte
      /\ UNCHANGED <<total_malformed, in_push>>
      /\ SyncStrategy
      /\ old \in Nat /\ old < Len(Sync)
  BY DEF SearchSync, Turn, NeedsByte, CandidateShape, ProgressType
<1>2. old \in 0..(Len(Sync) - 1)
  BY <1>1, Ranges
<1>3. match \in 0..(old + 1)
  BY <1>2, MatchStep
<1>4. NextCharge \in Nat
  BY <1>1, <1>2, MatchStep DEF NextCharge
<1>5. /\ result' \in ResultType /\ in_push' \in BOOLEAN /\ input' \in Seq(Bytes)
      /\ stream' \in Seq(Bytes) /\ Len(stream') = Len(stream) + 1
      /\ base' \in 0..Len(stream')
      /\ frames' \in Seq(FrameType)
      /\ delivered' = delivered /\ dropped' = dropped
      /\ OfferHeld' /\ NoInternalError'
  BY <1>1, <1>4, ByteConsumed
<1>6. Retained = old
  BY <1>1 DEF Retained
<1> HIDE DEF match
<1>7. CASE match = Len(Sync)
  <2>1. /\ state' = "COPY_SYNC"
        /\ progress' = [progress EXCEPT !.sync_match = 0, !.copy_sync_index = 0]
        /\ buffer' = << >>
        /\ total_discarded' = total_discarded
    BY <1>7 DEF SearchSync, match
  <2>2. progress' \in ProgressType /\ progress'.copy_sync_index = 0
    BY <2>1, Ranges DEF ProgressType
  <2>3. Len(Sync) = old + 1
    BY <1>1, <1>3, <1>7, Ranges
  <2>4. TypeOK'
    <3>1. buffer' \in Seq(Octet) /\ Len(buffer') <= FrameCapacity
      BY <2>1, Ranges
    <3> QED
      BY <1>1, <1>5, <2>1, <2>2, <3>1 DEF State
  <2>5. CandidateShape'
    BY <1>1, <2>1, <2>2 DEF CandidateShape
  <2>6. ByteAccounting'
    <3>1. Retained' = old + 1
      BY <2>1, <2>3 DEF Retained
    <3>2. total_discarded' \in Nat /\ total_discarded' + (old + 1) = total_discarded + old + 1
      <4>1. total_discarded \in Nat /\ old \in Nat
        BY <1>1
      <4> HIDE DEF IInv, TypeOK, old
      <4> QED
        BY <2>1, <4>1
    <3>3. old \in Nat /\ old + 1 \in Nat
      BY <1>1
    <3> HIDE DEF old
    <3> QED
      BY <1>5, <1>6, <3>1, <3>2, <3>3, AccountKept
  <2> QED
    BY <1>5, <2>4, <2>5, <2>6, Assembled
<1>8. CASE match # Len(Sync)
  <2>1. /\ progress' = [progress EXCEPT !.sync_match = match]
        /\ total_discarded' = total_discarded + old + 1 - match
        /\ UNCHANGED <<state, buffer>>
    BY <1>8 DEF SearchSync, match
  <2>2. match \in 0..Len(Sync) /\ match < Len(Sync)
    BY <1>1, <1>3, <1>8, Ranges
  <2>3. progress' \in ProgressType /\ progress'.sync_match = match
    BY <2>1, <2>2 DEF ProgressType
  <2>4. total_discarded' \in Nat
    <3>1. total_discarded \in Nat /\ old \in Nat
      BY <1>1
    <3> HIDE DEF IInv, TypeOK, old
    <3> QED
      BY <1>3, <2>1, <3>1
  <2>5. TypeOK'
    BY <1>1, <1>5, <2>1, <2>3, <2>4
  <2>6. CandidateShape'
    BY <1>1, <2>1, <2>2, <2>3 DEF CandidateShape
  <2>7. ByteAccounting'
    <3>1. Retained' = match
      BY <1>1, <2>1, <2>3 DEF Retained
    <3>2. match \in Nat /\ total_discarded' + match = total_discarded + old + 1
      <4>1. total_discarded \in Nat /\ old \in Nat
        BY <1>1
      <4> HIDE DEF IInv, TypeOK, old
      <4> QED
        BY <1>3, <2>1, <4>1
    <3> QED
      BY <1>1, <1>5, <1>6, <2>4, <3>1, <3>2, AccountKept
  <2> QED
    BY <1>5, <2>5, <2>6, <2>7, Assembled
<1> QED
  BY <1>7, <1>8

\* A call that returns to its caller changes nothing but its own result.
LEMMA ReturnPreserves ==
    ASSUME IInv, NEW reason \in StopReason, Return(reason),
           UNCHANGED <<workspaceVars, input, historyVars>>
    PROVE  IInv'
<1> USE DEF IInv, TypeOK
<1>1. result' \in ResultType
  BY ResultStops DEF Return
<1>2. result'.api_status = result.api_status /\ in_push' = FALSE
  BY DEF Return, ResultType
<1> QED
  BY <1>1, <1>2, OnlyCallChanges DEF OfferHeld, NoInternalError

\* Arriving bytes and the entry checks of a call leave the workspace alone.
LEMMA CallerPreserves ==
    ASSUME IInv,
           \/ \E byte \in Bytes : Arrive(byte)
           \/ \E offered \in 0..Len(input) : Push(offered)
    PROVE  IInv'
<1> USE DEF IInv, TypeOK
<1>1. ASSUME NEW byte \in Bytes, Arrive(byte)
      PROVE  IInv'
  <2>1. input' \in Seq(Bytes)
    BY <1>1 DEF Arrive
  <2> QED
    BY <1>1, <2>1, OnlyCallChanges DEF Arrive, OfferHeld, NoInternalError
<1>2. ASSUME NEW offered \in 0..Len(input), Push(offered)
      PROVE  IInv'
  <2>1. \A s \in {"OK", "LIMIT_EXCEEDED"} : NewResult(s, offered) \in ResultType
    BY LimitsAssumption DEF NewResult, ResultType, ApiStatus, StopReason
  <2>2. \A s \in {"OK", "LIMIT_EXCEEDED"} :
           /\ NewResult(s, offered).bytes_consumed = 0
           /\ NewResult(s, offered).offered = offered
           /\ NewResult(s, offered).api_status = s
    BY DEF NewResult
  <2>3. PICK s \in {"OK", "LIMIT_EXCEEDED"} : result' = NewResult(s, offered)
    BY <1>2 DEF Push
  <2>4. in_push' \in BOOLEAN /\ UNCHANGED <<workspaceVars, input, historyVars>>
    BY <1>2 DEF Push
  <2>5. OfferHeld'
    <3>1. Len(input) \in Nat
      OBVIOUS
    <3> QED
      BY <2>2, <2>3, <2>4, <3>1 DEF OfferHeld
  <2>6. NoInternalError'
    BY <2>2, <2>3 DEF NoInternalError
  <2> QED
    BY <2>1, <2>3, <2>4, <2>5, <2>6, OnlyCallChanges
<1> QED
  BY <1>1, <1>2

\* ResetStreamFramingWorkspace drops what was retained and keeps the totals.
LEMMA ResetPreserves ==
    ASSUME IInv, Reset
    PROVE  IInv'
<1> USE DEF IInv, TypeOK
<1>1. /\ ResetCandidate
      /\ result' = NewResult("OK", 0) /\ ~in_push'
      /\ base' = Len(stream) /\ dropped' = dropped + Retained
      /\ UNCHANGED <<total_discarded, total_malformed, in_push, input, stream, frames, delivered>>
  BY DEF Reset
<1>2. result' \in ResultType
  BY <1>1, LimitsAssumption DEF NewResult, ResultType, ApiStatus, StopReason
<1>3. Retained \in Nat
  BY Ranges DEF Retained, ProgressType
<1>4. TypeOK'
  <2>1. base' \in 0..Len(stream') /\ dropped' \in Nat
    BY <1>1, <1>3
  <2>2. Len(buffer') <= FrameCapacity
    BY <1>1, CandidateReset, Ranges
  <2> QED
    BY <1>1, <1>2, <2>1, <2>2, CandidateReset
<1>5. ByteAccounting'
  <2>1. Retained' = 0
    BY <1>1, CandidateReset
  <2>2. delivered \in Nat /\ total_discarded \in Nat /\ dropped \in Nat
    OBVIOUS
  <2>3. Len(stream) = delivered + total_discarded + dropped + Retained
    BY DEF ByteAccounting
  <2> HIDE DEF IInv, TypeOK
  <2>4. Len(stream) = delivered + total_discarded + (dropped + Retained) + 0
    BY <1>3, <2>2, <2>3
  <2> QED
    BY <1>1, <2>1, <2>4 DEF ByteAccounting
<1>6. OfferHeld' /\ NoInternalError'
  BY <1>1 DEF OfferHeld, NoInternalError, NewResult
<1> QED
  BY <1>1, <1>4, <1>5, <1>6, CandidateReset, Assembled

\* Every turn of the loop of PushStreamChunk preserves the invariant.
LEMMA LoopTurnPreserves ==
    ASSUME IInv, LoopTurn
    PROVE  IInv'
<1>1. CASE BudgetStop
  BY <1>1, ReturnPreserves DEF BudgetStop, StopReason
<1>2. CASE InputStop
  <2> DEFINE reason == IF HasInternalWork THEN "WORK_BUDGET_REACHED"
                       ELSE IF HasHalfFrame THEN "NEED_MORE" ELSE "INPUT_EXHAUSTED"
  <2>1. reason \in StopReason
    BY DEF StopReason
  <2>2. Return(reason) /\ UNCHANGED <<workspaceVars, input, historyVars>>
    BY <1>2 DEF InputStop
  <2> HIDE DEF reason
  <2> QED
    BY <2>1, <2>2, ReturnPreserves
<1> QED
  BY <1>1, <1>2, DeliverPendingPreserves, CollectAsciiPreserves, DiscardUntilCrLfPreserves,
     CopySyncBytePreserves, CopySyncDonePreserves, RescanBytePreserves, RescanEndPreserves,
     CompactInvalidPreserves, ReadHeaderBytePreserves, ReadLengthPreserves,
     CollectBytePreserves, CollectDonePreserves, SearchSyncPreserves
     DEF LoopTurn

\* Steps of other components do not disturb it.
LEMMA StutterPreserves ==
    ASSUME IInv, UNCHANGED vars
    PROVE  IInv'
BY OnlyCallChanges DEF vars, IInv, TypeOK, OfferHeld, NoInternalError

\* The invariant holds in every reachable state, for every accepted plan,
\* every admitted budget and every way to cut a stream into chunks.
THEOREM Invariance == Spec => []IInv
<1>1. Init => IInv
  BY InitEstablishes
<1>2. IInv /\ [Next]_vars => IInv'
  BY LoopTurnPreserves, CallerPreserves, ResetPreserves, StutterPreserves DEF Next
<1> QED
  BY <1>1, <1>2, PTL DEF Spec

\* The buffered bytes never exceed the buffer allocated at creation, the work
\* of a call never exceeds its budget, and every variable keeps its type.
THEOREM TypeCorrect == Spec => []TypeOK
<1>1. IInv => TypeOK
  BY DEF IInv
<1> QED
  BY <1>1, Invariance, PTL

\* Every consumed byte is delivered, discarded, dropped by a reset or retained,
\* exactly once, at every stop of a call and between any two turns of its loop.
THEOREM BytesAccounted == Spec => []ByteAccounting
<1>1. IInv => ByteAccounting
  BY DEF IInv
<1> QED
  BY <1>1, Invariance, PTL

\* The fail-closed INTERNAL_ERROR returns of PushStreamChunk are dead code for
\* plans the builder accepted.
THEOREM InternalErrorUnreachable == Spec => []NoInternalError
<1>1. IInv => NoInternalError
  BY DEF IInv
<1> QED
  BY <1>1, Invariance, PTL
=============================================================================
