----------------------------- MODULE FramingPlan -----------------------------
(***************************************************************************)
(* The frozen framing descriptor a Pipeline refers to (FrozenFramingPlan), *)
(* the admission rules the plan builder re-checks before it publishes a    *)
(* plan, and the pure operators on it: the sync automaton step and the     *)
(* length field.  A byte offset of the code is 0-based; index i of a       *)
(* sequence here is offset i - 1 there.                                    *)
(***************************************************************************)
EXTENDS Integers, Sequences, FiniteSetsExt

CONSTANTS framing,   \* the FrozenFramingPlan record
          Bytes      \* the byte values the stream may carry

Octet == 0..255
CR == 13
LF == 10

FramingStrategy ==
    {"FIXED_LENGTH", "SYNC_FIXED_LENGTH", "SYNC_LENGTH_FIELD", "ASCII_CRLF"}

Sync == framing.sync_bytes

HeaderEnd == framing.length_field_offset + framing.length_field_width

\* The workspace buffer is allocated once, with this many bytes.
FrameCapacity ==
    IF framing.strategy \in {"SYNC_LENGTH_FIELD", "ASCII_CRLF"}
    THEN framing.maximum_frame_length
    ELSE framing.frame_length_bytes

(***************************************************************************)
(* The sync automaton.  The fallback loop                                  *)
(*   while (m != 0 && byte != sync[m]) m = prefix[m - 1]                   *)
(* visits the least set that holds m and is closed under the prefix table; *)
(* it strictly decreases, so it stops at the largest member that can be    *)
(* extended by the byte, or at 0.                                          *)
(***************************************************************************)
PrefixClosed(S) == \A k \in S \ {0} : framing.sync_prefix_table[k] \in S

FallbackChain(m) ==
    {k \in 0..m : \A S \in SUBSET (0..m) : (m \in S /\ PrefixClosed(S)) => k \in S}

Extends(k, byte) == Sync[k + 1] = byte

FallbackTo(m, byte) == Max({k \in FallbackChain(m) : k = 0 \/ Extends(k, byte)})

\* Mutant: a mismatch restarts at the first sync byte instead of falling back.
NextMatch_Restart(m, byte) ==
    IF Extends(m, byte) THEN m + 1 ELSE IF Extends(0, byte) THEN 1 ELSE 0

NextMatch(m, byte) ==
    LET k == FallbackTo(m, byte) IN IF Extends(k, byte) THEN k + 1 ELSE k

\* One unit for the byte, one for the last comparison, two for every fallback.
MatchUnits(m, byte) ==
    2 + 2 * Cardinality({k \in FallbackChain(m) : k > FallbackTo(m, byte)})

(***************************************************************************)
(* The declared total frame length, most significant byte first after the  *)
(* byte order is undone.  The builder admits the widths 1, 2 and 4 only.   *)
(***************************************************************************)
LengthByte(bytes, i) ==
    bytes[framing.length_field_offset + 1 +
          (IF framing.length_field_byte_order = "LITTLE"
           THEN framing.length_field_width - 1 - i
           ELSE i)]

DeclaredLength(bytes) ==
    LET b(i) == LengthByte(bytes, i) IN
    CASE framing.length_field_width = 1 -> b(0)
      [] framing.length_field_width = 2 -> 256 * b(0) + b(1)
      [] framing.length_field_width = 4 -> 256 * (256 * (256 * b(0) + b(1)) + b(2)) + b(3)

\* Mutant: the upper bounds are not checked.
LengthAccepted_NoMaximum(declared) == declared >= framing.minimum_frame_length

LengthAccepted(declared) ==
    /\ declared >= framing.minimum_frame_length
    /\ declared <= framing.maximum_frame_length
    /\ declared <= FrameCapacity

(***************************************************************************)
(* What BuildPlan accepts.  A plan that fails one of these is not          *)
(* published, so no workspace ever refers to it.                           *)
(***************************************************************************)
PrefixTableAccepted ==
    LET table == framing.sync_prefix_table IN
    /\ Len(table) = Len(Sync)
    /\ \A i \in 1..Len(Sync) :
         /\ table[i] <= i - 1
         /\ table[i] = IF i = 1 THEN 0 ELSE NextMatch(table[i - 1], Sync[i])

NoLengthField ==
    /\ framing.length_field_offset = 0
    /\ framing.length_field_width = 0
    /\ framing.length_field_byte_order = "NOT_APPLICABLE"
    /\ framing.minimum_frame_length = 0

StrategyAccepted ==
    CASE framing.strategy = "FIXED_LENGTH" ->
           /\ framing.frame_length_bytes > 0
           /\ Sync = << >>
           /\ NoLengthField
           /\ framing.maximum_frame_length = 0
      [] framing.strategy = "SYNC_FIXED_LENGTH" ->
           /\ Sync # << >>
           /\ Len(Sync) <= framing.frame_length_bytes
           /\ NoLengthField
           /\ framing.maximum_frame_length = 0
      [] framing.strategy = "SYNC_LENGTH_FIELD" ->
           /\ framing.frame_length_bytes = 0
           /\ Sync # << >>
           /\ framing.length_field_width \in {1, 2, 4}
           /\ framing.length_field_byte_order \in
                (IF framing.length_field_width = 1 THEN {"NOT_APPLICABLE"} ELSE {"BIG", "LITTLE"})
           /\ framing.minimum_frame_length <= framing.maximum_frame_length
           /\ HeaderEnd <= framing.minimum_frame_length
           /\ framing.length_field_offset >= Len(Sync)
           /\ framing.maximum_frame_length < 256 ^ framing.length_field_width
      [] framing.strategy = "ASCII_CRLF" ->
           /\ Sync = <<CR, LF>>
           /\ framing.frame_length_bytes = 0
           /\ NoLengthField
           /\ framing.maximum_frame_length >= 2

FramingPlanType ==
    [strategy : FramingStrategy,
     frame_length_bytes : Nat,
     sync_bytes : Seq(Octet),
     sync_prefix_table : Seq(Nat),
     length_field_offset : Nat,
     length_field_width : Nat,
     length_field_byte_order : {"NOT_APPLICABLE", "BIG", "LITTLE"},
     minimum_frame_length : Nat,
     maximum_frame_length : Nat]

ASSUME BytesAssumption == Bytes \subseteq Octet

ASSUME FramingTypeAssumption == framing \in FramingPlanType

ASSUME FramingAccepted == PrefixTableAccepted /\ StrategyAccepted
=============================================================================
