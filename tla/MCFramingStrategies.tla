------------------------- MODULE MCFramingStrategies -------------------------
(***************************************************************************)
(* Every framing strategy in one state space.  The strategy of a behaviour *)
(* is drawn once; its steps are those of StreamFramer with that plan, its  *)
(* alphabet and its limits.                                                *)
(***************************************************************************)
EXTENDS Integers, Sequences

\* Header 1 1 hi lo: a bad length leaves a second sync inside the header, so
\* rescans compact; 5 is the one length the alphabet can declare.
LengthFieldPlan ==
    [strategy |-> "SYNC_LENGTH_FIELD", frame_length_bytes |-> 0,
     sync_bytes |-> <<1, 1>>, sync_prefix_table |-> <<0, 1>>,
     length_field_offset |-> 2, length_field_width |-> 2, length_field_byte_order |-> "BIG",
     minimum_frame_length |-> 4, maximum_frame_length |-> 5]

\* Header 1 2 1 len, self-overlapping sync; frames of 4 end with the header.
SelfOverlapPlan ==
    [strategy |-> "SYNC_LENGTH_FIELD", frame_length_bytes |-> 0,
     sync_bytes |-> <<1, 2, 1>>, sync_prefix_table |-> <<0, 0, 1>>,
     length_field_offset |-> 3, length_field_width |-> 1,
     length_field_byte_order |-> "NOT_APPLICABLE",
     minimum_frame_length |-> 4, maximum_frame_length |-> 5]

SyncFixedPlan ==
    [strategy |-> "SYNC_FIXED_LENGTH", frame_length_bytes |-> 4,
     sync_bytes |-> <<1, 1, 2, 1>>, sync_prefix_table |-> <<0, 1, 0, 1>>,
     length_field_offset |-> 0, length_field_width |-> 0,
     length_field_byte_order |-> "NOT_APPLICABLE",
     minimum_frame_length |-> 0, maximum_frame_length |-> 0]

FixedPlan ==
    [SyncFixedPlan EXCEPT !.strategy = "FIXED_LENGTH", !.frame_length_bytes = 3,
                          !.sync_bytes = << >>, !.sync_prefix_table = << >>]

AsciiPlan ==
    [SyncFixedPlan EXCEPT !.strategy = "ASCII_CRLF", !.frame_length_bytes = 0,
                          !.sync_bytes = <<13, 10>>, !.sync_prefix_table = <<0, 0>>,
                          !.maximum_frame_length = 3]

VARIABLES state, buffer, progress, total_discarded, total_malformed, in_push, result,
          input, stream, base, frames, delivered, dropped, strategy

LengthField == INSTANCE StreamFramer WITH
    framing <- LengthFieldPlan, Bytes <- {0, 1, 5},
    MaxSubmitBytes <- 3, MaxFramesPerSubmit <- 1, MaxWorkUnits <- 6, MaxStreamBytes <- 7

\* A header whose sync overlaps itself, and a length in one byte.
SelfOverlap == INSTANCE StreamFramer WITH
    framing <- SelfOverlapPlan, Bytes <- {1, 2, 4},
    MaxSubmitBytes <- 3, MaxFramesPerSubmit <- 1, MaxWorkUnits <- 7, MaxStreamBytes <- 6

SyncFixed == INSTANCE StreamFramer WITH
    framing <- SyncFixedPlan, Bytes <- {1, 2},
    MaxSubmitBytes <- 3, MaxFramesPerSubmit <- 1, MaxWorkUnits <- 9, MaxStreamBytes <- 9

Fixed == INSTANCE StreamFramer WITH
    framing <- FixedPlan, Bytes <- {1, 2},
    MaxSubmitBytes <- 7, MaxFramesPerSubmit <- 1, MaxWorkUnits <- 8, MaxStreamBytes <- 8

Ascii == INSTANCE StreamFramer WITH
    framing <- AsciiPlan, Bytes <- {10, 13, 65},
    MaxSubmitBytes <- 3, MaxFramesPerSubmit <- 2, MaxWorkUnits <- 5, MaxStreamBytes <- 7

allVars == <<LengthField!vars, strategy>>

AllInit ==
    \/ strategy = "LENGTH_FIELD" /\ LengthField!Init
    \/ strategy = "SELF_OVERLAP" /\ SelfOverlap!Init
    \/ strategy = "SYNC_FIXED" /\ SyncFixed!Init
    \/ strategy = "FIXED" /\ Fixed!Init
    \/ strategy = "ASCII" /\ Ascii!Init

AllNext ==
    /\ \/ strategy = "LENGTH_FIELD" /\ LengthField!Next
       \/ strategy = "SELF_OVERLAP" /\ SelfOverlap!Next
       \/ strategy = "SYNC_FIXED" /\ SyncFixed!Next
       \/ strategy = "FIXED" /\ Fixed!Next
       \/ strategy = "ASCII" /\ Ascii!Next
    /\ UNCHANGED strategy

AllSpec == AllInit /\ [][AllNext]_allVars

-----------------------------------------------------------------------------
\* Whatever the strategy, a finished call tells the caller the truth about what
\* is left to do (see StopReasonTruthful).
EveryStopReasonTruthful ==
    CASE strategy = "LENGTH_FIELD" -> LengthField!StopReasonTruthful
      [] strategy = "SELF_OVERLAP" -> SelfOverlap!StopReasonTruthful
      [] strategy = "SYNC_FIXED" -> SyncFixed!StopReasonTruthful
      [] strategy = "FIXED" -> Fixed!StopReasonTruthful
      [] strategy = "ASCII" -> Ascii!StopReasonTruthful

\* Whatever the strategy, every step of the workspace is a step of FrameStream
\* or leaves it alone: each accepted byte is in one frame, skipped for good
\* because no frame can start on it, or dropped by a reset; and the caller is told
\* the truth.
EveryStrategyFrames ==
    [][/\ EveryStopReasonTruthful'
       /\ CASE strategy = "LENGTH_FIELD" -> [LengthField!Framed!Next]_LengthField!Framed!vars
            [] strategy = "SELF_OVERLAP" -> [SelfOverlap!Framed!Next]_SelfOverlap!Framed!vars
            [] strategy = "SYNC_FIXED" -> [SyncFixed!Framed!Next]_SyncFixed!Framed!vars
            [] strategy = "FIXED" -> [Fixed!Framed!Next]_Fixed!Framed!vars
            [] strategy = "ASCII" -> [Ascii!Framed!Next]_Ascii!Framed!vars]_allVars
=============================================================================
