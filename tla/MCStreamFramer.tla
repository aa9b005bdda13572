--------------------------- MODULE MCStreamFramer ---------------------------
(* StreamFramer with a length field, for model checking. *)
EXTENDS StreamFramer

\* Header 1 1 hi lo: a bad length leaves a second sync inside the header, so
\* rescans compact; 5 is the one length the alphabet can declare.
LengthFieldPlan ==
    [strategy |-> "SYNC_LENGTH_FIELD", frame_length_bytes |-> 0,
     sync_bytes |-> <<1, 1>>, sync_prefix_table |-> <<0, 1>>,
     length_field_offset |-> 2, length_field_width |-> 2, length_field_byte_order |-> "BIG",
     minimum_frame_length |-> 4, maximum_frame_length |-> 5]
============================================================================
