---------------------------- MODULE MCDocumentTab ----------------------------
(* DocumentTab with a small text document: a stream, and a message to send. *)
EXTENDS DocumentTab

NoValues == {}
StreamPipelines == <<[stream |-> TRUE, enc |-> {1, 2}, dec |-> {1}],
                     [stream |-> FALSE, enc |-> {3}, dec |-> {}]>>

\* Receive on the stream.
FlowTable == {<<[pipe |-> 1, action |-> "DECODE"]>>}
OneRecord == {<<"r">>}
==============================================================================
