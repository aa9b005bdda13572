--------------------------- MODULE MCHostEndpoint ---------------------------
(***************************************************************************)
(* Instances of HostEndpoint for model checking.  A behaviour stays in the *)
(* scope drawn for it: one thread and one host with two kinds of channel,  *)
(* for what calls and callbacks do to channels and views, or two threads   *)
(* and two hosts with streams and two decodes between them, for nesting,   *)
(* contention and destruction.                                             *)
(***************************************************************************)
EXTENDS HostEndpoint, TLC

CONSTANTS t1, t2, hostA, hostB, stream, record, encode

AllBindings == (stream :> "STREAM") @@ (record :> "RECORD") @@ (encode :> "ENCODE")
RecordOnly == record :> "RECORD"

VARIABLE scope

Scopes ==
    [threads : {{t} : t \in Thread}, hosts : {{h} : h \in Host},
     channels : {{stream, record}, {stream, encode}, {record, encode}}]
    \cup {[threads |-> Thread, hosts |-> Host, channels |-> {stream}]}

ScopedHandles ==
    {handle \in Handles : handle.assigned => /\ handle.host \in scope.hosts
                                              /\ handle.channel \in scope.channels}

ScopedInit == Init /\ scope \in Scopes

ScopedNext ==
    /\ \/ \E t \in scope.threads :
             \/ \E h \in scope.hosts : Enter(t, h)
             \/ \E found \in BOOLEAN : Find(t, found)
             \/ \E handle \in ScopedHandles : OperationOn(t, handle)
             \/ FramerStep(t)
             \/ CallbackEnds(t)
       \/ scope.hosts = Host /\ \E h \in Host : Destroy(h)
    /\ scope.hosts = {hostA, hostB} =>
          channels'[hostA][stream].codec.written + channels'[hostB][stream].codec.written <= 2
    /\ UNCHANGED scope

ScopedSpec == ScopedInit /\ [][ScopedNext]_<<vars, scope>>

\* Threads are interchangeable, and so are hosts with the same bindings.
Interchangeable == Permutations({t1, t2}) \cup Permutations({hostA, hostB})
=============================================================================
