---------------------------- MODULE MCUdpExchange ----------------------------
(***************************************************************************)
(* Plans, frames and command lines for TLC, and three scenarios in one     *)
(* state space, the scenario drawn once:                                   *)
(*   EXCHANGE  two exchanges or replays, one datagram each run may take;   *)
(*   OFFLINE   three commands without a socket;                            *)
(*   FAULTS    two commands and one crash, failure or damaged file.        *)
(***************************************************************************)
EXTENDS UdpExchange

MCFrameSize == [empty |-> 0, junk |-> 1, req |-> 2, ack |-> 3, big |-> 9, jumbo |-> 20]
MCFrames == DOMAIN MCFrameSize

Ok(m) == [status |-> "OK", message |-> m]
No(s) == [status |-> s, message |-> "m"]
\* Pipeline p knows the request and the answer; q finds the answer damaged.
DecodeP == [f \in MCFrames |-> CASE f = "req" -> Ok("m") [] f = "ack" -> Ok("n")
                                 [] OTHER -> No("UNKNOWN_MESSAGE")]
DecodeQ == [f \in MCFrames |-> CASE f = "ack" -> No("INTEGRITY_FAILED")
                                 [] f = "junk" -> Ok("n") [] OTHER -> No("UNKNOWN_MESSAGE")]
MatchP == [f \in MCFrames |-> IF f \in {"req", "ack"} THEN "ONE" ELSE "NONE"]
MatchQ == [f \in MCFrames |-> IF f \in {"ack", "junk"} THEN "ONE" ELSE "NONE"]

Level == [id |-> "level", kind |-> "UINT64", entry |-> "", canonical |-> TRUE]
State == [id |-> "state", kind |-> "ENUM", entry |-> "ON", canonical |-> TRUE]
V(fields) == <<[format |-> "0.1", pipeline |-> "p", message |-> "m", fields |-> fields]>>
Good == V(<<Level, State>>)
ValuesFiles ==
    {Good, <<>>, V(<<Level, Level>>), V(<<Level>>), V(<<[Level EXCEPT !.id = "none"]>>),
     V(<<[Level EXCEPT !.id = "head"]>>), V(<<[State EXCEPT !.entry = "OFF"]>>),
     V(<<[Level EXCEPT !.kind = "BYTES"]>>), V(<<[Level EXCEPT !.kind = "BOOL"]>>),
     <<[Good[1] EXCEPT !.format = "0.3"]>>, <<[Good[1] EXCEPT !.pipeline = "x"]>>}
Message == [level |-> [source |-> "INPUT", kind |-> "UINT64", entries |-> {}],
            state |-> [source |-> "INPUT", kind |-> "ENUM", entries |-> {"ON"}],
            head |-> [source |-> "CONSTANT", kind |-> "UINT64", entries |-> {}]]
Encode == [v \in ValuesFiles |-> IF v \in {Good, <<[Good[1] EXCEPT !.format = "0.3"]>>}
                                 THEN [status |-> "OK", frame |-> "req"]
                                 ELSE [status |-> "MISSING_FIELD", frame |-> "empty"]]
P(schema, limit) ==
    <<[schema |-> schema, limit |-> limit, pipelines |-> <<"p", "q">>,
       decode |-> [p |-> DecodeP, q |-> DecodeQ], match |-> [p |-> MatchP, q |-> MatchQ],
       messages |-> [m |-> Message], encode |-> Encode]>>
MCPlan == [old |-> P("0.1", 8), mid |-> P("0.2", 8), new |-> P("0.4", 8), bad |-> <<>>]
MCConfigs == DOMAIN MCPlan

MCEndpoint == [lo |-> "loopback", other |-> "loopback", lan |-> "unicast", any |-> "unspecified",
               group |-> "multicast", all |-> "broadcast", none |-> "invalid"]

A == [command |-> "udp-exchange", config |-> "new", values |-> Good, readable |-> TRUE,
      frame |-> "ack", bundle |-> "", right |-> "", local |-> "lo", remote |-> "other",
      receive_pipeline |-> "p", send |-> TRUE, allow |-> FALSE, expect |-> "", record |-> TRUE]
UdpCommands ==
    {[A EXCEPT !.config = c, !.receive_pipeline = p, !.send = s] :
        c \in {"old", "new"}, p \in {"p", "q"}, s \in BOOLEAN}
    \cup {[A EXCEPT !.remote = "lan", !.allow = TRUE], [A EXCEPT !.expect = "TIMEOUT"],
          [A EXCEPT !.receive_pipeline = "x"], [A EXCEPT !.config = "bad"],
          [A EXCEPT !.readable = FALSE]}
    \cup {[A EXCEPT !.remote = e, !.local = l] : e \in {"lan", "any", "group", "all", "none"},
                                                l \in {"lo", "all"}}
    \cup {[A EXCEPT !.values = v] : v \in ValuesFiles}
    \cup {[A EXCEPT !.command = "replay", !.bundle = "r1", !.config = c] : c \in {"", "new", "mid"}}

OfflineCommands ==
    {[A EXCEPT !.command = "inspect", !.config = c, !.frame = f] :
        c \in {"old", "new"}, f \in {"ack", "junk", "big"}}
    \cup {[A EXCEPT !.command = "encode", !.config = "old"],
          [A EXCEPT !.command = "encode", !.values = <<>>],
          [A EXCEPT !.command = "encode", !.values = V(<<Level>>)],
          [A EXCEPT !.command = "inspect", !.config = "bad"],
          [A EXCEPT !.command = "encode", !.readable = FALSE],
          [A EXCEPT !.command = "inspect", !.frame = "empty"],
          [A EXCEPT !.command = "inspect", !.record = FALSE],
          [A EXCEPT !.command = "compare", !.bundle = "r1", !.right = "r2"]}
    \cup {[A EXCEPT !.command = "replay", !.bundle = "r1", !.config = c] :
                c \in {"", "old", "mid", "bad"}}
    \cup {[A EXCEPT !.command = "replay", !.bundle = "r2", !.config = c] : c \in {"", "mid"}}

FaultCommands ==
    {A, [A EXCEPT !.config = "old"], [A EXCEPT !.send = FALSE],
     [A EXCEPT !.command = "encode"], [A EXCEPT !.command = "replay",
           !.bundle = "r1", !.config = ""]}

\* The awaited answer and a stranger's frame.
FaultDatagrams == {[from |-> "other", frame |-> "ack"], [from |-> "lan", frame |-> "junk"]}

AllCommands == UdpCommands \cup OfflineCommands \cup FaultCommands

VARIABLE scenario

\* Names are drawn in one order: which free name a command gets does not matter.
Scenario == [EXCHANGE |-> [commands |-> UdpCommands, max |-> 2, datagrams |-> 1, faults |-> 0],
             OFFLINE |-> [commands |-> OfflineCommands, max |-> 3, datagrams |-> 0, faults |-> 0],
             FAULTS |-> [commands |-> FaultCommands, max |-> 2, datagrams |-> 1, faults |-> 1]]

MCInit == Init /\ scenario \in DOMAIN Scenario
MCNext ==
    /\ (\E a \in Scenario[scenario].commands : Start(a)) \/ Process \/ Environment
    /\ commands' <= Scenario[scenario].max
    /\ datagrams' <= Scenario[scenario].datagrams
    /\ faults' <= Scenario[scenario].faults
    /\ dir' = "r2" => disk'["r1"].state # "absent"
    /\ dir' = "r3" => disk'["r2"].state # "absent"
    /\ scenario = "FAULTS" => \A i \in DOMAIN sock' : sock'[i] \in FaultDatagrams
    /\ UNCHANGED scenario
MCSpec == MCInit /\ [][MCNext]_<<vars, scenario>>
MCFairSpec == MCSpec /\ WF_vars(Continue)
==============================================================================
