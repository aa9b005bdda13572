---------------------------- MODULE MCRunEvidence ----------------------------
(***************************************************************************)
(* Configurations and values for TLC, and three scenarios in one state     *)
(* space, the scenario drawn once:                                         *)
(*   OUTCOMES  one process at a time runs and replays, every answer of     *)
(*             compiler and codec, no fault;                               *)
(*   RACE      two processes write two plain runs, one fault;              *)
(*   DAMAGE    one process at a time runs and replays, two faults.         *)
(***************************************************************************)
EXTENDS RunEvidence, TLC

MCSchema == [c \in Configs |-> CASE c = "broken" -> "INVALID"
                                 [] c = "v04" -> "UNSUPPORTED"
                                 [] c = "v05" -> "0.5"
                                 [] c = "v08" -> "0.8"]
MCFieldKinds == [level |-> "UINT64", state |-> "ENUM"]
MCEnumEntries == {"ON"}

Level == [id |-> "level", kind |-> "UINT64", entry |-> "", canonical |-> TRUE]
State == [id |-> "state", kind |-> "ENUM", entry |-> "ON", canonical |-> TRUE]
Values == [format |-> "0.4", pipeline |-> 1, message |-> "m", fields |-> <<Level, State>>]
OneValues == {<<Values>>}
AllValues ==
    {<<v>> : v \in
       {Values, [Values EXCEPT !.format = "0.5"], [Values EXCEPT !.format = "9.9"],
        [Values EXCEPT !.pipeline = 9], [Values EXCEPT !.message = "x"],
        [Values EXCEPT !.message = "foreign"],
        [Values EXCEPT !.fields = <<Level, Level>>],
        [Values EXCEPT !.fields = <<[Level EXCEPT !.id = "none"], State>>],
        [Values EXCEPT !.fields = <<Level, [State EXCEPT !.entry = "OFF"]>>],
        [Values EXCEPT !.fields = <<Level, [State EXCEPT !.canonical = FALSE]>>]}}
Symmetry == Permutations(Processes)

VARIABLE scenario

\* No other process is running.
Alone(p) == \A q \in Processes \ {p} : proc[q] = IdleProcess

\* A plain run: version 0.5 by one tool, no expectation, every codec answer OK.
PlainStart(p) ==
    \E run \in RunIds, op \in Operations, values \in {<<>>} \cup OneValues :
        Start(p, run, op, "v05", values, "t1", Null)
PlainReplay(p) == \E run \in RunIds, dir \in DOMAIN disk : StartReplay(p, run, dir, "t1", Null)
PlainExecute(p, structurals) == Execute(p, structurals, {"OK"}, {"OK"})

Outcomes == \E p \in Processes : Alone(p) /\ RunStep(p) /\ starts' <= 1
Race ==
    \/ \E p \in Processes : PlainStart(p) \/ PlainExecute(p, {"OK"}) \/ FileStep(p)
    \/ Fault /\ faults' <= 1
Damaged ==
    /\ \/ \E p \in Processes :
             /\ Alone(p)
             /\ \/ PlainStart(p) \/ PlainReplay(p)
                \/ PlainExecute(p, {"OK", "UNKNOWN_MESSAGE"}) \/ FileStep(p)
       \/ Fault
    /\ \A key \in DOMAIN oracle' : oracle'[key].structural[1] = "OK"
    /\ starts' <= 1

MCInit == Init /\ scenario \in {"OUTCOMES", "RACE", "DAMAGE"}
MCNext ==
    /\ CASE scenario = "OUTCOMES" -> Outcomes
         [] scenario = "RACE" -> Race
         [] scenario = "DAMAGE" -> Damaged
    /\ UNCHANGED scenario
MCSpec == MCInit /\ [][MCNext]_<<vars, scenario>>
==============================================================================
