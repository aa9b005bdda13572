------------------------------- MODULE MCCompile -------------------------------
(***************************************************************************)
(* Families of small documents with bytes of two bits: one message in many *)
(* layouts, pairs of messages in one pipeline, streams, texts, and one     *)
(* good document of each kind with every version and every member left out.*)
(***************************************************************************)
EXTENDS PlanQuery

MCLimits ==
  LET l == [frame |-> 8, sync |-> 2, session |-> 40, framings |-> 2, pipelines |-> 2,
            messages |-> 3, fields |-> 8, matchers |-> 6, enums |-> 6, matchersPerMessage |-> 3,
            fieldsPerMessage |-> 4, enumsPerField |-> 3]
  IN [desktop |-> l, constrained |-> [l EXCEPT !.frame = 4, !.fieldsPerMessage = 2]]

-----------------------------------------------------------------------------
Doc(version, framings, messages) ==
  [schema_version |-> version, protocol_id |-> "protocol", resource_profile |-> "desktop",
   framing_profiles |-> framings, messages |-> messages,
   pipelines |-> <<[id |-> "pipeline", direction_id |-> "up",
                   input_framing_profile_id |-> "framing",
                    message_ids |-> [i \in DOMAIN messages |-> messages[i].id]]>>]

Complete == [id |-> "framing", input_kind |-> "complete_record"]

Msg(id, length, all, fields) ==
  [id |-> id, direction_id |-> "up", frame_length_bytes |-> length, matcher |-> [all |-> all],
   fields |-> fields]

LengthIs(n) == [kind |-> "frame_length_equals", length_bytes |-> n]
FixedAre(offset, bytes) == [kind |-> "fixed_bytes", byte_offset |-> offset, bytes |-> bytes]

Input == [source |-> "input"]
Constant(n) == [source |-> "constant", value |-> n]

Wire(offset, width) ==
  IF width = 1 THEN [codec |-> "unsigned_integer", byte_offset |-> offset, byte_width |-> 1]
  ELSE [codec |-> "unsigned_integer", byte_offset |-> offset, byte_width |-> width,
        byte_order |-> "little_endian"]

Number(id, type, offset, width, encode) ==
  [id |-> id, value_type |-> type, wire |-> Wire(offset, width), encode |-> encode]
Raw(id, offset, width) == Number(id, "UINT64", offset, width, Input)

Entries2(raws) == [i \in DOMAIN raws |-> [id |-> <<"a", "b", "c">>[i], raw_value |-> raws[i]]]
Enum(field, policy, raws) ==
  [n \in {"value_type", "unknown_enum_policy", "enum_entries"} |->
     CASE n = "value_type" -> "ENUM" [] n = "unknown_enum_policy" -> policy
       [] OTHER -> Entries2(raws)] @@ field

Bytes1(id, offset) ==
  [id |-> id, value_type |-> "BYTES", encode |-> Input,
   wire |-> [codec |-> "bytes", byte_offset |-> offset, byte_length |-> 1]]

Bits(id, type, at, width, encode) ==
  [id |-> id, value_type |-> type, encode |-> encode,
   wire |-> [codec |-> "bitfield", container_id |-> "box", bit_offset |-> at, bit_width |-> width]]

Box(offset, width, numbering, base) ==
  [id |-> "box", container_offset |-> offset, container_width |-> width,
   bit_numbering |-> numbering, base_value |-> base]
    @@ (IF width = 1 THEN [id |-> "box"] ELSE [byte_order |-> "big_endian"])

Sum(offset, length, storage) ==
  [algorithm |-> "sum8", range |-> [byte_offset |-> offset, byte_length |-> length],
   storage |-> [byte_offset |-> storage]]

CrcOf(offset, length, storage) ==
  [algorithm |-> "crc", range |-> [byte_offset |-> offset, byte_length |-> length],
   parameters |-> [width |-> 4, poly |-> 3, init |-> 5, refin |-> TRUE, refout |-> FALSE,
                   xorout |-> 1],
   storage |-> [byte_offset |-> storage, byte_order |-> "little_endian"]]

\* A computed length of the frame, or of a region.
LengthField(id, offset, rule) ==
  Number(id, "UINT64", offset, 1, [source |-> "computed"]) @@ [computed |-> rule]

-----------------------------------------------------------------------------
\* One message of three bytes.
Matchers ==
  {<<LengthIs(3)>>, <<LengthIs(2)>>, <<FixedAre(0, <<1>>)>>, <<FixedAre(1, <<2>>)>>,
   <<FixedAre(2, <<3>>)>>, <<FixedAre(0, <<1, 2>>)>>, <<FixedAre(2, <<1, 1>>)>>,
   <<LengthIs(3), FixedAre(0, <<1>>)>>, <<FixedAre(0, <<1>>), FixedAre(0, <<2, 1>>)>>}

PlainFields ==
  {<<Raw("x", 0, 1)>>, <<Raw("x", 1, 2)>>, <<Raw("x", 0, 1), Raw("y", 1, 2)>>,
   <<Raw("x", 0, 2), Raw("y", 1, 1)>>, <<Number("x", "UINT64", 0, 1, Constant(1)), Raw("y", 1, 1)>>,
   <<Number("x", "UINT64", 0, 2, Constant(9)), Raw("x", 2, 1)>>,
   <<Number("x", "UINT64", 1, 2, Constant(16))>>, <<Number("x", "INT64", 1, 2, Constant(-3))>>,
   <<Number("x", "INT64", 1, 2, Input)>>,
     <<Enum(Raw("x", 1, 1), "reject", <<2, 1>>), Bytes1("y", 2)>>,
   <<Enum(Raw("x", 1, 1), "preserve", <<2, 2>>), Bytes1("y", 2)>>,
     <<Bytes1("x", 2), Raw("y", 1, 1)>>,
   <<Number("x", "UINT64", 1, 1, Constant(2)), Number("y", "UINT64", 2, 1, Constant(0))>>}

Seals == {<<>>, <<Sum(0, 2, 2)>>, <<Sum(1, 2, 0)>>, <<Sum(0, 3, 2)>>, <<Sum(0, 2, 1)>>}

With(m, name, part) == IF part = <<>> THEN m ELSE m @@ [n \in {name} |-> part[1]]

PlainDocs ==
  {Doc(4, <<Complete>>, <<With(Msg("m", 3, all, fields), "integrity", seal)>>) :
     all \in Matchers, fields \in PlainFields, seal \in Seals}

Boxes == {Box(0, 2, "lsb0", 0), Box(1, 2, "msb0", 6), Box(1, 1, "lsb0", 1), Box(1, 2, "lsb0", 10)}

BitFields ==
  {<<Bits("x", "UINT64", 0, 2, Input)>>, <<Bits("x", "UINT64", 1, 2, Constant(2))>>,
   <<Bits("x", "BOOL", 0, 1, Input), Bits("y", "UINT64", 1, 1, Constant(1))>>,
   <<Bits("x", "UINT64", 0, 2, Input), Bits("y", "UINT64", 1, 2, Input)>>,
   <<Bits("x", "UINT64", 3, 1, Constant(1)), Bits("y", "UINT64", 0, 3, Input)>>}

BitDocs ==
  {Doc(2, <<Complete>>, <<With(Msg("m", 3, all, fields \o tail), "bit_containers", <<<<box>>>>)>>) :
     all \in Matchers, fields \in BitFields, box \in Boxes,
     tail \in {<<>>, <<Raw("z", 2, 1)>>, <<Raw("z", 0, 1)>>}}

\* Computed lengths, CRC and conversions, in every version that may have them.
Fraction(n, d) == [num |-> n, den |-> d]
Scaled(scale, bias) == Raw("x", 1, 1) @@ [conversion |-> [scale |-> scale, bias |-> bias]]

RicherFields ==
  {<<LengthField("n", 1, rule), Raw("y", 2, 1)>> :
     rule \in {[scope |-> "frame"], [scope |-> "payload"]}
              \cup {[scope |-> "region", range |-> [byte_offset |-> o, byte_length |-> l]] :
                      o \in 1 .. 2, l \in {0, 2, 3}}}
  \cup {<<Scaled(Fraction(s, d), Fraction(b, 1)), Raw("y", 2, 1)>> :
          s \in {-1, 0, 1}, d \in {1, 2, 3}, b \in {0, -1}}
  \cup {<<LengthField("n", 1, [scope |-> "frame"]), LengthField("k", 2, [scope |-> "frame"])>>,
        <<Scaled(Fraction(1, 1), Fraction(0, 1)), Number("y", "INT64", 2, 1, Constant(-2))>>}

RicherDocs ==
  {Doc(v, <<Complete>>, <<With(Msg("m", 3, all, fields), "integrity", seal)>>) :
     v \in 4 .. 8, all \in {<<FixedAre(0, <<1>>)>>, <<FixedAre(1, <<3>>)>>},
     fields \in RicherFields, seal \in {<<>>, <<Sum(0, 2, 2)>>}}
  \cup {Doc(v, <<Complete>>, <<With(Msg("m", 4, <<FixedAre(0, <<1>>)>>, fields), "integrity",
                                    <<CrcOf(0, n, s)>>)>>) :
          v \in 5 .. 6, n \in 1 .. 3, s \in 1 .. 3,
           fields \in {<<Raw("x", 1, 1)>>, <<Raw("x", 3, 1)>>}}

MCLayouts == PlainDocs \cup BitDocs \cup RicherDocs

-----------------------------------------------------------------------------
\* Bounded messages: header of two bytes with the length at 1, a payload, a trailer.
Bounded(id, least, most, rule, all, seal) ==
  With([id |-> id, direction_id |-> "up", matcher |-> [all |-> all],
        layout |-> [header_length_bytes |-> 2, payload_field_id |-> "data",
                    min_payload_bytes |-> least, max_payload_bytes |-> most],
        fields |-> <<LengthField("n", 1, rule),
                     [id |-> "data", value_type |-> "BYTES", encode |-> Input,
                      wire |-> [codec |-> "bytes", byte_offset |-> 2]]>>], "integrity", seal)

PayloadSum ==
  [algorithm |-> "sum8", range |-> [byte_offset |-> 0, end |-> "payload_end"],
   storage |-> [anchor |-> "payload_end"]]

\* What meets in a pipeline.
Pool(id) ==
  {Msg(id, n, all, fields) :
     n \in 3 .. 4, all \in {<<FixedAre(0, <<1>>)>>, <<FixedAre(0, <<2>>)>>, <<FixedAre(1, <<2>>)>>},
     fields \in {<<Raw("x", 1, 2)>>, <<Raw("x", 0, 3)>>, <<Raw("x", 1, 3)>>, <<Raw("x", 0, 4)>>}}
  \cup {Msg(id, 3, <<LengthIs(3)>>, <<Raw("x", 0, 3)>>)}
  \cup {Bounded(id, least, most, [scope |-> scope], <<FixedAre(0, <<b>>)>>, seal) :
          least \in 0 .. 1, most \in 0 .. 2, scope \in {"frame", "payload"}, b \in 1 .. 2,
          seal \in {<<>>, <<PayloadSum>>}}

MCPairs ==
  {Doc(8, <<Complete>>, <<a, b>>) : a \in Pool("a"), b \in Pool("b")}

-----------------------------------------------------------------------------
\* Streams.
Stream(strategy, parts) ==
  [id |-> "framing", input_kind |-> "stream_chunk", strategy |-> strategy] @@ parts

Lengths(offset, width) ==
  IF width = 1 THEN [byte_offset |-> offset, byte_width |-> 1]
  ELSE [byte_offset |-> offset, byte_width |-> width, byte_order |-> "little_endian"]

Framings ==
  {Stream("fixed_length", [frame_length_bytes |-> n]) : n \in {0, 3}}
  \cup {Stream("sync_fixed_length", [frame_length_bytes |-> n, sync_bytes |-> s]) :
          n \in 2 .. 3, s \in {<<1>>, <<1, 2>>, <<2, 1>>}}
  \cup {Stream("sync_length_field", [sync_bytes |-> s, length_field |-> Lengths(o, w),
                                     minimum_frame_length |-> least,
                                     maximum_frame_length |-> most]) :
          s \in {<<1>>, <<1, 1>>}, o \in 1 .. 2, w \in 1 .. 2, least \in 2 .. 3, most \in 3 .. 4}

StreamMessages ==
  {Msg("m", 3, all, fields) :
     all \in {<<FixedAre(0, <<1>>)>>, <<FixedAre(0, <<1, 2>>)>>,
              <<FixedAre(1, <<2>>), FixedAre(0, <<1>>)>>,
              <<LengthIs(3)>>},
     fields \in {<<Raw("x", 1, 2)>>, <<Raw("x", 2, 1)>>, <<Raw("x", 0, 3)>>,
                 <<LengthField("n", 1, [scope |-> "frame"]), Raw("x", 2, 1)>>,
                 <<LengthField("n", 2, [scope |-> "frame"]), Raw("x", 1, 1)>>}}
  \cup {Bounded("m", least, most, [scope |-> scope], <<FixedAre(0, <<1>>)>>, seal) :
          least \in 0 .. 1, most \in 0 .. 2, scope \in {"frame", "payload"},
          seal \in {<<>>, <<PayloadSum>>}}

\* Text.
Lit(text) == [kind |-> "literal", text |-> text]
Ref(id) == [kind |-> "field", field_id |-> id]
Template(segments) == [segments |-> segments]
Text(id, least, most, controls) ==
  [id |-> id, value_type |-> "BYTES", encode |-> Input,
   wire |-> [min_byte_length |-> least, max_byte_length |-> most]
              @@ (IF controls = <<>> THEN [min_byte_length |-> least]
                  ELSE [allowed_control_bytes |-> controls])]

TextMsg(id, layout, fields) ==
  [id |-> id, direction_id |-> "up", layout |-> layout, fields |-> fields]

Both(segments) == [decode |-> Template(segments), encode |-> Template(segments)]

Templates ==
  {<<Lit(<<1>>), Ref("x"), Lit(CrLf)>>, <<Ref("x"), Lit(CrLf)>>, <<Lit(<<1>>), Lit(CrLf)>>,
   <<Lit(<<1>>), Ref("x")>>, <<Ref("x"), Lit(<<CR>>), Lit(CrLf)>>,
     <<Lit(<<2>>), Ref("x"), Lit(<<LF>>)>>,
   <<Ref("x"), Lit(<<LF>>), Lit(CrLf)>>, <<Lit(<<CR>>), Ref("x"), Lit(CrLf)>>}

TextStreams ==
  {Stream("ascii_crlf", [terminator_text |-> CrLf, maximum_frame_length |-> n]) : n \in {1, 3, 5}}

TextMessages ==
  {TextMsg("m", layout, <<Text("x", least, most, controls)>>) :
     layout \in {Both(t) : t \in Templates} \cup {[encode |-> Template(t)] : t \in Templates},
     least \in 0 .. 1, most \in 1 .. 2, controls \in {<<>>, <<CR>>, <<LF>>, <<LF, CR>>}}

MCStreams ==
  {Doc(9, <<f>>, <<m>>) : f \in Framings, m \in StreamMessages}
  \cup {Doc(11, <<f>>, <<m>>) : f \in TextStreams, m \in TextMessages}

\* Two messages that are only encoded, with records of one length or of two, alone or with a third
\* that is received.
Commands(version, lengths, more) ==
  Doc(version, <<Complete>>,
      Each(<<1, 2>>, LAMBDA i :
         TextMsg(<<"a", "b">>[i], [encode |-> Template(<<Ref("x"), Lit(<<i>>)>>)],
                 <<Text("x", 1, lengths[i], <<>>)>>)) \o more)

MCCommands ==
  {Commands(v, <<a, b>>, more) :
     v \in 10 .. 11, a \in 1 .. 4, b \in 1 .. 4,
     more \in {<<>>, <<TextMsg("c", Both(<<Ref("x"), Lit(<<1, 1>>)>>), <<Text("x", 1, 1, <<>>)>>)>>}}

-----------------------------------------------------------------------------
\* One good document of every kind, under every version, and with any one member left out.
GoodDocs ==
  {Doc(4, <<Complete>>, <<With(Msg("m", 3, <<FixedAre(0, <<1>>)>>,
                                   <<Enum(Raw("x", 1, 1), "preserve", <<2, 1>>)>>),
                               "integrity", <<Sum(0, 2, 2)>>)>>),
   Doc(2, <<Complete>>, <<With(Msg("m", 3, <<FixedAre(0, <<1>>)>>,
                                   <<Bits("x", "BOOL", 0, 1, Input),
                                      Bits("y", "UINT64", 1, 2, Input)>>),
                               "bit_containers", <<<<Box(1, 2, "lsb0", 0)>>>>),
                          Msg("k", 2, <<LengthIs(2)>>, <<Enum(Raw("x", 0, 1), "reject", <<3>>),
                                                         Number("y", "INT64", 1, 1,
                                                                      Constant(-1))>>)>>),
   Doc(4, <<Complete>>, <<Msg("m", 3, <<LengthIs(3)>>, <<Enum(Raw("x", 0, 1), "reject", <<1, 2>>),
                                                        Enum(Raw("y", 1, 2), "preserve", <<3>>)>>),
                          Msg("k", 1, <<LengthIs(1)>>,
                               <<Enum(Raw("x", 0, 1), "reject", <<1, 3>>)>>)>>),
   Doc(4, <<Complete>>, <<Msg("m", 2, <<FixedAre(0, <<1>>)>>,
                              <<Enum(Raw("x", 0, 1), "preserve", <<1, 2>>),
                                Enum(Raw("y", 1, 1), "reject", <<3, 0>>)>>),
                          Msg("k", 2, <<FixedAre(0, <<2>>)>>,
                              <<Enum(Raw("x", 0, 1), "reject", <<2, 1>>), Raw("y", 1, 1)>>)>>),
   Doc(7, <<Complete>>, <<With(Msg("m", 5, <<FixedAre(0, <<1>>)>>,
                                   <<LengthField("n", 1, [scope |-> "region",
                                                          range |-> [byte_offset |-> 0,
                                                              byte_length |-> 3]]),
                                     Scaled(Fraction(1, 2), Fraction(-1, 1))>>),
                               "integrity", <<CrcOf(0, 3, 3)>>)>>),
   Doc(8, <<Complete>>, <<Bounded("m", 0, 2, [scope |-> "payload"], <<FixedAre(0, <<1>>)>>,
                                  <<PayloadSum>>)>>),
   Doc(9, <<Stream("sync_length_field", [sync_bytes |-> <<1>>, length_field |-> Lengths(1, 1),
                                         minimum_frame_length |-> 2, maximum_frame_length |-> 3])>>,
       <<Bounded("m", 0, 1, [scope |-> "frame"], <<FixedAre(0, <<1>>)>>, <<>>)>>),
   Doc(10, <<Complete>>, <<TextMsg("m", Both(<<Lit(<<1>>), Ref("x")>>),
                         <<Text("x", 0, 2, <<CR>>)>>)>>),
   Doc(11, <<CHOOSE f \in TextStreams : f.maximum_frame_length = 5>>,
       <<TextMsg("m", Both(<<Lit(<<1>>), Ref("x"), Lit(CrLf)>>), <<Text("x", 0, 2, <<>>)>>)>>)}

Without(o, name) == [n \in DOMAIN o \ {name} |-> o[n]]
Extra(o) == o @@ [remark |-> "x"]

\* The document with one object of its first message or framing changed.
Edits(d) ==
  LET edited(o) == {Without(o, n) : n \in DOMAIN o} \cup {Extra(o)}
      m == d.messages[1]
      put(x) == [d EXCEPT !.messages[1] = x]
      part(o, name) == IF name \in DOMAIN o THEN {[o EXCEPT ![name] = x] : x \in edited(o[name])}
                        ELSE {}
  IN edited(d)
     \cup {[d EXCEPT !.framing_profiles[1] = x] :
             x \in edited(d.framing_profiles[1]) \cup part(d.framing_profiles[1], "length_field")}
     \cup {[d EXCEPT !.pipelines[1] = x] : x \in edited(d.pipelines[1])}
     \cup {put(x) : x \in edited(m) \cup part(m, "layout") \cup part(m, "matcher")
                           \cup part(m, "integrity")}
     \cup {put([m EXCEPT !.fields[i] = x]) :
             x \in UNION {edited(m.fields[i]) \cup part(m.fields[i], "wire")
                            \cup part(m.fields[i], "computed")
                             \cup part(m.fields[i], "conversion") :
                            i \in DOMAIN m.fields}, i \in DOMAIN m.fields}
     \cup (IF "integrity" \in DOMAIN m
           THEN {put([m EXCEPT !.integrity = x]) : x \in part(m.integrity, "range")
                                                     \cup part(m.integrity, "storage")
                                                     \cup part(m.integrity, "parameters")}
           ELSE {})

MCEdited ==
  {[d EXCEPT !.schema_version = v] : d \in GoodDocs, v \in 0 .. 12}
  \cup {[d EXCEPT !.resource_profile = "constrained"] : d \in GoodDocs}
  \cup UNION {Edits(d) : d \in GoodDocs}

-----------------------------------------------------------------------------
(***************************************************************************)
(* Documents whose plans are asked: containers of both byte orders,        *)
(* payloads of several sizes with a value behind them, enumerations that   *)
(* are not sorted, several messages, texts for one direction and for both. *)
(***************************************************************************)

BoxDocs ==
  {Doc(2, <<Complete>>, <<With(Msg("m", 3, <<FixedAre(at, <<1>>)>>,
                                            fields \o <<Raw("z", rest, 1)>>),
                               "bit_containers", <<<<Box(at, 2, numbering, base)>>>>)>>) :
     at \in {0, 1}, rest \in {0, 2}, numbering \in {"lsb0", "msb0"}, base \in 0 .. 7,
     fields \in BitFields}

PayloadDocs ==
  {Doc(8, <<Complete>>, <<Bounded("m", least, most, [scope |-> scope],
                                  <<FixedAre(0, <<1>>)>>, seal)>>
                          \o more) :
     least \in 0 .. 1, most \in 0 .. 2, scope \in {"frame", "payload"},
       seal \in {<<>>, <<PayloadSum>>},
     more \in {<<>>, <<Msg("k", 3, <<FixedAre(0, <<2>>)>>,
                                            <<Enum(Raw("x", 1, 1), "preserve", <<3, 1>>)>>)>>}}

EnumDocs ==
  {Doc(4, <<Complete>>,
       <<Msg("m", 2, <<FixedAre(0, <<1>>)>>, <<Enum(Raw("x", 1, 1), policy, raws)>>),
         Msg("k", 3, <<FixedAre(0, <<2>>)>>, <<Raw("y", 2, 1),
                                              Enum(Raw("x", 1, 1), policy, more)>>)>>) :
     policy \in {"reject", "preserve"}, raws \in {<<2>>, <<2, 0>>, <<1, 2, 0>>},
       more \in {<<3, 1>>, <<0, 3>>}}

TwoTexts(decode, encode) ==
  [n \in {"decode", "encode"} |-> Template(IF n = "decode" THEN decode ELSE encode)]

TextPairs ==
  {TwoTexts(<<Lit(<<1>>), Ref("x"), Lit(<<2>>)>>, <<Ref("x"), Lit(<<1, 2>>)>>),
   TwoTexts(<<Lit(<<1>>), Ref("x")>>, <<Ref("x")>>),
   [decode |-> Template(<<Ref("x"), Lit(<<2>>)>>)], [encode |-> Template(<<Lit(<<2>>), Ref("x")>>)]}

\* The second message is only encoded: its template refers to the second of its fields first.
Second ==
  TextMsg("k", [encode |-> Template(<<Ref("v"), Lit(<<1, 1, 1, 1>>), Ref("u")>>)],
          <<Text("u", 1, 1, <<>>), Text("v", 1, 1, <<>>)>>)

\* A field that no Encode template refers to has no "encode".
Received(f) == Without(f, "encode")

\* The first message is only decoded, so that the fields of the second do not come first.
First ==
  TextMsg("j", [decode |-> Template(<<Ref("v"), Lit(<<2>>), Ref("u"), Lit(<<CR>>)>>)],
          <<Received(Text("u", 1, 1, <<>>)), Received(Text("v", 1, 1, <<>>))>>)

TextOf(layout, least, most, controls) ==
  LET f == Text("x", least, most, controls)
  IN IF "encode" \in DOMAIN layout THEN f ELSE Received(f)

TextDocs ==
  {Doc(10, <<Complete>>, before \o
     <<TextMsg("m", layout, <<TextOf(layout, least, most, controls)>>)>> \o after) :
     layout \in TextPairs, least \in 0 .. 1, most \in 1 .. 2, controls \in {<<>>, <<CR>>},
     before \in {<<>>, <<First>>}, after \in {<<>>, <<Second>>}}

MCQueries ==
  BoxDocs \cup PayloadDocs \cup EnumDocs \cup TextDocs \cup GoodDocs
  \cup {d \in RicherDocs : d.schema_version = 8}

-----------------------------------------------------------------------------
VARIABLE family     \* where the document of the behaviour comes from

MCDocuments == MCLayouts \cup MCPairs \cup MCStreams \cup MCCommands \cup MCEdited
               \cup MCQueries

FamilyInit ==
  /\ \/ family = "LAYOUTS" /\ source \in MCLayouts /\ entry = "PLAN"
     \/ family = "PAIRS" /\ source \in MCPairs /\ entry = "PLAN"
     \/ family = "STREAMS" /\ source \in MCStreams /\ entry = "PLAN"
     \/ family = "COMMANDS" /\ source \in MCCommands /\ entry \in Entries
     \/ family = "EDITED" /\ source \in MCEdited /\ entry \in Entries
     \/ family = "QUERIES" /\ source \in MCQueries /\ entry = "METADATA"
  /\ Begun

FamilySpec == FamilyInit /\ [][Next /\ UNCHANGED family]_<<vars, family>>
================================================================================
