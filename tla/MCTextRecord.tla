----------------------------- MODULE MCTextRecord -----------------------------
(***************************************************************************)
(* Text templates compiled, then every short record decoded and every      *)
(* short value encoded, against a declarative reading of a template: a     *)
(* record is cut into its segments, and a variable field that is followed  *)
(* by a literal ends at the first place that literal occurs.               *)
(***************************************************************************)
EXTENDS TextRecord

VARIABLES template,   \* the one being compiled and used
          plan,       \* its built action, or <<>> when refused
          call,       \* the arguments of the last call
          answer

-----------------------------------------------------------------------------
A == 65
B == 66
AB == {A, B}
Line == {A, CR}

F(min, max, allowed) == [min |-> min, max |-> max, allowed |-> allowed]

\* A template with the characters and the sizes of the records and values it is tried on.
T(fields, segments) ==
  [fields |-> fields, segments |-> segments, alphabet |-> AB, maxRecord |-> 9, maxValue |-> 3]
L(fields, segments) ==
  [fields |-> fields, segments |-> segments, alphabet |-> {A, CR, LF}, maxRecord |-> 6,
   maxValue |-> 2]

Words ==
  {T(<<F(0, 2, AB)>>, <<FieldSegment(1), Literal(<<A, A, B>>)>>),
   T(<<F(1, 3, AB)>>, <<Literal(<<B>>), FieldSegment(1), Literal(<<A, B, A>>)>>),
   T(<<F(0, 2, AB), F(1, 2, {A})>>, <<FieldSegment(1), Literal(<<A, B>>), FieldSegment(2)>>),
   T(<<F(2, 2, AB), F(0, 2, AB)>>, <<FieldSegment(1), FieldSegment(2)>>),
   T(<<F(0, 2, AB), F(0, 2, AB)>>, <<FieldSegment(1), FieldSegment(2)>>),
   T(<<F(0, 1, AB)>>, <<FieldSegment(1), Literal(<<B>>), FieldSegment(1)>>),
   T(<<F(0, 1, AB)>>, <<FieldSegment(2), Literal(<<B>>)>>),
   T(<<>>, <<Literal(<<>>)>>)}

Lines ==
  {L(<<F(0, 2, Line)>>, <<FieldSegment(1), Literal(<<CR, LF>>)>>),
   L(<<F(0, 2, {A, CR, LF})>>, <<FieldSegment(1), Literal(<<CR, LF>>)>>),
   L(<<F(0, 2, {A, LF})>>, <<Literal(<<A, CR>>), FieldSegment(1), Literal(<<CR, LF>>)>>),
   L(<<F(1, 1, Line), F(1, 2, {LF, A})>>, <<FieldSegment(1), FieldSegment(2),
       Literal(<<CR, LF>>)>>),
   L(<<F(1, 1, Line), F(0, 2, {LF})>>, <<FieldSegment(1), Literal(<<A>>), FieldSegment(2),
                                         Literal(<<A, CR, LF>>)>>),
   L(<<F(0, 2, Line)>>, <<FieldSegment(1), Literal(<<LF>>)>>)}

Templates == Words \cup Lines

-----------------------------------------------------------------------------
vars == <<template, plan, call, answer>>

NoCall == [op |-> "none"]
Nothing == [status |-> "none"]

Init ==
  /\ template \in Templates
  /\ plan = <<>> /\ call = NoCall /\ answer = Nothing

Fields == template.fields

Compile ==
  /\ plan = <<>> /\ answer = Nothing
  /\ \E status \in {ValidateTextAction(template, Fields)} :
       /\ answer' = [status |-> status]
       /\ plan' = IF status = "OK" THEN <<BuildTextAction(template, Fields)>> ELSE <<>>
  /\ UNCHANGED <<template, call>>

\* Decode validates the characters while it walks.
Decode ==
  /\ plan /= <<>> /\ call = NoCall
  /\ \E input \in BoundedSeq(template.alphabet, template.maxRecord) :
       /\ call' = [op |-> "decode", input |-> input]
       /\ answer' = WalkTextAction(plan[1], Fields, input, TRUE)
  /\ UNCHANGED <<template, plan>>

Admitted(f) ==
  {v \in BoundedSeq(f.allowed \cap template.alphabet, template.maxValue) :
     Len(v) \in f.min .. f.max}

Values == {v \in [DOMAIN Fields -> BoundedSeq(template.alphabet, template.maxValue)] :
             \A i \in DOMAIN Fields : v[i] \in Admitted(Fields[i])}

\* The character that replaces the last one when the test hook damages the output.
Damaged(text, c) == [text EXCEPT ![Len(text)] = c]

\* The answer for the written text and the text as it left the writer.
Reviewed(action, value, out, conflict) ==
  CASE conflict /= 0 -> [status |-> "ASCII_TERMINATOR_CONFLICT", field |-> conflict]
    [] \/ TextSize(action, value) \notin action.min .. action.max
       \/ ~TextReviewed(action, Fields, value, out) -> [status |-> "FINAL_REVIEW_FAILED"]
    [] OTHER -> [status |-> "OK", frame |-> out]

\* Encode of admitted values; damage is the character the test hook writes, or 0.
Encode ==
  /\ plan /= <<>> /\ call = NoCall
  /\ \E value \in Values, damage \in {0} \cup template.alphabet :
       \E text \in {WriteText(plan[1], value)} :
         /\ text = <<>> => damage = 0
         /\ call' = [op |-> "encode", value |-> value, damage |-> damage, text |-> text]
         /\ answer' = Reviewed(plan[1], value, IF damage = 0 THEN text ELSE Damaged(text, damage),
                               TerminatorConflict(plan[1], Fields, value))
  /\ UNCHANGED <<template, plan>>

Next == Compile \/ Decode \/ Encode

Spec == Init /\ [][Next]_vars

-----------------------------------------------------------------------------
Segments == template.segments

Occurs(literal, text, at) == SubSeq(text, at + 1, at + Len(literal)) = literal

\* Cuts of a text into one piece per segment: the piece of segment i starts at cut[i].
Cuts(text) ==
  {cut \in [1 .. Len(Segments) + 1 -> 0 .. Len(text)] :
     /\ cut[1] = 0 /\ cut[Len(Segments) + 1] = Len(text)
     /\ \A i \in DOMAIN Segments :
          LET n == cut[i + 1] - cut[i] IN
          IF Segments[i].kind = "LITERAL"
          THEN n = Len(Segments[i].literal) /\ Occurs(Segments[i].literal, text, cut[i])
          ELSE n \in Fields[Segments[i].field].min .. Fields[Segments[i].field].max}

\* The cuts the protocol means.
Readings(text) ==
  {cut \in Cuts(text) :
     \A i \in 1 .. Len(Segments) - 1 :
       (Segments[i].kind = "FIELD" /\ ~Fixed(Fields[Segments[i].field])) =>
         \A at \in cut[i] .. cut[i + 1] - 1 : ~Occurs(Segments[i + 1].literal, text, at)}

PiecesAllowed(text, cut) ==
  \A i \in DOMAIN Segments : Segments[i].kind = "FIELD" =>
    Range(SubSeq(text, cut[i] + 1, cut[i + 1])) \subseteq Fields[Segments[i].field].allowed

FieldCuts(cut) ==
  LET at == SelectSeq([i \in DOMAIN Segments |-> i], LAMBDA i : Segments[i].kind = "FIELD")
  IN [k \in DOMAIN at |-> [field |-> Segments[at[k]].field, offset |-> cut[at[k]],
                           length |-> cut[at[k] + 1] - cut[at[k]]]]

\* An accepted template reads every record in at most one way, and the left-to-right walk
\* with its prefix tables and its bounded scan finds exactly that reading: it matches when
\* there is one whose characters are allowed, and refuses when there is none.
WalkIsTheReading ==
  (call.op = "decode" /\ answer.status \in {"MATCH", "NO_MATCH", "INVALID_CHARACTER"}) =>
    LET readings == Readings(call.input) IN
    /\ Cardinality(readings) <= 1
    /\ \A cut \in readings :
         IF PiecesAllowed(call.input, cut)
         THEN answer.status = "MATCH" /\ answer.slices = FieldCuts(cut)
         ELSE answer.status = "INVALID_CHARACTER"
    /\ readings = {} => answer.status /= "MATCH"

\* A compiled template never makes the codec report an invalid plan.
CompiledIsExecutable == call.op = "decode" => answer.status /= "INVALID_PLAN"

\* Encode of admitted values refuses exactly the values the template cannot carry: without
\* damage it never gets as far as a failed review, and an undamaged conflict is a record
\* that would be read back differently.
EncodeRefusesAmbiguity ==
  (call.op = "encode" /\ call.damage = 0) =>
    LET given == \E cut \in Readings(call.text) :
                   \A i \in DOMAIN Segments : Segments[i].kind = "FIELD" =>
                     SubSeq(call.text, cut[i] + 1, cut[i + 1]) = call.value[Segments[i].field]
    IN answer.status = IF given THEN "OK" ELSE "ASCII_TERMINATOR_CONFLICT"

\* Whatever the output looked like when it was reviewed, a delivered record reads back as
\* the values given to Encode.
DeliveredReadsBack ==
  (call.op = "encode" /\ answer.status = "OK") =>
    \E cut \in Readings(answer.frame) :
      /\ PiecesAllowed(answer.frame, cut)
      /\ \A i \in DOMAIN Segments : Segments[i].kind = "FIELD" =>
           SubSeq(answer.frame, cut[i] + 1, cut[i + 1]) = call.value[Segments[i].field]

FirstCrLf(text) == {i \in 0 .. Len(text) - 2 : Occurs(<<CR, LF>>, text, i)}

\* When the compiler has proved the boundary, a stream can be cut at the first CRLF: no
\* record that decodes or is encoded contains one before its end.
CrLfOnlyAtEnd ==
  LET text == IF call.op = "decode" THEN call.input ELSE answer.frame IN
  (/\ call.op /= "none" /\ answer.status \in {"MATCH", "OK"}
   /\ ProveAsciiCrLfBoundary(plan[1], Fields))
    => FirstCrLf(text) = {Len(text) - 2}
=============================================================================
