------------------------------ MODULE TextRecord ------------------------------
(***************************************************************************)
(* ASCII text messages: a template is a sequence of literals and fields,   *)
(* one for Decode and one for Encode.  The compiler resolves the field     *)
(* references, derives the record lengths and the prefix table of each     *)
(* literal, and proves that CRLF ends a record of a stream; the codec      *)
(* walks a record from left to right, ending a variable field at the first *)
(* occurrence of the literal after it.                                     *)
(*                                                                         *)
(* A segment is [kind, literal, table, field]; a field is [min, max,       *)
(* allowed]; characters are their codes, positions are 0-based.            *)
(***************************************************************************)
EXTENDS Integers, Sequences, SequencesExt, FiniteSetsExt

CR == 13
LF == 10
NoIndex == -1

Literal(text) == [kind |-> "LITERAL", literal |-> text, table |-> <<>>, field |-> 0]
FieldSegment(f) == [kind |-> "FIELD", literal |-> <<>>, table |-> <<>>, field |-> f]

-----------------------------------------------------------------------------
\* while (prefix != 0 && byte != literal[prefix]) prefix = table[prefix - 1]
RECURSIVE Fallback(_, _, _, _)
Fallback(literal, table, prefix, byte) ==
  IF prefix = 0 \/ byte = literal[prefix + 1] THEN prefix
  ELSE Fallback(literal, table, table[prefix], byte)

Extended(literal, k, byte) == IF byte = literal[k + 1] THEN k + 1 ELSE k
KmpNext(literal, table, prefix, byte) ==
  Extended(literal, Fallback(literal, table, prefix, byte), byte)

\* Entry i is the length of the longest proper prefix that ends at the i-th character.
PrefixTable(literal) ==
  LET entry[i \in 1 .. Len(literal)] ==
        IF i = 1 THEN 0
        ELSE KmpNext(literal, [j \in 1 .. i - 1 |-> entry[j]], entry[i - 1], literal[i])
  IN entry

\* The prefix matched once the characters begin + 1 .. index of the input are read; it stays
\* at the whole literal from the first time it gets there.
Scanned(input, begin, index, seg) ==
  FoldLeft(LAMBDA prefix, byte : IF prefix = Len(seg.literal) THEN prefix
                                 ELSE KmpNext(seg.literal, seg.table, prefix, byte),
           0, SubSeq(input, begin + 1, index))

FirstStart(hits, seg) == IF hits = {} THEN NoIndex ELSE Min(hits) - Len(seg.literal)

\* The start of the first occurrence that ends within the scanned characters.
FirstOccurrence(input, begin, end, seg) ==
  FirstStart({i \in begin + 1 .. end : Scanned(input, begin, i, seg) = Len(seg.literal)}, seg)

\* No further than the longest field and the literal after it.
ScanEnd(input, begin, maximum, seg) ==
  IF /\ maximum <= Len(input) - begin
     /\ Len(seg.literal) <= Len(input) - begin - maximum
  THEN begin + maximum + Len(seg.literal) ELSE Len(input)

FindTextLiteral(input, begin, maximum, seg) ==
  IF seg.literal = <<>> \/ Len(seg.table) /= Len(seg.literal) \/ begin > Len(input) THEN NoIndex
  ELSE FirstOccurrence(input, begin, ScanEnd(input, begin, maximum, seg), seg)

\* Mutant: only an occurrence inside the value counts.
FindFirstAcrossBoundary_Inside(value, seg) ==
  IF FirstOccurrence(value, 0, Len(value), seg) = NoIndex THEN Len(value) ELSE 0

FindFirstAcrossBoundary(value, seg) ==
  FirstOccurrence(value \o seg.literal, 0, Len(value) + Len(seg.literal), seg)

-----------------------------------------------------------------------------
Fixed(f) == f.min = f.max

UpTo(found, cursor) == IF found = NoIndex THEN NoIndex ELSE found - cursor

\* How many characters the field of segment i takes at the cursor, or NoIndex.
FieldLength(action, f, input, i, cursor) ==
  CASE Fixed(f)                 -> IF f.min > Len(input) - cursor THEN NoIndex ELSE f.min
    [] i = Len(action.segments) -> Len(input) - cursor
    [] OTHER -> UpTo(FindTextLiteral(input, cursor, f.max, action.segments[i + 1]), cursor)

Slice(input, s) == SubSeq(input, s.offset + 1, s.offset + s.length)

LengthAccepted(f, length) == length >= f.min /\ length <= f.max

LiteralAt(literal, input, cursor) ==
  /\ literal /= <<>> /\ Len(literal) <= Len(input) - cursor
  /\ SubSeq(input, cursor + 1, cursor + Len(literal)) = literal

\* What a segment does to the walk: a status, the characters it takes, the slice it visits.
Visit(status, length, slices) == [status |-> status, length |-> length, slices |-> slices]
Stops(status) == Visit(status, 0, <<>>)

VisitSlice(f, input, validate, s) ==
  CASE s.length = NoIndex           -> Stops("NO_MATCH")
    [] ~LengthAccepted(f, s.length) -> Stops("NO_MATCH")
    [] validate /\ ~Range(Slice(input, s)) \subseteq f.allowed -> Stops("INVALID_CHARACTER")
    [] OTHER                        -> Visit("MATCH", s.length, <<s>>)

VisitField(action, fields, input, validate, i, cursor, field) ==
  IF \/ field \notin DOMAIN fields
     \/ ~Fixed(fields[field]) /\ i < Len(action.segments)
                             /\ action.segments[i + 1].kind /= "LITERAL"
  THEN Stops("INVALID_PLAN")
  ELSE VisitSlice(fields[field], input, validate,
                  [field |-> field, offset |-> cursor,
                   length |-> FieldLength(action, fields[field], input, i, cursor)])

VisitSegment(action, fields, input, validate, i, cursor, seg) ==
  IF seg.kind = "LITERAL"
  THEN IF LiteralAt(seg.literal, input, cursor) THEN Visit("MATCH", Len(seg.literal), <<>>)
       ELSE Stops("NO_MATCH")
  ELSE VisitField(action, fields, input, validate, i, cursor, seg.field)

\* The visited slices, in template order, when status is MATCH.
RECURSIVE WalkFrom(_, _, _, _, _, _, _), WalkBehind(_, _, _, _, _, _, _, _)
WalkFrom(action, fields, input, validate, i, cursor, slices) ==
  CASE i <= Len(action.segments) ->
         WalkBehind(action, fields, input, validate, i, cursor, slices,
                    VisitSegment(action, fields, input, validate, i, cursor, action.segments[i]))
    [] i > Len(action.segments) /\ cursor = Len(input) ->
         [status |-> "MATCH", slices |-> slices]
    [] OTHER -> [status |-> "NO_MATCH", slices |-> <<>>]

WalkBehind(action, fields, input, validate, i, cursor, slices, visit) ==
  IF visit.status = "MATCH"
  THEN WalkFrom(action, fields, input, validate, i + 1, cursor + visit.length,
                slices \o visit.slices)
  ELSE [status |-> visit.status, slices |-> <<>>]

WalkTextAction(action, fields, input, validate) ==
  IF Len(input) < action.min \/ Len(input) > action.max \/ action.segments = <<>>
  THEN [status |-> "NO_MATCH", slices |-> <<>>]
  ELSE WalkFrom(action, fields, input, validate, 1, 0, <<>>)

TextMessageMatches(message, input) ==
  /\ message.decode /= <<>>
  /\ WalkTextAction(message.decode[1], message.fields, input, FALSE).status = "MATCH"

-----------------------------------------------------------------------------
EndsEarly(value, next) ==
  next.kind /= "LITERAL" \/ FindFirstAcrossBoundary(value, next) /= Len(value)

FirstField(action, conflicts) ==
  IF conflicts = {} THEN 0 ELSE action.segments[Min(conflicts)].field

\* Encode of admitted values (value[f] for each field f of the template): the first field
\* whose end would be found too early is reported before anything is written.
TerminatorConflict(action, fields, value) ==
  FirstField(action,
    {i \in 1 .. Len(action.segments) - 1 :
       /\ action.segments[i].kind = "FIELD" /\ ~Fixed(fields[action.segments[i].field])
       /\ EndsEarly(value[action.segments[i].field], action.segments[i + 1])})

TextSize(action, value) ==
  FoldLeft(LAMBDA size, seg : size + (IF seg.kind = "LITERAL" THEN Len(seg.literal)
                                      ELSE Len(value[seg.field])), 0, action.segments)

WriteText(action, value) ==
  FlattenSeq([i \in 1 .. Len(action.segments) |->
                LET seg == action.segments[i]
                IN IF seg.kind = "LITERAL" THEN seg.literal ELSE value[seg.field]])

GivesBack(walk, value, encoded) ==
  walk.status = "MATCH" /\ \A i \in DOMAIN walk.slices :
       Slice(encoded, walk.slices[i]) = value[walk.slices[i].field]

\* The written record is walked again and must give back every value.
TextReviewed(action, fields, value, encoded) ==
  GivesBack(WalkTextAction(action, fields, encoded, TRUE), value, encoded)

-----------------------------------------------------------------------------
(***************************************************************************)
(* The compiler's part.                                                    *)
(***************************************************************************)
SegmentMin(seg, fields) == IF seg.kind = "LITERAL" THEN Len(seg.literal) ELSE fields[seg.field].min
SegmentMax(seg, fields) == IF seg.kind = "LITERAL" THEN Len(seg.literal) ELSE fields[seg.field].max

\* A variable field that is not last needs a literal right behind it.
BoundaryClear(action, fields, i) ==
  \/ Fixed(fields[action.segments[i].field])
  \/ i = Len(action.segments)
  \/ action.segments[i + 1].kind = "LITERAL"

SegmentProblem(action, fields, i, seg) ==
  CASE seg.kind = "LITERAL" -> IF seg.literal = <<>> THEN "ASCII_LITERAL_INVALID" ELSE "OK"
    [] seg.field \notin DOMAIN fields -> "UNKNOWN_REFERENCE"
    [] \E j \in 1 .. i - 1 : /\ action.segments[j].kind = "FIELD"
                             /\ action.segments[j].field = seg.field -> "DUPLICATE_REFERENCE"
    [] ~BoundaryClear(action, fields, i) -> "ASCII_FIELD_BOUNDARY_AMBIGUOUS"
    [] OTHER -> "OK"

\* The first error among the elements of a sequence, in its order.
FirstError(problems) ==
  FoldLeft(LAMBDA first, problem : IF first = "OK" THEN problem ELSE first, "OK", problems)

\* The first segment refused, with its error; segments are looked at in order.
ValidateTextAction(action, fields) ==
  FirstError([i \in DOMAIN action.segments |->
                SegmentProblem(action, fields, i, action.segments[i])])

\* The plan's action: record lengths and prefix tables.
BuildTextAction(action, fields) ==
  LET sum(Of(_, _)) ==
        FoldLeft(LAMBDA total, seg : total + Of(seg, fields), 0, action.segments)
  IN [segments |-> [i \in DOMAIN action.segments |->
                      [action.segments[i] EXCEPT !.table =
                                         PrefixTable(action.segments[i].literal)]],
      min |-> sum(SegmentMin), max |-> sum(SegmentMax)]

\* Whether the last character was CR: the states a record prefix may be in.
After(char) == IF char = CR THEN "cr" ELSE "other"

\* The states after one more allowed character; empty when CRLF could complete, or when
\* the field allows no character at all.
AdvanceCrLfStates(states, f) ==
  IF "cr" \in states /\ LF \in f.allowed THEN {}
  ELSE IF states = {} THEN {} ELSE {After(c) : c \in f.allowed}

AdvanceCrLfLiteral(states, literal) ==
  FoldLeft(LAMBDA s, c : IF s = {} \/ ("cr" \in s /\ c = LF) THEN {} ELSE {After(c)},
           states, literal)

\* All states the field can leave, or none when some content of it could complete a CRLF.
RECURSIVE AdvanceCrLfField(_, _, _, _), CrLfStatesBehind(_, _, _, _, _)
AdvanceCrLfField(exact, f, count, accepted) ==
  CrLfStatesBehind(exact, AdvanceCrLfStates(exact, f), f, count,
                   IF count >= f.min THEN accepted \cup exact ELSE accepted)

CrLfStatesBehind(exact, next, f, count, reached) ==
  CASE count = f.max                                 -> reached
    [] count /= f.max /\ next = {}                   -> {}
    [] count /= f.max /\ next = exact /\ next /= {}  -> reached \cup next
    [] OTHER                                         -> AdvanceCrLfField(next, f, count + 1, reached)

\* The states behind a segment of the template.
AdvanceCrLfSegment(states, seg, fields) ==
  CASE states = {}                                     -> {}
    [] states /= {} /\ seg.kind = "LITERAL"            -> AdvanceCrLfLiteral(states, seg.literal)
    [] seg.kind /= "LITERAL" /\ seg.field \notin DOMAIN fields -> {}
    [] OTHER                       -> AdvanceCrLfField(states, fields[seg.field], 0, {})

EndsInCrLf(literal) ==
  Len(literal) >= 2 /\ SubSeq(literal, Len(literal) - 1, Len(literal)) = <<CR, LF>>

\* The last literal is walked without the CRLF it ends with.
WithoutEnd(segs) == [segs EXCEPT ![Len(segs)].literal = SubSeq(@, 1, Len(@) - 2)]

\* The proof that the first CRLF of every record is its end.
ProveAsciiCrLfBoundary(action, fields) ==
  /\ action.segments /= <<>> /\ Last(action.segments).kind = "LITERAL"
  /\ EndsInCrLf(Last(action.segments).literal)
  /\ FoldLeft(LAMBDA states, seg : AdvanceCrLfSegment(states, seg, fields),
              {"other"}, WithoutEnd(action.segments)) /= {}
=============================================================================
