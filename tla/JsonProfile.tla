------------------------------- MODULE JsonProfile -------------------------------
(***************************************************************************)
(* What a configuration must satisfy as a text before and right after it   *)
(* is parsed: RunStrictPrecheck looks at the bytes (strict UTF-8, nesting  *)
(* outside strings, surrogate pairs of escapes inside them) and            *)
(* AuditJsonValue at the parsed values (their number, sizes, and keys that *)
(* occur twice).  The parser itself is external.                           *)
(*                                                                         *)
(* A parsed value is [kind "raw", length], [kind "str", text],             *)
(* [kind "arr", items] or [kind "obj", members <<key, value>>]; texts and  *)
(* keys are sequences of decoded bytes.                                    *)
(***************************************************************************)
EXTENDS Integers, Sequences, SequencesExt, FiniteSetsExt

CONSTANTS MaxInput,     \* bytes of a text
          MaxDepth,     \* of brackets, and of parsed values
          MaxNodes, MaxMembers, MaxElements, MaxString, MaxNumber, MaxText

Quote == 34
Backslash == 92
LetterU == 117
Opening == {91, 123}
Closing == {93, 125}

\* What the first byte of a sequence says: its length, its own bits and the least scalar it
\* may stand for; <<>> when no sequence starts so.
LeadOf(first) ==
  CASE first \in 0 .. 127   -> <<[length |-> 1, bits |-> first, least |-> 0]>>
    [] first \in 194 .. 223 -> <<[length |-> 2, bits |-> first % 32, least |-> 128]>>
    [] first \in 224 .. 239 -> <<[length |-> 3, bits |-> first % 16, least |-> 2048]>>
    [] first \in 240 .. 244 -> <<[length |-> 4, bits |-> first % 8, least |-> 65536]>>
    [] OTHER                -> <<>>

IsContinuationByte(byte) == byte \in 128 .. 191

IsScalar(point, least) == point >= least /\ point <= 1114111 /\ point \notin 55296 .. 57343

\* The position of the first byte that breaks UTF-8 at or behind this one, 0 when none does.
RECURSIVE Utf8Error(_, _)
Utf8Error(input, at) ==
  LET lead == LeadOf(input[at])
      next == at + lead[1].length
      rest == at + 1 .. next - 1
      bad == {i \in rest : ~IsContinuationByte(input[i])}
      point == FoldLeft(LAMBDA value, byte : (value * 64) + (byte % 64), lead[1].bits,
                        SubSeq(input, at + 1, next - 1))
  IN CASE at > Len(input)                                    -> 0
       [] at <= Len(input) /\ lead = <<>>                    -> at
       [] lead /= <<>> /\ next - 1 > Len(input)              -> at
       [] bad /= {}                                          -> Min(bad)
       [] ~IsScalar(point, lead[1].least)                    -> at
       [] OTHER                                              -> Utf8Error(input, next)

-----------------------------------------------------------------------------
HexDigits == (48 .. 57) \cup (65 .. 70) \cup (97 .. 102)

DigitOf(c) == IF c <= 57 THEN c - 48 ELSE IF c <= 70 THEN c - 55 ELSE c - 87

IsHexQuad(input, at) ==
  at + 3 <= Len(input) /\ \A i \in at .. at + 3 : input[i] \in HexDigits

ParseHexQuad(input, at) ==
  FoldLeft(LAMBDA value, c : value * 16 + DigitOf(c), 0, SubSeq(input, at, at + 3))

HighSurrogates == 55296 .. 56319
LowSurrogates == 56320 .. 57343

\* Mutant: any escape may follow a high surrogate.
LowFollows_AnyEscape(input, at) ==
  /\ at + 1 <= Len(input) /\ input[at] = Backslash /\ input[at + 1] = LetterU
  /\ IsHexQuad(input, at + 2)

\* A second escape with a low surrogate.
LowFollows(input, at) ==
  /\ at + 1 <= Len(input) /\ input[at] = Backslash /\ input[at + 1] = LetterU
  /\ IsHexQuad(input, at + 2) /\ ParseHexQuad(input, at + 2) \in LowSurrogates

\* The loop over the characters; an incomplete escape is left to the parser.
RECURSIVE Scan(_, _, _, _)
Scan(input, i, inString, depth) ==
  LET c == input[i]
      first == ParseHexQuad(input, i + 2)
      inside ==
        CASE c = Quote                                  -> Scan(input, i + 1, FALSE, depth)
          [] c /= Backslash                             -> Scan(input, i + 1, TRUE, depth)
          [] i + 1 > Len(input)                         -> "OK"
          [] input[i + 1] /= LetterU                    -> Scan(input, i + 2, TRUE, depth)
          [] ~IsHexQuad(input, i + 2)                   -> Scan(input, i + 1, TRUE, depth)
          [] first \in HighSurrogates ->
               IF LowFollows(input, i + 6) THEN Scan(input, i + 12, TRUE, depth)
               ELSE "INVALID_UNICODE_ESCAPE"
          [] first \in LowSurrogates                    -> "INVALID_UNICODE_ESCAPE"
          [] OTHER                                      -> Scan(input, i + 6, TRUE, depth)
      outside ==
        CASE c = Quote                                  -> Scan(input, i + 1, TRUE, depth)
          [] c \in Opening -> IF depth + 1 > MaxDepth THEN "NESTING_DEPTH_LIMIT_EXCEEDED"
                              ELSE Scan(input, i + 1, FALSE, depth + 1)
          [] c \in Closing /\ depth /= 0                -> Scan(input, i + 1, FALSE, depth - 1)
          [] OTHER                                      -> Scan(input, i + 1, FALSE, depth)
  IN IF i > Len(input) THEN "OK" ELSE IF inString THEN inside ELSE outside

RunStrictPrecheck(input) ==
  CASE input = <<>>                              -> "EMPTY_INPUT"
    [] Len(input) > MaxInput                     -> "INPUT_LIMIT_EXCEEDED"
    [] IsPrefix(<<239, 187, 191>>, input)        -> "UTF8_BOM_NOT_ALLOWED"
    [] Utf8Error(input, 1) /= 0                  -> "INVALID_UTF8"
    [] OTHER                                     -> Scan(input, 1, FALSE, 0)

-----------------------------------------------------------------------------
NoStats == [nodes |-> 0, text |-> 0, error |-> "OK"]

AddStringBudget(stats, length) ==
  CASE stats.error /= "OK"   -> stats
    [] length > MaxString    -> [stats EXCEPT !.error = "STRING_LIMIT_EXCEEDED"]
    [] length > MaxText - Min({stats.text, MaxText})
                             -> [stats EXCEPT !.error = "DECODED_STRING_BUDGET_EXCEEDED"]
    [] OTHER                 -> [stats EXCEPT !.text = @ + length]

\* One key of an object: its text counts, and it may not have occurred before.
AddKey(stats, members, i) ==
  LET added == AddStringBudget(stats, Len(members[i][1]))
  IN IF added.error = "OK" /\ \E j \in 1 .. i - 1 : members[j][1] = members[i][1]
     THEN [added EXCEPT !.error = "DUPLICATE_KEY"] ELSE added

\* A value and everything in it, in the order of the text; all keys of an object come before
\* its values.  The first limit exceeded stays.
RECURSIVE AuditJsonValue(_, _, _)
AuditJsonValue(value, depth, stats) ==
  LET counted == [stats EXCEPT !.nodes = @ + 1]
      refuse(error) == [counted EXCEPT !.error = error]
      all(start, values) ==
        FoldLeft(LAMBDA s, v : AuditJsonValue(v, depth + 1, s), start, values)
      keys == FoldLeft(LAMBDA s, i : AddKey(s, value.members, i), counted,
                       [i \in DOMAIN value.members |-> i])
  IN CASE stats.error /= "OK"     -> stats
       [] depth > MaxDepth        -> [stats EXCEPT !.error = "NESTING_DEPTH_LIMIT_EXCEEDED"]
       [] stats.nodes >= MaxNodes -> [stats EXCEPT !.error = "JSON_NODE_LIMIT_EXCEEDED"]
       [] value.kind = "raw"      -> IF value.length > MaxNumber
                                     THEN refuse("NUMBER_TOKEN_LIMIT_EXCEEDED") ELSE counted
       [] value.kind = "str"      -> AddStringBudget(counted, Len(value.text))
       [] value.kind = "arr"      -> IF Len(value.items) > MaxElements
                                     THEN refuse("ARRAY_ELEMENT_LIMIT_EXCEEDED")
                                     ELSE all(counted, value.items)
       [] OTHER                   -> IF Len(value.members) > MaxMembers
                                     THEN refuse("OBJECT_MEMBER_LIMIT_EXCEEDED")
                                     ELSE all(keys, [i \in DOMAIN value.members |->
                                                       value.members[i][2]])
=============================================================================
