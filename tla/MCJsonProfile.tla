----------------------------- MODULE MCJsonProfile -----------------------------
(***************************************************************************)
(* The profile judged on all short texts over the bytes at the boundaries  *)
(* of UTF-8, on texts put together from brackets, quotes and escapes, and  *)
(* on small trees of values.                                               *)
(***************************************************************************)
EXTENDS JsonProfile, TLC

CONSTANTS TextParts,    \* parts in a text
          Utf8Bytes     \* bytes in a short text

VARIABLES kind, input, answer
vars == <<kind, input, answer>>

\* The bytes where the rules of UTF-8 change.
Boundary ==
  {65, 127, 128, 143, 144, 159, 160, 191, 193, 194, 223, 224, 237, 238, 239, 240, 244, 245}

High == <<68, 56, 51, 100>>         \* D83d
Low == <<68, 99, 48, 48>>           \* Dc00
Plain == <<48, 48, 50, 50>>         \* 0022, the quote
Parts ==
  {<<Quote>>, <<Backslash>>, <<Backslash, LetterU>>, High, Low, Plain, <<91>>, <<125>>}

Texts ==
  {start \o FlattenSeq(parts) : start \in {<<>>, <<Quote>>},
     parts \in UNION {[1 .. n -> Parts] : n \in 0 .. TextParts}}

\* Trees of at most three levels.
Leaves ==
  {[kind |-> "raw", length |-> n] : n \in {MaxNumber, MaxNumber + 1}}
  \cup {[kind |-> "str", text |-> SubSeq(<<1, 2, 3, 4>>, 1, n)] :
          n \in {0, 1, MaxString, MaxString + 1}}
Arr(items) == [kind |-> "arr", items |-> items]
Obj(members) == [kind |-> "obj", members |-> members]
Keys == {<<1>>, <<2, 1>>}
Upto(n, S) == UNION {[1 .. k -> S] : k \in 0 .. n}
Inner == {Arr(s) : s \in Upto(2, Leaves)} \cup {Obj(s) : s \in Upto(2, Keys \X Leaves)}
Trees ==
  Leaves \cup Inner \cup {Arr(<<a, b>>) : a \in Inner, b \in Leaves \cup Inner}
  \cup {Obj(<<<<k, a>>, <<l, b>>>>) : k \in Keys, l \in Keys, a \in Inner, b \in Leaves}
  \cup {Arr(<<a, b, a>>) : a, b \in Leaves}
  \cup {Obj(<<<<<<1>>, a>>, <<<<2>>, b>>, <<<<3>>, a>>>>) : a, b \in Leaves}
  \cup {Arr(<<Arr(<<Arr(<<a>>)>>)>>) : a \in Leaves \cup {Arr(<<>>), Obj(<<>>)}}

TextInit ==
  /\ kind = "text" /\ answer = "NONE"
  /\ input \in Texts \cup UNION {[1 .. n -> Boundary] : n \in 0 .. Utf8Bytes}
               \cup {<<239, 187, 191, 65>>}

TreeInit == kind = "tree" /\ answer = "NONE" /\ input \in Trees

Judge ==
  /\ answer = "NONE"
  /\ answer' = IF kind = "text" THEN RunStrictPrecheck(input)
               ELSE AuditJsonValue(input, 1, NoStats).error
  /\ UNCHANGED <<kind, input>>

TextSpec == TextInit /\ [][Judge]_vars
TreeSpec == TreeInit /\ [][Judge]_vars

-----------------------------------------------------------------------------
\* RFC 3629: the bytes of a scalar.
Utf8(p) ==
  CASE p < 128   -> <<p>>
    [] p < 2048  -> <<192 + (p \div 64), 128 + (p % 64)>>
    [] p < 65536 -> <<224 + (p \div 4096), 128 + ((p \div 64) % 64), 128 + (p % 64)>>
    [] OTHER     -> <<240 + (p \div 262144), 128 + ((p \div 4096) % 64), 128 + ((p \div 64) % 64),
                      128 + (p % 64)>>

IsScalarValue(p) == p \in 0 .. 55295 \/ p \in 57344 .. 1114111

\* The number the payload bits of n bytes make, however they were encoded.
PayloadOf(bytes) ==
  LET own == CASE Len(bytes) = 1 -> bytes[1] [] Len(bytes) = 2 -> bytes[1] % 32
               [] Len(bytes) = 3 -> bytes[1] % 16 [] OTHER -> bytes[1] % 8
  IN FoldLeft(LAMBDA value, byte : (value * 64) + (byte % 64), own, Tail(bytes))

RECURSIVE IsUtf8(_)
IsUtf8(text) ==
  \/ text = <<>>
  \/ \E n \in 1 .. Min({4, Len(text)}) :
       LET p == PayloadOf(SubSeq(text, 1, n)) IN
       /\ IsScalarValue(p) /\ Utf8(p) = SubSeq(text, 1, n)
       /\ IsUtf8(SubSeq(text, n + 1, Len(text)))

\* Where a character comes to stand when the one before it stood there: outside a string, in
\* one, or escaped in one.
Behind(place, c) ==
  CASE place = "out"    -> IF c = Quote THEN "in" ELSE "out"
    [] place = "escape" -> "in"
    [] OTHER            -> IF c = Quote THEN "out" ELSE IF c = Backslash THEN "escape" ELSE "in"

\* Where each character stands.
Place(text) == FoldLeft(LAMBDA at, c : Append(at, Behind(Last(at), c)), <<"out">>, text)

\* The escapes \uXXXX that are whole, by the position of the u, with their values.
Units(text) ==
  LET at == Place(text)
  IN [i \in {k \in DOMAIN text : /\ at[k] = "escape" /\ text[k] = LetterU
                                 /\ IsHexQuad(text, k + 1)} |-> ParseHexQuad(text, i + 1)]

SurrogatesPaired(text) ==
  LET unit == Units(text)
      is(i, S) == i \in DOMAIN unit /\ unit[i] \in S
  IN \A i \in DOMAIN unit : /\ is(i, HighSurrogates) => is(i + 6, LowSurrogates)
                            /\ is(i, LowSurrogates) => is(i - 6, HighSurrogates)

\* The brackets outside strings nest no deeper than allowed; one too many closes nothing.
NestingWithin(text) ==
  LET at == Place(text)
      after(depth, i) ==
        CASE at[i] /= "out"                     -> depth
          [] text[i] \in Opening                -> depth + 1
          [] text[i] \in Closing /\ depth > 0   -> depth - 1
          [] OTHER                              -> depth
      depths == FoldLeft(LAMBDA d, i : Append(d, after(Last(d), i)), <<0>>,
                         [i \in DOMAIN text |-> i])
  IN \A i \in DOMAIN depths : depths[i] <= MaxDepth

\* A text is refused exactly for what a reader finds in it: bytes that are no UTF-8, brackets
\* nested too deep outside strings, or an escaped surrogate without its other half.
PrecheckIsTheReading ==
  answer /= "NONE" /\ input /= <<>> =>
    (answer = "OK" <=> /\ Len(input) <= MaxInput /\ ~IsPrefix(<<239, 187, 191>>, input)
                       /\ IsUtf8(input) /\ NestingWithin(input) /\ SurrogatesPaired(input))

-----------------------------------------------------------------------------
RECURSIVE PartsOf(_, _)
PartsOf(value, depth) ==
  LET below(values) == FlattenSeq([i \in 1 .. Len(values) |-> PartsOf(values[i], depth + 1)])
  IN <<[v |-> value, depth |-> depth]>>
     \o (CASE value.kind = "arr" -> below(value.items)
           [] value.kind = "obj" -> below([i \in DOMAIN value.members |-> value.members[i][2]])
           [] OTHER              -> <<>>)

TextOf(v) ==
  CASE v.kind = "str" -> Len(v.text)
    [] v.kind = "obj" -> FoldLeft(LAMBDA n, m : n + Len(m[1]), 0, v.members)
    [] OTHER          -> 0

\* What is too large in a tree.
Exceeded(tree) ==
  LET parts == PartsOf(tree, 1)
      nodes == {parts[i] : i \in DOMAIN parts}
      of(which) == {n.v : n \in {x \in nodes : x.v.kind = which}}
      strings == {Len(v.text) : v \in of("str")}
                 \cup UNION {{Len(v.members[i][1]) : i \in DOMAIN v.members} : v \in of("obj")}
      repeated(v) == Cardinality({v.members[i][1] : i \in DOMAIN v.members}) < Len(v.members)
      when(holds, error) == IF holds THEN {error} ELSE {}
  IN when(\E n \in nodes : n.depth > MaxDepth, "NESTING_DEPTH_LIMIT_EXCEEDED")
     \cup when(Len(parts) > MaxNodes, "JSON_NODE_LIMIT_EXCEEDED")
     \cup when(\E v \in of("raw") : v.length > MaxNumber, "NUMBER_TOKEN_LIMIT_EXCEEDED")
     \cup when(\E n \in strings : n > MaxString, "STRING_LIMIT_EXCEEDED")
     \cup when(FoldLeft(LAMBDA n, p : n + TextOf(p.v), 0, parts) > MaxText,
               "DECODED_STRING_BUDGET_EXCEEDED")
     \cup when(\E v \in of("arr") : Len(v.items) > MaxElements, "ARRAY_ELEMENT_LIMIT_EXCEEDED")
     \cup when(\E v \in of("obj") : Len(v.members) > MaxMembers, "OBJECT_MEMBER_LIMIT_EXCEEDED")
     \cup when(\E v \in of("obj") : repeated(v), "DUPLICATE_KEY")

\* A tree is refused exactly when it exceeds a limit or repeats a key, and the error names one
\* of the reasons.
AuditIsTheLimits ==
  answer /= "NONE" => IF answer = "OK" THEN Exceeded(input) = {} ELSE answer \in Exceeded(input)
=============================================================================
