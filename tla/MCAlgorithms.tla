----------------------------- MODULE MCAlgorithms -----------------------------
(***************************************************************************)
(* The pure algorithms against their reference definitions, in one state   *)
(* space: limb arithmetic on every pair of short operands, decimal         *)
(* conversions, text templates, and the JSON profile on texts and trees.   *)
(* A behaviour stays in the suite drawn for it.                            *)
(***************************************************************************)

VARIABLES suite,
          subject,   \* the arguments, the template or the JSON text or tree
          kind,      \* which of the two a JSON subject is
          plan, call,
          answer

Limbs == INSTANCE MCWideDecimal WITH
    job <- subject, ByteBits <- 2, MaxWidth <- 2, LimbBits <- 2, LimbCount <- 3, MaxPlaces <- 1

Decimals == INSTANCE MCWideDecimal WITH
    job <- subject, ByteBits <- 2, MaxWidth <- 4, LimbBits <- 4, LimbCount <- 8, MaxPlaces <- 2

Texts == INSTANCE MCTextRecord WITH template <- subject

JsonTexts == INSTANCE MCJsonProfile WITH
    input <- subject, TextParts <- 5, Utf8Bytes <- 4,
    MaxInput <- 18, MaxDepth <- 2, MaxNodes <- 5, MaxMembers <- 2, MaxElements <- 2,
    MaxString <- 2, MaxNumber <- 2, MaxText <- 4

JsonTrees == INSTANCE MCJsonProfile WITH
    input <- subject, TextParts <- 0, Utf8Bytes <- 0,
    MaxInput <- 24, MaxDepth <- 3, MaxNodes <- 5, MaxMembers <- 2, MaxElements <- 2,
    MaxString <- 2, MaxNumber <- 2, MaxText <- 4

vars == <<suite, subject, kind, plan, call, answer>>

NoText == plan = <<>> /\ call = <<>>
SameText == UNCHANGED <<plan, call>>

Init ==
  \/ suite = "LIMBS" /\ Limbs!WideInit /\ NoText /\ kind = ""
  \/ suite = "DECIMALS" /\ Decimals!DecimalInit /\ NoText /\ kind = ""
  \/ suite = "TEXTS" /\ Texts!Init /\ kind = ""
  \/ suite = "JSON_TEXTS" /\ JsonTexts!TextInit /\ NoText
  \/ suite = "JSON_TREES" /\ JsonTrees!TreeInit /\ NoText

Next ==
  /\ \/ suite = "LIMBS" /\ Limbs!Calculate /\ SameText
     \/ suite = "DECIMALS" /\ Decimals!Convert /\ SameText
     \/ suite = "TEXTS" /\ Texts!Next
     \/ suite = "JSON_TEXTS" /\ JsonTexts!Judge /\ SameText
     \/ suite = "JSON_TREES" /\ JsonTrees!Judge /\ SameText
  /\ suite \notin {"JSON_TEXTS", "JSON_TREES"} => kind' = kind
  /\ UNCHANGED suite

Spec == Init /\ [][Next]_vars

-----------------------------------------------------------------------------
\* Limb arithmetic is exact or refuses, also when the long division needs one bit more than a
\* limb holds.
WideExact == suite = "LIMBS" => Limbs!WideExact

\* The compiler accepts exactly the conversions that decimals with the supported places can
\* express.
DeriveAccepts == suite = "DECIMALS" => Decimals!DeriveAccepts

\* Decode returns raw * scale + bias exactly, in lowest terms, or there is no such decimal.
DecodeExact == suite = "DECIMALS" => Decimals!DecodeExact

\* Encode returns the one raw integer with the value of the decimal, or there is none on the
\* wire; what it returns decodes to an equal decimal.
EncodeExact == suite = "DECIMALS" => Decimals!EncodeExact

\* An accepted template reads a record in at most one way, and the walk finds that reading.
WalkIsTheReading == suite = "TEXTS" => Texts!WalkIsTheReading

\* A template the compiler accepted never makes the codec report an invalid plan.
CompiledIsExecutable == suite = "TEXTS" => Texts!CompiledIsExecutable

\* Encode refuses exactly the admitted values that would be read back differently.
EncodeRefusesAmbiguity == suite = "TEXTS" => Texts!EncodeRefusesAmbiguity

\* A delivered text reads back as the values given to Encode, whatever happened to the output
\* before it was reviewed.
DeliveredReadsBack == suite = "TEXTS" => Texts!DeliveredReadsBack

\* When the compiler proved the boundary, no record contains a CRLF before its end.
CrLfOnlyAtEnd == suite = "TEXTS" => Texts!CrLfOnlyAtEnd

\* The strict precheck refuses a text exactly for bytes that are no UTF-8, for brackets nested
\* too deep outside strings, and for half a surrogate pair.
PrecheckIsTheReading == suite = "JSON_TEXTS" => JsonTexts!PrecheckIsTheReading

\* A tree is refused exactly when it exceeds a limit or repeats a key, and the error says which.
AuditIsTheLimits == suite = "JSON_TREES" => JsonTrees!AuditIsTheLimits

\* Numbers are converted exactly or refused.
NumbersExact == WideExact /\ DeriveAccepts /\ DecodeExact /\ EncodeExact

\* Compiled text templates have one reading, and what Encode delivers is read back.
TextsUnambiguous ==
  /\ WalkIsTheReading /\ CompiledIsExecutable /\ EncodeRefusesAmbiguity
  /\ DeliveredReadsBack /\ CrLfOnlyAtEnd

\* The JSON profile refuses what it has to refuse and nothing else.
ProfileExact == PrecheckIsTheReading /\ AuditIsTheLimits
=============================================================================
