-------------------------- MODULE DocumentTabProofs --------------------------
(***************************************************************************)
(* Proofs about one document tab, for every schema route, every pipeline   *)
(* and binding table, drafts of any length and any number of loads and     *)
(* Host requests: the bytes of a stream are kept, the Host in use is that  *)
(* of the current load, and the user's input is not lost or taken twice.   *)
(***************************************************************************)
EXTENDS DocumentTab, SequenceTheorems, TLAPS

Texts == Seq(Tokens \cup {"junk"})

\* The fields of a session, and of what is kept of a flow.
Fields == {"state", "load", "config", "rev", "host", "hostFor", "table", "bind", "flow",
           "pipe", "mode", "slots", "streams", "draft", "typed", "msg", "repr", "submitted",
           "result", "ifail", "preview", "efail"}
ViewFields == {"draft", "typed", "msg", "repr", "submitted", "result", "ifail", "preview",
               "efail"}
StreamFields == {"frozen", "cursor", "inner", "half", "faulted", "mapFaulted", "used",
                 "current", "taken", "framed"}

\* A flow of the Lab holds every byte it was given once.
StreamSound(st) ==
    /\ DOMAIN st = StreamFields
    /\ st.frozen \in Texts /\ st.inner \in Texts /\ st.taken \in Texts /\ st.framed \in Texts
    /\ st.cursor \in 0 .. Len(st.frozen)
    /\ Conserved(st)

\* A draft that was submitted is one that parses.
InputSound(v) ==
    /\ v.draft \in Texts /\ v.submitted \in BOOLEAN
    /\ v.submitted => Kind # "BINARY" /\ v.draft # Junk /\ v.draft # <<>>

ViewSound(v) == DOMAIN v = ViewFields /\ InputSound(v)

\* The part of the session that the theorems rest on: streams, drafts, and to which load
\* and configuration the Host in use belongs.
HostSound(t) ==
    t.host => /\ DOMAIN t.slots = Flows(t.table)
              /\ t.hostFor = <<t.load, t.config>>
              /\ t.config # "none"

\* Without a Host only the stream of the selected pipeline can hold bytes.
DirectSound(t) ==
    ~t.host => /\ Kind = "BINARY" => DOMAIN t.streams = {}
               /\ \A k \in DOMAIN t.streams :
                    /\ \E p \in 1 .. Len(Pipelines) : k = <<0, p>>
                    /\ StreamDiscardable(t.streams[k]) => k = <<0, t.pipe>>

SessionSound(t) ==
    /\ DOMAIN t = Fields
    /\ t.host \in BOOLEAN
    /\ InputSound(t)
    /\ \A k \in DOMAIN t.streams : StreamSound(t.streams[k])
    /\ \A k \in DOMAIN t.slots : ViewSound(t.slots[k])
    /\ HostSound(t) /\ DirectSound(t)
    /\ t.config = "none" => DOMAIN t.streams = {} /\ ~t.host
    /\ t.state \in {"LOADING", "CLOSED"} => t.config = "none"

(***************************************************************************)
(* Steps of a session.  Quiet says that nothing the invariant speaks of    *)
(* has moved; Kept that the session is sound and belongs to the same load  *)
(* and configuration; Spared, Emptied and Once say what has become of the  *)
(* streams and of the draft.                                               *)
(***************************************************************************)
Quiet(t, u) ==
    /\ DOMAIN t = Fields /\ DOMAIN u = Fields
    /\ u.load = t.load /\ u.config = t.config /\ u.host = t.host /\ u.hostFor = t.hostFor
    /\ u.table = t.table /\ u.bind = t.bind /\ u.flow = t.flow /\ u.pipe = t.pipe
    /\ u.streams = t.streams /\ u.draft = t.draft /\ u.submitted = t.submitted
    /\ DOMAIN u.slots = DOMAIN t.slots
    /\ \A k \in DOMAIN t.slots : /\ DOMAIN u.slots[k] = DOMAIN t.slots[k]
                                 /\ u.slots[k].draft = t.slots[k].draft
                                 /\ u.slots[k].submitted = t.slots[k].submitted
    /\ u.state = t.state \/ u.state \notin {"LOADING", "CLOSED"}

Kept(t, u) ==
    /\ SessionSound(u) /\ u.load = t.load /\ u.config = t.config
    /\ u.state = "CLOSED" => t.state = "CLOSED"

\* What was discardable is still there.
Spared(t, u) ==
    \A k \in DOMAIN t.streams : StreamDiscardable(t.streams[k]) =>
      k \in DOMAIN u.streams /\ IsPrefix(t.streams[k].taken, u.streams[k].taken)

\* No stream of u was given anything, and the draft is that of t, marked or not as it was
\* there, or it is empty.
Emptied(t, u) ==
    /\ \A k \in DOMAIN u.streams :
         \/ u.streams[k].taken = <<>>
         \/ k \in DOMAIN t.streams /\ u.streams[k].taken = t.streams[k].taken
    /\ (u.draft = t.draft /\ u.submitted = t.submitted) \/ (u.draft = <<>> /\ ~u.submitted)

\* SubmittedOnceStep for two sessions.
Once(t, u) ==
    /\ \A k \in DOMAIN t.streams \cap DOMAIN u.streams :
         u.streams[k].taken \notin {t.streams[k].taken, <<>>} => ~t.submitted /\ u.submitted
    /\ t.submitted /\ ~u.submitted => u.draft # t.draft \/ StreamKey(u) # StreamKey(t)

\* The domains written out.
LEMMA SessionFields ==
    /\ DOMAIN NewSession = Fields
    /\ DOMAIN NoSlot = ViewFields /\ Visible = ViewFields
    /\ DOMAIN EmptyStream = StreamFields
  BY DEF NewSession, Fields, NoSlot, Visible, ViewFields, EmptyStream, StreamFields

\* Nothing moves in a step that changes nothing, and what is quiet step by step is quiet.
LEMMA QuietSelf ==
    ASSUME NEW t, DOMAIN t = Fields
    PROVE  Quiet(t, t)
  BY DEF Quiet

\* Steps that are quiet one after the other are quiet together.
LEMMA QuietChain ==
    ASSUME NEW t, NEW u, NEW v, Quiet(t, u), Quiet(u, v)
    PROVE  Quiet(t, v)
  BY DEF Quiet

\* The label follows the mode and what is shown, in a document that is loaded.
LEMMA RefreshQuiet ==
    ASSUME NEW t, DOMAIN t = Fields
    PROVE  Quiet(t, RefreshDocumentState(t))
  BY DEF RefreshDocumentState, Quiet, Fields

\* Dropping the preview or the result moves nothing else.
LEMMA ClearsQuiet ==
    ASSUME NEW t, DOMAIN t = Fields
    PROVE  Quiet(t, ClearEncode(t)) /\ Quiet(t, ClearInspectOutcome(t))
  BY DEF ClearEncode, ClearInspectOutcome, Quiet, Fields

\* Selecting a message changes what is shown and nothing else.
LEMMA SelectMessageQuiet ==
    ASSUME NEW t, DOMAIN t = Fields, NEW m
    PROVE  Quiet(t, SelectMessage(t, m))
<1> DEFINE v == [t.slots[Selected(t)] EXCEPT !.msg = m, !.typed = "none",
                                             !.preview = <<>>, !.efail = FALSE]
           u == SelectEncodeMessage(t, m)
           w == ClearEncode(u)
           x == [w EXCEPT !.msg = m, !.typed = "none"]
<1>1. Quiet(t, [t EXCEPT !.slots[Selected(t)] = v])
  BY DEF Quiet, Fields
<1>2. Quiet(t, u)
  BY <1>1, QuietSelf DEF SelectEncodeMessage
<1>3. Quiet(u, w)
  <2> HIDE DEF u
  <2> QED
    BY <1>2, ClearsQuiet DEF Quiet
<1>4. Quiet(w, x)
  <2> HIDE DEF w
  <2> QED
    BY <1>3 DEF Quiet, Fields
<1>5. Quiet(x, RefreshDocumentState(x))
  <2> HIDE DEF x
  <2> QED
    BY <1>4, RefreshQuiet DEF Quiet
<1>6. Quiet(t, RefreshDocumentState(x))
  <2> HIDE DEF u, w, x
  <2> QED
    BY <1>2, <1>3, <1>4, <1>5, QuietChain
<1> QED
  BY <1>6, QuietSelf DEF SelectMessage

\* Changing the mode relabels the document.
LEMMA SetModeQuiet ==
    ASSUME NEW t, DOMAIN t = Fields, NEW m
    PROVE  Quiet(t, SetMode(t, m))
<1> DEFINE u == [t EXCEPT !.mode = m]
<1>1. Quiet(t, u)
  BY DEF Quiet, Fields
<1>2. Quiet(u, RefreshDocumentState(u))
  <2> HIDE DEF u
  <2> QED
    BY <1>1, RefreshQuiet DEF Quiet
<1> HIDE DEF u
<1> QED
  BY <1>1, <1>2, QuietChain DEF SetMode, u

\* Hex or escaped ASCII: a draft that was submitted stays so under its new spelling.
LEMMA SetRepresentationQuiet ==
    ASSUME NEW t, DOMAIN t = Fields, NEW r
    PROVE  Quiet(t, SetRepresentation(t, r))
<1> DEFINE u == [ClearEncode(ClearInspectOutcome(t)) EXCEPT !.repr = r]
<1>1. Quiet(t, u)
  BY DEF Quiet, Fields, ClearEncode, ClearInspectOutcome
<1>2. Quiet(u, RefreshDocumentState(u))
  <2> HIDE DEF u
  <2> QED
    BY <1>1, RefreshQuiet DEF Quiet
<1>3. Quiet(t, RefreshDocumentState(u))
  <2> HIDE DEF u
  <2> QED
    BY <1>1, <1>2, QuietChain
<1> QED
  BY <1>3, QuietSelf DEF SetRepresentation

\* An edited field drops the preview on screen and the one the adapter keeps.
LEMMA InvalidateInputQuiet ==
    ASSUME NEW t, DOMAIN t = Fields
    PROVE  Quiet(t, InvalidateInput(t))
<1> DEFINE u == IF BinaryHost(t) /\ EncodeFlow(t)
                THEN [t EXCEPT !.slots[Selected(t)].preview = <<>>] ELSE t
           w == ClearEncode(u)
<1>1. Quiet(t, u)
  BY DEF Quiet, Fields
<1>2. Quiet(u, w)
  <2> HIDE DEF u
  <2> QED
    BY <1>1, ClearsQuiet DEF Quiet
<1>3. Quiet(w, RefreshDocumentState(w))
  <2> HIDE DEF w
  <2> QED
    BY <1>2, RefreshQuiet DEF Quiet
<1>4. InvalidateInput(t) = RefreshDocumentState(w)
  BY DEF InvalidateInput
<1> HIDE DEF u, w
<1> QED
  BY <1>1, <1>2, <1>3, <1>4, QuietChain

\* Opening the field, committing a value and committing an invalid one.
LEMMA FieldEditsQuiet ==
    ASSUME NEW t, DOMAIN t = Fields, NEW v
    PROVE  /\ Quiet(t, InvalidateDraft(t))
           /\ Quiet(t, SetDraft(t, v))
           /\ Quiet(t, SetInvalidDraft(t, v))
<1> DEFINE u == InvalidateInput(t)
<1>1. Quiet(t, u)
  BY InvalidateInputQuiet
<1> HIDE DEF u
<1>2. /\ Quiet(u, [u EXCEPT !.typed = "none"])
      /\ Quiet(u, [u EXCEPT !.typed = v])
      /\ Quiet(u, [u EXCEPT !.typed = v, !.efail = TRUE])
  BY <1>1 DEF Quiet, Fields
<1> QED
  BY <1>1, <1>2, QuietChain DEF u, InvalidateDraft, SetDraft, SetInvalidDraft

\* An edit that is too long keeps the draft and its mark.
LEMMA RejectInspectCapacityQuiet ==
    ASSUME NEW t, DOMAIN t = Fields
    PROVE  Quiet(t, RejectInspectCapacity(t))
<1> DEFINE u == ClearInspectOutcome(t)
<1>1. Quiet(t, u)
  BY ClearsQuiet
<1> HIDE DEF u
<1>2. Quiet(u, RefreshDocumentState(u))
  BY <1>1, RefreshQuiet DEF Quiet
<1> QED
  BY <1>1, <1>2, QuietChain DEF u, RejectInspectCapacity

\* Encode and Inspect, on every route.
LEMMA EncodedQuiet ==
    ASSUME NEW t, DOMAIN t = Fields, NEW ok
    PROVE  Quiet(t, EncodeFailed(t)) /\ Quiet(t, Encoded(t, ok))
<1> DEFINE u == IF ok THEN EncodeDone(t) ELSE EncodeFailed(t)
<1>1. Quiet(t, u) /\ Quiet(t, EncodeFailed(t))
  BY DEF Quiet, Fields, EncodeDone, EncodeFailed
<1>2. Quiet(u, RefreshDocumentState(u))
  <2> HIDE DEF u
  <2> QED
    BY <1>1, RefreshQuiet DEF Quiet
<1>3. Encoded(t, ok) = RefreshDocumentState(u)
  BY DEF Encoded
<1> HIDE DEF u
<1> QED
  BY <1>1, <1>2, <1>3, QuietChain

\* Encode on every route leaves the drafts and the streams alone.
LEMMA EncodeQuiet ==
    ASSUME NEW t, DOMAIN t = Fields, NEW ok
    PROVE  Quiet(t, Encode(t, ok))
<1>1. Quiet(t, EncodeFailed(t)) /\ \A o : Quiet(t, Encoded(t, o))
  BY EncodedQuiet
<1>2. Quiet(t, EncodeBinary(t, ok))
  <2> DEFINE u == [t EXCEPT !.slots[Selected(t)].preview = IF ok THEN <<Shown(t)>> ELSE <<>>]
  <2>1. Quiet(t, u)
    BY DEF Quiet, Fields
  <2>2. Quiet(u, Encoded(u, ok))
    <3> HIDE DEF u
    <3> QED
      BY <2>1, EncodedQuiet DEF Quiet
  <2>3. Quiet(t, Encoded(u, ok))
    <3> HIDE DEF u
    <3> QED
      BY <2>1, <2>2, QuietChain
  <2> QED
    BY <1>1, <2>3 DEF EncodeBinary
<1>3. Quiet(t, EncodeAscii(t, ok)) /\ Quiet(t, EncodeLegacy(t, ok)) /\ Quiet(t, EncodeBridge(t, ok))
  BY <1>1 DEF EncodeAscii, EncodeLegacy, EncodeBridge
<1> QED
  BY <1>1, <1>2, <1>3, KindAssumption DEF Encode, IsAscii

\* What an Inspect shows is its result or its failure.
LEMMA InspectedQuiet ==
    ASSUME NEW t, DOMAIN t = Fields, NEW ok
    PROVE  Quiet(t, InspectFailed(t)) /\ Quiet(t, Inspected(t, ok))
<1> DEFINE u == [t EXCEPT !.result = <<>>, !.ifail = TRUE]
           w == [t EXCEPT !.result = <<t.draft>>, !.ifail = FALSE]
<1>1. Quiet(t, u) /\ Quiet(t, w)
  BY DEF Quiet, Fields
<1>2. Quiet(u, RefreshDocumentState(u)) /\ Quiet(w, RefreshDocumentState(w))
  <2> HIDE DEF u, w
  <2> QED
    BY <1>1, RefreshQuiet DEF Quiet
<1>3. InspectFailed(t) = RefreshDocumentState(u)
  BY DEF InspectFailed
<1>4. Inspected(t, ok) = IF ok THEN RefreshDocumentState(w) ELSE InspectFailed(t)
  BY DEF Inspected
<1> HIDE DEF u, w
<1> QED
  BY <1>1, <1>2, <1>3, <1>4, QuietChain

\* Inspect of a complete record on every route leaves the drafts and the streams alone.
LEMMA InspectQuiet ==
    ASSUME NEW t, DOMAIN t = Fields, NEW ok
    PROVE  Quiet(t, Inspect(t, ok))
<1>1. Quiet(t, InspectFailed(t)) /\ \A o : Quiet(t, Inspected(t, o))
  BY InspectedQuiet
<1>2. Quiet(t, InspectBinary(t, ok))
  <2> DEFINE u == [t EXCEPT !.slots[Selected(t)].result = IF ok THEN <<t.draft>> ELSE <<>>,
                            !.slots[Selected(t)].ifail = ~ok]
  <2>1. Quiet(t, u)
    BY DEF Quiet, Fields
  <2>2. Quiet(u, Inspected(u, ok))
    <3> HIDE DEF u
    <3> QED
      BY <2>1, InspectedQuiet DEF Quiet
  <2>3. Quiet(t, Inspected(u, ok))
    <3> HIDE DEF u
    <3> QED
      BY <2>1, <2>2, QuietChain
  <2> QED
    BY <1>1, <2>3 DEF InspectBinary
<1>3. Quiet(t, InspectAscii(t, ok)) /\ Quiet(t, InspectLegacy(t, ok)) /\ Quiet(t, InspectBridge(t, ok))
  BY <1>1 DEF InspectAscii, InspectLegacy, InspectBridge
<1> QED
  BY <1>1, <1>2, <1>3, KindAssumption DEF Inspect, IsAscii

-----------------------------------------------------------------------------
(***************************************************************************)
(* Streams.                                                                *)
(***************************************************************************)

\* A sequence is its first k elements and the rest.
LEMMA TwoParts ==
    ASSUME NEW S, NEW q \in Seq(S), NEW k \in 0 .. Len(q)
    PROVE  /\ SubSeq(q, 1, k) \in Seq(S) /\ Len(SubSeq(q, 1, k)) = k
           /\ SubSeq(q, k + 1, Len(q)) \in Seq(S)
           /\ Len(SubSeq(q, k + 1, Len(q))) = Len(q) - k
           /\ SubSeq(q, 1, k) \o SubSeq(q, k + 1, Len(q)) = q
<1>1. Len(q) \in Nat /\ k \in Nat /\ k <= Len(q) /\ \A i \in 1 .. Len(q) : q[i] \in S
  BY LenProperties, ElementOfSeq
<1> DEFINE z == Len(q)
           a == k + 1
           u == SubSeq(q, 1, k)
           v == SubSeq(q, a, z)
<1>2. u \in Seq(S) /\ Len(u) = IF 1 <= k THEN k - 1 + 1 ELSE 0
  <2>1. \A i \in 1 .. k : q[i] \in S
    BY <1>1
  <2> QED
    BY <1>1, <2>1, SubSeqProperties
<1>3. a \in Int /\ z \in Int /\ \A i \in a .. z : q[i] \in S
  BY <1>1
<1>4. v \in Seq(S) /\ Len(v) = IF a <= z THEN z - a + 1 ELSE 0
  <2> HIDE DEF a, z
  <2> QED
    BY <1>3, SubSeqProperties
<1>5. u \o v = SubSeq(q, 1, z)
  <2>1. 1 \in 1 .. Len(q) + 1 /\ k \in (1 - 1) .. Len(q) /\ Len(q) \in k .. Len(q)
    BY <1>1
  <2> QED
    BY <2>1, ConcatAdjacentSubSeq
<1>6. Len(u) = k
  <2> HIDE DEF u
  <2> QED
    BY <1>1, <1>2
<1>7. Len(v) = Len(q) - k
  <2> HIDE DEF v
  <2> QED
    BY <1>1, <1>4
<1> QED
  BY <1>2, <1>4, <1>5, <1>6, <1>7, SubSeqFull

\* The rest of a rest is a rest.
LEMMA RestOfRest ==
    ASSUME NEW S, NEW q \in Seq(S), NEW c \in 0 .. Len(q), NEW k \in 0 .. (Len(q) - c)
    PROVE  SubSeq(SubSeq(q, c + 1, Len(q)), k + 1, Len(q) - c) = SubSeq(q, (c + k) + 1, Len(q))
<1> DEFINE z == Len(q)
           a == c + 1
           b == k + 1
           m == z - c
           r == SubSeq(q, a, z)
<1>1. z \in Nat /\ c \in Nat /\ k \in Nat /\ c <= z /\ c + k <= z
  BY LenProperties
<1>2. CASE c + k = z
  <2>1. m < b /\ z < (c + k) + 1 /\ m \in Int /\ b \in Int /\ z \in Int /\ (c + k) + 1 \in Int
    BY <1>1, <1>2
  <2>2. SubSeq(r, b, m) = <<>>
    <3> HIDE DEF r, b, m
    <3> QED
      BY <2>1, SubSeqEmpty
  <2>3. SubSeq(q, (c + k) + 1, z) = <<>>
    <3> HIDE DEF z
    <3> QED
      BY <2>1, SubSeqEmpty
  <2> QED
    BY <2>2, <2>3
<1>3. CASE c + k < z
  <2>1. /\ a \in 1 .. z /\ z \in 1 .. z /\ b \in 1 .. (z - a + 1) /\ m \in 1 .. (z - a + 1)
        /\ a + b - 1 = (c + k) + 1 /\ a + m - 1 = z
    BY <1>1, <1>3
  <2>2. SubSeq(r, b, m) = SubSeq(q, a + b - 1, a + m - 1)
    <3> HIDE DEF a, b, m
    <3> QED
      BY <2>1, SubSeqOfSubSeq
  <2> QED
    BY <2>1, <2>2
<1> QED
  BY <1>1, <1>2, <1>3

\* Concatenation and subsequences under names of their own: what follows needs the facts
\* below about them and not their elements.
Join(p, q) == p \o q
Part(q, i, j) == SubSeq(q, i, j)

\* Concatenation, as the provers need it.
LEMMA JoinFacts ==
    ASSUME NEW S
    PROVE  /\ \A p, q \in Seq(S) : Join(p, q) \in Seq(S) /\ Len(Join(p, q)) = Len(p) + Len(q)
           /\ \A p, q, r \in Seq(S) : Join(Join(p, q), r) = Join(p, Join(q, r))
<1>1. \A p, q \in Seq(S) : Join(p, q) \in Seq(S) /\ Len(Join(p, q)) = Len(p) + Len(q)
  BY ConcatProperties DEF Join
<1>2. \A p, q, r \in Seq(S) : Join(Join(p, q), r) = Join(p, Join(q, r))
  BY ConcatAssociative DEF Join
<1> QED
  BY <1>1, <1>2

\* Parts of a text, as the provers need them.
LEMMA PartFacts ==
    ASSUME NEW S
    PROVE  \A q \in Seq(S), k \in Nat : k <= Len(q) =>
             /\ Part(q, 1, k) \in Seq(S) /\ Len(Part(q, 1, k)) = k
             /\ Part(q, k + 1, Len(q)) \in Seq(S) /\ Len(Part(q, k + 1, Len(q))) = Len(q) - k
             /\ Join(Part(q, 1, k), Part(q, k + 1, Len(q))) = q
<1> SUFFICES ASSUME NEW q \in Seq(S), NEW k \in Nat, k <= Len(q)
             PROVE  /\ Part(q, 1, k) \in Seq(S) /\ Len(Part(q, 1, k)) = k
                    /\ Part(q, k + 1, Len(q)) \in Seq(S)
                    /\ Len(Part(q, k + 1, Len(q))) = Len(q) - k
                    /\ Join(Part(q, 1, k), Part(q, k + 1, Len(q))) = q
  OBVIOUS
<1>1. k \in 0 .. Len(q)
  BY LenProperties
<1> QED
  BY <1>1, TwoParts DEF Part, Join

\* The first k elements of a suffix w go behind a, the first m of what is then there behind
\* b: the three of them together stay what they were.
LEMMA BytesMove ==
    ASSUME NEW S, NEW a \in Seq(S), NEW b \in Seq(S), NEW w \in Seq(S),
           NEW k \in Nat, k <= Len(w), NEW m \in Nat, m <= Len(a) + k,
           NEW h, h = Join(a, Part(w, 1, k))
    PROVE  /\ Part(h, m + 1, Len(h)) \in Seq(S)
           /\ Join(b, Part(h, 1, m)) \in Seq(S)
           /\ Join(Join(Join(b, Part(h, 1, m)), Part(h, m + 1, Len(h))), Part(w, k + 1, Len(w)))
                = Join(Join(b, a), w)
<1>1. PICK x \in Seq(S), y \in Seq(S) : /\ x = Part(w, 1, k) /\ y = Part(w, k + 1, Len(w))
                                       /\ Join(x, y) = w /\ Len(x) = k
  BY PartFacts
<1>2. h \in Seq(S) /\ Len(h) = Len(a) + k /\ h = Join(a, x)
  BY <1>1, JoinFacts
<1>3. PICK u \in Seq(S), v \in Seq(S) : /\ u = Part(h, 1, m) /\ v = Part(h, m + 1, Len(h))
                                       /\ Join(u, v) = h
  BY <1>2, PartFacts
<1>4. Join(b, u) \in Seq(S) /\ Join(Join(b, u), v) = Join(b, h) /\ Join(b, a) \in Seq(S)
  BY <1>3, JoinFacts
<1>5. Join(b, h) = Join(Join(b, a), x)
  BY <1>1, <1>2, JoinFacts
<1>6. Join(Join(Join(b, a), x), y) = Join(Join(b, a), w)
  BY <1>1, <1>4, JoinFacts
<1> QED
  BY <1>1, <1>3, <1>4, <1>5, <1>6

\* What is left of a chunk when the cursor moves on by k.
LEMMA SuffixMoves ==
    ASSUME NEW S, NEW q \in Seq(S), NEW c \in 0 .. Len(q), NEW w, w = Part(q, c + 1, Len(q)),
           NEW k \in 0 .. Len(w), NEW d, d = c + k
    PROVE  /\ w \in Seq(S) /\ d \in 0 .. Len(q)
           /\ d # Len(q) => Part(q, d + 1, Len(q)) = Part(w, k + 1, Len(w))
           /\ d = Len(q) => Part(w, k + 1, Len(w)) = <<>>
           /\ Part(<<>>, 0 + 1, Len(<<>>)) = <<>>
<1>1. w \in Seq(S) /\ Len(w) = Len(q) - c
  BY PartFacts
<1>2. Len(q) \in Nat /\ c \in Nat /\ c <= Len(q)
  BY LenProperties
<1>3. k \in Nat /\ k <= Len(q) - c /\ d \in 0 .. Len(q) /\ k \in 0 .. (Len(q) - c)
  BY <1>1, <1>2
<1>4. Part(w, k + 1, Len(q) - c) = Part(q, d + 1, Len(q))
  BY <1>3, RestOfRest DEF Part
<1>5. d = Len(q) => Len(w) < k + 1 /\ Len(w) \in Int /\ k + 1 \in Int
  BY <1>1, <1>2, <1>3
<1>6. d = Len(q) => Part(w, k + 1, Len(w)) = <<>>
  BY <1>5, SubSeqEmpty DEF Part
<1>7. Len(<<>>) < 0 + 1 /\ Len(<<>>) \in Int /\ 0 + 1 \in Int
  OBVIOUS
<1>8. Part(<<>>, 0 + 1, Len(<<>>)) = <<>>
  BY <1>7, SubSeqEmpty DEF Part
<1> QED
  BY <1>1, <1>3, <1>4, <1>6, <1>8

\* One call of the Host moves bytes from the suffix to the framer and from there to the
\* frames; none is lost, whether the candidate could be copied or not.
LEMMA RunStreamStepSound ==
    ASSUME NEW st, StreamSound(st), NEW o, o.took \in 0 .. Len(Suffix(st)),
           o.frames \in 0 .. (Len(st.inner) + o.took)
    PROVE  StreamSound(RunStreamStep(st, o)) /\ RunStreamStep(st, o).taken = st.taken
<1> DEFINE u == RunStreamStep(st, o)
<1>1. PICK T : T = Tokens \cup {"junk"}
  OBVIOUS
<1>2. /\ st.frozen \in Seq(T) /\ st.inner \in Seq(T) /\ st.taken \in Seq(T)
      /\ st.framed \in Seq(T) /\ st.cursor \in 0 .. Len(st.frozen)
      /\ st.taken = Join(Join(st.framed, st.inner), Suffix(st))
      /\ DOMAIN st = StreamFields
  BY <1>1 DEF StreamSound, Texts, Conserved, Join
<1>3. PICK k, m, w, q, c, a, b :
        /\ k = o.took /\ m = o.frames /\ w = Suffix(st) /\ q = st.frozen /\ c = st.cursor
        /\ a = st.inner /\ b = st.framed
  OBVIOUS
<1>4. PICK h, d : h = Join(a, Part(w, 1, k)) /\ d = c + k
  OBVIOUS
<1>5. /\ q \in Seq(T) /\ c \in 0 .. Len(q) /\ w = Part(q, c + 1, Len(q)) /\ k \in 0 .. Len(w)
      /\ a \in Seq(T) /\ b \in Seq(T) /\ m \in 0 .. (Len(a) + k)
  BY <1>2, <1>3 DEF Suffix, Part
<1>6. /\ w \in Seq(T) /\ d \in 0 .. Len(q)
      /\ d # Len(q) => Part(q, d + 1, Len(q)) = Part(w, k + 1, Len(w))
      /\ d = Len(q) => Part(w, k + 1, Len(w)) = <<>>
      /\ Part(<<>>, 0 + 1, Len(<<>>)) = <<>>
  BY <1>4, <1>5, SuffixMoves
<1>7. k \in Nat /\ k <= Len(w) /\ m \in Nat /\ m <= Len(a) + k
  BY <1>5, <1>6, LenProperties
<1>8. /\ Part(h, m + 1, Len(h)) \in Seq(T) /\ Join(b, Part(h, 1, m)) \in Seq(T)
      /\ Join(Join(Join(b, Part(h, 1, m)), Part(h, m + 1, Len(h))), Part(w, k + 1, Len(w)))
           = Join(Join(b, a), w)
  BY <1>4, <1>5, <1>6, <1>7, BytesMove
<1>9. /\ u.framed = Join(b, Part(h, 1, m)) /\ u.inner = Part(h, m + 1, Len(h))
      /\ u.taken = st.taken
      /\ u.frozen = IF d = Len(q) THEN <<>> ELSE q
      /\ u.cursor = IF d = Len(q) THEN 0 ELSE d
      /\ DOMAIN u = StreamFields
  BY <1>2, <1>3, <1>4 DEF RunStreamStep, StreamFields, Join, Part
<1> HIDE DEF u
<1>10. Suffix(u) = Part(w, k + 1, Len(w))
  <2>1. Suffix(u) = Part(u.frozen, u.cursor + 1, Len(u.frozen))
    BY DEF Suffix, Part
  <2> QED
    BY <1>6, <1>9, <2>1
<1>11. u.frozen \in Seq(T) /\ u.cursor \in 0 .. Len(u.frozen)
  BY <1>5, <1>6, <1>9, EmptySeq
<1>12. Conserved(u)
  <2>1. u.taken = Join(Join(u.framed, u.inner), Suffix(u))
    BY <1>2, <1>3, <1>8, <1>9, <1>10
  <2> QED
    BY <2>1 DEF Conserved, Join
<1>13. StreamSound(u)
  BY <1>1, <1>2, <1>8, <1>9, <1>11, <1>12 DEF StreamSound, Texts
<1> QED
  BY <1>9, <1>13 DEF u

\* The bytes a flow took are a prefix of what it has taken later.
LEMMA PrefixOfJoin ==
    \A a, b \in Texts : IsPrefix(a, a) /\ IsPrefix(a, Join(a, b)) /\ Join(a, b) \in Texts
<1> SUFFICES ASSUME NEW a \in Texts, NEW b \in Texts
             PROVE  IsPrefix(a, a) /\ IsPrefix(a, a \o b) /\ a \o b \in Texts
  BY DEF Join
<1> DEFINE z == Len(a)
<1>1. a \o b \in Texts /\ z \in Nat /\ Len(b) \in Nat /\ Len(a \o b) = z + Len(b)
  BY ConcatProperties, LenProperties DEF Texts
<1>2. SubSeq(a \o b, 1, z) = SubSeq(a, 1, z)
  <2>1. CASE z = 0
    <3>1. z < 1 /\ z \in Int /\ 1 \in Int
      BY <2>1
    <3> HIDE DEF z
    <3> QED
      BY <3>1, SubSeqEmpty
  <2>2. CASE z # 0
    <3>1. 1 \in 1 .. z /\ z \in 1 .. z
      BY <1>1, <2>2
    <3> QED
      BY <3>1, SubSeqOfConcat1 DEF Texts
  <2> QED
    BY <2>1, <2>2
<1> QED
  BY <1>1, <1>2 DEF IsPrefix

\* What the Host may take and frame in one call.
LEMMA OutcomeBounds ==
    ASSUME NEW st, StreamSound(st), NEW o \in HostOutcomes(st)
    PROVE  o.took \in 0 .. Len(Suffix(st)) /\ o.frames \in 0 .. (Len(st.inner) + o.took)
<1>1. Len(st.inner) \in Nat
  BY LenProperties DEF StreamSound, Texts
<1>2. /\ o.took \in 0 .. Len(Suffix(st)) /\ o.frames \in 0 .. Len(st.inner \o Suffix(st))
      /\ o.frames <= Len(st.inner) + o.took
  BY DEF HostOutcomes
<1> QED
  BY <1>1, <1>2

\* A chunk that is taken is frozen whole behind everything taken before.
LEMMA FrozenSound ==
    ASSUME NEW st, StreamSound(st), NEW chunk \in Texts, AcceptsChunk(st, chunk)
    PROVE  StreamSound(Frozen(st, chunk)) /\ Frozen(st, chunk).taken = Join(st.taken, chunk)
<1> DEFINE u == Frozen(st, chunk)
<1>1. /\ st.inner = <<>> /\ Suffix(st) = <<>> /\ st.taken \in Texts /\ st.framed \in Texts
      /\ st.taken = (st.framed \o st.inner) \o Suffix(st) /\ DOMAIN st = StreamFields
  BY DEF AcceptsChunk, Unfinished, StreamSound, Conserved
<1>2. st.taken = st.framed
  BY <1>1, ConcatEmptySeq DEF Texts
<1>3. /\ u.frozen = chunk /\ u.cursor = 0 /\ u.taken = Join(st.taken, chunk) /\ u.inner = <<>>
      /\ u.framed = st.framed /\ DOMAIN u = StreamFields
  BY <1>1 DEF Frozen, StreamFields, Join
<1> HIDE DEF u
<1>4. Suffix(u) = chunk
  <2>1. SubSeq(chunk, 1, Len(chunk)) = chunk
    BY SubSeqFull DEF Texts
  <2> QED
    BY <1>3, <2>1 DEF Suffix
<1>5. Conserved(u)
  <2>1. Join(st.framed, <<>>) = st.framed
    BY <1>1, ConcatEmptySeq DEF Texts, Join
  <2>2. u.taken = Join(Join(u.framed, u.inner), Suffix(u))
    BY <1>2, <1>3, <1>4, <2>1
  <2> QED
    BY <2>2 DEF Conserved, Join
<1>6. u.taken \in Texts /\ <<>> \in Texts /\ Len(chunk) \in Nat
  BY <1>1, <1>3, PrefixOfJoin, EmptySeq, LenProperties DEF Texts
<1>7. StreamSound(u)
  <2>1. u.cursor \in 0 .. Len(u.frozen)
    BY <1>3, <1>6
  <2> QED
    BY <1>1, <1>3, <1>5, <1>6, <2>1 DEF StreamSound
<1> QED
  BY <1>3, <1>7 DEF u

\* A chunk that is accepted is added to what the flow has taken, once.
LEMMA SubmitChunkSound ==
    ASSUME NEW st, StreamSound(st), NEW chunk \in Texts, AcceptsChunk(st, chunk),
           NEW o \in HostOutcomes(Frozen(st, chunk))
    PROVE  /\ StreamSound(SubmitChunk(st, chunk, o))
           /\ SubmitChunk(st, chunk, o).taken = Join(st.taken, chunk)
<1> DEFINE u == Frozen(st, chunk)
<1>1. StreamSound(u) /\ u.taken = Join(st.taken, chunk) /\ o \in HostOutcomes(u)
  BY FrozenSound
<1> HIDE DEF u
<1>2. o.took \in 0 .. Len(Suffix(u)) /\ o.frames \in 0 .. (Len(u.inner) + o.took)
  BY <1>1, OutcomeBounds
<1>3. StreamSound(RunStreamStep(u, o)) /\ RunStreamStep(u, o).taken = u.taken
  BY <1>1, <1>2, RunStreamStepSound
<1> QED
  BY <1>1, <1>3 DEF SubmitChunk, u

\* The second copy of a step faults the flow at most.
LEMMA MapStreamStepSound ==
    ASSUME NEW st, StreamSound(st), NEW o
    PROVE  StreamSound(MapStreamStep(st, o)) /\ MapStreamStep(st, o).taken = st.taken
<1> DEFINE u == [st EXCEPT !.mapFaulted = TRUE]
<1>1. /\ DOMAIN u = StreamFields /\ u.frozen = st.frozen /\ u.cursor = st.cursor
      /\ u.inner = st.inner /\ u.taken = st.taken /\ u.framed = st.framed
  BY DEF StreamSound, StreamFields
<1> HIDE DEF u
<1>2. StreamSound(u)
  BY <1>1 DEF StreamSound, Conserved, Suffix
<1> QED
  BY <1>1, <1>2 DEF MapStreamStep, u

\* A stream that was reset is sound and has nothing to lose.
LEMMA EmptyStreamSound ==
    StreamSound(EmptyStream) /\ ~StreamDiscardable(EmptyStream) /\ EmptyStream.taken = <<>>
<1> DEFINE u == EmptyStream
<1>1. /\ u.frozen = <<>> /\ u.cursor = 0 /\ u.inner = <<>> /\ u.taken = <<>> /\ u.framed = <<>>
      /\ u.half = FALSE /\ u.faulted = FALSE /\ u.mapFaulted = FALSE
      /\ DOMAIN u = StreamFields
  BY SessionFields DEF EmptyStream
<1> HIDE DEF u
<1>2. Suffix(u) = <<>>
  <2>1. Part(<<>>, 0 + 1, Len(<<>>)) = <<>>
    <3>1. Len(<<>>) < 0 + 1 /\ Len(<<>>) \in Int /\ 0 + 1 \in Int
      OBVIOUS
    <3> QED
      BY <3>1, SubSeqEmpty DEF Part
  <2>2. Suffix(u) = Part(u.frozen, u.cursor + 1, Len(u.frozen))
    BY DEF Suffix, Part
  <2> QED
    BY <1>1, <2>1, <2>2
<1>3. <<>> \in Texts /\ (<<>> \o <<>>) \o <<>> = <<>> /\ Len(<<>>) = 0
  <2>1. <<>> \in Texts
    BY EmptySeq DEF Texts
  <2>2. <<>> \o <<>> = <<>>
    BY <2>1, ConcatEmptySeq DEF Texts
  <2> QED
    BY <2>1, <2>2
<1>4. StreamSound(u)
  BY <1>1, <1>2, <1>3 DEF StreamSound, Conserved
<1>5. ~StreamDiscardable(u)
  BY <1>1, <1>2 DEF StreamDiscardable, Unfinished, ResetRequired
<1> QED
  BY <1>1, <1>4, <1>5 DEF u

-----------------------------------------------------------------------------
(***************************************************************************)
(* The session.                                                            *)
(***************************************************************************)

\* A quiet step keeps everything.
LEMMA QuietKeeps ==
    ASSUME NEW t, SessionSound(t), NEW u, Quiet(t, u)
    PROVE  Kept(t, u) /\ Spared(t, u) /\ Emptied(t, u)
<1>1. SessionSound(u)
  <2>1. DOMAIN u = Fields /\ u.host \in BOOLEAN /\ InputSound(u)
    BY DEF SessionSound, InputSound, Quiet
  <2>2. \A k \in DOMAIN u.streams : StreamSound(u.streams[k])
    BY DEF SessionSound, Quiet
  <2>3. \A k \in DOMAIN u.slots : ViewSound(u.slots[k])
    BY DEF SessionSound, Quiet, ViewSound, InputSound
  <2>4. HostSound(u)
    BY DEF SessionSound, Quiet, HostSound
  <2>5. DirectSound(u)
    BY DEF SessionSound, Quiet, DirectSound
  <2>6. /\ u.config = "none" => DOMAIN u.streams = {} /\ ~u.host
        /\ u.state \in {"LOADING", "CLOSED"} => u.config = "none"
    BY DEF SessionSound, Quiet
  <2> QED
    BY <2>1, <2>2, <2>3, <2>4, <2>5, <2>6 DEF SessionSound
<1>2. Kept(t, u)
  BY <1>1 DEF Kept, Quiet
<1>3. Spared(t, u)
  <2>1. \A k \in DOMAIN t.streams : IsPrefix(t.streams[k].taken, t.streams[k].taken)
    BY PrefixOfJoin DEF SessionSound, StreamSound
  <2> QED
    BY <2>1 DEF Spared, Quiet
<1>4. Emptied(t, u)
  BY DEF Emptied, Quiet
<1> QED
  BY <1>2, <1>3, <1>4

\* Kept from one session to the next, and on.
LEMMA KeptChain ==
    ASSUME NEW t, NEW u, NEW v, Kept(t, u), Kept(u, v)
    PROVE  Kept(t, v)
  BY DEF Kept

\* Emptied from one session to the next, and on.
LEMMA EmptiedChain ==
    ASSUME NEW t, NEW u, NEW v, Emptied(t, u), Emptied(u, v)
    PROVE  Emptied(t, v)
  BY DEF Emptied

\* What was only emptied was not submitted twice: a marked draft is not the empty one.
LEMMA EmptiedOnce ==
    ASSUME NEW t, SessionSound(t), NEW u, Emptied(t, u)
    PROVE  Once(t, u)
  BY DEF SessionSound, InputSound, Emptied, Once

\* Emptying the draft.
LEMMA EmptyDraft == <<>> \in Texts
  BY EmptySeq DEF Texts

\* The flow a stream operation works on gets its new state; nothing else moves.
LEMMA StreamPut ==
    ASSUME NEW t, SessionSound(t), NEW v, StreamSound(v), StreamKey(t) \in DOMAIN t.streams,
           NEW u, Quiet([t EXCEPT !.streams[StreamKey(t)] = v], u)
    PROVE  /\ Kept(t, u) /\ u.draft = t.draft /\ u.submitted = t.submitted
           /\ u.streams = [t.streams EXCEPT ![StreamKey(t)] = v]
<1> DEFINE key == StreamKey(t)
           w == [t EXCEPT !.streams[key] = v]
<1>1. /\ DOMAIN w = Fields /\ w.host = t.host /\ w.draft = t.draft /\ w.submitted = t.submitted
      /\ w.slots = t.slots /\ w.config = t.config /\ w.load = t.load /\ w.hostFor = t.hostFor
      /\ w.table = t.table /\ w.pipe = t.pipe /\ w.state = t.state
      /\ w.streams = [t.streams EXCEPT ![key] = v]
  BY DEF SessionSound, Fields
<1>2. ~t.host => key = <<0, t.pipe>>
  BY DEF StreamKey
<1> HIDE DEF w, key
<1>3. \A k \in DOMAIN t.streams : w.streams[k] = IF k = key THEN v ELSE t.streams[k]
  BY <1>1
<1>4. DOMAIN w.streams = DOMAIN t.streams
  BY <1>1
<1>5. SessionSound(w)
  <2>1. InputSound(w)
    BY <1>1 DEF SessionSound, InputSound
  <2>2. HostSound(w)
    BY <1>1 DEF SessionSound, HostSound
  <2>3. DirectSound(w)
    BY <1>1, <1>2, <1>3, <1>4 DEF SessionSound, DirectSound
  <2>4. \A k \in DOMAIN w.streams : StreamSound(w.streams[k])
    BY <1>3, <1>4 DEF SessionSound
  <2> QED
    BY <1>1, <1>4, <2>1, <2>2, <2>3, <2>4 DEF SessionSound
<1>6. Quiet(w, u)
  BY DEF w, key
<1>7. Kept(w, u)
  BY <1>5, <1>6, QuietKeeps
<1>8. Kept(t, u)
  BY <1>1, <1>7 DEF Kept
<1> QED
  BY <1>1, <1>6, <1>8 DEF Quiet, key

\* The last candidate of a flow is shown as its result or failure.
LEMMA ProjectStreamQuiet ==
    ASSUME NEW t, DOMAIN t = Fields, NEW st
    PROVE  Quiet(t, ProjectStream(t, st))
  BY DEF ProjectStream, Quiet, Fields

\* After a Binary step only the stream has moved.
LEMMA BinarySteppedQuiet ==
    ASSUME NEW t, DOMAIN t = Fields, NEW st, NEW o
    PROVE  Quiet([t EXCEPT !.streams[StreamKey(t)] = MapStreamStep(st, o)],
                 BinaryStepped(t, st, o))
<1> DEFINE v == MapStreamStep(st, o)
           w == [t EXCEPT !.streams[StreamKey(t)] = v]
           x == ProjectStream(w, v)
<1>1. DOMAIN w = Fields
  OBVIOUS
<1>2. BinaryStepped(t, st, o) = RefreshDocumentState(x)
  BY DEF BinaryStepped
<1>3. Quiet(w, x)
  <2> HIDE DEF w, v
  <2> QED
    BY <1>1, ProjectStreamQuiet
<1>4. Quiet(x, RefreshDocumentState(x))
  <2> HIDE DEF x
  <2> QED
    BY <1>3, RefreshQuiet DEF Quiet
<1>5. Quiet(w, RefreshDocumentState(x))
  <2> HIDE DEF w, x
  <2> QED
    BY <1>3, <1>4, QuietChain
<1> QED
  BY <1>2, <1>5

\* After an ASCII step only the stream has moved.
LEMMA AsciiSteppedQuiet ==
    ASSUME NEW t, DOMAIN t = Fields, NEW st
    PROVE  Quiet([t EXCEPT !.streams[StreamKey(t)] = st], AsciiStepped(t, st))
<1> DEFINE w == [t EXCEPT !.streams[StreamKey(t)] = st]
           x == ProjectStream(w, st)
<1>1. DOMAIN w = Fields
  OBVIOUS
<1>2. Quiet(w, x) /\ Quiet(w, ClearInspectOutcome(w))
  <2> HIDE DEF w
  <2> QED
    BY <1>1, ProjectStreamQuiet, ClearsQuiet
<1>3. Quiet(x, RefreshDocumentState(x))
  <2> HIDE DEF x
  <2> QED
    BY <1>2, RefreshQuiet DEF Quiet
<1>4. Quiet(w, RefreshDocumentState(x))
  <2> HIDE DEF w, x
  <2> QED
    BY <1>2, <1>3, QuietChain
<1> QED
  BY <1>2, <1>4 DEF AsciiStepped

\* A flow that went on taking has lost nothing.
LEMMA PutSpares ==
    ASSUME NEW t, SessionSound(t), NEW key, key \in DOMAIN t.streams, NEW v, NEW b \in Texts,
           v.taken = t.streams[key].taken \/ v.taken = Join(t.streams[key].taken, b),
           NEW u, u.streams = [t.streams EXCEPT ![key] = v]
    PROVE  Spared(t, u)
<1>1. \A k \in DOMAIN t.streams : t.streams[k].taken \in Texts
  BY DEF SessionSound, StreamSound
<1>2. \A k \in DOMAIN t.streams : IsPrefix(t.streams[k].taken, t.streams[k].taken)
  BY <1>1, PrefixOfJoin
<1>3. IsPrefix(t.streams[key].taken, v.taken)
  BY <1>1, PrefixOfJoin
<1> QED
  BY <1>2, <1>3 DEF Spared

\* Submitting a chunk: an edit is handed over once, and only by marking it.
LEMMA SubmitStreamBinaryKept ==
    ASSUME NEW t, SessionSound(t), StreamInspectAvailable(t), NEW o \in SubmitOutcomes(t)
    PROVE  Kept(t, SubmitStreamBinary(t, o)) /\ Spared(t, SubmitStreamBinary(t, o))
<1> DEFINE key == StreamKey(t)
           st == t.streams[key]
           v == SubmitChunk(st, t.draft, o)
           w == MapStreamStep(v, o)
           u == BinaryStepped(t, v, o)
<1>1. Quiet(t, t) /\ DOMAIN t = Fields /\ t.draft \in Texts
  BY QuietSelf DEF SessionSound, InputSound
<1>2. key \in DOMAIN t.streams /\ StreamSound(st)
  BY DEF StreamInspectAvailable, SessionSound
<1>3. CASE Parses(t) /\ AcceptsChunk(st, t.draft)
  <2>1. o \in HostOutcomes(Frozen(st, t.draft))
    BY <1>3 DEF SubmitOutcomes
  <2>2. StreamSound(v) /\ v.taken = Join(st.taken, t.draft)
    BY <1>1, <1>2, <1>3, <2>1, SubmitChunkSound
  <2>3. StreamSound(w) /\ w.taken = Join(st.taken, t.draft)
    <3> HIDE DEF v, st
    <3> QED
      BY <2>2, MapStreamStepSound
  <2>4. Quiet([t EXCEPT !.streams[key] = w], u)
    <3> HIDE DEF v
    <3> QED
      BY <1>1, BinarySteppedQuiet
  <2>5. Kept(t, u) /\ u.streams = [t.streams EXCEPT ![key] = w]
    <3> HIDE DEF w, u
    <3> QED
      BY <1>2, <2>3, <2>4, StreamPut
  <2>6. Spared(t, u)
    <3> HIDE DEF w, u, key
    <3> QED
      BY <1>1, <1>2, <2>3, <2>5, PutSpares
  <2>7. SubmitStreamBinary(t, o) = u
    BY <1>3 DEF SubmitStreamBinary
  <2> QED
    BY <2>5, <2>6, <2>7
<1>4. CASE ~(Parses(t) /\ AcceptsChunk(st, t.draft))
  <2>1. SubmitStreamBinary(t, o) = t
    BY <1>4 DEF SubmitStreamBinary
  <2> QED
    BY <1>1, <2>1, QuietKeeps
<1> QED
  BY <1>3, <1>4

\* The ASCII routes mark the draft they hand over and refuse one that is marked.
LEMMA SubmitStreamAsciiKept ==
    ASSUME NEW t, SessionSound(t), StreamInspectAvailable(t), NEW o \in SubmitOutcomes(t),
           Kind # "BINARY"
    PROVE  LET u == SubmitStreamAscii(t, o) IN Kept(t, u) /\ Spared(t, u) /\ Once(t, u)
<1> DEFINE key == StreamKey(t)
           st == t.streams[key]
           v == SubmitChunk(st, t.draft, o)
           m == [t EXCEPT !.submitted = TRUE]
           u == AsciiStepped(m, v)
<1>1. DOMAIN t = Fields /\ t.draft \in Texts /\ t.submitted \in BOOLEAN
  BY DEF SessionSound, InputSound
<1>2. key \in DOMAIN t.streams /\ StreamSound(st)
  BY DEF StreamInspectAvailable, SessionSound
<1>3. CASE ~t.submitted /\ Parses(t) /\ AcceptsChunk(st, t.draft)
  <2>1. o \in HostOutcomes(Frozen(st, t.draft))
    BY <1>3 DEF SubmitOutcomes
  <2>2. StreamSound(v) /\ v.taken = Join(st.taken, t.draft)
    BY <1>1, <1>2, <1>3, <2>1, SubmitChunkSound
  <2>3. /\ m.host = t.host /\ m.draft = t.draft /\ m.submitted = TRUE /\ m.slots = t.slots
        /\ m.config = t.config /\ m.load = t.load /\ m.hostFor = t.hostFor
        /\ m.table = t.table /\ m.pipe = t.pipe /\ m.state = t.state
        /\ m.streams = t.streams /\ m.bind = t.bind /\ m.flow = t.flow /\ DOMAIN m = Fields
    BY <1>1 DEF Fields
  <2>4. SessionSound(m) /\ StreamKey(m) = key
    <3> HIDE DEF m
    <3>1. InputSound(m) /\ HostSound(m) /\ DirectSound(m) /\ StreamKey(m) = key
      BY <1>3, <2>3 DEF SessionSound, InputSound, HostSound, DirectSound, Parses, StreamKey,
                        Selected
    <3> QED
      BY <2>3, <3>1 DEF SessionSound
  <2>5. Quiet([m EXCEPT !.streams[StreamKey(m)] = v], u)
    <3> HIDE DEF v, m
    <3> QED
      BY <2>3, AsciiSteppedQuiet
  <2>6. /\ Kept(m, u) /\ u.streams = [m.streams EXCEPT ![StreamKey(m)] = v]
        /\ u.draft = m.draft /\ u.submitted = m.submitted
    <3> HIDE DEF v, u, m
    <3>1. StreamKey(m) \in DOMAIN m.streams
      BY <1>2, <2>3, <2>4
    <3>2. Kept(m, u) /\ u.draft = m.draft /\ u.submitted = m.submitted
          /\ u.streams = [m.streams EXCEPT ![StreamKey(m)] = v]
      <4> HIDE DEF key, st
      <4> QED
        BY <2>2, <2>4, <2>5, <3>1, StreamPut, ZenonT(40)
    <3> HIDE DEF key
    <3> QED
      BY <2>4, <3>2
  <2>7. Kept(t, u) /\ u.streams = [t.streams EXCEPT ![key] = v] /\ u.submitted
    <3> HIDE DEF v, u, m, key
    <3> QED
      BY <2>3, <2>4, <2>6 DEF Kept
  <2>8. Spared(t, u)
    <3> HIDE DEF v, u, key
    <3> QED
      BY <1>1, <1>2, <2>2, <2>7, PutSpares
  <2>9. Once(t, u)
    <3> HIDE DEF v, u, key
    <3> QED
      BY <1>3, <2>7 DEF Once
  <2>10. SubmitStreamAscii(t, o) = u
    BY <1>3 DEF SubmitStreamAscii
  <2> QED
    BY <2>7, <2>8, <2>9, <2>10
<1>4. CASE ~(~t.submitted /\ Parses(t) /\ AcceptsChunk(st, t.draft))
  <2>1. Quiet(t, t) /\ Quiet(t, [t EXCEPT !.ifail = TRUE]) /\ Quiet(t, ClearInspectOutcome(t))
    BY <1>1, ClearsQuiet DEF Quiet, Fields
  <2>2. Quiet(t, SubmitStreamAscii(t, o))
    BY <1>4, <2>1 DEF SubmitStreamAscii
  <2> QED
    BY <2>2, QuietKeeps, EmptiedOnce
<1> QED
  BY <1>3, <1>4

\* Submitting on either route.
LEMMA SubmitStreamKept ==
    ASSUME NEW t, SessionSound(t), NEW o \in SubmitOutcomes(t)
    PROVE  LET u == SubmitStream(t, o) IN Kept(t, u) /\ Spared(t, u) /\ (IsAscii => Once(t, u))
<1>1. CASE ~StreamInspectAvailable(t)
  <2>1. Quiet(t, t)
    BY QuietSelf DEF SessionSound
  <2> QED
    BY <1>1, <2>1, QuietKeeps, EmptiedOnce DEF SubmitStream
<1>2. CASE StreamInspectAvailable(t) /\ Kind = "BINARY"
  BY <1>2, SubmitStreamBinaryKept DEF SubmitStream, IsAscii
<1>3. CASE StreamInspectAvailable(t) /\ Kind # "BINARY"
  BY <1>3, SubmitStreamAsciiKept DEF SubmitStream
<1> QED
  BY <1>1, <1>2, <1>3

\* Continue hands over nothing new.
LEMMA ContinueStreamKept ==
    ASSUME NEW t, SessionSound(t), NEW o \in ContinueOutcomes(t), StreamContinueAvailable(t)
    PROVE  LET u == ContinueStream(t, o) IN Kept(t, u) /\ Spared(t, u) /\ Once(t, u)
<1> DEFINE key == StreamKey(t)
           st == t.streams[key]
           v == RunStreamStep(st, o)
           w == MapStreamStep(v, o)
           u == ContinueStream(t, o)
<1>1. key \in DOMAIN t.streams /\ StreamSound(st) /\ o \in HostOutcomes(st)
  BY DEF StreamContinueAvailable, StreamInspectAvailable, SessionSound, ContinueOutcomes
<1>2. o.took \in 0 .. Len(Suffix(st)) /\ o.frames \in 0 .. (Len(st.inner) + o.took)
  BY <1>1, OutcomeBounds
<1>3. StreamSound(v) /\ v.taken = st.taken
  <2> HIDE DEF st
  <2> QED
    BY <1>1, <1>2, RunStreamStepSound
<1>4. StreamSound(w) /\ w.taken = st.taken
  <2> HIDE DEF v, st
  <2> QED
    BY <1>3, MapStreamStepSound
<1>5. PICK x \in {v, w} : Quiet([t EXCEPT !.streams[key] = x], u)
  <2>1. DOMAIN t = Fields
    BY DEF SessionSound
  <2>2. Quiet([t EXCEPT !.streams[key] = w], BinaryStepped(t, v, o))
    <3> HIDE DEF v
    <3> QED
      BY <2>1, BinarySteppedQuiet
  <2>3. Quiet([t EXCEPT !.streams[key] = v], AsciiStepped(t, v))
    <3> HIDE DEF v
    <3> QED
      BY <2>1, AsciiSteppedQuiet
  <2>4. u = IF Kind = "BINARY" THEN BinaryStepped(t, v, o) ELSE AsciiStepped(t, v)
    BY DEF ContinueStream, ContinueStreamBinary, ContinueStreamAscii
  <2> HIDE DEF v, w, u, key
  <2> QED
    BY <2>2, <2>3, <2>4
<1>6. StreamSound(x) /\ x.taken = st.taken
  <2> HIDE DEF v, w, st
  <2> QED
    BY <1>3, <1>4
<1>7. /\ Kept(t, u) /\ u.streams = [t.streams EXCEPT ![key] = x]
      /\ u.draft = t.draft /\ u.submitted = t.submitted
  <2> HIDE DEF u
  <2> QED
    BY <1>1, <1>5, <1>6, StreamPut
<1> HIDE DEF u, v, w, key
<1>8. Spared(t, u)
  BY <1>1, <1>6, <1>7, EmptyDraft, PutSpares
<1>9. Once(t, u)
  BY <1>6, <1>7 DEF Once
<1> QED
  BY <1>7, <1>8, <1>9 DEF u

\* An idle slot is sound.
LEMMA NoSlotSound ==
    ASSUME NEW m
    PROVE  ViewSound(NoSlot) /\ ViewSound([NoSlot EXCEPT !.msg = m])
<1> DEFINE v == [NoSlot EXCEPT !.msg = m]
<1>1. DOMAIN NoSlot = ViewFields /\ NoSlot.draft = <<>> /\ NoSlot.submitted = FALSE
  BY SessionFields DEF NoSlot
<1>2. DOMAIN v = ViewFields /\ v.draft = <<>> /\ v.submitted = FALSE
  BY <1>1 DEF ViewFields
<1> HIDE DEF v
<1>3. ViewSound(NoSlot) /\ ViewSound(v)
  BY <1>1, <1>2, EmptyDraft DEF ViewSound, InputSound
<1> QED
  BY <1>3 DEF v

\* Steps that empty the draft and leave each stream alone or reset it.
LEMMA Rebuilt ==
    ASSUME NEW t, SessionSound(t), NEW u, DOMAIN u = Fields,
           u.load = t.load, u.config = t.config, u.host = t.host, u.hostFor = t.hostFor,
           u.table = t.table, u.draft = <<>>, u.submitted = FALSE,
           DOMAIN u.streams = DOMAIN t.streams,
           \A k \in DOMAIN t.streams : u.streams[k] \in {t.streams[k], EmptyStream},
           DOMAIN u.slots = DOMAIN t.slots, \A k \in DOMAIN t.slots : ViewSound(u.slots[k]),
           u.state = t.state \/ u.state \notin {"LOADING", "CLOSED"},
           t.host \/ u.pipe = t.pipe \/ \A k \in DOMAIN t.streams : ~StreamDiscardable(t.streams[k])
    PROVE  Kept(t, u) /\ Emptied(t, u)
<1>1. InputSound(u)
  BY EmptyDraft DEF InputSound
<1>2. \A k \in DOMAIN u.streams : StreamSound(u.streams[k])
  BY EmptyStreamSound DEF SessionSound
<1>3. HostSound(u)
  BY DEF SessionSound, HostSound
<1>4. DirectSound(u)
  BY EmptyStreamSound DEF SessionSound, DirectSound
<1>5. SessionSound(u)
  BY <1>1, <1>2, <1>3, <1>4 DEF SessionSound
<1>6. Kept(t, u)
  BY <1>5 DEF Kept
<1>7. Emptied(t, u)
  BY EmptyStreamSound DEF Emptied
<1> QED
  BY <1>6, <1>7

\* No stream holds anything that a new selection would lose.
NothingHeld(t) == t.host \/ \A k \in DOMAIN t.streams : ~StreamDiscardable(t.streams[k])

\* Another pipeline starts with an empty draft and the streams as they are.
LEMMA SelectPipelineKept ==
    ASSUME NEW t, SessionSound(t), NEW p, NothingHeld(t)
    PROVE  LET u == SelectPipeline(t, p)
           IN /\ Kept(t, u) /\ Emptied(t, u) /\ u.streams = t.streams /\ u.slots = t.slots
              /\ u.host = t.host /\ u.pipe = p /\ u.table = t.table /\ u.state = "READY"
              /\ u.bind = t.bind /\ u.flow = t.flow /\ u.hostFor = t.hostFor
<1> DEFINE u == SelectPipeline(t, p)
<1>1. /\ DOMAIN u = Fields /\ u.load = t.load /\ u.config = t.config /\ u.host = t.host
      /\ u.hostFor = t.hostFor /\ u.table = t.table /\ u.draft = <<>> /\ u.submitted = FALSE
      /\ u.streams = t.streams /\ u.slots = t.slots /\ u.state = "READY" /\ u.pipe = p
      /\ u.bind = t.bind /\ u.flow = t.flow
  BY DEF SessionSound, SelectPipeline, ClearEncode, ClearInspectOutcome, Fields
<1> HIDE DEF u
<1>2. \A k \in DOMAIN t.slots : ViewSound(t.slots[k])
  BY DEF SessionSound
<1>3. Kept(t, u) /\ Emptied(t, u)
  BY <1>1, <1>2, Rebuilt DEF NothingHeld
<1> QED
  BY <1>1, <1>3 DEF u

\* A new draft is not marked; the same text typed again keeps its mark.
LEMMA SetInspectDraftKept ==
    ASSUME NEW t, SessionSound(t), NEW d \in Texts
    PROVE  LET u == SetInspectDraft(t, d) IN Kept(t, u) /\ Spared(t, u) /\ Once(t, u)
<1> DEFINE u == SetInspectDraft(t, d)
           w == [ClearInspectOutcome(t) EXCEPT !.draft = d, !.submitted = FALSE]
<1>1. CASE t.pipe = 0 \/ t.draft = d
  <2>1. Quiet(t, t) /\ u = t
    BY <1>1, QuietSelf DEF SessionSound, SetInspectDraft
  <2> HIDE DEF u
  <2>2. Kept(t, u) /\ Spared(t, u) /\ Once(t, u)
    BY <2>1, QuietKeeps, EmptiedOnce
  <2> QED
    BY <2>2 DEF u
<1>2. CASE ~(t.pipe = 0 \/ t.draft = d)
  <2>1. /\ DOMAIN w = Fields /\ w.load = t.load /\ w.config = t.config /\ w.host = t.host
        /\ w.hostFor = t.hostFor /\ w.table = t.table /\ w.draft = d /\ w.submitted = FALSE
        /\ w.streams = t.streams /\ w.slots = t.slots /\ w.state = t.state /\ w.pipe = t.pipe
    BY DEF SessionSound, ClearInspectOutcome, Fields
  <2>2. u = RefreshDocumentState(w)
    BY <1>2 DEF SetInspectDraft
  <2> HIDE DEF w, u
  <2>3. SessionSound(w)
    <3>1. InputSound(w) /\ HostSound(w) /\ DirectSound(w)
      BY <2>1 DEF SessionSound, InputSound, HostSound, DirectSound
    <3> QED
      BY <2>1, <3>1 DEF SessionSound
  <2>4. Quiet(w, u)
    BY <2>1, <2>2, RefreshQuiet
  <2>5. Kept(w, u) /\ Spared(w, u)
    BY <2>3, <2>4, QuietKeeps
  <2>6. Kept(t, u) /\ Spared(t, u)
    BY <2>1, <2>5 DEF Kept, Spared
  <2>7. Once(t, u)
    BY <1>2, <2>1, <2>4 DEF Once, Quiet
  <2> QED
    BY <2>6, <2>7 DEF u
<1> QED
  BY <1>1, <1>2

\* Reset empties the selected stream and its draft and leaves the other streams alone.
LEMMA ResetStreamKept ==
    ASSUME NEW t, SessionSound(t)
    PROVE  LET u == ResetStream(t)
           IN /\ Kept(t, u) /\ Emptied(t, u) /\ u.host = t.host
              /\ StreamInspectAvailable(t) =>
                   u.streams = [t.streams EXCEPT ![StreamKey(t)] = EmptyStream]
              /\ ~StreamInspectAvailable(t) => u = t
<1> DEFINE u == ResetStream(t)
           w == [ClearInspectOutcome(t) EXCEPT !.streams[StreamKey(t)] = EmptyStream,
                                               !.draft = <<>>]
           x == RefreshDocumentState(w)
<1>1. CASE ~StreamInspectAvailable(t)
  <2>1. Quiet(t, t) /\ u = t
    BY <1>1, QuietSelf DEF SessionSound, ResetStream
  <2> HIDE DEF u
  <2>2. Kept(t, u) /\ Emptied(t, u)
    BY <2>1, QuietKeeps
  <2> QED
    BY <1>1, <2>1, <2>2 DEF u
<1>2. CASE StreamInspectAvailable(t)
  <2>1. /\ DOMAIN w = Fields /\ w.load = t.load /\ w.config = t.config /\ w.host = t.host
        /\ w.hostFor = t.hostFor /\ w.table = t.table /\ w.draft = <<>>
        /\ w.submitted = t.submitted /\ w.slots = t.slots /\ w.state = t.state
        /\ w.pipe = t.pipe /\ w.streams = [t.streams EXCEPT ![StreamKey(t)] = EmptyStream]
    BY DEF SessionSound, ClearInspectOutcome, Fields
  <2>2. u = IF Kind = "BINARY" THEN x ELSE [x EXCEPT !.submitted = FALSE]
    BY <1>2 DEF ResetStream, ResetStreamBinary, ResetStreamAscii
  <2>3. Quiet(w, x)
    <3> HIDE DEF w
    <3> QED
      BY <2>1, RefreshQuiet
  <2> HIDE DEF w, x, u
  <2>4. Kind = "BINARY" => t.submitted = FALSE
    BY DEF SessionSound, InputSound
  <2>5. /\ DOMAIN u = Fields /\ u.load = t.load /\ u.config = t.config /\ u.host = t.host
        /\ u.hostFor = t.hostFor /\ u.table = t.table /\ u.draft = <<>> /\ u.submitted = FALSE
        /\ u.pipe = t.pipe /\ u.streams = [t.streams EXCEPT ![StreamKey(t)] = EmptyStream]
        /\ u.state = t.state \/ u.state \notin {"LOADING", "CLOSED"}
        /\ u.slots = x.slots
    BY <2>1, <2>2, <2>3, <2>4 DEF Quiet, Fields
  <2>6. DOMAIN u.slots = DOMAIN t.slots /\ \A k \in DOMAIN t.slots : ViewSound(u.slots[k])
    BY <2>1, <2>3, <2>5 DEF SessionSound, Quiet, ViewSound, InputSound
  <2>7. DOMAIN u.streams = DOMAIN t.streams
        /\ \A k \in DOMAIN t.streams : u.streams[k] \in {t.streams[k], EmptyStream}
    BY <2>5
  <2>8. Kept(t, u) /\ Emptied(t, u)
    BY <2>5, <2>6, <2>7, Rebuilt
  <2> QED
    BY <1>2, <2>5, <2>8 DEF u
<1> QED
  BY <1>1, <1>2

\* Resetting every channel of a table empties its streams and its saved drafts.
LEMMA ResetAllHostStreamsKept ==
    ASSUME NEW t, SessionSound(t)
    PROVE  LET u == ResetAllHostStreams(t) IN Kept(t, u) /\ Emptied(t, u) /\ u.host = t.host
<1> DEFINE u == ResetAllHostStreams(t)
<1>1. /\ DOMAIN u = Fields /\ u.load = t.load /\ u.config = t.config /\ u.host = t.host
      /\ u.hostFor = t.hostFor /\ u.table = t.table /\ u.draft = <<>> /\ u.submitted = FALSE
      /\ u.pipe = t.pipe /\ u.state = t.state
      /\ u.streams = [k \in DOMAIN t.streams |-> EmptyStream]
      /\ u.slots = [k \in DOMAIN t.slots |-> NoSlot]
  BY DEF SessionSound, ResetAllHostStreams, ClearInspectOutcome, Fields
<1> HIDE DEF u
<1>2. DOMAIN u.streams = DOMAIN t.streams
      /\ \A k \in DOMAIN t.streams : u.streams[k] \in {t.streams[k], EmptyStream}
  BY <1>1
<1>3. DOMAIN u.slots = DOMAIN t.slots /\ \A k \in DOMAIN t.slots : ViewSound(u.slots[k])
  BY <1>1, NoSlotSound
<1>4. Kept(t, u) /\ Emptied(t, u)
  BY <1>1, <1>2, <1>3, Rebuilt
<1> QED
  BY <1>1, <1>4 DEF u

\* A confirmed discard: when the step goes on, no stream of a direct document holds anything;
\* on the ASCII routes it always goes on.
LEMMA ConfirmStreamDiscardKept ==
    ASSUME NEW t, SessionSound(t)
    PROVE  LET d == ConfirmStreamDiscard(t)
           IN /\ Kept(t, d.s) /\ Emptied(t, d.s)
              /\ d.ok => NothingHeld(d.s)
              /\ IsAscii => d.ok = TRUE
<1> DEFINE d == ConfirmStreamDiscard(t)
           r == ResetStream(t)
           a == ResetAllHostStreams(t)
<1>1. Quiet(t, t)
  BY QuietSelf DEF SessionSound
<1>2. Kept(t, t) /\ Emptied(t, t)
  BY <1>1, QuietKeeps
<1>3. CASE ~StreamHasDiscardableState(t)
  <2>1. d = [ok |-> TRUE, s |-> t]
    BY <1>3 DEF ConfirmStreamDiscard
  <2>2. NothingHeld(t)
    BY <1>3 DEF StreamHasDiscardableState, NothingHeld, SessionSound
  <2> HIDE DEF d
  <2>3. Kept(t, d.s) /\ Emptied(t, d.s) /\ NothingHeld(d.s) /\ d.ok = TRUE
    BY <1>2, <2>1, <2>2
  <2> QED
    BY <2>3 DEF d
<1>4. CASE StreamHasDiscardableState(t) /\ IsAscii /\ t.host
  <2>1. d = [ok |-> TRUE, s |-> a]
    BY <1>4 DEF ConfirmStreamDiscard
  <2>2. Kept(t, a) /\ Emptied(t, a) /\ NothingHeld(a)
    BY <1>4, ResetAllHostStreamsKept DEF NothingHeld
  <2> HIDE DEF d, a
  <2>3. Kept(t, d.s) /\ Emptied(t, d.s) /\ NothingHeld(d.s) /\ d.ok = TRUE
    BY <2>1, <2>2
  <2> QED
    BY <2>3 DEF d
<1>5. CASE StreamHasDiscardableState(t) /\ ~(IsAscii /\ t.host)
  <2>1. d = [ok |-> StreamInspectAvailable(t), s |-> r]
    BY <1>5 DEF ConfirmStreamDiscard
  <2>2. /\ Kept(t, r) /\ Emptied(t, r) /\ r.host = t.host
        /\ StreamInspectAvailable(t) =>
             r.streams = [t.streams EXCEPT ![StreamKey(t)] = EmptyStream]
    BY ResetStreamKept
  <2> HIDE DEF d, r
  <2>3. StreamInspectAvailable(t) => NothingHeld(r)
    <3>1. SUFFICES ASSUME StreamInspectAvailable(t), ~t.host
                   PROVE  \A k \in DOMAIN r.streams : ~StreamDiscardable(r.streams[k])
      BY <2>2 DEF NothingHeld
    <3>2. \A k \in DOMAIN t.streams : StreamDiscardable(t.streams[k]) => k = <<0, t.pipe>>
      BY <3>1 DEF SessionSound, DirectSound
    <3>3. StreamKey(t) = <<0, t.pipe>>
      BY <3>1 DEF StreamKey
    <3> QED
      BY <2>2, <3>1, <3>2, <3>3, EmptyStreamSound
  <2>4. IsAscii => StreamInspectAvailable(t)
    <3>1. SUFFICES ASSUME IsAscii, ~t.host
                   PROVE  StreamInspectAvailable(t)
      BY <1>5 DEF SessionSound
    <3>2. ~BinaryHost(t)
      BY <3>1 DEF BinaryHost
    <3>3. PICK k \in DOMAIN t.streams : StreamDiscardable(t.streams[k])
      BY <1>5, <3>2 DEF StreamHasDiscardableState
    <3>4. PICK p \in 1 .. Len(Pipelines) : k = <<0, p>> /\ k = <<0, t.pipe>>
      BY <3>1, <3>3 DEF SessionSound, DirectSound
    <3>5. t.pipe = p /\ p # 0
      BY <3>4
    <3>6. t.config # "none"
      BY <1>5 DEF StreamHasDiscardableState
    <3>7. StreamKey(t) = k
      BY <3>1, <3>4 DEF StreamKey
    <3> QED
      BY <3>3, <3>5, <3>6, <3>7 DEF StreamInspectAvailable
  <2> QED
    BY <2>1, <2>2, <2>3, <2>4 DEF d
<1> QED
  BY <1>3, <1>4, <1>5

\* A pipeline selected by hand, with the mode and the message that follow it.
LEMMA PipelineSelectedKept ==
    ASSUME NEW t, SessionSound(t), NEW p, NothingHeld(t)
    PROVE  LET u == PipelineSelected(t, p)
           IN Kept(t, u) /\ Emptied(t, u) /\ u.streams = t.streams
<1> DEFINE w == SelectPipeline(t, p)
           x == IF w.mode = "STREAM" /\ ~StreamInspectAvailable(w) THEN SetMode(w, "ENCODE") ELSE w
           m == Front1(Messages(p))
           u == SelectMessage(x, m)
<1>1. Kept(t, w) /\ Emptied(t, w) /\ w.streams = t.streams
  BY SelectPipelineKept
<1>2. Quiet(w, x)
  <2> HIDE DEF w
  <2>1. DOMAIN w = Fields
    BY <1>1 DEF Kept, SessionSound
  <2>2. Quiet(w, SetMode(w, "ENCODE")) /\ Quiet(w, w)
    BY <2>1, SetModeQuiet, QuietSelf
  <2> QED
    BY <2>2
<1>3. Quiet(x, u)
  <2> HIDE DEF x, m
  <2> QED
    BY <1>2, SelectMessageQuiet DEF Quiet
<1>4. PipelineSelected(t, p) = u
  BY DEF PipelineSelected
<1> HIDE DEF w, x, u
<1>5. Quiet(w, u) /\ SessionSound(w)
  BY <1>1, <1>2, <1>3, QuietChain DEF Kept
<1>6. Kept(w, u) /\ Emptied(w, u) /\ u.streams = w.streams
  BY <1>5, QuietKeeps DEF Quiet
<1> QED
  BY <1>1, <1>4, <1>6, KeptChain, EmptiedChain

\* A load that begins forgets the configuration, its streams and its Host.
LEMMA BeginLoadKept ==
    ASSUME NEW t, SessionSound(t)
    PROVE  LET u == BeginLoad(t)
           IN /\ SessionSound(u) /\ Emptied(t, u)
              /\ u.state = "CLOSED" => t.state = "CLOSED"
              /\ t.state # "CLOSED" => u.load = t.load + 1 /\ u.state = "LOADING"
<1> DEFINE u == BeginLoad(t)
<1>1. CASE t.state = "CLOSED"
  <2>1. u = t /\ Quiet(t, t)
    BY <1>1, QuietSelf DEF BeginLoad, SessionSound
  <2> HIDE DEF u
  <2>2. Kept(t, u) /\ Emptied(t, u)
    BY <2>1, QuietKeeps
  <2> QED
    BY <1>1, <2>2 DEF Kept, u
<1>2. CASE t.state # "CLOSED"
  <2>1. /\ DOMAIN u = Fields /\ u.load = t.load + 1 /\ u.config = "none" /\ u.host = FALSE
        /\ u.draft = <<>> /\ u.submitted = FALSE /\ u.streams = <<>> /\ u.slots = <<>>
        /\ u.state = "LOADING"
    BY <1>2 DEF SessionSound, BeginLoad, ClearInspectOutcome, ClearSelectionAndPreview, ClearEncode,
                Fields
  <2> HIDE DEF u
  <2>2. DOMAIN u.streams = {} /\ DOMAIN u.slots = {}
    BY <2>1
  <2>3. InputSound(u) /\ HostSound(u) /\ DirectSound(u)
    BY <2>1, <2>2, EmptyDraft DEF InputSound, HostSound, DirectSound
  <2>4. SessionSound(u)
    BY <2>1, <2>2, <2>3 DEF SessionSound
  <2>5. Emptied(t, u)
    BY <2>1, <2>2 DEF Emptied
  <2> QED
    BY <2>1, <2>4, <2>5 DEF u
<1> QED
  BY <1>1, <1>2

\* A document that is closed holds nothing.
LEMMA CloseKept ==
    ASSUME NEW t
    PROVE  LET u == Close(t) IN SessionSound(u) /\ Emptied(t, u)
<1> DEFINE u == Close(t)
<1>1. /\ DOMAIN u = Fields /\ u.config = "none" /\ u.host = FALSE
      /\ u.draft = <<>> /\ u.submitted = FALSE /\ u.streams = <<>> /\ u.slots = <<>>
  BY DEF Close, NewSession, Fields
<1> HIDE DEF u
<1>2. DOMAIN u.streams = {} /\ DOMAIN u.slots = {}
  BY <1>1
<1>3. InputSound(u) /\ HostSound(u) /\ DirectSound(u)
  BY <1>1, <1>2, EmptyDraft DEF InputSound, HostSound, DirectSound
<1>4. SessionSound(u) /\ Emptied(t, u)
  BY <1>1, <1>2, <1>3 DEF SessionSound, Emptied
<1> QED
  BY <1>4 DEF u

\* The first selection after a load, and the stream of each streaming pipeline.
LEMMA SetInitialSelectionKept ==
    ASSUME NEW t, SessionSound(t), DOMAIN t.streams = {}
    PROVE  LET u == SetInitialSelection(t) IN Kept(t, u) /\ Emptied(t, u) /\ u.streams = t.streams
              /\ u.host = t.host
<1> DEFINE p == Min({q \in 1 .. Len(Pipelines) : Messages(q) /= {}})
           m == Front1(Messages(p))
           w == SelectPipeline(t, p)
           u == SelectMessage(w, m)
<1>1. SetInitialSelection(t) = u
  BY DEF SetInitialSelection
<1> HIDE DEF p, m
<1>2. Kept(t, w) /\ Emptied(t, w) /\ w.streams = t.streams /\ w.host = t.host
  BY SelectPipelineKept DEF NothingHeld
<1> HIDE DEF w
<1>3. Quiet(w, u) /\ SessionSound(w)
  BY <1>2, SelectMessageQuiet DEF Kept, SessionSound
<1> HIDE DEF u
<1>4. Kept(w, u) /\ Emptied(w, u) /\ u.streams = w.streams /\ u.host = w.host
  BY <1>3, QuietKeeps DEF Quiet
<1> QED
  BY <1>1, <1>2, <1>4, KeptChain, EmptiedChain

\* A completed compile is adopted by the document that waits for it, which holds nothing yet.
LEMMA AdoptKept ==
    ASSUME NEW t, SessionSound(t), DOMAIN t.streams = {}, ~t.host, t.config # "none"
    PROVE  /\ Kept(t, AdoptLegacy(t)) /\ Emptied(t, AdoptLegacy(t))
           /\ Kept(t, AdoptBinary(t)) /\ Emptied(t, AdoptBinary(t))
           /\ Kept(t, AdoptAsciiComplete(t)) /\ Emptied(t, AdoptAsciiComplete(t))
           /\ Kind # "BINARY" =>
                Kept(t, AdoptAsciiStream(t)) /\ Emptied(t, AdoptAsciiStream(t))
           /\ Kept(t, AdoptBridge(t)) /\ Emptied(t, AdoptBridge(t))
<1> DEFINE w == SetInitialSelection(t)
           b == [w EXCEPT !.mode = "INSPECT"]
           keys == {<<0, p>> : p \in {q \in 1 .. Len(Pipelines) : Pipelines[q].stream}}
           a == [w EXCEPT !.streams = [k \in keys |-> EmptyStream]]
<1>1. Kept(t, w) /\ Emptied(t, w) /\ w.streams = t.streams /\ ~w.host
  BY SetInitialSelectionKept
<1> HIDE DEF w
<1>2. SessionSound(w) /\ DOMAIN w = Fields
  BY <1>1 DEF Kept, SessionSound
<1>3. Quiet(w, b)
  BY <1>2 DEF Quiet, Fields
<1>4. Kept(w, b) /\ Emptied(w, b)
  <2> HIDE DEF b
  <2> QED
    BY <1>2, <1>3, QuietKeeps
<1>5. Kept(t, b) /\ Emptied(t, b)
  <2> HIDE DEF b
  <2> QED
    BY <1>1, <1>4, KeptChain, EmptiedChain
<1>6. ASSUME Kind # "BINARY"
      PROVE  Kept(t, a) /\ Emptied(t, a)
  <2>1. \A k \in keys : \E p \in 1 .. Len(Pipelines) : k = <<0, p>>
    OBVIOUS
  <2> HIDE DEF keys
  <2>2. /\ DOMAIN a = Fields /\ a.host = w.host /\ a.draft = w.draft
        /\ a.submitted = w.submitted /\ a.slots = w.slots /\ a.config = w.config
        /\ a.load = w.load /\ a.state = w.state /\ a.streams = [k \in keys |-> EmptyStream]
    BY <1>2 DEF Fields
  <2> HIDE DEF a
  <2>3. DOMAIN a.streams = keys /\ \A k \in keys : a.streams[k] = EmptyStream
    BY <2>2
  <2>4. InputSound(a)
    BY <1>2, <2>2 DEF SessionSound, InputSound
  <2>5. HostSound(a) /\ DirectSound(a)
    BY <1>1, <1>6, <2>1, <2>2, <2>3, EmptyStreamSound DEF HostSound, DirectSound
  <2>6. w.config # "none"
    BY <1>1 DEF Kept
  <2>7. SessionSound(a)
    BY <1>1, <1>2, <2>2, <2>3, <2>4, <2>5, <2>6, EmptyStreamSound DEF SessionSound
  <2>8. Kept(w, a) /\ Emptied(w, a)
    BY <2>2, <2>3, <2>7, EmptyStreamSound DEF Kept, Emptied
  <2> QED
    BY <1>1, <2>8, KeptChain, EmptiedChain
<1>7. /\ AdoptLegacy(t) = w /\ AdoptAsciiComplete(t) = w /\ AdoptBridge(t) = w
      /\ AdoptBinary(t) = b /\ AdoptAsciiStream(t) = a
  BY DEF AdoptLegacy, AdoptAsciiComplete, AdoptBridge, AdoptBinary, AdoptAsciiStream, w
<1> QED
  BY <1>1, <1>5, <1>6, <1>7

\* The selection does not ask which state the document was in.
LEMMA SelectionForgetsState ==
    ASSUME NEW t, DOMAIN t = Fields
    PROVE  SetInitialSelection([t EXCEPT !.state = "READY"]) = SetInitialSelection(t)
<1> DEFINE p == Min({q \in 1 .. Len(Pipelines) : Messages(q) /= {}})
           w == [t EXCEPT !.state = "READY"]
<1>1. SelectPipeline(w, p) = SelectPipeline(t, p)
  BY ZenonT(40) DEF SelectPipeline, ClearEncode, ClearInspectOutcome, Fields
<1> QED
  BY <1>1 DEF SetInitialSelection

\* A completed compile, good, bad or late, loses nothing and never reopens the document.
LEMMA ApplyCompileCompletionKept ==
    ASSUME NEW t, SessionSound(t), NEW c, c.config # "none"
    PROVE  LET u == ApplyCompileCompletion(t, c)
           IN /\ SessionSound(u) /\ Emptied(t, u) /\ Spared(t, u) /\ u.load = t.load
              /\ u.state = "CLOSED" => t.state = "CLOSED"
<1> DEFINE u == ApplyCompileCompletion(t, c)
           f == [t EXCEPT !.state = "CONFIG_ERROR"]
           w == [t EXCEPT !.config = c.config]
           x == [w EXCEPT !.state = "READY"]
<1>1. Quiet(t, t) /\ Quiet(t, f)
  BY DEF Quiet, SessionSound, Fields
<1>2. CASE t.state /= "LOADING" \/ c.load /= t.load \/ ~c.ok
  <2>1. Quiet(t, u)
    BY <1>1, <1>2 DEF ApplyCompileCompletion
  <2> HIDE DEF u
  <2>2. Kept(t, u) /\ Emptied(t, u) /\ Spared(t, u)
    BY <2>1, QuietKeeps
  <2> QED
    BY <2>2 DEF Kept, u
<1>3. CASE ~(t.state /= "LOADING" \/ c.load /= t.load \/ ~c.ok)
  <2>1. DOMAIN t.streams = {} /\ ~t.host
    BY <1>3 DEF SessionSound
  <2>2. /\ DOMAIN w = Fields /\ DOMAIN x = Fields /\ x.host = t.host /\ x.draft = t.draft
        /\ x.submitted = t.submitted /\ x.slots = t.slots /\ x.config = c.config
        /\ x.load = t.load /\ x.state = "READY" /\ x.streams = t.streams
    BY DEF SessionSound, Fields
  <2>3. SetInitialSelection(x) = SetInitialSelection(w)
    <3> HIDE DEF w
    <3> QED
      BY <2>2, SelectionForgetsState
  <2>4. PICK v : /\ v \in {AdoptLegacy(x), AdoptBinary(x), AdoptAsciiComplete(x), AdoptBridge(x)}
                    \/ (Kind # "BINARY" /\ v = AdoptAsciiStream(x))
                 /\ u = [v EXCEPT !.state = "READY"]
    <3>1. /\ AdoptLegacy(w) = AdoptLegacy(x) /\ AdoptBinary(w) = AdoptBinary(x)
          /\ AdoptAsciiComplete(w) = AdoptAsciiComplete(x) /\ AdoptBridge(w) = AdoptBridge(x)
          /\ AdoptAsciiStream(w) = AdoptAsciiStream(x)
      <4> HIDE DEF w, x
      <4> QED
        BY <2>3 DEF AdoptLegacy, AdoptBinary, AdoptAsciiComplete, AdoptBridge, AdoptAsciiStream
    <3>2. u = [(CASE Kind = "LEGACY" -> AdoptLegacy(w) [] Kind = "BINARY" -> AdoptBinary(w)
                  [] Kind = "ASCII10" -> AdoptAsciiComplete(w)
                  [] Kind = "ASCII11" -> AdoptAsciiStream(w)
                  [] Kind = "BRIDGE" -> AdoptBridge(w)) EXCEPT !.state = "READY"]
      BY <1>3 DEF ApplyCompileCompletion
    <3> HIDE DEF w, x, u
    <3> QED
      BY <3>1, <3>2, KindAssumption
  <2> HIDE DEF w, x, u
  <2>5. InputSound(x) /\ HostSound(x) /\ DirectSound(x)
    BY <2>1, <2>2 DEF SessionSound, InputSound, HostSound, DirectSound
  <2>6. SessionSound(x) /\ Emptied(t, x)
    BY <2>1, <2>2, <2>5 DEF SessionSound, Emptied
  <2>7. Kept(x, v) /\ Emptied(x, v)
    BY <2>1, <2>2, <2>4, <2>6, AdoptKept
  <2>8. Quiet(v, u)
    BY <2>4, <2>7 DEF Quiet, Kept, SessionSound, Fields
  <2>9. Kept(v, u) /\ Emptied(v, u)
    BY <2>7, <2>8, QuietKeeps DEF Kept
  <2>10. Kept(x, u) /\ Emptied(t, u)
    BY <2>6, <2>7, <2>9, KeptChain, EmptiedChain
  <2>11. Spared(t, u)
    BY <2>1 DEF Spared
  <2> QED
    BY <2>2, <2>10, <2>11 DEF Kept, u
<1> QED
  BY <1>2, <1>3

\* A table that is published starts from nothing, under the load and the configuration the
\* document has.
LEMMA BoundKept ==
    ASSUME NEW t, SessionSound(t), t.config # "none", NEW table
    PROVE  LET u == Bound(t, table, <<t.load, t.config>>) IN Kept(t, u) /\ Emptied(t, u)
<1> DEFINE from == <<t.load, t.config>>
           slot(k) == [NoSlot EXCEPT !.msg = IF Kind = "BINARY" /\ table[k[1]].action = "ENCODE"
                                             THEN FirstMessage(table[k[1]]) ELSE 0]
           u == Bound(t, table, from)
<1>1. \A k : ViewSound(slot(k))
  BY NoSlotSound
<1>2. /\ DOMAIN u = Fields /\ u.load = t.load /\ u.config = t.config /\ u.host = TRUE
      /\ u.hostFor = from /\ u.table = table /\ u.draft = <<>> /\ u.submitted = FALSE
      /\ u.slots = [k \in Flows(table) |-> slot(k)]
      /\ u.streams = [k \in StreamFlows(table) |-> EmptyStream] /\ u.state = "READY"
  BY DEF SessionSound, Bound, ClearInspectOutcome, ClearSelectionAndPreview, ClearEncode, Fields
<1> HIDE DEF u, slot
<1>3. /\ DOMAIN u.streams = StreamFlows(table) /\ DOMAIN u.slots = Flows(table)
      /\ \A k \in DOMAIN u.streams : u.streams[k] = EmptyStream
      /\ \A k \in DOMAIN u.slots : ViewSound(u.slots[k])
  BY <1>1, <1>2
<1>4. InputSound(u) /\ HostSound(u) /\ DirectSound(u)
  BY <1>2, <1>3, EmptyDraft DEF InputSound, HostSound, DirectSound
<1>5. SessionSound(u)
  BY <1>2, <1>3, <1>4, EmptyStreamSound DEF SessionSound
<1>6. Kept(t, u) /\ Emptied(t, u)
  BY <1>2, <1>3, <1>5, EmptyStreamSound DEF Kept, Emptied
<1> QED
  BY <1>6 DEF u

\* Both ways a candidate replaces the Host.
LEMMA PublicationKept ==
    ASSUME NEW t, SessionSound(t), t.config # "none",
           NEW c, c.load = t.load, c.config = t.config
    PROVE  /\ Kept(t, PublishBinaryHostPublication(t, c))
           /\ Emptied(t, PublishBinaryHostPublication(t, c))
           /\ Kept(t, ApplyHostAdapter(t, c)) /\ Emptied(t, ApplyHostAdapter(t, c))
<1> DEFINE w == Bound(t, c.table, <<t.load, t.config>>)
           u == [w EXCEPT !.rev = c.rev]
<1>1. Kept(t, w) /\ Emptied(t, w)
  BY BoundKept
<1>2. PublishBinaryHostPublication(t, c) = u /\ ApplyHostAdapter(t, c) = w
  BY DEF PublishBinaryHostPublication, ApplyHostAdapter
<1> HIDE DEF w
<1>3. Quiet(w, u) /\ SessionSound(w)
  BY <1>1 DEF Kept, SessionSound, Quiet, Fields
<1> HIDE DEF u
<1>4. Kept(w, u) /\ Emptied(w, u)
  BY <1>3, QuietKeeps
<1> QED
  BY <1>1, <1>2, <1>4, KeptChain, EmptiedChain

\* Another flow of the table is shown: the drafts change places, the streams stay.
LEMMA FlowShown ==
    ASSUME NEW t, SessionSound(t), t.host, NEW u, DOMAIN u = Fields,
           u.host = t.host, u.load = t.load, u.config = t.config, u.hostFor = t.hostFor,
           u.table = t.table, InputSound(u), u.state \notin {"LOADING", "CLOSED"} \/ u.state = t.state,
           DOMAIN u.slots = DOMAIN t.slots, \A k \in DOMAIN t.slots : ViewSound(u.slots[k]),
           DOMAIN u.streams = DOMAIN t.streams,
           \A k \in DOMAIN t.streams : /\ StreamSound(u.streams[k])
                                       /\ u.streams[k].taken = t.streams[k].taken
    PROVE  Kept(t, u) /\ Spared(t, u)
<1>1. HostSound(u) /\ DirectSound(u)
  BY DEF SessionSound, HostSound, DirectSound
<1>2. SessionSound(u)
  BY <1>1 DEF SessionSound, HostSound
<1>3. Kept(t, u)
  BY <1>2 DEF Kept
<1>4. \A k \in DOMAIN t.streams : IsPrefix(t.streams[k].taken, t.streams[k].taken)
  BY PrefixOfJoin DEF SessionSound, StreamSound
<1>5. Spared(t, u)
  BY <1>4 DEF Spared
<1> QED
  BY <1>3, <1>5

\* The Binary route keeps the drafts of the flow it leaves; a failed copy faults the stream.
LEMMA PublishBinaryHostFlowKept ==
    ASSUME NEW t, SessionSound(t), t.host, Kind = "BINARY", NEW k \in Flows(t.table), NEW copied
    PROVE  LET u == PublishBinaryHostFlow(t, k, copied) IN Kept(t, u) /\ Spared(t, u)
<1> DEFINE key == Selected(t)
           w == SaveDraftsAndSelect(t, k)
           x == ShowFlow(w, k)
           shown == IF ~x.streams[Selected(x)].used \/ copied THEN x.streams[Selected(x)]
                    ELSE [x.streams[Selected(x)] EXCEPT !.mapFaulted = TRUE]
           y == [x EXCEPT !.streams[Selected(x)] = shown]
           z == ProjectStream(y, shown)
           u == PublishBinaryHostFlow(t, k, copied)
<1>1. CASE k = Selected(t)
  <2>1. u = t /\ Quiet(t, t)
    BY <1>1, QuietSelf DEF PublishBinaryHostFlow, SessionSound
  <2> HIDE DEF u
  <2>2. Kept(t, u) /\ Spared(t, u)
    BY <2>1, QuietKeeps
  <2> QED
    BY <2>2 DEF u
<1>2. CASE k # Selected(t)
  <2>1. /\ DOMAIN w = Fields /\ w.host = t.host /\ w.load = t.load /\ w.config = t.config
        /\ w.hostFor = t.hostFor /\ w.table = t.table /\ w.draft = t.draft
        /\ w.submitted = t.submitted /\ w.state = t.state /\ w.streams = t.streams
        /\ DOMAIN w.slots = DOMAIN t.slots
        /\ \A j \in DOMAIN t.slots :
             IF j = key THEN /\ DOMAIN w.slots[j] = DOMAIN t.slots[j]
                             /\ w.slots[j].draft = t.draft
                             /\ w.slots[j].submitted = t.slots[j].submitted
             ELSE w.slots[j] = t.slots[j]
    BY ZenonT(40) DEF SessionSound, SaveDraftsAndSelect, Fields, ViewSound, ViewFields
  <2>2. k \in DOMAIN t.slots /\ t.draft \in Texts /\ t.submitted = FALSE
    BY DEF SessionSound, HostSound, InputSound
  <2> HIDE DEF w
  <2>3. \A j \in DOMAIN t.slots : ViewSound(t.slots[j])
    BY DEF SessionSound
  <2>4. DOMAIN w.slots = DOMAIN t.slots /\ \A j \in DOMAIN t.slots : ViewSound(w.slots[j])
    BY <2>1, <2>2, <2>3 DEF ViewSound, InputSound
  <2>5. /\ DOMAIN x = Fields /\ x.host = w.host /\ x.load = w.load /\ x.config = w.config
        /\ x.hostFor = w.hostFor /\ x.table = w.table /\ x.draft = w.slots[k].draft
        /\ x.submitted = w.submitted /\ x.state = w.state /\ x.streams = w.streams
        /\ x.slots = w.slots
    BY <2>1 DEF ShowFlow, Fields
  <2> HIDE DEF x
  <2>6. InputSound(x)
    BY <2>1, <2>2, <2>4, <2>5 DEF InputSound, ViewSound
  <2>7. /\ DOMAIN y = Fields /\ y.host = x.host /\ y.load = x.load /\ y.config = x.config
        /\ y.hostFor = x.hostFor /\ y.table = x.table /\ y.draft = x.draft
        /\ y.submitted = x.submitted /\ y.state = x.state /\ y.slots = x.slots
        /\ y.streams = [x.streams EXCEPT ![Selected(x)] = shown]
    BY <2>5 DEF Fields
  <2>8. Selected(x) \in DOMAIN t.streams =>
          StreamSound(shown) /\ shown.taken = t.streams[Selected(x)].taken
    <3>1. SUFFICES ASSUME Selected(x) \in DOMAIN t.streams
                   PROVE  StreamSound(shown) /\ shown.taken = t.streams[Selected(x)].taken
      OBVIOUS
    <3>2. PICK st : st = x.streams[Selected(x)] /\ StreamSound(st)
                    /\ st.taken = t.streams[Selected(x)].taken
      BY <2>1, <2>5, <3>1 DEF SessionSound
    <3>3. StreamSound([st EXCEPT !.mapFaulted = TRUE])
          /\ [st EXCEPT !.mapFaulted = TRUE].taken = st.taken
      <4>1. PICK o : o.mapped = FALSE
        <5>1. [mapped |-> FALSE].mapped = FALSE
          OBVIOUS
        <5> QED
          BY <5>1
      <4>2. MapStreamStep(st, o) = [st EXCEPT !.mapFaulted = TRUE]
        BY <4>1 DEF MapStreamStep
      <4> QED
        BY <3>2, <4>2, MapStreamStepSound
    <3>4. shown = IF ~st.used \/ copied THEN st ELSE [st EXCEPT !.mapFaulted = TRUE]
      BY <3>2
    <3> QED
      BY <3>2, <3>3, <3>4
  <2> HIDE DEF shown, y
  <2>9. /\ DOMAIN y.streams = DOMAIN t.streams
        /\ \A j \in DOMAIN t.streams : /\ StreamSound(y.streams[j])
                                        /\ y.streams[j].taken = t.streams[j].taken
    BY <2>1, <2>5, <2>7, <2>8 DEF SessionSound
  <2>10. Kept(t, x) /\ Spared(t, x)
    <3>1. /\ x.host = t.host /\ x.load = t.load /\ x.config = t.config
          /\ x.hostFor = t.hostFor /\ x.table = t.table /\ x.state = t.state
          /\ x.streams = t.streams /\ DOMAIN x = Fields
      BY <2>1, <2>5
    <3>2. DOMAIN x.slots = DOMAIN t.slots /\ \A j \in DOMAIN t.slots : ViewSound(x.slots[j])
      BY <2>4, <2>5
    <3>3. /\ DOMAIN x.streams = DOMAIN t.streams
          /\ \A j \in DOMAIN t.streams : /\ StreamSound(x.streams[j])
                                         /\ x.streams[j].taken = t.streams[j].taken
      BY <3>1 DEF SessionSound
    <3> QED
      BY <2>6, <3>1, <3>2, <3>3, FlowShown
  <2>11. Kept(t, y) /\ Spared(t, y)
    <3>1. InputSound(y)
      BY <2>6, <2>7 DEF InputSound
    <3>2. /\ DOMAIN y = Fields /\ y.host = t.host /\ y.load = t.load /\ y.config = t.config
          /\ y.hostFor = t.hostFor /\ y.table = t.table /\ y.state = t.state
      BY <2>1, <2>5, <2>7
    <3>3. DOMAIN y.slots = DOMAIN t.slots /\ \A j \in DOMAIN t.slots : ViewSound(y.slots[j])
      BY <2>4, <2>5, <2>7
    <3> QED
      BY <2>9, <3>1, <3>2, <3>3, FlowShown
  <2>12. Quiet(y, z)
    BY <2>7, ProjectStreamQuiet
  <2>13. u = IF k \in DOMAIN t.streams THEN RefreshDocumentState(z) ELSE RefreshDocumentState(x)
    <3>1. MapCurrentStream(x, copied) = z
      BY DEF MapCurrentStream, z, y, shown
    <3> HIDE DEF z
    <3> QED
      BY <1>2, <3>1 DEF PublishBinaryHostFlow, x, w
  <2> HIDE DEF z, u
  <2>14. Quiet(x, RefreshDocumentState(x)) /\ Quiet(y, RefreshDocumentState(z))
    BY <2>5, <2>12, RefreshQuiet, QuietChain DEF Quiet
  <2>15. PICK v \in {x, y} : Quiet(v, u)
    BY <2>13, <2>14
  <2>16. Kept(t, v) /\ Spared(t, v)
    BY <2>10, <2>11
  <2>17. Kept(v, u) /\ u.streams = v.streams
    BY <2>15, <2>16, QuietKeeps DEF Kept, Quiet
  <2>18. Kept(t, u) /\ Spared(t, u)
    BY <2>16, <2>17, KeptChain DEF Spared
  <2> QED
    BY <2>18 DEF u
<1> QED
  BY <1>1, <1>2

\* The view that is left is saved whole, mark and all, and the next one is put in its place.
LEMMA SaveHostViewKept ==
    ASSUME NEW t, SessionSound(t), t.host
    PROVE  LET w == SaveHostView(t)
           IN /\ DOMAIN w = Fields /\ w.host = t.host /\ w.load = t.load /\ w.config = t.config
              /\ w.hostFor = t.hostFor /\ w.table = t.table /\ w.draft = t.draft
              /\ w.submitted = t.submitted /\ w.state = t.state /\ w.streams = t.streams
              /\ DOMAIN w.slots = DOMAIN t.slots
              /\ \A j \in DOMAIN t.slots : ViewSound(w.slots[j])
<1> DEFINE view == [x \in Visible |-> t[x]]
           w == [t EXCEPT !.slots = [t.slots EXCEPT ![Selected(t)] = view]]
<1>1. DOMAIN t = Fields /\ \A j \in DOMAIN t.slots : ViewSound(t.slots[j])
  BY DEF SessionSound
<1>2. ViewSound(view)
  <2>1. DOMAIN view = ViewFields /\ view.draft = t.draft /\ view.submitted = t.submitted
    BY SessionFields DEF ViewFields
  <2> HIDE DEF view
  <2> QED
    BY <2>1 DEF ViewSound, InputSound, SessionSound
<1> HIDE DEF view
<1>3. /\ DOMAIN w = Fields /\ w.host = t.host /\ w.load = t.load /\ w.config = t.config
      /\ w.hostFor = t.hostFor /\ w.table = t.table /\ w.draft = t.draft
      /\ w.submitted = t.submitted /\ w.state = t.state /\ w.streams = t.streams
      /\ DOMAIN w.slots = DOMAIN t.slots
      /\ \A j \in DOMAIN t.slots : ViewSound(w.slots[j])
  BY <1>1, <1>2 DEF Fields
<1>4. SaveHostView(t) = t \/ SaveHostView(t) = w
  BY DEF SaveHostView, view
<1> HIDE DEF w
<1> QED
  BY <1>1, <1>3, <1>4

\* The ASCII routes save the whole view, and every stream keeps its bytes.
LEMMA SelectHostFlowKept ==
    ASSUME NEW t, SessionSound(t), t.host, NEW k \in Flows(t.table), k # Selected(t)
    PROVE  LET u == SelectHostFlow(t, k) IN Kept(t, u) /\ Spared(t, u) /\ Once(t, u)
<1> DEFINE b == t.table[k[1]]
           w == SaveHostView(t)
           x == [w EXCEPT !.bind = k[1], !.flow = k[2]]
           y == SelectPipeline(x, b.pipe)
           z == [y EXCEPT !.mode = ModeOf(b)]
           r == SelectMessage(z, Front1(Messages(b.pipe)))
           v == r.slots[k]
           q == [WithView(r, v) EXCEPT !.msg = IF v.msg = 0 THEN r.msg ELSE v.msg]
           u == RefreshDocumentState(q)
<1>1. /\ DOMAIN w = Fields /\ w.host = t.host /\ w.load = t.load /\ w.config = t.config
      /\ w.hostFor = t.hostFor /\ w.table = t.table /\ w.draft = t.draft
      /\ w.submitted = t.submitted /\ w.state = t.state /\ w.streams = t.streams
      /\ DOMAIN w.slots = DOMAIN t.slots
      /\ \A j \in DOMAIN t.slots : ViewSound(w.slots[j])
  BY SaveHostViewKept
<1> HIDE DEF w
<1>2. /\ DOMAIN x = Fields /\ x.host = t.host /\ x.load = t.load /\ x.config = t.config
      /\ x.hostFor = t.hostFor /\ x.table = t.table /\ x.draft = t.draft
      /\ x.submitted = t.submitted /\ x.state = t.state /\ x.streams = t.streams
      /\ x.slots = w.slots /\ x.bind = k[1] /\ x.flow = k[2]
  BY <1>1 DEF Fields
<1> HIDE DEF x
<1>3. Kept(t, x)
  <2>1. InputSound(x)
    BY <1>2 DEF SessionSound, InputSound
  <2>2. \A j \in DOMAIN t.streams : StreamSound(t.streams[j])
    BY DEF SessionSound
  <2> QED
    BY <1>1, <1>2, <2>1, <2>2, FlowShown
<1>4. /\ Kept(x, y) /\ y.streams = x.streams /\ y.slots = x.slots /\ y.host = x.host
      /\ y.table = x.table /\ y.bind = x.bind /\ y.flow = x.flow /\ y.state = "READY"
      /\ y.hostFor = x.hostFor
  <2>1. SessionSound(x) /\ NothingHeld(x)
    BY <1>2, <1>3 DEF Kept, NothingHeld
  <2> DEFINE p == b.pipe
  <2> HIDE DEF p
  <2>2. y = SelectPipeline(x, p)
    BY Zenon DEF p
  <2> HIDE DEF y
  <2> QED
    BY <2>1, <2>2, SelectPipelineKept
<1>5. Quiet(y, z)
  <2>1. DOMAIN y = Fields
    BY <1>4 DEF Kept, SessionSound
  <2> HIDE DEF y
  <2> QED
    BY <2>1, Zenon DEF Quiet, Fields
<1>6. Quiet(z, r)
  <2> HIDE DEF z
  <2> QED
    BY <1>5, SelectMessageQuiet, Zenon DEF Quiet
<1> HIDE DEF z, r
<1>7. Quiet(y, r)
  BY <1>5, <1>6, QuietChain, SMTT(30)
<1>8. /\ DOMAIN r = Fields /\ r.host = t.host /\ r.load = t.load /\ r.config = t.config
      /\ r.hostFor = t.hostFor /\ r.table = t.table /\ r.streams = t.streams
      /\ r.bind = k[1] /\ r.flow = k[2] /\ r.state \notin {"LOADING", "CLOSED"}
      /\ DOMAIN r.slots = DOMAIN t.slots /\ SessionSound(r)
  <2>1. SessionSound(y) /\ y.load = t.load /\ y.config = t.config
    BY <1>2, <1>4 DEF Kept
  <2>2. Kept(y, r)
    BY <1>7, <2>1, QuietKeeps
  <2>3. r.hostFor = t.hostFor
    BY <1>2, <1>4, <1>7 DEF Quiet
  <2> QED
    BY <1>1, <1>2, <1>4, <1>7, <2>1, <2>2, <2>3 DEF Quiet, Kept
<1>9. ViewSound(v)
  BY <1>8 DEF SessionSound, HostSound
<1> HIDE DEF v
<1>10. /\ DOMAIN q = Fields /\ q.host = r.host /\ q.load = r.load /\ q.config = r.config
       /\ q.hostFor = r.hostFor /\ q.table = r.table /\ q.streams = r.streams
       /\ q.bind = r.bind /\ q.flow = r.flow /\ q.state = r.state /\ q.slots = r.slots
       /\ q.draft = v.draft /\ q.submitted = v.submitted
  <2>1. Visible = ViewFields
    BY SessionFields
  <2> QED
    BY <1>8, <2>1 DEF WithView, ViewFields, Fields
<1> HIDE DEF q
<1>11. Kept(t, q) /\ Spared(t, q)
  <2>1. InputSound(q)
    BY <1>9, <1>10 DEF ViewSound, InputSound
  <2>2. DOMAIN q.slots = DOMAIN t.slots /\ \A j \in DOMAIN t.slots : ViewSound(q.slots[j])
    BY <1>8, <1>10 DEF SessionSound
  <2>3. \A j \in DOMAIN t.streams : StreamSound(t.streams[j])
    BY DEF SessionSound
  <2> QED
    BY <1>8, <1>10, <2>1, <2>2, <2>3, FlowShown, ZenonT(40)
<1>12. Quiet(q, u)
  BY <1>10, RefreshQuiet, Zenon
<1>13. SelectHostFlow(t, k) = u
  BY DEF SelectHostFlow, q, v, r, z, y, x, w
<1> HIDE DEF u
<1>14. Kept(q, u) /\ u.streams = q.streams /\ StreamKey(u) = StreamKey(q)
  BY <1>11, <1>12, QuietKeeps DEF Kept, Quiet, StreamKey, Selected
<1>15. Kept(t, u) /\ Spared(t, u)
  BY <1>11, <1>14, KeptChain DEF Spared
<1>16. StreamKey(u) # StreamKey(t)
  <2>1. StreamKey(u) = <<k[1], k[2]>> /\ StreamKey(t) = Selected(t)
    BY <1>8, <1>10, <1>14 DEF StreamKey, Selected
  <2>2. k = <<k[1], k[2]>>
    BY DEF Flows
  <2> QED
    BY <2>1, <2>2
<1>17. Once(t, u)
  BY <1>8, <1>10, <1>14, <1>16 DEF Once
<1> QED
  BY <1>13, <1>15, <1>17

-----------------------------------------------------------------------------
(***************************************************************************)
(* The tab.  A request of the queue that is awaited belongs to the load    *)
(* the document has; a question about a publication, which is the last one *)
(* asked, is about the load and the configuration the document has; no     *)
(* question outlives the document.                                         *)
(***************************************************************************)
IsSeq(q) == \E R : q \in Seq(R)

RequestSound(r) ==
    /\ r.config # "none" /\ r.seq \in Nat /\ r.seq <= applies
    /\ pending # <<>> /\ r.kind = "HOST" /\ r.seq = pending[1].seq => r.load = s.load

QueueSound ==
    /\ applies \in Nat
    /\ pending = <<>> \/ \E r : pending = <<r>> /\ r.seq \in Nat /\ r.seq <= applies
    /\ IsSeq(inflight)
    /\ \A r \in Range(inflight) : RequestSound(r)

Current(c) == c.load = s.load /\ c.config = s.config /\ s.config # "none"

QuestionsSound ==
    /\ \/ dialogs = <<>>
       \/ \E d : dialogs = <<d>> /\ (d.op = "PUBLISH" => Current(d.arg))
       \/ \E d, p : /\ dialogs = <<d, p>> /\ d.op # "PUBLISH"
                    /\ p.op = "PUBLISH" /\ Current(p.arg)
    /\ s.state = "CLOSED" => closed
    /\ closed => dialogs = <<>>

IInv == SessionSound(s) /\ QueueSound /\ QuestionsSound

\* The queue of requests: a new one is put at the end, the oldest one is taken away.
LEMMA SubmitRange ==
    ASSUME NEW q, IsSeq(q), NEW r, NEW u \in Submit(q, r)
    PROVE  IsSeq(u) /\ \A x \in Range(u) : x = r \/ x \in Range(q)
<1>1. PICK R : q \in Seq(R)
  BY DEF IsSeq
<1> DEFINE S == R \cup {r}
<1>2. \A f \in Seq(S) : /\ Append(f, r) \in Seq(S)
                        /\ \A x \in Range(Append(f, r)) : x = r \/ x \in Range(f)
  <2>1. SUFFICES ASSUME NEW f \in Seq(S)
                 PROVE  /\ Append(f, r) \in Seq(S)
                        /\ \A x \in Range(Append(f, r)) : x = r \/ x \in Range(f)
    OBVIOUS
  <2>2. r \in S
    OBVIOUS
  <2> HIDE DEF S
  <2> DEFINE g == Append(f, r)
  <2>3. /\ g \in Seq(S) /\ Len(g) = Len(f) + 1 /\ g[Len(f) + 1] = r
        /\ \A i \in 1 .. Len(f) : g[i] = f[i]
    BY <2>1, <2>2, AppendProperties
  <2> HIDE DEF g
  <2>4. DOMAIN g = 1 .. Len(f) + 1 /\ DOMAIN f = 1 .. Len(f) /\ Len(f) \in Nat
    BY <2>1, <2>3
  <2>5. \A x \in Range(g) : x = r \/ x \in Range(f)
    BY <2>3, <2>4 DEF Range
  <2> QED
    BY <2>3, <2>5 DEF g
<1>3. q \in Seq(S)
  BY <1>1
<1>4. CASE u = Append(q, r)
  BY <1>2, <1>3, <1>4 DEF IsSeq
<1>5. CASE q # <<>> /\ u = Append(Front(q), r)
  <2>1. Front(q) \in Seq(S) /\ \A x \in Range(Front(q)) : x \in Range(q)
    <3> DEFINE n == Len(q)
               f == Front(q)
    <3>1. n \in Nat \ {0} /\ DOMAIN q = 1 .. n
      BY <1>3, <1>5
    <3>2. f = [i \in 1 .. n - 1 |-> q[i]]
      BY <1>3, <3>1 DEF Front
    <3>3. \A i \in 1 .. n - 1 : q[i] \in S
      BY <1>3, <3>1
    <3> HIDE DEF f, S, n
    <3>4. f \in Seq(S)
      BY <3>1, <3>2, <3>3
    <3>5. \A x \in Range(f) : x \in Range(q)
      BY <3>1, <3>2 DEF Range
    <3> QED
      BY <3>4, <3>5 DEF f
  <2> QED
    BY <1>2, <1>5, <2>1 DEF IsSeq
<1> QED
  BY <1>4, <1>5 DEF Submit

\* The oldest request is one of the queue, and the others stay in it.
LEMMA TailRange ==
    ASSUME NEW q, IsSeq(q), q # <<>>
    PROVE  Head(q) \in Range(q) /\ IsSeq(Tail(q)) /\ \A x \in Range(Tail(q)) : x \in Range(q)
<1>1. PICK R : q \in Seq(R)
  BY DEF IsSeq
<1> DEFINE u == Tail(q)
<1>2. /\ u \in Seq(R) /\ Len(u) = Len(q) - 1 /\ Len(q) \in Nat \ {0}
      /\ \A i \in 1 .. Len(u) : u[i] = q[i + 1]
  BY <1>1, HeadTailProperties
<1>3. Head(q) = q[1] /\ DOMAIN q = 1 .. Len(q)
  BY <1>1, <1>2
<1> HIDE DEF u
<1>4. DOMAIN u = 1 .. Len(u)
  BY <1>2
<1>5. \A x \in Range(u) : x \in Range(q)
  BY <1>2, <1>3, <1>4 DEF Range
<1>6. Head(q) \in Range(q)
  BY <1>2, <1>3 DEF Range
<1> QED
  BY <1>2, <1>5, <1>6 DEF u, IsSeq

\* One question, or one with a second one on top of it.
LEMMA OpenQuestions ==
    ASSUME NEW d, NEW p
    PROVE  /\ Append(<<d>>, p) = <<d, p>> /\ Append(<<>>, d) = <<d>>
           /\ 1 \in DOMAIN <<d>> /\ <<d>>[1] = d /\ 2 \in DOMAIN <<d, p>> /\ <<d, p>>[2] = p
           /\ Front(<<d>>) = <<>> /\ Last(<<d>>) = d
           /\ Front(<<d, p>>) = <<d>> /\ Last(<<d, p>>) = p
           /\ <<d>> # <<>> /\ <<d, p>> # <<>>
<1> DEFINE S == {d, p}
           g == Append(<<d>>, p)
<1>1. /\ <<d>> \in Seq(S) /\ Len(<<d>>) = 1 /\ <<d, p>> \in Seq(S) /\ Len(<<d, p>>) = 2 /\ p \in S
      /\ <<d>>[1] = d /\ <<d, p>>[1] = d /\ <<d, p>>[2] = p
  OBVIOUS
<1>2. g \in Seq(S) /\ Len(g) = 2 /\ g[1] = d /\ g[2] = p
  <2> HIDE DEF S
  <2>1. /\ g \in Seq(S) /\ Len(g) = Len(<<d>>) + 1 /\ g[Len(<<d>>) + 1] = p
        /\ \A i \in 1 .. Len(<<d>>) : g[i] = <<d>>[i]
    BY <1>1, AppendProperties
  <2> QED
    BY <1>1, <2>1
<1>3. g = <<d, p>>
  <2> HIDE DEF g, S
  <2>1. \A i \in 1 .. 2 : g[i] = <<d, p>>[i]
    BY <1>1, <1>2
  <2>2. Len(g) = Len(<<d, p>>)
    BY <1>1, <1>2
  <2> QED
    BY <1>1, <1>2, <2>1, <2>2, SeqEqual
<1>4. 1 \in DOMAIN <<d>> /\ <<d>>[1] = d /\ 2 \in DOMAIN <<d, p>> /\ <<d, p>>[2] = p
  OBVIOUS
<1>5. /\ Append(<<>>, d) = <<d>>
      /\ Front(<<d>>) = <<>> /\ Last(<<d>>) = d /\ Last(<<d, p>>) = p
  <2>1. Append(<<>>, d) = <<d>>
    OBVIOUS
  <2>2. Front(<<d>>) = <<>> /\ Last(<<d>>) = d /\ Last(<<d, p>>) = p
    BY DEF Front, Last
  <2> QED
    BY <2>1, <2>2
<1>6. Front(<<d, p>>) = <<d>>
  <2>1. Front(<<d, p>>) = [i \in 1 .. 1 |-> <<d, p>>[i]]
    BY <1>1 DEF Front
  <2>2. <<d>> = [i \in 1 .. 1 |-> <<d>>[i]]
    OBVIOUS
  <2> QED
    BY <1>1, <2>1, <2>2
<1>7. <<d>> # <<>> /\ <<d, p>> # <<>>
  OBVIOUS
<1> QED
  BY <1>3, <1>4, <1>5, <1>6, <1>7

\* Nothing is expected of the worker that was not expected before.
LEMMA QueueKept ==
    ASSUME QueueSound, s'.load = s.load, UNCHANGED <<inflight, pending, applies>>
    PROVE  QueueSound'
  BY DEF QueueSound, RequestSound

\* The same questions are open.
LEMMA QuestionsKept ==
    ASSUME QuestionsSound, Kept(s, s'), UNCHANGED <<dialogs, closed>>
    PROVE  QuestionsSound'
  BY DEF QuestionsSound, Current, Kept

\* At most a first question is open that is not about a publication.
LEMMA QuestionAsked ==
    ASSUME ~closed, s'.state # "CLOSED", UNCHANGED closed,
           dialogs' = <<>> \/ \E d : dialogs' = <<d>> /\ d.op # "PUBLISH"
    PROVE  QuestionsSound'
  BY DEF QuestionsSound

\* Steps of the session that take nothing back and ask nothing.
LEMMA SessionStep ==
    ASSUME IInv, Kept(s, s'), Spared(s, s'), IsAscii => Once(s, s'), answer' = "",
           UNCHANGED <<inflight, pending, dialogs, applies, closed>>
    PROVE  IInv' /\ InputRespectedStep
<1>1. SessionSound(s')
  BY DEF Kept
<1>2. QueueSound'
  BY QueueKept DEF IInv, Kept
<1>3. QuestionsSound'
  BY QuestionsKept DEF IInv
<1>4. NoSilentDiscardStep
  BY DEF Spared, NoSilentDiscardStep
<1>5. IsAscii => SubmittedOnceStep
  BY DEF Once, SubmittedOnceStep
<1>6. ConfirmedReloadStep
  BY DEF ConfirmedReloadStep
<1> QED
  BY <1>1, <1>2, <1>3, <1>4, <1>5, <1>6 DEF IInv, InputRespectedStep

\* Where every stream stays as it is, nothing is lost.
LEMMA StreamsStay ==
    ASSUME NEW t, SessionSound(t), NEW u, u.streams = t.streams
    PROVE  Spared(t, u)
<1>1. \A k \in DOMAIN t.streams : IsPrefix(t.streams[k].taken, t.streams[k].taken)
  BY PrefixOfJoin DEF SessionSound, StreamSound
<1> QED
  BY <1>1 DEF Spared

\* Where no stream holds anything, nothing can be lost.
LEMMA NothingToLose ==
    ASSUME \A k \in DOMAIN s.streams : ~StreamDiscardable(s.streams[k])
    PROVE  NoSilentDiscardStep
  BY DEF NoSilentDiscardStep

\* Where the tab would not ask, no stream holds anything.
LEMMA NotDiscardable ==
    ASSUME SessionSound(s), ~StreamHasDiscardableState(s)
    PROVE  \A k \in DOMAIN s.streams : ~StreamDiscardable(s.streams[k])
  BY DEF SessionSound, StreamHasDiscardableState

\* A quiet edit.
LEMMA QuietStep ==
    ASSUME IInv, Quiet(s, s'), answer' = "",
           UNCHANGED <<inflight, pending, dialogs, applies, closed>>
    PROVE  IInv' /\ InputRespectedStep
<1>1. Kept(s, s') /\ Spared(s, s') /\ Once(s, s')
  BY QuietKeeps, EmptiedOnce DEF IInv
<1> QED
  BY <1>1, SessionStep

\* The editors of the field and of the draft, the representation and the message.
LEMMA SelectRepresentationSound ==
    ASSUME IInv, SelectRepresentation
    PROVE  IInv' /\ InputRespectedStep
<1>1. PICK r : Edited(SetRepresentation(s, r))
  BY DEF SelectRepresentation
<1>2. Quiet(s, s')
  BY <1>1, SetRepresentationQuiet DEF Edited, IInv, SessionSound
<1> QED
  BY <1>1, <1>2, QuietStep DEF Edited

\* Selecting a message.
LEMMA SelectMessageActionSound ==
    ASSUME IInv, SelectMessageAction
    PROVE  IInv' /\ InputRespectedStep
<1>1. PICK m : Edited(SelectMessage(s, m))
  BY DEF SelectMessageAction
<1>2. Quiet(s, s')
  BY <1>1, SelectMessageQuiet DEF Edited, IInv, SessionSound
<1> QED
  BY <1>1, <1>2, QuietStep DEF Edited

\* Editing the field.
LEMMA EditFieldSound ==
    ASSUME IInv, EditField
    PROVE  IInv' /\ InputRespectedStep
<1>1. PICK v : \/ Edited(InvalidateDraft(s)) \/ Edited(SetDraft(InvalidateDraft(s), v))
               \/ Edited(SetInvalidDraft(s, v))
  BY DEF EditField
<1>2. DOMAIN s = Fields
  BY DEF IInv, SessionSound
<1>3. Quiet(s, InvalidateDraft(s)) /\ Quiet(s, SetInvalidDraft(s, v))
  BY <1>2, FieldEditsQuiet
<1>4. Quiet(s, SetDraft(InvalidateDraft(s), v))
  <2> DEFINE w == InvalidateDraft(s)
  <2>1. Quiet(s, w)
    BY <1>3
  <2> HIDE DEF w
  <2>2. DOMAIN w = Fields
    BY <2>1 DEF Quiet
  <2>3. Quiet(w, SetDraft(w, v))
    BY <2>2, FieldEditsQuiet
  <2>4. Quiet(s, SetDraft(w, v))
    BY <2>1, <2>3, QuietChain
  <2> QED
    BY <2>4 DEF w
<1>5. Quiet(s, s')
  BY <1>1, <1>3, <1>4 DEF Edited
<1> QED
  BY <1>1, <1>5, QuietStep DEF Edited

\* Editing the draft; what can be typed is text.
LEMMA EditInspectSound ==
    ASSUME IInv, EditInspect
    PROVE  IInv' /\ InputRespectedStep
<1>1. CASE Edited(RejectInspectCapacity(s))
  <2>1. Quiet(s, s')
    BY <1>1, RejectInspectCapacityQuiet DEF Edited, IInv, SessionSound
  <2> QED
    BY <1>1, <2>1, QuietStep DEF Edited
<1>2. CASE \E d \in Chunks \ {s.draft} : Edited(SetInspectDraft(s, d))
  <2>1. PICK d \in Texts : Edited(SetInspectDraft(s, d))
    BY <1>2, ChunksAssumption DEF Texts
  <2>2. s' = SetInspectDraft(s, d) /\ SessionSound(s)
    BY <2>1 DEF Edited, IInv
  <2>3. Kept(s, s') /\ Spared(s, s') /\ Once(s, s')
    BY <2>1, <2>2, SetInspectDraftKept
  <2> QED
    BY <2>1, <2>3, SessionStep DEF Edited
<1> QED
  BY <1>1, <1>2 DEF EditInspect

\* A button is pressed; Encode and Inspect run.
LEMMA PressSound ==
    ASSUME IInv, Press
    PROVE  IInv' /\ InputRespectedStep
<1>1. Quiet(s, s')
  BY QuietSelf DEF Press, IInv, SessionSound
<1> QED
  BY <1>1, QuietStep DEF Press

\* Encode runs after the pending events, on whatever the session is by then.
LEMMA EncodeCurrentSound ==
    ASSUME IInv, EncodeCurrent
    PROVE  IInv' /\ InputRespectedStep
<1>1. PICK ok : s' = Encode(s, ok)
  BY DEF EncodeCurrent
<1>2. Quiet(s, s')
  BY <1>1, EncodeQuiet DEF IInv, SessionSound
<1> QED
  BY <1>2, QuietStep DEF EncodeCurrent

\* Inspect runs after the pending events, on a record or as a stream step.
LEMMA InspectCurrentSound ==
    ASSUME IInv, InspectCurrent
    PROVE  IInv' /\ InputRespectedStep
<1>1. CASE \E ok \in BOOLEAN : s' = Inspect(s, ok)
  <2>1. PICK ok : s' = Inspect(s, ok)
    BY <1>1
  <2>2. Quiet(s, s')
    BY <2>1, InspectQuiet DEF IInv, SessionSound
  <2> QED
    BY <2>2, QuietStep DEF InspectCurrent
<1>2. CASE \E o \in SubmitOutcomes(s) : s' = SubmitStream(s, o)
  <2>1. PICK o \in SubmitOutcomes(s) : s' = SubmitStream(s, o)
    BY <1>2
  <2>2. Kept(s, s') /\ Spared(s, s') /\ (IsAscii => Once(s, s'))
    BY <2>1, SubmitStreamKept DEF IInv
  <2> QED
    BY <2>2, SessionStep DEF InspectCurrent
<1> QED
  BY <1>1, <1>2 DEF InspectCurrent

\* Continue and Reset.
LEMMA ContinueStreamActionSound ==
    ASSUME IInv, ContinueStreamAction
    PROVE  IInv' /\ InputRespectedStep
<1>1. PICK o \in ContinueOutcomes(s) : s' = ContinueStream(s, o)
  BY DEF ContinueStreamAction
<1>2. StreamContinueAvailable(s)
  BY DEF ContinueStreamAction
<1>3. Kept(s, s') /\ Spared(s, s') /\ Once(s, s')
  BY <1>1, <1>2, ContinueStreamKept DEF IInv
<1> QED
  BY <1>3, SessionStep DEF ContinueStreamAction

\* Reset of the selected stream is the one unasked way to lose its bytes.
LEMMA ResetStreamActionSound ==
    ASSUME IInv, ResetStreamAction
    PROVE  IInv' /\ InputRespectedStep
<1>1. s' = ResetStream(s) /\ StreamInspectAvailable(s) /\ answer' = ""
      /\ UNCHANGED <<inflight, pending, dialogs, applies, closed>>
  BY DEF ResetStreamAction, Edited
<1>2. /\ Kept(s, s') /\ Emptied(s, s')
      /\ s'.streams = [s.streams EXCEPT ![StreamKey(s)] = EmptyStream]
  BY <1>1, ResetStreamKept DEF IInv
<1>3. Once(s, s')
  BY <1>2, EmptiedOnce DEF IInv
<1>4. IInv'
  BY <1>1, <1>2, QueueKept, QuestionsKept DEF IInv, Kept
<1>5. NoSilentDiscardStep
  <2>1. \A k \in DOMAIN s.streams : IsPrefix(s.streams[k].taken, s.streams[k].taken)
    BY PrefixOfJoin DEF IInv, SessionSound, StreamSound
  <2>2. \A k \in DOMAIN s.streams : k # StreamKey(s) =>
          k \in DOMAIN s'.streams /\ s'.streams[k] = s.streams[k]
    BY <1>2
  <2> QED
    BY <1>1, <2>1, <2>2 DEF NoSilentDiscardStep
<1>6. SubmittedOnceStep /\ ConfirmedReloadStep
  BY <1>1, <1>3 DEF Once, SubmittedOnceStep, ConfirmedReloadStep
<1> QED
  BY <1>4, <1>5, <1>6 DEF InputRespectedStep

\* Another flow of the table is shown.
LEMMA SelectHostViewSound ==
    ASSUME IInv, SelectHostView
    PROVE  IInv' /\ InputRespectedStep
<1>1. PICK k \in Flows(s.table), copied \in BOOLEAN :
        /\ k # Selected(s)
        /\ s' = IF Kind = "BINARY" THEN PublishBinaryHostFlow(s, k, copied) ELSE SelectHostFlow(s, k)
  BY DEF SelectHostView
<1>2. s.host /\ SessionSound(s)
  BY DEF SelectHostView, IInv
<1>3. Kept(s, s') /\ Spared(s, s') /\ (IsAscii => Once(s, s'))
  <2>1. CASE Kind = "BINARY"
    <3>1. s' = PublishBinaryHostFlow(s, k, copied) /\ ~IsAscii
      BY <1>1, <2>1 DEF IsAscii
    <3> QED
      BY <1>1, <1>2, <2>1, <3>1, PublishBinaryHostFlowKept
  <2>2. CASE Kind # "BINARY"
    <3>1. s' = SelectHostFlow(s, k)
      BY <1>1, <2>2
    <3> QED
      BY <1>1, <1>2, <3>1, SelectHostFlowKept
  <2> QED
    BY <2>1, <2>2
<1> QED
  BY <1>3, SessionStep DEF SelectHostView

\* A new Host request is awaited under a number no other request has.
LEMMA ApplyHostDraftSound ==
    ASSUME IInv, ApplyHostDraft
    PROVE  IInv' /\ InputRespectedStep
<1>1. PICK table \in Tables :
        LET r == Request("HOST", s.load, hostText, table, applies + 1)
        IN pending' = <<r>> /\ inflight' \in Submit(inflight, r)
  BY DEF ApplyHostDraft
<1> DEFINE r == Request("HOST", s.load, hostText, table, applies + 1)
<1>2. pending' = <<r>> /\ inflight' \in Submit(inflight, r)
  BY <1>1
<1>3. r.load = s.load /\ r.config = hostText /\ r.seq = applies + 1
  BY DEF Request
<1> HIDE DEF r
<1>4. /\ hostText # "none" /\ s' = s /\ answer' = ""
      /\ UNCHANGED <<dialogs, closed>>
  BY DEF ApplyHostDraft
<1>10. applies' = applies + 1 /\ applies \in Nat /\ applies' \in Nat
  <2>1. applies \in Nat
    BY DEF IInv, QueueSound
  <2>2. applies' = applies + 1
    BY DEF ApplyHostDraft
  <2> QED
    BY <2>1, <2>2
<1>5. Quiet(s, s')
  BY <1>4, QuietSelf DEF IInv, SessionSound
<1>6. Kept(s, s') /\ Spared(s, s') /\ Once(s, s')
  BY <1>5, QuietKeeps, EmptiedOnce DEF IInv
<1>7. QueueSound'
  <2>1. IsSeq(inflight') /\ \A x \in Range(inflight') : x = r \/ x \in Range(inflight)
    BY <1>2, SubmitRange DEF IInv, QueueSound
  <2>2. \A x \in Range(inflight) : x.config # "none" /\ x.seq \in Nat /\ x.seq <= applies
    BY DEF IInv, QueueSound, RequestSound
  <2>3. pending'[1] = r
    BY <1>2
  <2>4. \A x \in Range(inflight') : RequestSound(x)'
    <3>1. SUFFICES ASSUME NEW x \in Range(inflight')
                   PROVE  /\ x.config # "none" /\ x.seq \in Nat /\ x.seq <= applies'
                          /\ x.seq = pending'[1].seq => x.load = s.load
      BY <1>4 DEF RequestSound
    <3>2. CASE x = r
      <4>1. r.config # "none"
        BY <1>3, <1>4
      <4>2. r.seq \in Nat /\ r.seq <= applies'
        BY <1>3, <1>10
      <4> QED
        BY <1>3, <3>2, <4>1, <4>2
    <3>3. CASE x \in Range(inflight)
      <4>1. x.seq # r.seq
        BY <1>3, <1>10, <2>2, <3>3
      <4> QED
        BY <1>10, <2>2, <2>3, <3>3, <4>1
    <3> QED
      BY <2>1, <3>2, <3>3
  <2>5. r.seq \in Nat /\ r.seq <= applies'
    BY <1>3, <1>10
  <2>6. \E x : pending' = <<x>> /\ x.seq \in Nat /\ x.seq <= applies'
    BY <1>2, <2>5
  <2> QED
    BY <1>10, <2>1, <2>4, <2>6 DEF QueueSound
<1>8. IInv'
  BY <1>4, <1>6, <1>7, QuestionsKept DEF IInv, Kept
<1>9. NoSilentDiscardStep /\ SubmittedOnceStep /\ ConfirmedReloadStep
  BY <1>4, <1>6 DEF Spared, NoSilentDiscardStep, Once, SubmittedOnceStep, ConfirmedReloadStep
<1> QED
  BY <1>8, <1>9 DEF InputRespectedStep

\* A load begins: no request of the one before it is awaited any longer.
LEMMA StartLoadKept ==
    ASSUME QueueSound, NEW t, SessionSound(t), t.state # "CLOSED", StartLoad(t),
           UNCHANGED applies
    PROVE  /\ SessionSound(s') /\ Emptied(t, s') /\ s'.load = t.load + 1
           /\ s'.state # "CLOSED" /\ QueueSound'
<1> DEFINE u == BeginLoad(t)
<1>1. PICK source \in Sources \cup {"unreadable"} :
        LET failed == ApplyCompileCompletion(u, [load |-> u.load, config |-> source, ok |-> FALSE])
        IN /\ IF source = "unreadable"
              THEN s' = failed /\ hostText' = "none" /\ UNCHANGED inflight
              ELSE /\ s' = u /\ hostText' = source
                   /\ inflight' \in Submit(inflight, Request("LOAD", u.load, source, <<>>, 0))
           /\ pending' = <<>> /\ entered' = <<>>
  BY DEF StartLoad
<1>2. SessionSound(u) /\ Emptied(t, u) /\ u.load = t.load + 1 /\ u.state = "LOADING"
  BY BeginLoadKept
<1>3. source # "none"
  BY SourcesAssumption
<1> HIDE DEF u
<1> DEFINE c == [load |-> u.load, config |-> source, ok |-> FALSE]
           r == Request("LOAD", u.load, source, <<>>, 0)
<1>4. c.config # "none" /\ r.config # "none" /\ r.seq = 0
  BY <1>3 DEF Request
<1>5. /\ (s' = u /\ inflight' \in Submit(inflight, r))
         \/ (s' = ApplyCompileCompletion(u, c) /\ UNCHANGED inflight)
      /\ pending' = <<>>
  BY <1>1
<1> HIDE DEF c, r
<1>6. SessionSound(s') /\ Emptied(t, s') /\ s'.load = t.load + 1 /\ s'.state # "CLOSED"
  <2>1. CASE s' = u
    BY <1>2, <2>1
  <2>2. CASE s' = ApplyCompileCompletion(u, c)
    <3>1. /\ SessionSound(s') /\ Emptied(u, s') /\ s'.load = u.load
          /\ s'.state = "CLOSED" => u.state = "CLOSED"
      BY <1>2, <1>4, <2>2, ApplyCompileCompletionKept
    <3> QED
      BY <1>2, <3>1, EmptiedChain
  <2> QED
    BY <1>5, <2>1, <2>2
<1>7. QueueSound'
  <2>1. IsSeq(inflight') /\ \A x \in Range(inflight') : x = r \/ x \in Range(inflight)
    BY <1>5, SubmitRange DEF QueueSound
  <2>2. applies' \in Nat /\ \A x \in Range(inflight) : RequestSound(x)
    BY DEF QueueSound
  <2>3. \A x \in Range(inflight') : RequestSound(x)'
    BY <1>4, <1>5, <2>1, <2>2 DEF RequestSound
  <2> QED
    BY <1>5, <2>1, <2>2, <2>3 DEF QueueSound
<1> QED
  BY <1>6, <1>7

\* The load begins, or one more question is asked; rest are the questions left open.
LEMMA ReloadHostAskedKept ==
    ASSUME QueueSound, NEW t, SessionSound(t), t.state # "CLOSED", t.load = s.load,
           ReloadHostAsked(t, <<>>), UNCHANGED <<applies, closed>>, ~closed
    PROVE  /\ IInv' /\ Emptied(t, s')
           /\ s' = t \/ dialogs' = <<>>
           /\ dialogs' = <<>> => s'.load = s.load + 1
<1>1. CASE /\ s' = t /\ dialogs' = Append(<<>>, [op |-> "RELOAD_HOST", arg |-> 0])
           /\ UNCHANGED <<inflight, pending>>
  <2>1. dialogs' = <<[op |-> "RELOAD_HOST", arg |-> 0]>>
    BY <1>1
  <2>2. dialogs' # <<>> /\ \E d : dialogs' = <<d>> /\ d.op # "PUBLISH"
    BY <2>1
  <2>3. QuestionsSound'
    BY <1>1, <2>2, QuestionAsked
  <2>4. QueueSound'
    BY <1>1, QueueKept
  <2>5. Quiet(t, s')
    BY <1>1, QuietSelf DEF SessionSound
  <2>6. Emptied(t, s') /\ SessionSound(s')
    BY <1>1, <2>5, QuietKeeps
  <2> QED
    BY <1>1, <2>2, <2>3, <2>4, <2>6 DEF IInv
<1>2. CASE StartLoad(t) /\ dialogs' = <<>>
  <2>1. /\ SessionSound(s') /\ Emptied(t, s') /\ s'.load = t.load + 1
        /\ s'.state # "CLOSED" /\ QueueSound'
    BY <1>2, StartLoadKept
  <2>2. QuestionsSound'
    BY <1>2, <2>1, QuestionAsked
  <2> QED
    BY <1>2, <2>1, <2>2 DEF IInv
<1> QED
  BY <1>1, <1>2 DEF ReloadHostAsked

\* Reload: what the streams hold is asked about before anything is given up.
LEMMA BeginLoadFromPathSound ==
    ASSUME IInv, BeginLoadFromPath
    PROVE  IInv' /\ InputRespectedStep
<1>1. /\ dialogs = <<>> /\ ~closed /\ answer' = "" /\ UNCHANGED <<applies, closed>>
      /\ SessionSound(s) /\ QueueSound /\ s.state # "CLOSED"
  BY DEF BeginLoadFromPath, UserFree, IInv, QuestionsSound
<1>2. ConfirmedReloadStep
  BY <1>1 DEF ConfirmedReloadStep
<1>3. CASE /\ StreamHasDiscardableState(s) /\ Ask("RELOAD", 0)
           /\ UNCHANGED <<s, inflight, pending>>
  <2>1. dialogs' = <<[op |-> "RELOAD", arg |-> 0]>>
    <3>1. dialogs = <<>> /\ dialogs' = Append(dialogs, [op |-> "RELOAD", arg |-> 0])
      BY <1>1, <1>3 DEF Ask
    <3> QED
      BY <3>1
  <2>2. \E d : dialogs' = <<d>> /\ d.op # "PUBLISH"
    BY <2>1
  <2>3. QuestionsSound' /\ QueueSound'
    BY <1>1, <1>3, <2>2, QuestionAsked, QueueKept
  <2>4. Spared(s, s')
    BY <1>1, <1>3, StreamsStay
  <2>5. NoSilentDiscardStep
    BY <2>4 DEF Spared, NoSilentDiscardStep
  <2>6. SubmittedOnceStep
    BY <1>3 DEF SubmittedOnceStep
  <2> QED
    BY <1>1, <1>2, <1>3, <2>3, <2>5, <2>6 DEF IInv, InputRespectedStep
<1>4. CASE ~StreamHasDiscardableState(s) /\ ReloadHostAsked(s, <<>>)
  <2>1. IInv' /\ Emptied(s, s')
    BY <1>1, <1>4, ReloadHostAskedKept
  <2>2. NoSilentDiscardStep
    BY <1>1, <1>4, NotDiscardable, NothingToLose
  <2>3. SubmittedOnceStep
    BY <1>1, <2>1, EmptiedOnce DEF Once, SubmittedOnceStep
  <2> QED
    BY <1>2, <2>1, <2>2, <2>3 DEF InputRespectedStep
<1> QED
  BY <1>1, <1>3, <1>4 DEF BeginLoadFromPath

\* A candidate replaces the Host of the document it was prepared for.
LEMMA PublishKept ==
    ASSUME SessionSound(s), NEW c, Current(c), Publish(c)
    PROVE  Kept(s, s') /\ Emptied(s, s')
<1>1. /\ s' = PublishBinaryHostPublication(s, c) \/ s' = ApplyHostAdapter(s, c)
      /\ s.config # "none" /\ c.load = s.load /\ c.config = s.config
  BY DEF Publish, Current
<1> QED
  BY <1>1, PublicationKept

\* What is awaited is answered, by a candidate that is published, asked about or dropped.
LEMMA HostCompletionSound ==
    ASSUME IInv, AcceptCompletion, NEW c, c = Head(inflight), AcceptHostCompletion(c),
           pending # <<>>, c.kind = "HOST", c.seq = pending[1].seq,
           QueueSound', \A i \in DOMAIN dialogs : dialogs[i].op # "PUBLISH"
    PROVE  IInv' /\ InputRespectedStep
<1>1. /\ answer' = "" /\ UNCHANGED closed /\ ~closed /\ SessionSound(s)
  BY DEF AcceptCompletion, IInv
<1>2. c.load = s.load
  <2>1. c \in Range(inflight)
    BY TailRange DEF AcceptCompletion, IInv, QueueSound
  <2> QED
    BY <2>1 DEF IInv, QueueSound, RequestSound
<1>3. ConfirmedReloadStep
  BY <1>1 DEF ConfirmedReloadStep
<1>4. CASE UNCHANGED <<s, dialogs>>
  <2>1. Quiet(s, s')
    BY <1>1, <1>4, QuietSelf DEF SessionSound
  <2>2. Kept(s, s') /\ Spared(s, s') /\ Once(s, s')
    BY <1>1, <2>1, QuietKeeps, EmptiedOnce
  <2>3. QuestionsSound'
    BY <1>1, <1>4, <2>2, QuestionsKept DEF IInv
  <2> QED
    BY <1>3, <2>2, <2>3 DEF Kept, IInv, Spared, NoSilentDiscardStep, Once, SubmittedOnceStep,
                            InputRespectedStep
<1>5. ASSUME AcceptableCandidate(c)
      PROVE  Current(c)
  BY <1>2, <1>5 DEF AcceptableCandidate, PrepareBinaryHostPublication, Current, HasDescription
<1>6. CASE AcceptableCandidate(c) /\ Ask("PUBLISH", c) /\ UNCHANGED s
  <2>1. PICK p : p.op = "PUBLISH" /\ p.arg = c /\ dialogs' = Append(dialogs, p)
    <3> DEFINE p == [op |-> "PUBLISH", arg |-> c]
    <3>1. p.op = "PUBLISH" /\ p.arg = c /\ dialogs' = Append(dialogs, p)
      BY <1>6 DEF Ask
    <3> HIDE DEF p
    <3> QED
      BY <3>1
  <2>2. Current(c)'
    BY <1>5, <1>6 DEF Current
  <2>3. dialogs = <<>> \/ \E d : dialogs = <<d>> /\ d.op # "PUBLISH"
    <3>1. CASE dialogs = <<>>
      BY <3>1
    <3>2. ASSUME NEW d, dialogs = <<d>>
          PROVE  d.op # "PUBLISH"
      <4>1. 1 \in DOMAIN dialogs /\ dialogs[1] = d
        BY <3>2, OpenQuestions
      <4> QED
        BY <4>1
    <3>3. ASSUME NEW d, NEW x, dialogs = <<d, x>>, x.op = "PUBLISH"
          PROVE  FALSE
      <4>1. 2 \in DOMAIN dialogs /\ dialogs[2] = x
        BY <3>3, OpenQuestions
      <4> QED
        BY <3>3, <4>1
    <3> QED
      BY <3>1, <3>2, <3>3 DEF IInv, QuestionsSound
  <2>4. \/ dialogs' = <<p>>
        \/ \E d : dialogs' = <<d, p>> /\ d.op # "PUBLISH"
    <3>1. CASE dialogs = <<>>
      BY <2>1, <3>1
    <3>2. ASSUME NEW d, dialogs = <<d>>, d.op # "PUBLISH"
          PROVE  dialogs' = <<d, p>>
      BY <2>1, <3>2, OpenQuestions
    <3> QED
      BY <2>3, <3>1, <3>2
  <2>5. s'.state = "CLOSED" => closed'
    BY <1>1, <1>6 DEF IInv, QuestionsSound
  <2>6. QuestionsSound'
    BY <1>1, <2>1, <2>2, <2>4, <2>5 DEF QuestionsSound
  <2>7. Spared(s, s')
    BY <1>1, <1>6, StreamsStay
  <2>8. NoSilentDiscardStep /\ SubmittedOnceStep
    BY <1>6, <2>7 DEF Spared, NoSilentDiscardStep, SubmittedOnceStep
  <2> QED
    BY <1>1, <1>3, <1>6, <2>6, <2>8 DEF IInv, InputRespectedStep
<1>7. CASE AcceptableCandidate(c) /\ ~NeedsConsent /\ Publish(c) /\ UNCHANGED dialogs
  <2>1. Kept(s, s') /\ Emptied(s, s')
    BY <1>1, <1>5, <1>7, PublishKept
  <2>2. QuestionsSound'
    BY <1>1, <1>7, <2>1, QuestionsKept DEF IInv
  <2>3. \A k \in DOMAIN s.streams : ~StreamDiscardable(s.streams[k])
    <3>1. CASE Kind # "BINARY"
      BY <1>1, <1>7, <3>1, NotDiscardable DEF NeedsConsent
    <3>2. CASE Kind = "BINARY" /\ s.host
      BY <1>7, <3>2 DEF NeedsConsent, BinaryHasDiscardableState, BinaryHost
    <3>3. CASE Kind = "BINARY" /\ ~s.host
      BY <1>1, <3>3 DEF SessionSound, DirectSound
    <3> QED
      BY <3>1, <3>2, <3>3
  <2>4. NoSilentDiscardStep /\ SubmittedOnceStep
    BY <1>1, <2>1, <2>3, NothingToLose, EmptiedOnce DEF Once, SubmittedOnceStep
  <2> QED
    BY <1>3, <2>1, <2>2, <2>4 DEF Kept, IInv, InputRespectedStep
<1> QED
  BY <1>4, <1>6, <1>7 DEF AcceptHostCompletion

\* The poll timer hands over the oldest answer.
LEMMA AcceptCompletionSound ==
    ASSUME IInv, AcceptCompletion
    PROVE  IInv' /\ InputRespectedStep
<1> DEFINE c == Head(inflight)
<1>1. /\ inflight # <<>> /\ inflight' = Tail(inflight) /\ answer' = ""
      /\ \A i \in DOMAIN dialogs : dialogs[i].op # "PUBLISH"
      /\ UNCHANGED <<applies, closed>> /\ SessionSound(s)
  BY DEF AcceptCompletion, IInv
<1>2. c \in Range(inflight) /\ IsSeq(inflight') /\ \A x \in Range(inflight') : x \in Range(inflight)
  BY <1>1, TailRange DEF IInv, QueueSound
<1>3. ASSUME pending' = <<>> \/ (UNCHANGED pending /\ s'.load = s.load)
      PROVE  QueueSound'
  <2>1. applies' \in Nat /\ \A x \in Range(inflight) : RequestSound(x)
    BY <1>1 DEF IInv, QueueSound
  <2>2. \A x \in Range(inflight') : RequestSound(x)'
    BY <1>1, <1>2, <1>3, <2>1 DEF RequestSound
  <2>3. pending' = <<>> \/ \E r : pending' = <<r>> /\ r.seq \in Nat /\ r.seq <= applies'
    BY <1>1, <1>3 DEF IInv, QueueSound
  <2> QED
    BY <1>2, <2>1, <2>2, <2>3 DEF QueueSound
<1>4. CASE pending # <<>> /\ c.kind = "HOST" /\ c.seq = pending[1].seq
  <2>1. AcceptHostCompletion(c)
    BY <1>4 DEF AcceptCompletion
  <2>2. QueueSound'
    BY <1>3, <2>1 DEF AcceptHostCompletion
  <2> QED
    BY <1>1, <1>4, <2>1, <2>2, HostCompletionSound
<1>5. CASE ~(pending # <<>> /\ c.kind = "HOST" /\ c.seq = pending[1].seq)
  <2>1. /\ s' = ApplyCompileCompletion(s, c) \/ s' = s
        /\ UNCHANGED <<pending, dialogs>>
    BY <1>5 DEF AcceptCompletion
  <2>2. c.config # "none"
    BY <1>2 DEF IInv, QueueSound, RequestSound
  <2> HIDE DEF c
  <2>3. /\ SessionSound(s') /\ Emptied(s, s') /\ Spared(s, s') /\ s'.load = s.load
        /\ s'.state = "CLOSED" => s.state = "CLOSED"
    <3>1. CASE s' = s
      <4>1. Quiet(s, s')
        BY <1>1, <3>1, QuietSelf DEF SessionSound
      <4> QED
        BY <1>1, <3>1, <4>1, QuietKeeps
    <3>2. CASE s' = ApplyCompileCompletion(s, c)
      BY <1>1, <2>2, <3>2, ApplyCompileCompletionKept
    <3> QED
      BY <2>1, <3>1, <3>2
  <2>4. QueueSound'
    BY <1>3, <2>1, <2>3
  <2>5. QuestionsSound'
    <3>1. \/ dialogs = <<>>
          \/ \E d : dialogs = <<d>> /\ d.op # "PUBLISH"
      <4>1. ASSUME NEW d, dialogs = <<d>>
            PROVE  d.op # "PUBLISH"
        <5>1. 1 \in DOMAIN dialogs /\ dialogs[1] = d
          BY <4>1, OpenQuestions
        <5> QED
          BY <1>1, <5>1
      <4>2. ASSUME NEW d, NEW x, dialogs = <<d, x>>, x.op = "PUBLISH"
            PROVE  FALSE
        <5>1. 2 \in DOMAIN dialogs /\ dialogs[2] = x
          BY <4>2
        <5> QED
          BY <1>1, <4>2, <5>1
      <4> QED
        BY <4>1, <4>2 DEF IInv, QuestionsSound
    <3>2. ~closed /\ s.state # "CLOSED"
      BY DEF AcceptCompletion, IInv, QuestionsSound
    <3> QED
      BY <1>1, <2>1, <2>3, <3>1, <3>2, QuestionAsked
  <2>6. NoSilentDiscardStep /\ SubmittedOnceStep /\ ConfirmedReloadStep
    BY <1>1, <2>3, EmptiedOnce DEF Spared, NoSilentDiscardStep, Once, SubmittedOnceStep,
                                   ConfirmedReloadStep
  <2> QED
    BY <2>3, <2>4, <2>5, <2>6 DEF IInv, InputRespectedStep
<1> QED
  BY <1>4, <1>5

\* A question is asked and nothing else happens.
LEMMA AskStep ==
    ASSUME IInv, dialogs = <<>>, ~closed, NEW op, op # "PUBLISH", NEW arg, Ask(op, arg),
           answer' = "", UNCHANGED <<s, inflight, pending, applies, closed>>
    PROVE  IInv' /\ InputRespectedStep
<1> DEFINE e == [op |-> op, arg |-> arg]
<1>1. dialogs' = Append(dialogs, e) /\ e.op = op
  BY DEF Ask
<1> HIDE DEF e
<1>2. \E d : dialogs' = <<d>> /\ d.op # "PUBLISH"
  <2>1. Append(<<>>, e) = <<e>>
    BY OpenQuestions
  <2>2. dialogs' = <<e>>
    BY <1>1, <2>1
  <2> QED
    BY <1>1, <2>2
<1>3. SessionSound(s) /\ s.state # "CLOSED"
  BY DEF IInv, QuestionsSound
<1>4. QuestionsSound' /\ QueueSound'
  BY <1>2, <1>3, QuestionAsked, QueueKept DEF IInv
<1>5. Spared(s, s')
  BY <1>3, StreamsStay
<1>6. NoSilentDiscardStep /\ SubmittedOnceStep /\ ConfirmedReloadStep
  BY <1>5 DEF Spared, NoSilentDiscardStep, SubmittedOnceStep, ConfirmedReloadStep
<1> QED
  BY <1>3, <1>4, <1>6 DEF IInv, InputRespectedStep

\* The selectors: the user is asked when the direct stream holds something.
LEMMA SelectPipelineActionSound ==
    ASSUME IInv, SelectPipelineAction
    PROVE  IInv' /\ InputRespectedStep
<1>1. PICK p \in 1 .. Len(Pipelines) :
        IF StreamHasDiscardableState(s) THEN Ask("PIPELINE", p) /\ UNCHANGED s
        ELSE s' = PipelineSelected(s, p) /\ UNCHANGED dialogs
  BY DEF SelectPipelineAction
<1>2. /\ dialogs = <<>> /\ ~closed /\ answer' = "" /\ SessionSound(s)
      /\ UNCHANGED <<inflight, pending, applies, closed>>
  BY DEF SelectPipelineAction, SelectorsEnabled, UserFree, IInv
<1>3. CASE StreamHasDiscardableState(s)
  BY <1>1, <1>2, <1>3, AskStep
<1>4. CASE ~StreamHasDiscardableState(s)
  <2>1. NothingHeld(s)
    BY <1>2, <1>4, NotDiscardable DEF NothingHeld
  <2>2. s' = PipelineSelected(s, p) /\ UNCHANGED dialogs
    BY <1>1, <1>4
  <2>3. Kept(s, s') /\ Emptied(s, s') /\ s'.streams = s.streams
    BY <1>2, <2>1, <2>2, PipelineSelectedKept
  <2>4. Spared(s, s') /\ Once(s, s')
    BY <1>2, <2>3, StreamsStay, EmptiedOnce
  <2> QED
    BY <1>2, <2>2, <2>3, <2>4, SessionStep
<1> QED
  BY <1>3, <1>4

\* Selecting a mode, with a question when a stream would be left.
LEMMA SelectModeSound ==
    ASSUME IInv, SelectMode
    PROVE  IInv' /\ InputRespectedStep
<1>1. PICK m : \/ Ask("MODE", m) /\ UNCHANGED s
               \/ s' = SetMode(s, m) /\ UNCHANGED dialogs
  BY DEF SelectMode
<1>2. /\ dialogs = <<>> /\ ~closed /\ answer' = "" /\ DOMAIN s = Fields
      /\ UNCHANGED <<inflight, pending, applies, closed>>
  BY DEF SelectMode, SelectorsEnabled, UserFree, IInv, SessionSound
<1>3. CASE Ask("MODE", m) /\ UNCHANGED s
  BY <1>2, <1>3, AskStep
<1>4. CASE s' = SetMode(s, m) /\ UNCHANGED dialogs
  <2>1. Quiet(s, s')
    BY <1>2, <1>4, SetModeQuiet
  <2> QED
    BY <1>2, <1>4, <2>1, QuietStep
<1> QED
  BY <1>1, <1>3, <1>4

\* A document that is closed asks and expects nothing any more.
LEMMA CloseNowKept ==
    ASSUME IInv, CloseNow(<<>>), UNCHANGED applies
    PROVE  IInv' /\ Emptied(s, s')
<1>1. /\ closed' = TRUE /\ s' = Close(s) /\ inflight' = <<>> /\ pending' = <<>>
      /\ dialogs' = <<>>
  BY DEF CloseNow
<1>2. SessionSound(s') /\ Emptied(s, s')
  BY <1>1, CloseKept
<1>3. QuestionsSound'
  BY <1>1 DEF QuestionsSound
<1>4. IsSeq(inflight') /\ Range(inflight') = {}
  BY <1>1, EmptySeq DEF IsSeq, Range
<1>5. QueueSound'
  BY <1>1, <1>4 DEF IInv, QueueSound
<1> QED
  BY <1>2, <1>3, <1>5 DEF IInv

\* The document is closed, or one more question about it is asked.
LEMMA CloseHostAskedKept ==
    ASSUME IInv, ~closed, NEW asked, CloseHostAsked(asked, <<>>), UNCHANGED applies
    PROVE  IInv' /\ Emptied(s, s')
<1>1. SessionSound(s) /\ QueueSound /\ s.state # "CLOSED"
  BY DEF IInv, QuestionsSound
<1>2. CASE /\ dialogs' = Append(<<>>, [op |-> "CLOSE_HOST", arg |-> 0])
           /\ UNCHANGED <<s, inflight, pending, closed>>
  <2>1. dialogs' = <<[op |-> "CLOSE_HOST", arg |-> 0]>>
    BY <1>2
  <2>2. \E d : dialogs' = <<d>> /\ d.op # "PUBLISH"
    BY <2>1
  <2>3. QuestionsSound' /\ QueueSound'
    BY <1>1, <1>2, <2>2, QuestionAsked, QueueKept
  <2>4. Quiet(s, s')
    BY <1>1, <1>2, QuietSelf DEF SessionSound
  <2>5. Emptied(s, s')
    BY <1>1, <2>4, QuietKeeps
  <2> QED
    BY <1>1, <1>2, <2>3, <2>5 DEF IInv
<1>3. CASE CloseNow(<<>>)
  BY <1>3, CloseNowKept
<1> QED
  BY <1>2, <1>3 DEF CloseHostAsked

\* Closing: what the streams hold is asked about first.
LEMMA CloseDocumentSound ==
    ASSUME IInv, CloseDocument
    PROVE  IInv' /\ InputRespectedStep
<1>1. dialogs = <<>> /\ ~closed /\ answer' = "" /\ UNCHANGED applies /\ SessionSound(s)
  BY DEF CloseDocument, UserFree, IInv
<1>2. CASE Ask("CLOSE", 0) /\ UNCHANGED <<s, inflight, pending, closed>>
  BY <1>1, <1>2, AskStep
<1>3. CASE ~StreamHasDiscardableState(s) /\ CloseHostAsked(FALSE, <<>>)
  <2>1. IInv' /\ Emptied(s, s')
    BY <1>1, <1>3, CloseHostAskedKept
  <2>2. NoSilentDiscardStep
    BY <1>1, <1>3, NotDiscardable, NothingToLose
  <2>3. SubmittedOnceStep /\ ConfirmedReloadStep
    BY <1>1, <2>1, EmptiedOnce DEF Once, SubmittedOnceStep, ConfirmedReloadStep
  <2> QED
    BY <2>1, <2>2, <2>3 DEF InputRespectedStep
<1> QED
  BY <1>1, <1>2, <1>3 DEF CloseDocument

\* The questions that are open, seen from the innermost one.
LEMMA TopQuestion ==
    ASSUME IInv, dialogs # <<>>
    PROVE  /\ ~closed /\ s.state # "CLOSED"
           /\ Top.op = "PUBLISH" => Current(Top.arg)
           /\ Top.op # "PUBLISH" => Front(dialogs) = <<>>
           /\ Front(dialogs) = <<>> \/ \E d : Front(dialogs) = <<d>> /\ d.op # "PUBLISH"
           /\ Front(dialogs) # dialogs
<1>1. ~closed /\ s.state # "CLOSED"
  BY DEF IInv, QuestionsSound
<1>2. CASE \E d : dialogs = <<d>> /\ (d.op = "PUBLISH" => Current(d.arg))
  <2>1. PICK d : dialogs = <<d>> /\ (d.op = "PUBLISH" => Current(d.arg))
    BY <1>2
  <2>2. Top = d /\ Front(dialogs) = <<>>
    BY <2>1, OpenQuestions DEF Top
  <2> QED
    BY <1>1, <2>1, <2>2
<1>3. CASE \E d, p : /\ dialogs = <<d, p>> /\ d.op # "PUBLISH"
                     /\ p.op = "PUBLISH" /\ Current(p.arg)
  <2>1. PICK d, p : /\ dialogs = <<d, p>> /\ d.op # "PUBLISH"
                    /\ p.op = "PUBLISH" /\ Current(p.arg)
    BY <1>3
  <2>2. Top = p /\ Front(dialogs) = <<d>>
    BY <2>1, OpenQuestions DEF Top
  <2>3. <<d>> # <<d, p>>
    OBVIOUS
  <2> QED
    BY <1>1, <2>1, <2>2, <2>3
<1> QED
  BY <1>2, <1>3 DEF IInv, QuestionsSound

\* No closes the innermost question and changes nothing.
LEMMA AnswerNoSound ==
    ASSUME IInv, AnswerNo
    PROVE  IInv' /\ InputRespectedStep
<1>1. /\ dialogs # <<>> /\ dialogs' = Front(dialogs) /\ answer' = "NO" /\ s' = s
      /\ UNCHANGED <<inflight, pending, applies, closed>> /\ SessionSound(s)
  BY DEF AnswerNo, IInv
<1>2. ~closed /\ s.state # "CLOSED"
      /\ (Front(dialogs) = <<>> \/ \E d : Front(dialogs) = <<d>> /\ d.op # "PUBLISH")
  BY <1>1, TopQuestion
<1>3. QuestionsSound' /\ QueueSound'
  BY <1>1, <1>2, QuestionAsked, QueueKept DEF IInv
<1>4. Spared(s, s')
  BY <1>1, StreamsStay
<1>5. NoSilentDiscardStep /\ SubmittedOnceStep /\ ConfirmedReloadStep
  BY <1>1, <1>4 DEF Spared, NoSilentDiscardStep, SubmittedOnceStep, ConfirmedReloadStep
<1> QED
  BY <1>1, <1>3, <1>5 DEF IInv, InputRespectedStep

\* A Yes goes on with the session as it is by then.
LEMMA AnswerYesSound ==
    ASSUME IInv, AnswerYes
    PROVE  IInv' /\ InputRespectedStep
<1> DEFINE rest == Front(dialogs)
<1>1. /\ dialogs # <<>> /\ answer' = "YES" /\ UNCHANGED applies
      /\ SessionSound(s) /\ QueueSound
  BY DEF AnswerYes, IInv
<1>2. /\ ~closed /\ s.state # "CLOSED"
      /\ Top.op = "PUBLISH" => Current(Top.arg)
      /\ Top.op # "PUBLISH" => rest = <<>>
      /\ rest = <<>> \/ \E d : rest = <<d>> /\ d.op # "PUBLISH"
      /\ rest # dialogs
  BY <1>1, TopQuestion
<1>3. PICK discard :
        /\ discard = ConfirmStreamDiscard(s)
        /\ Kept(s, discard.s) /\ Emptied(s, discard.s)
        /\ discard.ok => NothingHeld(discard.s)
        /\ IsAscii => discard.ok = TRUE
  BY <1>1, ConfirmStreamDiscardKept
<1> DEFINE t == discard.s
<1>4. SessionSound(t) /\ t.load = s.load /\ t.state # "CLOSED"
  BY <1>2, <1>3 DEF Kept
<1>5. ASSUME IInv', Emptied(s, s'), ConfirmedReloadStep
      PROVE  IInv' /\ InputRespectedStep
  <2>1. NoSilentDiscardStep
    BY <1>1 DEF NoSilentDiscardStep
  <2>2. SubmittedOnceStep
    BY <1>1, <1>5, EmptiedOnce DEF Once, SubmittedOnceStep
  <2> QED
    BY <1>5, <2>1, <2>2 DEF InputRespectedStep
<1>6. ASSUME Kept(s, s'), UNCHANGED <<inflight, pending, closed>>, dialogs' = rest
      PROVE  IInv'
  <2>1. s'.state # "CLOSED" /\ s'.load = s.load /\ SessionSound(s')
    BY <1>2, <1>6 DEF Kept
  <2>2. QuestionsSound' /\ QueueSound'
    BY <1>1, <1>2, <1>6, <2>1, QuestionAsked, QueueKept
  <2> QED
    BY <2>1, <2>2 DEF IInv
<1> HIDE DEF t
<1>7. CASE /\ Top.op = "RELOAD" /\ UNCHANGED closed
           /\ IF discard.ok THEN ReloadHostAsked(t, rest)
              ELSE dialogs' = rest /\ UNCHANGED <<s, inflight, pending>>
  <2>1. rest = <<>>
    BY <1>2, <1>7
  <2>2. CASE discard.ok
    <3>1. ReloadHostAsked(t, <<>>)
      BY <1>7, <2>1, <2>2
    <3>2. /\ IInv' /\ Emptied(t, s')
          /\ dialogs' = <<>> => s'.load = s.load + 1
      BY <1>1, <1>2, <1>4, <1>7, <3>1, ReloadHostAskedKept
    <3>3. Emptied(s, s')
      BY <1>3, <3>2, EmptiedChain DEF t
    <3>4. ~ReloadDropped
      BY <1>3, <2>2 DEF ReloadDropped, ConfirmStreamDiscard
    <3>5. ConfirmedReloadStep
      BY <2>1, <3>2, <3>4, <1>4 DEF ConfirmedReloadStep, t
    <3> QED
      BY <1>5, <3>2, <3>3, <3>5
  <2>3. CASE ~discard.ok
    <3>1. UNCHANGED <<s, inflight, pending, closed>> /\ dialogs' = rest
      BY <1>7, <2>3
    <3>2. Quiet(s, s')
      BY <1>1, <3>1, QuietSelf DEF SessionSound
    <3>3. Kept(s, s') /\ Emptied(s, s')
      BY <1>1, <3>2, QuietKeeps
    <3>4. ReloadDropped
      BY <1>3, <2>3 DEF ReloadDropped, ConfirmStreamDiscard
    <3>5. ConfirmedReloadStep
      BY <2>3, <3>1, <3>4 DEF ConfirmedReloadStep
    <3> QED
      BY <1>5, <1>6, <3>1, <3>3, <3>5
  <2> QED
    BY <2>2, <2>3
<1>8. ASSUME Top.op # "RELOAD"
      PROVE  ConfirmedReloadStep
  BY <1>8 DEF ConfirmedReloadStep
<1>9. CASE Top.op = "RELOAD_HOST" /\ StartLoad(s) /\ dialogs' = rest /\ UNCHANGED closed
  <2>1. rest = <<>> /\ Top.op # "RELOAD"
    BY <1>2, <1>9
  <2>2. /\ SessionSound(s') /\ Emptied(s, s') /\ s'.state # "CLOSED" /\ QueueSound'
    BY <1>1, <1>2, <1>9, StartLoadKept
  <2>3. QuestionsSound'
    BY <1>2, <1>9, <2>1, <2>2, QuestionAsked
  <2> QED
    BY <1>5, <1>8, <2>1, <2>2, <2>3 DEF IInv
<1>10. CASE /\ Top.op \in {"PIPELINE", "MODE"} /\ dialogs' = rest
            /\ s' = IF ~discard.ok THEN t
                    ELSE IF Top.op = "MODE" THEN SetMode(t, Top.arg)
                    ELSE PipelineSelected(t, Top.arg)
            /\ UNCHANGED <<inflight, pending, closed>>
  <2>1. Kept(t, s') /\ Emptied(t, s')
    <3>1. Quiet(t, t) /\ Quiet(t, SetMode(t, Top.arg))
      BY <1>4, QuietSelf, SetModeQuiet DEF SessionSound
    <3>2. CASE ~discard.ok
      <4>1. s' = t
        BY <1>10, <3>2
      <4> QED
        BY <1>4, <3>1, <4>1, QuietKeeps
    <3>3. CASE discard.ok /\ Top.op = "MODE"
      <4>1. s' = SetMode(t, Top.arg)
        BY <1>10, <3>3
      <4> QED
        BY <1>4, <3>1, <4>1, QuietKeeps
    <3>4. CASE discard.ok /\ Top.op # "MODE"
      <4>1. s' = PipelineSelected(t, Top.arg) /\ NothingHeld(t)
        BY <1>3, <1>10, <3>4 DEF t
      <4> QED
        BY <1>4, <4>1, PipelineSelectedKept
    <3> QED
      BY <3>2, <3>3, <3>4
  <2>2. Kept(s, t) /\ Emptied(s, t)
    BY <1>3 DEF t
  <2>3. Kept(s, s') /\ Emptied(s, s')
    BY <2>1, <2>2, KeptChain, EmptiedChain
  <2> QED
    BY <1>5, <1>6, <1>8, <1>10, <2>3
<1>11. CASE /\ Top.op = "PUBLISH" /\ Publish(Top.arg) /\ dialogs' = rest
            /\ UNCHANGED <<inflight, pending, closed>>
  <2>1. Kept(s, s') /\ Emptied(s, s')
    BY <1>1, <1>2, <1>11, PublishKept
  <2> QED
    BY <1>5, <1>6, <1>8, <1>11, <2>1
<1>12. CASE Top.op = "CLOSE" /\ CloseHostAsked(TRUE, rest)
  <2>1. CloseHostAsked(TRUE, <<>>)
    BY <1>2, <1>12
  <2>2. IInv' /\ Emptied(s, s')
    BY <1>1, <1>2, <2>1, CloseHostAskedKept
  <2> QED
    BY <1>5, <1>8, <1>12, <2>2
<1>13. CASE Top.op = "CLOSE_HOST" /\ CloseNow(rest)
  <2>1. CloseNow(<<>>)
    BY <1>2, <1>13
  <2>2. IInv' /\ Emptied(s, s')
    BY <1>1, <2>1, CloseNowKept
  <2> QED
    BY <1>5, <1>8, <1>13, <2>2
<1> QED
  BY <1>3, <1>7, <1>9, <1>10, <1>11, <1>12, <1>13 DEF AnswerYes, t

-----------------------------------------------------------------------------
(***************************************************************************)
(* The theorems.                                                           *)
(***************************************************************************)

\* A new tab is empty.
LEMMA InitSound ==
    ASSUME Init
    PROVE  IInv
<1>1. /\ s = NewSession /\ inflight = <<>> /\ pending = <<>> /\ dialogs = <<>>
      /\ applies = 0 /\ closed = FALSE
  BY DEF Init
<1>2. /\ DOMAIN s = Fields /\ s.host = FALSE /\ s.draft = <<>> /\ s.submitted = FALSE
      /\ s.streams = <<>> /\ s.slots = <<>> /\ s.config = "none" /\ s.state = "EMPTY"
  BY <1>1, SessionFields DEF NewSession
<1>3. DOMAIN s.streams = {} /\ DOMAIN s.slots = {}
  BY <1>2
<1>4. InputSound(s) /\ HostSound(s) /\ DirectSound(s)
  BY <1>2, <1>3, EmptyDraft DEF InputSound, HostSound, DirectSound
<1>5. SessionSound(s)
  BY <1>2, <1>3, <1>4 DEF SessionSound
<1>6. IsSeq(inflight) /\ Range(inflight) = {}
  BY <1>1, EmptySeq DEF IsSeq, Range
<1>7. QueueSound /\ QuestionsSound
  BY <1>1, <1>2, <1>6 DEF QueueSound, QuestionsSound
<1> QED
  BY <1>5, <1>7 DEF IInv

\* Every step of the tab keeps the invariant and respects the input of the user.
LEMMA NextSound ==
    ASSUME IInv, [Next]_vars
    PROVE  IInv' /\ [InputRespectedStep]_vars
<1>1. CASE Next
  <2>1. IInv' /\ InputRespectedStep
    BY <1>1, BeginLoadFromPathSound, AcceptCompletionSound, ApplyHostDraftSound,
       SelectHostViewSound, SelectPipelineActionSound, SelectModeSound,
       SelectRepresentationSound, SelectMessageActionSound, EditFieldSound, EditInspectSound,
       PressSound, EncodeCurrentSound, InspectCurrentSound, ContinueStreamActionSound,
       ResetStreamActionSound, CloseDocumentSound, AnswerYesSound, AnswerNoSound DEF Next
  <2> QED
    BY <2>1
<1>2. CASE UNCHANGED vars
  BY <1>2 DEF vars, IInv, QueueSound, RequestSound, QuestionsSound, Current
<1> QED
  BY <1>1, <1>2

\* The invariant holds in every state: streams, drafts and Host of the session, the queue of
\* requests and the open questions fit together.
THEOREM SessionInvariant == Spec => []IInv
<1>1. Init => IInv
  BY InitSound
<1>2. IInv /\ [Next]_vars => IInv'
  BY NextSound
<1> QED
  BY <1>1, <1>2, PTL DEF Spec

\* However chunks are submitted, continued, faulted, reset and shown, each token a stream was
\* given is framed, held by the framer or still frozen, once and in order
\* (binary_host_adapter.cpp and ascii_stream_adapter.cpp, the frozen suffix).
THEOREM StreamsKeepTheirBytes == Spec => []BytesOnce
<1>1. IInv => BytesOnce
  BY DEF IInv, SessionSound, StreamSound, BytesOnce
<1> QED
  BY <1>1, SessionInvariant, PTL

\* A Host is never in use under another load or configuration than the one it was prepared
\* for, whatever reloads and questions come in between (document_tab.cpp, accept_completion).
THEOREM HostIsOfCurrentLoad == Spec => []PublishedForCurrentLoad
<1>1. IInv => PublishedForCurrentLoad
  BY DEF IInv, SessionSound, HostSound, PublishedForCurrentLoad
<1> QED
  BY <1>1, SessionInvariant, PTL

\* On every route no step gives up bytes of a stream unasked, and a confirmed reload begins or
\* asks on, except exactly where ConfirmStreamDiscard fails: on a Binary Host that shows a flow
\* without a stream it is dropped and the session left alone.  On the text routes no step hands
\* an edit to the Host twice (UI_STREAM_CHUNK_ALREADY_SUBMITTED and the questions of
\* document_tab.cpp).
THEOREM InputIsRespected == Spec => InputRespected
<1>1. IInv /\ [Next]_vars => [InputRespectedStep]_vars
  BY NextSound
<1> QED
  BY <1>1, SessionInvariant, PTL DEF Spec, InputRespected

=============================================================================
