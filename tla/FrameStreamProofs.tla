-------------------------- MODULE FrameStreamProofs --------------------------
(***************************************************************************)
(* StreamFramer implements FrameStream: for every accepted plan, every     *)
(* admitted budget, streams of any length and every way to cut them into   *)
(* chunks, the framer delivers frames and skips bytes as the abstract      *)
(* framer may.                                                             *)
(***************************************************************************)
EXTENDS StreamFramerProofs

(***************************************************************************)
(* The sync automaton.  A prefix of the sync bytes of length k ends at     *)
(* offset e of w; the automaton is right when its state is the length of   *)
(* the longest such prefix.                                                *)
(***************************************************************************)
EndsWith(w, e, k) == k <= e /\ \A i \in 1..k : w[e - k + i] = Sync[i]

\* m is the longest prefix that ends at e and starts at lo or later.
Longest(w, lo, e, m) ==
    /\ m <= e - lo /\ EndsWith(w, e, m)
    /\ \A k \in 0..Len(Sync) : k <= e - lo /\ EndsWith(w, e, k) => k <= m

\* The fallback chain of m holds the borders of the first m sync bytes.
ChainRight(m) == \A k \in 0..m : k \in FallbackChain(m) <=> EndsWith(Sync, m, k)

\* A chain is its first element and the chain of the table's entry for it.
LEMMA ChainUnfolds ==
    ASSUME NEW m \in 1..Len(Sync)
    PROVE  \A k \in 0..m :
             k \in FallbackChain(m) <=>
               k = m \/ k \in FallbackChain(framing.sync_prefix_table[m])
<1> DEFINE table == framing.sync_prefix_table
           t == table[m]
<1>1. m \in Nat /\ m <= Len(Sync) /\ Len(Sync) \in Nat
  BY PlanShape
<1>2. \A k \in 1..m : table[k] \in 0..(k - 1)
  BY <1>1, PrefixShortens
<1>3. t \in 0..(m - 1)
  BY <1>1, <1>2
<1> HIDE DEF table, t
<1>4. ASSUME NEW k \in FallbackChain(m), k # m
      PROVE  k \in FallbackChain(t)
  <2> DEFINE S == {m} \cup FallbackChain(t)
  <2>1. FallbackChain(t) \subseteq 0..t
    BY DEF FallbackChain
  <2>2. t \in FallbackChain(t)
    BY <1>3 DEF FallbackChain
  <2>3. ASSUME NEW j \in FallbackChain(t), j # 0
        PROVE  table[j] \in FallbackChain(t)
    <3>1. j \in 1..t /\ table[j] \in 0..t
      BY <1>1, <1>2, <1>3, <2>1, <2>3
    <3>2. ASSUME NEW R \in SUBSET (0..t), t \in R, PrefixClosed(R)
          PROVE  table[j] \in R
      <4>1. j \in R
        BY <3>2 DEF FallbackChain
      <4> QED
        BY <2>3, <3>2, <4>1 DEF PrefixClosed, table
    <3> QED
      BY <3>1, <3>2 DEF FallbackChain
  <2>4. PrefixClosed(S)
    BY <2>2, <2>3 DEF PrefixClosed, t, table
  <2>5. S \in SUBSET (0..m) /\ m \in S
    BY <1>1, <1>3, <2>1
  <2>6. k \in S
    BY <1>4, <2>4, <2>5 DEF FallbackChain
  <2> QED
    BY <1>4, <2>6
<1>5. ASSUME NEW k \in FallbackChain(t)
      PROVE  k \in FallbackChain(m)
  <2>1. k \in 0..t /\ k \in 0..m
    BY <1>1, <1>3 DEF FallbackChain
  <2>2. ASSUME NEW S \in SUBSET (0..m), m \in S, PrefixClosed(S)
        PROVE  k \in S
    <3> DEFINE R == {j \in S : j <= t}
    <3>1. t \in R
      BY <1>1, <1>3, <2>2 DEF PrefixClosed, t, table
    <3>2. ASSUME NEW j \in R \ {0}
          PROVE  table[j] \in R
      <4>1. j \in 1..m /\ j <= t
        BY <1>1, <2>2
      <4>2. table[j] \in S
        BY <2>2 DEF PrefixClosed, table
      <4> QED
        BY <1>1, <1>2, <1>3, <4>1, <4>2
    <3>3. R \in SUBSET (0..t)
      <4>1. ASSUME NEW j \in R
            PROVE  j \in 0..t
        <5>1. j \in 0..m /\ j <= t
          BY <2>2
        <5> QED
          BY <1>1, <1>3, <5>1
      <4> QED
        BY <4>1
    <3> HIDE DEF R
    <3>4. PrefixClosed(R)
      BY <3>2 DEF PrefixClosed, table
    <3>5. k \in R
      BY <3>1, <3>3, <3>4 DEF FallbackChain
    <3> QED
      BY <3>5 DEF R
  <2> QED
    BY <2>1, <2>2 DEF FallbackChain
<1>6. m \in FallbackChain(m)
  BY <1>1 DEF FallbackChain
<1> QED
  BY <1>4, <1>5, <1>6 DEF t, table

\* A shorter prefix ends where a longer one does exactly if it is a border of it.
LEMMA BorderOfMatch ==
    ASSUME NEW w, NEW e \in Nat, NEW t \in Nat, EndsWith(w, e, t), NEW k \in 0..t
    PROVE  EndsWith(w, e, k) <=> EndsWith(Sync, t, k)
<1>1. ASSUME NEW i \in 1..k
      PROVE  w[e - k + i] = Sync[t - k + i]
  <2>1. t - k + i \in 1..t /\ e - t + (t - k + i) = e - k + i
    OBVIOUS
  <2>2. w[e - t + (t - k + i)] = Sync[t - k + i]
    BY <2>1 DEF EndsWith
  <2> QED
    BY <2>1, <2>2
<1>2. k <= e /\ k <= t
  BY DEF EndsWith
<1> QED
  BY <1>1, <1>2 DEF EndsWith

\* A prefix is one byte longer where the byte is the next one.
LEMMA MatchGrows ==
    ASSUME NEW w, NEW e \in Nat, NEW k \in Nat, EndsWith(w, e, k), w[e + 1] = Sync[k + 1]
    PROVE  EndsWith(w, e + 1, k + 1)
<1>1. ASSUME NEW i \in 1..(k + 1)
      PROVE  w[(e + 1) - (k + 1) + i] = Sync[i]
  <2>1. (e + 1) - (k + 1) + i = e - k + i
    OBVIOUS
  <2>2. CASE i = k + 1
    <3>1. e - k + i = e + 1
      BY <2>2
    <3> QED
      BY <2>1, <2>2, <3>1
  <2>3. CASE i # k + 1
    <3>1. i \in 1..k
      BY <2>3
    <3>2. w[e - k + i] = Sync[i]
      BY <3>1 DEF EndsWith
    <3> QED
      BY <2>1, <3>2
  <2> QED
    BY <2>2, <2>3
<1> QED
  BY <1>1 DEF EndsWith

\* Without its last byte it is the shorter prefix, one byte earlier.
LEMMA MatchShrinks ==
    ASSUME NEW w, NEW e \in Nat, NEW k \in Nat \ {0}, EndsWith(w, e, k)
    PROVE  EndsWith(w, e - 1, k - 1) /\ w[e] = Sync[k]
<1>1. \A i \in 1..k : w[e - k + i] = Sync[i]
  BY DEF EndsWith
<1>2. ASSUME NEW i \in 1..(k - 1)
      PROVE  w[(e - 1) - (k - 1) + i] = Sync[i]
  <2>1. i \in 1..k /\ (e - 1) - (k - 1) + i = e - k + i
    OBVIOUS
  <2> QED
    BY <1>1, <2>1
<1>3. k \in 1..k /\ e - k + k = e
  OBVIOUS
<1>4. w[e - k + k] = Sync[k]
  BY <1>1, <1>3
<1> QED
  BY <1>2, <1>3, <1>4 DEF EndsWith

\* One step of the automaton, where the chain of its state is right: from the longest match at
\* e to the longest match at e + 1.
LEMMA AutomatonStep ==
    ASSUME NEW m \in 0..(Len(Sync) - 1), ChainRight(m),
           NEW w, NEW lo \in Nat, NEW e \in Nat, lo <= e, Longest(w, lo, e, m)
    PROVE  Longest(w, lo, e + 1, NextMatch(m, w[e + 1]))
<1> DEFINE byte == w[e + 1]
           T == {k \in FallbackChain(m) : k = 0 \/ Extends(k, byte)}
           f == Max(T)
<1>1. m \in Nat /\ Len(Sync) \in Nat /\ m < Len(Sync)
  BY PlanShape
<1>2. T \in SUBSET (0..m) /\ T # {}
  BY ChainReachesZero DEF FallbackChain
<1>3. f \in T /\ \A k \in T : k <= f
  <2> HIDE DEF T
  <2> QED
    BY <1>1, <1>2, BoundedMax
<1>4. f \in 0..m
  BY <1>2, <1>3
<1>5. FallbackTo(m, byte) = f
  BY DEF FallbackTo
<1>6. ASSUME NEW k \in 0..m
      PROVE  k \in FallbackChain(m) <=> EndsWith(w, e, k)
  BY <1>1, <1>6, BorderOfMatch DEF ChainRight, Longest
<1>7. ASSUME NEW k \in 0..Len(Sync), k # 0, k <= e + 1 - lo, EndsWith(w, e + 1, k)
      PROVE  k - 1 \in T /\ Extends(k - 1, byte)
  <2>1. k - 1 \in Nat /\ (k - 1) + 1 = k /\ k - 1 \in 0..Len(Sync) /\ k - 1 <= e - lo
    BY <1>1, <1>7
  <2>2. EndsWith(w, e, k - 1) /\ byte = Sync[k]
    <3>1. k \in Nat \ {0} /\ e + 1 \in Nat /\ (e + 1) - 1 = e
      BY <1>1, <1>7
    <3>2. EndsWith(w, (e + 1) - 1, k - 1) /\ w[e + 1] = Sync[k]
      BY <1>7, <3>1, MatchShrinks
    <3> QED
      BY <3>1, <3>2
  <2>3. k - 1 <= m
    BY <2>1, <2>2 DEF Longest
  <2>4. k - 1 \in FallbackChain(m)
    BY <1>1, <1>6, <2>1, <2>2, <2>3
  <2> QED
    BY <2>1, <2>2, <2>4 DEF Extends
<1> HIDE DEF f, T
<1>8. CASE Extends(f, byte)
  <2>1. NextMatch(m, byte) = f + 1
    BY <1>5, <1>8 DEF NextMatch
  <2>2. f \in FallbackChain(m)
    BY <1>3 DEF T
  <2>3. EndsWith(w, e, f)
    BY <1>4, <1>6, <2>2
  <2>4. EndsWith(w, e + 1, f + 1)
    BY <1>4, <1>8, <2>3, MatchGrows DEF Extends
  <2>5. f + 1 <= e + 1 - lo
    BY <1>1, <1>4 DEF Longest
  <2>6. ASSUME NEW k \in 0..Len(Sync), k <= e + 1 - lo, EndsWith(w, e + 1, k)
        PROVE  k <= f + 1
    <3>1. CASE k = 0
      BY <1>4, <3>1
    <3>2. CASE k # 0
      BY <1>3, <1>4, <1>7, <2>6, <3>2
    <3> QED
      BY <3>1, <3>2
  <2> QED
    BY <2>1, <2>4, <2>5, <2>6 DEF Longest
<1>9. CASE ~Extends(f, byte)
  <2>1. f = 0
    BY <1>3, <1>9 DEF T
  <2>2. NextMatch(m, byte) = 0
    BY <1>5, <1>9, <2>1 DEF NextMatch
  <2>3. ASSUME NEW k \in 0..Len(Sync), k <= e + 1 - lo, EndsWith(w, e + 1, k)
        PROVE  k <= 0
    <3>1. CASE k # 0
      <4>1. k - 1 \in T /\ Extends(k - 1, byte)
        BY <1>7, <2>3, <3>1
      <4>2. k - 1 = 0
        BY <1>3, <2>1, <3>1, <4>1
      <4> QED
        BY <1>9, <2>1, <4>1, <4>2
    <3> QED
      BY <3>1
  <2>4. EndsWith(w, e + 1, 0) /\ 0 <= e + 1 - lo
    BY DEF EndsWith
  <2> QED
    BY <2>2, <2>3, <2>4 DEF Longest
<1> QED
  BY <1>8, <1>9

\* The prefix table that the builder accepts describes the borders of the sync bytes.
LEMMA ChainsAreBorders ==
    \A m \in 0..(Len(Sync) - 1) : ChainRight(m)
<1> DEFINE table == framing.sync_prefix_table
           Wrong == {m \in 0..(Len(Sync) - 1) : ~ChainRight(m)}
<1>1. Len(Sync) \in Nat
  BY PlanShape
<1> SUFFICES ASSUME Wrong # {}
             PROVE  FALSE
  OBVIOUS
<1>2. PICK m \in Wrong : \A j \in Wrong : m <= j
  <2>1. Wrong \in SUBSET Nat
    BY <1>1
  <2> HIDE DEF Wrong
  <2> QED
    BY <2>1, LeastElement
<1>3. m \in Nat /\ m < Len(Sync) /\ ~ChainRight(m)
  BY <1>1
<1>4. ASSUME NEW j \in 0..(m - 1)
      PROVE  ChainRight(j)
  BY <1>1, <1>2, <1>3
<1> HIDE DEF Wrong
<1>5. m # 0
  <2>1. 0 \in FallbackChain(0)
    BY DEF FallbackChain
  <2>2. EndsWith(Sync, 0, 0)
    BY DEF EndsWith
  <2>3. ChainRight(0)
    BY <2>1, <2>2 DEF ChainRight
  <2> QED
    BY <1>3, <2>3
<1>6. m \in 1..Len(Sync)
  BY <1>1, <1>3, <1>5
<1>7. table[m] \in 0..(m - 1)
  BY <1>6, PrefixShortens
<1>8. Longest(Sync, 1, m, table[m])
  <2>1. CASE m = 1
    <3>1. table[m] = 0
      BY <1>7, <2>1
    <3>2. Longest(Sync, 1, 1, 0)
      BY <1>1 DEF Longest, EndsWith
    <3> QED
      BY <2>1, <3>1, <3>2
  <2>2. CASE m # 1
    <3> DEFINE d == m - 1
               s == table[d]
    <3>1. d \in 1..Len(Sync) /\ d \in Nat /\ d + 1 = m /\ d \in 0..(m - 1)
      BY <1>1, <1>6, <2>2
    <3>2. s \in 0..(d - 1)
      BY <3>1, PrefixShortens
    <3>3. table[m] = NextMatch(s, Sync[m])
      BY <1>6, <2>2, FramingAccepted DEF PrefixTableAccepted
    <3> HIDE DEF d
    <3>4. ChainRight(d)
      BY <1>4, <3>1
    <3> HIDE DEF s
    <3>5. \A k \in 0..d : k \in FallbackChain(d) <=> k = d \/ k \in FallbackChain(s)
      BY <3>1, ChainUnfolds DEF s
    <3>6. FallbackChain(s) \subseteq 0..s /\ s \in FallbackChain(s)
      BY <3>1, <3>2 DEF FallbackChain
    <3>7. EndsWith(Sync, d, s)
      BY <3>1, <3>2, <3>4, <3>5, <3>6 DEF ChainRight
    <3>8. ASSUME NEW k \in 0..Len(Sync), k <= d - 1, EndsWith(Sync, d, k)
          PROVE  k <= s
      <4>1. k \in 0..d /\ k # d
        BY <1>1, <3>1, <3>8
      <4>2. k \in FallbackChain(s)
        BY <3>4, <3>5, <3>8, <4>1 DEF ChainRight
      <4> QED
        BY <3>1, <3>2, <3>6, <4>2
    <3>9. Longest(Sync, 1, d, s)
      BY <3>1, <3>2, <3>7, <3>8 DEF Longest
    <3>10. s \in 0..(Len(Sync) - 1) /\ ChainRight(s)
      BY <1>1, <1>4, <3>1, <3>2
    <3>11. Longest(Sync, 1, d + 1, NextMatch(s, Sync[d + 1]))
      BY <3>1, <3>9, <3>10, AutomatonStep
    <3> QED
      BY <3>1, <3>3, <3>11
  <2> QED
    BY <2>1, <2>2
<1> DEFINE t == table[m]
<1> HIDE DEF table
<1>9. t \in Nat /\ t < m /\ EndsWith(Sync, m, t) /\ ChainRight(t)
  BY <1>3, <1>4, <1>7, <1>8 DEF Longest
<1>10. \A k \in 0..m : k \in FallbackChain(m) <=> k = m \/ k \in FallbackChain(t)
  BY <1>6, ChainUnfolds DEF table
<1> HIDE DEF t
<1>11. ASSUME NEW k \in 0..m
       PROVE  k \in FallbackChain(m) <=> EndsWith(Sync, m, k)
  <2>1. CASE k = m
    BY <1>3, <1>10, <2>1 DEF EndsWith
  <2>2. CASE k # m /\ k <= t
    <3>1. k \in 0..t
      BY <1>3, <1>9, <2>2
    <3>2. k \in FallbackChain(t) <=> EndsWith(Sync, t, k)
      BY <1>9, <3>1 DEF ChainRight
    <3>3. EndsWith(Sync, m, k) <=> EndsWith(Sync, t, k)
      BY <1>3, <1>9, <3>1, BorderOfMatch
    <3> QED
      BY <1>10, <2>2, <3>2, <3>3
  <2>3. CASE k # m /\ ~(k <= t)
    <3>1. k \notin FallbackChain(t)
      BY <1>3, <1>9, <2>3 DEF FallbackChain
    <3>2. k \in 0..Len(Sync) /\ k <= m - 1
      BY <1>1, <1>3, <2>3
    <3>3. ~EndsWith(Sync, m, k)
      BY <1>8, <2>3, <3>2 DEF Longest, t
    <3> QED
      BY <1>10, <2>3, <3>1, <3>3
  <2> QED
    BY <2>1, <2>2, <2>3
<1>12. ChainRight(m)
  BY <1>11 DEF ChainRight
<1> QED
  BY <1>3, <1>12

-----------------------------------------------------------------------------
(***************************************************************************)
(* Facts about the abstract framer.                                        *)
(***************************************************************************)

\* Both specifications read the same plan.
LEMMA SamePlan ==
    /\ Framed!Sync = Sync /\ Framed!HeaderEnd = HeaderEnd
    /\ Framed!FrameCapacity = FrameCapacity
    /\ Framed!CR = CR /\ Framed!LF = LF
    /\ \A x : Framed!DeclaredLength(x) = DeclaredLength(x)
    /\ \A n : Framed!LengthAccepted(n) <=> LengthAccepted(n)
<1>1. /\ Framed!Sync = Sync /\ Framed!HeaderEnd = HeaderEnd
      /\ Framed!FrameCapacity = FrameCapacity
      /\ Framed!CR = CR /\ Framed!LF = LF
  BY DEF Framed!Sync, Sync, Framed!HeaderEnd, HeaderEnd, Framed!FrameCapacity, FrameCapacity,
         Framed!CR, CR, Framed!LF, LF
<1>2. \A x : Framed!DeclaredLength(x) = DeclaredLength(x)
  BY DEF Framed!DeclaredLength, DeclaredLength, Framed!LengthByte, LengthByte
<1>3. \A n : Framed!LengthAccepted(n) <=> LengthAccepted(n)
  BY <1>1 DEF Framed!LengthAccepted, LengthAccepted
<1> QED
  BY <1>1, <1>2, <1>3

\* t holds s and more.
Holds(t, s) == Len(s) <= Len(t) /\ \A i \in 1..Len(s) : t[i] = s[i]

\* A stream that took a byte holds what it held.
LEMMA StreamGrows ==
    ASSUME NEW s \in Seq(Bytes), NEW b \in Bytes
    PROVE  /\ Append(s, b) \in Seq(Bytes)
           /\ Len(Append(s, b)) = Len(s) + 1
           /\ Len(s) \in Nat
           /\ Append(s, b)[Len(s) + 1] = b
           /\ Holds(Append(s, b), s)
BY DEF Holds

\* What is there stays there when the stream grows.
LEMMA MatchStays ==
    ASSUME NEW s, NEW t, Holds(t, s), Len(s) \in Nat, NEW e \in Nat, e <= Len(s),
           NEW k \in Nat, EndsWith(s, e, k)
    PROVE  EndsWith(t, e, k)
<1>1. ASSUME NEW i \in 1..k
      PROVE  t[e - k + i] = Sync[i]
  <2>1. e - k + i \in 1..Len(s)
    BY DEF EndsWith
  <2> QED
    BY <2>1 DEF EndsWith, Holds
<1> QED
  BY <1>1 DEF EndsWith

\* An offset the sync bytes do not match stays one.
LEMMA MismatchStays ==
    ASSUME NEW s, NEW t, Holds(t, s), Len(s) \in Nat, Len(t) \in Nat, NEW p \in Nat,
           Framed!SyncMismatch(s, p)
    PROVE  Framed!SyncMismatch(t, p)
<1>1. PICK i \in 1..Len(Sync) : p + i <= Len(s) /\ s[p + i] # Sync[i]
  BY SamePlan DEF Framed!SyncMismatch
<1>2. i \in Nat /\ i >= 1
  BY PlanShape
<1>3. p + i \in 1..Len(s) /\ p + i <= Len(t)
  BY <1>1, <1>2 DEF Holds
<1> QED
  BY <1>1, <1>3, SamePlan DEF Framed!SyncMismatch, Holds

\* The sync bytes at p are the sync bytes that end at p + Len(Sync).
LEMMA SyncAtEnd ==
    ASSUME NEW s, Len(s) \in Nat, NEW p \in Nat
    PROVE  Framed!SyncAt(s, p) <=>
             p + Len(Sync) <= Len(s) /\ EndsWith(s, p + Len(Sync), Len(Sync))
<1>1. Len(Sync) \in Nat
  BY PlanShape
<1>2. \A i \in 1..Len(Sync) : p + Len(Sync) - Len(Sync) + i = p + i
  BY <1>1
<1>3. ASSUME p + Len(Sync) <= Len(s)
      PROVE  \A i \in 1..Len(Sync) : p + i <= Len(s)
  BY <1>1, <1>3
<1>4. ASSUME p + Len(Sync) <= Len(s)
      PROVE  Framed!SyncMismatch(s, p) <=> \E i \in 1..Len(Sync) : s[p + i] # Sync[i]
  BY <1>3, <1>4, SamePlan DEF Framed!SyncMismatch
<1>5. EndsWith(s, p + Len(Sync), Len(Sync)) <=> \A i \in 1..Len(Sync) : s[p + i] = Sync[i]
  BY <1>1, <1>2 DEF EndsWith
<1> QED
  BY <1>4, <1>5, SamePlan DEF Framed!SyncAt

\* The length field is read from the header alone.
LEMMA DeclaredSame ==
    ASSUME framing.strategy = "SYNC_LENGTH_FIELD",
           NEW b, NEW c, \A i \in 1..HeaderEnd : b[i] = c[i]
    PROVE  DeclaredLength(b) = DeclaredLength(c)
<1>1. /\ framing.length_field_width \in {1, 2, 4}
      /\ framing.length_field_offset \in Nat
      /\ HeaderEnd = framing.length_field_offset + framing.length_field_width
  BY PlanShape DEF HeaderEnd
<1>2. ASSUME NEW i \in 0..(framing.length_field_width - 1)
      PROVE  LengthByte(b, i) = LengthByte(c, i)
  <2> DEFINE j == IF framing.length_field_byte_order = "LITTLE"
                  THEN framing.length_field_width - 1 - i ELSE i
  <2>1. j \in 0..(framing.length_field_width - 1)
    BY <1>1
  <2> HIDE DEF j
  <2>2. framing.length_field_offset + 1 + j \in 1..HeaderEnd
    BY <1>1, <2>1
  <2>3. b[framing.length_field_offset + 1 + j] = c[framing.length_field_offset + 1 + j]
    BY <2>2
  <2> QED
    BY <2>3 DEF LengthByte, j
<1>3. CASE framing.length_field_width = 1
  <2>1. LengthByte(b, 0) = LengthByte(c, 0)
    BY <1>2, <1>3
  <2> QED
    BY <1>3, <2>1 DEF DeclaredLength
<1>4. CASE framing.length_field_width = 2
  <2>1. LengthByte(b, 0) = LengthByte(c, 0) /\ LengthByte(b, 1) = LengthByte(c, 1)
    BY <1>2, <1>4
  <2> QED
    BY <1>4, <2>1 DEF DeclaredLength
<1>5. CASE framing.length_field_width = 4
  <2>1. /\ LengthByte(b, 0) = LengthByte(c, 0) /\ LengthByte(b, 1) = LengthByte(c, 1)
        /\ LengthByte(b, 2) = LengthByte(c, 2) /\ LengthByte(b, 3) = LengthByte(c, 3)
    BY <1>2, <1>5
  <2> QED
    BY <1>5, <2>1 DEF DeclaredLength
<1> QED
  BY <1>1, <1>3, <1>4, <1>5

\* The search over one byte: the automaton holds the longest prefix at the end, and no frame
\* starts at the offsets that the prefix leaves behind.
LEMMA SearchSlides ==
    ASSUME NEW w, Len(w) \in Nat, NEW e \in Nat, e + 1 <= Len(w),
           NEW m \in 0..(Len(Sync) - 1), EndsWith(w, e, m)
    PROVE  LET r == NextMatch(m, w[e + 1])
           IN /\ r \in 0..(m + 1)
              /\ EndsWith(w, e + 1, r)
              /\ \A p \in (e - m)..(e - r) : Framed!SyncMismatch(w, p)
<1> DEFINE r == NextMatch(m, w[e + 1])
           lo == e - m
<1>1. m \in Nat /\ Len(Sync) \in Nat /\ m < Len(Sync) /\ m <= e
  BY PlanShape DEF EndsWith
<1>2. r \in 0..(m + 1)
  BY MatchStep
<1>3. lo \in Nat /\ lo <= e /\ e - lo = m
  BY <1>1
<1>4. ChainRight(m)
  BY ChainsAreBorders
<1> HIDE DEF r, lo
<1>5. Longest(w, lo, e, m)
  BY <1>1, <1>3 DEF Longest
<1>6. Longest(w, lo, e + 1, r)
  BY <1>3, <1>4, <1>5, AutomatonStep DEF r
<1>7. ASSUME NEW p \in lo..(e - r)
      PROVE  Framed!SyncMismatch(w, p)
  <2> DEFINE g == e + 1
             k == g - p
  <2>1. /\ g \in Nat /\ g <= Len(w) /\ p \in Nat
        /\ k \in 0..Len(Sync) /\ k \in Nat /\ k <= g - lo /\ ~(k <= r)
        /\ k <= g /\ \A i \in 1..k : g - k + i = p + i
    BY <1>1, <1>2, <1>3
  <2>2. p + k = g
    BY <1>3
  <2>3. Longest(w, lo, g, r)
    BY <1>6
  <2> HIDE DEF g, k
  <2>4. ~EndsWith(w, g, k)
    BY <2>1, <2>3 DEF Longest
  <2>5. PICK i \in 1..k : w[g - k + i] # Sync[i]
    BY <2>1, <2>4 DEF EndsWith
  <2>6. i \in 1..Len(Sync) /\ p + i <= Len(w)
    BY <1>1, <2>1, <2>2
  <2> QED
    BY <2>1, <2>6, <2>5, SamePlan DEF Framed!SyncMismatch
<1>8. EndsWith(w, e + 1, r)
  BY <1>6 DEF Longest
<1> QED
  BY <1>2, <1>7, <1>8 DEF r, lo

\* The record that starts at r is not finished yet.
RecordOpen(s, from, r) ==
    /\ r \in from..Len(s)
    /\ r = from \/ Framed!TerminatorEndsAt(s, from, r)
    /\ \A e \in (r + 1)..Len(s) : ~Framed!TerminatorEndsAt(s, from, e)

\* It is the record of every offset behind its start.
LEMMA RecordOfOffset ==
    ASSUME NEW s, Len(s) \in Nat, NEW from \in Nat, NEW r, RecordOpen(s, from, r),
           NEW p \in r..Len(s)
    PROVE  Framed!RecordStart(s, from, p) = r
<1> DEFINE M == {from} \cup {e \in from..p : Framed!TerminatorEndsAt(s, from, e)}
<1>1. r \in Nat /\ from <= r /\ r <= p /\ p <= Len(s) /\ p \in Nat
  BY DEF RecordOpen
<1>2. r \in M
  BY <1>1 DEF RecordOpen
<1>3. ASSUME NEW e \in M
      PROVE  e \in Nat /\ r >= e
  <2>1. CASE e = from
    BY <1>1, <2>1
  <2>2. CASE e \in from..p /\ Framed!TerminatorEndsAt(s, from, e)
    <3>1. e \in Nat /\ e <= Len(s)
      BY <1>1, <2>2
    <3>2. e \notin (r + 1)..Len(s)
      BY <2>2 DEF RecordOpen
    <3> QED
      BY <1>1, <3>1, <3>2
  <2> QED
    BY <2>1, <2>2
<1> HIDE DEF M
<1>4. \E x \in M : \A y \in M : x >= y
  BY <1>2, <1>3
<1>5. Framed!Max(M) \in M /\ \A y \in M : Framed!Max(M) >= y
  BY <1>4 DEF Framed!Max
<1>6. Framed!Max(M) = r
  <2> DEFINE x == Framed!Max(M)
  <2>1. x \in Nat /\ r >= x /\ x >= r
    BY <1>2, <1>3, <1>5
  <2> HIDE DEF x
  <2>2. x = r
    BY <1>1, <2>1
  <2> QED
    BY <2>2 DEF x
<1> QED
  BY <1>6 DEF Framed!RecordStart, M

\* Terminators do not depend on bytes behind them.
LEMMA TerminatorStays ==
    ASSUME NEW s, NEW t, Holds(t, s), Len(s) \in Nat, Len(t) \in Nat, NEW from \in Nat,
           NEW e \in 0..Len(s)
    PROVE  Framed!TerminatorEndsAt(t, from, e) <=> Framed!TerminatorEndsAt(s, from, e)
<1>1. CASE e - 2 >= from
  <2>1. e - 1 \in 1..Len(s) /\ e \in 1..Len(s) /\ e <= Len(t)
    BY <1>1 DEF Holds
  <2>2. t[e - 1] = s[e - 1] /\ t[e] = s[e]
    BY <2>1 DEF Holds
  <2> QED
    BY <2>1, <2>2 DEF Framed!TerminatorEndsAt
<1>2. CASE ~(e - 2 >= from)
  BY <1>2 DEF Framed!TerminatorEndsAt
<1> QED
  BY <1>1, <1>2

\* The record of an offset is the same in a longer stream.
LEMMA RecordStartStays ==
    ASSUME NEW s, NEW t, Holds(t, s), Len(s) \in Nat, Len(t) \in Nat, NEW from \in Nat,
           NEW p \in 0..Len(s)
    PROVE  Framed!RecordStart(t, from, p) = Framed!RecordStart(s, from, p)
<1> DEFINE M(w) == {from} \cup {e \in from..p : Framed!TerminatorEndsAt(w, from, e)}
<1>1. \A e \in from..p : Framed!TerminatorEndsAt(t, from, e) <=> Framed!TerminatorEndsAt(s, from, e)
  <2> TAKE e \in from..p
  <2>1. e \in 0..Len(s)
    OBVIOUS
  <2> QED
    BY <2>1, TerminatorStays
<1>2. M(t) = M(s)
  BY <1>1
<1> QED
  BY <1>2 DEF Framed!RecordStart

\* A terminator of the record is one of the stream.
LEMMA TerminatorOfStream ==
    ASSUME NEW s, Len(s) \in Nat, NEW from \in Nat, NEW r \in Nat, from <= r, NEW e \in Nat,
           Framed!TerminatorEndsAt(s, r, e)
    PROVE  Framed!TerminatorEndsAt(s, from, e) /\ e > r /\ e <= Len(s)
BY DEF Framed!TerminatorEndsAt

\* An open record has no terminator of its own.
LEMMA RecordHasNone ==
    ASSUME NEW s, Len(s) \in Nat, NEW from \in Nat, NEW r, RecordOpen(s, from, r), NEW e \in Nat
    PROVE  ~Framed!TerminatorEndsAt(s, r, e)
<1>1. r \in Nat /\ from <= r
  BY DEF RecordOpen
<1> SUFFICES ASSUME Framed!TerminatorEndsAt(s, r, e)
             PROVE  FALSE
  OBVIOUS
<1>2. Framed!TerminatorEndsAt(s, from, e) /\ e > r /\ e <= Len(s)
  BY <1>1, TerminatorOfStream
<1>3. e \in (r + 1)..Len(s)
  BY <1>1, <1>2
<1> QED
  BY <1>2, <1>3 DEF RecordOpen

\* A byte is the end of an open record exactly if it is an LF behind a CR of that record.
LEMMA RecordEnd ==
    ASSUME NEW s \in Seq(Bytes), NEW b \in Bytes, NEW from \in Nat, NEW r,
           RecordOpen(s, from, r)
    PROVE  LET t == Append(s, b)
               ended == Len(s) > r /\ s[Len(s)] = CR /\ b = LF
           IN /\ Framed!TerminatorEndsAt(t, from, Len(s) + 1) <=> ended
              /\ Framed!TerminatorEndsAt(t, r, Len(s) + 1) <=> ended
              /\ ~ended => RecordOpen(t, from, r)
              /\ ended => RecordOpen(t, from, Len(s) + 1)
<1> DEFINE t == Append(s, b)
           n == Len(s)
           ended == n > r /\ s[n] = CR /\ b = LF
<1>1. n \in Nat /\ Len(t) = n + 1 /\ t[n + 1] = b /\ Holds(t, s)
  BY StreamGrows
<1>2. r \in Nat /\ from <= r /\ r <= n
  BY <1>1 DEF RecordOpen
<1>3. n > 0 => t[n] = s[n]
  BY <1>1 DEF Holds
<1> HIDE DEF n, t
<1>4. Framed!TerminatorEndsAt(t, r, n + 1) <=> ended
  <2>1. (n + 1) - 2 >= r <=> n > r
    BY <1>1, <1>2
  <2>2. (n + 1) - 1 = n /\ n + 1 <= Len(t)
    BY <1>1
  <2>3. Framed!TerminatorEndsAt(t, r, n + 1) <=> n > r /\ t[n] = CR /\ b = LF
    BY <1>1, <2>1, <2>2, SamePlan DEF Framed!TerminatorEndsAt
  <2> QED
    BY <1>1, <1>2, <1>3, <2>3
<1>5. Framed!TerminatorEndsAt(t, from, n + 1) <=> ended
  <2>1. ASSUME Framed!TerminatorEndsAt(t, from, n + 1)
        PROVE  ended
    <3>1. n > from /\ t[n] = CR /\ b = LF
      <4>1. (n + 1) - 2 >= from /\ (n + 1) - 1 = n
        BY <1>1, <2>1 DEF Framed!TerminatorEndsAt
      <4> QED
        BY <1>1, <2>1, <4>1, SamePlan DEF Framed!TerminatorEndsAt
    <3>2. CASE r = n
      <4>1. Framed!TerminatorEndsAt(s, from, n)
        BY <1>2, <3>1, <3>2 DEF RecordOpen
      <4>2. s[n] = LF
        BY <4>1, SamePlan DEF Framed!TerminatorEndsAt
      <4> QED
        BY <1>1, <1>3, <3>1, <4>2 DEF CR, LF
    <3>3. CASE r # n
      BY <1>1, <1>2, <1>3, <3>1, <3>3
    <3> QED
      BY <3>2, <3>3
  <2>2. ASSUME ended
        PROVE  Framed!TerminatorEndsAt(t, from, n + 1)
    BY <1>1, <1>2, <1>4, <2>2, TerminatorOfStream
  <2> QED
    BY <2>1, <2>2
<1>6. \A e \in 0..n : Framed!TerminatorEndsAt(t, from, e) <=> Framed!TerminatorEndsAt(s, from, e)
  <2>1. Len(s) = n /\ Len(s) \in Nat /\ Len(t) \in Nat
    BY <1>1 DEF n
  <2> QED
    BY <1>1, <2>1, TerminatorStays
<1>7. ASSUME ~ended
      PROVE  RecordOpen(t, from, r)
  <2>1. r \in from..Len(t)
    BY <1>1, <1>2
  <2>2. r = from \/ Framed!TerminatorEndsAt(t, from, r)
    <3>1. r \in 0..n
      BY <1>1, <1>2
    <3> QED
      BY <1>6, <3>1 DEF RecordOpen
  <2>3. ASSUME NEW e \in (r + 1)..Len(t)
        PROVE  ~Framed!TerminatorEndsAt(t, from, e)
    <3>1. CASE e = n + 1
      BY <1>5, <1>7, <3>1
    <3>2. CASE e # n + 1
      <4>1. e \in 0..n /\ e \in (r + 1)..n
        BY <1>1, <1>2, <3>2
      <4> QED
        BY <1>6, <4>1 DEF RecordOpen, n
    <3> QED
      BY <3>1, <3>2
  <2> QED
    BY <2>1, <2>2, <2>3 DEF RecordOpen
<1>8. ASSUME ended
      PROVE  RecordOpen(t, from, n + 1)
  <2>1. n + 1 \in from..Len(t) /\ (n + 1 + 1)..Len(t) = {}
    BY <1>1, <1>2
  <2> QED
    BY <1>5, <1>8, <2>1 DEF RecordOpen
<1> QED
  BY <1>4, <1>5, <1>7, <1>8 DEF n, t

-----------------------------------------------------------------------------
(***************************************************************************)
(* What the workspace says about the stream, state by state.               *)
(***************************************************************************)

\* The buffer holds the retained bytes.
HeldBytes == \A i \in 1..Len(buffer) : buffer[i] = stream[Cut + i]

\* The target is the length of the frame whose front is buffered.
TargetRight ==
    /\ framing.strategy = "SYNC_FIXED_LENGTH" => progress.target_size = framing.frame_length_bytes
    /\ framing.strategy = "SYNC_LENGTH_FIELD" =>
         /\ HeaderEnd <= Len(buffer)
         /\ progress.target_size = DeclaredLength(buffer)
         /\ LengthAccepted(progress.target_size)

\* The frame at Cut was refused; behind it nothing starts before the match of the rescan.
Rescanning ==
    /\ HeldBytes /\ Framed!BadLengthAt(stream, Cut)
    /\ EndsWith(stream, Cut + progress.rescan_index, progress.rescan_match)
    /\ \A p \in (Cut + 1)..(Cut + progress.rescan_index - progress.rescan_match - 1) :
         Framed!SyncMismatch(stream, p)

\* The next candidate was found at compact_start, and its front is where it will be.
Compacting ==
    LET start == progress.compact_start IN
    /\ start >= 1 /\ Framed!BadLengthAt(stream, Cut)
    /\ \A p \in (Cut + 1)..(Cut + start - 1) : Framed!SyncMismatch(stream, p)
    /\ Framed!SyncAt(stream, Cut + start)
    /\ \A i \in 1..Len(buffer) :
         buffer[i] = IF i <= progress.compact_moved THEN stream[Cut + start + i] ELSE stream[Cut + i]

\* A record longer than the buffer goes on.
Skipping ==
    \E r \in Nat :
        /\ RecordOpen(stream, base, r)
        /\ r + FrameCapacity <= Len(stream)
        /\ progress.previous_was_cr <=> stream[Len(stream)] = CR

\* The sync bytes were read, and as many as are buffered were copied.
Copying ==
    /\ EndsWith(stream, Len(stream), Len(Sync))
    /\ \A i \in 1..Len(buffer) : buffer[i] = Sync[i]

\* What is buffered is the frame at the cut.
Waiting ==
    /\ HeldBytes /\ Framed!IsFrame(stream, base, Cut, Len(buffer))
    /\ framing.strategy = "ASCII_CRLF" => base <= Cut

\* In every state of the loop the workspace agrees with the stream it read.
StreamInv ==
    /\ state = "COLLECT_FIXED" => HeldBytes
    /\ state = "SEARCH_SYNC" => EndsWith(stream, Len(stream), progress.sync_match)
    /\ state = "COPY_SYNC" => Copying
    /\ state = "READ_LENGTH" => HeldBytes /\ Framed!SyncAt(stream, Cut)
    /\ state = "COLLECT_DECLARED" => HeldBytes /\ Framed!SyncAt(stream, Cut) /\ TargetRight
    /\ state = "RESCAN_INVALID" => Rescanning
    /\ state = "COMPACT_INVALID" => Compacting
    /\ state = "DELIVER_PENDING" => Waiting
    /\ state = "COLLECT_ASCII" => HeldBytes /\ RecordOpen(stream, base, Cut)
    /\ state = "DISCARD_UNTIL_CRLF" => Skipping

-----------------------------------------------------------------------------
(***************************************************************************)
(* Steps of the abstract framer.                                           *)
(***************************************************************************)

\* The cut is an offset of the stream.
LEMMA CutInStream ==
    ASSUME IInv
    PROVE  /\ stream \in Seq(Bytes) /\ Len(stream) \in Nat /\ base \in Nat /\ base <= Len(stream)
           /\ Retained \in Nat /\ Cut \in Nat /\ Cut + Retained = Len(stream)
<1>1. /\ stream \in Seq(Bytes) /\ Len(stream) \in Nat /\ base \in 0..Len(stream)
      /\ delivered \in Nat /\ total_discarded \in Nat /\ dropped \in Nat
      /\ progress \in ProgressType /\ buffer \in Seq(Octet) /\ Len(buffer) \in Nat
  BY DEF IInv, TypeOK
<1>2. progress.sync_match \in Nat /\ Len(Sync) \in Nat
  BY <1>1, Ranges DEF ProgressType
<1>3. Retained \in Nat
  BY <1>1, <1>2 DEF Retained
<1>4. Len(stream) = delivered + total_discarded + dropped + Retained
  BY DEF IInv, ByteAccounting
<1> DEFINE n == Len(stream)
           k == Retained
<1> HIDE DEF n, k
<1>5. n - k \in Nat /\ (n - k) + k = n
  BY <1>1, <1>3, <1>4 DEF n, k
<1> QED
  BY <1>1, <1>3, <1>5 DEF Cut, n, k

\* A step that leaves stream and cut alone is no step of the abstract framer.
LEMMA StandsStill ==
    ASSUME stream' = stream, base' = base, frames' = frames, Cut' = Cut
    PROVE  [Framed!Next]_Framed!vars
BY DEF Framed!vars

\* A step that accepts at most one byte and moves the cut over hopeless offsets.
LEMMA Advances ==
    ASSUME stream' = stream \/ \E b \in Bytes : stream' = Append(stream, b),
           base' = base, frames' = frames, Cut \in Nat, Len(stream') \in Nat,
           Cut' \in Nat, Cut <= Cut', Cut' <= Len(stream'),
           \A p \in Cut..(Cut' - 1) : Framed!Hopeless(stream', base, p)
    PROVE  [Framed!Next]_Framed!vars
<1>1. Cut' \in Cut..Len(stream')
  OBVIOUS
<1>2. Framed!Advance
  BY <1>1 DEF Framed!Advance
<1> QED
  BY <1>2 DEF Framed!Next

\* Steps that leave the workspace and the stream alone.
LEMMA WorkspaceKept ==
    ASSUME StreamInv, UNCHANGED <<workspaceVars, historyVars>>
    PROVE  StreamInv' /\ [Framed!Next]_Framed!vars
<1>1. /\ state' = state /\ buffer' = buffer /\ progress' = progress
      /\ stream' = stream /\ base' = base /\ frames' = frames
  BY DEF workspaceVars, historyVars
<1>2. Cut' = Cut
  BY <1>1 DEF Cut, Retained
<1>3. HeldBytes' <=> HeldBytes
  BY <1>1, <1>2 DEF HeldBytes
<1>4. TargetRight' <=> TargetRight
  BY <1>1 DEF TargetRight
<1>5. Rescanning' <=> Rescanning
  BY <1>1, <1>2, <1>3 DEF Rescanning
<1>6. Compacting' <=> Compacting
  BY <1>1, <1>2 DEF Compacting
<1>7. Skipping' <=> Skipping
  BY <1>1 DEF Skipping
<1>8. Copying' <=> Copying
  BY <1>1 DEF Copying
<1>9. Waiting' <=> Waiting
  BY <1>1, <1>2, <1>3 DEF Waiting
<1>10. StreamInv'
  BY <1>1, <1>2, <1>3, <1>4, <1>5, <1>6, <1>7, <1>8, <1>9 DEF StreamInv
<1> QED
  BY <1>1, <1>2, <1>10, StandsStill

\* A running call that has not used up its input takes the next byte of it.
LEMMA ByteTaken ==
    ASSUME IInv, in_push, ~InputExhausted, ConsumeByte
    PROVE  /\ Head(input) \in Bytes
           /\ stream' = Append(stream, Head(input))
           /\ stream' \in Seq(Bytes) /\ Len(stream') = Len(stream) + 1
           /\ stream'[Len(stream) + 1] = Head(input)
           /\ Holds(stream', stream)
           /\ base' = base /\ frames' = frames
<1>1. /\ result \in ResultType /\ input \in Seq(Bytes) /\ stream \in Seq(Bytes)
      /\ OfferHeld
  BY DEF IInv, TypeOK
<1>2. result.bytes_consumed \in Nat /\ result.offered \in Nat
  BY <1>1 DEF ResultType
<1>3. Len(input) \in Nat /\ input # << >>
  BY <1>1, <1>2 DEF OfferHeld, InputExhausted
<1>4. Head(input) \in Bytes
  BY <1>1, <1>3
<1> QED
  BY <1>1, <1>4, StreamGrows DEF ConsumeByte

\* A new candidate starts behind everything consumed.
LEMMA CandidateFrames ==
    ASSUME ResetCandidate, stream' \in Seq(Bytes),
           framing.strategy = "ASCII_CRLF" => RecordOpen(stream', base', Len(stream'))
    PROVE  StreamInv' /\ Cut' = Len(stream')
<1>1. state' = InitialState /\ buffer' = << >> /\ progress' = NoProgress
  BY DEF ResetCandidate
<1>2. Len(stream') \in Nat /\ Len(buffer') = 0 /\ progress'.sync_match = 0
  BY <1>1 DEF NoProgress
<1>3. Cut' = Len(stream')
  BY <1>2, CandidateReset DEF Cut
<1>4. HeldBytes'
  BY <1>2 DEF HeldBytes
<1>5. EndsWith(stream', Len(stream'), progress'.sync_match)
  BY <1>2 DEF EndsWith
<1>6. CASE framing.strategy = "FIXED_LENGTH"
  BY <1>1, <1>3, <1>4, <1>6 DEF StreamInv, InitialState
<1>7. CASE framing.strategy = "ASCII_CRLF"
  BY <1>1, <1>3, <1>4, <1>7 DEF StreamInv, InitialState
<1>8. CASE framing.strategy \in {"SYNC_FIXED_LENGTH", "SYNC_LENGTH_FIELD"}
  BY <1>1, <1>3, <1>5, <1>8 DEF StreamInv, InitialState
<1> QED
  BY <1>3, <1>6, <1>7, <1>8, PlanShape DEF FramingStrategy

-----------------------------------------------------------------------------
(***************************************************************************)
(* Every action keeps StreamInv and is a step the abstract framer may take *)
(* or none.                                                                *)
(***************************************************************************)

\* A window of the stream holds its bytes.
LEMMA WindowBytes ==
    ASSUME NEW s \in Seq(Bytes), NEW c \in Nat, NEW k \in Nat, c + k <= Len(s)
    PROVE  /\ SubSeq(s, c + 1, c + k) \in Seq(Bytes)
           /\ Len(SubSeq(s, c + 1, c + k)) = k
           /\ \A i \in 1..k : SubSeq(s, c + 1, c + k)[i] = s[c + i]
<1> DEFINE a == c + 1
           z == c + k
           w == SubSeq(s, a, z)
<1>1. a \in Int /\ z \in Int /\ z - a + 1 = k /\ (a <= z \/ k = 0)
  OBVIOUS
<1>2. \A i \in a..z : s[i] \in Bytes
  <2> TAKE i \in a..z
  <2>1. i \in 1..Len(s)
    OBVIOUS
  <2> QED
    BY <2>1, ElementOfSeq
<1>3. /\ w \in Seq(Bytes) /\ Len(w) = IF a <= z THEN z - a + 1 ELSE 0
      /\ \A i \in 1..(z - a + 1) : w[i] = s[a + i - 1]
  <2> HIDE DEF a, z
  <2> QED
    BY <1>1, <1>2, SubSeqProperties
<1>4. \A i \in 1..k : a + i - 1 = c + i
  OBVIOUS
<1>5. Len(w) = k
  <2>1. a <= z \/ (k = 0 /\ ~(a <= z))
    OBVIOUS
  <2> HIDE DEF w
  <2> QED
    BY <1>1, <1>3, <2>1
<1> HIDE DEF w
<1>6. \A i \in 1..k : w[i] = s[c + i]
  BY <1>1, <1>3, <1>4
<1> QED
  BY <1>3, <1>5, <1>6 DEF w

\* A delivery emits the frame at the cut.
LEMMA DeliverPendingFrames ==
    ASSUME IInv, StreamInv, DeliverPending
    PROVE  StreamInv' /\ [Framed!Next]_Framed!vars
<1> DEFINE n == Len(buffer)
<1>1. /\ state = "DELIVER_PENDING" /\ ResetCandidate
      /\ frames' = Append(frames, [from |-> Len(stream) - Len(buffer), bytes |-> buffer])
      /\ stream' = stream /\ base' = base
  BY DEF DeliverPending, Turn
<1>2. /\ stream \in Seq(Bytes) /\ Len(stream) \in Nat /\ base \in Nat /\ base <= Len(stream)
      /\ Cut \in Nat /\ Cut + Retained = Len(stream)
  BY CutInStream
<1>3. buffer \in Seq(Octet) /\ n \in Nat /\ n <= FrameCapacity
  BY DEF IInv, TypeOK
<1>4. Retained = n /\ Cut = Len(stream) - n
  BY <1>1 DEF Retained, Cut
<1>5. HeldBytes /\ Framed!IsFrame(stream, base, Cut, n)
      /\ (framing.strategy = "ASCII_CRLF" => base <= Cut)
  BY <1>1 DEF StreamInv, Waiting
<1>6. n \in 1..FrameCapacity
  <2>1. CASE framing.strategy = "FIXED_LENGTH"
    BY <1>3, <1>5, <2>1, PlanShape DEF Framed!IsFrame
  <2>2. CASE framing.strategy = "SYNC_FIXED_LENGTH"
    BY <1>3, <1>5, <2>2, PlanShape DEF Framed!IsFrame
  <2>3. CASE framing.strategy = "SYNC_LENGTH_FIELD"
    <3>1. n >= HeaderEnd /\ HeaderEnd > 0
      BY <1>5, <2>3, PlanShape, SamePlan DEF Framed!IsFrame
    <3> QED
      BY <1>3, <3>1, PlanShape
  <2>4. CASE framing.strategy = "ASCII_CRLF"
    <3>1. Framed!TerminatorEndsAt(stream, Cut, Cut + n)
      BY <1>5, <2>4 DEF Framed!IsFrame
    <3>2. Cut + n - 2 >= Cut
      BY <1>2, <1>3, <3>1 DEF Framed!TerminatorEndsAt
    <3> QED
      BY <1>2, <1>3, <3>2, PlanShape
  <2> QED
    BY <2>1, <2>2, <2>3, <2>4, PlanShape DEF FramingStrategy
<1>7. Framed!Window(stream, Cut, n) = buffer
  <2>1. Framed!Window(stream, Cut, n) = SubSeq(stream, Cut + 1, Cut + n)
    BY DEF Framed!Window
  <2>2. Cut + n <= Len(stream)
    BY <1>2, <1>4
  <2> DEFINE c == Cut
             window == SubSeq(stream, c + 1, c + n)
  <2> HIDE DEF n, c
  <2>3. Len(window) = n /\ window \in Seq(Bytes) /\ \A i \in 1..n : window[i] = stream[c + i]
    BY <1>2, <1>3, <2>2, WindowBytes DEF c
  <2>4. \A i \in 1..n : buffer[i] = window[i]
    BY <1>5, <2>3 DEF HeldBytes, n, c
  <2>5. Len(buffer) = n
    BY DEF n
  <2> HIDE DEF window
  <2>6. window = buffer
    BY <1>3, <2>3, <2>4, <2>5, SeqEqual
  <2> QED
    BY <2>1, <2>6 DEF window, c
<1>8. framing.strategy = "ASCII_CRLF" => RecordOpen(stream', base', Len(stream'))
  <2> SUFFICES ASSUME framing.strategy = "ASCII_CRLF"
               PROVE  RecordOpen(stream, base, Len(stream))
    BY <1>1
  <2>1. Framed!TerminatorEndsAt(stream, Cut, Cut + n) /\ Cut + n = Len(stream)
    BY <1>2, <1>4, <1>5 DEF Framed!IsFrame
  <2>2. Framed!TerminatorEndsAt(stream, base, Len(stream))
    BY <1>2, <1>5, <2>1, TerminatorOfStream
  <2> QED
    BY <1>2, <2>2 DEF RecordOpen
<1>9. StreamInv' /\ Cut' = Len(stream)
  BY <1>1, <1>2, <1>8, CandidateFrames
<1>10. Cut' = Cut + n
  BY <1>2, <1>4, <1>9
<1>11. Framed!Emit
  BY <1>1, <1>4, <1>5, <1>6, <1>7, <1>10, SamePlan DEF Framed!Emit
<1> QED
  BY <1>9, <1>11 DEF Framed!Next

\* A record byte continues the record, ends it, or makes it too long.
LEMMA CollectAsciiFrames ==
    ASSUME IInv, StreamInv, CollectAscii
    PROVE  StreamInv' /\ [Framed!Next]_Framed!vars
<1> DEFINE byte == Head(input)
           record == Append(buffer, byte)
           terminated == buffer # << >> /\ buffer[Len(buffer)] = CR /\ byte = LF
           tooLong == ~terminated /\ Len(record) = FrameCapacity
           n == Len(stream)
           r == Cut
<1>1. /\ state = "COLLECT_ASCII" /\ in_push /\ ~InputExhausted
      /\ framing.strategy = "ASCII_CRLF"
      /\ buffer \in Seq(Octet) /\ Len(buffer) \in Nat /\ Len(buffer) < FrameCapacity
      /\ FrameCapacity \in Nat /\ FrameCapacity >= 2
  BY PlanShape DEF CollectAscii, Turn, NeedsByte, IInv, TypeOK, CandidateShape
<1>2. /\ state' = IF terminated THEN "DELIVER_PENDING"
                  ELSE IF tooLong THEN "DISCARD_UNTIL_CRLF" ELSE state
      /\ buffer' = IF tooLong THEN << >> ELSE record
      /\ progress' = IF tooLong THEN [progress EXCEPT !.previous_was_cr = (byte = CR)]
                     ELSE progress
      /\ ConsumeByte
  <2>1. ~(Len(buffer) >= FrameCapacity)
    BY <1>1
  <2> QED
    BY <2>1 DEF CollectAscii
<1>3. /\ byte \in Bytes /\ stream' = Append(stream, byte) /\ stream' \in Seq(Bytes)
      /\ Len(stream') = n + 1 /\ stream'[n + 1] = byte
      /\ Holds(stream', stream) /\ base' = base /\ frames' = frames
  BY <1>1, <1>2, ByteTaken
<1>4. /\ stream \in Seq(Bytes) /\ n \in Nat /\ base \in Nat /\ base <= n
      /\ r \in Nat /\ r + Len(buffer) = n
  BY <1>1, CutInStream DEF Retained
<1>5. HeldBytes /\ RecordOpen(stream, base, r)
  BY <1>1 DEF StreamInv
<1>6. base <= r
  BY <1>4, <1>5 DEF RecordOpen
<1>7. byte \in Octet /\ Len(record) = Len(buffer) + 1 /\ record \in Seq(Octet)
  BY <1>1, <1>3, BytesAssumption
<1>8. \A i \in 1..(Len(buffer) + 1) : record[i] = stream'[r + i]
  <2> TAKE i \in 1..(Len(buffer) + 1)
  <2>1. CASE i = Len(buffer) + 1
    <3>1. record[i] = byte /\ r + i = n + 1
      BY <1>1, <1>4, <1>7, <2>1
    <3> QED
      BY <1>3, <3>1
  <2>2. CASE i # Len(buffer) + 1
    <3>1. i \in 1..Len(buffer) /\ r + i \in 1..n
      BY <1>1, <1>4, <2>2
    <3>2. record[i] = buffer[i]
      BY <1>1, <1>7, <3>1
    <3>3. stream'[r + i] = stream[r + i]
      BY <1>3, <3>1 DEF Holds
    <3> QED
      BY <1>5, <3>1, <3>2, <3>3 DEF HeldBytes
  <2> QED
    BY <2>1, <2>2
<1>9. terminated <=> n > r /\ stream[n] = CR /\ byte = LF
  <2>1. buffer # << >> <=> n > r
    BY <1>1, <1>4
  <2>2. ASSUME n > r
        PROVE  buffer[Len(buffer)] = stream[n]
    <3>1. Len(buffer) \in 1..Len(buffer) /\ r + Len(buffer) = n
      BY <1>1, <1>4, <2>2
    <3> QED
      BY <1>5, <3>1 DEF HeldBytes
  <2> QED
    BY <2>1, <2>2
<1> HIDE DEF byte, record, terminated
<1>10. /\ Framed!TerminatorEndsAt(stream', r, n + 1) <=> terminated
       /\ ~terminated => RecordOpen(stream', base, r)
  BY <1>3, <1>4, <1>5, <1>9, RecordEnd
<1>11. \A e \in Nat : e <= n => ~Framed!TerminatorEndsAt(stream', r, e)
  <2> SUFFICES ASSUME NEW e \in Nat, e <= n
               PROVE  ~Framed!TerminatorEndsAt(stream', r, e)
    OBVIOUS
  <2>1. ~Framed!TerminatorEndsAt(stream, r, e)
    BY <1>4, <1>5, RecordHasNone
  <2>2. e \in 0..n /\ Len(stream') \in Nat
    BY <1>3, <1>4
  <2> QED
    BY <1>3, <1>4, <2>1, <2>2, TerminatorStays
<1>12. CASE terminated
  <2>1. state' = "DELIVER_PENDING" /\ buffer' = record
    BY <1>2, <1>12
  <2>2. Retained' = Len(buffer) + 1
    BY <1>7, <2>1 DEF Retained
  <2>3. Cut' = r
    <3>1. Cut' = (n + 1) - (Len(buffer) + 1)
      BY <1>3, <2>2 DEF Cut
    <3> QED
      BY <1>1, <1>4, <3>1
  <2>4. HeldBytes'
    <3>1. Len(buffer') = Len(buffer) + 1
      BY <1>7, <2>1
    <3> QED
      BY <1>8, <2>1, <2>3, <3>1 DEF HeldBytes
  <2>5. Framed!IsFrame(stream', base, r, Len(buffer) + 1)
    <3>1. Framed!RecordStart(stream', base, r) = r
      <4>1. r \in r..n /\ r \in 0..n /\ Len(stream') \in Nat
        BY <1>1, <1>3, <1>4
      <4>2. Framed!RecordStart(stream, base, r) = r
        BY <1>4, <1>5, <4>1, RecordOfOffset
      <4> QED
        BY <1>3, <1>4, <4>1, <4>2, RecordStartStays
    <3>2. Len(buffer) + 1 <= FrameCapacity /\ r + (Len(buffer) + 1) = n + 1
      BY <1>1, <1>4
    <3>3. Framed!TerminatorEndsAt(stream', r, r + (Len(buffer) + 1))
      BY <1>10, <1>12, <3>2
    <3>4. \A e \in r..(r + (Len(buffer) + 1) - 1) : ~Framed!TerminatorEndsAt(stream', r, e)
      <4> TAKE e \in r..(r + (Len(buffer) + 1) - 1)
      <4>1. e \in Nat /\ e <= n
        BY <1>1, <1>4
      <4> QED
        BY <1>11, <4>1
    <3>5. r + (Len(buffer) + 1) <= Len(stream')
      BY <1>3, <3>2
    <3> QED
      BY <1>1, <3>1, <3>2, <3>3, <3>4, <3>5, SamePlan DEF Framed!IsFrame
  <2>6. StreamInv'
    <3>1. Len(buffer') = Len(buffer) + 1
      BY <1>7, <2>1
    <3>2. Waiting'
      BY <1>3, <1>6, <2>3, <2>4, <2>5, <3>1 DEF Waiting
    <3> QED
      BY <2>1, <3>2 DEF StreamInv
  <2>7. [Framed!Next]_Framed!vars
    <3>1. Cut \in Nat /\ Cut' = Cut /\ Len(stream') \in Nat /\ Cut' <= Len(stream')
      BY <1>1, <1>3, <1>4, <2>3
    <3>2. Cut..(Cut' - 1) = {}
      BY <3>1
    <3> HIDE DEF r
    <3> QED
      BY <1>3, <3>1, <3>2, Advances
  <2> QED
    BY <2>6, <2>7
<1>13. CASE ~terminated /\ ~tooLong
  <2>1. state' = "COLLECT_ASCII" /\ buffer' = record
    BY <1>1, <1>2, <1>13
  <2>2. Retained' = Len(buffer) + 1
    BY <1>7, <2>1 DEF Retained
  <2>3. Cut' = r
    <3>1. Cut' = (n + 1) - (Len(buffer) + 1)
      BY <1>3, <2>2 DEF Cut
    <3> QED
      BY <1>1, <1>4, <3>1
  <2>4. HeldBytes'
    <3>1. Len(buffer') = Len(buffer) + 1
      BY <1>7, <2>1
    <3> QED
      BY <1>8, <2>1, <2>3, <3>1 DEF HeldBytes
  <2>5. StreamInv'
    BY <1>3, <1>10, <1>13, <2>1, <2>3, <2>4 DEF StreamInv
  <2>6. [Framed!Next]_Framed!vars
    <3>1. Cut \in Nat /\ Cut' = Cut /\ Len(stream') \in Nat /\ Cut' <= Len(stream')
      BY <1>1, <1>3, <1>4, <2>3
    <3>2. Cut..(Cut' - 1) = {}
      BY <3>1
    <3> HIDE DEF r
    <3> QED
      BY <1>3, <3>1, <3>2, Advances
  <2> QED
    BY <2>5, <2>6
<1>14. CASE tooLong
  <2>1. /\ ~terminated /\ state' = "DISCARD_UNTIL_CRLF" /\ buffer' = << >>
        /\ progress' = [progress EXCEPT !.previous_was_cr = (byte = CR)]
        /\ Len(buffer) + 1 = FrameCapacity
    BY <1>2, <1>7, <1>14
  <2>2. Retained' = 0
    BY <2>1 DEF Retained
  <2>3. Cut' = n + 1
    BY <1>3, <1>4, <2>2 DEF Cut
  <2>4. progress'.previous_was_cr <=> byte = CR
    <3>1. progress \in ProgressType
      BY DEF IInv, TypeOK
    <3> QED
      BY <2>1, <3>1 DEF ProgressType
  <2>5. RecordOpen(stream', base, r) /\ r + FrameCapacity = n + 1
    BY <1>1, <1>4, <1>10, <2>1
  <2>6. Skipping'
    <3>1. stream'[Len(stream')] = byte /\ Len(stream') = n + 1
      BY <1>3
    <3> HIDE DEF r
    <3> QED
      BY <1>3, <1>4, <2>4, <2>5, <3>1 DEF Skipping
  <2>7. StreamInv'
    BY <2>1, <2>6 DEF StreamInv
  <2>8. ASSUME NEW p \in r..n
        PROVE  Framed!Hopeless(stream', base, p)
    <3>1. p \in r..Len(stream') /\ Len(stream') \in Nat
      BY <1>3, <1>4
    <3>2. Framed!RecordStart(stream', base, p) = r
      BY <1>4, <2>5, <3>1, RecordOfOffset
    <3>3. \A e \in r..(r + FrameCapacity) : ~Framed!TerminatorEndsAt(stream', r, e)
      <4> TAKE e \in r..(r + FrameCapacity)
      <4>1. e \in Nat /\ (e <= n \/ e = n + 1)
        BY <1>4, <2>5
      <4> QED
        BY <1>10, <1>11, <2>1, <4>1
    <3>4. r + FrameCapacity <= Len(stream')
      BY <1>3, <1>4, <2>5
    <3>5. Framed!RecordTooLong(stream', base, p)
      BY <3>2, <3>3, <3>4, SamePlan DEF Framed!RecordTooLong
    <3> QED
      BY <1>1, <3>5 DEF Framed!Hopeless
  <2>9. [Framed!Next]_Framed!vars
    <3>1. /\ Cut \in Nat /\ Cut' \in Nat /\ Cut <= Cut' /\ Len(stream') \in Nat
          /\ Cut' <= Len(stream') /\ Cut..(Cut' - 1) = r..n
      BY <1>1, <1>3, <1>4, <2>3
    <3> QED
      BY <1>3, <2>8, <3>1, Advances
  <2> QED
    BY <2>7, <2>9
<1> QED
  BY <1>12, <1>13, <1>14

\* A byte of an overlong record is hopeless; its terminator starts a record.
LEMMA DiscardUntilCrLfFrames ==
    ASSUME IInv, StreamInv, DiscardUntilCrLf
    PROVE  StreamInv' /\ [Framed!Next]_Framed!vars
<1> DEFINE byte == Head(input)
           n == Len(stream)
           ended == progress.previous_was_cr /\ byte = LF
<1>1. /\ state = "DISCARD_UNTIL_CRLF" /\ in_push /\ ~InputExhausted
      /\ framing.strategy = "ASCII_CRLF" /\ buffer = << >>
      /\ state' = IF ended THEN "COLLECT_ASCII" ELSE state
      /\ progress' = [progress EXCEPT !.previous_was_cr = (byte = CR)]
      /\ ConsumeByte /\ buffer' = buffer
  BY DEF DiscardUntilCrLf, Turn, NeedsByte, IInv, CandidateShape
<1>2. /\ byte \in Bytes /\ stream' = Append(stream, byte) /\ stream' \in Seq(Bytes)
      /\ Len(stream') = n + 1 /\ stream'[n + 1] = byte
      /\ Holds(stream', stream) /\ base' = base /\ frames' = frames
  BY <1>1, ByteTaken
<1>3. stream \in Seq(Bytes) /\ n \in Nat /\ base \in Nat /\ Retained = 0
  BY <1>1, CutInStream DEF Retained
<1>4. Cut = n
  BY <1>3 DEF Cut
<1>5. FrameCapacity \in Nat /\ FrameCapacity >= 2
  BY <1>1, PlanShape
<1>6. PICK r \in Nat : /\ RecordOpen(stream, base, r)
                       /\ r + FrameCapacity <= n
                       /\ progress.previous_was_cr <=> stream[n] = CR
  BY <1>1 DEF StreamInv, Skipping
<1>7. n > r /\ base <= r
  BY <1>3, <1>5, <1>6 DEF RecordOpen
<1>8. ended <=> n > r /\ stream[n] = CR /\ byte = LF
  BY <1>6, <1>7
<1> HIDE DEF byte, ended
<1>9. /\ ~ended => RecordOpen(stream', base, r)
      /\ ended => RecordOpen(stream', base, n + 1)
  BY <1>2, <1>3, <1>6, <1>8, RecordEnd
<1>10. Retained' = 0 /\ Cut' = n + 1
  <2>1. state' # "SEARCH_SYNC" /\ state' # "COPY_SYNC" /\ Len(buffer') = 0
    BY <1>1
  <2>2. Retained' = 0
    BY <2>1 DEF Retained
  <2> QED
    BY <1>2, <1>3, <2>2 DEF Cut
<1>11. CASE ended
  <2>1. state' = "COLLECT_ASCII"
    BY <1>1, <1>11
  <2>2. HeldBytes'
    BY <1>1 DEF HeldBytes
  <2> QED
    <3>1. StreamInv'
      BY <1>2, <1>9, <1>10, <1>11, <2>1, <2>2 DEF StreamInv
    <3>2. Framed!Hopeless(stream', base, n)
      <4>1. Framed!RecordTooLong(stream', base, n)
        <5>1. Framed!RecordStart(stream', base, n) = r
          <6>1. n \in r..n /\ n \in 0..n /\ Len(stream') \in Nat
            BY <1>2, <1>3, <1>7
          <6>2. Framed!RecordStart(stream, base, n) = r
            BY <1>3, <1>6, <6>1, RecordOfOffset
          <6> QED
            BY <1>2, <1>3, <6>1, <6>2, RecordStartStays
        <5>2. r + FrameCapacity <= Len(stream')
          BY <1>2, <1>3, <1>5, <1>6
        <5>3. \A e \in r..(r + FrameCapacity) : ~Framed!TerminatorEndsAt(stream', r, e)
          <6> TAKE e \in r..(r + FrameCapacity)
          <6>1. e \in Nat /\ e \in 0..n /\ Len(stream') \in Nat
            BY <1>2, <1>3, <1>5, <1>6
          <6>2. ~Framed!TerminatorEndsAt(stream, r, e)
            BY <1>3, <1>6, <6>1, RecordHasNone
          <6> QED
            BY <1>2, <1>3, <6>1, <6>2, TerminatorStays
        <5> QED
          BY <5>1, <5>2, <5>3, SamePlan DEF Framed!RecordTooLong
      <4> QED
        BY <1>1, <4>1 DEF Framed!Hopeless
    <3>3. [Framed!Next]_Framed!vars
      <4>1. /\ Cut \in Nat /\ Cut' \in Nat /\ Cut <= Cut' /\ Len(stream') \in Nat
            /\ Cut' <= Len(stream') /\ \A p \in Cut..(Cut' - 1) : p = n
        BY <1>2, <1>3, <1>4, <1>10
      <4>2. \A p \in Cut..(Cut' - 1) : Framed!Hopeless(stream', base, p)
        BY <3>2, <4>1
      <4> QED
        BY <1>2, <4>1, <4>2, Advances
    <3> QED
      BY <3>1, <3>3
<1>12. CASE ~ended
  <2>1. state' = "DISCARD_UNTIL_CRLF"
    BY <1>1, <1>12
  <2>2. progress'.previous_was_cr <=> byte = CR
    <3>1. progress \in ProgressType
      BY DEF IInv, TypeOK
    <3> QED
      BY <1>1, <3>1 DEF ProgressType, byte
  <2>3. RecordOpen(stream', base, r) /\ r + FrameCapacity <= Len(stream')
    BY <1>2, <1>3, <1>5, <1>6, <1>9, <1>12
  <2>4. Skipping'
    <3>1. stream'[Len(stream')] = byte
      BY <1>2
    <3> QED
      BY <1>2, <2>2, <2>3, <3>1 DEF Skipping
  <2>5. StreamInv'
    BY <2>1, <2>4 DEF StreamInv
  <2>6. Framed!Hopeless(stream', base, n)
    <3>1. n \in r..Len(stream') /\ Len(stream') \in Nat
      BY <1>2, <1>3, <1>7
    <3>2. Framed!RecordStart(stream', base, n) = r
      BY <1>3, <2>3, <3>1, RecordOfOffset
    <3>3. \A e \in r..(r + FrameCapacity) : ~Framed!TerminatorEndsAt(stream', r, e)
      <4> TAKE e \in r..(r + FrameCapacity)
      <4>1. e \in Nat
        BY <1>5
      <4> QED
        BY <1>3, <2>3, <3>1, <4>1, RecordHasNone
    <3>4. Framed!RecordTooLong(stream', base, n)
      BY <2>3, <3>2, <3>3, SamePlan DEF Framed!RecordTooLong
    <3> QED
      BY <1>1, <3>4 DEF Framed!Hopeless
  <2>7. [Framed!Next]_Framed!vars
    <3>1. /\ Cut \in Nat /\ Cut' \in Nat /\ Cut <= Cut' /\ Len(stream') \in Nat
          /\ Cut' <= Len(stream') /\ \A p \in Cut..(Cut' - 1) : p = n
      BY <1>2, <1>3, <1>4, <1>10
    <3>2. \A p \in Cut..(Cut' - 1) : Framed!Hopeless(stream', base, p)
      BY <2>6, <3>1
    <3> QED
      BY <1>2, <3>1, <3>2, Advances
  <2> QED
    BY <2>5, <2>7
<1> QED
  BY <1>11, <1>12

\* The copied byte is the byte of the stream it stands for.
LEMMA CopySyncByteFrames ==
    ASSUME IInv, StreamInv, CopySyncByte
    PROVE  StreamInv' /\ [Framed!Next]_Framed!vars
<1>1. /\ state = "COPY_SYNC" /\ Len(buffer) = progress.copy_sync_index
      /\ buffer \in Seq(Octet) /\ Len(buffer) \in Nat
      /\ progress.copy_sync_index < Len(Sync)
  BY DEF CopySyncByte, Turn, IInv, TypeOK, CandidateShape
<1>2. CASE Len(buffer) >= FrameCapacity
  <2>1. UNCHANGED <<workspaceVars, historyVars>>
    BY <1>2 DEF CopySyncByte, InternalError
  <2> QED
    BY <2>1, WorkspaceKept
<1>3. CASE ~(Len(buffer) >= FrameCapacity)
  <2>1. /\ buffer' = Append(buffer, Sync[progress.copy_sync_index + 1])
        /\ state' = state /\ stream' = stream /\ base' = base /\ frames' = frames
    BY <1>3 DEF CopySyncByte, historyVars
  <2>2. \A i \in 1..Len(buffer) : buffer[i] = Sync[i]
    BY <1>1 DEF StreamInv, Copying
  <2>3. Sync[progress.copy_sync_index + 1] \in Octet
    BY <1>1, PlanShape, ElementOfSeq
  <2>4. Len(buffer') = Len(buffer) + 1
    BY <1>1, <2>1, <2>3
  <2>5. ASSUME NEW i \in 1..Len(buffer')
        PROVE  buffer'[i] = Sync[i]
    <3>1. CASE i = Len(buffer) + 1
      BY <1>1, <2>1, <2>3, <3>1
    <3>2. CASE i # Len(buffer) + 1
      <4>1. i \in 1..Len(buffer)
        BY <1>1, <2>4, <3>2
      <4>2. buffer'[i] = buffer[i]
        BY <1>1, <2>1, <2>3, <4>1
      <4> QED
        BY <2>2, <4>1, <4>2
    <3> QED
      BY <3>1, <3>2
  <2>6. Copying'
    <3>1. EndsWith(stream, Len(stream), Len(Sync))
      BY <1>1 DEF StreamInv, Copying
    <3> QED
      BY <2>1, <2>5, <3>1 DEF Copying
  <2>7. StreamInv'
    BY <1>1, <2>1, <2>6 DEF StreamInv
  <2>8. Cut' = Cut
    BY <1>1, <2>1 DEF Cut, Retained
  <2> QED
    BY <2>1, <2>7, <2>8, StandsStill
<1> QED
  BY <1>2, <1>3

\* When all sync bytes are copied the buffer is the front of the undecided stream.
LEMMA CopySyncDoneFrames ==
    ASSUME IInv, StreamInv, CopySyncDone
    PROVE  StreamInv' /\ [Framed!Next]_Framed!vars
<1>1. /\ state = "COPY_SYNC" /\ Len(buffer) = Len(Sync) /\ Len(Sync) \in Nat
      /\ SyncStrategy /\ progress \in ProgressType
      /\ buffer' = buffer /\ stream' = stream /\ base' = base /\ frames' = frames
  BY PlanShape DEF CopySyncDone, Turn, IInv, TypeOK, CandidateShape, historyVars
<1>2. /\ stream \in Seq(Bytes) /\ Len(stream) \in Nat /\ Cut \in Nat
      /\ Cut + Len(Sync) = Len(stream)
  BY <1>1, CutInStream DEF Retained
<1>3. Copying
  BY <1>1 DEF StreamInv
<1>4. Framed!SyncAt(stream, Cut)
  <2>1. EndsWith(stream, Cut + Len(Sync), Len(Sync)) /\ Cut + Len(Sync) <= Len(stream)
    BY <1>2, <1>3 DEF Copying
  <2> QED
    BY <1>2, <2>1, SyncAtEnd
<1>5. state' \in {"DELIVER_PENDING", "COLLECT_DECLARED", "READ_LENGTH"}
  BY DEF CopySyncDone
<1>6. Cut' = Cut
  <2>1. Retained' = Len(buffer) /\ Retained = Len(Sync)
    BY <1>1, <1>5 DEF Retained
  <2> QED
    BY <1>1, <2>1 DEF Cut
<1>7. HeldBytes'
  <2> SUFFICES ASSUME NEW i \in 1..Len(Sync)
               PROVE  buffer[i] = stream[Cut + i]
    BY <1>1, <1>6 DEF HeldBytes
  <2>1. Len(stream) - Len(Sync) + i = Cut + i
    BY <1>1, <1>2
  <2>2. stream[Len(stream) - Len(Sync) + i] = Sync[i]
    BY <1>3 DEF Copying, EndsWith
  <2> QED
    BY <1>1, <1>3, <2>1, <2>2 DEF Copying
<1>8. CASE framing.strategy = "SYNC_FIXED_LENGTH"
  <2>1. /\ progress'.target_size = framing.frame_length_bytes
        /\ state' = IF Len(buffer) = framing.frame_length_bytes
                    THEN "DELIVER_PENDING" ELSE "COLLECT_DECLARED"
    BY <1>1, <1>8 DEF CopySyncDone, ProgressType
  <2>2. ASSUME Len(buffer) = framing.frame_length_bytes
        PROVE  StreamInv'
    <3>1. Framed!IsFrame(stream, base, Cut, Len(buffer))
      BY <1>1, <1>2, <1>4, <1>8, <2>2 DEF Framed!IsFrame
    <3>2. Waiting'
      BY <1>1, <1>6, <1>7, <1>8, <3>1 DEF Waiting
    <3> QED
      BY <2>1, <2>2, <3>2 DEF StreamInv
  <2>3. ASSUME Len(buffer) # framing.frame_length_bytes
        PROVE  StreamInv'
    <3>1. TargetRight'
      BY <1>8, <2>1 DEF TargetRight
    <3> QED
      BY <1>1, <1>4, <1>6, <1>7, <2>1, <2>3, <3>1 DEF StreamInv
  <2> QED
    BY <1>1, <1>6, <2>2, <2>3, StandsStill
<1>9. CASE framing.strategy # "SYNC_FIXED_LENGTH"
  <2>1. state' = "READ_LENGTH"
    BY <1>9 DEF CopySyncDone
  <2> QED
    BY <1>1, <1>4, <1>6, <1>7, <2>1, StandsStill DEF StreamInv
<1> QED
  BY <1>8, <1>9

\* The rescan looks at one more retained byte.
LEMMA RescanByteFrames ==
    ASSUME IInv, StreamInv, RescanByte
    PROVE  StreamInv' /\ [Framed!Next]_Framed!vars
<1> DEFINE x == progress.rescan_index
           q == progress.rescan_match
           index == x + 1
           r == NextMatch(q, buffer[index])
           scanned == [progress EXCEPT !.rescan_index = index, !.rescan_match = r]
           start == index - Len(Sync)
           c == Cut
<1>1. /\ state = "RESCAN_INVALID" /\ progress \in ProgressType
      /\ buffer' = buffer /\ stream' = stream /\ base' = base /\ frames' = frames
      /\ Len(buffer) \in Nat /\ x \in Nat /\ q \in Nat /\ Len(Sync) \in Nat
      /\ 1 <= x /\ x < Len(buffer) /\ q < Len(Sync) /\ q < x
  BY PlanShape
     DEF RescanByte, Turn, IInv, TypeOK, CandidateShape, ProgressType, historyVars
<1>2. /\ r = Len(Sync) =>
           /\ progress' = [scanned EXCEPT !.compact_start = start,
                                          !.compact_size = Len(buffer) - start,
                                          !.compact_moved = 0]
           /\ state' = "COMPACT_INVALID"
      /\ r # Len(Sync) => progress' = scanned /\ state' = state
  BY DEF RescanByte
<1>3. stream \in Seq(Bytes) /\ Len(stream) \in Nat /\ c \in Nat /\ c + Len(buffer) = Len(stream)
  BY <1>1, CutInStream DEF Retained
<1>4. /\ HeldBytes /\ Framed!BadLengthAt(stream, c)
      /\ EndsWith(stream, c + x, q)
      /\ \A p \in (c + 1)..(c + x - q - 1) : Framed!SyncMismatch(stream, p)
  <2>1. Rescanning
    BY <1>1 DEF StreamInv
  <2> QED
    BY <1>1, <2>1 DEF Rescanning
<1>5. Cut' = c
  <2>1. state' # "SEARCH_SYNC" /\ state' # "COPY_SYNC"
    BY <1>1, <1>2
  <2> QED
    BY <1>1, <2>1 DEF Cut, Retained
<1>6. HeldBytes'
  BY <1>1, <1>4, <1>5 DEF HeldBytes
<1> DEFINE e == c + x
<1>7. e \in Nat /\ e + 1 <= Len(stream) /\ q \in 0..(Len(Sync) - 1) /\ index \in 1..Len(buffer)
  BY <1>1, <1>3
<1>8. buffer[index] = stream[e + 1]
  <2>1. c + index = e + 1
    BY <1>1, <1>3
  <2> HIDE DEF index, e
  <2> QED
    BY <1>4, <1>7, <2>1 DEF HeldBytes
<1>9. e = c + x /\ e + 1 = c + index
  BY <1>1, <1>3
<1> HIDE DEF c, e, index, x, q
<1>10. /\ r \in 0..(q + 1)
       /\ EndsWith(stream, e + 1, r)
       /\ \A p \in (e - q)..(e - r) : Framed!SyncMismatch(stream, p)
  BY <1>3, <1>4, <1>7, <1>8, <1>9, SearchSlides
<1> HIDE DEF r
<1>11. index = x + 1
  BY DEF index
<1>12. \A p \in (c + 1)..(c + index - r - 1) : Framed!SyncMismatch(stream, p)
  <2> TAKE p \in (c + 1)..(c + index - r - 1)
  <2>1. CASE p <= c + x - q - 1
    <3>1. p \in (c + 1)..(c + x - q - 1)
      BY <1>1, <1>3, <1>10, <1>11, <2>1
    <3> QED
      BY <1>4, <3>1
  <2>2. CASE ~(p <= c + x - q - 1)
    <3>1. p \in (e - q)..(e - r)
      BY <1>1, <1>3, <1>9, <1>10, <1>11, <2>2
    <3> QED
      BY <1>10, <3>1
  <2> QED
    BY <2>1, <2>2
<1>13. scanned.rescan_index = index /\ scanned.rescan_match = r /\ scanned \in [DOMAIN progress -> {scanned[f] : f \in DOMAIN progress}]
  BY <1>1 DEF ProgressType
<1>14. CASE r = Len(Sync)
  <2>1. state' = "COMPACT_INVALID" /\ progress'.compact_start = start /\ progress'.compact_moved = 0
    BY <1>1, <1>2, <1>14 DEF ProgressType
  <2>2. /\ start >= 1 /\ c + start \in Nat /\ c + index - r - 1 = c + start - 1
        /\ (c + start) + Len(Sync) = c + index /\ (c + start) + Len(Sync) <= Len(stream)
    BY <1>1, <1>3, <1>7, <1>9, <1>10, <1>11, <1>14
  <2>3. Framed!SyncAt(stream, c + start)
    <3> HIDE DEF start
    <3>1. EndsWith(stream, (c + start) + Len(Sync), Len(Sync))
      BY <1>9, <1>10, <1>14, <2>2
    <3> QED
      BY <1>3, <2>2, <3>1, SyncAtEnd
  <2>4. \A p \in (c + 1)..(c + start - 1) : Framed!SyncMismatch(stream, p)
    <3> HIDE DEF start
    <3> QED
      BY <1>12, <2>2
  <2>5. \A i \in 1..Len(buffer) :
          buffer[i] = IF i <= 0 THEN stream[c + start + i] ELSE stream[c + i]
    BY <1>1, <1>4 DEF HeldBytes, c
  <2> HIDE DEF start
  <2>6. Compacting'
    BY <1>1, <1>4, <1>5, <2>1, <2>2, <2>3, <2>4, <2>5 DEF Compacting
  <2> QED
    BY <1>1, <1>5, <2>1, <2>6, StandsStill DEF StreamInv, c
<1>15. CASE r # Len(Sync)
  <2>1. state' = "RESCAN_INVALID" /\ progress'.rescan_index = index /\ progress'.rescan_match = r
    BY <1>1, <1>2, <1>13, <1>15
  <2>2. Rescanning'
    BY <1>1, <1>4, <1>5, <1>6, <1>9, <1>10, <1>12, <2>1 DEF Rescanning
  <2> QED
    BY <1>1, <1>5, <2>1, <2>2, StandsStill DEF StreamInv, c
<1> QED
  BY <1>14, <1>15

\* The abstract framer skips a refused frame and everything before the partial match at once.
LEMMA RescanEndFrames ==
    ASSUME IInv, StreamInv, RescanEnd
    PROVE  StreamInv' /\ [Framed!Next]_Framed!vars
<1> DEFINE q == progress.rescan_match
           n == Len(stream)
           c == Cut
<1>1. /\ state = "RESCAN_INVALID" /\ state' = "SEARCH_SYNC"
      /\ progress \in ProgressType /\ progress.rescan_index = Len(buffer)
      /\ framing.strategy = "SYNC_LENGTH_FIELD"
      /\ stream' = stream /\ base' = base /\ frames' = frames
      /\ Len(buffer) \in Nat /\ q \in Nat /\ q < Len(buffer) /\ 1 <= Len(buffer)
  BY PlanShape
     DEF RescanEnd, Turn, IInv, TypeOK, CandidateShape, ProgressType, historyVars
<1>2. progress'.sync_match = q
  BY <1>1 DEF RescanEnd, ProgressType
<1>3. stream \in Seq(Bytes) /\ n \in Nat /\ c \in Nat /\ c + Len(buffer) = n
  BY <1>1, CutInStream DEF Retained
<1>4. /\ Framed!BadLengthAt(stream, c) /\ EndsWith(stream, c + Len(buffer), q)
      /\ \A p \in (c + 1)..(c + Len(buffer) - q - 1) : Framed!SyncMismatch(stream, p)
  <2>1. Rescanning
    BY <1>1 DEF StreamInv
  <2> QED
    BY <1>1, <2>1 DEF Rescanning
<1>5. Cut' = n - q
  BY <1>1, <1>2 DEF Cut, Retained
<1>6. EndsWith(stream', Len(stream'), progress'.sync_match)
  BY <1>1, <1>2, <1>3, <1>4
<1>7. StreamInv'
  BY <1>1, <1>6 DEF StreamInv
<1>8. ASSUME NEW p \in c..(n - q - 1)
      PROVE  Framed!Hopeless(stream', base, p)
  <2>1. p = c \/ p \in (c + 1)..(c + Len(buffer) - q - 1)
    BY <1>1, <1>3
  <2>2. Framed!SyncMismatch(stream, p) \/ Framed!BadLengthAt(stream, p)
    BY <1>4, <2>1
  <2> QED
    BY <1>1, <2>2 DEF Framed!Hopeless
<1>9. /\ Cut' \in Nat /\ Cut \in Nat /\ Cut <= Cut' /\ Len(stream') \in Nat
      /\ Cut' <= Len(stream') /\ Cut..(Cut' - 1) = c..(n - q - 1)
  BY <1>1, <1>3, <1>5
<1>10. [Framed!Next]_Framed!vars
  BY <1>1, <1>8, <1>9, Advances
<1> QED
  BY <1>7, <1>10

\* A move leaves every byte readable where the rest of the move looks for it; when it is done
\* the next candidate is at the front.
LEMMA CompactInvalidFrames ==
    ASSUME IInv, StreamInv, CompactInvalid
    PROVE  StreamInv' /\ [Framed!Next]_Framed!vars
<1> DEFINE remaining == progress.compact_size - progress.compact_moved
           budget == MaxWorkUnits - result.work_units_used
           chunk == Min({remaining, budget})
           done == chunk = remaining
           start == progress.compact_start
           moved == progress.compact_moved
           size == progress.compact_size
           c == Cut
           n == Len(stream)
<1>1. /\ state = "COMPACT_INVALID" /\ progress \in ProgressType /\ result \in ResultType
      /\ buffer' = IF done THEN SubSeq(Moved(chunk), 1, size) ELSE Moved(chunk)
      /\ progress' = IF done
                     THEN [progress EXCEPT !.compact_start = 0, !.compact_size = 0,
                                           !.compact_moved = 0, !.rescan_index = 0,
                                           !.rescan_match = 0]
                     ELSE [progress EXCEPT !.compact_moved = @ + chunk]
      /\ state' = IF done THEN "READ_LENGTH" ELSE state
      /\ stream' = stream /\ base' = base /\ frames' = frames
      /\ buffer \in Seq(Octet) /\ Len(buffer) \in Nat
      /\ framing.strategy = "SYNC_LENGTH_FIELD"
      /\ start + size = Len(buffer) /\ moved <= size
  BY DEF CompactInvalid, Turn, IInv, TypeOK, CandidateShape, historyVars
<1>2. start \in Nat /\ size \in Nat /\ moved \in Nat
  BY <1>1, Ranges DEF ProgressType
<1>3. budget \in Nat /\ remaining \in Nat
  <2>1. result.work_units_used \in 0..MaxWorkUnits /\ MaxWorkUnits \in Nat
    BY <1>1, LimitsAssumption DEF ResultType
  <2> QED
    BY <1>1, <1>2, <2>1
<1>4. chunk \in Nat /\ chunk <= remaining
  BY <1>3, MinOfTwo
<1>5. moved + chunk \in Nat /\ moved + chunk <= size /\ (done <=> moved + chunk = size)
  <2> HIDE DEF chunk
  <2> QED
    BY <1>1, <1>2, <1>4
<1> HIDE DEF chunk, done
<1>6. stream \in Seq(Bytes) /\ n \in Nat /\ c \in Nat /\ c + Len(buffer) = n
  BY <1>1, CutInStream DEF Retained
<1>7. /\ start >= 1 /\ Framed!BadLengthAt(stream, c)
      /\ \A p \in (c + 1)..(c + start - 1) : Framed!SyncMismatch(stream, p)
      /\ Framed!SyncAt(stream, c + start)
      /\ \A i \in 1..Len(buffer) :
           buffer[i] = IF i <= moved THEN stream[c + start + i] ELSE stream[c + i]
  BY <1>1 DEF StreamInv, Compacting
<1> DEFINE after == Moved(chunk)
<1>8. ASSUME NEW i \in 1..Len(buffer)
      PROVE  after[i] = IF i <= moved + chunk THEN stream[c + start + i] ELSE stream[c + i]
  <2>1. after[i] = IF i \in (moved + 1)..(moved + chunk) THEN buffer[start + i] ELSE buffer[i]
    BY DEF Moved
  <2>2. CASE i \in (moved + 1)..(moved + chunk)
    <3>1. start + i \in 1..Len(buffer) /\ ~(start + i <= moved) /\ i <= moved + chunk
      BY <1>1, <1>2, <1>5, <1>7, <2>2
    <3>2. buffer[start + i] = stream[c + (start + i)] /\ c + (start + i) = c + start + i
      BY <1>2, <1>6, <1>7, <3>1
    <3> QED
      BY <2>1, <2>2, <3>1, <3>2
  <2>3. CASE i \notin (moved + 1)..(moved + chunk)
    <3>1. i <= moved <=> i <= moved + chunk
      BY <1>2, <1>4, <2>3
    <3> QED
      BY <1>7, <2>1, <2>3, <3>1
  <2> QED
    BY <2>2, <2>3
<1>9. after \in Seq(Octet) /\ Len(after) = Len(buffer)
  <2>1. \A i \in 1..Len(buffer) : after[i] \in Octet
    <3> TAKE i \in 1..Len(buffer)
    <3>1. after[i] = IF i \in (moved + 1)..(moved + chunk) THEN buffer[start + i] ELSE buffer[i]
      BY DEF Moved
    <3>2. i \in (moved + 1)..(moved + chunk) => start + i \in 1..Len(buffer)
      BY <1>1, <1>2, <1>5
    <3> QED
      BY <1>1, <3>1, <3>2, ElementOfSeq
  <2>2. after \in [1..Len(buffer) -> Octet]
    BY <2>1 DEF Moved
  <2> HIDE DEF after
  <2>3. after \in Seq(Octet)
    BY <1>1, <2>2, SeqDef
  <2>4. DOMAIN after = 1..Len(buffer)
    BY <2>2
  <2> QED
    BY <1>1, <2>3, <2>4, LenProperties
<1> HIDE DEF after, c, n, moved, start, size
<1>10. CASE done
  <2>1. /\ buffer' = SubSeq(after, 1, size) /\ state' = "READ_LENGTH"
        /\ moved + chunk = size
    BY <1>1, <1>5, <1>10 DEF after, size
  <2>2. /\ Len(buffer') = size
        /\ \A i \in 1..size : buffer'[i] = after[i]
    <3>1. 1 \in 1..(Len(after) + 1) /\ size <= Len(after)
      BY <1>1, <1>2, <1>9 DEF start, size
    <3> QED
      BY <1>2, <1>9, <2>1, <3>1
  <2>3. Cut' = c + start
    <3>1. Retained' = size
      BY <2>1, <2>2 DEF Retained
    <3>2. Cut' = n - size
      BY <1>1, <3>1 DEF Cut, n
    <3> QED
      BY <1>1, <1>2, <1>6, <3>2 DEF start, size
  <2>4. HeldBytes'
    <3> SUFFICES ASSUME NEW i \in 1..size
                 PROVE  buffer'[i] = stream[c + start + i]
      BY <1>1, <2>2, <2>3 DEF HeldBytes
    <3>1. i \in 1..Len(buffer) /\ i <= moved + chunk
      BY <1>1, <1>2, <2>1 DEF start, size
    <3> QED
      BY <1>8, <2>2, <3>1
  <2>5. StreamInv'
    BY <1>1, <1>7, <2>1, <2>3, <2>4 DEF StreamInv
  <2>6. ASSUME NEW p \in c..(c + start - 1)
        PROVE  Framed!Hopeless(stream', base, p)
    <3>1. p = c \/ p \in (c + 1)..(c + start - 1)
      BY <1>2, <1>6
    <3>2. Framed!SyncMismatch(stream, p) \/ Framed!BadLengthAt(stream, p)
      BY <1>7, <3>1
    <3> QED
      BY <1>1, <3>2 DEF Framed!Hopeless
  <2>7. /\ Cut' \in Nat /\ Cut \in Nat /\ Cut <= Cut' /\ Len(stream') \in Nat
        /\ Cut' <= Len(stream') /\ Cut..(Cut' - 1) = c..(c + start - 1)
    BY <1>1, <1>2, <1>6, <2>3 DEF start, size, c, n
  <2>8. [Framed!Next]_Framed!vars
    BY <1>1, <2>6, <2>7, Advances
  <2> QED
    BY <2>5, <2>8
<1>11. CASE ~done
  <2>1. /\ buffer' = after /\ state' = "COMPACT_INVALID"
        /\ progress' = [progress EXCEPT !.compact_moved = @ + chunk]
    BY <1>1, <1>11 DEF after
  <2>2. progress'.compact_start = start /\ progress'.compact_moved = moved + chunk
    BY <1>1, <2>1 DEF ProgressType, start, moved
  <2>3. Cut' = c
    BY <1>1, <1>9, <2>1 DEF Cut, Retained, c
  <2>4. Compacting'
    BY <1>1, <1>7, <1>8, <1>9, <2>1, <2>2, <2>3 DEF Compacting
  <2> QED
    BY <1>1, <2>1, <2>3, <2>4, StandsStill DEF StreamInv, c
<1> QED
  BY <1>10, <1>11

\* One byte of the search: the match slides, and what it slides over cannot start a frame.
LEMMA SearchSyncFrames ==
    ASSUME IInv, StreamInv, SearchSync
    PROVE  StreamInv' /\ [Framed!Next]_Framed!vars
<1> DEFINE old == progress.sync_match
           n == Len(stream)
           r == NextMatch(old, Head(input))
<1>1. /\ state = "SEARCH_SYNC" /\ in_push /\ ~InputExhausted /\ ConsumeByte
      /\ SyncStrategy /\ progress \in ProgressType
      /\ old \in Nat /\ Len(Sync) \in Nat /\ old < Len(Sync)
  BY PlanShape
     DEF SearchSync, Turn, NeedsByte, IInv, TypeOK, CandidateShape, ProgressType
<1>11. ASSUME r = Len(Sync)
      PROVE  state' = "COPY_SYNC" /\ buffer' = << >>
  BY <1>11 DEF SearchSync
<1>12. ASSUME r # Len(Sync)
      PROVE  state' = state /\ progress' = [progress EXCEPT !.sync_match = r]
  BY <1>12 DEF SearchSync
<1>2. /\ stream'[n + 1] = Head(input) /\ stream' \in Seq(Bytes) /\ Len(stream') = n + 1
      /\ stream' = Append(stream, Head(input)) /\ Head(input) \in Bytes
      /\ Holds(stream', stream) /\ base' = base /\ frames' = frames
  BY <1>1, ByteTaken
<1>3. n \in Nat /\ Cut \in Nat /\ Cut + old = n
  BY <1>1, CutInStream DEF Retained
<1>4. EndsWith(stream', n, old)
  <2>1. EndsWith(stream, n, old)
    BY <1>1 DEF StreamInv
  <2> QED
    BY <1>1, <1>2, <1>3, <2>1, MatchStays
<1>5. /\ r \in 0..(old + 1) /\ EndsWith(stream', n + 1, r)
      /\ \A p \in (n - old)..(n - r) : Framed!SyncMismatch(stream', p)
  <2>1. old \in 0..(Len(Sync) - 1) /\ n + 1 <= Len(stream') /\ Len(stream') \in Nat
    BY <1>1, <1>2, <1>3
  <2> QED
    BY <1>2, <1>3, <1>4, <2>1, SearchSlides
<1>6. r \in Nat /\ r <= old + 1 /\ r <= Len(Sync)
  BY <1>1, <1>5
<1> HIDE DEF r
<1>7. Cut' = n + 1 - r /\ StreamInv'
  <2>1. ASSUME r = Len(Sync)
        PROVE  Cut' = n + 1 - r /\ StreamInv'
    <3>1. Copying'
      BY <1>11, <1>2, <1>5, <2>1 DEF Copying
    <3> QED
      BY <1>1, <1>11, <1>2, <2>1, <3>1 DEF StreamInv, Cut, Retained
  <2>2. ASSUME r # Len(Sync)
        PROVE  Cut' = n + 1 - r /\ StreamInv'
    <3>1. state' = "SEARCH_SYNC" /\ progress'.sync_match = r
      BY <1>1, <1>12, <2>2 DEF ProgressType
    <3> QED
      BY <1>2, <1>5, <3>1 DEF StreamInv, Cut, Retained
  <2> QED
    BY <2>1, <2>2
<1> HIDE DEF old, n
<1>8. Cut \in Nat /\ Cut' \in Nat /\ Cut <= Cut' /\ Cut' <= Len(stream') /\ Len(stream') \in Nat
  BY <1>1, <1>2, <1>3, <1>6, <1>7
<1>9. ASSUME NEW p \in Cut..(Cut' - 1)
      PROVE  Framed!Hopeless(stream', base, p)
  <2>1. p \in (n - old)..(n - r)
    BY <1>1, <1>3, <1>6, <1>7, <1>8
  <2>2. Framed!SyncMismatch(stream', p)
    BY <1>5, <2>1
  <2> QED
    BY <1>1, <2>2 DEF Framed!Hopeless, SyncStrategy
<1>10. [Framed!Next]_Framed!vars
  BY <1>2, <1>8, <1>9, Advances
<1> QED
  BY <1>7, <1>10

\* A byte that goes from the input to the buffer leaves the cut where it was.
LEMMA BytePut ==
    ASSUME IInv, in_push, ~InputExhausted, ConsumeByte, HeldBytes,
           state \notin {"SEARCH_SYNC", "COPY_SYNC"}, state' = state,
           buffer' = Append(buffer, Head(input))
    PROVE  /\ HeldBytes' /\ Cut' = Cut /\ Cut \in Nat
           /\ Len(buffer) \in Nat /\ Len(buffer') = Len(buffer) + 1
           /\ \A i \in 1..Len(buffer) : buffer'[i] = buffer[i]
           /\ Len(stream) \in Nat /\ Holds(stream', stream) /\ Len(stream') \in Nat
           /\ [Framed!Next]_Framed!vars
<1>1. /\ stream'[Len(stream) + 1] = Head(input) /\ Len(stream') = Len(stream) + 1
      /\ stream' = Append(stream, Head(input)) /\ Head(input) \in Bytes
      /\ Holds(stream', stream) /\ base' = base /\ frames' = frames
  BY ByteTaken
<1>2. buffer \in Seq(Octet) /\ Len(buffer) \in Nat /\ Head(input) \in Octet
  BY <1>1, BytesAssumption DEF IInv, TypeOK
<1>3. /\ Len(buffer') = Len(buffer) + 1 /\ buffer'[Len(buffer) + 1] = Head(input)
      /\ \A i \in 1..Len(buffer) : buffer'[i] = buffer[i]
  BY <1>2
<1>4. Len(stream) \in Nat /\ Cut \in Nat /\ Cut + Len(buffer) = Len(stream)
  BY CutInStream DEF Retained
<1>5. Cut' = Cut
  BY <1>1, <1>2, <1>3, <1>4 DEF Cut, Retained
<1> DEFINE c == Cut
<1>6. \A i \in 1..(Len(buffer) + 1) : buffer'[i] = stream'[c + i]
  <2> TAKE i \in 1..(Len(buffer) + 1)
  <2>1. CASE i = Len(buffer) + 1
    BY <1>1, <1>3, <1>4, <2>1
  <2>2. CASE i # Len(buffer) + 1
    <3>1. i \in 1..Len(buffer) /\ c + i \in 1..Len(stream)
      BY <1>2, <1>4, <2>2
    <3>2. stream'[c + i] = stream[c + i]
      BY <1>1, <3>1 DEF Holds
    <3> QED
      BY <1>3, <3>1, <3>2 DEF HeldBytes
  <2> QED
    BY <2>1, <2>2
<1>7. HeldBytes'
  BY <1>3, <1>5, <1>6 DEF HeldBytes
<1>8. [Framed!Next]_Framed!vars
  <2>1. Cut <= Cut' /\ Cut' <= Len(stream') /\ Len(stream') \in Nat /\ Cut' \in Nat
    BY <1>1, <1>2, <1>4, <1>5
  <2>2. Cut..(Cut' - 1) = {}
    BY <1>4, <1>5
  <2> QED
    BY <1>1, <1>4, <2>1, <2>2, Advances
<1> QED
  BY <1>1, <1>2, <1>3, <1>4, <1>5, <1>7, <1>8

\* Sync bytes stay where they are when the stream grows.
LEMMA SyncStays ==
    ASSUME NEW s, NEW t, Holds(t, s), Len(s) \in Nat, Len(t) \in Nat, NEW p \in Nat,
           Framed!SyncAt(s, p)
    PROVE  Framed!SyncAt(t, p)
<1> DEFINE e == p + Len(Sync)
<1>1. e \in Nat /\ Len(Sync) \in Nat
  BY PlanShape
<1>2. e <= Len(s) /\ EndsWith(s, e, Len(Sync))
  BY SyncAtEnd
<1>3. e <= Len(t)
  BY <1>1, <1>2 DEF Holds
<1> HIDE DEF e
<1>4. EndsWith(t, e, Len(Sync))
  BY <1>1, <1>2, MatchStays
<1> QED
  BY <1>3, <1>4, SyncAtEnd DEF e

\* The length field is read from the front of the stream that is buffered.
LEMMA WindowDeclared ==
    ASSUME IInv, HeldBytes, framing.strategy = "SYNC_LENGTH_FIELD",
           HeaderEnd <= Len(buffer), state \notin {"SEARCH_SYNC", "COPY_SYNC"}
    PROVE  /\ Framed!DeclaredLength(Framed!Window(stream, Cut, Framed!HeaderEnd))
                = DeclaredLength(buffer)
           /\ Cut + HeaderEnd <= Len(stream)
<1>1. stream \in Seq(Bytes) /\ Len(stream) \in Nat /\ Cut \in Nat /\ Cut + Len(buffer) = Len(stream)
  BY CutInStream DEF Retained
<1>2. Len(buffer) \in Nat /\ HeaderEnd \in Nat
  BY PlanShape DEF IInv, TypeOK
<1> DEFINE c == Cut
           h == HeaderEnd
           w == SubSeq(stream, c + 1, c + h)
<1>3. \A i \in 1..h : w[i] = stream[c + i]
  <2>1. c + h <= Len(stream) /\ c \in Nat /\ h \in Nat
    BY <1>1, <1>2
  <2> HIDE DEF c, h
  <2> QED
    BY <1>1, <2>1, WindowBytes
<1>4. \A i \in 1..h : w[i] = buffer[i]
  BY <1>1, <1>2, <1>3 DEF HeldBytes
<1> HIDE DEF w
<1>5. DeclaredLength(w) = DeclaredLength(buffer)
  BY <1>4, DeclaredSame
<1>6. Framed!Window(stream, Cut, Framed!HeaderEnd) = w
  BY SamePlan DEF Framed!Window, w
<1> QED
  BY <1>1, <1>2, <1>5, <1>6, SamePlan

\* The buffered bytes, when there are as many as were declared, are the frame at the cut.
LEMMA CompleteFrame ==
    ASSUME IInv, HeldBytes, state \notin {"SEARCH_SYNC", "COPY_SYNC"},
           framing.strategy # "ASCII_CRLF",
           framing.strategy = "FIXED_LENGTH" => Len(buffer) = framing.frame_length_bytes,
           framing.strategy = "SYNC_FIXED_LENGTH" =>
             Framed!SyncAt(stream, Cut) /\ Len(buffer) = framing.frame_length_bytes,
           framing.strategy = "SYNC_LENGTH_FIELD" =>
             /\ Framed!SyncAt(stream, Cut) /\ HeaderEnd <= Len(buffer)
             /\ Len(buffer) = DeclaredLength(buffer) /\ LengthAccepted(Len(buffer))
    PROVE  Waiting
<1>1. /\ Len(stream) \in Nat /\ Cut \in Nat /\ Cut + Len(buffer) = Len(stream)
      /\ Len(buffer) \in Nat
  BY CutInStream DEF Retained, IInv, TypeOK
<1>2. Cut + Len(buffer) <= Len(stream)
  BY <1>1
<1>3. CASE framing.strategy = "FIXED_LENGTH"
  BY <1>2, <1>3 DEF Waiting, Framed!IsFrame
<1>4. CASE framing.strategy = "SYNC_FIXED_LENGTH"
  BY <1>2, <1>4 DEF Waiting, Framed!IsFrame
<1>5. CASE framing.strategy = "SYNC_LENGTH_FIELD"
  <2>1. Framed!DeclaredLength(Framed!Window(stream, Cut, Framed!HeaderEnd)) = Len(buffer)
    BY <1>5, WindowDeclared
  <2>2. Len(buffer) >= Framed!HeaderEnd /\ Framed!LengthAccepted(Len(buffer))
    BY <1>1, <1>5, SamePlan, PlanShape
  <2> QED
    BY <1>2, <1>5, <2>1, <2>2 DEF Waiting, Framed!IsFrame
<1> QED
  BY <1>3, <1>4, <1>5, PlanShape DEF FramingStrategy

\* The header grows by the next byte of the stream.
LEMMA ReadHeaderByteFrames ==
    ASSUME IInv, StreamInv, ReadHeaderByte
    PROVE  StreamInv' /\ [Framed!Next]_Framed!vars
<1>1. /\ state = "READ_LENGTH" /\ in_push /\ ~InputExhausted
      /\ HeldBytes /\ Framed!SyncAt(stream, Cut)
  BY DEF ReadHeaderByte, Turn, StreamInv
<1>2. CASE Len(buffer) >= FrameCapacity
  <2>1. UNCHANGED <<workspaceVars, historyVars>>
    BY <1>2 DEF ReadHeaderByte, InternalError
  <2> QED
    BY <2>1, WorkspaceKept
<1>3. CASE ~(Len(buffer) >= FrameCapacity)
  <2>1. /\ buffer' = Append(buffer, Head(input)) /\ state' = state /\ ConsumeByte
    BY <1>3 DEF ReadHeaderByte
  <2>2. /\ HeldBytes' /\ Cut' = Cut /\ Cut \in Nat
        /\ Len(stream) \in Nat /\ Holds(stream', stream) /\ Len(stream') \in Nat
        /\ [Framed!Next]_Framed!vars
    BY <1>1, <2>1, BytePut
  <2>3. Framed!SyncAt(stream', Cut')
    BY <1>1, <2>2, SyncStays
  <2> QED
    BY <1>1, <2>1, <2>2, <2>3 DEF StreamInv
<1> QED
  BY <1>2, <1>3

\* The declared length is accepted, or no frame starts at the cut.
LEMMA ReadLengthFrames ==
    ASSUME IInv, StreamInv, ReadLength
    PROVE  StreamInv' /\ [Framed!Next]_Framed!vars
<1> DEFINE declared == DeclaredLength(buffer)
<1>1. /\ state = "READ_LENGTH" /\ HeldBytes /\ Framed!SyncAt(stream, Cut)
      /\ framing.strategy = "SYNC_LENGTH_FIELD"
      /\ buffer' = buffer /\ stream' = stream /\ base' = base /\ frames' = frames
      /\ progress \in ProgressType /\ ~NeedsByte
  BY DEF ReadLength, Turn, StreamInv, IInv, TypeOK, CandidateShape, historyVars
<1>2. Len(buffer) = HeaderEnd /\ HeaderEnd \in Nat /\ HeaderEnd >= 1 /\ buffer \in Seq(Octet)
  <2>1. Len(buffer) \in Nat /\ HeaderEnd \in Nat /\ Len(buffer) <= HeaderEnd
    BY <1>1, PlanShape DEF IInv, TypeOK, CandidateShape
  <2>2. ~(Len(buffer) < HeaderEnd)
    BY <1>1 DEF NeedsByte
  <2> QED
    BY <1>1, <2>1, <2>2, PlanShape DEF IInv, TypeOK
<1>3. /\ Len(stream) \in Nat /\ Cut \in Nat /\ Cut + Len(buffer) = Len(stream)
  BY <1>1, CutInStream DEF Retained
<1>4. /\ Framed!DeclaredLength(Framed!Window(stream, Cut, Framed!HeaderEnd)) = declared
      /\ Cut + HeaderEnd <= Len(stream)
  BY <1>1, <1>2, WindowDeclared
<1>5. declared \in Nat
  BY <1>1, <1>2, DeclaredLengthNat
<1>6. state' \notin {"SEARCH_SYNC", "COPY_SYNC"}
  BY DEF ReadLength
<1>7. Cut' = Cut /\ HeldBytes'
  <2>1. Cut' = Cut
    BY <1>1, <1>6 DEF Cut, Retained
  <2> QED
    BY <1>1, <2>1 DEF HeldBytes
<1>8. [Framed!Next]_Framed!vars
  BY <1>1, <1>7, StandsStill
<1> HIDE DEF declared
<1>9. CASE LengthAccepted(declared)
  <2>1. /\ progress'.target_size = declared
        /\ state' = IF Len(buffer) = declared THEN "DELIVER_PENDING" ELSE "COLLECT_DECLARED"
    BY <1>1, <1>9 DEF ReadLength, ProgressType, declared
  <2>2. ASSUME Len(buffer) = declared
        PROVE  StreamInv'
    <3>1. Waiting
      BY <1>1, <1>2, <1>9, <2>2, CompleteFrame DEF declared
    <3>2. Waiting'
      BY <1>1, <1>7, <3>1 DEF Waiting
    <3> QED
      BY <2>1, <2>2, <3>2 DEF StreamInv
  <2>3. ASSUME Len(buffer) # declared
        PROVE  StreamInv'
    <3>1. TargetRight'
      BY <1>1, <1>2, <1>9, <2>1 DEF TargetRight, declared
    <3> QED
      BY <1>1, <1>7, <2>1, <2>3, <3>1 DEF StreamInv
  <2> QED
    BY <1>8, <2>2, <2>3
<1>10. CASE ~LengthAccepted(declared)
  <2>1. /\ progress'.rescan_index = 1 /\ progress'.rescan_match = 0
        /\ state' = "RESCAN_INVALID"
    BY <1>1, <1>10 DEF ReadLength, ProgressType, declared
  <2>2. Framed!BadLengthAt(stream, Cut)
    BY <1>1, <1>4, <1>10, SamePlan DEF Framed!BadLengthAt
  <2>3. EndsWith(stream, Cut + 1, 0)
    BY <1>3 DEF EndsWith
  <2>4. (Cut + 1)..(Cut + 1 - 0 - 1) = {}
    BY <1>3
  <2>5. Rescanning'
    BY <1>1, <1>7, <2>1, <2>2, <2>3, <2>4 DEF Rescanning
  <2> QED
    BY <1>8, <2>1, <2>5 DEF StreamInv
<1> QED
  BY <1>9, <1>10

\* The body grows by the next byte of the stream, and the declared length is not touched.
LEMMA CollectByteFrames ==
    ASSUME IInv, StreamInv, CollectByte
    PROVE  StreamInv' /\ [Framed!Next]_Framed!vars
<1>1. /\ state \in {"COLLECT_FIXED", "COLLECT_DECLARED"} /\ in_push /\ ~InputExhausted
      /\ HeldBytes
  BY DEF CollectByte, Turn, StreamInv
<1>2. CASE Len(buffer) >= FrameCapacity
  <2>1. UNCHANGED <<workspaceVars, historyVars>>
    BY <1>2 DEF CollectByte, InternalError
  <2> QED
    BY <2>1, WorkspaceKept
<1>3. CASE ~(Len(buffer) >= FrameCapacity)
  <2>1. /\ buffer' = Append(buffer, Head(input)) /\ state' = state /\ ConsumeByte
        /\ progress' = progress
    BY <1>3 DEF CollectByte
  <2>2. /\ HeldBytes' /\ Cut' = Cut /\ Cut \in Nat
        /\ Len(buffer) \in Nat /\ Len(buffer') = Len(buffer) + 1
        /\ \A i \in 1..Len(buffer) : buffer'[i] = buffer[i]
        /\ Len(stream) \in Nat /\ Holds(stream', stream) /\ Len(stream') \in Nat
        /\ [Framed!Next]_Framed!vars
    BY <1>1, <2>1, BytePut
  <2>3. CASE state = "COLLECT_FIXED"
    BY <2>1, <2>2, <2>3 DEF StreamInv
  <2>4. CASE state = "COLLECT_DECLARED"
    <3>1. Framed!SyncAt(stream, Cut) /\ TargetRight
      BY <2>4 DEF StreamInv
    <3>2. Framed!SyncAt(stream', Cut')
      BY <2>2, <3>1, SyncStays
    <3>3. ASSUME framing.strategy = "SYNC_LENGTH_FIELD"
          PROVE  /\ HeaderEnd <= Len(buffer')
                 /\ progress'.target_size = DeclaredLength(buffer')
                 /\ LengthAccepted(progress'.target_size)
      <4>1. /\ HeaderEnd <= Len(buffer) /\ progress.target_size = DeclaredLength(buffer)
            /\ LengthAccepted(progress.target_size)
        BY <3>1, <3>3 DEF TargetRight
      <4>2. HeaderEnd \in Nat
        BY PlanShape
      <4>3. \A i \in 1..HeaderEnd : buffer'[i] = buffer[i]
        BY <2>2, <4>1, <4>2
      <4>4. DeclaredLength(buffer') = DeclaredLength(buffer)
        BY <3>3, <4>3, DeclaredSame
      <4> QED
        BY <2>1, <2>2, <4>1, <4>2, <4>4
    <3>4. TargetRight'
      BY <2>1, <3>1, <3>3 DEF TargetRight
    <3> QED
      BY <2>1, <2>2, <2>4, <3>2, <3>4 DEF StreamInv
  <2> QED
    BY <1>1, <2>3, <2>4
<1> QED
  BY <1>2, <1>3

\* A buffer that reached its target is a frame of the stream.
LEMMA CollectDoneFrames ==
    ASSUME IInv, StreamInv, CollectDone
    PROVE  StreamInv' /\ [Framed!Next]_Framed!vars
<1>1. /\ state \in {"COLLECT_FIXED", "COLLECT_DECLARED"} /\ ~NeedsByte
      /\ HeldBytes /\ state' = "DELIVER_PENDING"
      /\ buffer' = buffer /\ stream' = stream /\ base' = base /\ frames' = frames
  BY DEF CollectDone, Turn, StreamInv, historyVars
<1>2. Len(buffer) = progress.target_size
  BY <1>1 DEF NeedsByte
<1>3. Waiting
  <2>1. CASE state = "COLLECT_FIXED"
    <3>1. framing.strategy = "FIXED_LENGTH" /\ progress.target_size = framing.frame_length_bytes
      BY <2>1, PlanShape DEF IInv, CandidateShape
    <3> QED
      BY <1>1, <1>2, <3>1, CompleteFrame
  <2>2. CASE state = "COLLECT_DECLARED"
    <3>1. SyncStrategy /\ Framed!SyncAt(stream, Cut) /\ TargetRight
      BY <2>2 DEF IInv, CandidateShape, StreamInv
    <3> QED
      BY <1>1, <1>2, <3>1, CompleteFrame DEF TargetRight, SyncStrategy
  <2> QED
    BY <1>1, <2>1, <2>2
<1>4. Cut' = Cut
  BY <1>1 DEF Cut, Retained
<1>5. HeldBytes'
  BY <1>1, <1>4 DEF HeldBytes
<1>6. Waiting'
  BY <1>1, <1>3, <1>4, <1>5 DEF Waiting
<1> QED
  BY <1>1, <1>4, <1>6, StandsStill DEF StreamInv

\* A reset starts the stream over at what was consumed.
LEMMA ResetFrames ==
    ASSUME IInv, StreamInv, Reset
    PROVE  StreamInv' /\ [Framed!Next]_Framed!vars
<1>1. /\ ResetCandidate /\ base' = Len(stream) /\ stream' = stream /\ frames' = frames
  BY DEF Reset
<1>2. stream \in Seq(Bytes) /\ Len(stream) \in Nat
  BY CutInStream
<1>3. RecordOpen(stream', base', Len(stream'))
  BY <1>1, <1>2 DEF RecordOpen
<1>4. StreamInv' /\ Cut' = Len(stream)
  BY <1>1, <1>2, <1>3, CandidateFrames
<1>5. Framed!Reset
  BY <1>1, <1>4 DEF Framed!Reset
<1> QED
  BY <1>4, <1>5 DEF Framed!Next

\* A new workspace is at the start of an empty stream.
LEMMA InitFrames ==
    ASSUME Init
    PROVE  StreamInv /\ Framed!Init
<1>1. /\ state = InitialState /\ buffer = << >> /\ progress = NoProgress
      /\ stream = << >> /\ base = 0 /\ frames = << >>
  BY DEF Init
<1>2. Len(buffer) = 0 /\ Len(stream) = 0 /\ progress.sync_match = 0
  BY <1>1 DEF NoProgress
<1>3. state \in {"COLLECT_ASCII", "COLLECT_FIXED", "SEARCH_SYNC"}
  BY <1>1, PlanShape DEF InitialState, FramingStrategy
<1>4. Cut = 0
  BY <1>2, <1>3 DEF Cut, Retained
<1>5. HeldBytes
  BY <1>2 DEF HeldBytes
<1>6. EndsWith(stream, Len(stream), progress.sync_match)
  BY <1>2 DEF EndsWith
<1>7. RecordOpen(stream, base, Cut)
  BY <1>1, <1>2, <1>4 DEF RecordOpen
<1> QED
  BY <1>1, <1>3, <1>4, <1>5, <1>6, <1>7 DEF StreamInv, Framed!Init

\* Every step of the framer is a step of the abstract framer or none.
LEMMA StepFrames ==
    ASSUME IInv, StreamInv, [Next]_vars
    PROVE  StreamInv' /\ [Framed!Next]_Framed!vars
<1>1. CASE LoopTurn
  <2>1. CASE BudgetStop
    BY <2>1, WorkspaceKept DEF BudgetStop
  <2>2. CASE InputStop
    BY <2>2, WorkspaceKept DEF InputStop
  <2> QED
    BY <1>1, <2>1, <2>2, DeliverPendingFrames, CollectAsciiFrames, DiscardUntilCrLfFrames,
       SearchSyncFrames, CopySyncByteFrames, CopySyncDoneFrames, ReadHeaderByteFrames,
       ReadLengthFrames, RescanByteFrames, RescanEndFrames, CompactInvalidFrames,
       CollectByteFrames, CollectDoneFrames
       DEF LoopTurn
<1>2. CASE \E byte \in Bytes : Arrive(byte)
  BY <1>2, WorkspaceKept DEF Arrive
<1>3. CASE \E offered \in 0..Len(input) : Push(offered)
  BY <1>3, WorkspaceKept DEF Push
<1>4. CASE Reset
  BY <1>4, ResetFrames
<1>5. CASE UNCHANGED vars
  BY <1>5, WorkspaceKept DEF vars
<1> QED
  BY <1>1, <1>2, <1>3, <1>4, <1>5 DEF Next

\* What each state of the loop of PushStreamChunk knows of the stream it read.
THEOREM StreamInvariance == Spec => []StreamInv
<1>1. Init => StreamInv
  BY InitFrames
<1>2. IInv /\ StreamInv /\ [Next]_vars => StreamInv'
  BY StepFrames
<1> QED
  BY <1>1, <1>2, Invariance, PTL DEF Spec

\* For every accepted plan, however the stream is cut into chunks, however small
\* the budget, and however the sink and the resets interrupt it, the framer
\* delivers the frames of the stream, in order and whole, and skips a byte only
\* when no frame can start on it.
THEOREM FramesStream == Spec => FramesTheStream
<1>1. Init => Framed!Init
  BY InitFrames
<1>2. IInv /\ StreamInv /\ [Next]_vars => [Framed!Next]_Framed!vars
  BY StepFrames
<1> QED
  BY <1>1, <1>2, Invariance, StreamInvariance, PTL DEF Spec, FramesTheStream, Framed!Spec

-----------------------------------------------------------------------------
(***************************************************************************)
(* What a finished call reports.                                           *)
(***************************************************************************)

\* A framer that needs a byte holds no complete frame.
LEMMA NothingReady ==
    ASSUME IInv, StreamInv, NeedsByte
    PROVE  ~Framed!FrameReady(stream, base, Cut)
<1> SUFFICES ASSUME NEW n \in 1..FrameCapacity, Framed!IsFrame(stream, base, Cut, n)
             PROVE  FALSE
  BY SamePlan DEF Framed!FrameReady
<1>1. /\ stream \in Seq(Bytes) /\ Len(stream) \in Nat /\ base \in Nat /\ base <= Len(stream)
      /\ Cut \in Nat /\ Cut + Retained = Len(stream) /\ Retained \in Nat
  BY CutInStream
<1>2. /\ n \in Nat /\ n >= 1 /\ Len(buffer) \in Nat /\ Len(buffer) <= FrameCapacity
      /\ progress \in ProgressType /\ FrameCapacity \in Nat /\ Len(Sync) \in Nat
      /\ HeaderEnd \in Nat
  BY PlanShape DEF IInv, TypeOK
<1>3. Cut + n <= Len(stream)
  BY DEF Framed!IsFrame
<1>4. n <= Retained
  BY <1>1, <1>2, <1>3
<1>5. CASE state = "COLLECT_ASCII"
  <2>1. framing.strategy = "ASCII_CRLF" /\ RecordOpen(stream, base, Cut)
    BY <1>5 DEF IInv, CandidateShape, StreamInv
  <2>2. Framed!TerminatorEndsAt(stream, Cut, Cut + n)
    BY <2>1 DEF Framed!IsFrame
  <2> DEFINE e == Cut + n
  <2>3. e \in Nat
    BY <1>1, <1>2
  <2> HIDE DEF e
  <2>4. ~Framed!TerminatorEndsAt(stream, Cut, e)
    BY <1>1, <2>1, <2>3, RecordHasNone
  <2> QED
    BY <2>2, <2>4 DEF e
<1>6. CASE state = "DISCARD_UNTIL_CRLF"
  <2>1. buffer = << >>
    BY <1>6 DEF IInv, CandidateShape
  <2> QED
    BY <1>2, <1>4, <1>6, <2>1 DEF Retained
<1>7. CASE state = "SEARCH_SYNC"
  <2>1. SyncStrategy /\ Retained < Len(Sync)
    BY <1>7 DEF IInv, CandidateShape, Retained
  <2>2. Framed!SyncAt(stream, Cut)
    BY <2>1 DEF Framed!IsFrame, SyncStrategy
  <2>3. Cut + Len(Sync) <= Len(stream)
    BY <1>1, <2>2, SyncAtEnd
  <2> QED
    BY <1>1, <1>2, <2>1, <2>3
<1>8. CASE state = "READ_LENGTH"
  <2>1. framing.strategy = "SYNC_LENGTH_FIELD" /\ Len(buffer) < HeaderEnd
    BY <1>8 DEF IInv, CandidateShape, NeedsByte
  <2>2. n >= HeaderEnd
    BY <2>1, SamePlan DEF Framed!IsFrame
  <2> QED
    BY <1>2, <1>4, <1>8, <2>1, <2>2 DEF Retained
<1>9. CASE state = "COLLECT_FIXED"
  <2>1. /\ framing.strategy = "FIXED_LENGTH" /\ progress.target_size = FrameCapacity
        /\ Len(buffer) # progress.target_size
    BY <1>9 DEF IInv, CandidateShape, NeedsByte
  <2>2. n = FrameCapacity
    BY <2>1, PlanShape DEF Framed!IsFrame
  <2> QED
    BY <1>2, <1>4, <1>9, <2>1, <2>2 DEF Retained
<1>10. CASE state = "COLLECT_DECLARED"
  <2>1. /\ SyncStrategy /\ Len(buffer) <= progress.target_size /\ HeldBytes /\ TargetRight
        /\ Len(buffer) # progress.target_size
    BY <1>10 DEF IInv, CandidateShape, NeedsByte, StreamInv
  <2>2. progress.target_size \in Nat
    BY <1>2, Ranges DEF ProgressType
  <2>3. n = progress.target_size
    <3>1. CASE framing.strategy = "SYNC_FIXED_LENGTH"
      BY <2>1, <3>1 DEF Framed!IsFrame, TargetRight
    <3>2. CASE framing.strategy = "SYNC_LENGTH_FIELD"
      <4>1. HeaderEnd <= Len(buffer) /\ progress.target_size = DeclaredLength(buffer)
        BY <2>1, <3>2 DEF TargetRight
      <4>2. Framed!DeclaredLength(Framed!Window(stream, Cut, Framed!HeaderEnd))
              = DeclaredLength(buffer)
        BY <1>10, <2>1, <3>2, <4>1, WindowDeclared
      <4>3. n = Framed!DeclaredLength(Framed!Window(stream, Cut, Framed!HeaderEnd))
        BY <3>2 DEF Framed!IsFrame
      <4> QED
        BY <4>1, <4>2, <4>3
    <3> QED
      BY <2>1, <3>1, <3>2 DEF SyncStrategy
  <2> QED
    BY <1>2, <1>4, <1>10, <2>1, <2>2, <2>3 DEF Retained
<1> QED
  BY <1>5, <1>6, <1>7, <1>8, <1>9, <1>10 DEF NeedsByte

\* A turn of the loop that ends the call gives a true reason.
LEMMA TurnTellsTheReason ==
    ASSUME IInv, StreamInv, LoopTurn
    PROVE  StopReasonTruthful'
<1> SUFFICES ASSUME ~in_push', result'.api_status = "OK"
             PROVE  StopReasonTruthful'
  BY DEF StopReasonTruthful
<1>1. /\ in_push /\ result \in ResultType /\ progress \in ProgressType /\ MaxWorkUnits \in Nat
      /\ result.work_units_used \in Nat /\ result.work_units_used <= MaxWorkUnits
      /\ Len(buffer) \in Nat /\ HeaderEnd \in Nat
  BY LimitsAssumption, PlanShape DEF LoopTurn, IInv, TypeOK, ResultType
<1>2. CASE BudgetStop
  <2>1. /\ result'.stop_reason = "WORK_BUDGET_REACHED"
        /\ result'.bytes_consumed = result.bytes_consumed /\ result'.offered = result.offered
        /\ state' = state /\ buffer' = buffer
    BY <1>1, <1>2 DEF BudgetStop, Return, ResultType, workspaceVars
  <2>2. ~InputExhausted \/ HasInternalWork
    <3>1. ASSUME InputExhausted
          PROVE  HasInternalWork
      <4>1. ~NeedsByte
        BY <1>2, <3>1 DEF BudgetStop
      <4>2. CASE state \in {"COLLECT_FIXED", "COLLECT_DECLARED"}
        <5>1. NextCharge = 0
          BY <4>1, <4>2 DEF NextCharge
        <5>2. CanCharge(NextCharge)
          BY <1>1, <5>1 DEF CanCharge
        <5> QED
          BY <1>2, <4>2, <5>2 DEF BudgetStop
      <4>3. CASE state \notin {"COLLECT_FIXED", "COLLECT_DECLARED"}
        <5>1. state \in State
          BY DEF IInv, TypeOK
        <5>2. state = "READ_LENGTH" => Len(buffer) >= HeaderEnd
          BY <1>1, <4>1 DEF NeedsByte
        <5> QED
          BY <4>1, <4>3, <5>1, <5>2 DEF State, NeedsByte, HasInternalWork
      <4> QED
        BY <4>2, <4>3
    <3> QED
      BY <3>1
  <2>3. (InputExhausted' <=> InputExhausted) /\ (HasInternalWork' <=> HasInternalWork)
    BY <2>1 DEF InputExhausted, HasInternalWork
  <2> QED
    BY <2>1, <2>2, <2>3 DEF StopReasonTruthful
<1>3. CASE InputStop
  <2> DEFINE reason == IF HasInternalWork THEN "WORK_BUDGET_REACHED"
                       ELSE IF HasHalfFrame THEN "NEED_MORE" ELSE "INPUT_EXHAUSTED"
  <2>1. /\ result'.stop_reason = reason /\ NeedsByte /\ InputExhausted
        /\ result'.bytes_consumed = result.bytes_consumed /\ result'.offered = result.offered
        /\ UNCHANGED <<workspaceVars, historyVars>>
    BY <1>1, <1>3 DEF InputStop, Return, ResultType
  <2>2. /\ state' = state /\ buffer' = buffer /\ progress' = progress
        /\ stream' = stream /\ base' = base
    BY <2>1 DEF workspaceVars, historyVars
  <2>3. Cut' = Cut /\ Retained' = Retained
    BY <2>2 DEF Cut, Retained
  <2>4. (InputExhausted' <=> InputExhausted) /\ (HasInternalWork' <=> HasInternalWork)
    BY <2>1, <2>2 DEF InputExhausted, HasInternalWork
  <2>5. ~HasInternalWork
    BY <1>1, <2>1 DEF NeedsByte, HasInternalWork
  <2>6. CASE HasHalfFrame
    <3>1. ~Framed!FrameReady(stream', base', Cut')
      BY <2>1, <2>2, <2>3, NothingReady
    <3>2. result'.stop_reason = "NEED_MORE"
      BY <2>1, <2>5, <2>6
    <3> QED
      BY <2>1, <2>4, <3>1, <3>2 DEF StopReasonTruthful
  <2>7. CASE ~HasHalfFrame
    <3>1. Retained = 0
      <4>1. state = "SEARCH_SYNC" => progress.sync_match = 0
        BY <2>7 DEF HasHalfFrame
      <4>2. state \in {"COLLECT_ASCII", "READ_LENGTH", "COLLECT_FIXED", "COLLECT_DECLARED"} =>
              buffer = << >>
        BY <2>7 DEF HasHalfFrame
      <4>3. state \in {"COLLECT_ASCII", "READ_LENGTH", "COLLECT_FIXED", "COLLECT_DECLARED",
                       "SEARCH_SYNC"}
        BY <2>1, <2>7 DEF NeedsByte, HasHalfFrame
      <4> QED
        BY <4>1, <4>2, <4>3 DEF Retained
    <3>2. result'.stop_reason = "INPUT_EXHAUSTED"
      BY <2>1, <2>5, <2>7
    <3> QED
      BY <2>1, <2>3, <2>4, <2>5, <3>1, <3>2 DEF StopReasonTruthful
  <2> QED
    BY <2>6, <2>7
<1>4. CASE DeliverPending
  <2>1. PICK action \in {"CONTINUE", "STOP"} :
          /\ in_push' = (action = "CONTINUE")
          /\ result' = [result EXCEPT !.frames_delivered = @ + 1,
                                      !.stop_reason = IF action = "STOP" THEN "SINK_STOP" ELSE @]
    BY <1>4 DEF DeliverPending
  <2>2. result'.stop_reason = "SINK_STOP" /\ result'.frames_delivered > 0
    <3>1. in_push' = (action = "CONTINUE")
      BY <2>1
    <3>2. action # "CONTINUE"
      BY <3>1, Zenon
    <3>3. action = "STOP"
      BY <3>2
    <3>4. result' = [result EXCEPT !.frames_delivered = @ + 1, !.stop_reason = "SINK_STOP"]
      BY <2>1, <3>3
    <3> QED
      BY <1>1, <3>4 DEF ResultType
  <2>3. Retained' = 0
    BY <1>4, CandidateReset DEF DeliverPending
  <2> QED
    BY <2>2, <2>3 DEF StopReasonTruthful
<1>5. CASE CompactInvalid
  <2>1. /\ state' = "COMPACT_INVALID"
        /\ result'.stop_reason = "WORK_BUDGET_REACHED"
    BY <1>1, <1>5 DEF CompactInvalid, Turn, ResultType
  <2> QED
    BY <2>1 DEF StopReasonTruthful, HasInternalWork
<1>6. CASE CollectAscii \/ ReadHeaderByte \/ CollectByte \/ CopySyncByte
  <2>1. ASSUME NEW units, InternalError(units)
        PROVE  FALSE
    BY <1>1, <2>1 DEF InternalError, ResultType
  <2> QED
    BY <1>1, <1>6, <2>1 DEF CollectAscii, ReadHeaderByte, CollectByte, CopySyncByte
<1>7. CASE \/ DiscardUntilCrLf \/ SearchSync \/ CopySyncDone \/ ReadLength
           \/ RescanByte \/ RescanEnd \/ CollectDone
  BY <1>1, <1>7 DEF DiscardUntilCrLf, SearchSync, CopySyncDone, ReadLength, RescanByte,
                    RescanEnd, CollectDone
<1> QED
  BY <1>2, <1>3, <1>4, <1>5, <1>6, <1>7 DEF LoopTurn

\* The caller's steps keep the reason true: a refused call has none, and after a
\* reset nothing is left.
LEMMA CallerKeepsTheReason ==
    ASSUME IInv, StopReasonTruthful,
           \/ \E byte \in Bytes : Arrive(byte)
           \/ \E offered \in 0..Len(input) : Push(offered)
           \/ Reset
           \/ UNCHANGED vars
    PROVE  StopReasonTruthful'
<1>1. ASSUME UNCHANGED <<workspaceVars, historyVars, in_push, result>>
      PROVE  StopReasonTruthful'
  <2>1. /\ state' = state /\ buffer' = buffer /\ progress' = progress
        /\ stream' = stream /\ base' = base /\ in_push' = in_push /\ result' = result
    BY <1>1 DEF workspaceVars, historyVars
  <2>2. Cut' = Cut /\ Retained' = Retained
    BY <2>1 DEF Cut, Retained
  <2>3. (InputExhausted' <=> InputExhausted) /\ (HasInternalWork' <=> HasInternalWork)
    BY <2>1 DEF InputExhausted, HasInternalWork
  <2> QED
    BY <2>1, <2>2, <2>3 DEF StopReasonTruthful
<1>2. ASSUME NEW offered \in 0..Len(input), Push(offered)
      PROVE  StopReasonTruthful'
  <2>1. in_push' \/ result'.api_status = "LIMIT_EXCEEDED"
    BY <1>2 DEF Push, NewResult
  <2> QED
    BY <2>1 DEF StopReasonTruthful
<1>3. ASSUME Reset
      PROVE  StopReasonTruthful'
  <2>1. /\ result' = NewResult("OK", 0) /\ ResetCandidate
    BY <1>3 DEF Reset
  <2>2. Retained' = 0 /\ state' = InitialState
    BY <2>1, CandidateReset DEF ResetCandidate
  <2>3. ~HasInternalWork'
    BY <2>2, PlanShape DEF HasInternalWork, InitialState, FramingStrategy
  <2>4. result'.stop_reason = "INPUT_EXHAUSTED" /\ InputExhausted'
    BY <2>1 DEF NewResult, InputExhausted
  <2> QED
    BY <2>2, <2>3, <2>4 DEF StopReasonTruthful
<1> QED
  BY <1>1, <1>2, <1>3 DEF Arrive, vars

\* NEED_MORE and INPUT_EXHAUSTED leave no complete frame behind, another call has
\* work after WORK_BUDGET_REACHED, and SINK_STOP leaves an empty workspace.
THEOREM ReasonTold == Spec => []StopReasonTruthful
<1>1. Init => StopReasonTruthful
  <2> SUFFICES ASSUME Init
               PROVE  StopReasonTruthful
    OBVIOUS
  <2>1. /\ result = NewResult("OK", 0) /\ state = InitialState /\ buffer = << >>
        /\ progress.sync_match = 0
    BY DEF Init, NoProgress
  <2>2. state \in {"COLLECT_ASCII", "COLLECT_FIXED", "SEARCH_SYNC"}
    BY <2>1, PlanShape DEF InitialState, FramingStrategy
  <2>3. Retained = 0 /\ ~HasInternalWork
    BY <2>1, <2>2 DEF Retained, HasInternalWork
  <2>4. result.stop_reason = "INPUT_EXHAUSTED" /\ InputExhausted
    BY <2>1 DEF NewResult, InputExhausted
  <2> QED
    BY <2>3, <2>4 DEF StopReasonTruthful
<1>2. IInv /\ StreamInv /\ StopReasonTruthful /\ [Next]_vars => StopReasonTruthful'
  BY TurnTellsTheReason, CallerKeepsTheReason DEF Next
<1> QED
  BY <1>1, <1>2, Invariance, StreamInvariance, PTL DEF Spec

-----------------------------------------------------------------------------
(***************************************************************************)
(* The count of refused lengths.  A candidate is counted when its length   *)
(* is refused and stays at the cut until it is skipped, so the count is    *)
(* the refused offsets before the cut and the one being rescanned.         *)
(***************************************************************************)
InFrame(i, p) == p \in frames[i].from .. (frames[i].from + Len(frames[i].bytes) - 1)

\* The offsets before the cut whose declared length was refused.
Refused ==
    {p \in 0..(Cut - 1) : Framed!BadLengthAt(stream, p) /\ \A i \in DOMAIN frames : ~InFrame(i, p)}

\* The refused offset that is still at the cut.
Rescan == IF state \in {"RESCAN_INVALID", "COMPACT_INVALID"} THEN 1 ELSE 0

\* Delivered frames end before the cut.
FramesDecided == \A i \in DOMAIN frames : frames[i].from + Len(frames[i].bytes) <= Cut

\* Every offset before the cut was delivered, mismatched or refused.
SkippedHopeless ==
    base = 0 =>
        \A p \in 0..(Cut - 1) :
            \/ \E i \in DOMAIN frames : InFrame(i, p)
            \/ Framed!SyncMismatch(stream, p) \/ Framed!BadLengthAt(stream, p)

Counted == base = 0 => total_malformed = Cardinality(Refused) + Rescan

CountInv ==
    framing.strategy = "SYNC_LENGTH_FIELD" => FramesDecided /\ SkippedHopeless /\ Counted

\* A refused length stays refused when the stream grows.
LEMMA RefusalStays ==
    ASSUME framing.strategy = "SYNC_LENGTH_FIELD",
           NEW s \in Seq(Bytes), NEW t \in Seq(Bytes), Holds(t, s), NEW p \in Nat,
           Framed!BadLengthAt(s, p)
    PROVE  Framed!BadLengthAt(t, p)
<1> DEFINE h == HeaderEnd
           v == SubSeq(s, p + 1, p + h)
           w == SubSeq(t, p + 1, p + h)
<1>1. h \in Nat /\ Len(s) \in Nat /\ Len(t) \in Nat
  BY PlanShape
<1>2. Framed!SyncAt(s, p) /\ p + h <= Len(s) /\ ~LengthAccepted(DeclaredLength(v))
  BY SamePlan DEF Framed!BadLengthAt, Framed!Window
<1>3. Framed!SyncAt(t, p)
  BY <1>1, <1>2, SyncStays
<1>4. p + h <= Len(t)
  BY <1>1, <1>2 DEF Holds
<1>5. \A i \in 1..h : v[i] = w[i]
  <2> TAKE i \in 1..h
  <2>1. v[i] = s[p + i] /\ w[i] = t[p + i]
    <3> HIDE DEF h
    <3> QED
      BY <1>1, <1>2, <1>4, WindowBytes
  <2>2. p + i \in 1..Len(s)
    BY <1>1, <1>2
  <2> QED
    BY <2>1, <2>2 DEF Holds
<1> HIDE DEF v, w
<1>6. DeclaredLength(v) = DeclaredLength(w)
  BY <1>5, DeclaredSame
<1>7. ~LengthAccepted(DeclaredLength(w))
  BY <1>2, <1>6
<1> QED
  BY <1>3, <1>4, <1>7, SamePlan DEF Framed!BadLengthAt, Framed!Window, w

\* The cut is what was delivered, discarded and dropped.
LEMMA CutCounts ==
    ASSUME TypeOK, ByteAccounting
    PROVE  Cut = delivered + total_discarded + dropped
<1>1. /\ progress \in ProgressType /\ Len(buffer) \in Nat
      /\ delivered \in Nat /\ total_discarded \in Nat /\ dropped \in Nat
  BY DEF TypeOK
<1>2. Retained \in Nat
  BY <1>1, Ranges DEF Retained, ProgressType
<1>3. Len(stream) = delivered + total_discarded + dropped + Retained
  BY DEF ByteAccounting
<1> QED
  BY <1>1, <1>2, <1>3 DEF Cut

\* The same of the next state.
LEMMA CutCountsNext ==
    ASSUME TypeOK', ByteAccounting'
    PROVE  Cut' = delivered' + total_discarded' + dropped'
<1>1. /\ progress' \in ProgressType /\ Len(buffer') \in Nat
      /\ delivered' \in Nat /\ total_discarded' \in Nat /\ dropped' \in Nat
  BY DEF TypeOK
<1>2. Retained' \in Nat
  BY <1>1, Ranges DEF Retained, ProgressType
<1>3. Len(stream') = delivered' + total_discarded' + dropped' + Retained'
  BY DEF ByteAccounting
<1> QED
  BY <1>1, <1>2, <1>3 DEF Cut

\* A turn that delivers nothing moves the cut over hopeless offsets.
LEMMA TurnAdvances ==
    ASSUME IInv, StreamInv, LoopTurn, ~DeliverPending
    PROVE  /\ frames' = frames /\ base' = base /\ delivered' = delivered /\ dropped' = dropped
           /\ stream' \in Seq(Bytes) /\ Holds(stream', stream)
           /\ Len(stream) \in Nat /\ Len(stream') \in Nat /\ Len(stream') <= Len(stream) + 1
           /\ Cut \in Nat /\ Cut' \in Nat /\ Cut <= Cut'
           /\ base = 0 => \A p \in Cut..(Cut' - 1) : Framed!Hopeless(stream', base, p)
<1>1. frames' = frames /\ base' = base /\ delivered' = delivered /\ dropped' = dropped
  BY DEF LoopTurn, CollectAscii, DiscardUntilCrLf, SearchSync, CopySyncByte, CopySyncDone,
         ReadHeaderByte, ReadLength, RescanByte, RescanEnd, CompactInvalid, CollectByte,
         CollectDone, BudgetStop, InputStop, InternalError, ConsumeByte, historyVars
<1>2. [Framed!Next]_Framed!vars
  BY StepFrames DEF Next
<1>3. /\ stream \in Seq(Bytes) /\ Len(stream) \in Nat /\ Cut \in Nat /\ Cut <= Len(stream)
      /\ frames \in Seq(FrameType)
  <2>1. Retained \in Nat /\ Cut + Retained = Len(stream) /\ Cut \in Nat /\ stream \in Seq(Bytes)
    BY CutInStream
  <2> QED
    BY <2>1 DEF IInv, TypeOK
<1>4. CASE Framed!Advance
  <2>1. stream' = stream \/ \E b \in Bytes : stream' = Append(stream, b)
    BY <1>4 DEF Framed!Advance
  <2>2. /\ stream' \in Seq(Bytes) /\ Len(stream') \in Nat /\ Len(stream') <= Len(stream) + 1
        /\ Holds(stream', stream)
    BY <1>3, <2>1, StreamGrows DEF Holds
  <2>3. /\ Cut' \in Cut..Len(stream')
        /\ \A p \in Cut..(Cut' - 1) : Framed!Hopeless(stream', base, p)
    BY <1>4 DEF Framed!Advance
  <2>4. Cut' \in Nat /\ Cut <= Cut'
    BY <1>3, <2>2, <2>3
  <2> QED
    BY <1>1, <1>3, <2>2, <2>3, <2>4, Zenon
<1>5. CASE Framed!Emit
  <2>1. PICK n : frames' = Append(frames, [from |-> Cut, bytes |-> Framed!Window(stream, Cut, n)])
    BY <1>5 DEF Framed!Emit
  <2> DEFINE new == [from |-> Cut, bytes |-> Framed!Window(stream, Cut, n)]
  <2>2. Len(Append(frames, new)) = Len(frames) + 1 /\ Len(frames) \in Nat
    <3> HIDE DEF new
    <3> QED
      BY <1>3
  <2>3. Len(frames) = Len(frames) + 1
    BY <1>1, <2>1, <2>2
  <2> QED
    BY <2>2, <2>3
<1>6. CASE Framed!Reset
  <2>1. stream' = stream /\ base' = Len(stream) /\ Cut' = Len(stream)
    BY <1>6 DEF Framed!Reset
  <2>2. ASSUME base = 0
        PROVE  Cut..(Cut' - 1) = {}
    <3>1. Cut' = 0
      BY <1>1, <2>1, <2>2
    <3> DEFINE c == Cut
               d == Cut'
    <3>2. c \in Nat /\ d = 0
      BY <1>3, <3>1
    <3> HIDE DEF c, d
    <3>3. c..(d - 1) = {}
      BY <3>2
    <3> QED
      BY <3>3 DEF c, d
  <2> QED
    BY <1>1, <1>3, <2>1, <2>2 DEF Holds
<1>7. CASE UNCHANGED Framed!vars
  <2>1. stream' = stream /\ Cut' = Cut
    BY <1>7 DEF Framed!vars
  <2>2. Cut..(Cut' - 1) = {}
    BY <1>3, <2>1
  <2> QED
    BY <1>1, <1>3, <2>1, <2>2 DEF Holds
<1> QED
  BY <1>2, <1>4, <1>5, <1>6, <1>7 DEF Framed!Next

\* An interval is what is before an offset and what is behind it.
LEMMA SplitAt ==
    ASSUME NEW c \in Nat, NEW d \in Nat, c <= d
    PROVE  /\ \A p : p \in 0..(d - 1) <=> p \in 0..(c - 1) \/ p \in c..(d - 1)
           /\ \A p \in 0..(c - 1) : p \notin c..(d - 1)
OBVIOUS

\* The refused offsets after such a turn: those before it and those it skipped.
LEMMA RefusedAfterTurn ==
    ASSUME framing.strategy = "SYNC_LENGTH_FIELD", IInv, StreamInv, CountInv,
           LoopTurn, ~DeliverPending
    PROVE  /\ FramesDecided' /\ SkippedHopeless'
           /\ base = 0 => Refused' = Refused \cup
                            {p \in Cut..(Cut' - 1) : Framed!BadLengthAt(stream', p)}
<1>1. /\ frames' = frames /\ base' = base /\ stream \in Seq(Bytes)
      /\ stream' \in Seq(Bytes) /\ Holds(stream', stream)
      /\ Len(stream) \in Nat /\ Len(stream') \in Nat
      /\ Cut \in Nat /\ Cut' \in Nat /\ Cut <= Cut'
      /\ base = 0 => \A p \in Cut..(Cut' - 1) : Framed!Hopeless(stream', base, p)
  BY TurnAdvances, CutInStream
<1>2. FramesDecided /\ SkippedHopeless /\ frames \in Seq(FrameType)
  BY DEF CountInv, IInv, TypeOK
<1>3. ASSUME NEW i \in DOMAIN frames
      PROVE  /\ frames[i].from \in Nat /\ Len(frames[i].bytes) \in Nat
             /\ frames[i].from + Len(frames[i].bytes) <= Cut
  <2>1. frames[i] \in FrameType
    BY <1>2
  <2> QED
    BY <1>2, <2>1 DEF FrameType, FramesDecided
<1> DEFINE c == Cut
           d == Cut'
           t == stream'
<1>4. c \in Nat /\ d \in Nat /\ c <= d
  BY <1>1
<1>5. FramesDecided'
  <2> SUFFICES ASSUME NEW i \in DOMAIN frames
               PROVE  frames[i].from + Len(frames[i].bytes) <= d
    BY <1>1 DEF FramesDecided
  <2> QED
    BY <1>3, <1>4
<1>6. ASSUME NEW i \in DOMAIN frames, NEW p \in c..(d - 1)
      PROVE  ~InFrame(i, p)
  <2>1. frames[i].from + Len(frames[i].bytes) <= c /\ frames[i].from \in Nat
        /\ Len(frames[i].bytes) \in Nat
    BY <1>3
  <2> HIDE DEF c, d
  <2> QED
    BY <1>4, <2>1 DEF InFrame
<1>7. ASSUME NEW i, NEW p
      PROVE  InFrame(i, p)' <=> InFrame(i, p)
  BY <1>1 DEF InFrame
<1>8. ASSUME base = 0, NEW p \in c..(d - 1)
      PROVE  Framed!SyncMismatch(t, p) \/ Framed!BadLengthAt(t, p)
  <2>1. Framed!Hopeless(t, base, p)
    BY <1>1, <1>8
  <2> QED
    BY <2>1 DEF Framed!Hopeless
<1>9. ASSUME base = 0, NEW p \in 0..(c - 1), \A i \in DOMAIN frames : ~InFrame(i, p)
      PROVE  Framed!SyncMismatch(t, p) \/ (Framed!BadLengthAt(stream, p) /\ Framed!BadLengthAt(t, p))
  <2>1. Framed!SyncMismatch(stream, p) \/ Framed!BadLengthAt(stream, p)
    BY <1>2, <1>9 DEF SkippedHopeless
  <2>2. p \in Nat
    BY <1>4
  <2> QED
    BY <1>1, <2>1, <2>2, MismatchStays, RefusalStays
<1>10. SkippedHopeless'
  <2> SUFFICES ASSUME base = 0, NEW p \in 0..(d - 1), \A i \in DOMAIN frames : ~InFrame(i, p)
               PROVE  Framed!SyncMismatch(t, p) \/ Framed!BadLengthAt(t, p)
    BY <1>1, <1>7 DEF SkippedHopeless
  <2>1. p \in 0..(c - 1) \/ p \in c..(d - 1)
    <3> HIDE DEF c, d
    <3> QED
      BY <1>4, SplitAt
  <2> QED
    BY <1>8, <1>9, <2>1
<1>11. ASSUME base = 0
       PROVE  Refused' = Refused \cup {p \in c..(d - 1) : Framed!BadLengthAt(t, p)}
  <2>1. \A p : Framed!BadLengthAt(t, p) => ~Framed!SyncMismatch(t, p)
    BY DEF Framed!BadLengthAt, Framed!SyncAt
  <2>2. Refused' = {p \in 0..(d - 1) :
                      Framed!BadLengthAt(t, p) /\ \A i \in DOMAIN frames : ~InFrame(i, p)}
    BY <1>1, <1>7 DEF Refused
  <2>3. /\ \A p : p \in 0..(d - 1) <=> p \in 0..(c - 1) \/ p \in c..(d - 1)
        /\ \A p \in 0..(c - 1) : p \notin c..(d - 1)
    <3> HIDE DEF c, d
    <3> QED
      BY <1>4, SplitAt
  <2>4. \A p \in 0..(c - 1) : (\A i \in DOMAIN frames : ~InFrame(i, p)) =>
           (Framed!BadLengthAt(t, p) <=> Framed!BadLengthAt(stream, p))
    <3> SUFFICES ASSUME NEW p \in 0..(c - 1), \A i \in DOMAIN frames : ~InFrame(i, p)
                 PROVE  Framed!BadLengthAt(t, p) <=> Framed!BadLengthAt(stream, p)
      OBVIOUS
    <3>1. p \in Nat
      BY <1>4
    <3> QED
      BY <1>1, <1>9, <1>11, <2>1, <3>1, RefusalStays
  <2>5. Refused = {p \in 0..(c - 1) :
                     Framed!BadLengthAt(stream, p) /\ \A i \in DOMAIN frames : ~InFrame(i, p)}
    BY DEF Refused
  <2> HIDE DEF c, d, t
  <2>6. \A p : p \in Refused' <=>
                 p \in Refused \cup {q \in c..(d - 1) : Framed!BadLengthAt(t, q)}
    BY <1>6, <2>2, <2>3, <2>4, <2>5
  <2> QED
    BY <2>6
<1> QED
  BY <1>5, <1>10, <1>11

\* What each turn does to the count and to the discarded bytes.
LEMMA CountMoves ==
    ASSUME framing.strategy = "SYNC_LENGTH_FIELD", IInv, StreamInv, LoopTurn, ~DeliverPending
    PROVE  \/ /\ total_discarded' = total_discarded
              /\ total_malformed' + Rescan = total_malformed + Rescan'
           \/ /\ state = "SEARCH_SYNC" /\ Rescan' = 0 /\ total_malformed' = total_malformed
           \/ /\ state \in {"RESCAN_INVALID", "COMPACT_INVALID"} /\ Rescan' = 0
              /\ total_discarded' > total_discarded
              /\ total_malformed' = total_malformed /\ stream' = stream
<1>1. /\ total_malformed \in Nat /\ total_discarded \in Nat /\ progress \in ProgressType
      /\ Len(buffer) \in Nat
  BY DEF IInv, TypeOK
<1>2. CASE CollectAscii \/ DiscardUntilCrLf
  BY <1>2 DEF CollectAscii, DiscardUntilCrLf, Turn, IInv, CandidateShape
<1>3. CASE CopySyncByte \/ ReadHeaderByte \/ CollectByte \/ BudgetStop \/ InputStop
  BY <1>1, <1>3 DEF CopySyncByte, ReadHeaderByte, CollectByte, BudgetStop, InputStop,
                    InternalError, workspaceVars, Rescan
<1>4. CASE CopySyncDone \/ CollectDone
  BY <1>1, <1>4 DEF CopySyncDone, CollectDone, Turn, Rescan
<1>5. CASE RescanByte
  BY <1>1, <1>5 DEF RescanByte, Turn, Rescan
<1>6. CASE ReadLength
  BY <1>1, <1>6 DEF ReadLength, Turn, Rescan
<1>7. CASE SearchSync
  BY <1>1, <1>7 DEF SearchSync, Turn, Rescan
<1>8. CASE RescanEnd
  <2>1. /\ state = "RESCAN_INVALID" /\ state' = "SEARCH_SYNC" /\ stream' = stream
        /\ total_discarded' = total_discarded + Len(buffer) - progress.rescan_match
        /\ total_malformed' = total_malformed
    BY <1>8 DEF RescanEnd, Turn, historyVars
  <2>2. progress.rescan_match < Len(buffer) /\ progress.rescan_match \in Nat
    BY <1>1, <1>8, <2>1, Ranges DEF RescanEnd, IInv, CandidateShape, ProgressType
  <2> QED
    BY <1>1, <2>1, <2>2 DEF Rescan
<1>9. CASE CompactInvalid
  <2> DEFINE done == Min({progress.compact_size - progress.compact_moved,
                          MaxWorkUnits - result.work_units_used})
                       = progress.compact_size - progress.compact_moved
  <2>1. /\ state = "COMPACT_INVALID" /\ stream' = stream /\ total_malformed' = total_malformed
        /\ state' = IF done THEN "READ_LENGTH" ELSE state
        /\ total_discarded' = total_discarded + IF done THEN progress.compact_start ELSE 0
    BY <1>9 DEF CompactInvalid, Turn, historyVars
  <2>2. progress.compact_start \in Nat
    BY <1>1, Ranges DEF ProgressType
  <2>3. progress.compact_start >= 1
    <3>1. Compacting
      BY <2>1 DEF StreamInv
    <3> QED
      BY <3>1 DEF Compacting
  <2> HIDE DEF done
  <2> QED
    BY <1>1, <2>1, <2>2, <2>3 DEF Rescan
<1> QED
  BY <1>2, <1>3, <1>4, <1>5, <1>6, <1>7, <1>8, <1>9 DEF LoopTurn

\* A turn that delivers nothing keeps the count.
LEMMA TurnCounts ==
    ASSUME framing.strategy = "SYNC_LENGTH_FIELD", IInv, StreamInv, CountInv,
           LoopTurn, ~DeliverPending
    PROVE  CountInv'
<1> DEFINE c == Cut
           d == Cut'
           t == stream'
           New == {p \in c..(d - 1) : Framed!BadLengthAt(t, p)}
<1>1. /\ base' = base /\ delivered' = delivered /\ dropped' = dropped
      /\ Len(stream) \in Nat /\ Len(t) \in Nat /\ Len(t) <= Len(stream) + 1
      /\ c \in Nat /\ d \in Nat /\ c <= d
  BY TurnAdvances
<1>2. FramesDecided' /\ SkippedHopeless' /\ (base = 0 => Refused' = Refused \cup New)
  BY RefusedAfterTurn
<1>3. /\ total_malformed \in Nat /\ progress \in ProgressType /\ Len(buffer) \in Nat
      /\ delivered \in Nat /\ total_discarded \in Nat /\ dropped \in Nat
  BY DEF IInv, TypeOK
<1>4. c = delivered + total_discarded + dropped
  BY CutCounts DEF IInv
<1>5. d = delivered + total_discarded' + dropped /\ total_discarded' \in Nat
  <2>1. TypeOK' /\ ByteAccounting'
    BY LoopTurnPreserves DEF IInv
  <2>2. total_discarded' \in Nat
    BY <2>1 DEF TypeOK
  <2> QED
    BY <1>1, <2>1, <2>2, CutCountsNext
<1>6. Refused \subseteq 0..(c - 1) /\ IsFiniteSet(Refused)
  <2>1. Refused \subseteq 0..(c - 1)
    BY DEF Refused
  <2>2. IsFiniteSet(0..(c - 1))
    BY <1>1, FS_Interval
  <2> QED
    BY <2>1, <2>2, FS_Subset
<1>7. base = 0 => total_malformed = Cardinality(Refused) + Rescan
  BY DEF CountInv, Counted
<1>8. Cardinality(Refused) \in Nat
  BY <1>6, FS_CardinalityType
<1>9. HeaderEnd \in Nat /\ Len(Sync) \in Nat /\ Len(Sync) < HeaderEnd
  BY PlanShape
<1>10. c + Retained = Len(stream) /\ Retained \in Nat
  BY CutInStream
<1>11. \A p \in New : p \in Nat /\ p >= c /\ p <= d - 1 /\ p + HeaderEnd <= Len(t)
  <2> SUFFICES ASSUME NEW p \in New
               PROVE  p \in Nat /\ p >= c /\ p <= d - 1 /\ p + HeaderEnd <= Len(t)
    OBVIOUS
  <2>1. p + HeaderEnd <= Len(t)
    BY SamePlan DEF Framed!BadLengthAt
  <2>2. p \in c..(d - 1)
    OBVIOUS
  <2> HIDE DEF New, c, d
  <2> QED
    BY <1>1, <2>1, <2>2
<1>12. (c \in c..(d - 1)) <=> c < d
  <2> HIDE DEF c, d
  <2> QED
    BY <1>1
<1>13. c \in New <=> c < d /\ Framed!BadLengthAt(t, c)
  BY <1>12
<1> HIDE DEF c, d, New
<1>14. CASE /\ total_discarded' = total_discarded
            /\ total_malformed' + Rescan = total_malformed + Rescan'
  <2>1. c = d
    BY <1>4, <1>5, <1>14
  <2>2. New = {}
    BY <1>1, <1>11, <2>1
  <2>3. Rescan \in Nat /\ Rescan' \in Nat /\ total_malformed' \in Nat
    <3>1. total_malformed' \in Nat
      BY LoopTurnPreserves DEF IInv, TypeOK
    <3> QED
      BY <3>1 DEF Rescan
  <2>4. base = 0 => total_malformed' = Cardinality(Refused') + Rescan'
    BY <1>2, <1>3, <1>7, <1>8, <1>14, <2>2, <2>3
  <2> QED
    BY <1>1, <1>2, <2>4 DEF CountInv, Counted
<1>15. CASE state = "SEARCH_SYNC" /\ Rescan' = 0 /\ total_malformed' = total_malformed
  <2>1. Retained < Len(Sync)
    BY <1>15 DEF IInv, CandidateShape, Retained
  <2>2. New = {}
    <3> SUFFICES ASSUME NEW p \in New
                 PROVE  FALSE
      OBVIOUS
    <3> QED
      BY <1>1, <1>9, <1>10, <1>11, <2>1
  <2>3. Rescan = 0
    BY <1>15 DEF Rescan
  <2>4. base = 0 => total_malformed' = Cardinality(Refused') + Rescan'
    BY <1>2, <1>7, <1>15, <2>2, <2>3
  <2> QED
    BY <1>1, <1>2, <2>4 DEF CountInv, Counted
<1>16. CASE /\ state \in {"RESCAN_INVALID", "COMPACT_INVALID"} /\ Rescan' = 0
            /\ total_discarded' > total_discarded
            /\ total_malformed' = total_malformed /\ stream' = stream
  <2> DEFINE x == total_discarded
             y == total_discarded'
  <2>1. c < d
    <3>1. /\ x \in Nat /\ y \in Nat /\ y > x
          /\ c = delivered + x + dropped /\ d = delivered + y + dropped
      BY <1>3, <1>4, <1>5, <1>16
    <3> HIDE DEF x, y
    <3> QED
      BY <1>3, <3>1
  <2>2. Framed!BadLengthAt(stream, c)
    <3>1. Rescanning \/ Compacting
      BY <1>16 DEF StreamInv
    <3> QED
      BY <3>1 DEF Rescanning, Compacting, c
  <2>3. Retained <= HeaderEnd
    BY <1>16 DEF IInv, CandidateShape, Retained
  <2>4. New = {c}
    <3>1. c \in New
      BY <1>13, <1>16, <2>1, <2>2 DEF t
    <3>2. ASSUME NEW p \in New
          PROVE  p = c
      BY <1>1, <1>9, <1>10, <1>11, <1>16, <2>3
    <3> QED
      BY <3>1, <3>2
  <2>5. c \notin Refused
    BY <1>1, <1>6
  <2>6. Cardinality(Refused \cup {c}) = Cardinality(Refused) + 1
    BY <1>6, <2>5, FS_AddElement
  <2>7. Rescan = 1
    BY <1>16 DEF Rescan
  <2>8. base = 0 => total_malformed' = Cardinality(Refused') + Rescan'
    BY <1>2, <1>7, <1>8, <1>16, <2>4, <2>6, <2>7
  <2> QED
    BY <1>1, <1>2, <2>8 DEF CountInv, Counted
<1> QED
  BY <1>14, <1>15, <1>16, CountMoves

\* A delivered frame covers what it takes behind the cut and nothing else.
LEMMA DeliveryCounts ==
    ASSUME framing.strategy = "SYNC_LENGTH_FIELD", IInv, StreamInv, CountInv, DeliverPending
    PROVE  CountInv'
<1> DEFINE n == Len(buffer)
           c == Cut
           d == Cut'
           new == [from |-> Len(stream) - n, bytes |-> buffer]
<1>1. /\ state = "DELIVER_PENDING" /\ ResetCandidate
      /\ frames' = Append(frames, new)
      /\ stream' = stream /\ base' = base /\ total_malformed' = total_malformed
  BY DEF DeliverPending, Turn
<1>2. /\ stream \in Seq(Bytes) /\ Len(stream) \in Nat /\ c \in Nat /\ c + n = Len(stream)
      /\ n \in Nat /\ buffer \in Seq(Octet) /\ frames \in Seq(FrameType)
  BY <1>1, CutInStream DEF Retained, IInv, TypeOK
<1>3. d = Len(stream)
  BY <1>1, <1>2, CandidateReset DEF Cut
<1>4. d \in Nat /\ c <= d /\ d = c + n /\ new.from = c /\ Len(new.bytes) = n
  BY <1>2, <1>3
<1>5. new \in FrameType
  BY <1>2, <1>4 DEF FrameType
<1> HIDE DEF new
<1>6. /\ Len(frames) \in Nat /\ Len(frames') = Len(frames) + 1
      /\ frames'[Len(frames) + 1] = new
      /\ \A i \in 1..Len(frames) : frames'[i] = frames[i]
      /\ DOMAIN frames = 1..Len(frames) /\ DOMAIN frames' = 1..(Len(frames) + 1)
  BY <1>1, <1>2, <1>5
<1>7. FramesDecided /\ SkippedHopeless /\ Counted
  BY DEF CountInv
<1>8. ASSUME NEW i \in 1..Len(frames)
      PROVE  frames[i].from \in Nat /\ Len(frames[i].bytes) \in Nat
             /\ frames[i].from + Len(frames[i].bytes) <= c
  <2>1. frames[i] \in FrameType
    BY <1>2, <1>6
  <2> QED
    BY <1>6, <1>7, <2>1 DEF FrameType, FramesDecided
<1>9. PICK last \in Nat : last = Len(frames) + 1
  BY <1>6
<1>10. \A i \in 1..last : i \in 1..Len(frames) \/ i = last
  BY <1>6, <1>9
<1> HIDE DEF c, d, n
<1>11. FramesDecided'
  <2> SUFFICES ASSUME NEW i \in 1..last
               PROVE  frames'[i].from + Len(frames'[i].bytes) <= d
    BY <1>6, <1>9 DEF FramesDecided, d
  <2>1. CASE i = last
    BY <1>2, <1>4, <1>6, <1>9, <2>1
  <2>2. CASE i \in 1..Len(frames)
    BY <1>2, <1>4, <1>6, <1>8, <2>2
  <2> QED
    BY <1>10, <2>1, <2>2
<1>12. \A i \in 1..Len(frames) : \A p : InFrame(i, p)' <=> InFrame(i, p)
  BY <1>6 DEF InFrame
<1>13. \A p : InFrame(last, p)' <=> p \in c..(d - 1)
  <2>1. frames'[last] = new
    BY <1>6, <1>9
  <2> QED
    BY <1>2, <1>4, <2>1 DEF InFrame
<1>14. /\ \A p : p \in 0..(d - 1) <=> p \in 0..(c - 1) \/ p \in c..(d - 1)
       /\ \A p \in 0..(c - 1) : p \notin c..(d - 1)
  BY <1>2, <1>4, SplitAt
<1>15. ASSUME NEW p
       PROVE  (\E i \in DOMAIN frames' : InFrame(i, p)') <=>
                (\E i \in DOMAIN frames : InFrame(i, p)) \/ p \in c..(d - 1)
  <2>1. 1..Len(frames) \subseteq 1..last /\ last \in 1..last
    BY <1>6, <1>9
  <2>2. DOMAIN frames' = 1..last /\ DOMAIN frames = 1..Len(frames)
    BY <1>6, <1>9
  <2> QED
    BY <1>12, <1>13, <1>10, <2>1, <2>2
<1>16. SkippedHopeless'
  <2> SUFFICES ASSUME base = 0, NEW p \in 0..(d - 1)
               PROVE  \/ \E i \in DOMAIN frames' : InFrame(i, p)'
                      \/ Framed!SyncMismatch(stream, p) \/ Framed!BadLengthAt(stream, p)
    BY <1>1 DEF SkippedHopeless, d
  <2>1. CASE p \in 0..(c - 1)
    BY <1>7, <1>15, <2>1 DEF SkippedHopeless, c
  <2>2. CASE p \in c..(d - 1)
    BY <1>15, <2>2
  <2> QED
    BY <1>14, <2>1, <2>2
<1>17. Refused' = Refused
  <2>1. Refused' = {p \in 0..(d - 1) : Framed!BadLengthAt(stream, p)
                                        /\ \A i \in DOMAIN frames' : ~InFrame(i, p)'}
    BY <1>1 DEF Refused, d
  <2>2. Refused = {p \in 0..(c - 1) : Framed!BadLengthAt(stream, p)
                                       /\ \A i \in DOMAIN frames : ~InFrame(i, p)}
    BY DEF Refused, c
  <2>3. \A p : p \in Refused' <=> p \in Refused
    BY <1>14, <1>15, <2>1, <2>2
  <2> QED
    BY <2>3
<1>18. Rescan = 0 /\ Rescan' = 0
  BY <1>1, PlanShape DEF Rescan, ResetCandidate, InitialState, FramingStrategy
<1>19. Counted'
  BY <1>1, <1>7, <1>17, <1>18 DEF Counted
<1> QED
  BY <1>11, <1>16, <1>19 DEF CountInv

\* After a reset at the very start nothing was counted, after any other the count is open.
LEMMA ResetCounts ==
    ASSUME framing.strategy = "SYNC_LENGTH_FIELD", IInv, StreamInv, CountInv, Reset
    PROVE  CountInv'
<1>1. /\ ResetCandidate /\ base' = Len(stream) /\ stream' = stream /\ frames' = frames
      /\ total_malformed' = total_malformed
  BY DEF Reset
<1>2. /\ Len(stream) \in Nat /\ base \in Nat /\ base <= Len(stream)
      /\ Retained \in Nat /\ Cut \in Nat /\ Cut + Retained = Len(stream)
      /\ Len(buffer) \in Nat /\ progress \in ProgressType /\ frames \in Seq(FrameType)
  BY CutInStream DEF IInv, TypeOK
<1>3. Cut' = Len(stream)
  BY <1>1, <1>2, CandidateReset DEF Cut
<1>4. FramesDecided /\ Counted
  BY DEF CountInv
<1>5. FramesDecided'
  <2> SUFFICES ASSUME NEW i \in DOMAIN frames
               PROVE  frames[i].from + Len(frames[i].bytes) <= Len(stream)
    BY <1>1, <1>3 DEF FramesDecided
  <2>1. frames[i] \in FrameType
    BY <1>2
  <2>2. frames[i].from \in Nat /\ Len(frames[i].bytes) \in Nat
    BY <2>1 DEF FrameType
  <2>3. frames[i].from + Len(frames[i].bytes) <= Cut
    BY <1>4 DEF FramesDecided
  <2> QED
    BY <1>2, <2>2, <2>3
<1>6. ASSUME base' = 0
      PROVE  /\ Len(stream) = 0 /\ base = 0 /\ Cut = 0 /\ Cut' = 0 /\ Retained = 0
  BY <1>1, <1>2, <1>3, <1>6
<1>7. 0..(0 - 1) = {}
  OBVIOUS
<1>8. SkippedHopeless'
  BY <1>6, <1>7 DEF SkippedHopeless
<1>9. ASSUME base' = 0
      PROVE  total_malformed' = Cardinality(Refused') + Rescan'
  <2>1. Refused = {} /\ Refused' = {}
    BY <1>6, <1>7, <1>9 DEF Refused
  <2>2. state \notin {"RESCAN_INVALID", "COMPACT_INVALID"}
    <3>1. CASE state = "RESCAN_INVALID"
      <4>1. 1 <= progress.rescan_index /\ progress.rescan_index <= Len(buffer)
            /\ progress.rescan_index \in Nat
        BY <1>2, <3>1, Ranges DEF IInv, CandidateShape, ProgressType
      <4>2. Len(buffer) = 0
        BY <1>6, <1>9, <3>1 DEF Retained
      <4> QED
        BY <4>1, <4>2
    <3>2. CASE state = "COMPACT_INVALID"
      <4>1. /\ progress.compact_start + progress.compact_size = Len(buffer)
            /\ progress.compact_start \in Nat /\ progress.compact_size \in Nat
        BY <1>2, <3>2, Ranges DEF IInv, CandidateShape, ProgressType
      <4>2. Compacting
        BY <3>2 DEF StreamInv
      <4>3. progress.compact_start >= 1
        BY <4>2 DEF Compacting
      <4>4. Len(buffer) = 0
        BY <1>6, <1>9, <3>2 DEF Retained
      <4> QED
        BY <4>1, <4>3, <4>4
    <3> QED
      BY <3>1, <3>2
  <2>3. Rescan = 0 /\ Rescan' = 0
    BY <1>1, <2>2, PlanShape DEF Rescan, ResetCandidate, InitialState, FramingStrategy
  <2>4. total_malformed = Cardinality(Refused) + Rescan
    BY <1>4, <1>6, <1>9 DEF Counted
  <2> QED
    BY <1>1, <2>1, <2>3, <2>4
<1> QED
  BY <1>5, <1>8, <1>9 DEF CountInv, Counted

\* A call that begins, and bytes that arrive, change nothing here.
LEMMA CallerCounts ==
    ASSUME CountInv, UNCHANGED <<workspaceVars, historyVars>>
    PROVE  CountInv'
<1>1. /\ state' = state /\ buffer' = buffer /\ progress' = progress
      /\ total_malformed' = total_malformed
      /\ stream' = stream /\ base' = base /\ frames' = frames
  BY DEF workspaceVars, historyVars
<1>2. Cut' = Cut /\ Rescan' = Rescan
  BY <1>1 DEF Cut, Retained, Rescan
<1>3. Refused' = Refused
  BY <1>1, <1>2 DEF Refused, InFrame
<1> QED
  BY <1>1, <1>2, <1>3 DEF CountInv, FramesDecided, SkippedHopeless, Counted, InFrame

\* Every header with a refused length that is not inside a delivered frame is
\* counted exactly once, however the rescans and compactions were interrupted.
THEOREM MalformedOnce == Spec => []MalformedCounted
<1>1. Init => CountInv
  <2> SUFFICES ASSUME Init
               PROVE  CountInv
    OBVIOUS
  <2>1. /\ frames = << >> /\ stream = << >> /\ total_malformed = 0 /\ state = InitialState
    BY DEF Init
  <2>2. Cut = 0
    BY InitFrames DEF Framed!Init
  <2>3. 0..(Cut - 1) = {} /\ DOMAIN frames = {}
    BY <2>1, <2>2
  <2>4. Rescan = 0
    BY <2>1, PlanShape DEF Rescan, InitialState, FramingStrategy
  <2>5. Refused = {}
    BY <2>3 DEF Refused
  <2>6. Cardinality(Refused) = 0
    BY <2>5, FS_EmptySet
  <2> QED
    BY <2>1, <2>3, <2>4, <2>6 DEF CountInv, FramesDecided, SkippedHopeless, Counted
<1>2. IInv /\ StreamInv /\ CountInv /\ [Next]_vars => CountInv'
  <2> SUFFICES ASSUME IInv, StreamInv, CountInv, [Next]_vars,
                      framing.strategy = "SYNC_LENGTH_FIELD"
               PROVE  CountInv'
    BY DEF CountInv
  <2>1. CASE LoopTurn
    BY <2>1, TurnCounts, DeliveryCounts
  <2>2. CASE Reset
    BY <2>2, ResetCounts
  <2>3. CASE \/ \E byte \in Bytes : Arrive(byte)
             \/ \E offered \in 0..Len(input) : Push(offered)
             \/ UNCHANGED vars
    BY <2>3, CallerCounts DEF Arrive, Push, vars
  <2> QED
    BY <2>1, <2>2, <2>3 DEF Next
<1>3. CountInv => MalformedCounted
  BY DEF CountInv, Counted, MalformedCounted, Refused, InFrame, Rescan
<1> QED
  BY <1>1, <1>2, <1>3, Invariance, StreamInvariance, PTL DEF Spec

\* What a finished call and the counters report is true.
THEOREM ReportsAreTrue == Spec => []ReportsTruthful
<1>1. StopReasonTruthful /\ MalformedCounted => ReportsTruthful
  BY DEF ReportsTruthful
<1> QED
  BY <1>1, ReasonTold, MalformedOnce, PTL
=============================================================================
