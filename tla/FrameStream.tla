----------------------------- MODULE FrameStream -----------------------------
(***************************************************************************)
(* What a stream framer promises, without chunks, budgets, buffers or      *)
(* search automata.  The accepted bytes form one stream; `cut` is the      *)
(* offset up to which the stream has been decided.  A decided byte belongs *)
(* to exactly one delivered frame, was skipped because no frame can start  *)
(* on it whatever bytes follow, or was dropped by an explicit reset.       *)
(***************************************************************************)
EXTENDS FramingPlan

VARIABLES stream,   \* every byte accepted so far
          base,     \* offset of the last reset
          cut,      \* offset of the first undecided byte
          frames    \* delivered frames: offset and bytes

vars == <<stream, base, cut, frames>>

(***************************************************************************)
(* Binary frames.                                                          *)
(***************************************************************************)
Window(s, p, n) == SubSeq(s, p + 1, p + n)

SyncMismatch(s, p) ==
    \E i \in 1..Len(Sync) : p + i <= Len(s) /\ s[p + i] # Sync[i]

SyncAt(s, p) == p + Len(Sync) <= Len(s) /\ ~SyncMismatch(s, p)

BadLengthAt(s, p) ==
    /\ SyncAt(s, p)
    /\ p + HeaderEnd <= Len(s)
    /\ ~LengthAccepted(DeclaredLength(Window(s, p, HeaderEnd)))

(***************************************************************************)
(* ASCII records: a record runs from the end of the previous CR LF (or the *)
(* reset) to the next one.  A CR before the reset does not pair with an LF *)
(* behind it.                                                              *)
(***************************************************************************)
TerminatorEndsAt(s, from, e) ==
    e - 2 >= from /\ e <= Len(s) /\ s[e - 1] = CR /\ s[e] = LF

RecordStart(s, from, p) ==
    Max({from} \cup {e \in from..p : TerminatorEndsAt(s, from, e)})

RecordTooLong(s, from, p) ==
    LET r == RecordStart(s, from, p) IN
    /\ r + FrameCapacity <= Len(s)
    /\ \A e \in r..(r + FrameCapacity) : ~TerminatorEndsAt(s, r, e)

\* No continuation of s makes a frame start at offset p.
Hopeless(s, from, p) ==
    CASE framing.strategy = "FIXED_LENGTH" -> FALSE
      [] framing.strategy = "SYNC_FIXED_LENGTH" -> SyncMismatch(s, p)
      [] framing.strategy = "SYNC_LENGTH_FIELD" -> SyncMismatch(s, p) \/ BadLengthAt(s, p)
      [] framing.strategy = "ASCII_CRLF" -> RecordTooLong(s, from, p)

\* The n bytes at offset p, which is undecided, are a complete frame.
IsFrame(s, from, p, n) ==
    /\ p + n <= Len(s)
    /\ CASE framing.strategy = "FIXED_LENGTH" -> n = framing.frame_length_bytes
         [] framing.strategy = "SYNC_FIXED_LENGTH" ->
              SyncAt(s, p) /\ n = framing.frame_length_bytes
         [] framing.strategy = "SYNC_LENGTH_FIELD" ->
              /\ SyncAt(s, p)
              /\ n >= HeaderEnd
              /\ n = DeclaredLength(Window(s, p, HeaderEnd))
              /\ LengthAccepted(n)
         [] framing.strategy = "ASCII_CRLF" ->
              /\ n <= FrameCapacity
              /\ p = RecordStart(s, from, p)
              /\ TerminatorEndsAt(s, p, p + n)
              /\ \A e \in p..(p + n - 1) : ~TerminatorEndsAt(s, p, e)

FrameReady(s, from, p) == \E n \in 1..FrameCapacity : IsFrame(s, from, p, n)

(***************************************************************************)
(* The specification.                                                      *)
(***************************************************************************)
Init ==
    /\ stream = << >>
    /\ base = 0
    /\ cut = 0
    /\ frames = << >>

\* At most one byte is accepted and any number of hopeless ones skipped.
Advance ==
    /\ stream' = stream \/ \E b \in Bytes : stream' = Append(stream, b)
    /\ cut' \in cut..Len(stream')
    /\ \A p \in cut..(cut' - 1) : Hopeless(stream', base, p)
    /\ UNCHANGED <<base, frames>>

Emit ==
    \E n \in 1..FrameCapacity :
        /\ IsFrame(stream, base, cut, n)
        /\ frames' = Append(frames, [from |-> cut, bytes |-> Window(stream, cut, n)])
        /\ cut' = cut + n
        /\ UNCHANGED <<stream, base>>

Reset ==
    /\ base' = Len(stream)
    /\ cut' = Len(stream)
    /\ UNCHANGED <<stream, frames>>

Next == Advance \/ Emit \/ Reset

Spec == Init /\ [][Next]_vars
=============================================================================
