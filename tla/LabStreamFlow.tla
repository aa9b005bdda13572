---------------------------- MODULE LabStreamFlow ----------------------------
(***************************************************************************)
(* One receive flow of the Lab adapters: a submitted chunk is frozen in    *)
(* the flow, each step hands the unconsumed suffix (or only a Continue) to *)
(* the Host session, which delivers at most one candidate and stops.       *)
(*                                                                         *)
(* A chunk is a sequence of tokens.  A token of Records is a whole record  *)
(* that decodes, "bad" one that frames but does not decode, "part" bytes   *)
(* that stay in the framer as the beginning of a record.  The Host session *)
(* itself is HostEndpoint.tla; here it is how many tokens it takes and     *)
(* frames in one call, which the caller cannot choose.                     *)
(***************************************************************************)
EXTENDS Naturals, Sequences, SequencesExt

CONSTANT Records   \* tokens of the records that decode

Candidates == Records \cup {"bad"}
Tokens == Candidates \cup {"part"}

\* What one step showed: no candidate, a decoded or failed one, or one whose copy failed.
NoStep == [kind |-> "none", of |-> "part"]
Steps == [kind : {"none", "result", "failure", "copy_failed"}, of : Tokens]

\* The stream part of a flow, as Reset leaves it.  inner holds the tokens the framer has
\* taken but not framed (has_internal_work), half says it holds an incomplete record;
\* taken and framed are histories since the last Reset.
EmptyStream == [frozen |-> <<>>, cursor |-> 0, inner |-> <<>>, half |-> FALSE,
                faulted |-> FALSE, mapFaulted |-> FALSE, used |-> FALSE, current |-> NoStep,
                taken |-> <<>>, framed |-> <<>>]

Suffix(st) == SubSeq(st.frozen, st.cursor + 1, Len(st.frozen))

ResetRequired(st) == st.faulted \/ st.mapFaulted

\* has_internal_work or an unconsumed suffix: there is something for Continue to do.
Unfinished(st) == Suffix(st) /= <<>> \/ st.inner /= <<>>

ContinueAvailable(st) == ~ResetRequired(st) /\ Unfinished(st)

\* What one Host call may do: take some of the suffix, frame some of what it holds up to the
\* first candidate (work budgets may stop it earlier), and copy that candidate or fail to.
HostOutcomes(st) ==
  LET all == st.inner \o Suffix(st)
      First == {i \in 1 .. Len(all) : all[i] \in Candidates
                                      /\ \A j \in 1 .. i - 1 : all[j] = "part"}
  IN {o \in [took : 0 .. Len(Suffix(st)), frames : 0 .. Len(all),
             copied : BOOLEAN, mapped : BOOLEAN] :
        /\ o.frames <= Len(st.inner) + o.took
        /\ \A i \in First : o.frames <= i
        /\ o.took + o.frames > 0
        /\ ~(o.copied /\ o.mapped) => o.frames \in First /\ (o.copied \/ o.mapped)}

\* Mutant: the bytes of a candidate whose copy failed are given back to the frozen suffix.
RunStreamStep_GivesBack(st, o) ==
  LET suffix == Suffix(st)
      held   == st.inner \o SubSeq(suffix, 1, o.took)
      cursor == IF o.copied THEN st.cursor + o.took ELSE st.cursor
      last   == IF o.frames = 0 THEN "part" ELSE held[o.frames]
  IN [st EXCEPT !.frozen = IF cursor = Len(st.frozen) THEN <<>> ELSE @,
                !.cursor = IF cursor = Len(st.frozen) THEN 0 ELSE cursor,
                !.inner = SubSeq(held, o.frames + 1, Len(held)),
                !.half = IF o.frames = 0 THEN @ ELSE last = "part",
                !.faulted = @ \/ ~o.copied,
                !.used = TRUE,
                !.current = [kind |-> IF last = "part" THEN "none"
                                      ELSE IF ~o.copied THEN "copy_failed"
                                      ELSE IF last = "bad" THEN "failure" ELSE "result",
                             of |-> last],
                !.framed = @ \o SubSeq(held, 1, o.frames)]

\* Push of the suffix or Continue.  The consumed prefix is recorded before anything else:
\* a copy that fails afterwards faults the flow and never gives the bytes back.
RunStreamStep(st, o) ==
  LET suffix == Suffix(st)
      held   == st.inner \o SubSeq(suffix, 1, o.took)
      cursor == st.cursor + o.took
      last   == IF o.frames = 0 THEN "part" ELSE held[o.frames]
  IN [st EXCEPT !.frozen = IF cursor = Len(st.frozen) THEN <<>> ELSE @,
                !.cursor = IF cursor = Len(st.frozen) THEN 0 ELSE cursor,
                !.inner = SubSeq(held, o.frames + 1, Len(held)),
                !.half = IF o.frames = 0 THEN @ ELSE last = "part",
                !.faulted = @ \/ ~o.copied,
                !.used = TRUE,
                !.current = [kind |-> IF last = "part" THEN "none"
                                      ELSE IF ~o.copied THEN "copy_failed"
                                      ELSE IF last = "bad" THEN "failure" ELSE "result",
                             of |-> last],
                !.framed = @ \o SubSeq(held, 1, o.frames)]

\* A chunk is taken only by an idle flow that needs no Reset; otherwise nothing changes.
AcceptsChunk(st, chunk) == chunk /= <<>> /\ ~ResetRequired(st) /\ ~Unfinished(st)

Frozen(st, chunk) == [st EXCEPT !.frozen = chunk, !.cursor = 0, !.taken = @ \o chunk]

SubmitChunk(st, chunk, o) == RunStreamStep(Frozen(st, chunk), o)

\* The view layer copies the step once more; a failed copy faults the flow for that layer.
MapStreamStep(st, o) == IF o.mapped THEN st ELSE [st EXCEPT !.mapFaulted = TRUE]

\* Anything a Reset, a reload or a new binding table would lose.
StreamDiscardable(st) == Unfinished(st) \/ st.half \/ ResetRequired(st)

\* The bytes a flow was given are framed, held by the framer or still frozen: each exactly
\* once and in order, whatever failed on the way.
Conserved(st) == st.taken = st.framed \o st.inner \o Suffix(st)
=============================================================================
