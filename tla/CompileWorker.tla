---------------------------- MODULE CompileWorker ----------------------------
(***************************************************************************)
(* The background compiler of the Lab UI.  One thread takes the oldest     *)
(* pending request, compiles it with the mutex released, and files the     *)
(* completion in a mailbox under a fresh ticket.  Every action is one      *)
(* critical section of CompileWorker::Impl::mutex, or the compilation      *)
(* between two of them; any thread may call the operations in between.     *)
(*                                                                         *)
(* Config text is represented by the (document, revision) of its request.  *)
(* The worker sleeps in wake.wait and is woken by notify_one only.         *)
(***************************************************************************)
EXTENDS Integers, FiniteSets

CONSTANTS DocumentId,      \* documents that may ever be opened
          MaxRevision      \* bound on the load revisions of one document

ASSUME DocumentIdAssumption == DocumentId \subseteq Nat \ {0} /\ 1 \in DocumentId

ASSUME MaxRevisionAssumption == MaxRevision \in Nat

Revision == 1..MaxRevision
MaxPending == 2
NoRequest == [document |-> 0, revision |-> 0, sequence |-> 0]

VARIABLES
    pending,                 \* queued requests, at most one per document
    active,                  \* request being compiled, or NoRequest
    outcome,                 \* what the running compilation returned, or "NONE"
    worker,                  \* where the thread is in Run
    closed_documents,
    stored_results,          \* mailbox: completions under their tickets
    ready_tickets,           \* notifications not drained yet; tickets ascend, so the deque
                             \* is the set of them, smallest first
    next_enqueue_sequence,
    next_ticket,
    stopping

queueVars == <<pending, next_enqueue_sequence>>
mailboxVars == <<stored_results, ready_tickets, next_ticket>>
workerVars == <<queueVars, active, outcome, worker, closed_documents, mailboxVars, stopping>>

SubmitStatus ==
    {"ACCEPTED", "CONFIG_TOO_LARGE", "QUEUE_CAPACITY_EXCEEDED", "DOCUMENT_CLOSED",
     "WORKER_STOPPED"}

\* CompileRequest returns artifacts or a diagnostic; a throw becomes one too.
Outcome == {"ARTIFACTS", "DIAGNOSTIC"}

Request == [document : DocumentId, revision : Nat, sequence : Nat]
Completion == [ticket : Nat, document : DocumentId, revision : Nat, outcome : Outcome]

PendingFor(document) == {r \in pending : r.document = document}
StoredFor(document) == {c \in stored_results : c.document = document}

Oldest(requests) ==
    CHOOSE r \in requests : \A q \in requests : r.sequence <= q.sequence

NotifyOne == worker' = IF worker = "ASLEEP" THEN "CHECKING" ELSE worker

-----------------------------------------------------------------------------
(***************************************************************************)
(* Operations.                                                             *)
(***************************************************************************)
SubmitResult(document, too_large) ==
    IF too_large THEN "CONFIG_TOO_LARGE"
    ELSE IF stopping THEN "WORKER_STOPPED"
    ELSE IF document \in closed_documents THEN "DOCUMENT_CLOSED"
    ELSE IF PendingFor(document) = {} /\ Cardinality(pending) >= MaxPending
         THEN "QUEUE_CAPACITY_EXCEEDED"
    ELSE "ACCEPTED"

\* Mutant: the request is queued but the thread is not woken.
Submit_NoNotify(document, revision, too_large) ==
    IF SubmitResult(document, too_large) # "ACCEPTED"
    THEN UNCHANGED workerVars
    ELSE /\ pending' = (pending \ PendingFor(document)) \cup
                       {[document |-> document, revision |-> revision,
                         sequence |-> next_enqueue_sequence]}
         /\ next_enqueue_sequence' = next_enqueue_sequence + 1
         /\ UNCHANGED <<active, outcome, worker, closed_documents, mailboxVars, stopping>>

\* A newer request replaces the queued one of its document and queues anew.
Submit(document, revision, too_large) ==
    IF SubmitResult(document, too_large) # "ACCEPTED"
    THEN UNCHANGED workerVars
    ELSE /\ pending' = (pending \ PendingFor(document)) \cup
                       {[document |-> document, revision |-> revision,
                         sequence |-> next_enqueue_sequence]}
         /\ next_enqueue_sequence' = next_enqueue_sequence + 1
         /\ NotifyOne
         /\ UNCHANGED <<active, outcome, closed_documents, mailboxVars, stopping>>

\* Mutant: the queued request of the closed document stays.
CloseDocument_KeepsPending(document) ==
    /\ closed_documents' = closed_documents \cup {document}
    /\ stored_results' = stored_results \ StoredFor(document)
    /\ ready_tickets' = ready_tickets \ {c.ticket : c \in StoredFor(document)}
    /\ UNCHANGED <<queueVars, active, outcome, worker, next_ticket, stopping>>

CloseDocument(document) ==
    /\ closed_documents' = closed_documents \cup {document}
    /\ pending' = pending \ PendingFor(document)
    /\ stored_results' = stored_results \ StoredFor(document)
    /\ ready_tickets' = ready_tickets \ {c.ticket : c \in StoredFor(document)}
    /\ UNCHANGED <<next_enqueue_sequence, active, outcome, worker, next_ticket, stopping>>

\* Mutant: drained notifications stay in the queue.
DrainReadyTickets_KeepsQueue ==
    UNCHANGED workerVars

DrainReadyTickets ==
    /\ ready_tickets' = {}
    /\ UNCHANGED <<queueVars, active, outcome, worker, closed_documents, stored_results,
                   next_ticket, stopping>>

TakeResult(ticket) ==
    /\ stored_results' = {c \in stored_results : c.ticket # ticket}
    /\ UNCHANGED <<queueVars, active, outcome, worker, closed_documents, ready_tickets,
                   next_ticket, stopping>>

\* The destructor: flags and clears under the lock, then notifies without it.
Stop ==
    /\ ~stopping
    /\ stopping' = TRUE
    /\ pending' = {}
    /\ stored_results' = {}
    /\ ready_tickets' = {}
    /\ UNCHANGED <<next_enqueue_sequence, active, outcome, worker, closed_documents, next_ticket>>

StopNotify ==
    /\ stopping
    /\ NotifyOne
    /\ UNCHANGED <<queueVars, active, outcome, closed_documents, mailboxVars, stopping>>

-----------------------------------------------------------------------------
(***************************************************************************)
(* The worker thread.                                                      *)
(***************************************************************************)
\* Mutant: the wait is not left when the worker is told to stop.
WaitPredicate_NoStopping == pending # {}

WaitPredicate == stopping \/ pending # {}

WorkerSleep ==
    /\ worker = "CHECKING"
    /\ ~WaitPredicate
    /\ worker' = "ASLEEP"
    /\ UNCHANGED <<queueVars, active, outcome, closed_documents, mailboxVars, stopping>>

WorkerExit ==
    /\ worker = "CHECKING"
    /\ stopping
    /\ worker' = "EXITED"
    /\ UNCHANGED <<queueVars, active, outcome, closed_documents, mailboxVars, stopping>>

WorkerPick ==
    /\ worker = "CHECKING"
    /\ ~stopping
    /\ pending # {}
    /\ active' = Oldest(pending)
    /\ pending' = pending \ {Oldest(pending)}
    /\ worker' = "COMPILING"
    /\ UNCHANGED <<next_enqueue_sequence, outcome, closed_documents, mailboxVars, stopping>>

WorkerCompile ==
    /\ worker = "COMPILING"
    /\ outcome' \in Outcome
    /\ worker' = "COMPILED"
    /\ UNCHANGED <<queueVars, active, closed_documents, mailboxVars, stopping>>

\* Mutant: a completion is filed although its document was closed meanwhile.
PublishAllowed_Closed == ~stopping

PublishAllowed == ~stopping /\ active.document \notin closed_documents

WorkerPublish ==
    /\ worker = "COMPILED"
    /\ IF PublishAllowed
       THEN /\ stored_results' = stored_results \cup
                    {[ticket |-> next_ticket, document |-> active.document,
                      revision |-> active.revision, outcome |-> outcome]}
            /\ ready_tickets' = ready_tickets \cup {next_ticket}
            /\ next_ticket' = next_ticket + 1
       ELSE UNCHANGED mailboxVars
    /\ active' = NoRequest
    /\ outcome' = "NONE"
    /\ worker' = "CHECKING"
    /\ UNCHANGED <<queueVars, closed_documents, stopping>>

WorkerStep ==
    \/ WorkerSleep
    \/ WorkerExit
    \/ WorkerPick
    \/ WorkerCompile
    \/ WorkerPublish

WorkerInit ==
    /\ pending = {}
    /\ active = NoRequest
    /\ outcome = "NONE"
    /\ worker = "CHECKING"
    /\ closed_documents = {}
    /\ stored_results = {}
    /\ ready_tickets = {}
    /\ next_enqueue_sequence = 1
    /\ next_ticket = 1
    /\ stopping = FALSE
=============================================================================
