---------------------------- MODULE LabDocuments ----------------------------
(***************************************************************************)
(* The documents of the Lab window and the compile worker they share:      *)
(* ApplicationWindow (tabs, the polling timer, closing), the load path of  *)
(* DocumentTab and the load state of DocumentSession.                      *)
(*                                                                         *)
(* The GUI thread runs one handler at a time; the worker runs between any  *)
(* two of its calls into the mailbox.  A handler that enters the mutex     *)
(* once is one action.  Polling drains the tickets first and takes the     *)
(* results one by one, so it is one action per ticket.                     *)
(***************************************************************************)
EXTENDS CompileWorker

VARIABLES
    tabs,               \* documents with a tab
    next_document_id,
    session,            \* per document: DocumentSession state, load revision
                        \* and the revision its prepared_ was built from
    drained,            \* tickets the running PollCompileResults still holds
    window,             \* OPEN, then CLOSED, JOINING and DESTROYED
    submit_status       \* history: what the last Submit returned

guiVars == <<tabs, next_document_id, session, drained, window, submit_status>>
vars == <<workerVars, guiVars>>

MaxTabs == 2
DocumentState == {"EMPTY", "LOADING", "READY", "CONFIG_ERROR", "CLOSED"}

GuiIdle == drained = {} /\ window = "OPEN"

-----------------------------------------------------------------------------
(***************************************************************************)
(* DocumentSession.                                                        *)
(***************************************************************************)
BeginLoad(s) ==
    [state |-> "LOADING", load_revision |-> s.load_revision + 1, prepared |-> 0]

\* Mutant: only the document is compared, not the load revision.
Applies_AnyRevision(document, completion) ==
    session[document].state = "LOADING" /\ completion.document = document

\* The guard of AcceptCompletion and ApplyCompileCompletion.
Applies(document, completion) ==
    /\ session[document].state = "LOADING"
    /\ completion.document = document
    /\ completion.revision = session[document].load_revision

\* Artifacts may still fail to be adopted by the UI (mapping, selection).
Prepared(s, completion) ==
    {[s EXCEPT !.state = "CONFIG_ERROR"]} \cup
    IF completion.outcome = "ARTIFACTS"
    THEN {[s EXCEPT !.state = "READY", !.prepared = completion.revision]} ELSE {}

AcceptCompletion(document, completion) ==
    IF Applies(document, completion)
    THEN \E s \in Prepared(session[document], completion) :
            session' = [session EXCEPT ![document] = s]
    ELSE UNCHANGED session

ClosedSession(s) == [state |-> "CLOSED", load_revision |-> s.load_revision, prepared |-> 0]

-----------------------------------------------------------------------------
(***************************************************************************)
(* Handlers of the GUI thread.                                             *)
(***************************************************************************)
AddDocument ==
    /\ GuiIdle
    /\ Cardinality(tabs) < MaxTabs
    /\ next_document_id \in DocumentId
    /\ tabs' = tabs \cup {next_document_id}
    /\ next_document_id' = next_document_id + 1
    /\ UNCHANGED <<workerVars, session, drained, window, submit_status>>

\* BeginLoadFromPath when the file is unreadable or larger than the precheck:
\* the tab files a diagnostic itself; an older request may still be queued.
LoadRefused(document) ==
    /\ GuiIdle
    /\ document \in tabs
    /\ session[document].load_revision < MaxRevision
    /\ session' = [session EXCEPT ![document] =
                      [BeginLoad(session[document]) EXCEPT !.state = "CONFIG_ERROR"]]
    /\ UNCHANGED <<workerVars, tabs, next_document_id, drained, window, submit_status>>

\* BeginLoadFromPath with a readable file.  too_large stands for a source
\* identity over the YAML limit, which only the worker checks.
Load(document, too_large) ==
    /\ GuiIdle
    /\ document \in tabs
    /\ session[document].load_revision < MaxRevision
    /\ LET begun == BeginLoad(session[document])
       IN /\ Submit(document, begun.load_revision, too_large)
          /\ submit_status' = SubmitResult(document, too_large)
          /\ session' = [session EXCEPT ![document] =
                            IF SubmitResult(document, too_large) = "ACCEPTED" THEN begun
                            ELSE [begun EXCEPT !.state = "CONFIG_ERROR"]]
    /\ UNCHANGED <<tabs, next_document_id, drained, window>>

PollBegin ==
    /\ GuiIdle
    /\ ready_tickets # {}
    /\ drained' = ready_tickets
    /\ DrainReadyTickets
    /\ UNCHANGED <<tabs, next_document_id, session, window, submit_status>>

FirstTicket(tickets) == CHOOSE t \in tickets : \A u \in tickets : t <= u

PollTake ==
    /\ drained # {}
    /\ TakeResult(FirstTicket(drained))
    /\ drained' = drained \ {FirstTicket(drained)}
    /\ LET found == {c \in stored_results : c.ticket = FirstTicket(drained)}
       IN IF found = {} \/ {c.document : c \in found} \cap tabs = {}
          THEN UNCHANGED session
          ELSE LET completion == CHOOSE c \in found : TRUE
               IN AcceptCompletion(completion.document, completion)
    /\ UNCHANGED <<tabs, next_document_id, window, submit_status>>

\* CloseTab: worker first, then the session, then the tab leaves the routing.
CloseTab(document) ==
    /\ GuiIdle
    /\ document \in tabs
    /\ CloseDocument(document)
    /\ session' = [session EXCEPT ![document] = ClosedSession(@)]
    /\ tabs' = tabs \ {document}
    /\ UNCHANGED <<next_document_id, drained, window, submit_status>>

\* The window destructor closes the documents one after the other.
WindowClose ==
    /\ drained = {}
    /\ window = "OPEN"
    /\ window' = "CLOSED"
    /\ UNCHANGED <<workerVars, tabs, next_document_id, session, drained, submit_status>>

WindowCloseDocument(document) ==
    /\ window = "CLOSED"
    /\ document \in tabs
    /\ session[document].state # "CLOSED"
    /\ CloseDocument(document)
    /\ session' = [session EXCEPT ![document] = ClosedSession(@)]
    /\ UNCHANGED <<tabs, next_document_id, drained, window, submit_status>>

\* The worker member is destroyed after the documents were closed.
WindowStopsWorker ==
    /\ window = "CLOSED"
    /\ \A document \in tabs : session[document].state = "CLOSED"
    /\ Stop
    /\ UNCHANGED guiVars

WindowNotifiesWorker ==
    /\ window = "CLOSED"
    /\ StopNotify
    /\ window' = "JOINING"
    /\ UNCHANGED <<tabs, next_document_id, session, drained, submit_status>>

\* thread.join returns.
WindowJoined ==
    /\ window = "JOINING"
    /\ worker = "EXITED"
    /\ window' = "DESTROYED"
    /\ UNCHANGED <<workerVars, tabs, next_document_id, session, drained, submit_status>>

Destroying ==
    \/ \E document \in DocumentId : WindowCloseDocument(document)
    \/ WindowStopsWorker
    \/ WindowNotifiesWorker
    \/ WindowJoined

\* The window's constructor opens the first document.
Init ==
    /\ WorkerInit
    /\ tabs = {1}
    /\ next_document_id = 2
    /\ session = [d \in DocumentId |->
                     [state |-> "EMPTY", load_revision |-> 0, prepared |-> 0]]
    /\ drained = {}
    /\ window = "OPEN"
    /\ submit_status = "ACCEPTED"

Next ==
    \/ WorkerStep /\ UNCHANGED guiVars
    \/ AddDocument
    \/ \E document \in DocumentId :
          \/ LoadRefused(document)
          \/ \E too_large \in BOOLEAN : Load(document, too_large)
          \/ CloseTab(document)
    \/ PollBegin
    \/ PollTake
    \/ WindowClose
    \/ Destroying

Spec == Init /\ [][Next]_vars

\* The worker thread is scheduled and compilation returns; the timer keeps
\* firing while the window is open; a destructor that started goes on.
FairSpec ==
    /\ Spec
    /\ WF_vars(WorkerStep /\ UNCHANGED guiVars)
    /\ WF_vars(PollBegin)
    /\ WF_vars(PollTake)
    /\ WF_vars(Destroying)
-----------------------------------------------------------------------------
(***************************************************************************)
(* Properties.                                                             *)
(***************************************************************************)

SessionType == [state : DocumentState, load_revision : 0..MaxRevision, prepared : 0..MaxRevision]

\* Every variable has its type; at most two requests are queued, at most one
\* of them for the same document.
TypeOK ==
    /\ pending \subseteq Request
    /\ Cardinality(pending) <= MaxPending
    /\ \A r, q \in pending : r.document = q.document => r = q
    /\ active \in Request \cup {NoRequest}
    /\ outcome \in Outcome \cup {"NONE"}
    /\ worker \in {"CHECKING", "ASLEEP", "COMPILING", "COMPILED", "EXITED"}
    /\ closed_documents \subseteq DocumentId
    /\ stored_results \subseteq Completion
    /\ ready_tickets \subseteq Nat
    /\ next_enqueue_sequence \in Nat
    /\ next_ticket \in Nat
    /\ stopping \in BOOLEAN
    /\ tabs \subseteq DocumentId
    /\ next_document_id \in Nat
    /\ session \in [DocumentId -> SessionType]
    /\ drained \subseteq Nat
    /\ window \in {"OPEN", "CLOSED", "JOINING", "DESTROYED"}
    /\ submit_status \in SubmitStatus

\* A ready document shows the configuration of its latest load: a completion
\* of an older load, compiled or filed late, never reaches the session.
FreshPublication ==
    \A d \in DocumentId :
        session[d].state = "READY" => session[d].prepared = session[d].load_revision

\* Once CloseDocument returned, nothing of the document is queued or filed, not
\* even by a compilation that was running at that moment.
ClosedDocumentsSilent ==
    \A d \in closed_documents : PendingFor(d) = {} /\ StoredFor(d) = {}

\* Notifications and mailbox agree: a ready ticket has its completion, and a
\* completion that is not ready is held by the running poll, so none leaks.
MailboxConsistent ==
    LET filed == {c.ticket : c \in stored_results}
    IN /\ ready_tickets \subseteq filed
       /\ ~stopping => filed = ready_tickets \cup drained
       /\ ready_tickets \cap drained = {}

\* Two tabs never overrun the two queue slots: the window never shows a load
\* that the bounded scheduler refused for lack of room.
NoCapacityRejection == submit_status # "QUEUE_CAPACITY_EXCEEDED"

\* Every load ends: the document leaves LOADING, whatever was replaced, closed
\* or compiled in the meantime and whenever the worker went to sleep.
LoadCompletes ==
    \A d \in DocumentId : session[d].state = "LOADING" ~> session[d].state # "LOADING"

\* The destructor returns: the thread sees the stop request even if it was
\* asleep or compiling when the request was made.
DestructorJoins == window = "CLOSED" ~> window = "DESTROYED"
=============================================================================
