------------------------- MODULE LabDocumentsProofs -------------------------
(***************************************************************************)
(* Theorems about the Lab window and its compile worker, for any set of    *)
(* documents and any number of loads.  The invariant follows the data: the *)
(* queue (whose requests all belong to open tabs, which is why two slots   *)
(* suffice), the mailbox (whose tickets are distinct and younger than      *)
(* next_ticket), and the sessions.                                         *)
(***************************************************************************)
EXTENDS LabDocuments, FiniteSetTheorems, WellFoundedInduction, TLAPS

\* The queue and the thread.
QueueTyped ==
    /\ pending \subseteq Request
    /\ \A r, q \in pending : r.document = q.document => r = q
    /\ active \in Request \cup {NoRequest}
    /\ worker \in {"COMPILING", "COMPILED"} => active \in Request
    /\ outcome \in Outcome \cup {"NONE"}
    /\ worker = "COMPILED" => outcome \in Outcome
    /\ worker \in {"CHECKING", "ASLEEP", "COMPILING", "COMPILED", "EXITED"}
    /\ closed_documents \subseteq DocumentId
    /\ next_enqueue_sequence \in Nat
    /\ stopping \in BOOLEAN

\* The window has two tabs at most, and what is queued belongs to one of them.
PendingOpen ==
    /\ tabs \subseteq DocumentId
    /\ IsFiniteSet(tabs)
    /\ Cardinality(tabs) <= MaxTabs
    /\ next_document_id \in Nat
    /\ \A r \in pending : r.document \in tabs

\* Tickets are handed out once, in ascending order; a poll runs in an open window.
TicketsFresh ==
    /\ stored_results \subseteq Completion
    /\ ready_tickets \subseteq Nat
    /\ drained \subseteq Nat
    /\ next_ticket \in Nat
    /\ \A c \in stored_results : c.ticket < next_ticket
    /\ \A c, e \in stored_results : c.ticket = e.ticket => c = e
    /\ \A t \in drained : t < next_ticket
    /\ window # "OPEN" => drained = {}

SessionsTyped ==
    /\ session \in [DocumentId -> SessionType]
    /\ window \in {"OPEN", "CLOSED", "JOINING", "DESTROYED"}
    /\ submit_status \in SubmitStatus

\* What the proofs carry through every step.
IInv ==
    /\ QueueTyped /\ PendingOpen /\ NoCapacityRejection /\ ClosedDocumentsSilent
    /\ TicketsFresh /\ MailboxConsistent
    /\ SessionsTyped /\ FreshPublication

-----------------------------------------------------------------------------
(***************************************************************************)
(* Choices.                                                                *)
(***************************************************************************)

\* Naturals are well-founded: a set of them that is not empty has a least one.
LEMMA LeastNatural ==
    ASSUME NEW S \in SUBSET Nat, S # {}
    PROVE  \E m \in S : \A n \in S : m <= n
<1> DEFINE Less == OpToRel(<, Nat)
<1>1. \E m \in S : \A n \in S : ~ (<<n, m>> \in Less)
  <2> HIDE DEF Less
  <2>1. IsWellFoundedOn(Less, Nat)
    BY NatLessThanWellFounded DEF Less
  <2> QED
    BY <2>1, WFMin
<1>2. \A m, n \in Nat : ~ (<<n, m>> \in Less) => m <= n
  BY DEF OpToRel
<1> QED
  BY <1>1, <1>2

\* The worker takes a request that is queued.
LEMMA OldestQueued ==
    ASSUME NEW requests \in SUBSET Request, requests # {}
    PROVE  Oldest(requests) \in requests
<1> DEFINE ages == {r.sequence : r \in requests}
<1>1. ages \subseteq Nat /\ ages # {}
  BY DEF Request
<1>2. PICK m \in ages : \A n \in ages : m <= n
  BY <1>1, LeastNatural
<1>3. PICK r \in requests : r.sequence = m
  OBVIOUS
<1>4. \A q \in requests : r.sequence <= q.sequence
  BY <1>2, <1>3
<1> QED
  BY <1>4 DEF Oldest

\* A poll takes a ticket that was drained.
LEMMA FirstTicketHeld ==
    ASSUME NEW tickets \in SUBSET Nat, tickets # {}
    PROVE  FirstTicket(tickets) \in tickets
  BY LeastNatural DEF FirstTicket

\* With at most one request per document there are no more requests than documents.
LEMMA OnePerDocument ==
    ASSUME NEW requests \in SUBSET Request, NEW documents, IsFiniteSet(documents),
           \A r, q \in requests : r.document = q.document => r = q,
           \A r \in requests : r.document \in documents
    PROVE  IsFiniteSet(requests) /\ Cardinality(requests) <= Cardinality(documents)
<1> DEFINE owner == [r \in requests |-> r.document]
<1>1. owner \in Injection(requests, documents)
  BY DEF Injection, IsInjective
<1> QED
  BY <1>1, FS_Injection

\* Two slots suffice: an open document finds its own request queued, or a slot free.
LEMMA RoomForOpenDocument ==
    ASSUME QueueTyped, PendingOpen, NEW document \in tabs, NEW too_large \in BOOLEAN
    PROVE  SubmitResult(document, too_large) # "QUEUE_CAPACITY_EXCEEDED"
<1> SUFFICES ASSUME PendingFor(document) = {}
             PROVE  ~ (Cardinality(pending) >= MaxPending)
  BY DEF SubmitResult
<1> DEFINE others == tabs \ {document}
<1>1. IsFiniteSet(others) /\ Cardinality(others) = Cardinality(tabs) - 1
  BY FS_RemoveElement DEF PendingOpen
<1>2. \A r \in pending : r.document \in others
  BY DEF PendingOpen, PendingFor
<1>3. IsFiniteSet(pending) /\ Cardinality(pending) <= Cardinality(others)
  <2> HIDE DEF others
  <2> QED
    BY <1>1, <1>2, OnePerDocument DEF QueueTyped
<1>4. Cardinality(tabs) \in Nat /\ Cardinality(pending) \in Nat
  BY <1>3, FS_CardinalityType DEF PendingOpen
<1> QED
  BY <1>1, <1>3, <1>4 DEF PendingOpen, MaxTabs, MaxPending

-----------------------------------------------------------------------------
(***************************************************************************)
(* The queue: every request belongs to an open tab, one for each.          *)
(***************************************************************************)

\* Initially nothing is queued and one tab is open.
LEMMA InitInvariant == Init => IInv
<1> SUFFICES ASSUME Init PROVE IInv
  OBVIOUS
<1> USE DocumentIdAssumption, MaxRevisionAssumption DEF Init, WorkerInit
<1>1. QueueTyped
  BY DEF QueueTyped
<1>2. PendingOpen
  BY FS_Singleton DEF PendingOpen, MaxTabs
<1>3. TicketsFresh /\ MailboxConsistent
  BY DEF TicketsFresh, MailboxConsistent
<1>4. SessionsTyped
  BY DEF SessionsTyped, SessionType, DocumentState, SubmitStatus
<1>5. FreshPublication /\ ClosedDocumentsSilent /\ NoCapacityRejection
  BY DEF FreshPublication, ClosedDocumentsSilent, NoCapacityRejection, PendingFor, StoredFor
<1> QED
  BY <1>1, <1>2, <1>3, <1>4, <1>5 DEF IInv

\* What is queued has its type, once per document.
LEMMA QueueStep == IInv /\ [Next]_vars => QueueTyped'
<1> SUFFICES ASSUME IInv, [Next]_vars PROVE QueueTyped'
  OBVIOUS
<1> USE DEF IInv
<1>1. ASSUME NEW document \in DocumentId, CloseDocument(document) PROVE QueueTyped'
  BY <1>1 DEF QueueTyped, CloseDocument
<1>2. CASE WorkerSleep \/ WorkerExit
  BY <1>2 DEF QueueTyped, WorkerSleep, WorkerExit, queueVars
<1>3. CASE WorkerPick
  BY <1>3, OldestQueued DEF QueueTyped, WorkerPick
<1>4. CASE WorkerCompile
  BY <1>4 DEF QueueTyped, WorkerCompile, queueVars
<1>5. CASE WorkerPublish
  BY <1>5 DEF QueueTyped, WorkerPublish, queueVars
<1>6. ASSUME NEW document \in DocumentId, NEW too_large \in BOOLEAN, Load(document, too_large)
      PROVE  QueueTyped'
  <2> DEFINE revision == BeginLoad(session[document]).load_revision
  <2>1. revision \in Nat
    BY MaxRevisionAssumption DEF BeginLoad, SessionsTyped, SessionType
  <2>2. Submit(document, revision, too_large)
    BY <1>6 DEF Load
  <2> HIDE DEF revision
  <2>3. CASE SubmitResult(document, too_large) # "ACCEPTED"
    BY <2>2, <2>3 DEF QueueTyped, Submit, workerVars, queueVars
  <2>4. CASE SubmitResult(document, too_large) = "ACCEPTED"
    <3> DEFINE request == [document |-> document, revision |-> revision,
                           sequence |-> next_enqueue_sequence]
    <3>1. request \in Request /\ pending' = (pending \ PendingFor(document)) \cup {request}
      BY <2>1, <2>2, <2>4 DEF Submit, Request, QueueTyped
    <3>2. \A r \in pending \ PendingFor(document) : r.document # document
      BY DEF PendingFor
    <3>3. request.document = document
      OBVIOUS
    <3> HIDE DEF request
    <3> QED
      BY <3>1, <3>2, <3>3, <2>2, <2>4 DEF QueueTyped, Submit, NotifyOne
  <2> QED
    BY <2>3, <2>4
<1>7. CASE AddDocument \/ (\E document \in DocumentId : LoadRefused(document))
           \/ WindowClose \/ WindowJoined
  BY <1>7 DEF QueueTyped, AddDocument, LoadRefused, WindowClose, WindowJoined, workerVars,
              queueVars
<1>8. CASE PollBegin
  BY <1>8 DEF QueueTyped, PollBegin, DrainReadyTickets, queueVars
<1>9. CASE PollTake
  BY <1>9 DEF QueueTyped, PollTake, TakeResult, queueVars
<1>10. CASE \E document \in DocumentId : CloseTab(document) \/ WindowCloseDocument(document)
  BY <1>10, <1>1 DEF CloseTab, WindowCloseDocument
<1>11. CASE WindowStopsWorker
  BY <1>11 DEF QueueTyped, WindowStopsWorker, Stop
<1>12. CASE WindowNotifiesWorker
  BY <1>12 DEF QueueTyped, WindowNotifiesWorker, StopNotify, NotifyOne, queueVars
<1>13. CASE UNCHANGED vars
  BY <1>13 DEF QueueTyped, vars, workerVars, queueVars
<1> QED
  BY <1>2, <1>3, <1>4, <1>5, <1>6, <1>7, <1>8, <1>9, <1>10, <1>11, <1>12, <1>13
  DEF Next, WorkerStep, Destroying

\* Requests belong to open tabs, and no load is refused for lack of room.
LEMMA OpenStep == IInv /\ [Next]_vars => PendingOpen' /\ NoCapacityRejection'
<1> SUFFICES ASSUME IInv, [Next]_vars PROVE PendingOpen' /\ NoCapacityRejection'
  OBVIOUS
<1> USE DEF IInv
<1>1. CASE \/ WorkerStep /\ UNCHANGED guiVars
           \/ \E document \in DocumentId : LoadRefused(document)
           \/ PollBegin \/ PollTake \/ WindowClose \/ Destroying \/ UNCHANGED vars
  <2>1. UNCHANGED <<tabs, next_document_id, submit_status>>
    BY <1>1 DEF guiVars, vars, LoadRefused, PollBegin, PollTake, WindowClose, Destroying,
                WindowCloseDocument, WindowStopsWorker, WindowNotifiesWorker, WindowJoined
  <2>2. pending' \subseteq pending
    BY <1>1, OldestQueued
    DEF vars, workerVars, queueVars, LoadRefused, PollBegin, DrainReadyTickets, PollTake,
        TakeResult, WindowClose, Destroying, WindowCloseDocument, CloseDocument,
        WindowStopsWorker, Stop, WindowNotifiesWorker, StopNotify, WindowJoined, WorkerStep,
        WorkerSleep, WorkerExit, WorkerPick, WorkerCompile, WorkerPublish
  <2> QED
    BY <2>1, <2>2 DEF PendingOpen, NoCapacityRejection
<1>2. CASE AddDocument
  <2>1. IsFiniteSet(tabs') /\ Cardinality(tabs') <= MaxTabs
    <3>1. Cardinality(tabs) \in Nat
      BY FS_CardinalityType DEF PendingOpen
    <3> QED
      BY <1>2, <3>1, FS_AddElement DEF AddDocument, PendingOpen, MaxTabs
  <2> QED
    BY <1>2, <2>1 DEF AddDocument, PendingOpen, NoCapacityRejection, workerVars, queueVars
<1>3. ASSUME NEW document \in DocumentId, CloseTab(document)
      PROVE  PendingOpen' /\ NoCapacityRejection'
  <2>1. IsFiniteSet(tabs') /\ Cardinality(tabs') <= MaxTabs
    <3>1. Cardinality(tabs) \in Nat /\ document \in tabs
      BY <1>3, FS_CardinalityType DEF PendingOpen, CloseTab
    <3>2. IsFiniteSet(tabs \ {document}) /\ Cardinality(tabs \ {document}) = Cardinality(tabs) - 1
      BY <3>1, FS_RemoveElement DEF PendingOpen
    <3> QED
      BY <1>3, <3>1, <3>2 DEF CloseTab, PendingOpen, MaxTabs
  <2>2. \A r \in pending' : r.document \in tabs'
    BY <1>3 DEF CloseTab, CloseDocument, PendingFor, PendingOpen
  <2> QED
    BY <1>3, <2>1, <2>2 DEF CloseTab, PendingOpen, NoCapacityRejection
<1>4. ASSUME NEW document \in DocumentId, NEW too_large \in BOOLEAN, Load(document, too_large)
      PROVE  PendingOpen' /\ NoCapacityRejection'
  <2>1. \A r \in pending' : r.document \in tabs
    BY <1>4 DEF Load, Submit, PendingOpen, workerVars, queueVars
  <2>2. submit_status' # "QUEUE_CAPACITY_EXCEEDED"
    BY <1>4, RoomForOpenDocument DEF Load
  <2> QED
    BY <1>4, <2>1, <2>2 DEF Load, PendingOpen, NoCapacityRejection
<1> QED
  BY <1>1, <1>2, <1>3, <1>4 DEF Next

-----------------------------------------------------------------------------
(***************************************************************************)
(* The mailbox.                                                            *)
(***************************************************************************)

\* Nothing is queued or filed for a document that was closed.
LEMMA ClosedStep == IInv /\ [Next]_vars => ClosedDocumentsSilent'
<1> SUFFICES ASSUME IInv, [Next]_vars, NEW d \in closed_documents'
             PROVE  PendingFor(d)' = {} /\ StoredFor(d)' = {}
  BY DEF ClosedDocumentsSilent
<1> USE DEF IInv, PendingFor, StoredFor
<1>1. d \in closed_documents =>
        /\ \A r \in pending : r.document # d
        /\ \A c \in stored_results : c.document # d
  BY DEF ClosedDocumentsSilent
<1>2. CASE WorkerPublish
  <2>1. CASE ~ PublishAllowed
    BY <1>1, <1>2, <2>1 DEF WorkerPublish, mailboxVars, queueVars
  <2>2. CASE PublishAllowed
    <3>1. d \in closed_documents /\ active.document # d
      BY <1>2, <2>2 DEF WorkerPublish, PublishAllowed
    <3>2. \A c \in stored_results' : c.document # d
      BY <1>1, <1>2, <2>2, <3>1 DEF WorkerPublish
    <3> QED
      BY <1>1, <1>2, <3>1, <3>2 DEF WorkerPublish, queueVars
  <2> QED
    BY <2>1, <2>2
<1>3. ASSUME NEW document \in DocumentId, CloseDocument(document)
      PROVE  PendingFor(d)' = {} /\ StoredFor(d)' = {}
  BY <1>1, <1>3 DEF CloseDocument
<1>4. ASSUME NEW document \in DocumentId, NEW too_large \in BOOLEAN, Load(document, too_large)
      PROVE  PendingFor(d)' = {} /\ StoredFor(d)' = {}
  BY <1>1, <1>4 DEF Load, Submit, SubmitResult, workerVars, queueVars, mailboxVars
<1>5. CASE \/ WorkerSleep \/ WorkerExit \/ WorkerPick \/ WorkerCompile
           \/ AddDocument \/ (\E document \in DocumentId : LoadRefused(document))
           \/ PollBegin \/ PollTake \/ WindowClose \/ WindowStopsWorker
           \/ WindowNotifiesWorker \/ WindowJoined \/ UNCHANGED vars
  <2>1. /\ closed_documents' = closed_documents
        /\ pending' \subseteq pending
        /\ stored_results' \subseteq stored_results
    BY <1>5, OldestQueued
    DEF vars, workerVars, queueVars, mailboxVars, WorkerSleep, WorkerExit, WorkerPick,
        WorkerCompile, AddDocument, LoadRefused, PollBegin, DrainReadyTickets, PollTake,
        TakeResult, WindowClose, WindowStopsWorker, Stop, WindowNotifiesWorker, StopNotify,
        WindowJoined
  <2> QED
    BY <1>1, <2>1
<1> QED
  BY <1>2, <1>3, <1>4, <1>5 DEF Next, WorkerStep, Destroying, CloseTab, WindowCloseDocument

\* A closing document takes its completions and exactly their notifications along.
LEMMA CloseKeepsMailbox ==
    ASSUME TicketsFresh, MailboxConsistent, drained = {}, NEW document,
           CloseDocument(document), UNCHANGED drained,
           window # "OPEN" => window' # "OPEN" \/ drained' = {}
    PROVE  TicketsFresh' /\ MailboxConsistent'
<1>1. stored_results' \subseteq stored_results /\ ready_tickets' \subseteq ready_tickets
  BY DEF CloseDocument
<1>2. TicketsFresh'
  BY <1>1 DEF TicketsFresh, CloseDocument
<1>3. \A t \in ready_tickets' : \E c \in stored_results' : c.ticket = t
  BY DEF MailboxConsistent, CloseDocument
<1>4. ~ stopping => \A c \in stored_results' : c.ticket \in ready_tickets'
  <2> SUFFICES ASSUME ~ stopping, NEW c \in stored_results' PROVE c.ticket \in ready_tickets'
    OBVIOUS
  <2>1. c \in stored_results /\ c \notin StoredFor(document) /\ c.ticket \in ready_tickets
    BY DEF MailboxConsistent, CloseDocument
  <2>2. \A e \in StoredFor(document) : e.ticket # c.ticket
    BY <2>1 DEF TicketsFresh, StoredFor
  <2> QED
    BY <2>1, <2>2 DEF CloseDocument
<1> QED
  BY <1>2, <1>3, <1>4 DEF MailboxConsistent, CloseDocument

\* Tickets stay distinct, and each is either ready or held by the running poll.
LEMMA MailboxStep == IInv /\ [Next]_vars => TicketsFresh' /\ MailboxConsistent'
<1> SUFFICES ASSUME IInv, [Next]_vars PROVE TicketsFresh' /\ MailboxConsistent'
  OBVIOUS
<1> USE DEF IInv
<1>1. CASE WorkerPublish /\ PublishAllowed /\ UNCHANGED guiVars
  <2> DEFINE completion == [ticket |-> next_ticket, document |-> active.document,
                            revision |-> active.revision, outcome |-> outcome]
  <2>1. /\ completion \in Completion /\ completion.ticket = next_ticket
        /\ stored_results' = stored_results \cup {completion}
    BY <1>1 DEF WorkerPublish, QueueTyped, Completion, Request, TicketsFresh
  <2>2. /\ ready_tickets' = ready_tickets \cup {next_ticket} /\ next_ticket' = next_ticket + 1
        /\ stopping' = stopping /\ drained' = drained /\ window' = window
    BY <1>1 DEF WorkerPublish, guiVars
  <2> HIDE DEF completion
  <2>3. TicketsFresh'
    <3>1. \A c \in stored_results : c.ticket \in Nat /\ c.ticket < next_ticket
      BY DEF TicketsFresh, Completion
    <3>2. \A c \in stored_results' : c.ticket < next_ticket'
      BY <2>1, <2>2, <3>1 DEF TicketsFresh
    <3>3. \A c, e \in stored_results' : c.ticket = e.ticket => c = e
      BY <2>1, <3>1 DEF TicketsFresh
    <3>4. \A t \in drained' : t < next_ticket'
      BY <2>2 DEF TicketsFresh
    <3> QED
      BY <2>1, <2>2, <3>2, <3>3, <3>4 DEF TicketsFresh
  <2>4. next_ticket \notin drained
    BY DEF TicketsFresh
  <2> QED
    BY <2>1, <2>2, <2>3, <2>4 DEF MailboxConsistent
<1>2. CASE PollBegin
  <2>1. drained = {} /\ window = "OPEN"
    BY <1>2 DEF PollBegin, GuiIdle
  <2>2. \A t \in ready_tickets : t \in Nat /\ t < next_ticket
    BY DEF MailboxConsistent, TicketsFresh
  <2>3. /\ drained' = ready_tickets /\ ready_tickets' = {}
        /\ UNCHANGED <<stored_results, next_ticket, stopping, window>>
    BY <1>2 DEF PollBegin, DrainReadyTickets
  <2> QED
    BY <2>1, <2>2, <2>3 DEF MailboxConsistent, TicketsFresh
<1>3. CASE PollTake
  <2> DEFINE ticket == FirstTicket(drained)
  <2>1. ticket \in drained
    BY <1>3, FirstTicketHeld DEF PollTake, TicketsFresh
  <2>2. /\ drained' = drained \ {ticket}
        /\ stored_results' = {c \in stored_results : c.ticket # ticket}
        /\ UNCHANGED <<ready_tickets, next_ticket, stopping, window>>
    BY <1>3 DEF PollTake, TakeResult
  <2> HIDE DEF ticket
  <2>3. TicketsFresh'
    BY <2>2 DEF TicketsFresh
  <2>4. ticket \notin ready_tickets
    BY <2>1 DEF MailboxConsistent
  <2>5. \A t \in ready_tickets : \E c \in stored_results' : c.ticket = t
    BY <2>2, <2>4 DEF MailboxConsistent
  <2>6. ~ stopping => \A t : t \in {c.ticket : c \in stored_results'} <=>
                              t \in ready_tickets \cup drained'
    BY <2>2, <2>4, <2>5 DEF MailboxConsistent
  <2> QED
    BY <2>2, <2>3, <2>5, <2>6 DEF MailboxConsistent
<1>4. ASSUME NEW document \in DocumentId, CloseTab(document) \/ WindowCloseDocument(document)
      PROVE  TicketsFresh' /\ MailboxConsistent'
  <2>1. drained = {} /\ UNCHANGED <<drained, window>> /\ CloseDocument(document)
    BY <1>4 DEF CloseTab, WindowCloseDocument, GuiIdle, TicketsFresh
  <2> QED
    BY <2>1, CloseKeepsMailbox
<1>5. CASE WindowStopsWorker
  BY <1>5 DEF WindowStopsWorker, Stop, guiVars, TicketsFresh, MailboxConsistent
<1>6. CASE \/ WindowClose \/ WindowNotifiesWorker \/ WindowJoined
  BY <1>6 DEF WindowClose, WindowNotifiesWorker, StopNotify, WindowJoined, workerVars,
              mailboxVars, TicketsFresh, MailboxConsistent
<1>7. ASSUME NEW document \in DocumentId, NEW too_large \in BOOLEAN, Load(document, too_large)
      PROVE  UNCHANGED <<mailboxVars, stopping, drained, window>>
  BY <1>7 DEF Load, Submit, workerVars, mailboxVars
<1>8. CASE \/ (WorkerSleep \/ WorkerExit \/ WorkerPick \/ WorkerCompile) /\ UNCHANGED guiVars
           \/ WorkerPublish /\ ~ PublishAllowed /\ UNCHANGED guiVars
           \/ AddDocument \/ (\E document \in DocumentId : LoadRefused(document))
           \/ UNCHANGED vars
  <2> QED
    BY <1>8 DEF WorkerSleep, WorkerExit, WorkerPick, WorkerCompile, WorkerPublish, AddDocument,
                LoadRefused, vars, guiVars, workerVars, mailboxVars, TicketsFresh,
                MailboxConsistent
<1>9. ASSUME UNCHANGED <<mailboxVars, stopping, drained, window>>
      PROVE  TicketsFresh' /\ MailboxConsistent'
  BY <1>9 DEF mailboxVars, TicketsFresh, MailboxConsistent
<1> QED
  BY <1>1, <1>2, <1>3, <1>4, <1>5, <1>6, <1>7, <1>8, <1>9 DEF Next, WorkerStep, Destroying

-----------------------------------------------------------------------------
(***************************************************************************)
(* The sessions.                                                           *)
(***************************************************************************)

\* A session that adopts a completion does so for the load it is waiting for.
LEMMA AdoptedIsCurrent ==
    ASSUME SessionsTyped, FreshPublication, NEW document \in DocumentId,
           NEW completion \in Completion, AcceptCompletion(document, completion)
    PROVE  session' \in [DocumentId -> SessionType] /\ FreshPublication'
<1>1. CASE ~ Applies(document, completion)
  BY <1>1 DEF AcceptCompletion, SessionsTyped, FreshPublication
<1>2. CASE Applies(document, completion)
  <2>1. PICK s \in Prepared(session[document], completion) :
              session' = [session EXCEPT ![document] = s]
    BY <1>2 DEF AcceptCompletion
  <2>2. /\ session[document] \in SessionType
        /\ completion.revision = session[document].load_revision
    BY <1>2 DEF Applies, SessionsTyped
  <2>3. s \in SessionType /\ (s.state = "READY" => s.prepared = s.load_revision)
    <3>1. CASE s = [session[document] EXCEPT !.state = "CONFIG_ERROR"]
      BY <2>2, <3>1 DEF SessionType, DocumentState
    <3>2. CASE s = [session[document] EXCEPT !.state = "READY", !.prepared = completion.revision]
      BY <2>2, <3>2 DEF SessionType, DocumentState
    <3> QED
      BY <3>1, <3>2 DEF Prepared
  <2> QED
    BY <2>1, <2>3 DEF SessionsTyped, FreshPublication
<1> QED
  BY <1>1, <1>2

\* A load, a refused load and a close leave no session ready.
LEMMA RestartedSession ==
    ASSUME NEW s \in SessionType, s.load_revision < MaxRevision
    PROVE  /\ BeginLoad(s) \in SessionType /\ BeginLoad(s).state = "LOADING"
           /\ [BeginLoad(s) EXCEPT !.state = "CONFIG_ERROR"] \in SessionType
           /\ [BeginLoad(s) EXCEPT !.state = "CONFIG_ERROR"].state = "CONFIG_ERROR"
  BY MaxRevisionAssumption DEF BeginLoad, SessionType, DocumentState

\* A closed session has lost what it had prepared.
LEMMA SessionClosed ==
    ASSUME NEW s \in SessionType
    PROVE  ClosedSession(s) \in SessionType /\ ClosedSession(s).state = "CLOSED"
  BY MaxRevisionAssumption DEF ClosedSession, SessionType, DocumentState

\* Replacing the state of one document by one that is not ready.
LEMMA ReplacedSession ==
    ASSUME SessionsTyped, FreshPublication, NEW document \in DocumentId, NEW s \in SessionType,
           s.state # "READY", session' = [session EXCEPT ![document] = s]
    PROVE  session' \in [DocumentId -> SessionType] /\ FreshPublication'
  BY DEF SessionsTyped, FreshPublication

\* A ready document shows its latest load.
LEMMA SessionStep == IInv /\ [Next]_vars => SessionsTyped' /\ FreshPublication'
<1> SUFFICES ASSUME IInv, [Next]_vars PROVE SessionsTyped' /\ FreshPublication'
  OBVIOUS
<1> USE DEF IInv
<1>1. ASSUME session' \in [DocumentId -> SessionType] /\ FreshPublication',
             UNCHANGED <<window, submit_status>>
      PROVE  SessionsTyped' /\ FreshPublication'
  BY <1>1 DEF SessionsTyped
<1>2. ASSUME NEW document \in DocumentId, LoadRefused(document)
      PROVE  SessionsTyped' /\ FreshPublication'
  <2>1. session[document] \in SessionType /\ session[document].load_revision < MaxRevision
    BY <1>2 DEF LoadRefused, SessionsTyped
  <2>2. session' \in [DocumentId -> SessionType] /\ FreshPublication'
    BY <1>2, <2>1, RestartedSession, ReplacedSession DEF LoadRefused
  <2> QED
    BY <1>1, <1>2, <2>2 DEF LoadRefused
<1>3. ASSUME NEW document \in DocumentId, NEW too_large \in BOOLEAN, Load(document, too_large)
      PROVE  SessionsTyped' /\ FreshPublication'
  <2>1. session[document] \in SessionType /\ session[document].load_revision < MaxRevision
    BY <1>3 DEF Load, SessionsTyped
  <2>2. PICK s \in SessionType : s.state # "READY" /\ session' = [session EXCEPT ![document] = s]
    BY <1>3, <2>1, RestartedSession DEF Load
  <2>3. session' \in [DocumentId -> SessionType] /\ FreshPublication'
    BY <2>2, ReplacedSession
  <2>4. submit_status' \in SubmitStatus /\ window' = window
    BY <1>3 DEF Load, SubmitResult, SubmitStatus
  <2> QED
    BY <2>3, <2>4 DEF SessionsTyped
<1>4. ASSUME NEW document \in DocumentId, CloseTab(document) \/ WindowCloseDocument(document)
      PROVE  SessionsTyped' /\ FreshPublication'
  <2>1. session[document] \in SessionType
    BY DEF SessionsTyped
  <2>2. ClosedSession(session[document]) \in SessionType
        /\ ClosedSession(session[document]).state = "CLOSED"
    BY <2>1, SessionClosed
  <2>3. session' \in [DocumentId -> SessionType] /\ FreshPublication'
    BY <1>4, <2>2, ReplacedSession DEF CloseTab, WindowCloseDocument
  <2> QED
    BY <1>1, <1>4, <2>3 DEF CloseTab, WindowCloseDocument
<1>5. CASE PollTake
  <2> DEFINE found == {c \in stored_results : c.ticket = FirstTicket(drained)}
  <2>1. CASE UNCHANGED session
    BY <1>1, <1>5, <2>1 DEF PollTake, SessionsTyped, FreshPublication
  <2>2. CASE found # {} /\ (\E c \in found : AcceptCompletion(c.document, c))
    <3>1. PICK c \in Completion : AcceptCompletion(c.document, c)
      BY <2>2 DEF TicketsFresh
    <3>2. c.document \in DocumentId
      BY DEF Completion
    <3> QED
      BY <1>1, <1>5, <3>1, <3>2, AdoptedIsCurrent DEF PollTake
  <2> QED
    BY <1>5, <2>1, <2>2 DEF PollTake
<1>6. CASE \/ WorkerStep /\ UNCHANGED guiVars
           \/ AddDocument \/ PollBegin \/ WindowClose \/ WindowStopsWorker
           \/ WindowNotifiesWorker \/ WindowJoined \/ UNCHANGED vars
  BY <1>6 DEF guiVars, vars, AddDocument, PollBegin, WindowClose, WindowStopsWorker,
              WindowNotifiesWorker, WindowJoined, SessionsTyped, FreshPublication
<1> QED
  BY <1>2, <1>3, <1>4, <1>5, <1>6 DEF Next, Destroying

-----------------------------------------------------------------------------
(***************************************************************************)
(* The theorems.                                                           *)
(***************************************************************************)

\* The invariant holds whatever the window, the timer and the worker do.
THEOREM Invariance == Spec => []IInv
<1>1. Init => IInv
  BY InitInvariant
<1>2. IInv /\ [Next]_vars => IInv'
  BY QueueStep, OpenStep, ClosedStep, MailboxStep, SessionStep DEF IInv
<1> QED
  BY <1>1, <1>2, PTL DEF Spec

\* Every variable has its type; in particular the queue never outgrows its two
\* slots, with one request per document.
THEOREM TypeCorrect == Spec => []TypeOK
<1>1. IInv => TypeOK
  <2> SUFFICES ASSUME IInv PROVE TypeOK
    OBVIOUS
  <2>1. IsFiniteSet(pending) /\ Cardinality(pending) <= Cardinality(tabs)
    BY OnePerDocument DEF IInv, QueueTyped, PendingOpen
  <2>2. Cardinality(pending) \in Nat /\ Cardinality(tabs) \in Nat
    BY <2>1, FS_CardinalityType DEF IInv, PendingOpen
  <2>3. Cardinality(pending) <= MaxPending
    BY <2>1, <2>2 DEF IInv, PendingOpen, MaxTabs, MaxPending
  <2> QED
    BY <2>3 DEF IInv, TypeOK, QueueTyped, PendingOpen, TicketsFresh, SessionsTyped
<1> QED
  BY <1>1, Invariance, PTL

\* A ready document shows the configuration of its latest load, however many
\* older loads were compiled, replaced or filed late in between.
THEOREM ReadyIsLatest == Spec => []FreshPublication
<1>1. IInv => FreshPublication
  BY DEF IInv
<1> QED
  BY <1>1, Invariance, PTL

\* CloseDocument returns with nothing of the document queued or filed, and a
\* compilation that was running then files nothing later.
THEOREM ClosedStaysSilent == Spec => []ClosedDocumentsSilent
<1>1. IInv => ClosedDocumentsSilent
  BY DEF IInv
<1> QED
  BY <1>1, Invariance, PTL

\* No completion is stranded in the mailbox without its notification, none is
\* announced twice, and no notification is left without its completion.
THEOREM MailboxAgrees == Spec => []MailboxConsistent
<1>1. IInv => MailboxConsistent
  BY DEF IInv
<1> QED
  BY <1>1, Invariance, PTL

\* The window never sees its scheduler refuse a load for lack of room.
THEOREM QueueHasRoom == Spec => []NoCapacityRejection
<1>1. IInv => NoCapacityRejection
  BY DEF IInv
<1> QED
  BY <1>1, Invariance, PTL
=============================================================================
