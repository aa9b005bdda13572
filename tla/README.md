# Protocol Adapter Engine: TLA+ specifications

The Protocol Adapter Engine (PAE) compiles a description of an industrial
protocol into a frozen *plan* and runs it: a stream framer cuts a byte stream
into frames, a codec decodes and encodes complete records, and a host endpoint
binds both to channels and calls the application back. The Lab tools (command
line and Qt) sit on top. This directory models the parts of that system whose
correctness depends on order, interleaving, failure and limits.

Paths below are relative to the repository root; PROJECT.json maps every
definition to its lines.

## 1. Inventory

### Library (`src/`, `include/pae/`)

| Component | State | Operations | What makes it correct |
| --- | --- | --- | --- |
| Config compiler (`src/config_compiler`), YAML frontend (`src/config_frontend_yaml`) | none between calls | JSON/YAML text to a plan draft, with limits and diagnostics | only consistent descriptions become drafts |
| Plan builder (`src/protocol_plan`) | the frozen `PlanBundle` | `Build`: re-checks everything before it publishes | a published plan satisfies what the run time relies on without checking |
| Complete record codec (`src/protocol_core`) | scratch workspace | `DecodeCompleteRecord`, `EncodeCompleteRecord` | unique match, exact values, nothing published on failure |
| Stream framer (`src/protocol_framing`) | state, buffer, search, rescan and compaction progress, totals | `PushStreamChunk`, `ResetStreamFramingWorkspace`, `Observe` | frames and skipped bytes depend on the stream only; every byte is accounted for; budgets delay, never change |
| Public codec and framer facades (`src/public_api`) | publication generation, view epoch, lease | `Decode`, `Encode`, `Push`, `Continue`, `Reset` | views of old records are not readable; one call at a time |
| Public host endpoint (`src/public_api/host_endpoint.cpp`) | lease flag; per channel generation, fault, codec, framer; thread-local callback chain | `Find`, `Observe`, `Reset`, `Decode`, `Push`, `Continue`, `Encode` | exclusive calls, honest statuses, faults isolate a channel, handles expire |
| Internal host session (`src/host_endpoint`) | as above with a plain flag | as above | as above |
| Public compiler (`src/public_api/compiler.cpp`) | reference count of the compiled state | compile, describe | the plan outlives its users |

### Tools (`tools/`)

| Component | State | Operations | What makes it correct |
| --- | --- | --- | --- |
| Compile worker (`protocol_lab_ui/compile_worker.cpp`) | queue, active request, closed documents, mailbox, stop flag | `Submit`, `CloseDocument`, `DrainReadyTickets`, `TakeResult`, destructor; one thread | bounded queue, no result of a closed document, no lost wake-up, the destructor returns |
| Lab window, tabs, sessions (`protocol_lab_ui`) | tabs, session state and revisions, prepared document | add, load, poll, close | what is shown belongs to the latest load |
| Lab adapters (`protocol_lab_ascii`, `protocol_lab_binary`, adapters of `protocol_lab_ui`) | prepared host, revisions of drafts and results | prepare, submit, continue, reset | what is shown belongs to the current input |
| UDP exchange and older evidence (`protocol_lab.cpp`, `udp_exchange.cpp`, `evidence_bundle.cpp`) | socket; files of a bundle | inspect, encode, udp-exchange, replay, compare; begin, record, complete, verify | evidence exists before the datagram leaves; foreign answers are never decoded; a bundle that verifies is complete |
| Stored runs (`c3_cli.cpp`, `v07_run.cpp`, `v07_run_evidence.cpp`, `v06_*.cpp`) | directories of a record root | execute, write, publish, replay, compare | what is read is a whole published run; a replay repeats it |
| Document session and tab (`document_session.cpp`, `document_tab.cpp`) | load and host state, drafts, previews, results, streams, questions asked | load, reload, apply a host table, select, edit, encode, inspect, submit, step, reset, close | what is shown belongs to the input on screen; no byte is lost or fed twice |
| Conformance runner | none | compares vectors | - |

### Interactions

The framer and the codec call nobody but their caller's sink. The host calls
both under its lease and runs application callbacks, observer first and business
sink second, while it holds the lease; callbacks may call other hosts and, by
mistake, the same one. The Lab's GUI thread and its worker thread share the
mutex of `CompileWorker`; results travel through a mailbox and are routed by
document number and load revision.

### What is hard here

- Stopping between any two steps: every framer step may be the last of its call
  (work budget, frame quota, STOP) and must resume exactly.
- Resynchronisation inside a refused header, with self-overlapping syncs.
- Callbacks that re-enter, nest over several hosts, stop, fail or throw.
- Stale things: handles after a reset, record views after another decode,
  compile results after a reload or a close.
- Small limits: two queue slots, one frame per call, the smallest budget, the
  last generation number.
- Rules stated twice: the config compiler and the plan builder validate the same
  description, the compiler proves what the codec relies on, the public queries
  describe a plan from other data than the codec runs on.
- Processes that die between two files, two processes with one run name, files
  damaged later.
- A modal question runs an event loop: what was read before it is stale after it.
- Exact arithmetic: 256-bit limbs, rational scales, signs and widths, text whose
  values look like separators.

PROJECT.json lists these as hazards, each at its line, with the properties that
cover it.

## 2. Modules

| Module | Models | Kind |
| --- | --- | --- |
| `FramingPlan` | the frozen framing descriptor, its admission rules, sync automaton, length field | constants, operators |
| `FrameStream` | what a framer promises, with neither chunks, budgets nor buffers | abstract specification |
| `StreamFramer` | the framing workspace and `PushStreamChunk` | state machine, refines `FrameStream` |
| `CompileWorker` | the worker and its mailbox | actions, used by `LabDocuments` |
| `LabDocuments` | window, tabs, sessions, composed with `CompileWorker` | state machine |
| `HostEndpoint` | hosts, channels, leases, callbacks, handles, codec views | state machine |
| `LabStreamFlow` | one receive flow of a Lab adapter: the frozen chunk and its steps | operators |
| `DocumentSession` | the calls of `DocumentSession`, as functions of its state | operators |
| `DocumentTab` | one document: handlers, questions, completions | state machine on `DocumentSession` |
| `RunExecution` | an execution of the Lab bridge and the record made of it | operators |
| `RunEvidence` | command line processes, run bundles, crashes, damage | state machine on `RunExecution` |
| `LabBundle` | results of the older commands, the files of their bundles and the reader's checks | operators |
| `UdpExchange` | the older commands with socket, evidence transaction and faults | state machine on `LabBundle` |
| `WideDecimal` | integers of several bytes, bit groups, sums and CRC; limb arithmetic and linear conversions | operators |
| `TextRecord` | text templates: compiled form, walk, encode, CRLF proof | operators |
| `RecordLayout`, `RecordFields` | matching, lengths, integrity; decoding and encoding of fields | operators |
| `RecordCall` | one codec call: checks, order of effects, result | operators |
| `RecordCodec` | callers sharing one workspace | state machine |
| `JsonProfile` | the checks of a configuration as text and as parsed values | operators |
| `SchemaParse`, `SchemaDomain` | structure by version, domain rules | operators |
| `PlanBuild`, `PlanFreeze` | budgets, draft and memory; the builder's own validation | operators |
| `ConfigCompile` | the stages of a compilation with faults, and the descriptions | state machine over the above |
| `PlanQuery` | the queries of a compiled protocol | state machine on `ConfigCompile` |
| `MC*` | instances for TLC | - |
| `StreamFramerProofs`, `HostEndpointProofs`, `LabDocumentsProofs`, `DocumentTabProofs`, `RunEvidenceProofs`, `UdpExchangeProofs` | theorems about these modules | proofs |
| `FrameStreamProofs` | `StreamFramer` implements `FrameStream`; what its calls report; on `StreamFramerProofs` | proofs |

### StreamFramer and FrameStream

`state`, `buffer` and `progress` are `state_`, `buffer_` up to `buffered_size_`
and the progress fields of `StreamFramingWorkspace`. One action is one turn of
the loop of `PushStreamChunk`; the inner loops of COPY_SYNC and RESCAN are split
into one action per byte, because the budget can end a call between them.
`Turn(s)` holds when the next turn has its input byte and its work units;
otherwise `InputStop` or `BudgetStop` ends the call. `NextCharge` gathers the
charges the code makes at the head of each turn. `input` is what the caller
holds; `Push(n)` offers any prefix, so every division of every stream into
chunks is a behaviour. A sink returns CONTINUE or STOP.

`stream`, `base`, `frames`, `delivered` and `dropped` are history variables.
`Retained` is the number of consumed bytes whose fate is open, and `Cut`, the
offset before them, is the refinement mapping: `Framed == INSTANCE FrameStream
WITH cut <- Cut`. `FrameStream` says, from the stream alone, which offsets can
never start a frame (`Hopeless`) and which bytes are a frame (`IsFrame`); it
delivers the frame at `cut` or moves `cut` over hopeless bytes, and nothing else.

The fallback loop over the prefix table is written without recursion: it visits
the smallest set closed under the table, and stops at the largest member that
the byte extends. The per-call counters of discarded bytes and malformed
candidates move with the totals and are left out. The workspace's busy flag is
not in this module: its callers make one call at a time (see HostEndpoint).

### HostEndpoint

A call is an entry of its thread's `stack`. `Enter` is the callback-chain check
and the atomic `test_and_set`; the operation then runs under the lease in one
action, or stops in phase OBSERVER, BUSINESS or FRAMING, where the application
(on the same thread, through further calls) and the other threads can act. The
stack is the thread-local chain of `CallbackScope` nodes: a call below the top
is always suspended in a callback. `Return` releases the lease.

The framer is reduced to what a push sees of it: it delivers up to
`MaxCandidates` candidates, refuses the chunk, or returns. The codec is reduced
to its publication state; `written` counts decodes, so that a property can say
what a reader of the slots would see. `Handles` is every handle that `Find` has
been able to return, stale and foreign ones included, and the default handle.
The framer's and the codec's own leases are never contended under the host
lease and are left out; `bytes_consumed` and the other counters that mirror the
ones kept are left out as well.

### CompileWorker and LabDocuments

Each action of `CompileWorker` is one critical section of its mutex, or the
compilation between two. The condition variable is explicit: the worker is
ASLEEP until a `notify_one`. Tickets are handed out in ascending order and only
appended, so the deque of ready tickets is the set of them, taken smallest first. `notify_one` after publishing reaches nobody, the
worker being the only waiter, and is left out.

The GUI thread runs one handler at a time. A handler that enters the mutex once
is one action; `PollCompileResults` drains tickets in one critical section and
takes each result in another, so it is `PollBegin` and then one `PollTake` per
ticket. After `WindowClose` the documents are closed one by one; from then on
no ticket can be ready, so polling is over. A configuration text is identified
by document and revision. `Prepared` is the set of ways `ApplyCompileCompletion`
can end: READY, or CONFIG_ERROR when artifacts are missing or cannot be adopted.

### DocumentSession, DocumentTab and LabStreamFlow

`DocumentSession` is a record `s` and one operator per call of the C++ class that
returns the new record, so that a handler of the tab, which makes several calls
and decides between them, is one action. `Kind` is the schema route a build
takes: the older bridge, the legacy ASCII route, ASCII 0.10 and 0.11 and Binary.
An optional value is a sequence of length 0 or 1; bytes are tokens that are
records, broken records or parts of one.

`DocumentTab` adds the requests at the worker, the Host request that is waited
for, and the questions on screen. A question suspends the handler that asked it;
the poll timer goes on below it, unless a timer handler asked. `EncodeCurrent`
and `InspectCurrent` are armed first and run in a later step, because the code
processes pending events between. `CompileWorker` is reduced to the sequence of
unanswered requests, which `LabDocuments` justifies. `LabStreamFlow` chooses
freely how much of a chunk the Host takes in one step, and whether the copy of a
candidate fails.

### RunEvidence, UdpExchange and what they are built from

`RunExecution` follows the phases of `v06_execution.cpp` and lists which events
and which outcome each leaves; the codec's answers are parameters.
`RunEvidence` lets several processes work on one record root, one file operation
per step; every operation may fail, a process may die between any two, and a
stored file may be lost, replaced or added. A hash is the hashed content.

`LabBundle` and `UdpExchange` do the same for the older commands.
`LoadStoredRun` is the conjunction of the checks in the code, and the properties
compare it with what the command set out to write (a history variable).
Datagrams of any frame from any endpoint may wait at the socket.

### The codec

Everything a call computes is an operator, so that `ConfigCompile` and
`PlanQuery` judge their plans with the codec of `RecordCall`. `ByteBits`,
`LimbBits` and `LimbCount` scale bytes and limbs: with bytes of two bits all
records of a plan can be enumerated, and every rule that depends on the size of
a byte (widths, signs, masks, sums, CRC) depends on the constant. `RecordCodec`
adds what a call is when callers share the workspace: lease, raw integers,
leftovers of a failed call. An output that is spoiled before the final review is
a choice of the environment.

### The compiler

A document is a record whose optional members may be absent; `SchemaParse` says
which members a version knows and which it requires, `SchemaDomain` what must
agree, `PlanBuild` the sizes and the draft, `PlanFreeze` the second validation by the
builder. `ConfigCompile` orders them in stages, each of which can end the
compilation with its diagnostic, adds the descriptions, and injects the failures
of allocation that the code handles.
Where the code tries conditions in an order, the CASE arms are to be read in
that order. `PLAN_MEMORY_LIMIT_EXCEEDED` stands for `RESOURCE_LIMIT_EXCEEDED`
with resource kind `PLAN_ACCOUNTED_MEMORY`.

`JsonProfile` stands before these: the texts and trees a parser may be given.
The precheck counts brackets and the audit counts values, so a scalar inside
`MaxDepth` nested arrays passes the first and is refused by the second.

Things the model shows that are not errors by any document of the repository:
the 257th-bit test of the long division never decides anything; Decode does not
compare a received constant with the configured one; a preserved unknown
enumeration value cannot be encoded again; a message whose ENUM field with
policy REJECT lies on a matched byte without an entry for the matcher's value
compiles, though no record of it exists; and replaying an older run of schema
0.1 that failed with FRAME_LIMIT_EXCEEDED reports a difference, because
`FinalizePostPlanFailure` leaves the results of that schema without a
fingerprint (`ReplayRepeats` of `UdpExchange` says exactly when a replay is EQUAL).

## 3. Runs

A run is one question asked of one part of the system. Where the question has
several instances (plans, schema routes, numbers of processes), an MC module
draws the instance in its initial state and each behaviour stays with it; the
property then says the same of every instance.

| Run | Question | Bounds |
| --- | --- | --- |
| `framer_length_field` | sync and two-byte length: every byte accounted for, no internal error, truthful reports, the frames of the abstract stream, a patient caller drains everything | 6 stream bytes over {0, 1, 5}, chunks of at most 3, budget 5, one frame per call |
| `framer_strategies` | frames and stop reasons of all four strategies | self-overlapping sync, 6 bytes; sync with two fallbacks, 9; fixed length, 8; CR LF records of at most 3, 7; length field, 7 |
| `lab_documents` | stale, closed and replaced loads; the two queue slots; loads complete, the destructor joins | 3 documents, 2 tabs, 2 loads each |
| `host_calls` | leases, callback chains, views, faults, counts | 1 thread, 1 host, each pair of channel kinds; 2 threads, 2 hosts of streams, 2 decodes between them; 2 generations, 2 codec calls per channel |
| `host_fault_order` | the documented order of checks (violated) | 1 thread, 1 host, 1 channel |
| `document_tab` | what is shown, held and prepared on each of five schema routes | 8 documents; 1 or 2 pipelines, 1 or 2 loads, a Host applied up to twice, 2 tokens taken |
| `tab_live` | loads and Host requests settle; the proved safety properties of a tab, of one document | ASCII stream document, 2 loads, 1 table, 1 token taken |
| `stored_runs` | what is published was written, read and never changed | 4 configurations, every answer of compiler and codec, no fault; 2 processes, 2 names, 1 fault; 1 process at a time, 2 faults |
| `udp_exchange` | what was sent is on disk; bundles tell what happened; commands end | 2 exchanges with 1 datagram; 3 commands without socket, among them replays of replays under another configuration or generation; 2 commands with 1 fault |
| `algorithms` | limb arithmetic, conversions, text templates, JSON profile against reference definitions | all operands of 3 limbs; small fractions; records of up to 9 characters; texts of 5 parts, trees of 5 values |
| `codec` | answers depend on the call alone; what is delivered decodes back | 3 plans and every short record and value on each, bytes of 2 bits; 2 callers of one workspace |
| `compile` | two validations agree but for two kinds of document; matchers; plans can be run; queries tell the truth | families of documents, every version, every member left out, one failed allocation |

What the properties of a run say:

- `ByteAccounting`: consumed bytes are framed, discarded, dropped by a reset or
  held, and each once. `ReportsTruthful`: the stop reason tells what is left to
  do, and a malformed count is a refused header. `FramesTheStream`,
  `EveryStrategyFrames`: each step is a step of `FrameStream` or changes nothing
  there. `EverythingDrains`: a caller that goes on offering gets rid of all it has.
- `FreshPublication`, `ClosedDocumentsSilent`, `MailboxConsistent`,
  `NoCapacityRejection`, `LoadCompletes`, `DestructorJoins`: see `LabDocuments`.
- `LeaseExclusive`, `FaultedChannelSilent`, `RecordViewsHonest`,
  `BorrowedWhileInCallback`, `ResultTruthful`, `BusyMeansContention`: see
  `HostEndpoint`.
- `TabTruthful`: the same parts on every schema route. In every state drafts survive
  (`DraftsSurvive`), a preview is that of the draft shown, the label says whether a
  result is shown (`StateLabel`), a token given to a stream is framed, held or frozen,
  once (`BytesOnce`), and the Host in use was prepared for the current load
  (`PublishedForCurrentLoad`). Of every step: a result beside a draft it was not made
  of comes up in one way only (`ResultOfShownInputStep`), and so does a pipeline or
  mode that is not that of the selected binding (`HostSelectionStep`).
  `InputRespected`: bytes are not discarded unasked, a confirmed reload begins, asks
  on, or in one case, named exactly, is dropped; on the text routes an edit is not
  submitted twice. `RequestsSettle`: loads and Host requests end.
- `EvidenceTruthful`: an exit of zero means a published run, what is published
  qualifies, a replay of it repeats, a comparison agrees with the runs compared.
  `AcceptedIsComplete`: a directory that the reader accepts is what one process
  wrote, whole. `PublishedImmutable`: no process changes a published run.
- `PublishedTruthful`: a published bundle loads if and only if it is not the refused
  replay of a run without an operation, and the replay of a published run with its own
  configuration is EQUAL if and only if the codec or its limit was asked and the run
  has a fingerprint; what a gate kept from the codec is not compared.
  `DirectoriesTruthful`: no datagram leaves before its evidence is on disk
  (`SentIsRecorded`), what the reader accepts is what one command wrote
  (`AcceptedIsWritten`), a bundle says of the datagrams what happened
  (`TellsTheWire`), no foreign or oversized answer was decoded for it or for a
  replay of it (`ForeignNeverDecoded`), and an exit code of zero has its evidence
  (`ExitTruthful`). `CommandEnds`: every command ends.
- `NumbersExact`, `TextsUnambiguous`, `ProfileExact`: each algorithm is its
  reference definition.
- `CallsIndependent`: no call sees another's leftovers. `DeliveredDecodes`: the
  record of an Encode decodes to the values given. `ReceivedSound`: what Decode
  accepts has one matching message, valid integrity and values that can be sent.
- `VerdictStable`: of what the validator accepted the builder refuses the documents
  of two kinds, all of them and no other, and descriptions change no verdict. `MatchersSound`: pairs are refused exactly if
  some record matches both. `PlanWorks`: records of a compiled plan can be made,
  received and framed. `QueriesTruthful`: the public queries agree with what the codec
  does, and so does what they announce of a message (`ExecutionHonest`).

The framer bounds let a refused header be followed by a rescan, a compaction, a
second refused header and a new candidate within one stream, and the budget is
small enough to split each of these over several calls. With a header of four
bytes and a sync of two, a second sync can lie inside a rejected header or start
in it and end in later input. Two hosts and two threads are the
smallest instance with a chain A, B, A and with contention; two generations
include a reset and the exhausted counter. Two tabs and two slots are the code's
own limits; a third document exists only after a close; two revisions suffice
for a stale result.

The codec bounds: a byte of two bits keeps a record of four bytes within 256
values, so that every record of a plan is decoded and every combination of
values is encoded; the words of the limbs are as small as they can be while a
product still overflows the lower ones and a carry still leaves the top one. The
document families of `compile` vary one thing against another (offsets, widths
and containers of two fields; two matchers; framing against message) and take
every member out of a document of every kind, in every version. Bundles need two
commands, so that one can replay or overwrite the other; with one fault all
single failures between two steps are covered, and two faults let a crash be
followed by damage. For tabs one value and two records tell an old draft or
result from a new one, and two loads and two tables let one preparation overtake
another.

Deadlock is checked for the framer and the host. The other systems stop: the
window or the tab is closed, the commands are used up, or the one call has been
answered.

The violated run `host_fault_order` is a disagreement between the host contract
(`docs/engineering/pae-public-host-stage2b-contract.md`, section 3) and the code:
the contract puts the fault check (step 5) right after handle, action and input
kind, but `Decode` and `Push` look at their pointers first, so a faulted channel
may answer INVALID_ARGUMENT. `Encode` follows the contract. It is the finding
listed in PROJECT.json.

In some places the code does less than its documents say, or than a reader would
expect. None of them is left out of the runs: each is reached, and the property it
concerns says exactly when the code deviates, so that a further deviation violates
it; but for the old result and the label, code without the deviation violates it too.

| Where | What the code does | What is written elsewhere | Stated in |
| --- | --- | --- | --- |
| `document_tab.cpp:4352` | a pipeline or mode chosen before a question is applied although a Host was published below the question; it need not be that of the selected binding | - | `OvertakenAnswer`, in `HostSelectionStep` |
| `document_tab.cpp:4577` | a confirmed reload is dropped if a Binary Host shows a flow without a stream while another flow holds bytes | `lab-binary-host-observer-contract.md:119`: a reload releases the old instance once confirmed | `ReloadDropped`, in `ConfirmedReloadStep` |
| `document_session.cpp:364` | a change of flow of a Binary Host shows the last Decode of that flow beside a draft edited since | `lab-ui-offline-inspect-contract-draft.md:207` | `ResultOfShownInputStep` |
| `document_session.cpp:2604`, `:2709` | a failed step of an ASCII stream clears the result and returns before the state is refreshed: the label stays PREVIEW_VALID | `document_session.cpp:2968`: PREVIEW_VALID is a valid result shown in the current mode | `LabelLags`, in `StateLabel` |
| `protocol_lab.cpp:844`, `evidence_bundle.cpp:587` | the refused replay of a run that stopped before its operation was known is published without a subject, and the reader refuses it | `protocol_lab_contract_v0.1.md:434`: a product of Replay must itself be replayable | `RefusedWithoutOperation`, in `CompletedIsLoadable` |
| `protocol_lab.cpp:142` | an inspection of schema 0.1 that met the frame limit has no fingerprint, so its replay is not EQUAL | `protocol_lab_contract_v0.1.md:292` | `ReplayRepeats` |
| `plan_builder.cpp:1895`, `config_compiler.cpp:2560` | two encode-only texts of one length in a pipeline pass the compiler, and the builder answers as if the compiler were broken | - | `SendsAlike`, in `BuilderAgrees` |
| `plan_builder.cpp:1303`, `plan_builder.cpp:88` | a payload of at most 0 bytes passes the compiler and not the builder | `bounded-variable-record-contract.md:48`: 0 <= min <= max | `EmptyPayload`, in `BuilderAgrees` |

### Fairness

- `StreamFramer`: weak fairness of the loop (a running call is executed) and
  strong fairness of `Offer`, the documented behaviour of a caller: it keeps
  offering what it holds and calls `Continue` when it holds nothing. Strong,
  because every running call disables it, also calls that offer nothing.
- `LabDocuments`: weak fairness of the worker thread (it is scheduled, and a
  compilation is a terminating function), of polling (a 15 ms timer on the GUI
  thread) and of the steps of a destructor that has started. Users are not
  assumed to do anything.
- `DocumentTab` (`tab_live`): weak fairness of the delivery of completions (the
  worker answers each request and the poll timer runs), of a button handler that
  has begun, and of answers: a modal question is answered in the end, either way.
- `UdpExchange` (`udp_exchange`): weak fairness of the process that runs; the wait
  for a datagram is bounded by its timeout. No datagram is assumed to arrive.

No fairness is assumed of `HostEndpoint`: its calls never wait, so nothing
there has to happen eventually except the return of application callbacks.

## 4. Proofs

TLAPS checks seven modules, for every value of the constants that satisfies the
named assumptions. Each rests on an inductive invariant that TLC checked first
on an instance.

`StreamFramerProofs`, from `FramingTypeAssumption`, `FramingAccepted`,
`BytesAssumption` and `LimitsAssumption`: `Spec => []IInv` with
`IInv = TypeOK /\ CandidateShape /\ OfferHeld /\ ByteAccounting /\ NoInternalError`.
Byte accounting alone is not inductive: it needs to know how many bytes each
state holds. `CandidateShape` says so state by state (a search holds a proper
prefix of the sync and an empty buffer, a rescan index lies inside the buffer, a
compaction moves a suffix that fits, a collecting state is below its target, a
header is below the capacity). `OfferHeld` says that the caller holds what the
running call has not consumed. The theorems: `TypeCorrect` (the buffer bound
whatever lengths are declared), `BytesAccounted`, `InternalErrorUnreachable`.
The lemmas about the sync automaton show that a fallback stays within the match
and that the next match grows by at most one.

`FrameStreamProofs` shows, from the same assumptions, that the framer implements
`FrameStream` and that what it reports is true. It has three layers.

1. The sync automaton. The builder accepts a prefix table when each entry is the
   next match of the one before it (`PrefixTableAccepted`); that its entries are
   the longest borders is a consequence. `ChainsAreBorders` shows it: a least
   match whose chain is not the set of its borders would contradict
   `AutomatonStep`, which is the step of the search read on the sync bytes
   themselves. The same lemma then says of the stream that the match is the
   longest sync prefix that ends here, so no candidate is jumped over
   (`SearchSlides`). The least counterexample over the finite table takes the
   place of an induction.
2. `StreamInv`: what each state of the loop knows of the stream. The buffer is the
   stream behind the cut; behind a refused length nothing starts before the match
   of the rescan; a half-done compaction can read each byte where it will look for
   it; an open ASCII record has no terminator of its own; a pending frame is
   `IsFrame`. Each action keeps it and maps to `Emit` (`DeliverPending`), `Reset`,
   `Advance` (a byte or skipped offsets), or no step (budget and input stops, a
   new call, copied and moved bytes). Theorems: `StreamInvariance` and
   `FramesStream`, which is `Spec => FramesTheStream`.
3. The reports. `ReasonTold`: in a state that needs a byte no frame is complete
   (`NothingReady`), and in any other there is work. `MalformedOnce`: every offset
   before the cut is in a frame, mismatches or was refused, so the count is the
   number of refused offsets before the cut and the one still at it (`CountInv`).
   A rescan or a compaction ends exactly when the cut leaves the refused offset,
   and no other offset it passes can be refused, because the buffer holds no
   second header. Together `ReportsAreTrue`.

`HostEndpointProofs`, from `BindingAssumption` and `HostLimitsAssumption`:
`Spec => []IInv` with typed stacks, `LeaseExclusive` and `FaultedChannelSilent`,
for any number of threads, hosts and channels and any depth of nesting. The two
safety parts need each other: that a fault set by one call cannot meet another
call in flight on the channel follows from the exclusive lease. The proof is by
the three things an action can do to the stacks (push a call, replace the top
one, pop it), each a lemma, and one lemma per action on top of them. Theorems:
`TypeCorrect`, `LeaseIsExclusive`, `FaultsSilence`.

The second half of the module goes on from there:
`ResultsInv = IInv /\ CallsSound /\ ViewsMarked /\ ResultSound(outcome)`.
`CallsSound` relates each call on a stack to its channel and to how far it got:
the generation its handle was valid for, the record its decode wrote, the
candidates it counted. `ViewsMarked` relates a view to the generation and epoch
it was taken at. While a call is suspended in a callback, other calls run, and
only the exclusive lease says that none of them is on the same host: that is why
`IInv` is part of the invariant. Theorems: `ResultsTruthful`, `ViewsAreHonest`,
`BorrowsHold`, and the action property `BusyTellsContention`.

`LabDocumentsProofs`, from `DocumentIdAssumption` and `MaxRevisionAssumption`: the
invariant joins `QueueTyped`, `PendingOpen`, `NoCapacityRejection`,
`ClosedDocumentsSilent`, `TicketsFresh`, `MailboxConsistent`, `SessionsTyped` and
`FreshPublication`. The step that carries the queue: what is queued belongs to an
open tab, and a document has at most one request there, so by an injection two
slots suffice for two tabs. Theorems: `TypeCorrect`, `ReadyIsLatest`,
`ClosedStaysSilent`, `MailboxAgrees`, `QueueHasRoom`.

`DocumentTabProofs`, from `KindAssumption`, `ChunksAssumption` and
`SourcesAssumption`, for every schema route:
`Spec => []IInv` with `IInv = SessionSound(s) /\ QueueSound /\ QuestionsSound`.
`SessionSound` is about the session: each stream conserves its bytes
(`StreamSound`), a draft that is marked as submitted is one that parses and not a
Binary one (`InputSound`), a Host in use carries the load and configuration it was
prepared for (`HostSound`), and without a Host only the stream of the selected
pipeline can hold anything (`DirectSound`). `QueueSound`: a request in
the queue that is the one waited for is of the current load. `QuestionsSound`:
at most two questions are open, one about a publication is the innermost and about
the current load and configuration, and none outlives the document. The last two are needed for
`PublishedForCurrentLoad` because a completion arrives below whatever question is
open, and a reload may take place between the request and its answer. `DirectSound`
is needed for `InputRespected`: a confirmed discard goes on without a second
question only if nothing else can be lost. The operators of `DocumentSession` come
first, each classified by what it leaves alone (`Quiet`, `Kept`) and by what becomes
of the streams and the draft (`Spared`, `Emptied`, `Once`), then one lemma per
action of the tab. Theorems: `SessionInvariant`, `StreamsKeepTheirBytes`,
`HostIsOfCurrentLoad`, and the action property `InputIsRespected`, which covers the
confirmed reload of every route: the step either begins or asks on, or
`ReloadDropped` holds and nothing happens.

`RunEvidenceProofs`: every manifest on disk is garbage or a part of one that a
writer meant to write (`DiskSound`, with the history of what was meant), what was
meant is whole (`MeantWhole`), each process carries its bundle and exactly the
files it has left to write (`Sound`), and one process writes in a directory
(`OneWriter`). That a manifest may be a part is needed because a crash or damage
can cut one; that the record lists the rest is what keeps such a part from being
accepted. Theorems: `AcceptedComplete`, `PublishedStays` (an action property),
`ZeroMeansPublished`, `OneWriterEach`.

`UdpExchangeProofs`: `AllStored` relates each directory to its history (what it
held when its last file was written, how many datagrams were sent for it, which
one was taken), and `ProcInv` the process to its directory, phase by phase. A
result is true to the wire (`Truth`) from the start, because everything computed
before and after the exchange is `Quiet` or keeps the four fields of the wire
(`Agrees`); the summary is then serialised from such a result, and the four files
after it do not touch it (`Completing`). Theorems: `SentRecorded`,
`AcceptedWritten` and `WireIsTold`; the last two use that a digest is taken of its
content and of nothing else.

A second invariant of that module, `JudgeInv`, stands on the first and says whose
answer a run tells. The process of an exchange has a result that encodes until
`JudgeResponse` gives the answer to the codec, which it does only for an answer of
the remote endpoint within the limit of the plan (`Exchanging`, `JudgedSound`); its
directory holds the configuration that was judged with (`Recording`). The process of
another command says that an answer was decoded only if it replays a published run
that says so (`Offline`). That is a step through the disk: the replay has read
files, not history, and `AcceptedIsWritten` of the first invariant is what makes the
files it accepted those of the exchange. `FinalSound` keeps both for what is
published, and `ZeroHeld` remembers what an exit code of zero said. Theorems:
`Judgement`, `ForeignUndecoded`, `ExitIsTrue`, and with the three above
`DirectoriesTell`.

Only model-checked:

- Liveness (`EverythingDrains`, `LoadCompletes`, `DestructorJoins`,
  `RequestsSettle`, `CommandEnds`): fairness and ENABLED are out of the prover's
  reach.
- `EveryStrategyFrames`: it states for five plans at once what `FramesStream` and
  `ReasonTold` state for every accepted plan.
- Everything that reaches a module with RECURSIVE operators: `JsonProfile`,
  `WideDecimal`, `TextRecord` and `RecordLayout`, and on top of them
  `RecordFields`, `RecordCall`, `RecordCodec`, `SchemaParse`, `PlanBuild`,
  `PlanFreeze`, `ConfigCompile` and `PlanQuery`. What they compute is recursive
  over data, so the runs `algorithms`, `codec` and `compile` enumerate it.
- The parts of `TabTruthful` about what is shown (`DraftsSurvive`, previews, results,
  labels, the selected binding): what these show differs from one schema route to the
  next. `BytesOnce` and `PublishedForCurrentLoad`, its other parts, are proved.
- `EvidenceTruthful` apart from its part about the exit code, and
  `PublishedTruthful`: that a bundle loads and repeats compares whole results of two
  executions, field by field.
- `FaultReportedBeforeArguments` does not hold (section 3).

## 5. Not modelled, and the plan

To be proved next: that what the older commands publish loads
(`CompletedIsLoadable`), by carrying what each file holds through `Completing` as
`JudgeInv` carries the configuration; the other parts of `TabTruthful`, one schema
route at a time; the rest of `EvidenceTruthful`.

Not modelled:

- `CreateHostEndpoint` (admission of bindings and memory budgets), the value
  accessors of record views, and the lease of a codec or framer used without a
  host. The facades repeat the pattern that `HostEndpoint` models.
- The internal `Session` of `src/host_endpoint`, seen only through
  `LabStreamFlow`.
- The reference count of the compiled state: one atomic counter, incremented and
  decremented by value semantics.
- The arena behind a plan and the containers of the builder: storage is counted,
  not placed.
- The memory accounting of the Lab adapters and their copies for display.
- Exact-value editors, field tables, byte view and the self-test routines of
  the tab (about a third of `document_tab.cpp`): formatting of state that is
  modelled, or tests of it.
- The JSON parser and the YAML frontend (vendored parsers and their limits), the
  parse of decimal literals, argument syntax, diagnostic wording, the
  conformance runner.
