# Verification of the RAG backend

TLA+ models of the backend in `apps/` (Django REST API, Celery worker, Chroma
vector store, PostgreSQL, Redis), model-checked with TLC and, where it says so,
proved with TLAPS. Paths below are relative to the source repository.

## 1. The system

A user registers, logs in, uploads documents, waits until a background task has
indexed them, asks questions that are answered from the indexed chunks by a
language model, and pays for the answers with credits.

| Part | State | Operations | Who else touches the state |
| --- | --- | --- | --- |
| Accounts (`apps/accounts/views.py`, `services.py`, `serializers.py`) | `auth_user` | register (two look-ups, insert), login, me | other web workers |
| Credits (`apps/accounts/models.py`) | `CreditAccount.balance` | open on first question, decrement with floor 0 | every chat request of the user |
| Documents (`apps/documents/`) | `Document` row, file in the media directory | upload (file, row, job, message, task id), list, delete (vectors, file, row) | the worker, other delete requests |
| Ingestion (`apps/rag/tasks.py`, `pipeline.py`) | `IngestionJob` row, `Document.status` | start, extract, upsert, mark success or failure | upload, delete, a second worker |
| Broker (Celery, Redis) | the queue | deliver a message once, twice or not at all | upload, workers |
| Upload checks (`apps/documents/serializers.py`, `apps/common/exceptions.py`, `env.py`) | the limit, read at start-up | accept or refuse a request | the worker chooses its parser from the same name and type |
| Vector store (`apps/rag/vectorstore.py`) | one collection per user; one client per process | create the client, upsert, delete by document, query | worker, delete, chat; the threads of a process |
| Status endpoint (`apps/rag/views.py`, `StatusView`) | none | translate the job's status for its owner | - |
| Chat (`apps/rag/views.py`, `conversations.py`, `retrieval.py`, `llm.py`) | `Conversation`, `Message` | query, stream | other chat requests |
| Common (`apps/common/`, `config/`) | none | request id, logging, health check, settings | - |

What makes it hard:

- **Nothing is locked between statements.** Upload, worker and delete work on the
  same rows, file and vectors in autocommitted statements. The only
  transaction of the application is the one that ends a chat turn.
- **Two stores and a queue without a common transaction.** A crash, an exception
  of Chroma or a lost message leaves a prefix of the steps behind.
- **Delivery.** Celery acknowledges a message before the task body runs and Redis
  keeps nothing on disk (`compose.yaml:42`): a killed worker or broker loses a
  run; a redelivery runs a job twice.
- **Check, then act.** The balance is checked before a call that takes seconds
  and charged after it; an address is looked up twice before the insert; a
  collection is counted twice before it is searched; the client variable is read
  without the lock first.
- **Two readers of one claim.** The serializer accepts a file by its name and type,
  and the worker, minutes later, chooses the parser from both by other rules.
- **Streams.** The status line is sent before the language model is called, and
  the turn is stored by a generator that the client may abandon.

Each component is correct if:

- *upload*: what is accepted can be parsed and what is refused leaves nothing; an
  accepted upload can be polled and comes to an outcome; a listed document has
  its file;
- *ingestion*: a job follows `PENDING -> STARTED -> SUCCESS | FAILURE`; SUCCESS
  means the chunks are in the owner's collection; job and document end alike unless
  a run is lost;
- *deletion*: only the owner deletes, and afterwards row, job, file and vectors
  are gone;
- *vector store*: a collection holds chunks of its user only; a process has one
  client, and no call waits for ever for it;
- *retrieval*: a question finds what its user saw succeed, only the user's own
  chunks, and as if it had looked at the collection once;
- *chat*: history is the user's own; a turn and its charge are stored together
  or not at all; turns do not interleave; every request is replied to;
- *credits*: the balance is what was given less what was spent, never below 0,
  and an overdraft is bounded;
- *accounts*: one account per address, and its password is the one of the
  registration that was accepted.

## 2. Modules

| Module | Role |
| --- | --- |
| `JobLifecycle` | abstract: the documented state machine of a job (`apps/rag/tasks.py:9-12`), with removal |
| `Ingestion` | upload, worker and delete request as processes over shared rows, files, queue and vectors |
| `IngestionProperties` | its type invariant, safety, action and liveness properties, and the refinement of `JobLifecycle` |
| `IngestionHistory` | `Ingestion` with a record of the runs and messages that faults took away, and what becomes of all others |
| `IngestionProofs` | theorems about types, isolation and SUCCESS in `Ingestion` |
| `IngestionLifecycleProofs` | theorems about the lifecycle of jobs, files and deletion in `Ingestion` and `IngestionHistory` |
| `UploadRequest` | an upload from its token to the parser: which requests are refused, with which answer, and what the worker makes of the rest |
| `UploadRequestProofs` | theorems about `UploadRequest` |
| `SharedClient` | abstract: a process makes one client and hands out that one |
| `ChromaClient` | the double-checked locking of `_client()`, its properties and the refinement of `SharedClient` |
| `ChromaClientProofs` | theorems about `ChromaClient` |
| `Retrieval` | a question's two counts and search of a collection, one action each |
| `AtomicRetrieval` | abstract: a question looks at the collection once |
| `KnowledgeBase` | composition: `Retrieval` beside `Ingestion`, with its properties and the refinement of `AtomicRetrieval` |
| `KnowledgeBaseProofs` | theorems about `KnowledgeBase` |
| `CreditLedger` | abstract: an account that is opened once and then only charged |
| `Chat` | query and stream requests with history, retrieval, credits, model and transaction |
| `ChatProperties` | its properties and the refinement of `CreditLedger` |
| `ChatProofs` | theorems about types, credits, locks and overdrafts in `Chat` |
| `ChatTurnProofs` | theorems about prompts, whole turns, their order and what they cost in `Chat` |
| `AccountRegistry` | abstract: each registration or login looks at the accounts once |
| `Accounts` | registration and login, their properties and the refinement of `AccountRegistry` |
| `AccountsProofs` | theorems about `Accounts` |
| `MCIngestion`, `MCIngestionHistory`, `MCChat`, `MCAccounts`, `MCUploadRequest`, `MCChromaClient`, `MCKnowledgeBase` | instances for TLC: owners, chunk counts, spellings, sizes, symmetry |

A definition whose comment begins with "Mutant:" is no part of a model. It is a
faulty variant of the definition after it; the run that checks a property is
repeated with the variant in place of the original and must then fail.

### Ingestion

| TLA+ | Code |
| --- | --- |
| `upload[d]` with `SaveFile`, `InsertDocument`, `CreateJob`, `Dispatch`, `RecordTaskId` | `UploadView.post`, `create_document`, one action per write |
| `pc[w]`, `task[w]` with `Begin`, `MarkStarted`, `MarkProcessing`, `Extract`, `Upsert`, `Mark...Success`, `Mark...Failure` | `ingest_document`, `run_ingestion`, `upsert_chunks` |
| `req[r]` with `FindDocument`, `PurgeVectors`, `UnlinkFile`, `DeleteRow` | `DocumentDeleteView.delete`, `delete_document_vectors` |
| `doc`, `job`, `files`, `queue`, `vectors` | `Document.status`, `IngestionJob`, media directory, broker, collections `user_<id>` |
| `PublicStatus` | `StatusView.get` |
| `purged` | history: a delete request asked the store to remove the document |

`Faults` chooses what the environment may do: `"crash"` (a process is killed
between two steps, or the database ends it), `"redelivery"`, `"chroma"` (a call of
the store raises, before or after its effect), `"broker"` (unreachable, or
restarted empty). Parsing and embedding may raise in every instance. A job is
named by its document, since the upload creates exactly one; primary keys
are not reused, so a document is uploaded once. `Quiescent` is a stuttering step
for the states in which every document was refused or deleted again and all
processes are idle, so that TLC can look for deadlocks everywhere else. The row of
a document and, by cascade, its job are deleted by two statements of one transaction;
a job inserted between them makes its commit fail, which looks like a delete request
killed just before (`RequestCrash`) except that it is answered with a 500.

`IngestionHistory` adds one history variable, `lost`: the documents whose message the
broker forgot or whose run a crash ended. Broker and worker have acknowledged them, so
nothing in the code starts them again; the record is what lets the properties promise
an outcome to all other documents while those faults happen.

### Chat

`req[q].step` walks through the two views: `Receive` (conversation), `ReadHistory`,
`Retrieve`, `CheckCredits`, `Complete` or `Stream`, the transaction `Charge`,
`AddUserMessage`, `AddAssistantMessage`, `Commit`, and `Respond`. `Abort` is a client
that leaves a stream, a killed worker or a database error; it rolls an open
transaction back. `log[c]` holds messages in the order of `created_at`,
uncommitted and rolled-back ones included; `Visible` filters what read-committed
queries see, so a message that was rolled back is never seen by anybody.
`lock[u]` is the row lock that the update of the balance takes. `CheckCredits` is
`get_or_create`: `LookUpAccount` reads, and if there is no account `OpenAccount` inserts
one or, when another request was faster, reads that. `Charge` is the update: under
the row lock it computes the new balance from the committed one into `req[q].left`, and
`Commit` publishes that; without the lock a charge in between would be lost
(`ChargeUnlocked`, the mutant). `spent[u]` is history and adds up what was charged. The database is
external: its isolation and its row locks are modelled as PostgreSQL provides
them. `indexed` abstracts the collections of `Ingestion` to "has chunks", and one
step `Retrieve` stands for three calls to the store; that this is enough is
`RetrievesAtomically` below.
`conversation.save()` is the last write of the transaction and is part of the step that
ends it. Bodies that the serializer refuses change nothing and are left out.

### Accounts

`Validate` is the serializer: the look-up of `validate_email`, then the rules for the
passwords (`valid`), in this order, as the view reports the first error. `CheckAgain` is the
look-up of `register_user`, `Insert` is `create_user`, `Login` is `authenticate_user` and the
identity in the token. `RowOf` is the row that `create_user` builds: the e-mail in lower case,
and as username the same in Unicode's form NFKC, which is what Django's
`normalize_username` makes of it; no look-up does that. `Storable` is what the table takes: a
username that is not there yet (the unique index) and that fits its 150 characters, while
`EmailField` takes more (`TooLong`). Two functions, `Lower` and `Nfkc`, stand for the
conversions; the instance has an address in two spellings, two others that normalise to
those (a long s to s, a trade mark sign to capitals) and a too long one.

`Table` and `Calls` map them to `AccountRegistry`: a registration takes effect at its insert
(`Register`), a `400` at the look-up that found the address taken (`Refuse`) or, with bad
passwords, free (`Reject`), a `500` at the insert of a row that the table does not take
(`Fail`). The registry tells these answers apart.

### UploadRequest

| TLA+ | Code |
| --- | --- |
| `setting`, `EnvInt`, `MaxBytes` | `MAX_UPLOAD_MB` of `config/settings/base.py`, `env_int`, `validate_file` |
| `Authenticate`, `Parse` | the framework before and in the first line of `UploadView.post` |
| `Validate` with `BadFormat`, `TooLarge` | `FileField` and `validate_file`, in this order |
| `Respond`, `Raise` | the view's own 400, and `error_envelope_handler` |
| `Store` | the rest of `UploadView.post`, one step here and five in `Ingestion` |
| `Extract` with `PdfParser` | `extract_text` and the check for text in `run_ingestion` |

A file is an extension, the spelling of it, a declared type, a number of bytes and
what is really in it; every combination is a request a client can send. What the
framework does (parsers, authentication, `FileField`) is modelled from how the code
uses it.

### ChromaClient

One action per access to shared state in `_client()`: the check without the lock,
the lock, the check under it, the constructor (which may raise), the assignment,
the release, and the read for the return value. The global interpreter lock makes
each of these atomic and nothing more. `handed[t]` is history: what the last call
returned, compared with the only client there is.

### Retrieval and KnowledgeBase

`Retrieval` is `retrieve` and `query`: `Embed`, `FirstCount` (the condition `count() > 0`),
`SecondCount` (the `min`), `Search`, and `StoreRaises` at any of the calls. `KnowledgeBase`
lets it read the `vectors` that `Ingestion` writes, with no order between them.
`known[q]` is history: the documents whose SUCCESS the user could poll when the
question was asked. Chroma returns as many chunks as are asked for or there are,
and refuses to be asked for none.

## 3. Runs

Passing runs:

| Run | Instance | Shows |
| --- | --- | --- |
| `ingestion_faults` | 1 document of 2 chunks, 2 users, 2 workers, 2 delete requests, every fault | what SUCCESS promises, isolation, polling, files and deletion survive every fault |
| `ingestion_once` | 2 users with a document each, one of them without text, 1 worker, 1 delete request, every fault but redelivery, fairness | the job follows `JobLifecycle` and the document lags it by one write; both agree when nothing runs, unless a run was lost; a document whose chunks are removed once its work is done never gets any again; what is not lost is worked off and an accepted upload settled |
| `chat_faults` | 1 user, 3 requests, 2 at a time, 2 conversations, 2 credits, answers of 1 or 3 tokens, every fault | ledger under racing openings and charges, overdraft bound, all-or-nothing turns, locks, order of turns |
| `chat_fair` | 2 users, 2 requests at a time, 2 conversations, failures of the model, fairness | prompts hold own committed history only; every request is replied to |
| `upload_request` | 1 request of any file, body and token; limit of -1, 0, 1, unset or malformed; a megabyte of 2 bytes | honest files are accepted and parsed; refusals leave nothing, and which of them have the shape `{"error"}` |
| `chroma_client` | 3 threads that call for ever, 2 outages, fairness | one client, and every call returns |
| `knowledge_base` | 1 user with 2 documents of 2 and 1 chunks, another with none, 1 worker, 1 delete request, 1 question after the other, errors of the store | a question finds what succeeded, only own chunks, and as if it had looked once |
| `accounts_race` | 3 requests, an address in 2 spellings, 2 that normalise to them, 1 too long, 2 passwords, crashes | unique addresses, passwords of accepted registrations only, logins of all whose address NFKC leaves alone; each request is answered as if it had looked at the accounts once |

Runs that must find a violation, each a place where the code and a text of the
repository disagree (`findings` in `PROJECT.json`):

| Run | Property | In short |
| --- | --- | --- |
| `ingestion_delete_race` | `DeletedIsNotSearchable` | a deletion that overtakes the worker leaves the chunks in the collection, without any fault |
| `ingestion_redelivery` | `SettledIsFinal` | the "atomic" start of a job is unconditional, so a second delivery restarts a settled one |
| `chat_stream_error` | `ModelErrorIs502` | errors of a streamed answer come after the 200 header |
| `accounts_normalised` | `AcceptedLogsIn` | an address that NFKC changes gets a 201 and then a 401 for ever, as the login looks for the address and not for what was stored |

Other behaviour that a reader should know of, visible in the models:

- A registration is answered 500 instead of the 400 that `apps/accounts/views.py:53-66`
  announces in three cases (`Accounts`, `Insert`), as nothing catches what the database
  raises at `apps/accounts/services.py:36`: two registrations for one address both pass the
  look-ups; the address normalises to a name that is taken, although the address itself is
  free; the address is longer than a username may be.
- An account whose address is `x` after NFKC opens for a login as `x` with its password, although
  somebody typed another address when it was registered (`TokenNeedsOwnPassword` says exactly
  this); `x` itself can then not be registered.
- An outage of the vector store is answered like an empty collection
  (`apps/rag/retrieval.py:51`). `AtomicRetrieval` keeps the two apart, the user cannot.
- A stream that ends without a usage chunk costs nothing (`apps/rag/llm.py:282`; fault
  `"usage"` of `Chat`).
- An upload without a valid token is refused with `{"error": ...}`, although the API
  schema at `apps/documents/views.py:86-91` announces `{"detail": ...}`.
- A body of a foreign media type is refused with 415 and `{"detail": ...}`, although
  `apps/documents/views.py:8` says that all error responses use the `{"error"}` envelope:
  415 is none of the statuses of `apps/common/exceptions.py:17-23`. `RefusedLeavesNothing`
  states which refusals have which shape.
- A failure of the store while a document is deleted leaves its chunks in the
  collection (`PurgeVectors`), and one that is raised after the upsert took effect leaves
  chunks of a job that is FAILURE (`Upsert`). No property forbids these states.
- An empty file of a wrong format is refused as empty, not for its format, because
  `FileField` comes before `validate_file`.

### Bounds

The processes of `Ingestion` interact through one document at a time (rows, file,
chunks and message belong to one document, collections to one user), so the
interleavings are those of one document; two documents are in `ingestion_once`,
where a worker must get round to both and may lose one of them, and one worker is enough there, since
a message that is not redelivered is never with two. In `ingestion_faults` two workers
are enough for a run beside another or after it, two delete requests for one that overtakes the other. A
message that may be redelivered stays in the queue, so a document may be run any
number of times. In `Chat`, two requests at a time with a third that follows are
what races for the balance and the log; 2 credits with answers of 1 and 3 tokens
give exact, partial and floored charges. Prompts are the business of `chat_fair`,
where they hold one message of a conversation of two turns; `chat_faults` repeats none
(`CHAT_HISTORY_TURNS` 0), which keeps its state space to what its properties read. In `Accounts`
two registrations race and a third request comes before, between or after them; an address that is neither a spelling nor a
form of another one would add nothing, as the too long one plays that part. Uploads do not interact, so one is
enough in `UploadRequest`; its sizes lie below, at and above 0, 1 and 10 megabytes of
2 bytes. In `ChromaClient` one thread constructs while another waits for the lock and a
third arrives; 2 outages let the constructor raise for the second time before
somebody succeeds. `KnowledgeBase` needs two documents, so that a count can change
without becoming 0, and `TopK` 2 of 3 chunks, so that the limit cuts; of the
faults it has the errors of the store, as all of them together exceed the
time of a run. The theorems about it cover every fault and size. No model has an unbounded counter;
every state space is finite and explored completely.

### Fairness

`Ingestion`: weak fairness of an upload that has begun (the web server runs a
request it accepted to its end) and of each worker (Celery workers poll the
queue for ever, and the main process of Celery replaces a pool process that is killed). Nobody has to upload or to
delete, and no fault has to happen. Faults may happen for ever all the same: a step that
is cut short again and again loses one document each time, which the liveness
properties except by name (`lost`); a killed worker leaves its job STARTED and nothing in
the code resets it. `Chat`: weak fairness of
each request that was received. Weak fairness is enough although requests wait
for a row lock, as in `chat_fair` each request takes it once. `ChromaClient`: weak
fairness of each thread that has called; nobody has to call, and a thread takes
the lock only as long as there is no client, so those that wait are few and
`MaxOutages` lets the outages end.

## 4. Proofs

The theorems hold for all values of the constants that satisfy the named
`ASSUME`s of the modules, which say only what the constants are.

- `IngestionProofs!TypeCorrect`, `VectorsAreIsolated`, `SuccessAlwaysSearchable`.
  SUCCESS is written two steps after the chunks, by then other runs of the same
  job and deletions have interfered. The inductive invariant `SearchInv` therefore
  says what a worker knows at each step: chunks in a collection are of its
  user's documents and are chunks of their text; a worker past the upsert has a
  document with at least one chunk, indexed unless a delete asked for its removal;
  and so has every row that says SUCCESS. It is inductive because
  the upsert writes all chunks with ids that depend on document and position
  only, and because only `PurgeVectors` removes any. Redelivery, crashes and store
  errors are covered.
- `ChatProofs`. A request changes its own local state only; the lemmas `GotoValue` to
  `ReceiveValue` say how, `RequestFrame`, `SharedFrame` and `ControlFlow` say what each
  step leaves alone and where a step comes from, and every invariant is proved from
  them one action at a time.
  - `TypeCorrect`.
  - `LedgerIsExact`, `CreditsAreGivenOnce`, `ImplementsLedger`: `BalanceIsExact` alone is not
    inductive. `LedgerInv` adds that who has no account has spent nothing, that a
    request past the check has an account, and that what an open transaction will
    publish is still the committed balance less its charge. The last part is where a
    lost update would show: it holds because `LockInv` gives the row to one transaction,
    so no other commit changes that balance meanwhile (`LeftKept`). Then a charge keeps
    the balance exact because flooring twice is flooring once (`FlooredTwice`), and every
    step is an `Open`, a `Charge` or a stutter of `CreditLedger`; of two racing openings
    the second is a stutter. That a balance never grows
    (`CreditsAreGivenOnce`) follows and has no run of its own.
  - `EmptyAccountBuysNothing`: `BrokeInv` adds that the account stays empty, which follows
    from `AccountsKept`.
  - `LocksAreReleased`: `LockInv` is an equivalence, a row is locked by a request exactly
    while its charging transaction is open.
  - `OverdraftsAreBounded`: `OverdraftInv` counts. Once the credits are used up nobody
    passes the check, so each further charge uses up one of at most `WebWorkers` pending
    requests: `spent[u] + |Pending(u)| * n` cannot grow any more.
- `ChatTurnProofs`.
  - `PromptsAreOwnHistory`: `TurnInv` adds that a conversation keeps its owner, that
    messages lie in the conversation of their request and that only finished requests
    are committed.
  - `ChargedTurnsKeepOrder`: `OrderInv` adds that the first half of a charged turn lies
    behind all other charged turns until the second is written; by `WriterIsAlone` two
    charged transactions of a conversation hold the same row lock and cannot both be
    writing.
  - `TurnsAreAtomic`: `WrittenInv` says at which step which messages are in the log and
    which replies are possible.
  - `ChargesAreStored`: what a user has spent is a sum over the committed requests.
    `SpentInv` adds that an answer costs nothing until the model has given it and that a
    transaction which charges nothing stores an answer that cost nothing; then the
    commit, and nothing else, adds the same tokens to both sides. The sum is a fold of the
    community modules, about which the prover knows nothing. `Sums` to `TotalAdd`
    derive from its definition that a sum exists, is a number, grows by the summand of a
    new member and depends on the summands of its members only. The induction over
    finite sets behind them is first-order: a set without the property has a smallest
    subset without it (`SmallestSubset`, from the well-founded order of strict subsets), and
    that one has a member to take out.
- `AccountsProofs!TypeCorrect`, `AddressesAreUnique`, `TokensNeedOwnPassword`. Every row has its
  address in lower case and, as its name, what NFKC makes of it (`UniqueInv`), so the unique
  index on names separates addresses as well, although distinct addresses may have one name;
  every row was inserted by a registration that was not refused (`TokenInv`).
  `AcceptedCanLogIn` proves `PlainAddressLogsIn`: `OwnRowInv` says that a registration past its
  insert names its own row; rows are never changed, and a login that is refused found
  none (`RefusedFoundNoRow`). Without the restriction to addresses that NFKC leaves alone it
  is `AcceptedLogsIn`, which `accounts_normalised` refutes.
  `RequestsAreAtomic`: two look-ups and an insert without a lock implement the atomic
  `AccountRegistry`, from `TokenInv` and `OwnRowInv`. Each statement is one step of the registry
  (`ValidateStep`, `InsertStep`, `RespondConfirms`, `LoginStep`) or leaves its variables alone
  (`GotoStutters`).

- `IngestionLifecycleProofs`.
  - Under every fault: `ListedHaveFiles`, `DeletionsAreFinal`, `AcceptedArePollable`. `FileInv`,
    `RowInv` and `DeleteInv` say at which step of upload and deletion the file, the row and
    the job exist; a deletion removes the job with the row and nothing creates
    either again.
    `DeletedByOwnerOnly`: `OwnInv` says that a delete request past its look-up holds a
    document of its own user; `StoreSteps` that no other process removes chunks.
  - Assuming `"redelivery" \notin Faults`: `DocumentsLagJobs`, `SettledJobsAreFinal`,
    `JobsFollowLifecycle`, `IndexedWhileStarted`. `OnceInv` says that a document has at most one
    of a message and a worker, and by `Phase` which status job and document show at
    each step of that worker. With redelivery two workers share a job and none of
    the four holds, as `ingestion_redelivery` shows for one of them.
  - Under the same assumption, `SettledDeletionsAreFinal` is the other half of the finding of
    `ingestion_delete_race`: a deletion leaves chunks behind only if it overtakes the
    ingestion. A document whose message is delivered and whose workers are past the
    store (`Finished`) stays so under every fault (`FinishedStable`), and `OnceInv` makes every
    settled document finished. `SettledDeletionsLast` draws the temporal conclusion: such
    a document without chunks has none for ever.
  - Under the same assumption, and under crashes, lost messages and errors of the store,
    `QuietStatusesAgree` (of `IngestionHistory`): `QuietInv` says that a job without a worker is
    untouched and waiting to be delivered, or settled together with its document, or
    `lost`; with `OnceInv` it is inductive, as `lost` names exactly the runs that ended
    between two writes.
- `UploadRequestProofs`: `TypeCorrect`, `RefusalsLeaveNothing`, `HonestUploadsAreIngested`. `RequestInv` says
  what is known of an upload at each step: past the checks its file has an
  allowed format and a size within the limit. For any limit and any sizes.
- `ChromaClientProofs`: `TypeCorrect`, `OneClientForAll`. The lock is held by exactly the
  thread inside the block; the inductive invariant adds that a client was constructed
  only if it is assigned or about to be, and that a thread that constructs or returns
  knows whether it is. Then every step is one of `SharedClient` or a stutter.
- `KnowledgeBaseProofs`: `SuccessesAreRetrieved`, `OnlyOwnDocumentsAreFound`, `RetrievalIsAtomic`. A step of
  the composition is one of `Ingestion` or leaves its variables alone, so what
  `IngestionProofs` shows holds here (`KBSpec => Spec`). `BegunInv` adds that chunks
  belong to documents whose message was sent and whose job was begun, `QuestionInv` that
  what a question can count on (`Dependable`) can only shrink and is in the collection
  through both counts and the search, so that each count and the number of chunks found is
  at least what is wanted (`Wanted`).

Model-checked only: liveness, as the prover has no fairness (`MessageIsWorkedOff`,
`AcceptedIsSettled`, `EveryRequestIsReplied`, `CallsReturn`). Every invariant and every other
action property that a passing run checks is a theorem for all constants, or for all
constants without the faults named above. The only exclusion is redelivery, and it
cannot be spared: with two workers and that fault alone TLC finds each of these properties
violated.

## 5. What is not modelled

- Embedding vectors, chunk texts, relevance, prompts and answers: which chunks are
  nearest and what the model says of them is numerical or up to the provider.
- The request id and logging middleware and the health check, which nothing reads.
- Lists of documents and the account of the caller (`/me`): reads of one table.
- Token signing and expiry, password hashing, migrations, and the settings other than
  the upload limit, which are constants here.
- `_reset_client` and `services.delete_document`, which only tests call.
- Scripts, prompts and agent files of the repository, which are no part of the program.
- Users are never deleted by the application.

## 6. Plan

1. Done: `Ingestion` with `JobLifecycle`, `Chat` with `CreditLedger`, `Accounts` with
   `AccountRegistry`, `UploadRequest`,
   `ChromaClient` with `SharedClient`, and `KnowledgeBase` with `AtomicRetrieval`; their runs
   and the theorems above.
2. Next models: `Chat` over `AtomicRetrieval` in place of `indexed`. The mapping needs to
   know what a question retrieved, so `Chat` would get a history of it.
