# TLA+ models of OpenWrt AI Copilot

These modules model the backend, its router agent, and the libraries for
providers, retrieval, knowledge and vector stores. TLC checks them on small
instances, and TLAPS proves, for every instance, the invariants and action
properties of all passing runs, and that the vector stores keep their contract.
Paths below are relative to the repository.

## 1. The system

OpenWrt AI Copilot is a FastAPI backend and a web console that watch and manage
an OpenWrt router over SSH, and answer questions about it with a language model.

| Component | State it keeps | Operations | What is hard about it |
|---|---|---|---|
| Snapshot feed: `SnapshotService` (`backend/app/services/snapshot_service.py`), the dashboard WebSocket (`api/v1/dashboard.py`) | `_connection`, `_source`, `_device_id`, `_latest`, `_sequence`, the poll task, subscriber queues of one frame | `start`, `configure_connection`, `clear_connection`, `subscribe`, the poll loop, `_collect_once` in a thread | a thread outlives the task that waits for it; loop and threads write the same fields |
| Onboarding (`api/v1/onboarding.py`, `db/router_store.py`) and start-up (`main.py` `lifespan`) | saved router rows | save (upsert), delete, resume at start | rows, feed and caches must agree; restarts |
| Management (`services/router_management.py`, `api/v1/management.py`) | in-memory jobs, inventory caches, files on the router | create, confirm, poll, download; 13 kinds of job in threads | repeated confirmations, uploads in chunks, failures half way, two threads on one remote path |
| SSH stack (`router-agent/.../transport/ssh`): pool, client, transport, bridge, host keys, backends | idle connections and permits; connection state; trusted keys on disk | lease and release, connect, run with retries, verify a host key | cancellation at every suspension, commands run twice, check-then-record across stores |
| Router context (`router_context_cache.py`, `router_snapshot.py`, `router_manager.py`), chat (`chat_service.py`, `api/v1/chat.py`) | tool results with a TTL per session | build a context, invalidate | a result computed before an invalidation is cached after it |
| Boot and access: `core/vault.py`, `db/user_store.py`, `api/v1/setup.py`, `core/auth.py` | key file, users, sessions | resolve and persist the key, first-run setup, migration, login, expiry | crashes between two writes, two processes booting |
| Providers (`api/v1/providers.py`, `provider_manager.py`, `provider_credentials.py`, `providers/`) | configuration file, encrypted keys, the live manager | create, update, delete, enable, reload | three stores changed one after the other, reloads that interleave |
| Configuration jobs and backups (`router_management.py`) | the router's uci packages, files on the router | stage, commit, reload; archive, dump, remove | scripts sent again while the first goes on |
| Speed test (`speed_test.py`) | running flag, cooldown, last result | run, latest | the gate is released before the result is stored |
| RAG (`rag/`, `ai/`), knowledge (`knowledge/`), vector stores (`vectorstore/`) | conversation memory, caches, document registry, collections | ask, index, search | caches against re-indexing |
| Collectors, diagnosis, recommendation, context policy | none | collect, judge and cut one snapshot | a source that fails looks like data that is absent |
| Web console (`frontend/`), `vision/` | | | rendering; a stub |

How they interact: onboarding writes a row, re-points the feed and invalidates
the context and inventory caches. The feed's `active_connection` is what
management jobs connect to; its `latest()` is what the chat's router tools read.
Everything reaches the router through `SSHTransport`, which runs `SSHClient` on
a loop of its own. (`SSHConnectionPool` is exported and tested, and no other
part uses it yet.) Provider changes rebuild the manager the chat and RAG use.

What makes each correct, in one line:

* feed: the snapshot shown is the attached device's, labelled as such, newest
  and in order; a detached router is not polled; failures do not end polling;
* jobs: a job ends, its state tells what happened, and a restore installs
  exactly the confirmed backup;
* pool: at most `pool_size` connections, one owner each, permits conserved;
* context and caches: nothing of the previous router after a switch;
* boot: one key, one administrator, nothing encrypted that cannot be read;
* providers: file, keys and live manager agree after each request, and so does
  what the console shows;
* vector stores: a request takes effect as a whole, once, or not at all;
* configuration jobs: success means in force;
* advice and prompts: what is told is grounded in what was read.

## 2. What is modelled

The event loop runs the code between two `await`s without interruption, so such
a piece of code is one action. Code in `asyncio.to_thread` is a process of its
own, and each of its steps may interleave with everything else. Operators named
`Mutant...` are the next definition with a mistake in it; no specification uses
them. They document which mistake each property notices.

### SnapshotFeed

| Variable | Code |
|---|---|
| `rows` | the saved routers (`RouterRecord`), by primary key |
| `conn`, `device` | `_connection` (and with it `_source`), `_device_id` |
| `latest`, `sequence` | `_latest`, `_sequence` |
| `task`, `owner`, `result` | the poll task: none, sleeping or queued ("idle"), waiting for thread `owner`, holding a result or an exception |
| `wpc`, `target`, `wframe` | each executor thread in `_collect_once`: where it stands, the connection it read, the frame it stamped and has not stored |
| `ws`, `gone`, `queue`, `first`, `shown` | each dashboard handler, its queue, the frame of its first send, the last frame sent |
| `pushed` | history: the last frame put in a client's queue |

Actions: `Save`, `Delete` (the endpoints, whole), `Restart` (the process dies;
`lifespan` resumes from the rows), `Pick`, `ReadConnection`, `CollectFails`,
`Collect`, `Store` (a thread), `PublishResult`, `PublishFailure` (the poll
task), `Subscribe`, `SendFirst`, `Deliver` (a WebSocket handler), `HangUp`.

Decisions: a device stands for a host with its credentials. `_frame` in a thread
is two steps, the stamp (`_sequence += 1` and the reads) and the store, because
CPython 3.12 lets another thread run at the call between them and not inside the
increment. On the loop `_frame` is one step. A frame keeps its number, its
label, whether it is connected, and the device its snapshot came from. The
number stops at `MaxSeq`.

### SshPool

The pool over paramiko, the backend the agent's package requires. Callers
suspend at the semaphore, in `connect`, in the probe of `validate` and in
`close`, which paramiko does in a thread; `is_alive` never suspends. `permits`
and `waiting` are `asyncio.Semaphore` as of Python 3.12 (external: fast path only
when nobody queues, a woken waiter owns a permit, the end of an acquire wakes
as many as there are permits). `idle` and `closed` are the pool's, `draining`
is the connection `close` is closing, `link[c]` is a connection's socket. One
lease is `Acquire`, `Resume`, `Validated`, `Discarded`, `Connected`,
`ConnectFails`, `Return`, `Returned`. `Cancel` strikes a caller at any
suspension, `Die` a connection at any time.

### ManagementJobs

Jobs with `kind`, `status`, `pending` (`pending_confirmation`), `staged` (the
upload kept in `result`) and `artifact`; the executor's queue `calls`; threads
with `wpc`, `wjob`, `wdata`; and `file`, the upload at
`/tmp/ai-restore-backup.tar.gz` on the router, as its sequence of pieces. The
thirteen kinds of job are five here, one per control flow. `disturbed` is
history: the threads whose upload another thread wrote to.

Endpoints are `CreateJob`, `CreateServiceJob`, `UploadBackup`, `ConfirmJob`.
Threads go through `Pick`, `Begin`, `Work`, `Finish`, or through `BeginRestore`,
`MarkRunning` and the commands of `execute_restore`: `Clear`, `UploadFirst`,
`UploadSecond`, `CheckSize`, `CheckArchive`, `Dispatch`. An SSH command may fail
with or without its effect, and an appended chunk may arrive twice, because
`SSHClient.run` repeats a command whose answer was lost. `Restart` empties the
store and keeps the router's file.

### HostKeys

`file` is `known_hosts`, `presents` the key each router presents, `backend` the
SSH library of the installation. A transport has `pc`, the call it is in
(`mode`: the constructor's connect, or run), its failed attempts `tries`, its
endpoint, the key of its attempt or session, and `copy`, the `_records` of the
store of the current attempt: `host_key_settings` builds a new one each time.
`alive` are the transports with a session. `stale` and `raced` are history: who
holds a copy older than the file, and whether such a copy was ever written.

`Open` and `Run` start a call; an attempt is `Handshake`, `VerifyHostKey` (load
and compare, one lock section), `RecordHostKey` (the other), `LoggedIn`, with
`Unreachable` and `LoginFails` on the way; `Answer` and `CommandFails` end a
command. `Transient` and `Surfaces` are the two ways out of a failure. The
libraries differ: asyncssh reports a refused key at once, while paramiko's
`connect` turns the `HostKeyError` into a transient failure; asyncssh lets an
`OSError` through, which is not retried. `Drop`, `NewKey` and `Restart` are the
environment.

### The vector stores

`VectorDocuments` has the requests that change a collection (`create_collection`,
`delete_collection`, `add_documents`, `update_documents`, `delete_documents`,
`set_metadata`), what each does to versioned documents and when each is refused;
`VectorStore` is the abstract specification, the contract of
`vectorstore/protocols.py`: a request takes effect as a whole, once, between its
call and its return. Two modules have the backends. `VectorShared`: SQLite,
Qdrant and Chroma, where a request is up to three statements or HTTP requests
(`check`, `look`, `write`) and other clients come in between. `VectorFaiss`: one
lock, and two files written one after the other (`json`, `indexFile`) beside the
copy in memory (`cache`). `VectorSearch` is `search` and `filter_documents` of
each. `VectorStores` puts the four together and maps them to `VectorStore`
(`Contract`, `KeepsContract`). Where the refinement mapping says `void` the
contract is not claimed: after a write of FAISS's files was cut short, until they
are rebuilt, and at a write by a client that another one overtook.

### Services

Eleven modules model parts that share no state with each other; `Services`
puts them side by side in one specification, in which a behaviour is one of one
part. They use the same model values for their actors, so that one symmetry
serves all.

| Module | Variables and what they are in the code | Actions |
|---|---|---|
| `RouterConfig` | the uci package on the router as `staged`, `committed`, `applied`; jobs with the `script` of each attempt of `SSHClient.run` | a job begins, each command of its script (stage, commit, reload), a lost session with the script going on, a second attempt, the end with its `answer` |
| `RouterCaches` | one of the caches of the active router: `RouterContextCache`, the package inventory, the list of available packages (`entry`); its readers; `packageJob` | look, ask the router, store; expiry; change and removal of the connection, clearing caches one after the other; package jobs |
| `KnowledgeIndex` | the files, the documents in memory (`index`), the state file (`disk`), runs (`run`) | a run lists, loads, ingests, deletes, reconciles and ends; each flush may fail or be cut short; files change; restart |
| `BackendBoot` | rows of `app_users`, `vault.key`, stored credentials, each process and its statement | the statements of `bootstrap_env_credentials`, `ensure_credential_vault`, the migration, `load_providers`, `setup_admin`, saving a credential; death at any statement |
| `ProviderAdmin` | `providers.yaml`, stored keys, `app.state.provider_manager` (`manager`, `running`, `defaultName`), `app.state.rag_service`, handlers within `reload_provider_manager` | create, update, delete, switch, set default, remove a key, each with a failure between its writes; the steps of a reload; start and end of the process |
| `Conversations` | rows of `chat_messages` (`turns`), the rolling memory of each RAG service, requests | read the history, store the question, seed, retrieve, answer whole or as a stream, remember, compress, store the answer; failure, hang-up, reload, restart |
| `Collection`, `Advice` | the router as it is (`device`), what fails (`silent`, `broken`), the `DeviceSnapshot` (`report`) | one action, `Collect`; sources, fallbacks and merges are operators, and so are the context policy, the diagnosis and the recommendations |
| `Prompts` | the retrieval cache, the collection, the last prompt | retrieve or hit, build, fail, the cache expires, the collection changes; reranking, grouping, citing and trimming are operators |
| `Sessions` | the session store, the request of each client, the clock | login, setup, authentication on the loop, the handler in a thread, logout, sockets, time, restart |
| `SpeedTest` | the gate (`busy`), the pause (`completed`), `latest`, each call | run, measure, give the turn back, store |
| `Backups` | the fixed path on the router and the files behind it, the script of each job | each command of the script, its failure, a job that gives up while the script goes on, a script that dies |

`Lists` has what a loop along a list gives: the elements it keeps (`Among`), the first of
each kind (`Firsts`) and a sum (`Total`), as recursive functions of how far the loop has come.
`Conversations`, `Prompts`, `VectorSearch` and `VectorFaiss` use them, and `Filled`, the loop of
`seed_history`, is written the same way.

Decisions worth knowing. A file that is written in place (`write_text`) is first
emptied: a crash leaves it empty, torn or whole. A reload of providers suspends
once, at the building of the RAG service, so `reload_provider_manager` is four
steps. In `Collection` a source that fails and one the firmware lacks look alike,
because `ctx.sh` swallows failures; 24 routers are enough to have every branch
of the collectors that a rule of `Advice` depends on. `Sessions` splits a
request of a plain (not `async`) endpoint in two, which is
authenticated on the event loop and whose body runs in a thread. `ProviderFor`,
`EmbedderFor`, `ListedAs`, `DetailOf` and `TestOf` are read-only routes, given as
operators and compared in every state with what is saved.

## 3. What TLC checks

| Run | Bounds | Shows |
|---|---|---|
| `SnapshotFeed.cfg` | 2 devices, 2 rows, 2 threads, 1 client, `MaxSeq` 2 | type invariant; `LabelMatchesSnapshot`, `ActiveIsSaved`, `DetachedIsQuiet`, `NewestReachesClient`; the action property `PublishedInOrder`; under fairness `FeedRecovers` and `HangUpIsNoticed` |
| `SnapshotFeedRemoved.cfg` | 1 device, 1 row, 1 thread, 1 client, `MaxSeq` 2 | a violation: `RemovedRouterNotServed` |
| `SshPool.cfg` | 3 callers, pool of 2, 4 connection numbers, 1 cancellation | type invariant; `NeverOverbooked`, `OneOwner`, `NoLostWakeup`, `ClosedPoolIsEmpty`; under fairness `WaitersAreServed` |
| `SshPoolClosed.cfg` | 2 callers, pool of 1, 2 connection numbers, no cancellation | a violation: `ClosedPoolOpensNothing` |
| `ManagementJobs.cfg` | 2 jobs, 2 backups, 2 threads, 1 queued call | type invariant; `NobodyIsAbandoned`, `BackupIsDownloadable`, `UndisturbedRestoreIsExact`, `OnlyStagedIsUploaded`; under fairness `JobsFinish` |
| `ManagementJobsRestore.cfg` | 1 job, 1 backup, 2 threads, 1 queued call | a violation: `OneRestoreAtATime` |
| `ManagementJobsService.cfg` | 1 job, 1 backup, 1 thread, 1 queued call | a violation: `ServiceJobsRun` |
| `HostKeys.cfg` | 2 transports, 2 endpoints, 2 keys, 1 retry | type invariant; `OneKeyPerEndpoint`, `SessionsMatchRecords`; the action property `LostOnlyByStaleCopies`; under fairness `CallsEnd` |
| `HostKeysKept.cfg` | 2 transports, 2 endpoints, 1 key, no retry | a violation: `RecordsAreKept` |
| `VectorStores.cfg` | 2 clients, 2 documents, `MaxVersion` 2, 1 write cut short | type invariant; `SearchFindsDocuments`, `RestartChangesNothing`; the refinement `KeepsContract` |
| `Services.cfg` | below | one invariant or action property for each part, below |
| `RouterConfigDns.cfg` | as `Services.cfg` | a violation: `SuccessIsReported` |

What `Services.cfg` shows of each part:

| Property | Part | Says |
|---|---|---|
| `QuietRouterIsSettled`, `OkIsInForce` (action property) | `RouterConfig` | nothing is left staged or committed and not in force when no script is at work; a job that succeeds, with nobody else at work, has its change in force, however often its script ran |
| `KeptAnswersAreCurrent` (`CachesAreCurrent`, `LatestIsNewest`) | `RouterCaches`, `SpeedTest` | no cache answers for another router, or with packages from before a job; the latest speed test is the newest result, and one run measures at a time |
| `IndexFollowsFiles` (`StillRunsConverge`, `RestartFindsIndex`) | `KnowledgeIndex` | two quiet runs give the index the contents of the files; a whole state file is what memory holds |
| `AccessIsKept` (`BootKeepsAccess`, `SessionsAreHonest`) | `BackendBoot`, `Sessions` | a process that serves can read what is encrypted, with one administrator; a logout is for good and nobody acts in a role that is not his |
| `ProvidersAreCurrent` (`ManagerIsCurrent`, `RagUsesTheManager`, `ConsoleShowsWhoAnswers`, `TestsTellTheTruth`) | `ProviderAdmin` | after a reload manager, RAG service, list, default and connection test agree with what is saved, and closed managers are the ones replaced |
| `ConversationIsKept` | `Conversations` | the memory is the end of the stored conversation |
| `WhatIsToldIsSo` (`AdviceIsGrounded`, `ClientsAreRight`) | `Collection`, `Advice` | findings, recommendations, the list of data and the medium of clients are true of the router, or come of a failed source |
| `PromptsAreGrounded` | `Prompts` | a prompt fits, quotes what the collection had, cites all it quotes, and is cut only as far as needed |
| `BackupsAreWhole` | `Backups` | an undisturbed backup is the whole archive |

Where a property leaves a case aside (a history variable such as `cut`, `stale`,
`overlapped`, `odd`, `replaced`), the case is one in which the code does not keep
the promise; its comment names it and section 5 lists it.

The bounds of `Services.cfg`: two actors in every part. `RouterConfig`: 1 retry
(two scripts of one job), 2 jobs begun, 2 added entries. `RouterCaches`: 2
routers, 2 changes of connection, 1 package job. `KnowledgeIndex`: 2 files, 2
contents, enough for a rename and an exchange. `BackendBoot`: 3 keys that can be
generated, so that two processes and a third boot have one each.
`ProviderAdmin`: 2 types, 1 key, 3 managers in one life, so that two reloads can
overlap after the start. `Conversations`: 3 questions, a window of 3 turns with
compression at 4, so that an answer compresses. `Prompts`: 5 chunks in 3
documents, one text in two of them, a budget that some contexts fit and others
do not. `Sessions`: 2 tokens, a lifetime of 1, time up to 1. `SpeedTest`: 3
results, a pause of 1. `Backups`: archives of 2 blocks, 2 configurations.
`CHECK_DEADLOCK FALSE` stands in the two configurations of `Services` because a
part ends at its bounds, and because a `providers.yaml` that cannot be read
stops the process for good.

Why the bounds of the other runs suffice. The feed's hazards need a device to switch away from
and one to switch to, a thread left over and a current one, and enough numbers
for two frames to be published out of order. Clients do not influence each
other: handlers share only the feed, which never reads a queue. The pool needs
more callers than permits, with a second one queued behind a woken one, and a
number for a connection that a cancellation leaked. Two restores of two backups
are all that can meet on one path, and one queued call makes a confirmation wait
behind another job. A lost record takes two transports at two endpoints, a
refused one two keys, and one retry is an attempt before the last. The theorems of section 4 drop the bounds.

Fairness. The event loop runs every ready task and the executor every queued
call; every SSH command has a timeout and a bounded number of retries, so a
thread goes on; connecting has a timeout too; and a caller ends its lease. Hence
weak fairness of the poll task, of picking a call, and of each thread, handler,
caller and transport by itself.
Nothing is assumed of operators, clients, cancellations or the network:
`FeedRecovers` has as hypotheses that the device stays configured and that
collections stop failing, `WaitersAreServed` that no permit was lost to a
cancelled close.

Deadlock is checked in every other run.

No liveness is claimed of `Services` and `VectorStores`: their parts are driven
by requests, and nothing in the code is bound to make one.

## 4. What is proved

`tlapm` checks the proofs of eight modules. They rest on the assumptions the
modules state about their constants, and on no others:

* null values are not members of the sets they extend (`FeedAssumption`,
  `JobsAssumption`, `SessionsAssumption`, `ProviderAdminAssumption`, ...), and
  bounds are natural numbers, positive where the code starts counting at one;
* `PoolAssumption`: there are finitely many callers, because permits and holders
  are counted;
* `VectorAssumption`: there are finitely many document ids, and versions start at
  1; `KnowledgeIndexAssumption`: references are finitely many natural numbers,
  since a run reads them in order;
* `BackupsAssumption`: an archive has two blocks or more, the last two of which may
  be alike (an archive is longer than the 16 bytes of one line of `hexdump`).

No other set needs to be finite.

**SnapshotFeedProofs.** `TypeCorrect`, `ActiveIsSavedHolds`, `LabelsAreRight`,
`NewestIsNotLost`, `DetachedFeedIsQuiet` and `FramesAreInOrder`.
`ActiveIsSaved` and `LabelMatchesSnapshot` are inductive with `TypeOK`. The
others are not:

* `DetachedIsQuiet` and `FramesAreInOrder` need `OwnerMatchesTask`: the task
  waits for a thread exactly when it is running, so a leftover thread can never
  hand it a result;
* `NewestReachesClient` needs `NothingLost`, which adds what is known of a
  client that has not subscribed: nothing was pushed to it;
* `PublishedInOrder` needs `NumbersDrawn`, every number published or held by a
  thread was drawn from the sequence, and `OwnFrameIsNewer`, the frame held by
  the thread the task waits for, or by the task itself, has a number above every
  number pushed before. Leftover threads draw numbers in between, but only the
  owner's frame is published.

**ManagementJobsProofs.** `TypeCorrect`, `NoJobIsAbandoned`,
`BackupsAreDownloadable`, `StagedIsWhatIsUploaded` and `RestoresAreExact`.

* `TypeCorrect` needs `Equipped`: a busy thread has a job, and one that writes
  chunks has a backup.
* The store's properties are proved together as `StoreInv`. It adds `KnownJobs`
  (queued and running calls are of jobs in the store, so no endpoint gives the
  id of a running job to a new one) and `PlaceMatchesKind` (only a restore
  awaiting confirmation comes to an upload; a backup thread that is done has its
  artifact). `NobodyIsAbandoned` then survives a refused confirmation, because a
  job that is not pending was never started.
* `RestoresAreExact` rests on `FileMatchesPlace`: what is on the router at each
  place of an undisturbed upload. After the second chunk that is the whole
  backup or one chunk too many, and the size check tells them apart.

**HostKeysProofs.** `TypeCorrect`, `OneKeyOnRecord`, `SessionsAreOnRecord` and
`RecordsOutliveTheRest`. All but the first rest on `CopyInv`, about a store between
its check and its record: its copy has no key for the endpoint it is about to
record (so a second key never joins a first, whoever wrote in between), and
unless the transport is stale its copy is the file (so writing it back loses
nothing). `PlaceInv` says who can be stale and who can have a session: an attempt
never starts on a transport whose session is up.

**SshPoolProofs.** `TypeCorrect`, `PoolIsBounded`, `ConnectionsHaveOneOwner`,
`WakeupsAreKept` and `ClosedPoolKeepsNothing`, from one invariant, `PoolInv`. Its
halves meet in the control state only:

* `SemaphoreInv`: permits and the callers that own one are together at most
  `pool_size`, the queue holds a caller once and only if it waits, and
  `NoLostWakeup`. The counting lemmas (`HoldersMove` and those after it) say how a
  caller that moves from one stage to another changes the number of holders.
* `ConnInv`: `OneOwner`, every connection that somebody owns has a number that is
  not free (or the next one opened could take it), and the bound on idle and used
  connections. An idle connection needs no permit; the bound holds because a
  connection is opened only when none is idle, and then the users are at most the
  holders.
* `Handed`: a caller works on a connection exactly at the stages where the code
  has it in a local variable.

**ListsProofs.** Lemmas about the operators of `Lists` and about parts of a sequence,
for `VectorStoresProofs` and `CopilotProofs`. They need induction over lists, and the
library's induction theorems cannot be used (they take an operator as a parameter).
So induction is stated for sets: a set of natural numbers that has 0 and the
successor of each of its members has all of them (`Induction`, by way of a least
element, which `NatLessThanWellFounded` gives), and a set of lists that has the empty
one and is closed under `Append` has all (`ListInduction`). The lemmas say what `Among`,
`Firsts` and `Total` make of the empty list, of an appended element and of a
concatenation, what they keep, and that they leave nothing twice.

**VectorStoresProofs.** `TypeCorrect`, `MemoryIsOnDisk`, `StoresKeepContract`, the
refinement `Spec => KeepsContract`, and `SearchFindsWhatIsThere`. The invariant
`StoresInv` says, of the stores without a lock (`SharedInv`), that a request nobody has
overtaken still finds what it read, so that its write is the one the contract would
make; and of FAISS (`FaissInv`), that while no write was cut short the data a request is
about to write are the contract's result on the JSON file, and memory holds nothing or
what the files hold. The step simulation has one lemma for each kind of step: a
call, a refusal, a failure and a restart are the contract's, an intermediate
statement is a stutter, and a last statement is `Perform`.

`SearchFindsWhatIsThere`, for `SearchFindsDocuments`, adds `OrdersInv`: the list of ids in the
JSON file, in memory and in the data at work names each document there is once
(`Enumerates`), whether or not a write was cut short; and while none was, or when the
request at work rebuilds (`Heals`), the index has the vectors of those documents in
that order. What a search then answers is a calculation: the hits are `Honest` (each
document once, with the score of its own vector) and `Complete`, sorting keeps them so
and makes them `Falling`, and a page of such a list is the answer the property asks for.

**BackendProofs.** Five theorems about the caches, the configuration of the router, its
backups, and access. All speak of `Services`: `PartSteps` says that a step of `Services`
is one of the part or leaves its variables alone, and each part has an inductive
invariant of its own.

* `AnswersAreCurrent`, for `KeptAnswersAreCurrent`. `CachesInv` adds
  `ReadsAreCurrent`: what a reader that is not late is about to store is of the
  active router and, for packages, of its present content; so an entry can be
  current only because its reader was. `SpeedInv` says who holds the gate, and
  `OneAtATime` where the newest result is while nobody has overtaken anybody.
* `QuietIsSettled`, for `QuietRouterIsSettled`. `ScriptsInv` says which scripts can be
  alive: the one of the job's current attempt and those a lost session left behind.
  `Settled`: unless a script was cut short, somebody alive has yet to commit what is
  staged and to load what is committed.
* `SuccessIsInForce`, for the action property `OkIsInForce`. `AloneInForce`: while a job is
  alone, each of its scripts past the staging has staged the change and each past
  the commit has committed it; the number of entries added is at least one and at
  most the number of scripts that have staged.
* `AloneBackupsAreWhole`, for `BackupsAreWhole`. `BackupsInv`: at each command of an
  undisturbed script the archive, its count and what was dumped so far.
* `AccessIsAlwaysKept`, for `AccessIsKept`. `KeysInv` follows the key through every
  statement of a start: the key in effect is the file's, written by one process;
  what is encrypted is readable with it, or with the one `SECRET_KEY` is about to
  give; no key is generated while something is encrypted. `AccountsInv`: the second
  seeded account comes after the first, and the setup never inserts where the
  environment names an administrator. `SessionsInv` with `Honest`: a session that is
  missing from the store is over, only a session that was handed out can have ended,
  and whoever is admitted has one that was handed out.

**CopilotProofs.** Six theorems about the copilot, of `Services` again.

* `ProvidersStayCurrent`, for `ProvidersAreCurrent`. `ProvidersInv`: unless a handler failed
  or a key was removed, the running manager is what the two files give (`FilesInv`);
  managers closed and managers some handler has yet to close are together all but the
  one in use (`ManagersInv`); a handler that reloads alone knows the only RAG service
  there is besides the new one (`RagsInv`).
* `IndexIsFresh`, for `IndexFollowsFiles`. `KnowledgeInv`: a run that is alone, or that began
  after the last change of a file, has listed and read the files as they are
  (`RunsInv`); a first run alone leaves no content but the files', and what a second one
  has read so far is stored under some reference that has it (`ConvergeInv`). `SavesAre`
  says what the sequence of saves that a removal makes ends with, whatever the order.
* `ConversationIsAlwaysKept`, for `ConversationIsKept`. `ChatInv` has five parts. `ChatTypes`;
  `MemoriesInv`: how full a memory can be, and that a service nobody has made yet
  remembers nothing; `RequestsInv`: what a request was told, read and waits for, and that
  it was not told its own question; `AlonesInv`: a request that nothing came between and
  that the code has not let fall out is the latest one and the only one, and where
  it stands decides which of its two turns the database and the memory have;
  `InStepInv`: of the turns the two agree about, the memory holds the end of what is
  stored. The property is `InStepInv` and two lines; the end of a request, which makes
  its turns count, needs `AlonesInv`, and the filling of a memory needs `RequestsInv`.
* `PromptsAreAlwaysGrounded`, for `PromptsAreGrounded`. `PromptInv` says of the kept answer that
  it quotes no text twice (`Listed`) and of a prompt that it is `Sound`. `FinalOf` is what the
  trimming leaves: a beginning of the chunks, an end of the history that is
  shorter only when no chunk is left, all citations or none, and a prompt that fits
  unless nothing is left.
* `WhatIsToldIsAlwaysSo`, for `WhatIsToldIsSo`. Nothing happens after the collection, so
  `CollectionInv` is what it establishes, and the proof is a reading of the collectors, the
  context policy and the rules: what each section can hold when its source speaks
  (`Right`) and which failure excuses a finding (`Excused`). It uses nothing of `Failures`,
  which limits what TLC tries: the lemmas are of any set of silent sources, and of
  any collectors that raise over an answer they got.
* `TypesAreKept`, for `TypeOK`, from the invariants of all parts together (`Invariants`). Some
  types hold bounds that only an invariant gives: of scripts (`ConfigRest`), of
  archives (`BackupSizes`), of the speed test's clock (`SpeedTimes`), of a memory.

Writing these proofs corrected the models in a few places: guards of `CASE` that
overlapped are now disjoint or chains of `IF` (TLC takes the first that holds, the
semantics any); a cancelled waiter leaves the pool's queue by its place; what the
refinement promises is named (`Promised`); the assumptions above on
`"no token"`, `NoDefault` and `NotRunning` were needed and missing. A memory whose
window is shorter than a summary never compresses, so its `pending` has no bound;
and `ConversationIsKept` asks for the whole conversation up to `Fewest` turns, the fewest
that a memory which has dropped one can hold: the bound depends on which is smaller,
the window or the threshold of compression. What a loop along a list computes is
written with the functions of `Lists`, not with `SelectSeq` and folds, about which the
provers know nothing.

Left to TLC are the liveness properties (`FeedRecovers`, `HangUpIsNoticed`, `WaitersAreServed`,
`JobsFinish`, `CallsEnd`): fairness and `ENABLED` are beyond the prover. The runs that expect a
violation are TLC's too.

## 5. Where the code differs from what it says

1. *A removed router is served.* `delete_connection` promises that "stale
   snapshots are never served for a removed router" (`onboarding.py:151`).
   Cancelling the task does not stop the thread; when its collection ends it
   stores the removed router's snapshot as the latest, connected frame
   (`SnapshotFeedRemoved.cfg`: read the connection, delete, collect, store).
2. *A closed pool opens a connection.* `acquire` checks `_closed` before it
   queues and not after (`SshPoolClosed.cfg`).
3. *A restore can be confirmed again.* `pending_confirmation` is never cleared,
   so "This restore job is not awaiting confirmation." is never the answer to a
   second confirmation, and two threads write the same file on the router
   (`ManagementJobsRestore.cfg`).
4. *Service jobs never run.* The five service endpoints are plain functions;
   `asyncio.create_task` raises there after the job was stored
   (`ManagementJobsService.cfg`).
5. *A record is lost.* `_STORE_LOCK` "guards all file access so concurrent
   transports sharing one store stay safe", and an accepted key "is recorded so
   later connections with the same key are trusted". Two transports that meet
   two new routers at once write one after the other the copies they loaded
   before either wrote (`HostKeysKept.cfg`).

6. *A DNS job that worked is reported as failed.* `_dns_run` returns one result
   that five functions unpack as a pair, after the command ran
   (`RouterConfigDns.cfg`).

The following are in the models and have no run of their own: the property of
the part leaves the case aside and says so.

* SSH: "Authentication and host-key failures are never retried" (`client.py:28`)
  holds of asyncssh only; `ParamikoBackend.connect` catches the `HostKeyError` of
  its own policy with `except Exception`.
* Configuration jobs: many report success whatever the exit status (`|| true`,
  the toggles, the system settings). `dhcp_toggle_host` reloads nothing. A script
  that stops half way leaves its staged change to the next commit of anybody. An
  entry may be added twice when a session is lost.
* Caches: a reader that began before a change may store after it.
* Knowledge: the content of a renamed file is a "duplicate" of a document that the
  same run then removes; the next run restores it. A torn state file makes the
  indexer's constructor raise for ever. After a failed flush, runs that find
  nothing changed do not repeat it.
* Boot: with `SECRET_KEY` set after a key was generated and its file lost, another
  key is taken, although the vault "Fails with an actionable error when stored
  credentials are encrypted but no key is recoverable";
  `has_encrypted_credentials` does not look at providers' keys, so an enabled
  provider whose key cannot be read fails every boot; an empty or torn key file
  does so too. A process that dies between the two seeded accounts leaves the
  second one uncreated.
* Providers: `write_provider_config` says "Atomically persist" and writes in
  place. A removed key is used until the next reload. Keys whose provider's
  deletion failed stay. Two reloads that overlap may leave the RAG service bound to
  a closed manager, or leak one. Disabling the default leaves it named as the
  default. A connection test is passed by a stream that ends without a word,
  although "`ok: true` guarantees the live `/chat/stream` path can produce a real
  reply"; the detail of a provider that is saved as enabled and does not run
  calls it disabled, and the list omits it.
* Conversations: `ChatStore` returns the oldest 50 rows, so after 50 a restart
  fills the memory with the beginning of the conversation, against
  `seed_history`'s docstring. The first compression drops ten turns without a
  summary of them (the window is shorter than the threshold). A window below 15
  never compresses. Empty answers are stored and not remembered.
* Collection and advice: memory that no source told is zero and "available", cores
  are 1 and the load 0. `errored("network_status")` is never true. A lost session
  gives "not_available" rather than "error". "Missing WiFi" is diagnosed of a
  collector that failed, against "Never diagnose missing WiFi from absent data";
  "Router is offline" of sections that were not asked for. With `ip addr` alone the
  uplink looks missing; the loopback makes IPv6 and a LAN address "available", any
  IPv4 on the uplink a public one. A configured radio whose interface is down
  appears twice. Keywords match within words ("login" selects logs, "program"
  memory). A mount without a percentage makes `build_context` raise, and all tools
  fail. Thresholds are inclusive where their text says "above".
* Prompts: "lowest-ranked chunks first" drops the end of the last document; citations
  are not computed again after it, so a document no longer quoted is cited, without
  a score. `max_context_tokens` is enforced nowhere. The best hit passes any
  threshold. The retrieval cache is never invalidated.
* Sessions: `session_info` may call a session "static" that ends while it looks; an
  open dashboard socket outlives a logout.
* Speed test: a run held up for the whole pause may store its result over a newer
  one. The pause follows failed runs too.
* Backups: the size that is printed is not compared with what came. `hexdump -C`
  without `-v` squeezes equal lines into `*`, which `_parse_hexdump` skips: such a
  backup is short and succeeds. Two backups share one path.
* Vector stores: an update or deletion of Qdrant, Chroma and SQLite may be overtaken
  between its read and its write. A FAISS write that is cut short may leave the
  collection unreadable for ever. SQLite is "the behavioral reference" for all
  others, which filter after fetching `max(top_k, offset + limit)` hits: a filtered
  search returns fewer, and a page beyond `top_k` returns more.

Seen and not modelled: `RouterStore.get_all` says "most recent first" and sorts
oldest first; `SSHConnectionPool.size` says "idle + leased" and counts every
connection ever opened; a rejected restore upload leaves its job "queued"; the
DHCP and DNS pages look for keys `uci show` does not print, so hosts and settings
stay empty; wireless pages list every client under every SSID of a radio; a list
option of the firewall is dropped; `services()` never sees a service enabled;
`kill_process` reports success without looking.

## 6. What is not modelled, and why

* Feed: the local and simulated sources and the environment's device (the same
  control with a constant connection), the frames `stop()` sends when the
  process is about to end.
* Jobs: the router reading the file one second after the dispatch, a change of
  router between staging and execution, the visibility of jobs. (The caches are
  in `RouterCaches`, the commands of a backup in `Backups`, those of the
  configuration jobs in `RouterConfig`.)
* SSH: the strict host key policies, which record nothing; a `known_hosts` that
  exists and cannot be read; the bridge's thread, which an authentication or
  host key error in the constructor leaves running; `disconnect`, `reconnect`
  and `health`, which nothing outside the package calls.
* Pool: `size`, `busy`, `health`, which no code decides by; a cancelled `close`.
* Management pages: functions that run one command and parse its output (packages,
  processes, logs, storage, the lists of the firewall, DHCP, DNS, VPN and wireless
  pages). They keep no state and no rule depends on them.
* Collectors: parsing, the VPN and log collectors, fields no rule looks at.
* Vector stores: `get`, `list`, `info` and `statistics`, filters by metadata,
  batches that repeat an id, cancellation inside FAISS (one process is assumed). The
  application uses SQLite only (`rag_service.py`).
* Knowledge: parsing, chunking, language detection, the registry's versions,
  `chunk_count`, several collections.
* Boot: the migration's rows one by one (it is one transaction here), races of
  `setup_admin` with itself in one process (it does not suspend).
* Providers: environment references for keys, health, usage and model lists, the
  adapters and their transport, batches and retries of embeddings.
* RAG: `RAGSession`, `memory_enabled=False`, the cache of embeddings, the prompt
  cache (not used with a conversation), the wording of prompts and summaries.
  A conversation's owner is a hash of the session token; that a new login cannot
  reach the old one's history is left out.
* Sessions: password policy, origins, rate of failed logins.
* Database set-up, `vision/` (a stub), the web console, the simulated sources,
  scripts and evaluations.

## 7. Plan

| Module | Content | Status |
|---|---|---|
| `SnapshotFeed`, `ManagementJobs`, `HostKeys` | as above, proofs of all safety properties | done |
| `SshPool` | as above, proofs of all safety properties | done |
| `VectorStores` and its parts | as above, proofs of type correctness, of `RestartChangesNothing`, of `SearchFindsDocuments` and of the refinement | done |
| `RouterConfig`, `RouterCaches`, `BackendBoot`, `ProviderAdmin`, `Sessions`, `SpeedTest`, `Backups`, `KnowledgeIndex` | as above, proofs of all their properties | done |
| `Conversations`, `Collection`, `Advice`, `Prompts`, `Lists` | as above, proofs of all their properties, with induction over lists in `ListsProofs` | done |
| Composition | `RouterCaches` with the feed of `SnapshotFeed`, whose frame it takes at its word | open |
