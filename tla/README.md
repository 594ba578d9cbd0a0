# TLA+ models of E.R.I.I.

E.R.I.I. is a Python library that keeps the long-term memory of a relationship
between an agent and a user: Turns (what was said), archival artifacts (what was
remembered of them), relationship events, Persona growth. It has no server of
its own that serializes work: several engines, in one process or in many, open
the same SQLite file or storage directory. What is hard in it is therefore not
the algorithms but the protocols: leases, compare-and-swap, idempotent retries,
crashes between two transactions, MemoryPacks that travel between stores.

This directory models those protocols, model-checks them on small instances and
proves the central invariants for all instances.

## Inventory

| Part | State | Operations | What makes it correct |
|---|---|---|---|
| Archival coordinator and ledger (`core/archival.py`, the `*archival*` methods of both stores) | archival records with lease, permit, version; consumer lease; artifacts | submit, claim, heartbeat, extract, bind, commit, fail, close | one publication, together with its receipt; bounded extraction; a terminal receipt for everything accepted |
| Archival identity (`create/compact/import/list` of the ledger, `models/archival.py`) | live records, tombstones, MemoryPacks | submit, compact, export, import, get, list | a key and a request keep naming one archival |
| Turn ledger (`core/turn_ledger.py`, `core/turn_context.py`, Turn methods of both stores, Turn methods of `engine.py`) | Turns, reply attempts, adjudicated ids, authorities, the guard | begin, record, complete, abandon, record attempt failure, adjudicate directly, decide about the Persona | linearizable, terminal Turns final, delivery only under valid authority, one meaning per id |
| Legacy task queue and archiver (`core/queue`, `core/archiver.py`) | task table, legacy nodes and timeline | enqueue, dequeue, complete, fail, recover | no task lost or done twice unnoticed |
| Relationship processing (`core/relationship_processing.py`) | processing runs, events, reflections | extract and freeze, adjudicate, reflect, resume | each phase once, resumable after any crash |
| Adjudication and Persona Growth (`core/adjudication.py`) | decisions, receipts, proposals | adjudicate, propose, decide | replay gives the same decisions; growth only from accepted events |
| FileStorage transactions (`storage/file_storage.py`) | documents, before-image journal, approval journals | begin, write, commit, recover | all or nothing across a crash |
| MemoryPack transfer (`_engine/memory_pack_transfer.py`, `_engine/memory_pack_analysis.py`) | a pack and a target store | export, analyse, import | applied once and whole; what is exported closes over its evidence |
| Persona compilation (`core/persona_compilation.py`, both stores) | proposals with revisions, Manifests, the pin of a relationship | propose, revise, decide, approve, revoke | pinned only to what was approved |
| Lifecycle (`data_lifecycle.py`, `_lifecycle/`) | plans, names on disk, owner files, recovery names | backup, restore, upgrade, erase, rebuild, import; each again after a failure | the store is never lost, success is complete, a retry goes through |
| Opening a database (`storage/sqlite_storage.py`) | schema history, base tables, timeline | open, migrate, write, export, import | whoever is let in finds a whole current schema; the timeline keeps one order |
| Erasure of a Turn or an event (`lifecycle_erasure.py`) | journals, runs, reflections, growth, memories, consequences | select, close, remove | exactly what depends on the selection goes; what stays is intact |
| History (`core/temporal_history.py`, `core/consequence.py`, `core/temporal.py`) | two journals, consequences, links | append, order causally, export, import, project | nothing that was said to matter is lost or revived |
| Consolidation (`core/consolidation.py`) | none, a function of a history | episodes, threads, chapters | told together exactly if tied together |
| Recall (`core/recall.py`, `core/persona_context.py`) | one recall, between unlocked reads | read, classify, plan, select, budget, reinforce | closed, of this relationship, proven before unproven, within budget |
| Deliberation and continuity review (`deliberation/`, `core/continuity.py`, `core/continuity_evidence.py`) | calls of the host's threads, attempts, the shared evaluation | prepare, review, activate, show, seal, fall back | only what the kernel bears out is sealed; late answers are ignored |

The remaining packages (HTTP server, adapters, renderers, vector indexes,
evaluation, laboratories, demo) hold no state of this kind; `PROJECT.json`
lists them with the reason, and the hazards this code is exposed to with the
properties that would catch them.

How the parts interact: the engine calls everything; all share the store. The
*relationship processing guard* is a lock across processes around begin, record,
adjudication, relationship processing and growth decisions; archival, completion
and abandonment work without it. Archival and relationship processing read
completed Turns only. Persona decisions change what a Turn may be completed
under. MemoryPacks carry Turns, events and tombstones between stores.

## Modules

| Module | Contents |
|---|---|
| `Archival`, `ArchivalPromise`, `ArchivalProofs` | the archival ledger and its coordinators; what archival promises: accept, freeze one batch, publish it once or refuse; theorems |
| `ArchivalIdentity`, `ArchivalIdentityProofs` | which archival a submission names, through compaction, export and import; theorems |
| `TurnLedger`, `TurnPromise`, `TurnLedgerProofs` | the Turn lifecycle, concurrent callers, authority decisions; the lifecycle as atomic operations; theorems |
| `LegacyArchiver`, `LegacyArchiverProofs` | the task queue behind the deprecated `remember()`, its workers, and the memory list they share with foreground calls; theorems |
| `RelationshipProcessing`, `ProcessingPack`, `RelationshipProcessingProofs` | processing runs with the journals they write; what a MemoryPack carries of them and what an import demands; theorems |
| `FileStorage` | a storage root: documents, the root lock, the before-image journal |
| `AtomicStore` | what `FileStorage` promises: a whole-pack write takes effect at once or not at all, a plain method makes the writes it decided on, undisturbed |
| `PersonaCompilation` | what the storage keeps of a compiled Persona, and approval with its after-image journal |
| `MemoryPackTransfer` | the engine above the storage: initialise, Turn, archival, Core Memory, export, import |
| `PersonaReview` | propose, revise, decide, approve and revoke by the engine; reopening a root |
| `StoreErasure` | erasing a whole scope of the store while every host is stopped |
| `EngineStore`, `EngineStoreProofs`, `StoreContentsProofs` | all of these composed, with dying processes and failing calls; theorems about the storage, its atomicity and who owns a scope; theorems about pins and receipts |
| `SQLiteSchema` | databases of each version, the two ladders to the current one, the timeline |
| `Lifecycle` | `DataLifecycleCoordinator` over names in a file system |
| `StoreOpening` | hosts that open, write, export and import a database the lifecycle may publish to |
| `Erasure` | what erasing one Turn or one event takes away with it |
| `Consolidation` | episodes, threads and chapters of a history, as functions |
| `History` | the two journals, what may be appended, packs, consequences, tension links |
| `PersonaGraph` | an approved Persona graph and the closure of it that one recall delivers |
| `Recall` | one structured recall over a store that others write to |
| `ContinuityReview` | findings, verdicts, voice activation, evidence, as operators |
| `Reply`, `ReplyProofs` | one open Turn and the threads that prepare, review, show and seal a reply; theorems |
| `MC*` | instances for TLC |

The layers extend one another: `FileStorage` - `PersonaCompilation` -
`MemoryPackTransfer` - `PersonaReview` - `StoreErasure` - `EngineStore`;
`SQLiteSchema` - `Lifecycle` - `StoreOpening`; `Consolidation` - `History`;
`PersonaGraph` - `Recall`; `ContinuityReview` - `Reply`; `RelationshipProcessing` -
`ProcessingPack`. Each module but the rules (`SQLiteSchema`, `Consolidation`,
`ContinuityReview`) declares the variables of its own level.

### Archival

`records` holds `ArchivalRecord` with its receipt, one per submission and named
by submission order (the claim is `ORDER BY sequence`). Lease tokens, attempt
ids and permits are random in the code; they are compared for equality only, so
the model uses the record version that minted them. `task[c]` is the position of
coordinator *c* inside `process_pending()`, with the in-memory copy of the record
it works on (`_process_claimed` keeps such a copy while others may change the
store). Each storage method is one transaction under `BEGIN IMMEDIATE` (or the
global file lock), hence one action; everything between two storage calls is a
separate step.

| Action | Code |
|---|---|
| `Submit` | `submit()` with `create_archival_record` |
| `Begin`, `NextRound`, `Claim`, `NothingToClaim`, `Release` | `process_pending()` with `acquire_archival_consumer`, `claim_next_archival_record`, `release_archival_consumer` |
| `StartExtraction`, `Heartbeat`, `FinishExtraction` | `_extract_with_heartbeat` and its heartbeat thread |
| `Bind`, `BindThenError`, `PermitLapses` | `_extract_and_bind`, `bind_prepared_archival_batch` |
| `Commit` | `_commit`, `commit_archival_batch` |
| `RecordFailure` | `_record_failure`, `update_archival_record`, `_latest_receipt` |
| `CloseStart`, `CloseReturn` | `close()` |
| `Crash`, `StoreError`, `LeaseExpires`, `PermitExpires`, `ConsumerExpires`, `RetryDue` | the process, an unhandled exception, the clock |

`drain()` is not an action of its own: it lists a snapshot and calls
`process_pending(archival_id=...)` for its members, which is `Begin(c, a)`.

Time is what the code compares it with: a lease is live or expired. A lease
nobody keeps alive expires freely; a lease that expires although its holder
runs, and exceptions the code does not handle, come out of the budget
`MaxFaults`.

### ArchivalIdentity

An archival is `live` or a tombstone, in one of several stores, or in a pack. A
pack may be exported by a version that knew no artifact commitments, imported at
any later time, and more than once. `Finish` stands for the whole of `Archival`.
`resolved` is a history variable: the last answer of each store to each key and
request. `GetStart` and `GetRead` are the separate transactions of `get()`.

### TurnLedger

`call[c]` is what one caller is doing: the operation, its position between two
storage calls, and what it read. `guard` is the relationship processing guard;
an exception or the death of the process frees it. The baseline of a Turn is the
set of *authorities* (the pinned Manifest, approved Persona Growth) it was opened
under; the rest of the baseline is immutable or append-only and left out. A Turn
record has version 1 until it ends, so the version part of the compare-and-swap
is its status. SQLite validates the authority after comparing, the file driver
before; `Driver` chooses.

The outcome of `complete_turn` keeps what its checks tell apart: the review
(reviewed, failed, not requested), the disposition, whether an exception was
declared and which authorities the review cites.

`Promise` maps the ledger to `TurnPromise` by forgetting positions and snapshots.

### LegacyArchiver

`status`, `attempts` are columns of the table `archival_tasks`; tasks are numbered
by `created_at`. `next_attempt_at` and `processing_started_at` become `due` (the
retry may start) and `overdue` (the claim is older than the recovery cutoff).
`thread[w]` is where an `AsyncArchiverWorker` is inside `process_next()`, the task
it claimed and the list of nodes it loaded. Threads in `Loops` run `_worker_loop`,
threads in `Hosts` are callers of `process_pending()` or of an inline
`remember()`. `caller[c]` is a foreground call between its `load_nodes()` and its
`save_nodes()`. A memory node has an id, an origin (only nodes published by
the reliable path carry an archival provenance, which `save_nodes()` protects) and
its unresolved flag.

| Action | Code |
|---|---|
| `Enqueue`, `Dequeue`, `Complete`, `RetryFailed` | the methods of `PersistentTaskQueue`, one transaction each |
| `FailReads`, `Fail` | `fail()`: the attempts are read by a statement of its own, and written back later, while other threads may come between |
| `Open` | construction of a queue, whose `_init_db` recovers abandoned claims |
| `CompleteRaises`, `FailRaises` | the handler of `process_next()` and what escapes from it |
| `Generate`, `Parse`, `AddTimelineEntry`, `LoadNodes`, `SaveNodes`, `Swallow` | `_process_archival()` and its `except Exception` |
| `ProcessNow` | `process_now()` |
| `Start`, `Shutdown`, `LoopEnds`, `Crash` | the worker thread and its process |
| `CallLoads`, `RecallSaves`, `RememberThoughtSaves`, `ResolveThoughtSaves`, `CallEnds` | `recall()`, `remember_thought()`, `resolve_thought()` |
| `Publish` | the reliable path publishing a memory; all of `Archival` stands behind it |
| `BackoffElapses`, `TimeoutElapses` | the clock |

`entries` and `trouble` are history variables. Left out: that the loop
ends when somebody deletes the database file, and what an extraction contains.

### RelationshipProcessing

`runs[r]` is the stored `RelationshipProcessingRun` of a processing identity (a
completed Turn, processed normally or again). `direct` and `decisions` are the
two append-only journals: events that hosts record themselves and adjudication
decisions with the event each may carry. A run's baseline is the length of both
journals at the moment its batch was frozen. `call` is the operation that holds
the relationship processing guard, and its position between two writes; since
every operation that writes these variables takes the guard, there is never a second
one, and the compare-and-swap on run versions, which could only fail if there
were, is left out. An identity is bound to one Turn for good, so the Turn is left out
too.

A candidate keeps what the adjudication tells apart: its key, the occurrence it
tells of, the keys it depends on, the Promise it settles, and one flag, `sound`,
for all checks that read nothing but the candidate and its Turn (evidence, roles,
confidence, types). `DirectEvents` and `Batches` are what hosts and extractors may
come up with.

| Action | Code |
|---|---|
| `Process` | `process()`: where a stored run is resumed |
| `Extract`, `ExtractNothing` | `_extract_and_freeze()` and `create_relationship_processing_run` |
| `Decide` | one round of `adjudicate()`: order of resolution, verdict, `commit_relationship_adjudication` with the validation of the history as it is now |
| `RecordDecisions`, `AdjudicationFails` | `_adjudicate()` |
| `AdvanceAfterAdjudication` | `_advance_after_adjudication()` |
| `Reflect`, `RecordReflection`, `SkipReflected`, `ReflectionFails`, `CompleteReflections` | `_reflect_accepted_events()` |
| `Interpret` | `append_reflection_interpretation()` |
| `AdjudicateDirectly` | `adjudicate_turn_candidates()` of the engine |
| `RecordEvent` | `record_relationship_event()`, `record_promise()` and their like |
| `Leave` | death of the process, an exception, a missing capability, or the return of a direct adjudication |

`Leave` is enabled at every position, so a call may end between any two writes,
any number of times. `call.at = "raised"` is the one exception that matters by
itself, see Findings.

### ProcessingPack

Adds to `RelationshipProcessing` what the import of a MemoryPack reads besides: the
status of one Persona Growth proposal and the reflections whose provenance cites
it as approved. `Importable` is the import's replay: every run of the pack must be
a beginning of the canonical order of its batch, decided as its frozen prefixes
say, and every reflection must match its decision. Manifest and Blueprint
provenance, the windows of 32 entries, evidence offsets and the order of
reflections are abstracted. `RunsTravel` says that an export taken between calls
is accepted, except in the states `Torn`, `Disowned` and `Overruled`, which are
the known disagreements listed below.

### FileStorage, AtomicStore

`files` is the contents of every document under one root, `journal` the
before-images a whole-pack write keeps, `lock` the root lock, `task[p]` what a
process is doing inside one storage call. Every `os.replace` is one step, a crash
comes between any two, and a call of the operating system may fail; an opening
rolls an unfinished journal back. What an operation writes is a parameter
(`Plans`).

`journal` is the journal as its writer has it in memory. The code appends a
before-image there first and writes the file afterwards; `saved` is false while the
last image is in memory only, and `OnDisk` is what others find then. Most methods give
up when this write fails and are rolled back. An approval tries once more
(`TriesAgain`), finds its image in memory and replaces the document (`CannotRecord`,
`NeedsImage`); a later write of the journal repairs that, a death before it does not. The
journal of an approval is removed by `os.remove`, which records nothing.

`ImplementsAtomicStore` maps the documents to what they were before the journal
until the journal is committed (`Base`), and a plain method to the writes it has still to
make (`Left`). In `AtomicStore` a plain operation decides once on a plan; after that
nobody else changes a document until it has made these writes in this order, has
failed or has died, and nothing but its own next write, a pack as a whole or an erasure
ever changes one. So a rollback that undoes what a plain method wrote, and a pack half of which
stays, are not steps of it. `broken` ends the promise: `lost` of `EngineStore` becomes true
at a step after which a pack may have replaced what is on no disk any more (`Loses`: a
writer goes while its last image is in memory only, or a pack removes a journal that an
earlier approval left). What is claimed of the file store is claimed until then; see
Known disagreements for the two paths there. In SQLite nothing is ever lost
(`DatabaseOK` in the proofs).

### PersonaCompilation, MemoryPackTransfer, PersonaReview, StoreErasure, EngineStore

`files["compilations"]` holds the revisions of one proposal of one Blueprint and
the Manifests; approval writes the aggregate and the profile under an after-image
journal of its own, which whoever opens the root next replays. `engine[p]` is
what one process has read and plans above the storage, `guards` the guard of a
relationship. Reads of an export are separate steps without a lock; an import
plans against what it read before it had the root lock. A transactional store
(SQLite) takes the same checks and writes in one step and keeps receipts.
`StoreErasure` is the erasure of a scope as one step, since hosts are stopped and
a private copy is worked on; `Lifecycle` models how the copy gets in place.
One process reviews, and it is the mortal one; packs with compilations also
carry Turns so that they land on the same relationship; the identity registry's
check is left nondeterministic.

### Lifecycle, SQLiteSchema, StoreOpening

`disk` maps names to contents. A name is a sequence: a visible name has one
element, the staging, recovery and owner names derived from a plan have more.
Everything is published by a rename that never replaces. `executor[p]` is the
position of a call of `execute()`, `plans` the plans a host may execute, several
times and at once. Opening is the ladder of `SQLiteStorage()`: look at the
version, make the base tables one by one, migrate in one transaction. Hosts use
stores while nobody executes, as the coordinator requires it, except under the
name `Opened`, where nothing but SQLite's locks is between them and the
lifecycle. One name stands for all a migration makes; the timeline's rows are
the only ones a migration rewrites. `Instant` gives the UTC instant of a written
time, 0 if none can be read.

### Erasure

`direct` and `journal` are the two journals, and what Turns and runs remember of
them is the length of a prefix. `EraseTurn` and `EraseEvent` close the selection
as the code does, in passes, and take the closure out. The prerequisites of
promise resolutions and confirmations are folded into `needs`; windows of 32 are
ignored. Refusals are those of a partial batch, the forgotten context of a
reflection, an open loop's origin node, the consequence of a downgraded Turn.
The file and the SQLite code have the same meaning here.

### Consolidation, History

`direct[s]` and `decided[s]` are the journals of a store, in append order. A pack
carries them without their merged order, and the importer makes one up
(`CausalOrder`). What may be appended is decided against the history as it is,
what may be imported against every prefix of the order found. Consequences and
tension links hang on decided events. Signals and tensions are projections.
An import is one step (`EngineStore` covers its atomicity), and a store that has
not gone on stands for a pack lying around. Packs bound by Turn decisions, runs or
consequences cannot be remapped to another relationship. Condition ids, world
calendars and content are abstracted. `Consolidation` finds the trees of episodes and
chapters for both lexical orders of identities; path halving moves no root and
is left out.

### PersonaGraph, Recall

`PersonaGraph` is the planner's closure as steps over sets (`plan`), since its
order is not fixed by the code. `Recall` is one call: each unlocked read is an
action, and between them others publish, compact, revoke, add consequences.
While the planner works the others pause, as its steps read nothing of theirs.
Rank order and relevance are given per scenario; an item and the span that
anchors it count as one cost; signals are not in the budget.

### ContinuityReview, Reply

`host[h]` is where one thread's call is and what it knows; `voice` the flights of
the evaluation that threads share, its cache, and how many results were dropped.
One Turn and one evaluator have one cache key. A provider or an evaluator may
return anything of `Answers`, `Judgements`, `Inferences`, at any later time.
`guard` is the relationship guard; activation and abandoning take none. Safety and
tension are in thirds; reply spans and exact texts are bound by hashes and
abstracted; Persona and relationship references are resolved in one step, which
is sound as they only become invalid. Errors of delivery are the host's.

Operators marked `Faulty` are wrong variants of the operator that follows them. No
action uses them; they document which mistake each property catches.

## Runs

| Run | Instance | Shows |
|---|---|---|
| `archival` | 1 archival, 2 coordinators, 2 batches, 2 attempts, 1 crash, 1 fault, fairness; 274 k states | `PublishedWithReceipt`, `ExtractionsCounted`, `WorkIsFenced`, refinement of `ArchivalPromise`; every accepted archival becomes terminal |
| `archival_identity` | 2 stores, 2 keys, 2 requests, 2 archivals, 2 packs; 472 k | identity survives compaction and travel, nothing is forgotten |
| `turn_ledger` | 1 Turn, 2 callers, 3 outcomes, 2 openings, 2 authorities, all operations, SQLite; 726 k | names are canonical, authority is current, refinement of `TurnPromise` |
| `legacy_queue` | 1 task, 2 worker processes, 2 attempts, 1 foreground caller, 2 nodes, any number of crashes, fairness; 55 k | claims are honoured, pending tasks are served, published memories survive |
| `relationship_processing` | 2 identities, 2 batches of 2 candidates, 1 Promise, 1 growth proposal, any number of crashes and failures; 1.83 M | batches decided whole and as frozen, here and in every pack; reflections complete |
| `engine_store` | 2 processes, 5 packs, 2 revisions, 2 calls, 1 crash, 1 fault, both drivers; 724 k | imports once, exports close, one relationship, pins are approved, writes are atomic |
| `lifecycle` | 3 worlds, 8 requests, 2 executors, 2 plans, 2 hosts, 1 write, crash, fault, death; 1.1 M | nothing visible is lost, success is complete, retries go through, hosts find their store, the timeline is kept |
| `erasure` | 2 Turns, 2 direct events, batches of 2, 2 reflections, 3 records, 1 erasure; 554 k | what goes, what stays, and that nothing dangles |
| `history` | 2 stores (SQLite, files), 5 kinds of material, 4 to 7 appends, 2 imports; 281 k | matters are kept, narratives grounded, what is settled stays settled |
| `recall` | Persona graphs of 2 claims, 3 memories, 3 kinds of rivals; 501 k | delivery is whole, tiers are respected, the budget is exact |
| `reply` | 2 threads, 2 calls, 2 rivals, 7 answers, 6 judgements; 1.35 M | fallbacks recorded, refusals stale, completion earned, single flight, nothing after the end |
| `erased_store` | `engine_store` with erasure of interrupted stores | counterexample, see Findings |

Several properties are conjunctions of named parts, each about one way to break
the same promise; the parts have comments of their own and are what the proofs
speak of:

- `WorkIsFenced`: `SingleConsumer`, `ClosedIsQuiescent`.
- `OneIdentity`: `NamesOneArchival`, `GetFindsAccepted`. `NothingIsForgotten`:
  `RetryKeepsIdentity`, `CommitmentIsKept`.
- `NamesAreCanonical`: `TurnIdentityIsCanonical`, `AttemptNumbersAreUnique`.
  `AuthorityIsCurrent`: `ReviewedUnderAuthority`, `OpenedUnderCurrentGrowth`.
- `ClaimIsHonoured`: `ExclusiveClaim`, `OnceUntroubled`.
- `FrozenForGood`: `DecidedAsFrozen`, `RunsTravel`.
- `MattersAreKept`: `Travels`, `SupersededIsCarried`. `SettledStaysSettled`:
  `SettledIsSilent`, `TensionsStaySettled`. `NarrativeIsGrounded`: joined exactly
  if tied together, for both orders of identities.
- `DeliveryIsWhole`: `DeliveryCloses`, `NothingForeign`, `FoundationWhole`,
  `DeliveredIsCitable`, `NoHostDirective`. `TiersAreRespected`:
  `PublishedIsOrdinary`, `LegacyYields`.
- `CompletionIsEarned`: `ShownIsContinuous`, `VoiceIsEarned`, `CompactIsGrounded`.
  `SingleFlight`: `OneEvaluation`, `FollowersAreLed`.
- `TimelineIsKept`: `OrderIsOne`, `UpgradeKeepsEntries`, `RefusalsAreKnown`.
  `HostsFindTheirStore`: whoever is let in, what is left alone, who is refused.

Why the bounds are enough. Two coordinators are a holder and one who takes over;
a fault lets the holder's lease expire, which is what a stale write needs. Two
attempts separate "one left" from "none left". Two stores and two packs let a
tombstone travel there and back. Two callers suffice for the ledger as every race
there is over one compare-and-swap or one lock; two authorities, as the Manifest
and growth are decided under different locks. In `LegacyArchiver` two workers are a
holder and the one that takes the task over; two nodes are one to lose and one to
overwrite it with; its behaviours begin with every memory minted or every task
done, as neither part reads the other's variables. In `RelationshipProcessing` one
identity extends the journals while the other is interrupted; one batch has a
candidate that depends on a later one with the same occurrence, the other a
Promise retold and kept. Growth is decided when only one of the
two runs is under way, which commutes with the rest. In `EngineStore` the
second process is the one that comes upon what the first left. In `Lifecycle` two
plans are one and a rival for its names, or one and its retry; the three worlds
separate a live store, an upgrade and restore that race to one name, and hosts that
exchange timelines. In `Erasure` the second Turn is what may depend on the first.
In `History` the kinds of material interact only within a kind. In `Reply` two
threads are a leader and its follower, or a call and its rival.

Deadlock is checked in all runs but `erasure`, `history` and `reply`: their worlds
end when what may still happen has happened.

Fairness. `archival`: The host calls `process_pending()` again and again on every
coordinator it has not closed; a call once started goes on, which includes that
the host's extractor returns; clocks advance. The first is what `docs/USAGE.md`
asks of a host, since the library starts no thread of its own for archival; it is
strong fairness as the consumer lease of another coordinator may make a call
return at once. Faults, crashes, submissions and closing are never forced, and
the property excuses the case where every coordinator was closed.
`legacy_queue`: a worker thread that runs keeps running (its loop polls for ever),
time passes, and of completions that are attempted again and again one is
written. Nothing forces a process to come back. `Served` is conditional on hosts
that stop crashing, stopping and restarting their worker, and excuses tasks
orphaned by a crash, since only the construction of a queue recovers them.
No other run assumes fairness: that whoever waits for an evaluation has
somebody to wait for is stated as the invariant `FollowersAreLed`.

## Findings

- `ErasedIsGone` (run `erased_store`). A process dies after it has written the
  journal of an approval and before the two documents. Erasing the relationship then
  removes the documents and leaves `_persona_approval_transactions/*.json`; opening
  the staged copy to validate it installs the compilation aggregate and the
  profile again, and the copy is published as erased. The journal of an
  interrupted import puts its before-images back in the same way, and for a complete
  user, whose copy is not opened, the next host that opens the store does it.
  `docs/b1-implementation-contract.md:143` says that success means that the selected
  data was removed. The passing run excludes erasing a store left with journals
  (`EraseInterrupted = FALSE`), since `OneRelationship` fails by the same defect.

### Known disagreements without a run

Met while modelling; the models follow the code, and a property that would fail is
restricted to what holds, or left out. Some modules state such a property without a
run, to say what the code falls short of: `BeforeImagesAreKept`, `PinnedFaithfully`
and `InitializeIsRepeatable` of `EngineStore`, `RetryIsExact` of `Lifecycle`,
`ResolvedInOrder` of `ProcessingPack`.

Archival, Turns, queue:

- A submission with a new key for a known request is answered with the existing
  archival, but its key is not stored and can then be accepted for another request.
- A completion that reads the Turn open, while another caller completes it
  identically and the Manifest is then revoked, fails with an evidence error instead
  of returning the receipt as an identical retry does.
- Background archival and foreground calls read the memory list, change it and write
  it back without a lock around the three; ADR 0001 says its locks solve that race.
- The run epoch that CONTEXT.md:105 and ADR 0120:104-107 speak of fences nothing.

Relationship processing and packs:

- When the reflection on the second of two events fails, a retry first records the
  first outcome again as a pending reflection with failures, which the run's
  model class refuses; `docs/USAGE.md` says a retry resumes the reflection stage.
- A resumed call counts stored decisions as resolved at once, so that with
  dependencies two deep an interrupted batch is resolved in another order than an
  uninterrupted one (`core/adjudication.py:342-373`; ADR 0091 line 7).
  `ResolvedInOrder` states it; `Layered` in `MCRelationshipProcessing` is such a batch.
- A host that adjudicates directly what an interrupted run has frozen decides under
  the run's identity against the present journals (`Overruled`).
- A crash between `commit_persona_reflection_decision` and recording it in the
  run leaves a store whose export no import accepts (`Torn`), although
  docs/USAGE.md:2272 says a pack cannot capture a half-finished transition; so does
  revoking approved growth that a reflection cites (`Disowned`).
- A batch with a cycle that was interrupted after its first rejection rejects the rest for
  another reason than the import's replay.
- Continuity evidence that cites an event accepted by a decision, or a reflection on
  one, is refused as dangling: only the direct journal is searched
  (`core/continuity_evidence.py:608-645`; docs/USAGE.md:1199-1208, ADR 0093).

Stores and lifecycle:

- A first opening that dies or overlaps with another before the migrations commit
  leaves version 0; every later `SQLiteStorage()` raises `MigrationRequiredError`,
  and no upgrade starts from 0 (`sqlite_storage.py:171`, `782`;
  docs/data-lifecycle.md:109-114).
- A pack with legacy timeline rows passes the preflight in its own store and
  is refused by `import_timeline_entries` (`sqlite_storage.py:1676`;
  docs/USAGE.md:2272, 2289). An entry written after an import may collide with an
  imported legacy identity for ever (`sqlite_storage.py:1495`). Entries exported
  before the relationship existed make later exports fail (`engine.py:3433-3505`).
- A host that looked at an absent database migrates without backup what a restore
  publishes there in the meantime.
- "Runs one payload callback with durable before-image rollback"
  (`storage/file_storage.py:398`) and "Persists one target's original bytes before its
  first replacement" (`:618`) do not hold of an approval in a pack. When the write of the
  before-image fails, the approval tries again (2909-2916), finds the image in memory
  (623-627) and replaces the document; a process that dies before the journal is
  written again leaves a replaced document that recovery does not put back. And the journal
  of an approval that an earlier one left behind is removed (850) without a
  before-image, so a pack that is rolled back does not restore it. `BeforeImagesAreKept`
  states what the comments say and `PinnedFaithfully` what follows for the pin; neither is
  run, and the properties that are (`ImplementsAtomicStore`, `OneRelationship`,
  `PinnedIsApproved`) hold until something is lost.
- A replayed approval journal overwrites a pin made since; an export may contain a
  torn compilation (`engine.py:2656-2672`); an empty owner file blocks a retry; the
  decisions of an interrupted batch make an erasure refuse.
- SQLite refuses a second consequence of one decision and event; FileStorage compares
  consequence ids only, though docs/domain-model.md:152-153 promises the same
  semantics.

Projections, recall, deliberation:

- One tension link, recorded in two stores at different times, is settled in one
  copy and open in the other after a merge (`engine.py:3428`,
  `core/consequence.py:115-172`; docs/domain-model.md:102). `SkewedOffers` in
  `MCHistory` shows it.
- Two chapter titles joined may exceed the 256 characters a title may have, and more
  than 256 events in one episode or chapter raise, which makes
  `get_relationship_consolidation` and rebuilding fail.
- The foundation of a Persona that ADR 0043, ADR 0044 and CONTEXT.md:788-790 call
  always delivered is cut by the premise before the closure
  (`core/persona_context.py:551-593`).
- The evidence of a memory disappears at compaction although recall certified it;
  legacy memories fill free places without a relevance filter, and the budget may
  deliver a situational item without what it depends on (ADR 0114); two unguarded
  reads of consequences and links may make the projector raise
  (`core/recall.py:617`); reinforcement writes a stale list back (`recall.py:535`).
- The voice matcher is greedy in the order of signal ids; a Turn that ends during the
  provider call makes `prepare_reply` raise while recording the failure;
  `finalize_shown` is not idempotent; a leader may insert into the cache after its
  Turn was evicted (docs/USAGE.md:1183, ADR 0087:13), and another engine's cache is
  not evicted.

## Proofs

`tlapm` proves the proof modules completely.

`ArchivalProofs` assumes only that bounds are natural numbers, `MaxAttempts` is
positive and the "none" values are not real ones. The safety properties are not
inductive: a write is checked against versions and tokens, so the invariant
has to say how copies relate to records. `IInv` adds `RecordShape` (what each
status implies), `CopyIsVersioned` (a copy with the record's version *is* the
record), `TokensAreUnique` (two coordinators never share a token) and
`ClaimIsUnspent` (a current claim that may extract has an attempt not yet
used). Each action is shown to preserve it; writes are handled by one lemma that
says that every other copy becomes older. `PromiseIsKept` shows that every step is
a step of `ArchivalPromise` or stutters. `WorkStaysFenced` has an invariant of its
own, `FenceInv`: before the first fault whoever is inside `process_pending()`
owns a live lease, not only whoever works (`LeaseIsHeld`: two workers exclude each
other because the lease has one owner, and work begins with taking it); a
coordinator whose `close()` began accepts nothing, and only one that accepts stands
between its check of acceptance and its claim (`ClosedRefuses`); one reported
stopped may still pass through the loop (`StoppedRests`).

`ArchivalIdentityProofs` needs no more than that `NoId` is no id. Its invariant says
that entries of a store which share an id, a key or a request share all three
(`OneName`), that every answer is still backed by an entry for that request
(`ResolvedIsHeld`: so a repeated submission meets it), that artifacts are certified
only on terminal records (`CommittedIsTerminal`: so compaction, which takes terminal
records, keeps certificates) and that a `get()` under way asks for something the
store has, in the tombstones when it missed the records (`LookupIsBacked`: records
become tombstones, never the reverse). One lemma about merging sets of tombstones
serves compaction, import and deduplication; every step `Kept` all entries,
from which `IdentityIsRemembered` follows.

`TurnLedgerProofs` rests on `LedgerAssumption`. `IInv` adds `GuardIsHeld` (who
decides under the guard has it) and, per call, what it settled on and still
relies upon: `CreationIsSettled` (if the Turn is absent its id is available and
the baseline has the current growth), `TransitionIsSettled`,
`AdjudicationIsSettled`, and that a returned call is truthful. A lemma shows that
these survive whatever *others* write, because Turns only grow and are created
under the guard; the caller's own steps are then separate lemmas.
`NamesStayCanonical` and `AuthorityStaysCurrent` state the grouped properties.
`PromiseIsKept` is the refinement of `TurnPromise`: each action is one `Call`,
`Accept`, `Refuse` or `Leave` of the promise, or not seen. Successes follow from
what `IInv` says of a settled call; refusals need `Settled` as well: whoever took a
snapshot still finds no Turn, whoever found one holds its baseline (so a repeated
begin is never refused for a baseline of its own), and a lost race is lost for good.

`LegacyArchiverProofs` rests on `BoundsAssumption`. `IInv` adds to the properties
`JobInv` (what a thread's position says about its task), `NewInv` (a task not
enqueued has left no trace) and `EntryInv` (how far a task's holder is bounds the
entries it made); they are needed because "nobody else holds it" must be derived
from the row being pending when it is claimed. `CompletedStays` and
`ArchivedSurvives` follow from it step by step; `ClaimsAreHonoured` is the group.

`RelationshipProcessingProofs` rests on `ProcessingAssumption`: batches are not empty
and have distinct keys. `IInv` adds `RunOK` (what each status implies, and that
the run agrees with the journals), `CallPlace` (the stored run stands where its
call thinks it does, which the guard makes true) and `CallProgress` (what a call
has passed is decided, or reflected on). The last one makes `BatchDecidedWhole` and
`ReflectionsComplete` inductive: when nothing is left, everything is done. One lemma
covers all runs a step does not write, as the journals only grow; one covers the
writes of the reflection stage. `SettledOnce` needs no more than the types, because
every append is validated against the whole history.

`ReplyProofs` rests on `ReplyAssumption`: numbers begin above 0, "none" is none of
the values it stands beside, a world's journal was as long as its Turn says, kinds
and assessments are those of the code's enumerations, sets of observations and
emotions are finite. All six properties of the run `reply` but none of its bounds are
involved: any number of threads, calls and rivals, any answers. `IInv` has three
parts. `Knows(host[h])` is what a thread may rely on at its position: the number and
version of its call (`Addressed`), that a fallback's failure is on record
(`Excused`), that a compact decision was scanned (`Deliberated`), that the
evidence stood when the review began (`Resting`), that the emotions it matches
with are the value of some flight (`Heard`), and that an offered decision is
continuous and its voices are backed (`Borne`). `Sealed` says the same of the reply
in the Turn. `Flights` is the shared evaluation: leaders lead flights that differ
(`Leads`, `LeadersDiffer`), what is in the air is led (`AirIsLed`), a result that has
landed is there (`Landings`), and every flight that is neither cached nor in
the air was dropped or failed (`Accounted`), which makes `OneEvaluation` inductive.
The argument is the same for every action: it changes what one thread knows and
at most one shared thing, and `KnowsIsStable` carries the knowledge of all others
over, as attempts and values of flights are never taken back, the frozen
journal is a prefix and the world does not change. Trying to prove `AggregateType`
showed that the guards of the CASE it speaks of overlapped, where TLA+ leaves the
value open; the operator now asks in the order of the code.

`EngineStoreProofs` is about the whole engine over its JSON documents, and assumes
what it names `Setting`: an operation's plans are those of the modules
`MemoryPackTransfer` and `PersonaCompilation`, the files are their documents,
"no journal" is no journal, and a store is not erased while a write is interrupted
(with that allowed, `erased_store` shows what goes wrong; see Findings). `IInv` says
that every document holds what fits it; that the journal, if there is one, has for
each document at most one before-image, which fits too (`JournalOK`); where the
one process inside the storage stands in its plan (`WritingOK`, `RestoringOK`), and that,
unless a before-image was lost, what it has written is the plan's beginning over what is
committed, but for removals it may skip (`Progress`); and of a database that it has
no journal, has lost nothing and is between transactions (`DatabaseOK`). What is committed,
`Base`, the root as recovery would leave it, stands still while a journal is
written, applied and rolled back, and moves at one step, the commit, unless that step
loses a before-image. `StorageIsKept` is the invariant. `ImportsAreAtomic` is
the refinement: `Base`, what plain methods have left to write and who has been answered
what make every step a step of `AtomicStore` or none (`Simulated`), or `lost` becomes
true and the promise ends. That a plain method is undisturbed needs that
whoever stands in its plan holds the root lock (`ProcessOK`), and that a step of anybody else
leaves what it has left to write alone. Plans are sequences of unbounded length, so that
"every write of a plan fits its document, and only an import touches the receipts" is
an induction over the plan's length, and over the revisions and Turns of a pack where
the plan is computed by a recursive function. The library's induction principles are
stated with an operator as parameter and cannot be instantiated here; the lemma
`Induction` takes a set instead (a set of numbers that holds 0 and each successor holds
all), from the well-foundedness of finite subsets, and serves the same end.

`ScopesHaveOneRelationship` rests on `IInv` and on a second invariant, `OneOwner`
(until a before-image is lost), for `OneRelationship` alone is not inductive: a plain
method is interrupted between the profile and the registry, another import installs a profile from its own plan,
and an approval's journal, replayed at some later opening, installs the profile it
was written with. So `Owned` says of the committed contents that the registry, the
Turns and the approvals' journals all name the relationship of the profile, and
`Belongs` says of the writes a plain method has left that they are about one
relationship `t`, the one that is there if any is, each allowed only once what it
needs (the profile before the registry, the registry before a Turn) is there or is
written earlier in the same plan. `OwnedPlan` proves that every plan that any
operation computes is like this in the root it was computed from, `OneWriteKeepsOwner`
that doing one write keeps it so, and `OneLostKeepsOwner` that losing an ignorable
removal does; a pack is seen as a whole, by the refinement, so what it writes on
the way needs no owner. `Moved` names the four ways in which a step of anybody
changes the committed contents, and `Turns` what a storage step means to the one
method that may be writing. The proof needs that no relationship is named `Absent`
(`NamesAssumption`): identifiers are nonempty strings in the code.

`StoreContentsProofs` goes on from there. `PinsAreApproved` is for any number of revisions,
decisions and approvals, and says nothing once a before-image is lost. `PinnedIsApproved` alone is not inductive: the aggregate and the
profile are two documents, a journal's images are installed at some later opening by
whoever comes, and between a decision's reading and its writing others write. `Sound`
says of the committed contents (`Base`) that the compilations are `Consistent` (every
Manifest is of a revision that is there and was approved), that every approval's journal
is absent or holds images that are consistent and pin only what they contain (`Sane`),
and that without such a journal the pin is to a Manifest in the compilations (`Agreed`).
`PinInv` adds that whoever is writing `Settles`: its position is in a set of positions
and roots (`Leads`) that its next write, done, done without being counted, or lost when
it may be, never leaves, and in which every root is sound; so wherever the process dies, what it
leaves is sound. Such a set is given plan by plan (`PlainPlanIsSafe`: approval with its
journal, decisions, revocation, opening, the replay of a journal), and an import is sound by the
refinement (`OutcomesAreSound`), the erasure of a scope by `ErasedIsSound`, and a
transactional store because it does a whole plan at once.
It assumes beyond `Setting` that a document that does not
exist is not one that does (`AbsentIsNoImage`).

The last, in the same module, is `PacksAreImportedOnce`. `ImportedOnce` counts in the documents of a
transactional store; what is inductive is `Counted`, of the committed contents: each entry of
a pack is in the timeline as often as the receipts name the pack, with or without
`overwrite`, and a root of the file store, which has no receipts, is not counted. Only an import touches
the timeline or the receipts (`PlainPlansAreOK` proves it of every other plan, for
any decision); an import that finds its receipt leaves both alone, and one that does not
appends the whole timeline and one receipt (`ImportAdds`), at one instant by the
refinement; an erasure empties both. It assumes that the ids of packs are distinct and
that an entry tells its pack and its place in it (`EntriesAreTold`), as MCEngineStore's
packs do: without that the two counts are not about the same imports.

Only model-checked. The provers know no fairness and no `ENABLED`, so liveness stays
with TLC: `EventuallyTerminal` and `Served`. What folds compute is not proved:
`BudgetIsExact`, `NarrativeIsGrounded`, causal orders and projections of `History`,
the closures of `Erasure` and `PersonaGraph`, `ResolutionOrder` and so
`FrozenForGood`; each would take an induction of its own over the fold. Nor are the
other properties of these runs proved: `MattersAreKept`, `SettledStaysSettled`,
`DeliveryIsWhole`, `TiersAreRespected`, `RemovesTheDependents`,
`FrozenPrefixesSurvive`, `NothingDangles`. Not attempted yet: `ExportCloses` of
`EngineStore`, which relates what an export has read of several documents at different
instants to what it ends with, and everything the run `lifecycle` checks.
`VisibleIsNeverLost`, `SuccessLeavesNothing` and `RefusedOnlyTorn` are about single steps,
but what makes a step harmless was done many steps before it, so their invariant has
to say for each position of an execution what lies under every name of its plan;
`HostsFindTheirStore` and `TimelineIsKept` rest on migrations, which are folds. For all five
there are only the small worlds of the run: two executors, two plans, two hosts, one
crash.

## Not modelled, and the plan

Left out by intention: the content of messages, extraction and review; the order
in which `validate_binding` reads single references (what it lets pass is checked
again at the write); SQLite's own durability; compaction inside `Archival` (a
record that disappears under a stalled coordinator) and the reports of `drain()`;
interpretations made after the Manifest of their target was pinned or revoked; the
HTTP server, adapters, vector indexes and the evaluation laboratories.

Next: the proofs listed above as not attempted, in that order, then inductions over the folds.
