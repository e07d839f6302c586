# A verification of the long-term memory service in TLA+

`long-term-memory` keeps named Markdown notes ("memories") for AI agents, per
project, and serves them over MCP and HTTP. It runs in two forms. A *local* server
keeps one Markdown file per memory and a SQLite index beside the files. The *cloud*
form runs on Cloud Run and spreads one memory over three stores that share no
transaction: immutable Markdown objects in a GCS bucket, Firestore documents that
point to them, and a SQLite index in `/tmp` that every lookup goes through and that
is lost with the instance. Around both stand automation (a nightly maintenance job, a
daily curation of shared memories), OAuth, personal access tokens and MCP sessions.

The modules here model these parts as state machines, TLC checks them on small
instances, and TLAPS proves, for every instance, every safety property the runs check,
and that the cloud service implements its abstract specification.

Paths such as `cloud-service.ts:641` are below `src/src/lib/` of the repository
(`memory/`, `storage/`, `oauth/`, ...); `app/` stands for `src/src/app/`, `curator/`
for `src/scripts/curator/`, `docs/` for `src/docs/`.

Contents: 1 the system, 2 the modules, 3 runs and properties, 4 what the models
say about the code, 5 abstractions, 6 proofs, 7 what is only model-checked, 8 not
modelled, 9 what comes next, 10 running.

## 1. The system

| Component | State | Operations | What makes it correct |
|---|---|---|---|
| Cloud memory operations, `memory/cloud-service.ts` | none of its own; one operation in flight per project | `save`, `update`, `linkMemories`, `forget`, `rename`, `reindex`, `applyMutation`, reads and search | an operation happens entirely or not at all; no pointer or row leads to a body that is gone; names stay unique; a rename takes every reference along |
| Firestore metadata, `storage/firestore-metadata.ts` | collections `memories`, `names`, `tombstones`, revisions, operations, settings, projects, members, tokens | one transaction per operation, with its inverse for the compensation | transactions check what they overwrite; one name, one memory |
| GCS bodies, `storage/gcs-markdown.ts` | objects keyed by name and sha256 | conditional create, read, remove | an object is never overwritten |
| SQLite index, `db/schema.sql` | `memories`, `links`, `supersedes`, search tables | one transaction per operation, `reindex` | agrees with the metadata or the files, can be rebuilt |
| Project mutex, `memory/mutex.ts`, `lock/project-lock.ts` | a promise chain per project | `run` | one operation at a time; every operation ends |
| Maintenance mutations, `maintenance/` | settings version, operation records, revisions, link observations | snapshot, apply, `applyMutation`, restore of a revision | a mutation is applied once, to what its author saw, under the current settings, and can be undone |
| Maintenance runner, `curator/run-maintenance.ts`, `maintenance/source-fetcher.ts` | cursor, page, fetched texts, child process, summary | list, snapshot, fetch, propose, apply | it ends; its summary says what it changed |
| Curation, `curation/`, `curator/run-dated-curation.ts` | runs, pages, outcomes, cursor, deferred candidates, restore requests | begin, list page, apply, checkpoint, complete; shared restore | every memory is looked at, nothing is shared twice, across crashes of runner and server |
| OAuth, `oauth/`, `app/oauth/` | consents, codes, grants, access and refresh tokens, rate windows | authorize, exchange, refresh, revoke | a code or refresh token is used once; reuse revokes the family; what is revoked stays so |
| Membership and access, `auth/`, `app/api/projects` | roles per project, personal access tokens | create, add, change role, remove, issue and revoke a token; the guard of every tool | a project keeps an owner; nobody acts without a right |
| MCP sessions, `mcp/` | sessions, turns, pending requests | admit, wait, send, time out, retire | a late answer reaches nobody else; every call is answered |
| Local memory service, `memory/service.ts`, `memory/reconcile.ts` | Markdown files, SQLite | the same operations on files, mutations, reconcile, reindex | files are the truth; nothing acknowledged is lost |

**How they interact.** A tool of an MCP session or a web route passes a guard
(`mcp/context.ts`, `auth/access.ts`) and calls an `...Async` method of a memory
service, which runs the operation under the mutex of the project. In the cloud, it
looks the memory up in SQLite, uploads new objects, runs one metadata transaction and
one SQLite transaction, and removes the objects it replaced; when the SQLite
transaction fails it runs the inverse metadata transaction and removes what it
uploaded. Automation arrives as tool calls too: the maintenance job and the
curation runner are processes elsewhere that read pages, ask a model, and send
proposals, which `applyMutation` commits. MCP requests time out after 30 seconds while
their handlers continue, and Cloud Run may stop an instance at any time, so every gap
between two calls is a place to die.

**What is hard.** Partial failure between stores, and compensations that fail
themselves; a transaction that commits although its caller gets an error; a death
between any two writes and an index rebuilt from what is left; keys that recur because
they are content hashes; proposals about memories that have changed since; runs
repeated from their last checkpoint; tokens rotated twice at once; checks
outside transactions; answers that come late into a session somebody else uses. The
`hazards` of `PROJECT.json` list these at their lines, with the properties that
would notice.

## 2. The modules

| Module | Models | Run from |
|---|---|---|
| `CloudStore` | Firestore `memories` (`mem`), `names`, `tombstones` (`tombs`) and the bucket (`objs`), with the transactions of `FirestoreMetadataStore` as operators: what each needs in order not to throw (`...Accepts`) and what it writes | extended by `CloudMemory` |
| `CloudMemory` | the index (`idx`), the instance (`boot`) and the operation in flight (`op`); one action per external call of every user operation, with its failure and the compensation | `MCCloudMemory` |
| `MemoryCatalogue` | the abstract specification: entries that change by one whole operation, which is then kept or taken back entirely | refined by `CloudMemory` |
| `CloudReads` | lookups and searches beside the writers: rows first, bodies later | `MCCloudReads` |
| `Maintenance` | `MaintenanceService`, the restore route, `applyMutation` and its transaction, beside users, settings and time | `MCMaintenance` |
| `SourceFetcher`, `MaintenanceRunner` | the maintenance job with its fetches, its child process and a server that may misbehave | `MCMaintenanceRunner` |
| `Curation` | the scheduled runner, `CurationService`, the cursor, deferred candidates and restore requests | itself |
| `CurationLedger` | the two stores behind curation, given the same calls in any order | `MCCurationLedger` |
| `OAuth` | consent, code, token pairs, rotation, revocation and rate limits over both stores | `MCOAuth` |
| `Access` | members, projects, personal access tokens and the web handlers that change them, call by call | extended by `McpRequests` |
| `McpRequests` | MCP requests with their sessions, turns, time-outs and late answers, beside the handlers of `Access` | `MCMcpRequests` |
| `LocalMemory` | files and SQLite of the local service with the process dying between any two writes | `MCLocalMemory` |
| `Cloud_proofs` | theorems in three parts: the bodies of `CloudMemory`; its names, its index and the refinement of `MemoryCatalogue`; the readers of `CloudReads` | TLAPS |
| `Maintenance_proofs`, `MaintenanceRunner_proofs`, `Curation_proofs`, `CurationLedger_proofs`, `OAuth_proofs`, `McpRequests_proofs`, `LocalMemory_proofs` | theorems about the module each is named after; those about `Access` are with `McpRequests` | TLAPS |

The models compose where the code does. `CloudReads` extends `CloudMemory` and
`McpRequests` extends `Access`: both parts step in one behaviour. `Maintenance` takes
user operations as single steps because `cloud_catalogue` shows them to be all or
nothing; `Curation` takes promotions as single steps with a failure, which is what
`maintenance` shows of `applyMutation`; `MaintenanceRunner` sees of the server only
what its answers say.

Lines marked `mutant` in a module are definitions no specification uses. Each is a
plausible mistake in the code; substituted for the definition below it, it must
break the property that `PROJECT.json` names.

### CloudStore, CloudMemory, MemoryCatalogue

* **A body is its key.** The object key is `<prefix>/<project>/memories/<name>/<sha256>.md`,
  so name and content decide it. `Content` keeps the id, the name, the list of
  references and a `stamp`, which stands for `updated_at`: two bodies are the same
  object exactly when all four agree. The list is `links`; `supersedes` goes through
  the same statements of `rename` into a table with the same key. `update` and the
  target of a rename get a new stamp; the references a rename rewrites keep theirs,
  so renaming a memory there and back brings an old key back.
* **A reference list** is a set plus whether it repeats a name: `links.map(...)` of a
  rename may make a duplicate, and the primary key of table `links` refuses the row.
* **A memory document** (`Doc`) is its pointer and its own copy of the links; `names`
  holds one body per name document.
* **`op`** is `previousRecord(s)`, the record(s) to commit, the objects still to write
  or remove, and where the function stands. `KeyedMutex` serialises the operations of
  a project, so one record is enough. `linkMemories` calls `update` under the lock it
  already holds, so it is one more way to begin an update.
* **`boot`** is `readyPromise`: pending, fulfilled, rejected. A reindex is one step: the
  one at start-up runs before anything else may, and the tool holds the mutex.

| Action | Code |
|---|---|
| `Boot`, `BootFails` | `autoReindex` in the constructor, awaited by `index()` |
| `Reindex` | `reindexUnlocked` for one project, unreadable objects skipped |
| `BeginSave`, `BeginUpdate`, `LinkMemories`, `BeginForget`, `BeginRename` | everything up to the first external write: lookup in SQLite, reads, checks, the records |
| `Write`, `WriteFails` | `markdown.write` with `ifGenerationMatch: 0`; in `save` and `update` it stands outside the `try`, in `rename` inside |
| `CommitMetadata`, `CommitRejected`, `CommitAckLost` | `putMemoryIndex`, `replaceMemoryIndexes`, `deleteMemoryIndex` |
| `CommitIndex`, `IndexFails` | the SQLite transaction |
| `Compensate`, `CompensationFails`, `CompensationAckLost` | `removeMemoryIndex`, `restoreMemoryIndex`, `restoreMemoryIndexes` |
| `Discard`, `DiscardFails` | removal of the objects written, with a tombstone when it fails |
| `Sweep`, `SweepFails`, `NothingToSweep` | removal of the objects replaced; only a rename clears their tombstones |
| `Crash` | the instance is killed: index and operation are gone |

`GiveUp` and `Finish` name what the `catch` blocks of the four functions have in common,
and the conditions on `op.kind` where they differ (`forget` has nothing to discard,
`update` and `forget` sweep without a tombstone).

### CloudReads

`read` is the read in flight: rows selected, ids still to look up, rows to walk from.
`Get`, `Search`, `ListByType`, `SearchByTag` and `FindRelated` select rows of `idx` at one moment;
`Walk` and `LookUp` ask the index again later (`findRelated` level by level,
`searchByTag` by `get` for each summary); `Hydrate` fetches a body, and
`Promise.all` rejects with the first that is gone. `shown` remembers how young an
answer about one memory has been, `calm` that nothing happened beside the read. The
ranking of a search decides the order and the cut, which the model leaves open: any
set of rows may be the result.

### Maintenance

A body is its own hash and key again. `Snapshot` records link observations
(`observeLinkIfAbsent`, `clearLinkObservation`); `GracePasses` is the 30 days; `Propose`
makes a request from what the catalogue and the settings are now, and `Repeat` sends
any request again at any time. On the server `Screen` is what `MaintenanceService.apply`
and the restore route check outside the mutex, `Begin` what `applyMutationUnlocked`
checks under it, `Upload` the bodies and the revision objects one by one, `Commit`
the transaction `commitMemoryMutation` with every check it repeats
(`CommitOutcome`), `WriteCache` and `CacheFails` the SQLite transaction and the
reindex that replaces it, `Recheck` the question after a failed commit,
`ClearObservation` the last call of a prune. A rebuild of the index (`Rebuild`) skips a body
it cannot read and still succeeds. `UserSave`, `UserEdit`,
`UserForget` and `SaveSettings` come between any of them. A project is `shared`
or not; the shared one is patched, restored and added to, the others also
archived, merged and pruned.

### SourceFetcher, MaintenanceRunner

`Visit`, `Resolved`, `Redirect`, `Response`, `Data` and `End` are the events of one
fetch, `Break` and `FetchTimer` whatever ends it early; the first to settle counts. The
runner has one action per await of `runMaintenance`: `List`, `Snapshot`, `Fetch` and
`Keep` per source, `Spawn` and the events of the child, `Apply`, `Refused` and
`ApplyFails` per proposal, and the four ways on: `NextPage`, `PageRepeats`, `LastPage`,
`ProjectFails`. The server may hand out any cursor, and applies a change when the
settings are as listed and the memory as on the page; owners change both. It keeps a record
of the proposals it applied (`recorded`), so that one that comes again is answered
`already_applied`, and another with the same operation id `conflict`. The timer and the output
limit only tell the child to stop (`ChildTimer`, `ChildWrites`); what goes on is its own end.

### Curation, CurationLedger

`Curation` steps by tool call, since the deployment serves one request at a time
(`.github/workflows/cloud-run.yml:82`). A runner (`pc`, the page in hand, the targets it was
shown, the document of its run) settles restore requests, begins a run over the window
from the cursor to now, lists deferred candidates and then the window page by page,
has memories promoted, records the outcomes of the page, and completes the run,
which moves the cursor. Any call may fail with or without its effect, and a server
that dies inside one leaves the first of its writes. A proposal says one of a few `Texts`, cites
items of its page and may nominate a shared memory; its operation id is all of it. Shared
memories have revisions (`revs`), and a restore puts back the text of one. `by` is history: it
remembers whether a promotion or a restore brought a shared memory its text.

`CurationLedger` has both stores side by side, each call as a function from a ledger to
a ledger and an answer (`LocalSavePage`, `FirestoreSavePage`, ...), and plays every call
to both: repeated, out of order, for the run of somebody else. Firestore compares a stored page
with `JSON.stringify`, so a page with items may not be known again (`SameText`): its
stored fields come back in an order of their own. Page tokens are signed,
so only tokens that were handed out come back.

### OAuth

`pairs` are access and refresh token together, `grants` come into being with the first
pair. A handler is a sequence of store calls; handlers interleave between calls and may
stop after any. `ConsumeConsent`, `CreateCode`, `ConsumeCode`, `IssueTokenSet`, `Rotate`
are one transaction each; `Look` and `Mark` are the unprotected read and update of
`revokeAccessTokenByHash`; `RevokeFamily` and `RevokeGrant` go through
`RevokeIndexed` on Firestore, where a read after a write throws, and through one
statement per table on SQLite. `presented` and `cause` are history.

### Access, McpRequests

A request has a `stage` and an `answer`. `Access` steps through the web handlers:
`RequireOwner`, `LookForExisting`, `OwnerRemains1` and `2`, then the change, each a
store call of its own. The two stores differ in what a missing row does
(`AddAccepts`, `SetRoleAccepts`). `McpRequests` admits a call (`McpArrive`: the token
is found usable), gives it a session of its own or a cached one (`Enter`), lets
it wait for its turn (`line`), sends it (`Send`), and runs the tool (`Check`: the guard
of `mcp/context.ts`; `Serve`; `Reply`), while `Timeout` may answer first and
retire the session. All requests have the same JSON-RPC id, because every client counts
from one. `seen` collects which of "its credential was good" and "its user had the
role" have been true since a request arrived; both are said apart from the guards.

### LocalMemory

`files` maps names to texts, `rows` is the index, `bodies` and `revs` are the kept texts
and their rows, `job` the operation that holds the lock and what it still has to write.
One write is one step: a file is replaced by a rename, a SQLite transaction commits or
does not. `Restart` is the death of the process at any of them followed by
`openDefault`, which reconciles. `Reconciled` reads the files in the order of their
paths under savepoints, as `reconcile` does. An archived memory keeps its links in the file and has
none in the index (`RowLinks`), so its list is never refused.

The operations of users do not wait for anything and run as one turn of the event loop; other
things happen between their steps only if the process dies. A request of maintenance does wait
while it keeps a text (`service.ts:741`), and between a refused commit and the rollback. There the
`reindex` tool, which takes no lock, can run: `ReindexRuns` says when. What the request has
written by then (`Ahead`) gets its rows, and `stale` remembers those memories in case the request
is taken back. The deletion of the rows and the reconcile are two transactions, so a death can also leave
no rows at all (`NoRows`).

## 3. Runs and properties

| Run | Instance | What may go wrong | Checks |
|---|---|---|---|
| `cloud_catalogue` | 3 names, 4 operations, lists of any one name | every failure that leaves the stores in agreement (`CleanFaults`) | `ImplementsCatalogue`, `NamesMatch`, `IndexAgrees` |
| `cloud_recovery` | 3 names, 4 operations, references to one memory | every failure of metadata and index, unknown commit outcomes included (`RecordFaults`) | `TypeOK`, `IndexReadable`, `NameOwned`, `NoStolenName`, `Unique`, `OperationsReturn` |
| `cloud_reads` | 3 names, 4 operations, references to one memory, a reader beside the first 3 (`Alone`) | all but an unknown commit outcome (`KnownFaults`) | `PointersResolve`, `QuietReadsSucceed`, `ReadsGoForward` |
| `maintenance` | 2 memories, 3 names, 2 operation ids, 2 handlers, 2 requests, 2 settings versions, 1 body skipped by a reindex | writes, commits with known and unknown outcome, cache, reindex as a whole or of one body, crash | `ReplacedKept`, `AppliedOnce`, `UserEditWins`, `PruneKeepsLiveLinks`, `SuccessIsVisible` |
| `maintenance_runner` | 2 projects, 2 cursors, 1 source, 3 proposals with 1 operation id, 1 change by an owner | every call, every timer, a child that is silent or writes for ever | `Accounted`, `RunEnds` |
| `curation` | 1 memory with 2 versions, 2 texts, a limit of 2 shared memories, 1 restore request, 3 promotions, 3 dates | lost answers, crashes, failing mutations | `NothingPassedOver`, `OneCopy`, `EveryMemoryIsReached`, `RequestsSettle` |
| `curation_ledger` | 2 runs of 2 pages, 1 manual day, 1 request, both stores | calls in any order | `StoresAgree`, `AdvancedRunIsWhole`, `WindowsTile` |
| `oauth` | 2 consents, 2 handlers, both stores, 2 rate windows | handlers that stop, repeated transactions | `OneConsentOneCode`, `OneLiveRefresh`, `EndedForGood`, `RevokedForCause` |
| `local` | 2 memories, 3 names and 2 writes of each or 2 names and 3 writes (`Narrow`), 2 maintenance requests, 1 death | death at any write, refused rows, reindex inside a request | `IndexAgrees`, `NothingLost`, `ForgottenStaysGone`, `OriginalsKept`, `RenameFollowed` |
| `access` | 2 users, 3 requests from one of 5 meetings | hanging tools, overlapping handlers | `OwnerRemains`, `ActsOnRights`, `OwnAnswer`, `RevokedStaysRevoked`, `EveryCallAnswered` |
| `oauth_revoke` | 1 consent, Firestore, 1 handler | nothing | violates `RevocationRevokes` |
| `local_reindex` | 2 memories, lists of two names | nothing | violates `ReindexIsComplete` |

What the properties mean:

* **`ImplementsCatalogue`** is refinement: with `cat <- KeysOf(mem)` and `prior <-` what a
  compensation would bring back, every step of `CloudMemory` is a step of
  `MemoryCatalogue` or changes nothing there. A crash between commit and index keeps
  the change; a failed index transaction takes it back whole; a rename rewrites
  exactly the references of the other memories.
* **`NamesMatch`**, **`IndexAgrees`**: name documents are exactly those of the memories,
  also in the middle of a compensation; between operations the index offers exactly
  the committed memories SQLite accepts.
* **`PointersResolve`**, **`IndexReadable`**, **`NameOwned`**, **`NoStolenName`**, **`Unique`**:
  also after compensations that failed, no document and no row leads to an object that
  was removed, memory and name document stay a pair, and a name the index offers for
  one memory is never given to another although `save` and `rename` look it up in an
  index that may be stale.
* **`OperationsReturn`**: no combination of failures keeps the mutex for ever.
* **`QuietReadsSucceed`**, **`ReadsGoForward`**: a read fails only when a change ran
  beside it, however badly earlier changes ended; and a client never sees a memory go
  back, not even when its change is compensated or the index is rebuilt, because the
  index moves last.
* **`AppliedOnce`**, **`UserEditWins`**, **`PruneKeepsLiveLinks`**: repeated and overlapping
  requests take effect once, on the bodies that were judged, and no link is pruned
  whose memory is there at that moment. **`ReplacedKept`**: what automation replaced can
  be restored as long as the memory exists, through any later request's cleanup.
  **`SuccessIsVisible`**: whoever is told of success finds the change in the index or, where a
  rebuild could not read its body, no row of that memory: never the state before.
* **`Accounted`**, **`RunEnds`**: the summary of the job counts as applied the changes made and the
  answers "applied before", and without a reported failure all of them but those answered as
  refused; the job ends in whatever order cursors come, with every call unanswered, and with a
  child that does not end by itself.
* **`NothingPassedOver`**, **`OneCopy`**, **`EveryMemoryIsReached`**, **`RequestsSettle`**: behind
  the cursor every active memory has been decided about or is deferred; no text is
  shared twice, unless a restore brought one of the two back; and if calls do not fail for ever everything is reached.
* **`StoresAgree`**: the same calls leave both curation stores with the same ledger, and get the
  same answer but for a page that is stored already: SQLite refuses it once the snapshot is
  complete, and Firestore where it does not know the page again. Neither changes the ledger.
  **`AdvancedRunIsWhole`**, **`WindowsTile`**: the cursor moves only over runs whose pages
  follow one another to the last and have an outcome for each item; the windows it
  moved over lie end to end.
* **`OneConsentOneCode`**, **`OneLiveRefresh`**, **`EndedForGood`**, **`RevokedForCause`**: no
  interleaving turns a consent into two codes or forks a login; in the local store
  nothing of a revoked grant becomes usable again; and no login is lost without a cause.
* **`OwnerRemains`**, **`ActsOnRights`**, **`OwnAnswer`**, **`RevokedStaysRevoked`**,
  **`EveryCallAnswered`**: see section 1; `OwnerRemains` excepts changes of members that
  overlap (section 4).
* **`NothingLost`**, **`ForgottenStaysGone`**, **`OriginalsKept`**, **`RenameFollowed`**, and
  `LocalMemory`'s **`IndexAgrees`**: what was reported as done survives later failures
  and deaths; index and files agree again between operations; the text a mutation
  replaces is on disk at every moment. Excepted are the memories in `marred`, which an
  interrupted rename has left in two files or an operation in a file no reindex accepts, and for
  `IndexAgrees` the memories in `stale`, whose rows a reindex made of a text that was taken back,
  until their rows are written again.

### Bounds

* *Cloud.* Three names and four operations are the smallest instance with a rename of a
  referenced memory, a rename back that makes an old key recur, a rename that runs into
  the object of an earlier failed one, and a name taken over by a second memory. Input
  lists are single names; lists of two arise through `LinkMemories`, lists with a
  duplicate through a rename. `MaxOps` bounds operations started, never failures,
  crashes or reindexes. A rename needs a free name, so a memory, one that refers to it and a
  rename that takes the reference along take three names and three operations; the fourth
  renames back, and brings the old key of the reference to life again. The constraint
  `Alone` ends a behaviour of `cloud_reads` at a fourth operation that meets, or follows, a read. There and in
  `cloud_recovery` all references are to one memory.
* *Maintenance.* `MaxClock` 4 leaves two changes after the two initial memories, enough for
  a user's edit or save between a judgement and its effect; two requests share or do not share an
  operation id; two settings versions give a switch-off. The kinds of requests are those
  that meet a hazard: merge (which archives and patches), prune and restore; patch,
  restore and create on the shared project. Three names leave a free one for a user's memory and a
  create; one reindex skips at most one body (`MaxSkipped`).
* *Runner.* Two projects show that one failing does not stop the other, two cursors a page
  that comes back after another, one chunk of text and a page limit of none a source that does not fit.
  Three proposals in the run: two of one child output that are the same or share their
  operation id, and one after them.
* *Curation.* One memory with two versions is edited, archived or forgotten
  between any two calls of the run, over three dates. Two texts and three promotions write over a
  shared text, share it a second time, and restore the first. A page of deferred candidates is followed
  by one of the window; a window that takes several pages is not in this instance, but
  `NothingIsPassedOver` is proved for every page size. Two runs of two pages in the
  ledger are the smallest pair that can overlap and be incomplete.
* *OAuth.* Two token requests per window and two windows: two logins exchanged and
  refreshed, or one refreshed three times, with a revocation in each window.
* *Local.* Three names: a rename of a memory that is referred to, to a name that the reference has
  too, and names that a creation takes up again. Three writes of a memory: a request
  that archives or overwrites, and one that restores. Both at once are too many states: the
  constraint `Narrow` follows a behaviour beyond a third write only while nothing has, or lists, the
  third name. Two requests of maintenance, one death, at every
  write of every operation, and any number of reindexes.
* *Access.* Three requests of one meeting: a change of role beside two others, a token used
  while it is revoked, two tools in one session behind a hanging one. Each meeting is a set
  of requests that concern each other.

Names, ids and handlers are only compared, so the safety runs `cloud_catalogue`,
`maintenance`, `oauth` and `local` use symmetry; runs with liveness do not. Deadlock is
checked except where the system may stop: `maintenance`, `maintenance_runner`,
`curation` and `access` come to an end when their requests or dates are used up.

### Fairness

* `CloudMemory.FairSpec`: weak fairness of `OpStep` and of the start-up. Every call to a store
  resolves or rejects: the Google clients have deadlines, SQLite is synchronous. Nothing is assumed
  of clients, of `Crash`, or of which outcome a call has.
* `MaintenanceRunner.FairSpec`: weak fairness of `RunStep`, in which every call that
  waits for somebody else is represented by its timer: 30 s per call, 10 s per fetch, 5 min for
  the child. `ToldEnds` is an assumption about the child, not in the code: told to stop, it ends. A
  child left alone need not end, and no timer ends one that ignores `SIGTERM`. The cursors are
  finitely many, because they are ids of memories in ascending order (`cloud-service.ts:359`).
* `Curation.Spec`: time goes on and the schedule starts the runner again and again. The two
  liveness properties except behaviours in which calls fail for ever.
* `McpRequests.Fairness`: a lookup in the store answers and the SDK's timers go off. Nothing
  is assumed of tools, so that a tool that hangs is among the behaviours.

## 4. What the models say about the code

Two disagreements with the documents are runs that TLC must find violated:

1. **A revocation on Firestore may revoke nothing** (`oauth_revoke`).
   `revokeIndexedCredentials` (`oauth/firestore-store.ts:249-257`) reads each credential after
   it has written the one before, and a Firestore transaction rejects a read after a write:
   with two credentials to revoke, nothing is revoked. Within a family (reuse of a refresh
   token) access tokens are passed over, because their index entries carry no family.
   `docs/superpowers/specs/2026-09-21-mcp-oauth-codex-login-design.md:119` promises access token,
   refresh token and unused code. The tests' fake Firestore accepts reads after writes.
2. **A reindex may drop a memory** (`local_reindex`). `rewriteInboundReferences`
   (`memory/service.ts:528`) can put a name twice into a list; `reconcile.ts:119-123` then skips
   the file. The `reindex` tool says that it rebuilds the index from the files.

Other observations made while modelling; each is in the models as the code has it, and the
properties above are stated so that they hold beside it:

* *Lost commit answer.* `metadataCommitted` is set after the transaction resolved. When it
  commits and the caller gets an error, `save`, `update` and `rename` take the commit for
  refused and remove the body that the committed document points to (`cloud-service.ts:330`).
  `applyMutationUnlocked` asks `checkOperation` in that situation. `PointersResolve` is
  therefore checked and proved under known outcomes; that the index never leads to a missing
  body is checked and proved with lost answers too.
* *Repeated transaction.* `commitMutation` answers `already_applied` when the SDK repeats a
  transaction that had committed; the service then removes the objects it has just
  committed (`cloud-service.ts:1129`). The same happens when commit and `checkOperation` both fail
  (`:1146`). The faults `retry` and `check` of `Maintenance` stand for these; under them
  `SuccessIsVisible` fails, and the run leaves them out.
* *Rebuilt, but not all of it.* When the cache fails, the change is reported as applied after a reindex
  that may have skipped its body (`cloud-service.ts:960`, `:1136`); the same for a repeated request
  (`:1014`). The index then has no row of the memory until a later reindex can read it.
  `SuccessIsVisible` admits no row, and never an older one.
* *Undo of a rename.* `previousRecords` of the references is built from the memory after its
  links were rewritten (`cloud-service.ts:695`), so a compensation restores the old pointer with
  the new links.
* *Garbage.* `update` ignores a failed removal and leaves no tombstone (`:589`), where the design
  document (`docs/superpowers/specs/2026-09-19-cloud-run-firebase-gcs-firestore-design.md:53`) promises one.
* *Start-up.* A reindex that fails once at start-up rejects `readyPromise`, which every later
  operation of the instance awaits (`:229`).
* *Forget.* `deleteRevisions` stands outside every `try`: when it fails the memory is gone and the
  caller is told that forgetting failed (`:630`).
* *Listings.* Pages for automation come from Firestore and may show a change that its operation takes back.
* *Maintenance summary.* A mutation that is committed, but whose cache and reindex fail, is
  answered as a tool error, and the job counts it as skipped (`run-maintenance.ts:143`,
  `docs/memory-automation.md:80`). `Accounted` excepts it by name. A proposal that is twice in one output of
  the child is applied once and counted twice, because `already_applied` counts as applied
  (`run-maintenance.ts:140`).
* *The child of the job* gets `SIGTERM` and nothing stronger, and the promise settles on its
  `close` or `error` only (`run-maintenance.ts:227-249`): a child that ignores the signal keeps the job running.
* *A restore brings a second copy.* `prepareMutation` puts back the text of a revision
  (`maintenance/mutations.ts:129-141`) and nobody looks whether another shared memory has that text by now.
  From then on every proposal of that text is a conflict (`curation/service.ts:355`), until one of the two
  is changed or forgotten.
* *Restore requests.* A run that dies between the restore and its confirmation reports it as
  failed, `memory_changed`, in the next run (`curation/restore.ts:52`, `:68`;
  `docs/memory-automation.md:82`).
* *Archived and restored memories* drop out of the deferred candidates; a promotion whose shared
  memory was forgotten since is answered as promoted with an id that is gone (`curation/service.ts`).
* *The two ledgers.* A page repeated after the snapshot is complete is accepted by Firestore
  and refused by SQLite. Firestore compares pages by `JSON.stringify` (`curation/firestore-store.ts:269`), hence
  by an order of fields that a document need not keep: it may refuse a repeated page with items, which
  SQLite accepts. A page without items has nothing whose order could change.
* *Refresh.* A rotation that the SDK repeats after it committed is taken for reuse and revokes the
  family; `verifyAccessToken` does not look at the grant.
* *Owners.* `assertOwnerRemains` checks, and the change follows without a transaction
  (`members/route.ts:58`); overlapping handlers can remove the last owner
  (`docs/post-mcp-setup.md:20`). Cloud Run serves one request at a time, so this needs a deployment in
  progress or a local server. `setMemberRole` of a user who is no member answers 200 on SQLite and
  throws on Firestore.
* *Sessions.* A failing `acceptInitialize` leaves a rejected promise nobody handles (`mcp/session.ts:110`).
* *Local.* A link of a memory to itself is followed by a rename in the index and not in the file
  (`service.ts:524`); texts kept by a mutation that was interrupted stay after a forget.
* *Reindex beside a request.* The reindex tool does not take the project lock (`mcp/tools/meta.ts:26`). Run
  while a merge keeps the text of its source, or between a refused commit and the
  rollback, it makes rows of texts that are then taken back. The commit of the merge sees the hash of the
  target changed and is refused; the rows stay until the memory is written again, reindexed,
  or the process restarts, and updates through maintenance are conflicts until then. If the
  index refuses the list of the text it meets, the memory has no row.

## 5. Abstractions

* *One project* in every module: nothing in the modelled operations reads another one; names,
  mutex and keys are per project. The shared project is a value of `shared` in `Maintenance`.
* *One instance* of the cloud service: it is deployed with at most one and concurrency 1. OAuth and
  Access interleave their handlers all the same, because their state is in Firestore and two
  revisions overlap while one replaces the other.
* *Bodies carry no text.* Validation and secret scanning happen before the first lookup and refuse
  the call without a step. Full-text search, tags and the graph are not modelled.
* *A call in flight* when an instance dies has happened or not; none arrives after the next
  instance has started. Objects removed with `Promise.all` are removed in any order.
* *Archived memories* exist in `Maintenance`, `Curation` and `LocalMemory`; in `CloudMemory` and
  `CloudReads` every memory is active.
* *CloudReads* leaves out listings from Firestore, which change nothing and lead to no body.
* *MaintenanceRunner*: a page holds one memory, a hash is right or wrong, text is counted in chunks. What a
  proposal says is settled when it is looked at, because nothing depends on it before.
* *Curation*: runs over dates chosen by hand never move the cursor and are in the ledger only; the
  documents of runs that were given up are left out, since nobody knows their ids; dry runs write
  nothing.
* *OAuth*: one user, one client. PKCE, redirect checks, the resumed authorization and the expiry of access
  tokens only refuse calls.
* *Access*: one token per user; expiry is left out. Touching a token is merged with entering the
  line, `initialize` with sending. Who signed in is Firebase's.
* *LocalMemory*: SQLite fails where a key refuses a row, not arbitrarily; nobody edits files by hand.

## 6. Proofs

Eight modules hold the theorems; `PROJECT.json` lists them with the property each states. They hold
for every value of the constants that the `ASSUME`s allow, hence for any number of memories,
names, handlers, requests, users, operations, crashes and failures. Every `TypeOK` that a proof needs
is part of its inductive invariant. A theorem that excepts a fault names it in its hypothesis; the
fault sets of the runs are given in section 3.

| Module | Theorems | Faults excepted |
|---|---|---|
| `Cloud_proofs` | `TypeCorrect`, `IndexAlwaysReadable` | none |
| | `BodiesStay`, `PointersAlwaysResolve` | `commitAck` |
| | `NamesStay`, `NamesOwned`, `NamesNotStolen`, `AlwaysUnique` | none |
| | `CatalogueStays`, `NamesAlwaysMatch`, `IndexAlwaysAgrees`, `CatalogueImplemented` | `commitAck`, `restore`, `read` |
| | `NothingFallsBehind`, `OrderStays`, `AnswersGoForward`, `QuietReadsAlwaysSucceed` | none |
| `Maintenance_proofs` | `BaseStays`, `MaintenanceTypes`, `AppliesOnce`, `UserEditsWin`, `PrunesKeepLiveLinks` | none |
| | `KeptStays`, `ReplacedStaysKept`, `SuccessAlwaysVisible` | `retry`, `check` |
| `MaintenanceRunner_proofs` | `SummaryAccounts` | none |
| `Curation_proofs` | `BaseStays`, `CurationTypes`, `NothingIsPassedOver`, `OneCopyAlways` | none |
| `CurationLedger_proofs` | `StoresAlwaysAgree`, `AdvancesAreWhole`, `WindowsAlwaysTile` | has no faults |
| `OAuth_proofs` | `ConsentGivesOneCode`, `GrantsNeverFork`, `RevocationIsFinal`, `RevocationsHaveCauses` | none |
| `McpRequests_proofs` | `RequestTypes`, `RightsCorrect`, `AnswersAreOwn`, `TokensStayRevoked`, `OwnersCorrect` | has no faults |
| `LocalMemory_proofs` | `LocalTypes`, `IndexFollowsFiles`, `AcknowledgedStays`, `ForgottenForGood`, `OverwrittenIsKept`, `RenameIsFollowed` | none |

The excepted faults are those under which the property is false of the code (section 4): a
commit whose answer is lost (`commitAck`); a compensation that fails (`restore`) and a body that
cannot be read during a reindex (`read`), after which index and metadata differ until the
next reindex; a transaction repeated after it committed (`retry`) and a question about it
that fails (`check`).

### CloudMemory: bodies

`PointersResolve` is not inductive: a removal could hit a live key unless one
knows what `todo` holds. `BodiesInv` adds

* `Shape`: before the index moves, `Replaced` are rows of the index, and replaced and
  committed keys belong to the same memories;
* `StampsOrdered`: nothing live is younger than `clock`, and while an operation uploads,
  nothing live is as young as its fresh key. This covers the one object a rename may discard
  without having written it;
* `Uploaded`: what was uploaded exists and nothing leads to it yet. An upload establishes it
  because `ifGenerationMatch: 0` refuses a key that exists, and every live key exists;
* `RemovesOnlyDead`: what a cleanup will remove, nothing leads to. The commit establishes it
  for replaced keys (`CommitKeys`), the compensation for the committed ones (`RestoreKeys`): a
  document has one pointer, the two sets have the same ids, and they are disjoint because
  only the replaced ones are rows.

`EndedBodies`, `CleaningBodies` and `MovingBodies` say once what a step to the end, to a cleanup
or to the next call must keep; each action is then one step.

When the answer of a commit is lost, pointers may lead nowhere, and what holds is said of rows
alone: in `RowsInv` what was uploaded exists and has no row yet, and what a cleanup will remove
has none. A row is only made for a body that exists, by the index transaction or by a
reindex, so no pointer has to be relied on; `Shape` and `StampsOrdered` hold as before.

### CloudMemory: names, index, refinement

`NamesInv` holds under every fault. `save` and `rename` look a name up in an index that may be
stale, so that a name is not stolen depends on the transaction, whose precondition reads the
name document. The invariant says of the operation in flight (`PlanKept`) which rows it was planned
from, of ids and stamps (`IdsOrdered`) that a new one is younger than all there are, and of documents
and name documents (`Ownership`) that each name document is of a memory that is there and the other way
round. Four lemmas (`PutKeepsOwnership`, `DeleteKeepsOwnership`, ...) show that each transaction
keeps `Ownership`, whatever failed before.

`CatalogueInv` says what the index shows: `Offered`, which is the metadata, or while a change may
still be taken back, the metadata with that change undone. `CatalogueImplemented` maps `cat` to
`KeysOf(mem)` and `prior` to what a compensation would bring back, and goes through the steps: a
commit is `Created`, `Edited`, `Deleted` or `Renamed`, the index transaction or a death between
the two is `Keep`, a compensation is `TakeBack`, and everything else stutters.

### CloudReads

`AheadInv`: no document, and no body an operation is about to commit, is older than the row of its
memory. So the index never goes back, although compensations and reindexes write old bodies;
`ReadOrder` carries this over to rows a reader holds and answers it gave. `CalmInv` says that
a read beside which nothing happened has rows that are still there, whose bodies exist by
`RowsInv`.

### Maintenance

`BaseInv` is types, the mutex (`Held`: one handler at most holds it, and just then a job is in
flight) and `Counted` (an operation that took effect is on record, once). `UserEditWins` and
`PruneKeepsLiveLinks` are action properties: of all actions only `Commit` can violate them,
and `EffectIsCommit` reduces them to what `CommitOutcome` repeats inside the transaction.
`KeptInv` relates the job to the stores: it prepares a revision for each body it replaces,
and until its transaction commits, its bodies and revisions are its own, because keys contain a stamp that
nobody else was given; so the cleanup of one request never removes what another one keeps.

### MaintenanceRunner

`AccountInv` says of every moment what `Accounted` says of the end: what the summary counts as applied
is no more than the changes made and the answers "applied before", and as long as it reports no
failure it is all of them. A call that fails may have been executed, so it moves `done` or not, but
then `failed` is no longer 0; `CountedStep` says once what each of the three counters may do to the
server's.

### Curation

`CoverInv`: while a run reads its pages, a memory of its window has been decided about or deferred, or
is among the outcomes of the page in hand, or comes after the page (`Ahead`). A page shows
the memories with fewer than `PageSize` predecessors in the order `(created_at, id)`, so
`LeftOutComesAfter`, that what a page leaves out comes after all that is on it, is a comparison
of cardinalities. Users put memories at the end of time only, behind every window (`UsersAge`).
`CapsWait` says that what the cap on shared memories kept out has been taken care of. `OneCopy` needs
nothing but types to be inductive: a promotion takes an exact copy for its target and gives up
where there are two (`ProposalsKeepCopies`), and what a restore brings is marked as such
(`RestoresKeepCopies`), a mark that only a change of the text takes away.

### CurationLedger

The invariant is that both ledgers are equal and that one of them is sound (`LedgerInv`): counters
count pages, the last page ends the snapshot, a completed run has outcomes for all of them, and
the windows of the runs that moved the cursor lie end to end up to it. Equality is what makes the proof
short: each call is shown to leave both stores the same - a stored page that only one of them
refuses changes neither - then to keep one ledger sound.

### OAuth

Three invariants for the three steps of a login. `ConsentInv`: a consent with a code is closed, and
at most one handler is about to make its code. `IssueInv` and `PairInv`: a grant comes into
being with its first pair, which at most one handler is about to issue, and has one refresh
token to go on with. `CauseInv`: whoever is about to revoke has a reason. Rows are numbered by
cardinality (`Numbered`), for which the proofs cite the library's facts on finite sets.

### McpRequests and Access

`SessionInv` ties a request to its session: who waits is in the line, who was sent is at
its head, and a tool that outlives its request finds the context as it was because its session
is closed. `AnswersAreOwn` follows. `RightsInv` says that what a handler has come past has been true
since the request arrived. `OwnersInv` says that as long as no two changes of members overlap, a
change that is about to take the role of an owner leaves another one; `TwoOwners` takes that from
the count of owners in `assertOwnerRemains`.

### LocalMemory

`LocalInv` says where an operation is and what each file and row is meanwhile.

* *One memory.* `Settled`: it has no file and no row, or one file, which the index can hold, and
  a row that matches it; a stale memory may have a row without a file, or one that says
  something else. Between operations all memories are settled but the marred ones: those
  an interrupted rename left in two files, and those in a file whose list of links the
  primary key of table `links` refuses. `IndexAgrees` follows.
* *A reindex in the middle of a request.* What it makes of the rows is what a restart
  would (`AfterReconcile`, from no rows, `NoRowsLead`): right for what is in the files. The files that are
  `Ahead` are those of changes already written (`AheadIs`), and just these memories become
  stale, so the others stay settled and the changes not yet written stay as they were (`ReindexDuring`).
  Whatever writes the row of a memory ends its staleness.
* *One change.* An edit, a save and a mutation are lists of changes. `Untouched` and `Written` say what
  file and row of a change are before and after its write; `IsWritten` says which changes are
  written, by the step the job is at. A rollback goes backwards over the same list, so that what it
  has undone is `Untouched` again. A change of a file is undone to a text that is at least as
  new as what was acknowledged (`Edits`), hence `Safe`, from which `NothingLost` and
  `ForgottenStaysGone` follow.
* *A rename.* After its commit the index has followed it and the files have not.
  `Follows` says that a row has the links of its file with the new name put for the old one; this
  holds for every memory, whether or not its file has been rewritten, because putting the name twice
  is the same as once. That no row lists the old name any more is true from the commit on
  (`Renamed`), and the rename is over when no other file does: `RenameIsFollowed`.
* *Death.* `reconcile` makes the memories settled that an operation left half done. It
  passes over the files one by one, and what a file finds in the index depends on the ones before it:
  a name or an id may be taken. `RowsLead`, that a row never leads to the file of another memory,
  is what keeps a row from being in the way of a file that belongs to another memory
  (`NothingInTheWay`), so that each file of a memory that is not marred gets its row
  (`AfterReconcile`).

The pass is the recursive function in `Scanned`. `ScanExists` shows that a function with these
equations exists for any number of files, `ScannedIs` that `Scanned` is its last value,
and `ScanResult` carries the invariant of the loop (`ScannedSoFar`) along it. The induction is
`FromZero`, that a set that holds 0 and with each number the next one holds all of `Nat`, which
follows from the well-foundedness of `Nat` and needs no theorem with an operator as parameter.

### Assumptions on constants

They are named in the modules that declare the constants, and TLC evaluates them in the runs.

* Bounds are natural numbers; fault sets, deployments, stores and inputs are subsets of what the modules
  define; `None` is no datum.
* `Curation`: `Mems` is a finite set of positive numbers, as ids are ULIDs, which are ordered, and a
  project holds finitely many memories; a page that is too large is halved but never below one item
  (`curation/service.ts:194`); there is a first date and a first version.
* `CurationLedger`: the dates of a manual run end after they begin (`curation/window.ts:33`,
  `curation/service.ts:151`); outcomes differ from their absence.
* `Maintenance`: the initial catalogue has one body per memory and name, with ids and stamps the clock has
  already given; there is a first settings version.
* `LocalMemory`: a memory can be written once at least (`MaxRev`); lists are sets of names.
* `Access`: the curator and the founders are users, and meetings are sets of things that may be asked.

## 7. Only model-checked

* *Liveness*: `OperationsReturn`, `RunEnds`, `EveryMemoryIsReached`, `RequestsSettle`,
  `EveryCallAnswered`. The prover reasons neither about fairness nor about `ENABLED`.
* The bounds on the number of pairs and of codes in `OAuth`'s `TypeOK`, which only keep TLC's run finite.

## 8. Not modelled

* Ranking (`graph/ppr.ts`, `memory/rrf.ts`, `memory/rerank.ts`, `memory/kg.ts`): floating-point scores.
* Markdown and frontmatter, HTML to text, the classification of addresses: pure conversions.
* Telemetry, web pages, the sign-up function: no influence on the state above.
* The registration of OAuth clients, the resumed authorization, verification of Firebase tokens,
  the same-origin check: they refuse calls and keep nothing the modelled parts read.
* A client's own `initialize` and notifications; `listAccessibleProjects`; dry runs of curation;
  hand edits of files; the tags and the graph of local memories.
* Hazards without a property are in `PROJECT.json` with the reason.

## 9. What comes next

Every safety property of a passing run is stated by a theorem. What `Maintenance` and `Curation`
take from `cloud_catalogue` and `maintenance`, that an operation of a user or a promotion is one
step, is argued in section 2 and could be made a refinement.

## 10. Running

    tlc -workers 2 -config CloudRecovery.cfg MCCloudMemory.tla
    tlc -workers 2 -config Curation.cfg Curation.tla
    tlapm Cloud_proofs.tla

and likewise for the other seven modules of proofs; `tlapm` takes a few minutes for each.
With two workers `maintenance`, `curation_ledger` and `local` take two to three minutes, the others
two or less.
