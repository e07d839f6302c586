----------------------------- MODULE Maintenance -----------------------------
(***************************************************************************)
(* Automated maintenance of one project: a runner judges memories it read  *)
(* some time ago, and the service applies its proposals beside the edits   *)
(* of users, the owner's settings and other requests.  Covers              *)
(* MaintenanceService.snapshot and apply, the restore route, and           *)
(* applyMutationUnlocked with the Firestore transaction behind it.         *)
(*                                                                         *)
(* User operations are single steps here: that they are all or nothing is  *)
(* what CloudMemory shows of them.  A body is its own object key and hash. *)
(***************************************************************************)
EXTENDS Naturals, FiniteSets

CONSTANTS
    Names,
    Ops,            \* operation ids
    Handlers,       \* server-side request handlers that may run at once
    Catalogue,      \* the memories at the start
    MaxClock,       \* bound: time stamps
    MaxVersion,     \* bound: versions of the settings
    MaxSent,        \* bound: different requests sent
    MaxSkipped,     \* bound: bodies that one reindex skips
    Cap,            \* max_active_memories of a promotion, SHARED_CAP
    Asked,          \* bound: the kinds of proposals made, for shared and other projects
    Faults,
    None

FaultKinds == {
    "write",        \* an upload fails
    "commit",       \* the transaction fails
    "ack",          \* the transaction commits and its caller gets an error
    "retry",        \* the SDK repeats a transaction that had committed
    "cache",        \* the SQLite transaction fails
    "reindex",      \* a reindex fails
    "read",         \* a reindex cannot read some bodies, or not insert them
    "check",        \* the question whether the operation was applied fails
    "crash" }       \* the instance is killed and comes back

Stamps == 1..MaxClock
Body == [id: Stamps, name: Names, stamp: Stamps, active: BOOLEAN, link: Names \cup {None}]

Kinds == {"patch", "archive", "merge", "prune", "restore", "create"}

ASSUME FaultsAssumption == Faults \subseteq FaultKinds
ASSUME AskedAssumption == Asked \in [BOOLEAN -> SUBSET Kinds]
ASSUME BoundsAssumption == {MaxClock, MaxSent, MaxSkipped, Cap} \subseteq Nat /\ MaxVersion \in Nat \ {0}
ASSUME NoneAssumption == None \notin Names
ASSUME CatalogueAssumption ==
    /\ Catalogue \subseteq Body
    /\ \A k, l \in Catalogue : k.id = l.id \/ k.name = l.name => k = l
    /\ Cardinality(Catalogue) \in 0..MaxClock
    /\ \A k \in Catalogue : {k.id, k.stamp} \subseteq 1..Cardinality(Catalogue)

VARIABLES
    shared,     \* whether the project is __shared__
    mem,        \* Firestore memories: the body each points to
    objs,       \* GCS: bodies
    idx,        \* SQLite rows
    revs,       \* Firestore revisions
    revObjs,    \* GCS: bodies of revisions
    ops,        \* Firestore maintenanceOperations: requests applied
    settings,   \* Firestore maintenanceSettings
    observed,   \* Firestore maintenanceLinkObservations
    sent,       \* requests that clients have sent and may send again
    hs,         \* request handlers
    job,        \* the mutation that holds the project's mutex
    clock,
    commits,    \* history: how often each operation took effect
    replaced    \* history: bodies that mutations replaced

docs == <<mem, revs, ops>>
vars == <<shared, mem, objs, idx, revs, revObjs, ops, settings, observed, sent, hs, job,
          clock, commits, replaced>>

Revision == [body: Body, op: Ops, at: Stamps]
Observation == [id: Stamps, name: Names, aged: BOOLEAN]

(* version 0 is a request without expected_settings_version.  name is the  *)
(* link to prune or the name to create; from is the revision to restore.   *)
Request == [op: Ops, kind: Kinds, expect: SUBSET Body, version: 0..MaxVersion,
            name: Names \cup {None}, from: Revision \cup {None}]

(* success: the last answer was applied or already_applied; conflict, not   *)
(* found and errors are one here.                                          *)
Handler == [stage: {"idle", "screen", "queue", "hold", "clear"},
            req: Request \cup {None}, success: BOOLEAN]
NoHandler == [stage |-> "idle", req |-> None, success |-> FALSE]

(* next and back are the bodies and revisions to be committed, todo those  *)
(* not yet uploaded.                                                       *)
Job == [pc: {"idle", "write", "commit", "cache", "recheck"}, next: SUBSET Body,
        back: SUBSET Revision, todo: SUBSET (Body \cup Revision)]
NoJob == [pc |-> "idle", next |-> {}, back |-> {}, todo |-> {}]

Holder == CHOOSE h \in Handlers : hs[h].stage = "hold"
Req == hs[Holder].req

IdsIn(bodies) == {k.id : k \in bodies}
NamesIn(bodies) == {k.name : k \in bodies}
Active(bodies) == {k \in bodies : k.active}
SetIds(bodies, new) == {k \in bodies : k.id \notin IdsIn(new)} \cup new

Init ==
    /\ shared \in BOOLEAN
    /\ mem = Catalogue /\ objs = Catalogue /\ idx = Catalogue
    /\ revs = {} /\ revObjs = {} /\ ops = {}
    /\ settings = [version |-> 1, enabled |-> TRUE]
    /\ observed = {}
    /\ sent = {}
    /\ hs = [h \in Handlers |-> NoHandler]
    /\ job = NoJob
    /\ clock = Cardinality(Catalogue)
    /\ commits = [o \in Ops |-> 0]
    /\ replaced = {}

-----------------------------------------------------------------------------
(* Checks that several steps share.                                        *)

NoRecord(r) == "none"                                 \* mutant: operations are not looked up
CheckOperation(r) ==
    IF r \in ops THEN "already_applied"
    ELSE IF \E q \in ops : q.op = r.op THEN "conflict"
    ELSE "none"

HashesUnchecked(r) == IdsIn(r.expect) \subseteq IdsIn(mem)     \* mutant
HashesCurrent(r) == r.expect \subseteq mem

SettingsCurrent(r) ==
    IF r.version = 0 THEN shared \/ r.kind = "restore"
    ELSE settings.enabled /\ settings.version = r.version

(* The name of a link that may be pruned: still linked, no memory of that  *)
(* name, and first seen missing a whole grace period ago.                  *)
PrunableByAge(r) ==                                           \* mutant
    \A k \in r.expect :
        k.link = r.name /\ [id |-> k.id, name |-> r.name, aged |-> TRUE] \in observed
Prunable(r) ==
    \A k \in r.expect :
        /\ k.link = r.name
        /\ r.name \notin NamesIn(mem)
        /\ [id |-> k.id, name |-> r.name, aged |-> TRUE] \in observed

-----------------------------------------------------------------------------
(* Users, the owner and time.                                              *)

UserStep ==
    /\ job = NoJob
    /\ clock < MaxClock
    /\ clock' = clock + 1
    /\ UNCHANGED <<shared, ops, settings, observed, sent, hs, job, commits, replaced>>

UserSave(n) ==
    LET k == [id |-> clock + 1, name |-> n, stamp |-> clock + 1, active |-> TRUE, link |-> None] IN
    /\ UserStep
    /\ n \notin NamesIn(idx) \cup NamesIn(mem)
    /\ mem' = mem \cup {k} /\ objs' = objs \cup {k} /\ idx' = idx \cup {k}
    /\ UNCHANGED <<revs, revObjs>>

(* An update or a rename; the object it replaces goes away. *)
UserEdit(k, n) ==
    LET new == [k EXCEPT !.name = n, !.stamp = clock + 1] IN
    /\ UserStep
    /\ k \in idx \cap objs
    /\ \A l \in mem \cup idx : l.name = n => l.id = k.id
    /\ mem' = SetIds(mem, {new})
    /\ idx' = SetIds(idx, {new})
    /\ objs' = (objs \ {k}) \cup {new}
    /\ UNCHANGED <<revs, revObjs>>

(* deleteMemoryRevisions: every revision of a memory in one transaction. *)
RevisionsOf(id) == {v \in revs : v.body.id = id}
DeleteRevisions(id) == revs' = revs \ RevisionsOf(id)

(* The revisions go last, in a transaction of their own that may not be    *)
(* reached; their objects follow as far as they can be removed.            *)
UserForget(k) ==
    /\ UserStep
    /\ k \in idx \cap objs
    /\ mem' = {l \in mem : l.id # k.id}
    /\ idx' = idx \ {k}
    /\ objs' = objs \ {k}
    /\ \/ DeleteRevisions(k.id) /\ revObjs' = revObjs \ RevisionsOf(k.id)
       \/ "crash" \in Faults /\ UNCHANGED <<revs, revObjs>>

(* saveMaintenanceSettings, under the version the owner's page showed. *)
SaveSettings(enabled) ==
    /\ ~shared
    /\ settings.version < MaxVersion
    /\ settings' = [version |-> settings.version + 1, enabled |-> enabled]
    /\ UNCHANGED <<shared, docs, objs, idx, revObjs, observed, sent, hs, job, clock, commits,
                   replaced>>

GracePasses ==
    /\ \E v \in observed : ~v.aged
    /\ observed' = {[v EXCEPT !.aged = TRUE] : v \in observed}
    /\ UNCHANGED <<shared, docs, objs, idx, revObjs, settings, sent, hs, job, clock, commits,
                   replaced>>

-----------------------------------------------------------------------------
(* The runner.  Its pages come from the metadata, outside the mutex.        *)

(* listMaintenanceMemories and maintenanceNameExists: what a page shows. *)
Listed == Active(mem) \cap objs
NameExists(n) == n \in NamesIn(mem)

Seen(k) == {v \in observed : v.id = k.id /\ v.name = k.link}

(* A link is observed once: its grace does not start anew. *)
ObserveIfAbsent(k) ==
    IF Seen(k) # {} THEN observed
    ELSE observed \cup {[id |-> k.id, name |-> k.link, aged |-> FALSE]}

(* observeLinkIfAbsent or clearLinkObservation, for each link on the page. *)
Snapshot(k) ==
    /\ ~shared /\ settings.enabled
    /\ k \in Listed
    /\ k.link # None
    /\ observed' = IF NameExists(k.link) THEN observed \ Seen(k) ELSE ObserveIfAbsent(k)
    /\ UNCHANGED <<shared, docs, objs, idx, revObjs, settings, sent, hs, job, clock, commits,
                   replaced>>

(* A proposal about bodies as they are now, under the settings of now.  The *)
(* curator patches, restores and creates shared memories, and names no     *)
(* version; nor does the route that restores a memory of a project.        *)
Ask(o, kind, expect) ==
    [op |-> o, kind |-> kind, expect |-> expect,
     version |-> IF shared THEN 0 ELSE settings.version, name |-> None, from |-> None]

Patches(o) == {Ask(o, "patch", {k}) : k \in Active(mem)}
Restores(o) == {[Ask(o, "restore", {v[1]}) EXCEPT !.version = 0, !.from = v[2]] :
                    v \in {v \in mem \X revs : v[2].body.id \in IdsIn(mem)}}
Creates(o) == {[Ask(o, "create", {}) EXCEPT !.name = n] : n \in Names}
Archives(o) == {Ask(o, "archive", {k}) : k \in Active(mem)}
Merges(o) == {Ask(o, "merge", {k[1], k[2]}) : k \in Active(mem) \X Active(mem)}
Prunes(o) ==
    {[Ask(o, "prune", {k}) EXCEPT !.name = k.link] : k \in {k \in Active(mem) : k.link # None}}

Proposals(o) ==
    Patches(o) \cup Restores(o)
        \cup (IF shared THEN Creates(o) ELSE Archives(o) \cup Merges(o) \cup Prunes(o))

Wellformed(r) ==
    /\ r.kind = "merge" => Cardinality(r.expect) = 2
    /\ r.kind = "restore" => \A k \in r.expect : k.id = r.from.body.id

Arrive(h, r) ==
    /\ hs[h].stage = "idle"
    /\ hs' = [hs EXCEPT ![h] = [stage |-> "screen", req |-> r, success |-> FALSE]]
    /\ UNCHANGED <<shared, docs, objs, idx, revObjs, settings, observed, job, clock, commits,
                   replaced>>

Propose(h, o) ==
    /\ Cardinality(sent) < MaxSent
    /\ shared \/ settings.enabled
    /\ \E r \in Proposals(o) :
          r.kind \in Asked[shared] /\ Wellformed(r) /\ sent' = sent \cup {r} /\ Arrive(h, r)

(* A client that gave up waiting, or got an error, sends its request again. *)
Repeat(h, r) == Arrive(h, r) /\ UNCHANGED sent

Move(h, stage) == hs' = [hs EXCEPT ![h].stage = stage]

Successes == {"applied", "already_applied"}
Answer(h, out) == hs' = [hs EXCEPT ![h] = [NoHandler EXCEPT !.success = out \in Successes]]

(* MaintenanceService.apply and the restore route look before they call     *)
(* applyMutationAsync, outside the mutex.                                  *)
Screen(h) ==
    LET r == hs[h].req
        known == IF r.kind = "restore" THEN "none" ELSE CheckOperation(r)
        fits == CASE r.kind = "restore" -> HashesCurrent(r)
                  [] r.kind = "prune" -> HashesCurrent(r) /\ SettingsCurrent(r) /\ Prunable(r)
                  [] OTHER -> HashesCurrent(r) /\ SettingsCurrent(r)
    IN
    /\ hs[h].stage = "screen"
    /\ IF known # "none" THEN Answer(h, known)
       ELSE IF ~fits THEN Answer(h, "conflict")
       ELSE IF r.kind = "restore" /\ r.from \notin revs THEN Answer(h, "error")
       ELSE Move(h, "queue")
    /\ UNCHANGED <<shared, docs, objs, idx, revObjs, settings, observed, sent, job, clock,
                   commits, replaced>>

-----------------------------------------------------------------------------
(* applyMutationUnlocked, under the project's mutex.                       *)

Target(bodies) == CHOOSE k \in bodies : \A l \in bodies : k.id <= l.id

(* prepareMutation: the bodies a request leads to, stamped now. *)
Prepared(r, now) ==
    LET k == Target(r.expect) IN
    CASE r.kind = "create" ->
            {[id |-> now, name |-> r.name, stamp |-> now, active |-> TRUE, link |-> None]}
      [] r.kind = "patch" -> {[k EXCEPT !.stamp = now]}
      [] r.kind = "archive" -> {[k EXCEPT !.stamp = now, !.active = FALSE]}
      [] r.kind = "merge" ->
            {IF l = k THEN [l EXCEPT !.stamp = now] ELSE [l EXCEPT !.stamp = now, !.active = FALSE]
                : l \in r.expect}
      [] r.kind = "prune" -> {[k EXCEPT !.stamp = now, !.link = None]}
      [] r.kind = "restore" ->
            {[r.from.body EXCEPT !.name = k.name, !.stamp = now, !.active = TRUE]}

(* What must be there for the request to be carried out at all. *)
Applicable(r) ==
    /\ HashesCurrent(r)
    /\ r.expect \subseteq objs
    /\ IdsIn(r.expect) \subseteq IdsIn(idx)
    /\ r.kind = "create" => r.name \notin NamesIn(mem)
    /\ SettingsCurrent(r)

(* reindexUnlocked: it skips the bodies that it cannot read, and succeeds.  *)
Rebuild ==
    \E skipped \in SUBSET mem :
        /\ skipped = {} \/ ("read" \in Faults /\ Cardinality(skipped) <= MaxSkipped)
        /\ idx' = (mem \cap objs) \ skipped

(* A reindex in the middle of a request: the outcome reaches the caller     *)
(* unless the rebuild as a whole failed.                                   *)
Reindexed(h, out) ==
    \/ Rebuild /\ Answer(h, out)
    \/ "reindex" \in Faults /\ idx' = idx /\ Answer(h, "error")

Begin(h) ==
    LET r == hs[h].req
        known == CheckOperation(r)
        now == clock + 1
        back == {[body |-> k, op |-> r.op, at |-> now] : k \in r.expect}
    IN
    /\ job = NoJob /\ hs[h].stage = "queue"
    /\ clock < MaxClock
    /\ IF known = "already_applied" THEN
            Reindexed(h, known) /\ UNCHANGED <<job, clock>>
       ELSE IF known = "conflict" \/ ~Applicable(r) THEN
            Answer(h, "conflict") /\ UNCHANGED <<job, clock, idx>>
       ELSE IF r.kind = "restore" /\ r.from \notin revs \cap revObjs THEN
            Answer(h, "error") /\ UNCHANGED <<job, clock, idx>>
       ELSE /\ Move(h, "hold")
            /\ job' = [pc |-> "write", next |-> Prepared(r, now), back |-> back,
                       todo |-> Prepared(r, now) \cup back]
            /\ clock' = now
            /\ idx' = idx
    /\ UNCHANGED <<shared, docs, objs, revObjs, settings, observed, sent, commits, replaced>>

Goto(pc) == job' = [job EXCEPT !.pc = pc] /\ UNCHANGED hs

Finish(out) ==
    /\ job' = NoJob
    /\ IF out = "applied" /\ Req.kind = "prune"
       THEN Move(Holder, "clear") ELSE Answer(Holder, out)

(* cleanupMutationObjects: everything this request has uploaded. *)
CleanUp ==
    /\ objs' = objs \ (job.next \ job.todo)
    /\ revObjs' = revObjs \ (job.back \ job.todo)

(* Memory by memory: its new body, then the revision that keeps the old. *)
Turn(k) == IF k \in job.next THEN 2 * k.id ELSE 2 * k.body.id + 1

Upload(k) ==
    /\ job.pc = "write" /\ k \in job.todo
    /\ \A l \in job.todo : Turn(k) <= Turn(l)
    /\ objs' = IF k \in job.next THEN objs \cup {k} ELSE objs
    /\ revObjs' = IF k \in job.back THEN revObjs \cup {k} ELSE revObjs
    /\ job' = [job EXCEPT !.todo = @ \ {k}, !.pc = IF job.todo = {k} THEN "commit" ELSE "write"]
    /\ UNCHANGED <<shared, docs, idx, settings, observed, sent, hs, clock, commits, replaced>>

UploadFails ==
    /\ job.pc = "write" /\ "write" \in Faults
    /\ CleanUp /\ Finish("error")
    /\ UNCHANGED <<shared, docs, idx, settings, observed, sent, clock, commits, replaced>>

CapAllows(r) == r.kind = "create" => Cardinality(Active(mem)) < Cap

(* commitMemoryMutation: what its transaction answers, and what it writes. *)
CommitOutcome(r) ==
    IF CheckOperation(r) # "none" THEN CheckOperation(r)
    ELSE IF /\ SettingsCurrent(r) /\ CapAllows(r) /\ HashesCurrent(r)
            /\ r.kind = "prune" => Prunable(r)
            /\ \A k \in job.next, l \in mem : k.name = l.name => k.id = l.id
         THEN "applied"
    ELSE "conflict"

RevisionsForgotten == revs' = revs                    \* mutant: only the new pointers are set
RevisionsSet == revs' = revs \cup job.back

Written ==
    /\ mem' = SetIds(mem, job.next)
    /\ RevisionsSet
    /\ ops' = ops \cup {Req}
    /\ commits' = [commits EXCEPT ![Req.op] = @ + 1]
    /\ replaced' = replaced \cup Req.expect

Commit ==
    /\ job.pc = "commit"
    /\ IF CommitOutcome(Req) = "applied"
       THEN /\ Written /\ Goto("cache") /\ UNCHANGED <<objs, revObjs>>
       ELSE /\ CleanUp /\ Finish(CommitOutcome(Req))
            /\ UNCHANGED <<docs, commits, replaced>>
    /\ UNCHANGED <<shared, idx, settings, observed, sent, clock>>

(* The call fails; its transaction may have committed nevertheless.  Or the  *)
(* SDK repeats the callback after a commit whose answer was lost: it finds  *)
(* its own operation and answers already_applied, for which the service     *)
(* removes what it uploaded.                                                *)
CommitFails ==
    /\ job.pc = "commit"
    /\ \/ /\ "commit" \in Faults
          /\ Goto("recheck")
          /\ UNCHANGED <<docs, objs, revObjs, commits, replaced>>
       \/ /\ "ack" \in Faults
          /\ CommitOutcome(Req) = "applied" /\ Written
          /\ Goto("recheck")
          /\ UNCHANGED <<objs, revObjs>>
       \/ /\ "retry" \in Faults
          /\ CommitOutcome(Req) = "applied" /\ Written
          /\ CleanUp /\ Finish("already_applied")
    /\ UNCHANGED <<shared, idx, settings, observed, sent, clock>>

CacheWithoutFallback ==                               \* mutant: the reindex is forgotten
    /\ job.pc = "cache"
    /\ \E cached \in {TRUE} \cup (IF "cache" \in Faults THEN {FALSE} ELSE {}) :
            idx' = IF cached THEN SetIds(idx, job.next) ELSE idx
    /\ Finish("applied")
    /\ UNCHANGED <<shared, docs, objs, revObjs, settings, observed, sent, clock, commits,
                   replaced>>

WriteCache ==
    /\ job.pc = "cache"
    /\ idx' = SetIds(idx, job.next)
    /\ Finish("applied")
    /\ UNCHANGED <<shared, docs, objs, revObjs, settings, observed, sent, clock, commits,
                   replaced>>

(* A cache that cannot be written is rebuilt; a rebuild that fails sends    *)
(* the request through the handler of a failed commit.                     *)
CacheFails ==
    /\ job.pc = "cache" /\ "cache" \in Faults
    /\ \/ Rebuild /\ Finish("applied")
       \/ "reindex" \in Faults /\ idx' = idx /\ Goto("recheck")
    /\ UNCHANGED <<shared, docs, objs, revObjs, settings, observed, sent, clock, commits,
                   replaced>>

(* checkOperation(...).catch(() => null): not knowing counts as no. *)
Recheck ==
    LET applied == CheckOperation(Req) = "already_applied" IN
    /\ job.pc = "recheck"
    /\ \E known \in {applied} \cup (IF "check" \in Faults THEN {FALSE} ELSE {}) :
            IF known
            THEN Reindexed(Holder, "already_applied") /\ job' = NoJob /\ UNCHANGED <<objs, revObjs>>
            ELSE CleanUp /\ idx' = idx /\ Finish("error")
    /\ UNCHANGED <<shared, docs, settings, observed, sent, clock, commits, replaced>>

(* clearLinkObservation after a prune, when the mutex is already free. *)
ClearObservation(h) ==
    /\ hs[h].stage = "clear"
    /\ observed' = {v \in observed :
            ~(v.name = hs[h].req.name /\ v.id \in IdsIn(hs[h].req.expect))}
    /\ Answer(h, "applied")
    /\ UNCHANGED <<shared, docs, objs, idx, revObjs, settings, sent, job, clock, commits,
                   replaced>>

(* Handlers, mutex and index go; the next instance rebuilds the index. *)
Crash ==
    /\ "crash" \in Faults
    /\ \E h \in Handlers : hs[h].stage # "idle"
    /\ hs' = [h \in Handlers |-> NoHandler]
    /\ job' = NoJob
    /\ Rebuild
    /\ UNCHANGED <<shared, docs, objs, revObjs, settings, observed, sent, clock, commits,
                   replaced>>

-----------------------------------------------------------------------------
Users ==
    \/ \E n \in Names : UserSave(n)
    \/ \E k \in idx : UserForget(k) \/ \E n \in Names : UserEdit(k, n)
    \/ \E enabled \in BOOLEAN : SaveSettings(enabled)
    \/ GracePasses

Runner ==
    \/ \E k \in mem : Snapshot(k)
    \/ \E h \in Handlers : (\E o \in Ops : Propose(h, o)) \/ (\E r \in sent : Repeat(h, r))

Service ==
    \/ \E h \in Handlers : Screen(h) \/ Begin(h) \/ ClearObservation(h)
    \/ \E k \in job.todo : Upload(k)
    \/ UploadFails \/ Commit \/ CommitFails
    \/ WriteCache \/ CacheFails \/ Recheck \/ Crash

Next == Users \/ Runner \/ Service

Spec == Init /\ [][Next]_vars

-----------------------------------------------------------------------------
(* Every variable keeps its shape; what is applied was sent. *)
TypeOK ==
    /\ shared \in BOOLEAN
    /\ mem \subseteq Body /\ objs \subseteq Body /\ idx \subseteq Body
    /\ revs \subseteq Revision /\ revObjs \subseteq Revision
    /\ ops \subseteq sent /\ sent \subseteq Request
    /\ settings \in [version: 1..MaxVersion, enabled: BOOLEAN]
    /\ observed \subseteq Observation
    /\ hs \in [Handlers -> Handler]
    /\ job \in Job
    /\ clock \in 0..MaxClock
    /\ commits \in [Ops -> Nat]
    /\ replaced \subseteq Body

(* A body that automation replaced can be restored for as long as its       *)
(* memory exists: its revision is recorded and its revision object is there. *)
ReplacedKept ==
    \A k \in replaced :
        k.id \in IdsIn(mem) => \E v \in revs \cap revObjs : v.body = k

(* An operation takes effect once, however often its request arrives and    *)
(* whatever happened to the memories since.                                *)
AppliedOnce == \A o \in Ops : commits[o] <= 1

(* One of the requests takes effect in this step. *)
Effect(r) == r \notin ops /\ r \in ops'

(* A proposal takes effect only on the very bodies that were judged: an     *)
(* edit by a user in between wins.                                         *)
UserEditWins == [][\A r \in sent : Effect(r) => r.expect \subseteq mem]_vars

(* No link is pruned whose memory exists, archived or not, at that moment.  *)
PruneKeepsLiveLinks ==
    [][\A r \in sent : Effect(r) /\ r.kind = "prune" => r.name \notin NamesIn(mem)]_vars

(* A client that applyMutationAsync tells of success finds the change in    *)
(* the index; where a rebuild could not read the body it finds no row of    *)
(* the memory, and never one from before the change.                       *)
SuccessIsVisible ==
    [][\A h \in Handlers :
          /\ hs[h].stage \in {"queue", "hold"}
          /\ hs'[h].stage = "clear" \/ hs'[h].success
          => \A k \in mem' :
                k.id \in IdsIn(hs[h].req.expect \cup job.next) =>
                    \/ k \in idx'
                    \/ "read" \in Faults /\ k.id \notin IdsIn(idx')]_vars

=============================================================================
