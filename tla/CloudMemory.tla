----------------------------- MODULE CloudMemory -----------------------------
(***************************************************************************)
(* CloudMemoryService for one project: how save, update, link, forget and  *)
(* rename move a memory through three stores that share no transaction -   *)
(* the GCS bucket of bodies, the Firestore documents that point into it,   *)
(* and the SQLite index in /tmp that every lookup goes through - and how   *)
(* they undo what they did when one of the stores refuses.                 *)
(*                                                                         *)
(* The KeyedMutex of the project lets one operation run at a time, so the  *)
(* operation in flight is one record, op.  Every external call is one      *)
(* action, and the instance may be killed between any two of them.         *)
(***************************************************************************)
EXTENDS CloudStore

CONSTANTS
    Faults,     \* which calls may fail, and how
    Inputs      \* the reference lists clients send

FaultKinds == {
    "write",        \* an upload fails
    "writeAck",     \* an upload succeeds and its caller gets an error
    "commit",       \* the metadata transaction fails
    "commitAck",    \* a metadata transaction commits and its caller gets an error
    "index",        \* the SQLite transaction fails
    "restore",      \* the compensating transaction fails
    "remove",       \* deleting an object fails
    "tombstone",    \* writing or clearing a tombstone fails
    "read",         \* reading an object fails during a reindex
    "boot",         \* the start-up reindex fails as a whole
    "crash" }       \* the instance is killed

ASSUME FaultsAssumption == Faults \subseteq FaultKinds
ASSUME InputsAssumption == Inputs \subseteq LinkList

VARIABLES
    idx,        \* SQLite: the rows of table memories; gone when the instance is
    boot,       \* the start-up reindex: "starting", "ready" or "broken"
    op,         \* the operation that holds the project's mutex
    clock       \* how many operations were started; the time stamp of the last

vars == <<storeVars, idx, boot, op, clock>>

Kinds == {"none", "save", "update", "forget", "rename"}
Pcs == {"idle", "write", "commit", "index", "restore", "discard", "sweep"}

(* prev and next are previousRecord(s) and the record(s) to be committed;  *)
(* todo holds the keys the current loop still has to write or to remove.   *)
Op == [kind: Kinds, pc: Pcs, prev: SUBSET Doc, next: SUBSET Doc, todo: SUBSET Content]

NoOp == [kind |-> "none", pc |-> "idle", prev |-> {}, next |-> {}, todo |-> {}]

Replaced == KeysOf(op.prev)
Replacing == KeysOf(op.next)

(* The body a rename gives its target; its references keep their stamps.   *)
Fresh == {k \in Replacing : k.stamp = clock}

Idle == boot = "ready" /\ op = NoOp

(* memories UNIQUE(project_id, name) and links PRIMARY KEY(src_id,         *)
(* dst_name): a list that repeats a name cannot be inserted.               *)
Indexable(k) == ~k.list.repeats

Named(n) == {k \in idx : k.name = n}
NoneLinking(n) == {}        \* mutant: a rename overlooks the references
Linking(n) == {k \in idx : n \in k.list.set}

(* links.map(name => name === old ? new : name), which removes no duplicate *)
Redirect(list, old, new) ==
    IF old \in list.set
    THEN [set |-> (list.set \ {old}) \cup {new},
          repeats |-> list.repeats \/ new \in list.set]
    ELSE list

TypeOK ==
    /\ StoreTypeOK
    /\ idx \subseteq Content
    /\ boot \in {"starting", "ready", "broken"}
    /\ op \in Op
    /\ op.kind = "none" <=> op.pc = "idle"
    /\ clock \in 0..MaxOps

Init ==
    /\ StoreInit
    /\ idx = {}
    /\ boot = "starting"
    /\ op = NoOp
    /\ clock = 0

-----------------------------------------------------------------------------
(* The index and the instance.                                             *)

(* mutant: the bodies of the bucket, pointed to or not *)
RebuiltFromBucket(unread) == {k \in objs \ unread : Indexable(k)}

(* What a reindex reads: the pointers whose object is there and, with a     *)
(* flaky bucket, was not among the failed reads, each in its own savepoint. *)
Rebuilt(unread) == {k \in KeysOf(mem) \ unread : k \in objs /\ Indexable(k)}

Unread == IF "read" \in Faults THEN SUBSET KeysOf(mem) ELSE {{}}

(* autoReindex in the constructor; every operation awaits readyPromise.    *)
Boot ==
    /\ boot = "starting"
    /\ boot' = "ready"
    /\ \E unread \in Unread : idx' = Rebuilt(unread)
    /\ UNCHANGED <<storeVars, op, clock>>

(* readyPromise rejects, and keeps rejecting: no code replaces it.         *)
BootFails ==
    /\ boot = "starting"
    /\ "boot" \in Faults
    /\ boot' = "broken"
    /\ UNCHANGED <<storeVars, idx, op, clock>>

Reindex ==
    /\ Idle
    /\ \E unread \in Unread : idx' = Rebuilt(unread)
    /\ UNCHANGED <<storeVars, boot, op, clock>>

Crash ==
    /\ "crash" \in Faults
    /\ boot' = "starting"
    /\ idx' = {}
    /\ op' = NoOp
    /\ UNCHANGED <<storeVars, clock>>

-----------------------------------------------------------------------------
(* The start of an operation: the lookups, the checks and the records it    *)
(* builds, up to its first external write.                                 *)

Begin(kind, pc, prev, next) ==
    /\ Idle
    /\ clock < MaxOps
    /\ clock' = clock + 1
    /\ op' = [kind |-> kind, pc |-> pc, prev |-> prev, next |-> next,
              todo |-> KeysOf(next)]
    /\ UNCHANGED <<storeVars, idx, boot>>

(* A new memory takes a fresh ulid, which the stamp of its creation stands for. *)
(* mutant: no lookup of the name *)
SaveUnchecked(n, list) ==
    Begin("save", "write", {},
          {DocFor([id |-> clock + 1, name |-> n, list |-> list, stamp |-> clock + 1])})

BeginSave(n, list) ==
    /\ Named(n) = {}
    /\ Begin("save", "write", {},
             {DocFor([id |-> clock + 1, name |-> n, list |-> list, stamp |-> clock + 1])})

Revise(k, list) ==
    /\ k \in objs
    /\ Begin("update", "write", {DocFor(k)},
             {DocFor([k EXCEPT !.list = list, !.stamp = clock + 1])})

BeginUpdate(k, list) == Revise(k, list)

LinkMemories(k, dst) ==
    /\ dst \notin k.list.set
    /\ Revise(k, [k.list EXCEPT !.set = @ \cup {dst}])

BeginForget(k) ==
    /\ k \in objs
    /\ Begin("forget", "commit", {DocFor(k)}, {})

(* The previous records of the references are built from the rewritten     *)
(* memory: they keep the old key but carry the new list.                   *)
BeginRename(k, new) ==
    LET old == k.name
        refs == Linking(old) \ {k}
        ref(r) == [r EXCEPT !.list = Redirect(@, old, new)]
    IN
    /\ new # old
    /\ Named(new) = {}
    /\ refs \cup {k} \subseteq objs
    /\ Begin("rename", "write",
             {DocFor(k)} \cup {[key |-> r, links |-> ref(r).list] : r \in refs},
             {DocFor([k EXCEPT !.name = new, !.list = Redirect(@, old, new),
                               !.stamp = clock + 1])}
                 \cup {DocFor(ref(r)) : r \in refs})

-----------------------------------------------------------------------------
(* The steps of an operation.                                              *)

GoTo(pc, todo) == op' = [op EXCEPT !.pc = pc, !.todo = todo]
FinishHalfway == op' = [op EXCEPT !.pc = "idle"]    \* mutant: a missing reset
Finish == op' = NoOp

(* A rename uploads its target first, then its references one by one.      *)
Uploading(k) ==
    /\ op.pc = "write"
    /\ k \in op.todo
    /\ op.todo \cap Fresh # {} => k \in Fresh

Write(k) ==
    /\ Uploading(k)
    /\ k \notin objs                    \* ifGenerationMatch: 0
    /\ objs' = objs \cup {k}
    /\ IF op.todo = {k} THEN GoTo("commit", {}) ELSE GoTo("write", op.todo \ {k})
    /\ UNCHANGED <<mem, names, tombs, idx, boot, clock>>

(* The upload of save and update stands outside their try: nothing is      *)
(* cleaned up.  A rename removes its writtenKeys, which name its target     *)
(* from the start.                                                         *)
WriteFails(k) ==
    /\ Uploading(k)
    /\ \/ /\ k \in objs \/ "write" \in Faults
          /\ objs' = objs
       \/ /\ k \notin objs /\ "writeAck" \in Faults
          /\ objs' = objs \cup {k}
    /\ IF op.kind = "rename"
       THEN GoTo("discard", (Replacing \ op.todo) \cup Fresh)
       ELSE Finish
    /\ UNCHANGED <<mem, names, tombs, idx, boot, clock>>

CommitAccepts ==
    /\ op.kind = "rename" => ReplaceMemoryIndexesAccepts(op.next)
    /\ op.kind \in {"save", "update"} => \A d \in op.next : PutMemoryIndexAccepts(d)

(* replaceMemoryIndexes(project, oldName, nextRecords, tombstones), with    *)
(* one tombstone per object that the rename replaces                       *)
Commit ==
    /\ CommitAccepts
    /\ \/ /\ op.kind = "forget"
          /\ \E d \in op.prev : DeleteMemoryIndex(d.key)
       \/ /\ op.kind = "rename"
          /\ ReplaceMemoryIndexes(NamesOf(Replaced) \ NamesOf(Replacing), op.next, Replaced)
       \/ /\ op.kind \in {"save", "update"}
          /\ \E d \in op.next : PutMemoryIndex(d)

CommitMetadata ==
    /\ op.pc = "commit"
    /\ Commit
    /\ GoTo("index", {})
    /\ UNCHANGED <<objs, idx, boot, clock>>

(* metadataCommitted stays false: the objects written are removed and the  *)
(* error goes to the caller.                                               *)
GiveUpWrongBody == GoTo("discard", Replaced)         \* mutant: the wrong objects
GiveUp == IF op.kind = "forget" THEN Finish ELSE GoTo("discard", Replacing)

CommitRejected ==
    /\ op.pc = "commit"
    /\ ~CommitAccepts \/ "commit" \in Faults
    /\ GiveUp
    /\ UNCHANGED <<storeVars, idx, boot, clock>>

CommitAckLost ==
    /\ op.pc = "commit"
    /\ "commitAck" \in Faults
    /\ Commit
    /\ GiveUp
    /\ UNCHANGED <<objs, idx, boot, clock>>

(* mutant: a rename leaves the rows of its references where they were *)
CommitIndexOfTarget ==
    LET rewritten == Replacing \ Fresh IN
    /\ op.pc = "index"
    /\ \A k \in Replacing : Indexable(k)
    /\ idx' = {k \in idx : k.id \notin IdsOf(Replaced) \ IdsOf(rewritten)} \cup Fresh
    /\ GoTo("sweep", Replaced)
    /\ UNCHANGED <<storeVars, boot, clock>>

(* mutant: the rows that were replaced stay *)
CommitIndexAdding ==
    /\ op.pc = "index"
    /\ \A k \in Replacing : Indexable(k)
    /\ idx' = idx \cup Replacing
    /\ GoTo("sweep", Replaced)
    /\ UNCHANGED <<storeVars, boot, clock>>

CommitIndex ==
    /\ op.pc = "index"
    /\ \A k \in Replacing : Indexable(k)
    /\ idx' = {k \in idx : k.id \notin IdsOf(Replaced)} \cup Replacing
    /\ GoTo("sweep", Replaced)
    /\ UNCHANGED <<storeVars, boot, clock>>

IndexFails ==
    /\ op.pc = "index"
    /\ "index" \in Faults \/ \E k \in Replacing : ~Indexable(k)
    /\ GoTo("restore", {})
    /\ UNCHANGED <<storeVars, idx, boot, clock>>

RestoreAccepts ==
    /\ op.kind = "rename" => RestoreMemoryIndexesAccepts(op.prev, op.next)
    /\ op.kind = "update" =>
            \A d \in op.prev, e \in op.next : RestoreMemoryIndexAccepts(d, e.key)
    /\ op.kind = "forget" => \A d \in op.prev : RestoreMemoryIndexAccepts(d, d.key)

Restore ==
    /\ RestoreAccepts
    /\ \/ /\ op.kind = "save"
          /\ \E d \in op.next : RemoveMemoryIndex(d.key)
       \/ /\ op.kind = "rename"
          /\ RestoreMemoryIndexes(op.prev, op.next, Replaced)
       \/ /\ op.kind = "update"
          /\ \E d \in op.prev, e \in op.next : RestoreMemoryIndex(d, e.key)
       \/ /\ op.kind = "forget"
          /\ \E d \in op.prev : RestoreMemoryIndex(d, d.key)

Compensate ==
    /\ op.pc = "restore"
    /\ Restore
    /\ GiveUp
    /\ UNCHANGED <<objs, idx, boot, clock>>

(* mutant: the objects written are removed although the metadata keeps them *)
CompensationFailsAndDiscards ==
    /\ op.pc = "restore"
    /\ ~RestoreAccepts \/ "restore" \in Faults
    /\ GiveUp
    /\ UNCHANGED <<storeVars, idx, boot, clock>>

(* AggregateError: thrown before the objects written are removed.          *)
CompensationFails ==
    /\ op.pc = "restore"
    /\ ~RestoreAccepts \/ "restore" \in Faults
    /\ Finish
    /\ UNCHANGED <<storeVars, idx, boot, clock>>

CompensationAckLost ==
    /\ op.pc = "restore"
    /\ "commitAck" \in Faults
    /\ Restore
    /\ Finish
    /\ UNCHANGED <<objs, idx, boot, clock>>

(* mutant: the loop ends and nothing is thrown *)
RemovingForever(pc, k) ==
    /\ op.pc = pc
    /\ k \in op.todo
    /\ GoTo(pc, op.todo \ {k})
    /\ UNCHANGED <<mem, names, idx, boot, clock>>

(* One removal: of an object this operation wrote and must take back, or   *)
(* of one it replaced.  remove() throws for an object that is not there.    *)
Removing(pc, k) ==
    /\ op.pc = pc
    /\ k \in op.todo
    /\ IF op.todo = {k} THEN Finish ELSE GoTo(pc, op.todo \ {k})
    /\ UNCHANGED <<mem, names, idx, boot, clock>>

RemoveSucceeds(k) == k \in objs /\ objs' = objs \ {k}

(* A delete that fails with an error of the bucket may have happened. *)
RemoveFails(k) ==
    \/ k \notin objs /\ objs' = objs
    \/ "remove" \in Faults /\ objs' \in {objs, objs \ {k}}

Discard(k) ==
    /\ Removing("discard", k)
    /\ RemoveSucceeds(k)
    /\ tombs' = tombs

DiscardFails(k) ==
    /\ Removing("discard", k)
    /\ RemoveFails(k)
    /\ \/ PutTombstone(k)
       \/ "tombstone" \in Faults /\ tombs' = tombs

(* Only a rename clears the tombstone of an object it has removed.         *)
Sweep(k) ==
    /\ Removing("sweep", k)
    /\ RemoveSucceeds(k)
    /\ \/ /\ op.kind # "rename" \/ "tombstone" \in Faults
          /\ tombs' = tombs
       \/ op.kind = "rename" /\ ClearTombstone(k)

SweepFails(k) ==
    /\ Removing("sweep", k)
    /\ RemoveFails(k)
    /\ tombs' = tombs

(* A save replaces nothing. *)
NothingToSweep ==
    /\ op.pc = "sweep"
    /\ op.todo = {}
    /\ Finish
    /\ UNCHANGED <<storeVars, idx, boot, clock>>

-----------------------------------------------------------------------------
Client ==
    \/ \E n \in Names, list \in Inputs : BeginSave(n, list)
    \/ \E k \in idx, list \in Inputs : BeginUpdate(k, list)
    \/ \E k \in idx, dst \in Names : LinkMemories(k, dst)
    \/ \E k \in idx : BeginForget(k)
    \/ \E k \in idx, new \in Names : BeginRename(k, new)
    \/ Reindex

Upload == \E k \in op.todo : Write(k) \/ WriteFails(k)
Metadata == CommitMetadata \/ CommitRejected \/ CommitAckLost
Index == CommitIndex \/ IndexFails
Undo == Compensate \/ CompensationFails \/ CompensationAckLost
Cleanup ==
    \/ \E k \in op.todo : Discard(k) \/ DiscardFails(k) \/ Sweep(k) \/ SweepFails(k)
    \/ NothingToSweep

OpStep == Upload \/ Metadata \/ Index \/ Undo \/ Cleanup

Next == Boot \/ BootFails \/ Crash \/ Client \/ OpStep

Spec == Init /\ [][Next]_vars

(* Every external call resolves or rejects, and the start-up reindex ends. *)
FairSpec == Spec /\ WF_vars(Boot \/ BootFails) /\ WF_vars(OpStep)

-----------------------------------------------------------------------------
(* Safety.                                                                 *)

(* Every metadata pointer leads to a body, whatever failed and wherever the *)
(* instance died: bodies are uploaded before the pointer moves, and removed *)
(* only when it has moved away.                                            *)
PointersResolve == KeysOf(mem) \subseteq objs

(* A row a client can look up can be read: no operation removes a body that *)
(* the index still offers.                                                 *)
IndexReadable == idx \subseteq objs

(* Every memory owns its name: the name document points to the same body,  *)
(* through renames, their compensation and crashes between the two.        *)
NameOwned == KeysOf(mem) \subseteq names

(* The name of an indexed memory never belongs to another memory, even     *)
(* while index and metadata disagree after a failed compensation.          *)
NoStolenName == \A k \in idx, n \in names : k.name = n.name => k.id = n.id

(* One document, and one row, per memory id and per name. *)
OnePer(keys) == \A k, l \in keys : k.id = l.id \/ k.name = l.name => k = l
Unique == OnePer(KeysOf(mem)) /\ OnePer(idx)

(* When compensations do not fail, the name documents are exactly those of  *)
(* the memories: no name stays reserved for a memory that lost it.         *)
NamesMatch == names = KeysOf(mem)

(* When compensations and reads do not fail, the index of an idle service   *)
(* offers exactly the committed memories it can hold, at their current body. *)
IndexAgrees == Idle => idx = {k \in KeysOf(mem) : Indexable(k)}

(* While the error of a commit or of the index transaction can still undo it, *)
(* the catalogue before the operation is what it may be taken back to.      *)
Pending ==
    IF op.pc \in {"index", "restore"}
    THEN {(KeysOf(mem) \ Replacing) \cup Replaced}
    ELSE {}

Catalogue == INSTANCE MemoryCatalogue WITH cat <- KeysOf(mem), prior <- Pending

(* The five operations with their compensation and crashes implement the   *)
(* catalogue: all or nothing, and a rename takes every reference along.    *)
ImplementsCatalogue == Catalogue!CatalogueSpec

(* Every operation ends: no combination of failing calls leaves it holding *)
(* the project's mutex.                                                    *)
OperationsReturn == (op # NoOp) ~> (op = NoOp)

-----------------------------------------------------------------------------
(* Why pointers and rows resolve: the inductive invariant of the first two *)
(* properties.                                                             *)

(* The keys something leads to. *)
Live == KeysOf(mem) \cup idx

(* Before the index moves, an operation replaces rows of the index; the    *)
(* keys it commits belong to the same memories.  Only a ready instance     *)
(* runs operations.                                                        *)
Shape ==
    /\ boot # "ready" => op = NoOp
    /\ op.kind = "save" =>
            op.prev = {} /\ \E e \in op.next : op.next = {e}
    /\ op.kind = "update" =>
            \E d \in op.prev, e \in op.next :
                op.prev = {d} /\ op.next = {e} /\ d.key.id = e.key.id
    /\ op.kind = "forget" => op.next = {} /\ \E d \in op.prev : op.prev = {d}
    /\ op.kind = "rename" => IdsOf(Replaced) = IdsOf(Replacing)
    /\ op.pc \in {"write", "commit", "index", "restore"} => Replaced \subseteq idx

(* Stamps grow: while it uploads, the fresh key of an operation is younger  *)
(* than everything live.                                                   *)
StampsOrdered ==
    /\ \A k \in Live \cup Replaced \cup Replacing : k.stamp <= clock
    /\ op.pc = "write" => \A k \in Live : k.stamp < clock

(* What has been uploaded exists and nothing leads to it before the commit; *)
(* the index follows last.                                                 *)
Uploaded ==
    /\ op.pc = "write" => /\ Replacing \ op.todo \subseteq objs
                          /\ (Replacing \ op.todo) \cap Live = {}
    /\ op.pc \in {"commit", "index", "restore"} => /\ Replacing \subseteq objs
                                                  /\ Replacing \cap idx = {}
    /\ op.pc = "commit" => Replacing \cap Live = {}
    /\ op.pc = "index" => Replaced \cap KeysOf(mem) = {}

(* What a cleanup is about to remove, nothing leads to. *)
RemovesOnlyDead == op.pc \in {"discard", "sweep"} => op.todo \cap Live = {}

(* The argument for PointersResolve and IndexReadable, step by step: it    *)
(* needs that a commit's outcome is known.                                 *)
BodiesInv ==
    /\ PointersResolve
    /\ IndexReadable
    /\ Shape
    /\ StampsOrdered
    /\ Uploaded
    /\ RemovesOnlyDead

=============================================================================
