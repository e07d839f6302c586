----------------------------- MODULE Cloud_proofs -----------------------------
(***************************************************************************)
(* Proofs about the cloud service, CloudMemory and CloudReads, for any set *)
(* of names, any inputs, any number of operations and any reads, in three  *)
(* parts: the bodies that pointers and rows lead to; who owns a name, what *)
(* the index offers, and the implementation of MemoryCatalogue; what a     *)
(* reader without the mutex may rely on.                                   *)
(***************************************************************************)
EXTENDS CloudReads, TLAPS

-----------------------------------------------------------------------------
(***************************************************************************)
(* 1. Types, and bodies: as long as the outcome of a commit is known.      *)
(***************************************************************************)

(* The operators of CloudStore.                                            *)

(* The record of a body is a document, and the keys of documents are bodies. *)
LEMMA DocForType ==
    ASSUME NEW k \in Content
    PROVE  DocFor(k) \in Doc
  BY DEF DocFor, Doc, Content

LEMMA KeysType ==
    ASSUME NEW docs, docs \subseteq Doc
    PROVE  KeysOf(docs) \subseteq Content
  BY DEF KeysOf, Doc

LEMMA SetByIdType ==
    ASSUME mem \subseteq Doc, NEW docs, docs \subseteq Doc
    PROVE  SetById(docs) \subseteq Doc
  BY DEF SetById

LEMMA SetByNameType ==
    ASSUME NEW old, old \subseteq Content, NEW keys, keys \subseteq Content
    PROVE  SetByName(old, keys) \subseteq Content
  BY DEF SetByName

(* Every metadata transaction an operation commits or undoes keeps the     *)
(* three collections well-typed.                                           *)
LEMMA CommitType ==
    ASSUME TypeOK, Commit
    PROVE  mem' \subseteq Doc /\ names' \subseteq Content /\ tombs' \subseteq Content
<1> USE DEF TypeOK, StoreTypeOK
<1>1. op.prev \subseteq Doc /\ op.next \subseteq Doc /\ Replaced \subseteq Content
      /\ Replacing \subseteq Content
  BY KeysType DEF Op, Replaced, Replacing
<1>2. ASSUME NEW d \in op.prev, DeleteMemoryIndex(d.key)
      PROVE  mem' \subseteq Doc /\ names' \subseteq Content /\ tombs' \subseteq Content
  BY <1>1, <1>2 DEF DeleteMemoryIndex, Doc
<1>3. ASSUME ReplaceMemoryIndexes(NamesOf(Replaced) \ NamesOf(Replacing), op.next, Replaced)
      PROVE  mem' \subseteq Doc /\ names' \subseteq Content /\ tombs' \subseteq Content
  BY <1>1, <1>3, SetByIdType, SetByNameType DEF ReplaceMemoryIndexes, Replacing
<1>4. ASSUME NEW d \in op.next, PutMemoryIndex(d)
      PROVE  mem' \subseteq Doc /\ names' \subseteq Content /\ tombs' \subseteq Content
  <2>1. {d} \subseteq Doc /\ {d.key} \subseteq Content
    BY <1>1 DEF Doc
  <2>2. QED
    BY <2>1, <1>4, SetByIdType, SetByNameType DEF PutMemoryIndex
<1>5. QED
  BY <1>2, <1>3, <1>4 DEF Commit

LEMMA RestoreType ==
    ASSUME TypeOK, Restore
    PROVE  mem' \subseteq Doc /\ names' \subseteq Content /\ tombs' \subseteq Content
<1> USE DEF TypeOK, StoreTypeOK
<1>1. op.prev \subseteq Doc /\ op.next \subseteq Doc /\ Replaced \subseteq Content
      /\ Replacing \subseteq Content
  BY KeysType DEF Op, Replaced, Replacing
<1>2. ASSUME NEW d \in op.next, RemoveMemoryIndex(d.key)
      PROVE  mem' \subseteq Doc /\ names' \subseteq Content /\ tombs' \subseteq Content
  BY <1>2 DEF RemoveMemoryIndex
<1>3. ASSUME RestoreMemoryIndexes(op.prev, op.next, Replaced)
      PROVE  mem' \subseteq Doc /\ names' \subseteq Content /\ tombs' \subseteq Content
  BY <1>1, <1>3, SetByIdType, SetByNameType DEF RestoreMemoryIndexes, Replaced
<1>4. ASSUME NEW d \in op.prev, NEW expected, RestoreMemoryIndex(d, expected)
      PROVE  mem' \subseteq Doc /\ names' \subseteq Content /\ tombs' \subseteq Content
  <2>1. {d} \subseteq Doc /\ {d.key} \subseteq Content
    BY <1>1 DEF Doc
  <2>2. SetById({d}) \subseteq Doc
        /\ SetByName({k \in names : k # expected}, {d.key}) \subseteq Content
    BY <2>1, SetByIdType, SetByNameType
  <2>3. QED
    BY <2>2, <1>4 DEF RestoreMemoryIndex
<1>5. QED
  BY <1>2, <1>3, <1>4 DEF Restore

-----------------------------------------------------------------------------
(* Type correctness.                                                       *)

(* A rewritten list is a list. *)
LEMMA RedirectType ==
    ASSUME NEW list \in LinkList, NEW old \in Names, NEW new \in Names
    PROVE  Redirect(list, old, new) \in LinkList
  BY DEF Redirect, LinkList

(* A body with another name, list or stamp is a body. *)
LEMMA ContentType ==
    ASSUME NEW k \in Content, NEW n \in Names, NEW list \in LinkList, NEW t \in Stamps
    PROVE  [k EXCEPT !.name = n, !.list = list, !.stamp = t] \in Content
  BY DEF Content

LEMMA FieldsType ==
    ASSUME NEW k \in Content
    PROVE  k.name \in Names /\ k.list \in LinkList
  BY DEF Content

(* An operation starts well-typed if its records are. *)
LEMMA BeginType ==
    ASSUME TypeOK, NEW kind \in Kinds \ {"none"}, NEW pc \in Pcs \ {"idle"},
           NEW prev, prev \subseteq Doc, NEW next, next \subseteq Doc,
           Begin(kind, pc, prev, next)
    PROVE  TypeOK'
<1>1. KeysOf(next) \subseteq Content
  BY KeysType
<1>2. op' \in Op /\ op'.kind # "none" /\ op'.pc # "idle"
  BY <1>1 DEF Begin, Op
<1>3. clock' \in 0..MaxOps
  BY MaxOpsAssumption DEF TypeOK, Begin
<1>4. QED
  BY <1>2, <1>3 DEF TypeOK, StoreTypeOK, Begin, storeVars

(* So does every operation a client may start. *)
LEMMA ClientType ==
    ASSUME TypeOK, Client
    PROVE  TypeOK'
<1>0. idx \subseteq Content /\ mem \subseteq Doc
  BY DEF TypeOK, StoreTypeOK
<1>1. ASSUME NEW n \in Names, NEW list \in Inputs, BeginSave(n, list)
      PROVE  TypeOK'
  <2>1. clock + 1 \in Stamps
    BY <1>1, MaxOpsAssumption DEF BeginSave, Begin, TypeOK, Stamps
  <2> DEFINE k == [id |-> clock + 1, name |-> n, list |-> list, stamp |-> clock + 1]
  <2>2. k \in Content
    BY <2>1, InputsAssumption DEF Content
  <2>3. {DocFor(k)} \subseteq Doc
    BY <2>2, DocForType
  <2>4. Begin("save", "write", {}, {DocFor(k)})
    BY <1>1 DEF BeginSave
  <2> HIDE DEF k
  <2>5. QED
    BY <2>3, <2>4, BeginType DEF Kinds, Pcs
<1>2. ASSUME NEW k \in idx, NEW list \in LinkList, Revise(k, list)
      PROVE  TypeOK'
  <2>1. clock + 1 \in Stamps
    BY <1>2, MaxOpsAssumption DEF Revise, Begin, TypeOK, Stamps
  <2> DEFINE e == [k EXCEPT !.list = list, !.stamp = clock + 1]
  <2>2. k \in Content /\ e \in Content
    <3>1. k \in Content
      BY <1>0
    <3>2. QED
      BY <3>1, <2>1 DEF Content
  <2>3. {DocFor(k)} \subseteq Doc /\ {DocFor(e)} \subseteq Doc
    BY <2>2, DocForType
  <2>4. Begin("update", "write", {DocFor(k)}, {DocFor(e)})
    BY <1>2 DEF Revise
  <2> HIDE DEF e
  <2>5. QED
    BY <2>3, <2>4, BeginType DEF Kinds, Pcs
<1>3. ASSUME NEW k \in idx, BeginForget(k)
      PROVE  TypeOK'
  <2>1. {DocFor(k)} \subseteq Doc
    BY <1>0, DocForType
  <2>2. QED
    BY <2>1, <1>3, BeginType DEF BeginForget, Kinds, Pcs
<1>4. ASSUME NEW k \in idx, NEW new \in Names, BeginRename(k, new)
      PROVE  TypeOK'
  <2> DEFINE old == k.name
             refs == Linking(old) \ {k}
             ref(r) == [r EXCEPT !.list = Redirect(@, old, new)]
             target == [k EXCEPT !.name = new, !.list = Redirect(@, old, new),
                                 !.stamp = clock + 1]
             prev == {DocFor(k)} \cup {[key |-> r, links |-> ref(r).list] : r \in refs}
             next == {DocFor(target)} \cup {DocFor(ref(r)) : r \in refs}
  <2>1. clock + 1 \in Stamps
    BY <1>4, MaxOpsAssumption DEF BeginRename, Begin, TypeOK, Stamps
  <2>2. k \in Content /\ old \in Names /\ k.list \in LinkList
    BY <1>0, FieldsType
  <2>3. target \in Content
    BY <2>1, <2>2, RedirectType, ContentType
  <2>4. ASSUME NEW r \in refs
        PROVE  r \in Content /\ ref(r) \in Content /\ ref(r).list \in LinkList
    <3>1. r \in Content /\ r.list \in LinkList
      BY <1>0 DEF Linking, Content
    <3>2. QED
      BY <3>1, <2>2, RedirectType DEF Content
  <2>5. prev \subseteq Doc
    <3>1. DocFor(k) \in Doc
      BY <2>2, DocForType
    <3>2. ASSUME NEW r \in refs
          PROVE  [key |-> r, links |-> ref(r).list] \in Doc
      BY <2>4 DEF Doc
    <3>3. QED
      BY <3>1, <3>2
  <2>6. next \subseteq Doc
    BY <2>3, <2>4, DocForType
  <2>7. Begin("rename", "write", prev, next)
    BY <1>4 DEF BeginRename
  <2> HIDE DEF prev, next
  <2>8. QED
    BY <2>5, <2>6, <2>7, BeginType DEF Kinds, Pcs
<1>5. CASE Reindex
  BY <1>5, <1>0, KeysType DEF Reindex, Rebuilt, TypeOK, StoreTypeOK, storeVars
<1>6. ASSUME NEW k \in idx, NEW dst \in Names, LinkMemories(k, dst)
      PROVE  TypeOK'
  <2>1. [k.list EXCEPT !.set = @ \cup {dst}] \in LinkList
    BY <1>0 DEF Content, LinkList
  <2>2. QED
    BY <2>1, <1>2, <1>6 DEF LinkMemories
<1>7. QED
  BY <1>1, <1>2, <1>3, <1>4, <1>5, <1>6, InputsAssumption DEF Client, BeginUpdate

(* What a step of an operation may do to the operation: move it on, or end it. *)
LEMMA GoToType ==
    ASSUME TypeOK, op.pc # "idle", NEW pc \in Pcs \ {"idle"},
           NEW todo, todo \subseteq Content, GoTo(pc, todo)
    PROVE  op' \in Op /\ (op'.kind = "none" <=> op'.pc = "idle")
  BY DEF TypeOK, GoTo, Op

LEMMA FinishType ==
    ASSUME Finish
    PROVE  op' \in Op /\ (op'.kind = "none" <=> op'.pc = "idle")
  BY DEF Finish, NoOp, Op, Kinds, Pcs

LEMMA GiveUpType ==
    ASSUME TypeOK, op.pc # "idle", GiveUp
    PROVE  op' \in Op /\ (op'.kind = "none" <=> op'.pc = "idle")
<1>1. Replacing \subseteq Content
  BY KeysType DEF TypeOK, Op, Replacing
<1>2. QED
  BY <1>1, GoToType, FinishType DEF GiveUp, Pcs

LEMMA RemovingType ==
    ASSUME TypeOK, NEW pc \in {"discard", "sweep"}, NEW k, Removing(pc, k)
    PROVE  /\ op' \in Op /\ (op'.kind = "none" <=> op'.pc = "idle")
           /\ k \in Content
           /\ UNCHANGED <<mem, names, idx, boot, clock>>
<1>1. op.todo \subseteq Content /\ k \in op.todo /\ op.pc = pc
  BY DEF TypeOK, Op, Removing
<1>2. CASE op.todo = {k}
  BY <1>1, <1>2, FinishType DEF Removing
<1>3. CASE op.todo # {k}
  <2>1. GoTo(pc, op.todo \ {k}) /\ op.todo \ {k} \subseteq Content
    BY <1>1, <1>3 DEF Removing
  <2>2. QED
    BY <1>1, <2>1, GoToType DEF Pcs, Removing
<1>4. QED
  BY <1>2, <1>3

LEMMA UploadType ==
    ASSUME TypeOK, Upload
    PROVE  TypeOK'
<1> USE DEF TypeOK, StoreTypeOK
<1>1. PICK k \in op.todo : Write(k) \/ WriteFails(k)
  BY DEF Upload
<1>2. op.todo \subseteq Content /\ Replacing \subseteq Content /\ op.pc = "write"
  BY <1>1, KeysType DEF Op, Replacing, Write, WriteFails, Uploading
<1>3. objs' \subseteq Content /\ UNCHANGED <<mem, names, tombs, idx, boot, clock>>
  BY <1>1, <1>2 DEF Write, WriteFails
<1>4. op' \in Op /\ (op'.kind = "none" <=> op'.pc = "idle")
  <2>1. CASE Write(k)
    <3>1. GoTo("commit", {}) \/ GoTo("write", op.todo \ {k})
      BY <2>1 DEF Write
    <3>2. QED
      BY <3>1, <1>2, GoToType DEF Pcs
  <2>2. CASE WriteFails(k)
    <3>1. GoTo("discard", (Replacing \ op.todo) \cup Fresh) \/ Finish
      BY <2>2 DEF WriteFails
    <3>2. (Replacing \ op.todo) \cup Fresh \subseteq Content
      BY <1>2 DEF Fresh
    <3>3. QED
      BY <3>1, <3>2, <1>2, GoToType, FinishType DEF Pcs
  <2>3. QED
    BY <1>1, <2>1, <2>2
<1>5. QED
  BY <1>3, <1>4

LEMMA OpStepType ==
    ASSUME TypeOK, OpStep
    PROVE  TypeOK'
<1> USE DEF TypeOK, StoreTypeOK
<1>0. Replaced \subseteq Content
  BY KeysType DEF Op, Replaced
<1>1. CASE Upload
  BY <1>1, UploadType
<1>2. CASE CommitMetadata
  BY <1>2, CommitType, GoToType DEF CommitMetadata, Pcs
<1>3. CASE CommitRejected
  BY <1>3, GiveUpType DEF CommitRejected, storeVars
<1>4. CASE CommitAckLost
  BY <1>4, CommitType, GiveUpType DEF CommitAckLost
<1>5. CASE CommitIndex
  <2>1. idx' \subseteq Content
    BY <1>5, KeysType DEF CommitIndex, Op, Replacing
  <2>2. GoTo("sweep", Replaced) /\ op.pc = "index"
    BY <1>5 DEF CommitIndex
  <2>3. QED
    BY <1>0, <1>5, <2>1, <2>2, GoToType DEF CommitIndex, Pcs, storeVars
<1>6. CASE IndexFails
  BY <1>6, GoToType DEF IndexFails, Pcs, storeVars
<1>7. CASE Compensate
  BY <1>7, RestoreType, GiveUpType DEF Compensate
<1>8. CASE CompensationFails
  BY <1>8, FinishType DEF CompensationFails, storeVars
<1>9. CASE CompensationAckLost
  BY <1>9, RestoreType, FinishType DEF CompensationAckLost
<1>10. ASSUME NEW k \in op.todo, Discard(k) \/ DiscardFails(k)
       PROVE  TypeOK'
  <2>1. Removing("discard", k) /\ objs' \subseteq Content
    BY <1>10 DEF Discard, DiscardFails, RemoveSucceeds, RemoveFails
  <2>2. tombs' \subseteq tombs \cup {k}
    BY <1>10 DEF Discard, DiscardFails, PutTombstone
  <2>3. QED
    BY <2>1, <2>2, RemovingType
<1>11. ASSUME NEW k \in op.todo, Sweep(k) \/ SweepFails(k)
       PROVE  TypeOK'
  <2>1. Removing("sweep", k) /\ objs' \subseteq Content
    BY <1>11 DEF Sweep, SweepFails, RemoveSucceeds, RemoveFails
  <2>2. tombs' \subseteq tombs
    BY <1>11 DEF Sweep, SweepFails, ClearTombstone
  <2>3. QED
    BY <2>1, <2>2, RemovingType
<1>12. CASE NothingToSweep
  BY <1>12, FinishType DEF NothingToSweep, storeVars
<1>13. QED
  BY <1>1, <1>2, <1>3, <1>4, <1>5, <1>6, <1>7, <1>8, <1>9, <1>10, <1>11, <1>12
     DEF OpStep, Metadata, Index, Undo, Cleanup

(* Firestore, the bucket, the index and the operation in flight always hold *)
(* what the code declares they hold, and an operation runs exactly while    *)
(* the mutex is held.                                                      *)
THEOREM TypeCorrect == Spec => []TypeOK
<1>1. Init => TypeOK
  BY MaxOpsAssumption DEF Init, StoreInit, TypeOK, StoreTypeOK, NoOp, Op, Kinds, Pcs
<1>2. TypeOK /\ [Next]_vars => TypeOK'
  <2> SUFFICES ASSUME TypeOK, [Next]_vars
               PROVE  TypeOK'
    OBVIOUS
  <2>1. CASE Boot \/ BootFails
    BY <2>1, KeysType
       DEF Boot, BootFails, Rebuilt, TypeOK, StoreTypeOK, storeVars
  <2>2. CASE Crash
    BY <2>2 DEF Crash, TypeOK, StoreTypeOK, storeVars, NoOp, Op, Kinds, Pcs
  <2>3. CASE Client
    BY <2>3, ClientType
  <2>4. CASE OpStep
    BY <2>4, OpStepType
  <2>5. CASE UNCHANGED vars
    BY <2>5 DEF vars, storeVars, TypeOK, StoreTypeOK
  <2>6. QED
    BY <2>1, <2>2, <2>3, <2>4, <2>5 DEF Next
<1>3. QED
  BY <1>1, <1>2, PTL DEF Spec

-----------------------------------------------------------------------------
(* Why no pointer and no row ever leads nowhere.                           *)

(* Setting documents by id keeps the other keys and adds those of the      *)
(* documents; a key of the same memory that is not added goes away.        *)
LEMMA SetByIdKeys ==
    ASSUME NEW docs, KeysOf(mem') = KeysOf(SetById(docs))
    PROVE  /\ KeysOf(mem') \subseteq KeysOf(mem) \cup KeysOf(docs)
           /\ \A k \in KeysOf(mem') : k.id \in IdsOf(KeysOf(docs)) => k \in KeysOf(docs)
  BY DEF SetById, KeysOf, IdsOf

(* What a commit does to the pointers: they stay or become one of those    *)
(* being committed, and none of those being replaced is left.              *)
LEMMA CommitKeys ==
    ASSUME TypeOK, Shape, Commit, op.pc = "commit", Replacing \cap idx = {}
    PROVE  /\ KeysOf(mem') \subseteq KeysOf(mem) \cup Replacing
           /\ Replaced \cap KeysOf(mem') = {}
<1>0. Replaced \subseteq idx /\ Replaced \cap Replacing = {}
  BY DEF Shape
<1>1. CASE op.kind = "forget"
  <2>1. PICK d \in op.prev : DeleteMemoryIndex(d.key)
    BY <1>1 DEF Commit
  <2>2. op.prev = {d} /\ Replaced = {d.key}
    BY <1>1, <2>1 DEF Shape, Replaced, KeysOf
  <2>3. QED
    BY <2>1, <2>2 DEF DeleteMemoryIndex, KeysOf
<1>2. CASE op.kind = "rename"
  <2>1. mem' = SetById(op.next)
    BY <1>2 DEF Commit, ReplaceMemoryIndexes
  <2>2. \A k \in Replaced : k.id \in IdsOf(Replacing)
    BY <1>2 DEF Shape, IdsOf
  <2>3. QED
    BY <1>0, <2>1, <2>2, SetByIdKeys DEF Replacing
<1>3. CASE op.kind \in {"save", "update"}
  <2>1. PICK d \in op.next : PutMemoryIndex(d)
    BY <1>3 DEF Commit
  <2>2. op.next = {d} /\ Replacing = {d.key}
    BY <1>3, <2>1 DEF Shape, Replacing, KeysOf
  <2>3. mem' = SetById({d}) /\ KeysOf({d}) = Replacing
    BY <2>1, <2>2 DEF PutMemoryIndex, Replacing
  <2>4. \A k \in Replaced : k.id \in IdsOf(Replacing)
    BY <1>3, <2>2 DEF Shape, IdsOf, Replaced, KeysOf
  <2>5. QED
    BY <1>0, <2>3, <2>4, SetByIdKeys
<1>4. QED
  BY <1>1, <1>2, <1>3 DEF Commit

(* What a compensation does to the pointers: they stay or become one of    *)
(* those the commit replaced, and none of those it committed is left.      *)
LEMMA RestoreKeys ==
    ASSUME TypeOK, Shape, Restore, op.pc = "restore", Replacing \cap idx = {}
    PROVE  /\ KeysOf(mem') \subseteq KeysOf(mem) \cup Replaced
           /\ Replacing \cap KeysOf(mem') = {}
<1>0. Replaced \subseteq idx /\ Replaced \cap Replacing = {}
  BY DEF Shape
<1>1. CASE op.kind = "save"
  <2>1. PICK d \in op.next : RemoveMemoryIndex(d.key)
    BY <1>1 DEF Restore
  <2>2. op.next = {d} /\ Replacing = {d.key}
    BY <1>1, <2>1 DEF Shape, Replacing, KeysOf
  <2>3. QED
    BY <2>1, <2>2 DEF RemoveMemoryIndex, KeysOf
<1>2. CASE op.kind = "rename"
  <2>1. mem' = SetById(op.prev)
    BY <1>2 DEF Restore, RestoreMemoryIndexes
  <2>2. \A k \in Replacing : k.id \in IdsOf(Replaced)
    BY <1>2 DEF Shape, IdsOf
  <2>3. QED
    BY <1>0, <2>1, <2>2, SetByIdKeys DEF Replaced
<1>3. CASE op.kind = "update"
  <2>1. PICK d \in op.prev, e \in op.next : RestoreMemoryIndex(d, e.key)
    BY <1>3 DEF Restore
  <2>2. /\ op.prev = {d} /\ Replaced = {d.key} /\ KeysOf({d}) = Replaced
        /\ op.next = {e} /\ Replacing = {e.key}
        /\ d.key.id = e.key.id
    BY <1>3, <2>1 DEF Shape, Replacing, Replaced, KeysOf
  <2>3. CASE Restorable(d, e.key)
    <3>1. mem' = SetById({d})
      BY <2>1, <2>3 DEF RestoreMemoryIndex
    <3>2. \A k \in Replacing : k.id \in IdsOf(Replaced)
      BY <2>2 DEF IdsOf
    <3>3. QED
      BY <1>0, <2>2, <3>1, <3>2, SetByIdKeys
  <2>4. CASE ~Restorable(d, e.key)
    BY <2>1, <2>2, <2>4 DEF RestoreMemoryIndex, Restorable
  <2>5. QED
    BY <2>3, <2>4
<1>4. CASE op.kind = "forget"
  <2>1. PICK d \in op.prev : RestoreMemoryIndex(d, d.key)
    BY <1>4 DEF Restore
  <2>2. Replacing = {} /\ Replaced = {d.key} /\ KeysOf({d}) = Replaced
    BY <1>4, <2>1 DEF Shape, Replacing, Replaced, KeysOf
  <2>3. CASE Restorable(d, d.key)
    BY <2>1, <2>2, <2>3, SetByIdKeys DEF RestoreMemoryIndex
  <2>4. CASE ~Restorable(d, d.key)
    BY <2>1, <2>2, <2>4 DEF RestoreMemoryIndex
  <2>5. QED
    BY <2>3, <2>4
<1>5. QED
  BY <1>1, <1>2, <1>3, <1>4 DEF Restore

(* What an operation replaces and commits, and which stamps there are, stays *)
(* in order when it ends and when it goes on.                              *)
LEMMA EndedOrder ==
    ASSUME StampsOrdered, op' = NoOp, clock' = clock,
           Live' \subseteq Live \cup Replaced \cup Replacing
    PROVE  Shape' /\ StampsOrdered' /\ op'.pc = "idle"
<1>1. Replaced' = {} /\ Replacing' = {} /\ op'.kind = "none" /\ op'.pc = "idle"
  BY DEF Replaced, Replacing, KeysOf, NoOp
<1>2. QED
  BY <1>1 DEF Shape, StampsOrdered

LEMMA MovedOrder ==
    ASSUME TypeOK, Shape, StampsOrdered, op.pc # "idle", boot' = boot, clock' = clock,
           NEW pc \in Pcs \ {"idle"}, NEW todo, GoTo(pc, todo),
           Live' \subseteq Live \cup Replaced \cup Replacing,
           \/ pc \in {"discard", "sweep"}
           \/ op.pc \in {"write", "commit", "index", "restore"} /\ idx' = idx,
           pc = "write" => op.pc = "write" /\ Live' = Live
    PROVE  /\ Shape' /\ StampsOrdered'
           /\ op'.pc = pc /\ op'.todo = todo
           /\ Replaced' = Replaced /\ Replacing' = Replacing
<1>1. /\ op'.pc = pc /\ op'.todo = todo /\ op'.kind = op.kind
      /\ op'.prev = op.prev /\ op'.next = op.next
  BY DEF TypeOK, Op, GoTo
<1>2. Replaced' = Replaced /\ Replacing' = Replacing
  BY <1>1 DEF Replaced, Replacing
<1>3. boot' = "ready"
  BY DEF Shape, NoOp
<1>4. Shape'
  BY <1>1, <1>2, <1>3 DEF Shape
<1>5. StampsOrdered'
  BY <1>1, <1>2 DEF StampsOrdered
<1>6. QED
  BY <1>1, <1>2, <1>4, <1>5

(* An operation that ends leaves nothing to argue about but the bodies.    *)
LEMMA EndedBodies ==
    ASSUME BodiesInv, op' = NoOp, clock' = clock,
           PointersResolve', IndexReadable',
           Live' \subseteq Live \cup Replaced \cup Replacing
    PROVE  BodiesInv'
<1>1. Shape' /\ StampsOrdered' /\ op'.pc = "idle"
  BY EndedOrder DEF BodiesInv
<1>2. QED
  BY <1>1 DEF BodiesInv, Uploaded, RemovesOnlyDead

(* An operation that turns to removing objects may remove what nothing     *)
(* leads to any more.                                                      *)
LEMMA CleaningBodies ==
    ASSUME TypeOK, BodiesInv, op.pc # "idle", boot' = boot, clock' = clock,
           NEW pc \in {"discard", "sweep"}, NEW todo, GoTo(pc, todo),
           PointersResolve', IndexReadable',
           Live' \subseteq Live \cup Replaced \cup Replacing,
           todo \cap Live' = {}
    PROVE  BodiesInv'
<1>1. Shape' /\ StampsOrdered' /\ op'.pc = pc /\ op'.todo = todo
  BY MovedOrder DEF BodiesInv, Pcs
<1>2. QED
  BY <1>1 DEF BodiesInv, Uploaded, RemovesOnlyDead

(* Giving up removes what was uploaded, which must no longer be pointed to. *)
LEMMA GivenUpBodies ==
    ASSUME TypeOK, BodiesInv, op.pc # "idle", boot' = boot, clock' = clock, GiveUp,
           PointersResolve', IndexReadable',
           Live' \subseteq Live \cup Replaced \cup Replacing,
           Replacing \cap Live' = {}
    PROVE  BodiesInv'
<1>1. CASE op.kind = "forget"
  BY <1>1, EndedBodies DEF GiveUp, Finish
<1>2. CASE op.kind # "forget"
  BY <1>2, CleaningBodies DEF GiveUp
<1>3. QED
  BY <1>1, <1>2

(* The bodies, the pointers and the rows stay what they are while an       *)
(* operation moves from one of its first steps to the next.                *)
LEMMA MovingBodies ==
    ASSUME TypeOK, BodiesInv, op.pc # "idle", boot' = boot, clock' = clock,
           NEW pc \in {"write", "commit", "index", "restore"}, NEW todo, GoTo(pc, todo),
           PointersResolve', IndexReadable', idx' = idx,
           Live' \subseteq Live \cup Replacing,
           op.pc \in {"write", "commit", "index", "restore"},
           pc = "write" => op.pc = "write" /\ Live' = Live,
           Uploaded'
    PROVE  BodiesInv'
<1>1. Shape' /\ StampsOrdered' /\ op'.pc = pc
  BY MovedOrder DEF BodiesInv, Pcs
<1>2. QED
  BY <1>1 DEF BodiesInv, RemovesOnlyDead

LEMMA KeysOfDocs ==
    ASSUME NEW keys
    PROVE  KeysOf({DocFor(e) : e \in keys}) = keys
<1> DEFINE docs == {DocFor(e) : e \in keys}
<1>1. \A e : DocFor(e).key = e
  BY DEF DocFor
<1>2. (\A d \in docs : d.key \in keys) /\ (\A e \in keys : \E d \in docs : d.key = e)
  BY <1>1
<1> HIDE DEF docs
<1>3. KeysOf(docs) = keys
  BY <1>2 DEF KeysOf
<1>4. QED
  BY <1>3 DEF docs

LEMMA KeysOfUnion ==
    ASSUME NEW docs, NEW more
    PROVE  KeysOf(docs \cup more) = KeysOf(docs) \cup KeysOf(more)
  BY DEF KeysOf

(* An operation begins with records of the right shape, made of rows and of *)
(* keys that carry the new stamp.                                          *)
Begun ==
    /\ op'.pc \in {"write", "commit"} /\ op'.todo = Replacing'
    /\ op'.pc = "commit" => Replacing' = {}
    /\ UNCHANGED <<mem, objs, idx>>
    /\ Shape' /\ StampsOrdered'

LEMMA BegunWell ==
    ASSUME TypeOK, StampsOrdered, NEW kind, NEW pc \in {"write", "commit"}, NEW prev, NEW next,
           Begin(kind, pc, prev, next), Shape',
           pc = "commit" => next = {},
           \A k \in KeysOf(prev) \cup KeysOf(next) : k \in idx \/ k.stamp <= clock + 1
    PROVE  Begun
<1>1. /\ op'.pc = pc /\ op'.prev = prev /\ op'.next = next /\ op'.todo = KeysOf(next)
      /\ clock' = clock + 1 /\ clock \in Nat
      /\ UNCHANGED <<mem, names, tombs, objs, idx, boot>>
  BY MaxOpsAssumption DEF Begin, storeVars, TypeOK
<1>2. Replaced' = KeysOf(prev) /\ Replacing' = KeysOf(next)
  BY <1>1 DEF Replaced, Replacing
<1>3. Live' = Live
  BY <1>1 DEF Live, KeysOf
<1>4. StampsOrdered'
  <2>1. \A k \in Live : k.stamp \in Nat /\ k.stamp <= clock
    BY KeysType, MaxOpsAssumption
       DEF StampsOrdered, Live, TypeOK, StoreTypeOK, Content, Stamps
  <2>2. \A k \in KeysOf(prev) \cup KeysOf(next) : k.stamp <= clock + 1
    BY <1>1, <2>1 DEF Live
  <2>3. QED
    BY <1>1, <1>2, <1>3, <2>1, <2>2 DEF StampsOrdered
<1>5. KeysOf({}) = {}
  BY DEF KeysOf
<1>6. QED
  BY <1>1, <1>2, <1>4, <1>5 DEF Begun

(* Of what failed before, nothing enters but that no stamp is ahead of the  *)
(* clock.                                                                  *)
LEMMA ClientBegins ==
    ASSUME TypeOK, StampsOrdered, Client, ~Reindex
    PROVE  Begun
<1>0. clock \in Nat /\ idx \subseteq Content
  BY MaxOpsAssumption DEF TypeOK
<1>1. ASSUME NEW n \in Names, NEW list \in Inputs, BeginSave(n, list)
      PROVE  Begun
  <2> DEFINE e == DocFor([id |-> clock + 1, name |-> n, list |-> list, stamp |-> clock + 1])
  <2>1. Begin("save", "write", {}, {e}) /\ e.key.stamp = clock + 1
    BY <1>1 DEF BeginSave, DocFor
  <2>2. \A k \in KeysOf({}) \cup KeysOf({e}) : k.stamp <= clock + 1
    BY <1>0, <2>1 DEF KeysOf
  <2> HIDE DEF e
  <2>3. Shape'
    BY <2>1 DEF Begin, Shape, Idle, Replaced, KeysOf
  <2>4. QED
    BY <2>1, <2>2, <2>3, BegunWell
<1>2. ASSUME NEW k \in idx, NEW list, Revise(k, list)
      PROVE  Begun
  <2> DEFINE d == DocFor(k)
             e == DocFor([k EXCEPT !.list = list, !.stamp = clock + 1])
  <2>1. /\ Begin("update", "write", {d}, {e})
        /\ d.key = k /\ e.key.id = k.id /\ e.key.stamp = clock + 1
    BY <1>0, <1>2 DEF Revise, DocFor, Content
  <2>2. \A l \in KeysOf({d}) \cup KeysOf({e}) : l \in idx \/ l.stamp <= clock + 1
    BY <1>0, <2>1 DEF KeysOf
  <2> HIDE DEF d, e
  <2>3. Shape'
    BY <2>1 DEF Begin, Shape, Idle, Replaced, KeysOf
  <2>4. QED
    BY <2>1, <2>2, <2>3, BegunWell
<1>3. ASSUME NEW k \in idx, BeginForget(k)
      PROVE  Begun
  <2> DEFINE d == DocFor(k)
  <2>1. Begin("forget", "commit", {d}, {}) /\ d.key = k
    BY <1>3 DEF BeginForget, DocFor
  <2>2. \A l \in KeysOf({d}) \cup KeysOf({}) : l \in idx
    BY <2>1 DEF KeysOf
  <2> HIDE DEF d
  <2>3. Shape'
    BY <2>1 DEF Begin, Shape, Idle, Replaced, KeysOf
  <2>4. QED
    BY <2>1, <2>2, <2>3, BegunWell
<1>4. ASSUME NEW k \in idx, NEW new \in Names, BeginRename(k, new)
      PROVE  Begun
  <2> DEFINE old == k.name
             refs == Linking(old) \ {k}
             ref(r) == [r EXCEPT !.list = Redirect(@, old, new)]
             target == [k EXCEPT !.name = new, !.list = Redirect(@, old, new),
                                 !.stamp = clock + 1]
             prev == {DocFor(k)} \cup {[key |-> r, links |-> ref(r).list] : r \in refs}
             next == {DocFor(target)} \cup {DocFor(ref(r)) : r \in refs}
  <2>1. Begin("rename", "write", prev, next)
    BY <1>4 DEF BeginRename
  <2>2. KeysOf(prev) = {k} \cup refs
    <3>1. KeysOf({DocFor(k)}) = {k}
      BY DEF KeysOf, DocFor
    <3> DEFINE moved == {[key |-> r, links |-> ref(r).list] : r \in refs}
    <3> HIDE DEF refs, ref
    <3>2. ASSUME NEW d \in moved
          PROVE  d.key \in refs
      OBVIOUS
    <3>3. ASSUME NEW r \in refs
          PROVE  \E d \in moved : d.key = r
      <4>1. [key |-> r, links |-> ref(r).list] \in moved
        OBVIOUS
      <4>2. QED
        BY <4>1
    <3>4. QED
      <4> HIDE DEF moved
      <4>1. KeysOf(moved) = refs
        BY <3>2, <3>3 DEF KeysOf
      <4>2. prev = {DocFor(k)} \cup moved
        BY DEF moved
      <4> HIDE DEF prev
      <4>3. QED
        BY <3>1, <4>1, <4>2, KeysOfUnion
  <2>3. KeysOf(next) = {target} \cup {ref(r) : r \in refs}
    <3>1. next = {DocFor(e) : e \in {target} \cup {ref(r) : r \in refs}}
      <4> HIDE DEF refs, ref, target
      <4>1. QED
        OBVIOUS
    <3> HIDE DEF next
    <3>2. QED
      BY <3>1, KeysOfDocs
  <2>4. target.id = k.id /\ target.stamp = clock + 1
    BY <1>0 DEF Content
  <2>5. \A r \in refs : r \in idx /\ ref(r).id = r.id /\ ref(r).stamp = r.stamp
    BY <1>0 DEF Linking, Content
  <2>6. \A r \in idx : r.stamp \in Nat /\ r.stamp <= clock
    BY <1>0 DEF StampsOrdered, Live, Content, Stamps
  <2>7. \A l \in KeysOf(prev) \cup KeysOf(next) : l \in idx \/ l.stamp <= clock + 1
    <3>1. \A r \in refs : ref(r).stamp <= clock + 1
      BY <1>0, <2>5, <2>6
    <3>2. target.stamp <= clock + 1
      BY <1>0, <2>4
    <3> HIDE DEF target, refs, ref, prev, next
    <3>3. QED
      BY <2>2, <2>3, <2>5, <3>1, <3>2
  <2>8. IdsOf(KeysOf(prev)) = IdsOf(KeysOf(next))
    <3> HIDE DEF target, refs, ref, prev, next
    <3>1. QED
      BY <2>2, <2>3, <2>4, <2>5 DEF IdsOf
  <2>9. KeysOf(prev) \subseteq idx
    <3> HIDE DEF refs, prev
    <3>1. QED
      BY <2>2, <2>5
  <2> HIDE DEF prev, next
  <2>10. Shape'
    BY <2>1, <2>8, <2>9 DEF Begin, Shape, Idle, Replaced, Replacing
  <2>11. QED
    BY <2>1, <2>7, <2>10, BegunWell
<1>5. QED
  BY <1>1, <1>2, <1>3, <1>4 DEF Client, BeginUpdate, LinkMemories

LEMMA ClientBodies ==
    ASSUME TypeOK, BodiesInv, Client
    PROVE  BodiesInv'
<1>1. CASE ~Reindex
  <2>1. Begun
    BY <1>1, ClientBegins DEF BodiesInv
  <2>2. KeysOf(mem)' = KeysOf(mem)
    BY <2>1 DEF Begun, KeysOf
  <2>3. PointersResolve' /\ IndexReadable'
    BY <2>1, <2>2 DEF Begun, BodiesInv, PointersResolve, IndexReadable
  <2>4. Uploaded' /\ RemovesOnlyDead'
    BY <2>1 DEF Begun, Uploaded, RemovesOnlyDead
  <2>5. QED
    BY <2>1, <2>3, <2>4 DEF Begun, BodiesInv
<1>2. CASE Reindex
  <2>1. op = NoOp /\ op' = NoOp /\ clock' = clock /\ mem' = mem /\ objs' = objs
    BY <1>2 DEF Reindex, Idle, storeVars
  <2>2. idx' \subseteq KeysOf(mem) /\ idx' \subseteq objs /\ KeysOf(mem)' = KeysOf(mem)
    BY <1>2, <2>1 DEF Reindex, Rebuilt, KeysOf
  <2>3. PointersResolve' /\ IndexReadable' /\ Live' \subseteq Live
    BY <2>1, <2>2 DEF BodiesInv, PointersResolve, IndexReadable, Live
  <2>4. QED
    BY <2>1, <2>3, EndedBodies
<1>3. QED
  BY <1>1, <1>2

(* A refused or accepted upload: ifGenerationMatch keeps every body that    *)
(* something leads to.                                                     *)
LEMMA UploadBodies ==
    ASSUME TypeOK, BodiesInv, Upload
    PROVE  BodiesInv'
<1>1. PICK k \in op.todo : Write(k) \/ WriteFails(k)
  BY DEF Upload
<1>2. /\ op.pc = "write" /\ UNCHANGED <<mem, idx, boot, clock>> /\ objs \subseteq objs'
  BY <1>1 DEF Write, WriteFails, Uploading
<1>3. KeysOf(mem)' = KeysOf(mem) /\ Live' = Live /\ PointersResolve' /\ IndexReadable'
  BY <1>2 DEF BodiesInv, PointersResolve, IndexReadable, Live, KeysOf
<1>4. CASE Write(k)
  <2>1. k \notin Live /\ k \in objs'
    BY <1>4 DEF Write, BodiesInv, PointersResolve, IndexReadable, Live
  <2>2. (Replacing \ op.todo) \cap Live = {} /\ Replacing \ op.todo \subseteq objs
    BY <1>2 DEF BodiesInv, Uploaded
  <2>3. CASE op.todo = {k} /\ GoTo("commit", {})
    <3>1. op'.pc = "commit" /\ Replacing' = Replacing
      BY <2>3 DEF TypeOK, Op, GoTo, Replacing
    <3>2. Replacing \subseteq objs' /\ Replacing \cap Live = {}
      BY <1>2, <2>1, <2>2, <2>3
    <3>3. Uploaded'
      BY <1>2, <1>3, <3>1, <3>2 DEF Uploaded, Live
    <3>4. QED
      BY <1>2, <1>3, <2>3, <3>3, MovingBodies
  <2>4. CASE GoTo("write", op.todo \ {k})
    <3>1. op'.pc = "write" /\ op'.todo = op.todo \ {k} /\ Replacing' = Replacing
      BY <2>4 DEF TypeOK, Op, GoTo, Replacing
    <3>2. Uploaded'
      BY <1>2, <1>3, <2>1, <2>2, <3>1 DEF Uploaded
    <3>3. QED
      BY <1>2, <1>3, <2>4, <3>2, MovingBodies
  <2>5. QED
    BY <1>4, <2>3, <2>4 DEF Write
<1>5. CASE WriteFails(k)
  <2>1. CASE Finish
    BY <1>2, <1>3, <2>1, EndedBodies DEF Finish
  <2>2. CASE GoTo("discard", (Replacing \ op.todo) \cup Fresh)
    <3>1. Fresh \cap Live = {}
      BY <1>2, MaxOpsAssumption DEF Fresh, BodiesInv, StampsOrdered, TypeOK
    <3>2. ((Replacing \ op.todo) \cup Fresh) \cap Live' = {}
      BY <1>2, <1>3, <3>1 DEF BodiesInv, Uploaded
    <3>3. QED
      BY <1>2, <1>3, <2>2, <3>2, CleaningBodies
  <2>3. QED
    BY <1>5, <2>1, <2>2 DEF WriteFails
<1>6. QED
  BY <1>1, <1>4, <1>5

(* The commit moves the pointers to bodies that have been uploaded.        *)
LEMMA MetadataBodies ==
    ASSUME TypeOK, BodiesInv, CommitMetadata \/ CommitRejected
    PROVE  BodiesInv'
<1>1. /\ op.pc = "commit" /\ UNCHANGED <<objs, idx, boot, clock>>
      /\ Replacing \subseteq objs /\ Replacing \cap Live = {} /\ Replacing \cap idx = {}
  BY DEF CommitMetadata, CommitRejected, storeVars, BodiesInv, Uploaded
<1>2. CASE CommitMetadata
  <2>1. KeysOf(mem') \subseteq KeysOf(mem) \cup Replacing /\ Replaced \cap KeysOf(mem') = {}
    BY <1>1, <1>2, CommitKeys DEF CommitMetadata, BodiesInv
  <2>2. KeysOf(mem)' = KeysOf(mem') /\ Live' = KeysOf(mem') \cup idx
    BY <1>1 DEF KeysOf, Live
  <2>3. PointersResolve' /\ IndexReadable' /\ Live' \subseteq Live \cup Replacing
    BY <1>1, <2>1, <2>2 DEF BodiesInv, PointersResolve, IndexReadable, Live
  <2>4. GoTo("index", {})
    BY <1>2 DEF CommitMetadata
  <2>5. op'.pc = "index" /\ Replaced' = Replaced /\ Replacing' = Replacing
    BY <2>4 DEF TypeOK, Op, GoTo, Replaced, Replacing
  <2>6. Uploaded'
    BY <1>1, <2>1, <2>2, <2>5 DEF Uploaded
  <2>7. QED
    BY <1>1, <2>3, <2>4, <2>6, MovingBodies
<1>3. CASE CommitRejected
  <2>1. GiveUp /\ mem' = mem
    BY <1>3 DEF CommitRejected, storeVars
  <2>2. Live' = Live /\ PointersResolve' /\ IndexReadable'
    BY <1>1, <2>1 DEF BodiesInv, PointersResolve, IndexReadable, Live, KeysOf
  <2>3. QED
    BY <1>1, <2>1, <2>2, GivenUpBodies
<1>4. QED
  BY <1>2, <1>3

(* The index follows the pointers and leaves what they left.               *)
LEMMA IndexBodies ==
    ASSUME TypeOK, BodiesInv, Index
    PROVE  BodiesInv'
<1>1. /\ op.pc = "index" /\ UNCHANGED <<mem, objs, boot, clock>>
      /\ Replacing \subseteq objs /\ Replacing \cap idx = {}
      /\ Replaced \cap KeysOf(mem) = {} /\ Replaced \subseteq idx
  BY DEF Index, CommitIndex, IndexFails, storeVars, BodiesInv, Uploaded, Shape
<1>2. KeysOf(mem)' = KeysOf(mem) /\ PointersResolve'
  BY <1>1 DEF KeysOf, BodiesInv, PointersResolve
<1>3. CASE CommitIndex
  <2>1. GoTo("sweep", Replaced)
        /\ idx' = {k \in idx : k.id \notin IdsOf(Replaced)} \cup Replacing
    BY <1>3 DEF CommitIndex
  <2>2. IndexReadable' /\ Live' \subseteq Live \cup Replacing
    BY <1>1, <1>2, <2>1 DEF BodiesInv, IndexReadable, Live
  <2>3. Replaced \cap Live' = {}
    BY <1>1, <1>2, <2>1 DEF Live, IdsOf
  <2>4. QED
    BY <1>1, <1>2, <2>1, <2>2, <2>3, CleaningBodies
<1>4. CASE IndexFails
  <2>1. GoTo("restore", {}) /\ idx' = idx
    BY <1>4 DEF IndexFails
  <2>2. IndexReadable' /\ Live' = Live
    BY <1>1, <1>2, <2>1 DEF BodiesInv, IndexReadable, Live
  <2>3. op'.pc = "restore" /\ Replacing' = Replacing
    BY <2>1 DEF TypeOK, Op, GoTo, Replacing
  <2>4. Uploaded'
    BY <1>1, <2>1, <2>3 DEF Uploaded
  <2>5. QED
    BY <1>1, <1>2, <2>1, <2>2, <2>4, MovingBodies
<1>5. QED
  BY <1>3, <1>4 DEF Index

(* A compensation takes the pointers back to bodies that were not removed. *)
LEMMA UndoBodies ==
    ASSUME TypeOK, BodiesInv, Compensate \/ CompensationFails
    PROVE  BodiesInv'
<1>1. /\ op.pc = "restore" /\ UNCHANGED <<objs, idx, boot, clock>>
      /\ Replacing \cap idx = {} /\ Replaced \subseteq idx
  BY DEF Compensate, CompensationFails, storeVars, BodiesInv, Uploaded, Shape
<1>2. CASE Compensate
  <2>1. KeysOf(mem') \subseteq KeysOf(mem) \cup Replaced /\ Replacing \cap KeysOf(mem') = {}
    BY <1>1, <1>2, RestoreKeys DEF Compensate, BodiesInv
  <2>2. KeysOf(mem)' = KeysOf(mem') /\ Live' = KeysOf(mem') \cup idx
    BY <1>1 DEF KeysOf, Live
  <2>3. /\ PointersResolve' /\ IndexReadable' /\ Live' \subseteq Live \cup Replaced
        /\ Replacing \cap Live' = {}
    BY <1>1, <2>1, <2>2 DEF BodiesInv, PointersResolve, IndexReadable, Live
  <2>4. QED
    BY <1>1, <1>2, <2>3, GivenUpBodies DEF Compensate
<1>3. CASE CompensationFails
  <2>1. Live' = Live /\ PointersResolve' /\ IndexReadable' /\ op' = NoOp
    BY <1>1, <1>3 DEF CompensationFails, Finish, storeVars, BodiesInv,
                      PointersResolve, IndexReadable, Live, KeysOf
  <2>2. QED
    BY <1>1, <2>1, EndedBodies
<1>4. QED
  BY <1>2, <1>3

(* What a cleanup removes, nothing leads to.                               *)
LEMMA CleanupBodies ==
    ASSUME TypeOK, BodiesInv, Cleanup
    PROVE  BodiesInv'
<1>1. ASSUME NEW k \in op.todo, NEW pc \in {"discard", "sweep"}, Removing(pc, k),
             objs \ {k} \subseteq objs'
      PROVE  BodiesInv'
  <2>1. op.pc = pc /\ UNCHANGED <<mem, idx, boot, clock>>
    BY <1>1 DEF Removing
  <2>2. k \notin Live /\ op.todo \cap Live = {}
    BY <1>1, <2>1 DEF BodiesInv, RemovesOnlyDead
  <2>3. Live' = Live /\ PointersResolve' /\ IndexReadable'
    BY <1>1, <2>1, <2>2 DEF BodiesInv, PointersResolve, IndexReadable, Live, KeysOf
  <2>4. CASE Finish
    BY <2>1, <2>3, <2>4, EndedBodies DEF Finish
  <2>5. CASE GoTo(pc, op.todo \ {k})
    BY <2>1, <2>2, <2>3, <2>5, CleaningBodies
  <2>6. QED
    BY <1>1, <2>4, <2>5 DEF Removing
<1>2. CASE NothingToSweep
  <2>1. Live' = Live /\ PointersResolve' /\ IndexReadable' /\ op' = NoOp /\ clock' = clock
    BY <1>2 DEF NothingToSweep, Finish, storeVars, BodiesInv,
                PointersResolve, IndexReadable, Live, KeysOf
  <2>2. QED
    BY <2>1, EndedBodies
<1>3. ASSUME NEW k \in op.todo, Discard(k) \/ DiscardFails(k)
      PROVE  BodiesInv'
  <2>1. Removing("discard", k) /\ objs \ {k} \subseteq objs'
    BY <1>3 DEF Discard, DiscardFails, RemoveSucceeds, RemoveFails
  <2>2. QED
    BY <1>1, <2>1
<1>4. ASSUME NEW k \in op.todo, Sweep(k) \/ SweepFails(k)
      PROVE  BodiesInv'
  <2>1. Removing("sweep", k) /\ objs \ {k} \subseteq objs'
    BY <1>4 DEF Sweep, SweepFails, RemoveSucceeds, RemoveFails
  <2>2. QED
    BY <1>1, <2>1
<1>5. QED
  BY <1>2, <1>3, <1>4 DEF Cleanup

(* As long as the caller of a metadata transaction learns its outcome,     *)
(* bodies, pointers and rows stay in the order the operations rely on:     *)
(* whatever else fails, and wherever the instance dies.                    *)
THEOREM BodiesStay ==
    ASSUME "commitAck" \notin Faults
    PROVE  Spec => []BodiesInv
<1>1. Init => BodiesInv
  BY DEF Init, StoreInit, BodiesInv, PointersResolve, IndexReadable, Shape, StampsOrdered,
         Uploaded, RemovesOnlyDead, NoOp, Live, Replaced, Replacing, KeysOf
<1>2. TypeOK /\ BodiesInv /\ [Next]_vars => BodiesInv'
  <2> SUFFICES ASSUME TypeOK, BodiesInv, [Next]_vars
               PROVE  BodiesInv'
    OBVIOUS
  <2>1. CASE Boot
    <3>1. op' = NoOp /\ clock' = clock /\ mem' = mem /\ objs' = objs
      BY <2>1 DEF Boot, storeVars, BodiesInv, Shape
    <3>2. idx' \subseteq KeysOf(mem) /\ idx' \subseteq objs /\ KeysOf(mem)' = KeysOf(mem)
      BY <2>1, <3>1 DEF Boot, Rebuilt, KeysOf
    <3>3. PointersResolve' /\ IndexReadable' /\ Live' \subseteq Live
      BY <3>1, <3>2 DEF BodiesInv, PointersResolve, IndexReadable, Live
    <3>4. QED
      BY <3>1, <3>3, EndedBodies
  <2>2. CASE BootFails
    <3>1. /\ op' = NoOp /\ clock' = clock /\ Live' = Live
          /\ PointersResolve' /\ IndexReadable'
      BY <2>2 DEF BootFails, storeVars, BodiesInv, Shape, PointersResolve, IndexReadable,
                  Live, KeysOf
    <3>2. QED
      BY <3>1, EndedBodies
  <2>3. CASE Crash
    <3>1. /\ op' = NoOp /\ clock' = clock /\ Live' \subseteq Live
          /\ PointersResolve' /\ IndexReadable'
      BY <2>3 DEF Crash, storeVars, BodiesInv, PointersResolve, IndexReadable, Live, KeysOf
    <3>2. QED
      BY <3>1, EndedBodies
  <2>4. CASE Client
    BY <2>4, ClientBodies
  <2>5. CASE OpStep
    BY <2>5, UploadBodies, MetadataBodies, IndexBodies, UndoBodies, CleanupBodies
       DEF OpStep, Metadata, Undo, CommitAckLost, CompensationAckLost
  <2>6. CASE UNCHANGED vars
    BY <2>6 DEF vars, storeVars, BodiesInv, PointersResolve, IndexReadable, Shape,
                StampsOrdered, Uploaded, RemovesOnlyDead, Live, Replaced, Replacing
  <2>7. QED
    BY <2>1, <2>2, <2>3, <2>4, <2>5, <2>6 DEF Next
<1>3. QED
  BY <1>1, <1>2, TypeCorrect, PTL DEF Spec

(* Every metadata pointer leads to a body.                                 *)
THEOREM PointersAlwaysResolve ==
    ASSUME "commitAck" \notin Faults
    PROVE  Spec => []PointersResolve
<1>1. BodiesInv => PointersResolve
  BY DEF BodiesInv
<1>2. QED
  BY <1>1, BodiesStay, PTL

-----------------------------------------------------------------------------
(* Rows alone, when the outcome of a commit may be lost: pointers may then  *)
(* lead to bodies that were removed, but only bodies that exist get a row,  *)
(* and no operation removes one that has a row.                            *)
RowsInv ==
    /\ IndexReadable
    /\ Shape
    /\ StampsOrdered
    /\ op.pc = "write" => Replacing \ op.todo \subseteq objs \ idx
    /\ op.pc \in {"commit", "index", "restore"} => Replacing \subseteq objs \ idx
    /\ op.pc \in {"discard", "sweep"} => op.todo \cap idx = {}

LEMMA EndedRows ==
    ASSUME RowsInv, op' = NoOp, clock' = clock, IndexReadable',
           Live' \subseteq Live \cup Replaced \cup Replacing
    PROVE  RowsInv'
<1>1. Shape' /\ StampsOrdered' /\ op'.pc = "idle"
  BY EndedOrder DEF RowsInv
<1>2. QED
  BY <1>1 DEF RowsInv

LEMMA CleaningRows ==
    ASSUME TypeOK, RowsInv, op.pc # "idle", boot' = boot, clock' = clock,
           NEW pc \in {"discard", "sweep"}, NEW todo, GoTo(pc, todo), IndexReadable',
           Live' \subseteq Live \cup Replaced \cup Replacing, todo \cap idx' = {}
    PROVE  RowsInv'
<1>1. Shape' /\ StampsOrdered' /\ op'.pc = pc /\ op'.todo = todo
  BY MovedOrder DEF RowsInv, Pcs
<1>2. QED
  BY <1>1 DEF RowsInv

(* Giving up ends the operation or turns to removing what it uploaded. *)
LEMMA GivenUpRows ==
    ASSUME TypeOK, RowsInv, op.pc # "idle", UNCHANGED <<objs, idx, boot, clock>>,
           GiveUp \/ Finish, Live' \subseteq Live \cup Replaced \cup Replacing,
           Replacing \cap idx = {}
    PROVE  RowsInv'
<1>1. IndexReadable'
  BY DEF RowsInv, IndexReadable
<1>2. CASE Finish
  BY <1>1, <1>2, EndedRows DEF Finish
<1>3. CASE GoTo("discard", Replacing)
  BY <1>1, <1>3, CleaningRows
<1>4. QED
  BY <1>2, <1>3 DEF GiveUp

LEMMA ClientRows ==
    ASSUME TypeOK, RowsInv, Client
    PROVE  RowsInv'
<1>1. CASE Reindex
  <2>1. op' = NoOp /\ clock' = clock /\ objs' = objs /\ mem' = mem
    BY <1>1 DEF Reindex, Idle, storeVars
  <2>2. idx' \subseteq KeysOf(mem) /\ idx' \subseteq objs
    BY <1>1 DEF Reindex, Rebuilt
  <2>3. IndexReadable' /\ Live' \subseteq Live
    BY <2>1, <2>2 DEF IndexReadable, Live, KeysOf
  <2>4. QED
    BY <2>1, <2>3, EndedRows
<1>2. CASE ~Reindex
  <2>1. Begun
    BY <1>2, ClientBegins DEF RowsInv
  <2>2. QED
    BY <2>1 DEF Begun, RowsInv, IndexReadable
<1>3. QED
  BY <1>1, <1>2

LEMMA UploadRows ==
    ASSUME TypeOK, RowsInv, Upload
    PROVE  RowsInv'
<1>1. PICK k \in op.todo : Write(k) \/ WriteFails(k)
  BY DEF Upload
<1>2. /\ op.pc = "write" /\ UNCHANGED <<mem, idx, boot, clock>> /\ objs \subseteq objs'
  BY <1>1 DEF Write, WriteFails, Uploading
<1>3. Live' = Live /\ IndexReadable'
  BY <1>2 DEF RowsInv, IndexReadable, Live, KeysOf
<1>4. Replacing \ op.todo \subseteq objs \ idx
  BY <1>2 DEF RowsInv
<1>5. CASE Write(k)
  <2>1. k \notin idx /\ k \in objs'
    BY <1>5 DEF Write, RowsInv, IndexReadable
  <2>2. Replacing \ (op.todo \ {k}) \subseteq objs' \ idx'
    BY <1>2, <1>4, <2>1
  <2>3. CASE op.todo = {k} /\ GoTo("commit", {})
    <3>1. Shape' /\ StampsOrdered' /\ op'.pc = "commit" /\ Replacing' = Replacing
      BY <1>2, <1>3, <2>3, MovedOrder DEF RowsInv, Pcs
    <3>2. QED
      BY <1>3, <2>2, <2>3, <3>1 DEF RowsInv
  <2>4. CASE GoTo("write", op.todo \ {k})
    <3>1. /\ Shape' /\ StampsOrdered' /\ op'.pc = "write" /\ Replacing' = Replacing
          /\ op'.todo = op.todo \ {k}
      BY <1>2, <1>3, <2>4, MovedOrder DEF RowsInv, Pcs
    <3>2. QED
      BY <1>3, <2>2, <3>1 DEF RowsInv
  <2>5. QED
    BY <1>5, <2>3, <2>4 DEF Write
<1>6. CASE WriteFails(k)
  <2>1. CASE Finish
    BY <1>2, <1>3, <2>1, EndedRows DEF Finish
  <2>2. CASE GoTo("discard", (Replacing \ op.todo) \cup Fresh)
    <3>1. Fresh \cap Live = {}
      BY <1>2, MaxOpsAssumption DEF Fresh, RowsInv, StampsOrdered, TypeOK
    <3>2. ((Replacing \ op.todo) \cup Fresh) \cap idx' = {}
      BY <1>2, <1>4, <3>1 DEF Live
    <3>3. QED
      BY <1>2, <1>3, <2>2, <3>2, CleaningRows
  <2>3. QED
    BY <1>6, <2>1, <2>2 DEF WriteFails
<1>7. QED
  BY <1>1, <1>5, <1>6

(* Wherever the pointers go, and whether or not the caller learns it.      *)
LEMMA MetadataRows ==
    ASSUME TypeOK, RowsInv, Metadata
    PROVE  RowsInv'
<1>1. /\ op.pc = "commit" /\ UNCHANGED <<objs, idx, boot, clock>>
      /\ Replacing \subseteq objs \ idx
  BY DEF Metadata, CommitMetadata, CommitRejected, CommitAckLost, storeVars, RowsInv
<1>2. Live' \subseteq Live \cup Replacing
  <2>1. CASE Commit
    <3>1. KeysOf(mem') \subseteq KeysOf(mem) \cup Replacing
      BY <1>1, <2>1, CommitKeys DEF RowsInv
    <3>2. QED
      BY <1>1, <3>1 DEF Live, KeysOf
  <2>2. CASE mem' = mem
    BY <1>1, <2>2 DEF Live, KeysOf
  <2>3. QED
    BY <2>1, <2>2 DEF Metadata, CommitMetadata, CommitRejected, CommitAckLost, storeVars
<1>3. CASE GiveUp
  BY <1>1, <1>2, <1>3, GivenUpRows
<1>4. CASE GoTo("index", {})
  <2>1. Shape' /\ StampsOrdered' /\ op'.pc = "index" /\ Replacing' = Replacing
    BY <1>1, <1>2, <1>4, MovedOrder DEF RowsInv, Pcs
  <2>2. QED
    BY <1>1, <2>1 DEF RowsInv, IndexReadable
<1>5. QED
  BY <1>3, <1>4 DEF Metadata, CommitMetadata, CommitRejected, CommitAckLost

LEMMA IndexRows ==
    ASSUME TypeOK, RowsInv, Index
    PROVE  RowsInv'
<1>1. /\ op.pc = "index" /\ UNCHANGED <<mem, objs, boot, clock>>
      /\ Replacing \subseteq objs \ idx /\ Replaced \subseteq idx
  BY DEF Index, CommitIndex, IndexFails, storeVars, RowsInv, Shape
<1>2. CASE CommitIndex
  <2>1. GoTo("sweep", Replaced)
        /\ idx' = {k \in idx : k.id \notin IdsOf(Replaced)} \cup Replacing
    BY <1>2 DEF CommitIndex
  <2>2. IndexReadable' /\ Live' \subseteq Live \cup Replacing
    BY <1>1, <2>1 DEF RowsInv, IndexReadable, Live, KeysOf
  <2>3. Replaced \cap idx' = {}
    BY <1>1, <2>1 DEF IdsOf
  <2>4. QED
    BY <1>1, <2>1, <2>2, <2>3, CleaningRows
<1>3. CASE IndexFails
  <2>1. GoTo("restore", {}) /\ idx' = idx
    BY <1>3 DEF IndexFails
  <2>2. IndexReadable' /\ Live' = Live
    BY <1>1, <2>1 DEF RowsInv, IndexReadable, Live, KeysOf
  <2>3. Shape' /\ StampsOrdered' /\ op'.pc = "restore" /\ Replacing' = Replacing
    BY <1>1, <2>1, <2>2, MovedOrder DEF RowsInv, Pcs
  <2>4. QED
    BY <1>1, <2>1, <2>2, <2>3 DEF RowsInv
<1>4. QED
  BY <1>2, <1>3 DEF Index

LEMMA UndoRows ==
    ASSUME TypeOK, RowsInv, Undo
    PROVE  RowsInv'
<1>1. /\ op.pc = "restore" /\ UNCHANGED <<objs, idx, boot, clock>>
      /\ Replacing \subseteq objs \ idx
  BY DEF Undo, Compensate, CompensationFails, CompensationAckLost, storeVars, RowsInv
<1>2. Live' \subseteq Live \cup Replaced
  <2>1. CASE Restore
    <3>1. KeysOf(mem') \subseteq KeysOf(mem) \cup Replaced
      BY <1>1, <2>1, RestoreKeys DEF RowsInv
    <3>2. QED
      BY <1>1, <3>1 DEF Live, KeysOf
  <2>2. CASE mem' = mem
    BY <1>1, <2>2 DEF Live, KeysOf
  <2>3. QED
    BY <2>1, <2>2 DEF Undo, Compensate, CompensationFails, CompensationAckLost, storeVars
<1>3. GiveUp \/ Finish
  BY DEF Undo, Compensate, CompensationFails, CompensationAckLost
<1>4. QED
  BY <1>1, <1>2, <1>3, GivenUpRows

LEMMA CleanupRows ==
    ASSUME TypeOK, RowsInv, Cleanup
    PROVE  RowsInv'
<1>1. ASSUME NEW k \in op.todo, NEW pc \in {"discard", "sweep"}, Removing(pc, k),
             objs \ {k} \subseteq objs'
      PROVE  RowsInv'
  <2>1. op.pc = pc /\ UNCHANGED <<mem, idx, boot, clock>>
    BY <1>1 DEF Removing
  <2>2. k \notin idx /\ op.todo \cap idx = {}
    BY <1>1, <2>1 DEF RowsInv
  <2>3. Live' = Live /\ IndexReadable'
    BY <1>1, <2>1, <2>2 DEF RowsInv, IndexReadable, Live, KeysOf
  <2>4. CASE Finish
    BY <2>1, <2>3, <2>4, EndedRows DEF Finish
  <2>5. CASE GoTo(pc, op.todo \ {k})
    BY <2>1, <2>2, <2>3, <2>5, CleaningRows
  <2>6. QED
    BY <1>1, <2>4, <2>5 DEF Removing
<1>2. CASE NothingToSweep
  <2>1. Live' = Live /\ IndexReadable' /\ op' = NoOp /\ clock' = clock
    BY <1>2 DEF NothingToSweep, Finish, storeVars, RowsInv, IndexReadable, Live, KeysOf
  <2>2. QED
    BY <2>1, EndedRows
<1>3. ASSUME NEW k \in op.todo, NEW pc \in {"discard", "sweep"},
             Discard(k) \/ DiscardFails(k) \/ Sweep(k) \/ SweepFails(k)
      PROVE  objs \ {k} \subseteq objs' /\ (Removing("discard", k) \/ Removing("sweep", k))
  BY <1>3 DEF Discard, DiscardFails, Sweep, SweepFails, RemoveSucceeds, RemoveFails
<1>4. QED
  BY <1>1, <1>2, <1>3 DEF Cleanup

(* A row of the index always leads to a body, whatever fails, lost outcomes *)
(* of commits included: bodies are written before they are indexed, and    *)
(* only what is no longer indexed is removed (cloud-service.ts).           *)
THEOREM IndexAlwaysReadable == Spec => []IndexReadable
<1>1. Init => RowsInv
  BY DEF Init, StoreInit, RowsInv, IndexReadable, Shape, StampsOrdered, NoOp, Live,
         Replaced, Replacing, KeysOf
<1>2. TypeOK /\ RowsInv /\ [Next]_vars => RowsInv'
  <2> SUFFICES ASSUME TypeOK, RowsInv, [Next]_vars
               PROVE  RowsInv'
    OBVIOUS
  <2>1. CASE Boot \/ BootFails
    <3>1. op' = NoOp /\ clock' = clock /\ mem' = mem /\ objs' = objs
      BY <2>1 DEF Boot, BootFails, storeVars, RowsInv, Shape
    <3>2. idx' = idx \/ (idx' \subseteq KeysOf(mem) /\ idx' \subseteq objs)
      BY <2>1 DEF Boot, BootFails, Rebuilt
    <3>3. IndexReadable' /\ Live' \subseteq Live
      BY <3>1, <3>2 DEF RowsInv, IndexReadable, Live, KeysOf
    <3>4. QED
      BY <3>1, <3>3, EndedRows
  <2>2. CASE Crash
    <3>1. op' = NoOp /\ clock' = clock /\ Live' \subseteq Live /\ IndexReadable'
      BY <2>2 DEF Crash, storeVars, IndexReadable, Live, KeysOf
    <3>2. QED
      BY <3>1, EndedRows
  <2>3. CASE Client
    BY <2>3, ClientRows
  <2>4. CASE OpStep
    BY <2>4, UploadRows, MetadataRows, IndexRows, UndoRows, CleanupRows DEF OpStep
  <2>5. CASE UNCHANGED vars
    BY <2>5 DEF vars, storeVars, RowsInv, IndexReadable, Shape, StampsOrdered, Live,
                Replaced, Replacing
  <2>6. QED
    BY <2>1, <2>2, <2>3, <2>4, <2>5 DEF Next
<1>3. RowsInv => IndexReadable
  BY DEF RowsInv
<1>4. QED
  BY <1>1, <1>2, <1>3, TypeCorrect, PTL DEF Spec

-----------------------------------------------------------------------------
(***************************************************************************)
(* 2. Names under every fault; the index and the catalogue under most.     *)
(***************************************************************************)

Keys == KeysOf(mem)

Working == op.pc \in {"write", "commit", "index", "restore"}

(* What rename writes for a memory that refers to it. *)
Rewritten(r, old, new) == [r EXCEPT !.list = Redirect(@, old, new)]

Referrers(k) == Linking(k.name) \ {k}

-----------------------------------------------------------------------------
(* The inductive invariant about names.                                    *)

(* The records an operation carries, by what the rows they were built from *)
(* said: the rows do not change before the operation has committed them.   *)
PlannedSave == \E e \in Replacing :
    /\ Replaced = {} /\ Replacing = {e}
    /\ e.id = clock /\ e.stamp = clock
    /\ Named(e.name) = {}

PlannedUpdate == \E k \in idx, e \in Replacing :
    /\ Replaced = {k} /\ Replacing = {e}
    /\ e.id = k.id /\ e.name = k.name /\ e.stamp = clock

PlannedForget == \E k \in idx : Replaced = {k} /\ Replacing = {}

PlannedRename == \E k \in idx, f \in Replacing :
    /\ f.id = k.id /\ f.name # k.name /\ f.stamp = clock
    /\ k.name \notin f.list.set
    /\ Named(f.name) = {}
    /\ Replaced = {k} \cup Referrers(k)
    /\ Replacing = {f} \cup {Rewritten(r, k.name, f.name) : r \in Referrers(k)}

Planned ==
    \/ op.kind = "save" /\ PlannedSave
    \/ op.kind = "update" /\ PlannedUpdate
    \/ op.kind = "forget" /\ PlannedForget
    \/ op.kind = "rename" /\ PlannedRename

PlanKept ==
    /\ boot # "ready" => op = NoOp
    /\ Working => Planned
    /\ op.pc = "index" => Replacing \subseteq names \cap Keys

(* Ids are handed out in order, and the one of a save is new until it is    *)
(* committed, and to the index until it is indexed.                        *)
IdsOrdered ==
    /\ \A k \in Keys \cup names \cup idx : k.id <= clock
    /\ op.kind = "save" /\ op.pc \in {"write", "commit"} =>
            \A k \in Keys \cup names : k.id # clock
    /\ op.kind = "save" /\ Working => \A k \in idx : k.id # clock

OneNameDocument == \A m, n \in names : m.name = n.name => m = n

OneDocument == \A k, l \in Keys : k.id = l.id => k = l

(* What the metadata transactions keep. *)
Ownership ==
    /\ OneNameDocument
    /\ OneDocument
    /\ NameOwned
    /\ NoStolenName

NamesInv ==
    /\ PlanKept
    /\ IdsOrdered
    /\ Ownership
    /\ OnePer(idx)

-----------------------------------------------------------------------------
(* The inductive invariant about the catalogue.                            *)

(* The catalogue the index shows: before the change that is being carried  *)
(* through, while it may still be taken back.                              *)
Offered ==
    IF op.pc \in {"index", "restore"} THEN (Keys \ Replacing) \cup Replaced ELSE Keys

CatalogueInv ==
    /\ NamesMatch
    /\ boot = "ready" => idx = {k \in Offered : Indexable(k)}
    /\ OnePer(Offered)
    /\ op.pc \in {"index", "restore"} =>
            /\ Replacing \subseteq Keys
            /\ Keys \cap Replaced = {}
            /\ op.kind = "forget" => Replaced \subseteq tombs

-----------------------------------------------------------------------------
(* What the transactions do to the keys.                                   *)

(* Setting documents by id replaces what had one of their ids.             *)
LEMMA SetByIdEffect ==
    ASSUME NEW docs
    PROVE  KeysOf(SetById(docs)) = {k \in Keys : k.id \notin IdsOf(KeysOf(docs))} \cup KeysOf(docs)
  BY DEF SetById, KeysOf, Keys

LEMMA KeysOfOne ==
    ASSUME NEW d
    PROVE  KeysOf({d}) = {d.key}
  BY DEF KeysOf

LEMMA NamesFreeKeys ==
    ASSUME NEW docs, NamesFree(docs)
    PROVE  \A r \in KeysOf(docs), n \in names : n.name = r.name => n.id = r.id
  BY DEF NamesFree, KeysOf

(* A commit that is not a forget puts what it carries in the place of what  *)
(* has its ids, and of the name documents of what it replaces.             *)
PutEffect ==
    /\ \A r \in Replacing, n \in names : n.name = r.name => n.id = r.id
    /\ KeysOf(mem') = {k \in Keys : k.id \notin IdsOf(Replacing)} \cup Replacing
    /\ names' = {n \in names : n.name \notin NamesOf(Replaced) \cup NamesOf(Replacing)}
                    \cup Replacing

LEMMA CommitPuts ==
    ASSUME Planned, Commit, op.kind # "forget"
    PROVE  PutEffect
<1>1. CASE op.kind = "rename"
  <2>1. /\ NamesFree(op.next) /\ mem' = SetById(op.next)
        /\ names' = SetByName({k \in names : k.name \notin NamesOf(Replaced) \ NamesOf(Replacing)},
                              Replacing)
    BY <1>1 DEF Commit, CommitAccepts, ReplaceMemoryIndexesAccepts, ReplaceMemoryIndexes, Replacing
  <2>2. \A r \in Replacing, n \in names : n.name = r.name => n.id = r.id
    BY <2>1, NamesFreeKeys DEF Replacing
  <2>3. KeysOf(mem') = {k \in Keys : k.id \notin IdsOf(Replacing)} \cup Replacing
    BY <2>1, SetByIdEffect DEF Replacing
  <2>4. QED
    BY <2>1, <2>2, <2>3 DEF SetByName, PutEffect
<1>2. CASE op.kind \in {"save", "update"}
  <2>1. PICK d \in op.next : PutMemoryIndex(d) /\ PutMemoryIndexAccepts(d)
    BY <1>2 DEF Commit, CommitAccepts
  <2>2. PICK e \in Replacing : Replacing = {e} /\ NamesOf(Replaced) \subseteq {e.name}
    BY <1>2 DEF Planned, PlannedSave, PlannedUpdate, NamesOf
  <2>3. d.key = e /\ KeysOf({d}) = Replacing
    BY <2>1, <2>2, KeysOfOne DEF Replacing, KeysOf
  <2>4. \A r \in Replacing, n \in names : n.name = r.name => n.id = r.id
    BY <2>1, <2>3, NamesFreeKeys DEF PutMemoryIndexAccepts
  <2>5. mem' = SetById({d}) /\ names' = SetByName(names, Replacing)
    BY <2>1, <2>2, <2>3 DEF PutMemoryIndex
  <2>6. KeysOf(mem') = {k \in Keys : k.id \notin IdsOf(Replacing)} \cup Replacing
    BY <2>3, <2>5, SetByIdEffect
  <2>7. NamesOf(Replaced) \cup NamesOf(Replacing) = NamesOf(Replacing)
    BY <2>2 DEF NamesOf
  <2>8. QED
    BY <2>4, <2>5, <2>6, <2>7 DEF SetByName, PutEffect
<1>3. QED
  BY <1>1, <1>2 DEF Planned

(* A forget takes away the documents of its id and their names.            *)
DeleteEffect == \E k \in idx :
    /\ Replaced = {k}
    /\ KeysOf(mem') = {l \in Keys : l.id # k.id}
    /\ names' = {n \in names : \A l \in Keys : l.id = k.id => n.name # l.name}
    /\ tombs' = tombs \cup {k}

LEMMA CommitDeletes ==
    ASSUME Planned, Commit, op.kind = "forget"
    PROVE  DeleteEffect
<1>1. PICK k \in idx : Replaced = {k}
  BY DEF Planned, PlannedForget
<1>2. PICK d \in op.prev : DeleteMemoryIndex(d.key)
  BY DEF Commit
<1>3. d.key = k
  BY <1>1, <1>2 DEF Replaced, KeysOf
<1>4. KeysOf(mem') = {l \in Keys : l.id # k.id} /\ tombs' = tombs \cup {k}
  BY <1>2, <1>3 DEF DeleteMemoryIndex, KeysOf, Keys
<1>5. names' = {n \in names : \A l \in Keys : l.id = k.id => n.name # l.name}
  BY <1>2, <1>3 DEF DeleteMemoryIndex, NamesOf, Keys, KeysOf
<1>6. QED
  BY <1>1, <1>4, <1>5 DEF DeleteEffect

(* The undo of a save takes its document away; the others put back what    *)
(* they replaced, or find nothing they may touch.                          *)
RemoveEffect ==
    /\ KeysOf(mem') = Keys \ Replacing
    /\ names' = names \ (Replacing \cap Keys)

PutBackEffect ==
    /\ \A r \in Replaced, n \in names : n.name = r.name => n.id = r.id
    /\ KeysOf(mem') = {k \in Keys : k.id \notin IdsOf(Replaced)} \cup Replaced
    /\ names' = {n \in names : n \notin Replacing /\ n.name \notin NamesOf(Replaced)}
                    \cup Replaced

NotRestorable ==
    \/ op.kind = "update" /\ ~(Replacing \subseteq Keys)
    \/ /\ op.kind = "forget"
       /\ IdsOf(Replaced) \cap IdsOf(Keys) # {} \/ ~(Replaced \subseteq tombs)

LEMMA RestoreRemoves ==
    ASSUME Planned, Restore, op.kind = "save"
    PROVE  RemoveEffect
<1>1. PICK e \in Replacing : Replacing = {e}
  BY DEF Planned, PlannedSave
<1>2. PICK d \in op.next : RemoveMemoryIndex(d.key)
  BY DEF Restore
<1>3. d.key = e
  BY <1>1, <1>2 DEF Replacing, KeysOf
<1>4. QED
  BY <1>1, <1>2, <1>3 DEF RemoveMemoryIndex, RemoveEffect, KeysOf, Keys

LEMMA RestorePutsBack ==
    ASSUME Planned, Restore, op.kind # "save", OneNameDocument
    PROVE  \/ PutBackEffect
           \/ NotRestorable /\ KeysOf(mem') = Keys /\ names' = names
<1>1. CASE op.kind = "rename"
  <2>1. /\ NamesFree(op.prev) /\ mem' = SetById(op.prev)
        /\ names' = SetByName({k \in names : k.name \notin NamesOf(Replacing) \ NamesOf(Replaced)},
                              Replaced)
        /\ Replacing \subseteq names
    BY <1>1 DEF Restore, RestoreAccepts, RestoreMemoryIndexesAccepts, RestoreMemoryIndexes,
                Replaced, Replacing
  <2>2. \A r \in Replaced, n \in names : n.name = r.name => n.id = r.id
    BY <2>1, NamesFreeKeys DEF Replaced
  <2>3. KeysOf(mem') = {k \in Keys : k.id \notin IdsOf(Replaced)} \cup Replaced
    BY <2>1, SetByIdEffect DEF Replaced
  <2>4. \A n \in names : n.name \in NamesOf(Replacing) <=> n \in Replacing
    BY <2>1 DEF NamesOf, OneNameDocument
  <2>5. names' = {n \in names : n \notin Replacing /\ n.name \notin NamesOf(Replaced)}
                    \cup Replaced
    BY <2>1, <2>4 DEF SetByName
  <2>6. QED
    BY <2>2, <2>3, <2>5 DEF PutBackEffect
<1>2. ASSUME NEW d, NEW expected, RestoreMemoryIndex(d, expected), Replaced = {d.key},
             RestoreMemoryIndexAccepts(d, expected), Restorable(d, expected),
             Replacing = {expected} \/ (Replacing = {} /\ expected = d.key)
      PROVE  PutBackEffect
  <2>1. /\ NamesFree({d}) /\ mem' = SetById({d}) /\ KeysOf({d}) = Replaced
        /\ names' = SetByName({k \in names : k # expected}, Replaced)
    BY <1>2, KeysOfOne DEF RestoreMemoryIndex, RestoreMemoryIndexAccepts
  <2>2. \A r \in Replaced, n \in names : n.name = r.name => n.id = r.id
    BY <2>1, NamesFreeKeys
  <2>3. KeysOf(mem') = {k \in Keys : k.id \notin IdsOf(Replaced)} \cup Replaced
    BY <2>1, SetByIdEffect
  <2>4. \A n \in names : n.name \notin NamesOf(Replaced) =>
            (n # expected <=> n \notin Replacing)
    BY <1>2 DEF NamesOf
  <2>5. names' = {n \in names : n \notin Replacing /\ n.name \notin NamesOf(Replaced)}
                    \cup Replaced
    BY <2>1, <2>4 DEF SetByName
  <2>6. QED
    BY <2>2, <2>3, <2>5 DEF PutBackEffect
<1>3. CASE op.kind = "update"
  <2>1. PICK d \in op.prev, e \in op.next :
            RestoreMemoryIndex(d, e.key) /\ RestoreMemoryIndexAccepts(d, e.key)
    BY <1>3 DEF Restore, RestoreAccepts
  <2>2. Replaced = {d.key} /\ Replacing = {e.key}
    BY <1>3, <2>1 DEF Planned, PlannedUpdate, Replaced, Replacing, KeysOf
  <2>3. CASE Restorable(d, e.key)
    <3> DEFINE expected == e.key
    <3>1. /\ RestoreMemoryIndex(d, expected) /\ RestoreMemoryIndexAccepts(d, expected)
          /\ Restorable(d, expected)
          /\ Replacing = {expected} \/ (Replacing = {} /\ expected = d.key)
      BY <2>1, <2>2, <2>3
    <3> HIDE DEF expected
    <3>2. PutBackEffect
      BY <1>2, <2>2, <3>1
    <3>3. QED
      BY <3>2
  <2>4. CASE ~Restorable(d, e.key)
    <3>1. KeysOf(mem') = Keys /\ names' = names
      BY <2>1, <2>4 DEF RestoreMemoryIndex, Keys
    <3>2. ~(Replacing \subseteq Keys)
      BY <2>2, <2>4 DEF Restorable, Keys
    <3>3. QED
      BY <1>3, <3>1, <3>2 DEF NotRestorable
  <2>5. QED
    BY <2>3, <2>4
<1>4. CASE op.kind = "forget"
  <2>1. PICK d \in op.prev : RestoreMemoryIndex(d, d.key) /\ RestoreMemoryIndexAccepts(d, d.key)
    BY <1>4 DEF Restore, RestoreAccepts
  <2>2. Replaced = {d.key} /\ Replacing = {}
    BY <1>4, <2>1 DEF Planned, PlannedForget, Replaced, KeysOf
  <2>3. CASE Restorable(d, d.key)
    BY <1>2, <2>1, <2>2, <2>3
  <2>4. CASE ~Restorable(d, d.key)
    <3>1. KeysOf(mem') = Keys /\ names' = names
      BY <2>1, <2>4 DEF RestoreMemoryIndex, Keys
    <3>2. IdsOf(Replaced) \cap IdsOf(Keys) # {} \/ ~(Replaced \subseteq tombs)
      <4>1. d.key.id \in IdsOf(Replaced)
        BY <2>2 DEF IdsOf
      <4>2. QED
        BY <2>2, <2>4, <4>1 DEF Restorable, Keys
    <3>3. QED
      BY <1>4, <3>1, <3>2 DEF NotRestorable
  <2>5. QED
    BY <2>3, <2>4
<1>5. QED
  BY <1>1, <1>3, <1>4 DEF Planned

-----------------------------------------------------------------------------
(* What the plan of an operation says about the keys it carries.           *)

LEMMA RewrittenFields ==
    ASSUME NEW r \in Content, NEW old, NEW new
    PROVE  Rewritten(r, old, new).id = r.id /\ Rewritten(r, old, new).name = r.name
  BY DEF Rewritten, Content

LEMMA PlannedRows ==
    ASSUME Planned
    PROVE  Replaced \subseteq idx
  BY DEF Planned, PlannedSave, PlannedUpdate, PlannedForget, PlannedRename, Referrers, Linking

(* Save and forget carry keys on one side only; the others keep the ids.   *)
LEMMA PlannedIds ==
    ASSUME TypeOK, Planned
    PROVE  /\ op.kind = "save" => (Replaced = {} /\ \A r \in Replacing : r.id = clock)
           /\ op.kind = "forget" => Replacing = {}
           /\ op.kind \notin {"save", "forget"} => IdsOf(Replaced) = IdsOf(Replacing)
<1>1. CASE op.kind = "save"
  BY <1>1 DEF Planned, PlannedSave
<1>2. CASE op.kind = "forget"
  BY <1>2 DEF Planned, PlannedForget
<1>3. CASE op.kind = "update"
  BY <1>3 DEF Planned, PlannedUpdate, IdsOf
<1>4. CASE op.kind = "rename"
  <2>1. PICK k \in idx, f \in Replacing :
            /\ f.id = k.id
            /\ Replaced = {k} \cup Referrers(k)
            /\ Replacing = {f} \cup {Rewritten(r, k.name, f.name) : r \in Referrers(k)}
    BY <1>4 DEF Planned, PlannedRename
  <2>2. \A r \in Referrers(k) : Rewritten(r, k.name, f.name).id = r.id
    BY RewrittenFields DEF Referrers, Linking, TypeOK
  <2>3. IdsOf(Replaced) = IdsOf(Replacing)
    BY <2>1, <2>2 DEF IdsOf
  <2>4. QED
    BY <1>4, <2>3
<1>5. QED
  BY <1>1, <1>2, <1>3, <1>4 DEF Planned

(* What is to be committed has one key per memory and per name, and takes  *)
(* no name from a row of another memory.                                   *)
LEMMA PlannedNames ==
    ASSUME TypeOK, Planned, OnePer(idx)
    PROVE  /\ OnePer(Replacing)
           /\ \A r \in Replacing, k \in idx : k.name = r.name => k.id = r.id
<1>1. CASE op.kind = "save"
  BY <1>1 DEF Planned, PlannedSave, OnePer, Named
<1>2. CASE op.kind = "forget"
  BY <1>2 DEF Planned, PlannedForget, OnePer
<1>3. CASE op.kind = "update"
  <2>1. PICK k \in idx, e \in Replacing : Replacing = {e} /\ e.id = k.id /\ e.name = k.name
    BY <1>3 DEF Planned, PlannedUpdate
  <2>2. QED
    BY <2>1 DEF OnePer
<1>4. CASE op.kind = "rename"
  <2>1. PICK k \in idx, f \in Replacing :
            /\ f.id = k.id
            /\ Named(f.name) = {}
            /\ Replacing = {f} \cup {Rewritten(r, k.name, f.name) : r \in Referrers(k)}
    BY <1>4 DEF Planned, PlannedRename
  <2> DEFINE w(r) == Rewritten(r, k.name, f.name)
  <2>2. \A r \in Referrers(k) : r \in idx /\ r # k /\ w(r).id = r.id /\ w(r).name = r.name
    BY RewrittenFields DEF Referrers, Linking, TypeOK
  <2>3. Replacing = {f} \cup {w(r) : r \in Referrers(k)}
    BY <2>1
  <2>4. \A l \in idx : l.name # f.name
    BY <2>1 DEF Named
  <2> HIDE DEF w
  <2>5. ASSUME NEW r \in Replacing, NEW s \in Replacing, r.id = s.id \/ r.name = s.name
        PROVE  r = s
    <3>1. CASE r = f /\ s = f
      BY <3>1
    <3>2. ASSUME NEW q \in Referrers(k)
          PROVE  w(q).id # f.id /\ w(q).name # f.name
      BY <2>1, <2>2, <2>4 DEF OnePer
    <3>3. ASSUME NEW p \in Referrers(k), NEW q \in Referrers(k), r = w(p), s = w(q)
          PROVE  r = s
      <4>1. p.id = q.id \/ p.name = q.name
        BY <2>2, <2>5, <3>3
      <4>2. p = q
        BY <2>2, <4>1 DEF OnePer
      <4>3. QED
        BY <3>3, <4>2
    <3>4. (r = f \/ \E p \in Referrers(k) : r = w(p)) /\ (s = f \/ \E q \in Referrers(k) : s = w(q))
      BY <2>3
    <3>5. QED
      BY <2>5, <3>1, <3>2, <3>3, <3>4
  <2>6. ASSUME NEW r \in Replacing, NEW l \in idx, l.name = r.name
        PROVE  l.id = r.id
    <3>1. r # f
      BY <2>4, <2>6
    <3>2. PICK p \in Referrers(k) : r = w(p)
      BY <2>3, <3>1
    <3>3. l = p
      BY <2>2, <2>6, <3>2 DEF OnePer
    <3>4. QED
      BY <2>2, <3>2, <3>3
  <2>7. QED
    BY <2>5, <2>6 DEF OnePer
<1>5. QED
  BY <1>1, <1>2, <1>3, <1>4 DEF Planned

LEMMA PlannedAges ==
    ASSUME TypeOK, Planned, IdsOrdered
    PROVE  \A r \in Replacing \cup Replaced : r.id <= clock
<1>1. \A r \in idx : r.id <= clock
  BY DEF IdsOrdered
<1>2. \A r \in Replaced : r.id <= clock
  BY <1>1, PlannedRows
<1>3. clock <= clock
  BY MaxOpsAssumption DEF TypeOK
<1>4. CASE op.kind \in {"save", "forget"}
  BY <1>2, <1>3, <1>4, PlannedIds
<1>5. CASE op.kind \notin {"save", "forget"}
  BY <1>2, <1>5, PlannedIds DEF IdsOf
<1>6. QED
  BY <1>4, <1>5

-----------------------------------------------------------------------------
(* The transactions keep the ownership of names.                           *)

LEMMA PutKeepsOwnership ==
    ASSUME TypeOK, NamesInv, op.pc = "commit", op.kind # "forget", PutEffect, idx' = idx
    PROVE  Ownership'
<1> DEFINE next == KeysOf(mem')
<1>1. Keys' = next
  BY DEF Keys, KeysOf
<1>2. Planned /\ Ownership /\ OnePer(idx)
  BY DEF NamesInv, PlanKept, Working
<1>3. OnePer(Replacing) /\ \A r \in Replacing, k \in idx : k.name = r.name => k.id = r.id
  BY <1>2, PlannedNames
<1>4. /\ \A r \in Replacing, n \in names : n.name = r.name => n.id = r.id
      /\ next = {k \in Keys : k.id \notin IdsOf(Replacing)} \cup Replacing
      /\ names' = {n \in names : n.name \notin NamesOf(Replaced) \cup NamesOf(Replacing)}
                      \cup Replacing
  BY DEF PutEffect
<1>5. Replaced \subseteq idx /\ \A r \in Replaced : r.id \in IdsOf(Replacing)
  BY <1>2, PlannedRows, PlannedIds DEF IdsOf
<1> HIDE DEF next
<1>6. OneNameDocument'
  <2>1. \A m \in names', n \in names' : m.name = n.name => m = n
    BY <1>2, <1>3, <1>4 DEF Ownership, OneNameDocument, OnePer, NamesOf
  <2>2. QED
    BY <2>1 DEF OneNameDocument
<1>7. OneDocument'
  <2>1. \A k \in next, l \in next : k.id = l.id => k = l
    BY <1>2, <1>3, <1>4 DEF Ownership, OneDocument, OnePer, IdsOf
  <2>2. QED
    BY <1>1, <2>1 DEF OneDocument
<1>8. NameOwned'
  <2>1. ASSUME NEW k \in Keys, k.id \notin IdsOf(Replacing)
        PROVE  k \in names'
    <3>1. k \in names
      BY <1>2 DEF Ownership, NameOwned, Keys
    <3>2. k.name \notin NamesOf(Replacing)
      BY <1>4, <2>1, <3>1 DEF NamesOf, IdsOf
    <3>3. k.name \notin NamesOf(Replaced)
      BY <1>2, <1>5, <2>1, <3>1 DEF NamesOf, Ownership, NoStolenName
    <3>4. QED
      BY <1>4, <3>1, <3>2, <3>3
  <2>2. next \subseteq names'
    BY <1>4, <2>1
  <2>3. QED
    BY <1>1, <2>2 DEF NameOwned, Keys
<1>9. NoStolenName'
  <2>1. \A k \in idx, n \in names' : k.name = n.name => k.id = n.id
    BY <1>2, <1>3, <1>4 DEF Ownership, NoStolenName
  <2>2. QED
    BY <2>1 DEF NoStolenName
<1>10. QED
  BY <1>6, <1>7, <1>8, <1>9 DEF Ownership

LEMMA DeleteKeepsOwnership ==
    ASSUME NamesInv, DeleteEffect, idx' = idx
    PROVE  Ownership'
<1>1. Keys' = KeysOf(mem') /\ Ownership
  BY DEF Keys, KeysOf, NamesInv
<1>2. PICK k \in idx :
        /\ Keys' = {l \in Keys : l.id # k.id}
        /\ names' = {n \in names : \A l \in Keys : l.id = k.id => n.name # l.name}
  BY <1>1 DEF DeleteEffect
<1>3. OneNameDocument' /\ OneDocument' /\ NoStolenName'
  BY <1>1, <1>2 DEF Ownership, OneNameDocument, OneDocument, NoStolenName
<1>4. ASSUME NEW l \in Keys'
      PROVE  l \in names'
  <2>1. l \in Keys /\ l.id # k.id /\ l \in names
    BY <1>1, <1>2 DEF Ownership, NameOwned, Keys
  <2>2. \A c \in Keys : c.id = k.id => l.name # c.name
    BY <1>1, <2>1 DEF Ownership, NameOwned, OneNameDocument, Keys
  <2>3. QED
    BY <1>2, <2>1, <2>2
<1>5. NameOwned'
  BY <1>4 DEF NameOwned, Keys
<1>6. QED
  BY <1>3, <1>5 DEF Ownership

LEMMA RemoveKeepsOwnership ==
    ASSUME NamesInv, RemoveEffect, idx' = idx
    PROVE  Ownership'
<1>1. Keys' = KeysOf(mem') /\ Ownership
  BY DEF Keys, KeysOf, NamesInv
<1>2. Keys' = Keys \ Replacing /\ names' = names \ (Replacing \cap Keys)
  BY <1>1 DEF RemoveEffect
<1>3. OneNameDocument' /\ OneDocument' /\ NoStolenName'
  BY <1>1, <1>2 DEF Ownership, OneNameDocument, OneDocument, NoStolenName
<1>4. Keys' \subseteq names'
  BY <1>1, <1>2 DEF Ownership, NameOwned, Keys
<1>5. QED
  BY <1>3, <1>4 DEF Ownership, NameOwned, Keys

LEMMA PutBackKeepsOwnership ==
    ASSUME TypeOK, NamesInv, op.pc = "restore", op.kind # "save", PutBackEffect, idx' = idx
    PROVE  Ownership'
<1>1. Keys' = KeysOf(mem') /\ Ownership /\ Planned /\ OnePer(idx)
  BY DEF Keys, KeysOf, NamesInv, PlanKept, Working
<1>2. /\ \A r \in Replaced, n \in names : n.name = r.name => n.id = r.id
      /\ Keys' = {k \in Keys : k.id \notin IdsOf(Replaced)} \cup Replaced
      /\ names' = {n \in names : n \notin Replacing /\ n.name \notin NamesOf(Replaced)}
                      \cup Replaced
  BY <1>1 DEF PutBackEffect
<1>3. Replaced \subseteq idx /\ OnePer(Replaced)
  BY <1>1, PlannedRows DEF OnePer
<1>4. \A r \in Replacing : r.id \in IdsOf(Replaced)
  BY <1>1, PlannedIds DEF IdsOf
<1>5. OneNameDocument'
  <2>1. \A m \in names', n \in names' : m.name = n.name => m = n
    BY <1>1, <1>2, <1>3 DEF Ownership, OneNameDocument, OnePer, NamesOf
  <2>2. QED
    BY <2>1 DEF OneNameDocument
<1>6. OneDocument'
  <2>1. \A k \in Keys', l \in Keys' : k.id = l.id => k = l
    BY <1>1, <1>2, <1>3 DEF Ownership, OneDocument, OnePer, IdsOf
  <2>2. QED
    BY <2>1 DEF OneDocument
<1>7. NameOwned'
  <2>1. ASSUME NEW k \in Keys, k.id \notin IdsOf(Replaced)
        PROVE  k \in names'
    <3>1. k \in names /\ k \notin Replacing
      BY <1>1, <1>4, <2>1 DEF Ownership, NameOwned, Keys
    <3>2. k.name \notin NamesOf(Replaced)
      BY <1>2, <2>1, <3>1 DEF NamesOf, IdsOf
    <3>3. QED
      BY <1>2, <3>1, <3>2
  <2>2. Keys' \subseteq names'
    BY <1>2, <2>1
  <2>3. QED
    BY <2>2 DEF NameOwned, Keys
<1>8. NoStolenName'
  <2>1. \A k \in idx, n \in names' : k.name = n.name => k.id = n.id
    BY <1>1, <1>2, <1>3 DEF Ownership, NoStolenName, OnePer
  <2>2. QED
    BY <2>1 DEF NoStolenName
<1>9. QED
  BY <1>5, <1>6, <1>7, <1>8 DEF Ownership

-----------------------------------------------------------------------------
(* Who owns a name.                                                        *)

LEMMA EndedNames ==
    ASSUME NamesInv, op' = NoOp, clock' = clock, Ownership', OnePer(idx)',
           Keys' \cup names' \cup idx' \subseteq Keys \cup names \cup idx \cup Replacing \cup Replaced,
           \A k \in Replacing \cup Replaced : k.id <= clock
    PROVE  NamesInv'
<1>1. op'.kind = "none" /\ op'.pc = "idle"
  BY DEF NoOp
<1>2. PlanKept'
  BY <1>1 DEF PlanKept, Working
<1>3. \A k \in Keys \cup names \cup idx : k.id <= clock
  BY DEF NamesInv, IdsOrdered
<1>4. IdsOrdered'
  BY <1>1, <1>3 DEF IdsOrdered
<1>5. QED
  BY <1>2, <1>4 DEF NamesInv

LEMMA CleaningNames ==
    ASSUME TypeOK, NamesInv, op.pc # "idle", boot' = boot, clock' = clock,
           NEW pc \in {"discard", "sweep"}, NEW todo, GoTo(pc, todo), Ownership', OnePer(idx)',
           Keys' \cup names' \cup idx' \subseteq Keys \cup names \cup idx \cup Replacing \cup Replaced,
           \/ Keys' \cup names' \cup idx' \subseteq Keys \cup names \cup idx
           \/ \A k \in Replacing \cup Replaced : k.id <= clock
    PROVE  NamesInv'
<1>1. op'.kind = op.kind /\ op'.pc = pc
  BY DEF TypeOK, Op, GoTo
<1>2. boot' = "ready"
  BY DEF NamesInv, PlanKept, NoOp
<1>3. PlanKept'
  BY <1>1, <1>2 DEF PlanKept, Working
<1>4. \A k \in Keys \cup names \cup idx : k.id <= clock
  BY DEF NamesInv, IdsOrdered
<1>5. \A k \in Keys' \cup names' \cup idx' : k.id <= clock
  BY <1>4
<1>6. IdsOrdered'
  BY <1>1, <1>5 DEF IdsOrdered, Working
<1>7. QED
  BY <1>3, <1>6 DEF NamesInv

LEMMA MovingNames ==
    ASSUME TypeOK, NamesInv, Working, boot' = boot, clock' = clock, idx' = idx,
           NEW pc \in {"write", "commit", "index", "restore"}, NEW todo, GoTo(pc, todo),
           Ownership',
           Keys' \cup names' \subseteq Keys \cup names \cup Replacing,
           pc \in {"write", "commit"} =>
                op.pc \in {"write", "commit"} /\ Keys' = Keys /\ names' = names,
           pc = "index" => Replacing \subseteq names' \cap Keys'
    PROVE  NamesInv'
<1>1. /\ op'.pc = pc /\ op'.kind = op.kind
      /\ op'.prev = op.prev /\ op'.next = op.next
  BY DEF TypeOK, Op, GoTo
<1>2. Replaced' = Replaced /\ Replacing' = Replacing
  BY <1>1 DEF Replaced, Replacing
<1>3. boot' = "ready" /\ Planned
  BY DEF NamesInv, PlanKept, NoOp, Working
<1>4. Planned'
  <2>1. Planned' <=> Planned
    BY <1>1, <1>2 DEF Planned, PlannedSave, PlannedUpdate, PlannedForget, PlannedRename,
                      Referrers, Linking, Named
  <2>2. QED
    BY <1>3, <2>1
<1>5. PlanKept'
  BY <1>1, <1>2, <1>3, <1>4 DEF PlanKept
<1>6. \A k \in Keys' \cup names' \cup idx' : k.id <= clock
  <2>1. \A k \in Keys \cup names \cup idx : k.id <= clock
    BY DEF NamesInv, IdsOrdered
  <2>2. \A k \in Replacing : k.id <= clock
    BY <1>3, PlannedAges DEF NamesInv
  <2>3. QED
    BY <2>1, <2>2
<1>7. op.kind = "save" => \A k \in idx : k.id # clock
  BY DEF NamesInv, IdsOrdered
<1>8. op.kind = "save" /\ pc \in {"write", "commit"} => \A k \in Keys' \cup names' : k.id # clock
  BY DEF NamesInv, IdsOrdered
<1>9. IdsOrdered'
  BY <1>1, <1>6, <1>7, <1>8 DEF IdsOrdered
<1>10. QED
  BY <1>5, <1>9 DEF NamesInv

(* An operation that leaves the documents and the names where they are.    *)
LEMMA SameOwnership ==
    ASSUME NamesInv, mem' = mem, names' = names, idx' = idx
    PROVE  Ownership' /\ OnePer(idx)' /\ Keys' = Keys
  BY DEF NamesInv, Ownership, OneNameDocument, OneDocument, NameOwned, NoStolenName, OnePer,
         Keys, KeysOf

(* Rows that are keys of documents are as unique as the documents are.     *)
LEMMA RebuiltNames ==
    ASSUME NamesInv, mem' = mem, names' = names, idx' \subseteq Keys
    PROVE  Ownership' /\ OnePer(idx)' /\ Keys' = Keys
<1>1. Keys' = Keys
  BY DEF Keys, KeysOf
<1>2. Ownership
  BY DEF NamesInv
<1>3. \A k \in Keys : k \in names
  BY <1>2 DEF Ownership, NameOwned, Keys
<1>4. OnePer(idx)'
  BY <1>2, <1>3 DEF OnePer, Ownership, OneNameDocument, OneDocument
<1>5. NoStolenName'
  BY <1>2, <1>3 DEF NoStolenName, Ownership, OneNameDocument
<1>6. OneNameDocument' /\ OneDocument' /\ NameOwned'
  BY <1>1, <1>2 DEF Ownership, OneNameDocument, OneDocument, NameOwned, Keys
<1>7. QED
  BY <1>1, <1>4, <1>5, <1>6 DEF Ownership

(* An operation begins with a plan made of the rows there are.             *)
LEMMA BegunNames ==
    ASSUME TypeOK, NamesInv, NEW kind \in {"save", "update", "forget", "rename"},
           NEW pc \in {"write", "commit"}, NEW prev, NEW next,
           Begin(kind, pc, prev, next), Planned'
    PROVE  NamesInv'
<1>1. /\ op'.kind = kind /\ op'.pc = pc /\ clock' = clock + 1 /\ clock \in Nat /\ boot = "ready"
      /\ UNCHANGED <<mem, names, idx, boot>>
  BY MaxOpsAssumption DEF Begin, storeVars, TypeOK, Idle
<1>2. Ownership' /\ OnePer(idx)' /\ Keys' = Keys
  BY <1>1, SameOwnership
<1>3. PlanKept'
  BY <1>1 DEF PlanKept
<1>4. \A k \in Keys \cup names \cup idx : k.id \in Nat /\ k.id <= clock
  BY KeysType, MaxOpsAssumption
     DEF NamesInv, IdsOrdered, TypeOK, StoreTypeOK, Content, Stamps, Keys
<1>5. \A k \in Keys \cup names \cup idx : k.id <= clock + 1 /\ k.id # clock + 1
  BY <1>1, <1>4
<1>6. IdsOrdered'
  BY <1>1, <1>2, <1>5 DEF IdsOrdered
<1>7. QED
  BY <1>2, <1>3, <1>6 DEF NamesInv

LEMMA ClientPlans ==
    ASSUME TypeOK, Client, ~Reindex
    PROVE  \E kind \in {"save", "update", "forget", "rename"}, pc \in {"write", "commit"} :
                \E prev, next : Begin(kind, pc, prev, next) /\ Planned'
<1>0. idx \subseteq Content
  BY DEF TypeOK
<1>1. ASSUME NEW n \in Names, NEW list \in Inputs, BeginSave(n, list)
      PROVE  \E next : Begin("save", "write", {}, next) /\ Planned'
  <2> DEFINE k == [id |-> clock + 1, name |-> n, list |-> list, stamp |-> clock + 1]
  <2>1. /\ Begin("save", "write", {}, {DocFor(k)})
        /\ k.id = clock + 1 /\ k.stamp = clock + 1 /\ k.name = n
        /\ DocFor(k).key = k /\ Named(n) = {}
    BY <1>1 DEF BeginSave, DocFor
  <2> HIDE DEF k
  <2>2. /\ op'.kind = "save" /\ op'.prev = {} /\ op'.next = {DocFor(k)}
        /\ clock' = clock + 1 /\ idx' = idx
    BY <2>1 DEF Begin
  <2>3. PICK e : e = k
    OBVIOUS
  <2>4. /\ Replaced' = {} /\ Replacing' = {e} /\ e.id = clock' /\ e.stamp = clock'
        /\ \A r \in idx' : r.name # e.name
    BY <2>1, <2>2, <2>3 DEF Replaced, Replacing, KeysOf, Named
  <2>5. PlannedSave'
    BY <2>4 DEF PlannedSave, Named
  <2>6. QED
    BY <2>1, <2>2, <2>5 DEF Planned
<1>2. ASSUME NEW k \in idx, NEW list, Revise(k, list)
      PROVE  \E prev, next : Begin("update", "write", prev, next) /\ Planned'
  <2> DEFINE d == DocFor(k)
             e == DocFor([k EXCEPT !.list = list, !.stamp = clock + 1])
  <2>1. /\ Begin("update", "write", {d}, {e})
        /\ d.key = k /\ e.key.id = k.id /\ e.key.name = k.name /\ e.key.stamp = clock + 1
    BY <1>0, <1>2 DEF Revise, DocFor, Content
  <2> HIDE DEF d, e
  <2>2. PICK l : l = e.key
    OBVIOUS
  <2>3. /\ op'.kind = "update" /\ Replaced' = {k} /\ Replacing' = {l} /\ idx' = idx
        /\ l.stamp = clock' /\ l.id = k.id /\ l.name = k.name
    BY <2>1, <2>2 DEF Begin, Replaced, Replacing, KeysOf
  <2>4. PlannedUpdate'
    BY <2>3 DEF PlannedUpdate
  <2>5. QED
    BY <2>1, <2>3, <2>4 DEF Planned
<1>3. ASSUME NEW k \in idx, BeginForget(k)
      PROVE  \E prev : Begin("forget", "commit", prev, {}) /\ Planned'
  <2>1. Begin("forget", "commit", {DocFor(k)}, {}) /\ DocFor(k).key = k
    BY <1>3 DEF BeginForget, DocFor
  <2>2. op'.kind = "forget" /\ Replaced' = {k} /\ Replacing' = {} /\ idx' = idx
    BY <2>1 DEF Begin, Replaced, Replacing, KeysOf
  <2>3. PlannedForget'
    BY <2>2 DEF PlannedForget
  <2>4. QED
    BY <2>1, <2>2, <2>3 DEF Planned
<1>4. ASSUME NEW k \in idx, NEW new \in Names, BeginRename(k, new)
      PROVE  \E prev, next : Begin("rename", "write", prev, next) /\ Planned'
  <2> DEFINE old == k.name
             refs == Referrers(k)
             ref(r) == Rewritten(r, old, new)
             target == [k EXCEPT !.name = new, !.list = Redirect(@, old, new),
                                 !.stamp = clock + 1]
             prev == {DocFor(k)} \cup {[key |-> r, links |-> ref(r).list] : r \in refs}
             next == {DocFor(target)} \cup {DocFor(ref(r)) : r \in refs}
  <2>1. Begin("rename", "write", prev, next) /\ new # old /\ Named(new) = {}
    BY <1>4 DEF BeginRename, Referrers, Rewritten
  <2>2. KeysOf(prev) = {k} \cup refs
    <3>1. KeysOf({DocFor(k)}) = {k}
      BY DEF KeysOf, DocFor
    <3> DEFINE moved == {[key |-> r, links |-> ref(r).list] : r \in refs}
    <3> HIDE DEF refs, ref
    <3>2. ASSUME NEW d \in moved
          PROVE  d.key \in refs
      OBVIOUS
    <3>3. ASSUME NEW r \in refs
          PROVE  \E d \in moved : d.key = r
      <4>1. [key |-> r, links |-> ref(r).list] \in moved
        OBVIOUS
      <4>2. QED
        BY <4>1
    <3>4. QED
      <4> HIDE DEF moved
      <4>1. KeysOf(moved) = refs
        BY <3>2, <3>3 DEF KeysOf
      <4>2. prev = {DocFor(k)} \cup moved
        BY DEF moved
      <4> HIDE DEF prev
      <4>3. QED
        BY <3>1, <4>1, <4>2, KeysOfUnion
  <2>3. KeysOf(next) = {target} \cup {ref(r) : r \in refs}
    <3>1. next = {DocFor(e) : e \in {target} \cup {ref(r) : r \in refs}}
      <4> HIDE DEF refs, ref, target
      <4>1. QED
        OBVIOUS
    <3> HIDE DEF next
    <3>2. QED
      BY <3>1, KeysOfDocs
  <2>4. /\ target.id = k.id /\ target.name = new /\ target.stamp = clock + 1
        /\ target.list = Redirect(k.list, old, new)
    BY <1>0 DEF Content
  <2>5. old \notin target.list.set
    BY <2>1, <2>4 DEF Redirect
  <2> HIDE DEF prev, next, target, refs, ref
  <2>6. /\ op'.kind = "rename" /\ idx' = idx
        /\ Replaced' = {k} \cup refs
        /\ Replacing' = {target} \cup {ref(r) : r \in refs}
    BY <2>1, <2>2, <2>3 DEF Begin, Replaced, Replacing
  <2>7. PICK f : f = target
    OBVIOUS
  <2>8. /\ f \in Replacing' /\ f.id = k.id /\ f.name = new /\ f.name # k.name
        /\ f.stamp = clock' /\ k.name \notin f.list.set
        /\ {r \in idx' : r.name = f.name} = {}
    BY <2>1, <2>4, <2>5, <2>6, <2>7 DEF old, Named, Begin
  <2>9. refs = {r \in idx' : k.name \in r.list.set} \ {k}
    BY <2>6 DEF refs, Referrers, Linking
  <2>10. /\ Replaced' = {k} \cup ({r \in idx' : k.name \in r.list.set} \ {k})
         /\ Replacing' = {f} \cup {Rewritten(r, k.name, f.name) :
                                    r \in {r \in idx' : k.name \in r.list.set} \ {k}}
    BY <2>6, <2>7, <2>8, <2>9 DEF ref, old
  <2>11. PlannedRename'
    <3>1. k \in idx'
      BY <2>6
    <3>2. QED
      BY <2>8, <2>10, <3>1 DEF PlannedRename, Named, Referrers, Linking
  <2>12. QED
    BY <2>1, <2>6, <2>11 DEF Planned
<1>5. ASSUME NEW k \in idx, NEW dst \in Names, LinkMemories(k, dst)
      PROVE  \E prev, next : Begin("update", "write", prev, next) /\ Planned'
  BY <1>2, <1>5 DEF LinkMemories
<1>6. QED
  BY <1>1, <1>2, <1>3, <1>4, <1>5 DEF Client, BeginUpdate

LEMMA GivenUpNames ==
    ASSUME TypeOK, NamesInv, op.pc # "idle", boot' = boot, clock' = clock, GiveUp,
           Ownership', OnePer(idx)',
           Keys' \cup names' \cup idx' \subseteq Keys \cup names \cup idx \cup Replacing \cup Replaced,
           \A k \in Replacing \cup Replaced : k.id <= clock
    PROVE  NamesInv'
  BY EndedNames, CleaningNames DEF GiveUp, Finish

LEMMA UploadNames ==
    ASSUME TypeOK, NamesInv, Upload
    PROVE  NamesInv'
<1>1. PICK k \in op.todo : Write(k) \/ WriteFails(k)
  BY DEF Upload
<1>2. /\ op.pc = "write" /\ op.pc # "idle" /\ Working
      /\ UNCHANGED <<mem, names, tombs, idx, boot, clock>>
  BY <1>1 DEF Write, WriteFails, Uploading, Working
<1>3. Ownership' /\ OnePer(idx)' /\ Keys' = Keys
  BY <1>2, SameOwnership
<1>4. \A l \in Replacing \cup Replaced : l.id <= clock
  BY <1>2, PlannedAges DEF NamesInv, PlanKept
<1>5. CASE Finish
  BY <1>2, <1>3, <1>4, <1>5, EndedNames DEF Finish
<1>6. ASSUME NEW todo, GoTo("discard", todo)
      PROVE  NamesInv'
  BY <1>2, <1>3, <1>4, <1>6, CleaningNames
<1>7. ASSUME NEW pc \in {"write", "commit"}, NEW todo, GoTo(pc, todo)
      PROVE  NamesInv'
  BY <1>2, <1>3, <1>7, MovingNames
<1>8. QED
  BY <1>1, <1>5, <1>6, <1>7 DEF Write, WriteFails

(* The transaction of a commit, whether or not its caller hears of it.     *)
LEMMA CommitNames ==
    ASSUME TypeOK, NamesInv, op.pc = "commit", Commit, idx' = idx
    PROVE  /\ Ownership'
           /\ OnePer(idx)'
           /\ Keys' \cup names' \subseteq Keys \cup names \cup Replacing
           /\ Replacing \subseteq names' \cap Keys'
<1>0. Planned /\ Keys' = KeysOf(mem')
  BY DEF NamesInv, PlanKept, Working, Keys, KeysOf
<1>1. OnePer(idx)'
  BY DEF NamesInv, OnePer
<1>2. CASE op.kind = "forget"
  <2>1. DeleteEffect
    BY <1>0, <1>2, CommitDeletes
  <2>2. Ownership'
    BY <2>1, DeleteKeepsOwnership
  <2>3. Keys' \subseteq Keys /\ names' \subseteq names
    BY <1>0, <2>1 DEF DeleteEffect
  <2>4. Replacing = {}
    BY <1>0, <1>2, PlannedIds
  <2>5. QED
    BY <1>1, <2>2, <2>3, <2>4
<1>3. CASE op.kind # "forget"
  <2>1. PutEffect
    BY <1>0, <1>3, CommitPuts
  <2>2. Ownership'
    BY <1>3, <2>1, PutKeepsOwnership
  <2>3. Keys' \subseteq Keys \cup Replacing /\ Replacing \subseteq Keys'
    BY <1>0, <2>1 DEF PutEffect
  <2>4. names' \subseteq names \cup Replacing /\ Replacing \subseteq names'
    BY <2>1 DEF PutEffect
  <2>5. QED
    BY <1>1, <2>2, <2>3, <2>4
<1>4. QED
  BY <1>2, <1>3

LEMMA RestoreNames ==
    ASSUME TypeOK, NamesInv, op.pc = "restore", Restore, idx' = idx
    PROVE  /\ Ownership'
           /\ OnePer(idx)'
           /\ Keys' \cup names' \subseteq Keys \cup names \cup Replaced
<1>0. Planned /\ Keys' = KeysOf(mem') /\ Ownership
  BY DEF NamesInv, PlanKept, Working, Keys, KeysOf
<1>1. OnePer(idx)'
  BY DEF NamesInv, OnePer
<1>2. CASE op.kind = "save"
  <2>1. RemoveEffect
    BY <1>0, <1>2, RestoreRemoves
  <2>2. Ownership'
    BY <2>1, RemoveKeepsOwnership
  <2>3. Keys' \subseteq Keys /\ names' \subseteq names
    BY <1>0, <2>1 DEF RemoveEffect
  <2>4. QED
    BY <1>1, <2>2, <2>3
<1>3. CASE op.kind # "save"
  <2>1. PutBackEffect \/ (Keys' = Keys /\ names' = names)
    BY <1>0, <1>3, RestorePutsBack DEF Ownership
  <2>2. CASE PutBackEffect
    <3>1. Ownership'
      BY <1>3, <2>2, PutBackKeepsOwnership
    <3>2. Keys' \subseteq Keys \cup Replaced
      BY <1>0, <2>2 DEF PutBackEffect
    <3>3. names' \subseteq names \cup Replaced
      BY <2>2 DEF PutBackEffect
    <3>4. QED
      BY <1>1, <3>1, <3>2, <3>3
  <2>3. CASE Keys' = Keys /\ names' = names
    <3>1. Ownership'
      BY <1>0, <2>3 DEF Ownership, OneNameDocument, OneDocument, NameOwned, NoStolenName, Keys
    <3>2. QED
      BY <1>1, <2>3, <3>1
  <2>4. QED
    BY <2>1, <2>2, <2>3
<1>4. QED
  BY <1>2, <1>3

LEMMA MetadataNames ==
    ASSUME TypeOK, NamesInv, Metadata
    PROVE  NamesInv'
<1>1. /\ op.pc = "commit" /\ op.pc # "idle" /\ Working
      /\ UNCHANGED <<idx, boot, clock>>
  BY DEF Metadata, CommitMetadata, CommitRejected, CommitAckLost, storeVars, Working
<1>2. \A l \in Replacing \cup Replaced : l.id <= clock
  BY <1>1, PlannedAges DEF NamesInv, PlanKept
<1>3. CASE CommitRejected
  <2>1. mem' = mem /\ names' = names /\ GiveUp
    BY <1>3 DEF CommitRejected, storeVars
  <2>2. Ownership' /\ OnePer(idx)' /\ Keys' = Keys
    BY <1>1, <2>1, SameOwnership
  <2>3. QED
    BY <1>1, <1>2, <2>1, <2>2, GivenUpNames
<1>4. CASE CommitMetadata \/ CommitAckLost
  <2>1. Commit
    BY <1>4 DEF CommitMetadata, CommitAckLost
  <2>2. /\ Ownership' /\ OnePer(idx)'
        /\ Keys' \cup names' \subseteq Keys \cup names \cup Replacing
        /\ Replacing \subseteq names' \cap Keys'
    BY <1>1, <2>1, CommitNames
  <2>3. CASE GoTo("index", {})
    BY <1>1, <2>2, <2>3, MovingNames
  <2>4. CASE GiveUp
    BY <1>1, <1>2, <2>2, <2>4, GivenUpNames
  <2>5. QED
    BY <1>4, <2>3, <2>4 DEF CommitMetadata, CommitAckLost
<1>5. QED
  BY <1>3, <1>4 DEF Metadata

(* The rows that replace those of their memories own their names.          *)
LEMMA IndexNames ==
    ASSUME TypeOK, NamesInv, Index
    PROVE  NamesInv'
<1>1. /\ op.pc = "index" /\ op.pc # "idle" /\ Working /\ Planned
      /\ UNCHANGED <<mem, names, boot, clock>>
  BY DEF Index, CommitIndex, IndexFails, storeVars, Working, NamesInv, PlanKept
<1>2. CASE IndexFails
  <2>1. GoTo("restore", {}) /\ idx' = idx
    BY <1>2 DEF IndexFails
  <2>2. Ownership' /\ Keys' = Keys
    BY <1>1, <2>1, SameOwnership
  <2>3. QED
    BY <1>1, <2>1, <2>2, MovingNames
<1>3. CASE CommitIndex
  <2>1. /\ GoTo("sweep", Replaced)
        /\ idx' = {k \in idx : k.id \notin IdsOf(Replaced)} \cup Replacing
    BY <1>3 DEF CommitIndex
  <2>2. /\ Ownership /\ OnePer(idx) /\ Replacing \subseteq names
    BY <1>1 DEF NamesInv, PlanKept
  <2>3. OnePer(Replacing) /\ \A r \in Replacing, k \in idx : k.name = r.name => k.id = r.id
    BY <1>1, <2>2, PlannedNames
  <2>4. ASSUME NEW r \in Replacing, NEW k \in idx, k.id \notin IdsOf(Replaced)
        PROVE  k.id # r.id
    <3>1. CASE op.kind = "save"
      BY <1>1, <3>1, PlannedIds DEF NamesInv, IdsOrdered
    <3>2. CASE op.kind # "save"
      BY <1>1, <2>4, <3>2, PlannedIds DEF IdsOf
    <3>3. QED
      BY <3>1, <3>2
  <2>5. OnePer(idx)'
    <3>1. \A k \in idx', l \in idx' : k.id = l.id \/ k.name = l.name => k = l
      BY <2>1, <2>2, <2>3, <2>4 DEF OnePer
    <3>2. QED
      BY <3>1 DEF OnePer
  <2>6. Ownership'
    <3>1. \A k \in idx', n \in names : k.name = n.name => k.id = n.id
      BY <2>1, <2>2 DEF Ownership, NoStolenName, OneNameDocument
    <3>2. Keys' = Keys
      BY <1>1 DEF Keys, KeysOf
    <3>3. QED
      BY <1>1, <2>2, <3>1, <3>2
         DEF Ownership, NoStolenName, OneNameDocument, OneDocument, NameOwned, Keys
  <2>7. Keys' \cup names' \cup idx' \subseteq Keys \cup names \cup idx \cup Replacing \cup Replaced
    BY <1>1, <2>1 DEF Keys, KeysOf
  <2>8. \A l \in Replacing \cup Replaced : l.id <= clock
    BY <1>1, PlannedAges DEF NamesInv
  <2>9. QED
    BY <1>1, <2>1, <2>5, <2>6, <2>7, <2>8, CleaningNames
<1>4. QED
  BY <1>2, <1>3 DEF Index

LEMMA UndoNames ==
    ASSUME TypeOK, NamesInv, Undo
    PROVE  NamesInv'
<1>1. /\ op.pc = "restore" /\ op.pc # "idle" /\ Working
      /\ UNCHANGED <<idx, boot, clock>>
  BY DEF Undo, Compensate, CompensationFails, CompensationAckLost, storeVars, Working
<1>2. \A l \in Replacing \cup Replaced : l.id <= clock
  BY <1>1, PlannedAges DEF NamesInv, PlanKept
<1>3. CASE CompensationFails
  <2>1. mem' = mem /\ names' = names /\ op' = NoOp
    BY <1>3 DEF CompensationFails, storeVars, Finish
  <2>2. Ownership' /\ OnePer(idx)' /\ Keys' = Keys
    BY <1>1, <2>1, SameOwnership
  <2>3. QED
    BY <1>1, <1>2, <2>1, <2>2, EndedNames
<1>4. CASE Compensate \/ CompensationAckLost
  <2>1. Restore
    BY <1>4 DEF Compensate, CompensationAckLost
  <2>2. /\ Ownership' /\ OnePer(idx)'
        /\ Keys' \cup names' \subseteq Keys \cup names \cup Replaced
    BY <1>1, <2>1, RestoreNames
  <2>3. CASE GiveUp
    BY <1>1, <1>2, <2>2, <2>3, GivenUpNames
  <2>4. CASE Finish
    BY <1>1, <1>2, <2>2, <2>4, EndedNames DEF Finish
  <2>5. QED
    BY <1>4, <2>3, <2>4 DEF Compensate, CompensationAckLost
<1>5. QED
  BY <1>3, <1>4 DEF Undo

LEMMA CleanupNames ==
    ASSUME TypeOK, NamesInv, Cleanup
    PROVE  NamesInv'
<1> DEFINE Over == \/ op' = NoOp
                   \/ \E pc \in {"discard", "sweep"} : \E todo : GoTo(pc, todo)
<1>1. /\ mem' = mem /\ names' = names /\ idx' = idx /\ boot' = boot /\ clock' = clock
      /\ op.pc # "idle" /\ Over
  <2>1. ASSUME NEW k \in op.todo, NEW pc \in {"discard", "sweep"}, Removing(pc, k)
        PROVE  op.pc # "idle" /\ UNCHANGED <<mem, names, idx, boot, clock>> /\ Over
    <3>1. op.pc = pc /\ op.pc # "idle" /\ UNCHANGED <<mem, names, idx, boot, clock>>
      BY <2>1 DEF Removing
    <3>2. op' = NoOp \/ GoTo(pc, op.todo \ {k})
      BY <2>1 DEF Removing, Finish
    <3>3. QED
      BY <3>1, <3>2
  <2>2. CASE NothingToSweep
    BY <2>2 DEF NothingToSweep, Finish, storeVars
  <2>3. QED
    BY <2>1, <2>2 DEF Cleanup, Discard, DiscardFails, Sweep, SweepFails
<1>2. Ownership' /\ OnePer(idx)' /\ Keys' = Keys
  BY <1>1, SameOwnership
<1>3. Keys' \cup names' \cup idx' \subseteq Keys \cup names \cup idx
  BY <1>1, <1>2
<1>4. CASE op' = NoOp
  <2>1. PlanKept'
    BY <1>4 DEF PlanKept, Working, NoOp
  <2>2. IdsOrdered'
    <3>1. op'.kind = "none" /\ op'.pc = "idle"
      BY <1>4 DEF NoOp
    <3>2. \A k \in Keys \cup names \cup idx : k.id <= clock
      BY DEF NamesInv, IdsOrdered
    <3>3. QED
      BY <1>1, <1>2, <3>1, <3>2 DEF IdsOrdered
  <2>3. QED
    BY <1>2, <2>1, <2>2 DEF NamesInv
<1>5. ASSUME NEW pc \in {"discard", "sweep"}, NEW todo, GoTo(pc, todo)
      PROVE  NamesInv'
  BY <1>1, <1>2, <1>3, <1>5, CleaningNames
<1>6. QED
  BY <1>1, <1>4, <1>5

(* Whatever fails, whatever outcome is lost and wherever the instance dies: *)
(* names stay with their memories.                                         *)
THEOREM NamesStay == Spec => []NamesInv
<1>1. Init => NamesInv
  BY MaxOpsAssumption
     DEF Init, StoreInit, NamesInv, PlanKept, IdsOrdered, Ownership, OneNameDocument, OneDocument,
         NameOwned, NoStolenName, OnePer, NoOp, Working, Keys, KeysOf
<1>2. TypeOK /\ NamesInv /\ [Next]_vars => NamesInv'
  <2> SUFFICES ASSUME TypeOK, NamesInv, [Next]_vars
               PROVE  NamesInv'
    OBVIOUS
  <2>0. (Replacing = {} /\ Replaced = {}) \/ op # NoOp
    BY DEF Replacing, Replaced, NoOp, KeysOf
  <2>1. ASSUME op = NoOp, op' = NoOp, clock' = clock, mem' = mem, names' = names,
               idx' \subseteq Keys
        PROVE  NamesInv'
    <3>1. Ownership' /\ OnePer(idx)' /\ Keys' = Keys
      BY <2>1, RebuiltNames
    <3>2. QED
      BY <2>0, <2>1, <3>1, EndedNames
  <2>2. CASE Boot \/ Reindex
    BY <2>1, <2>2 DEF Boot, Reindex, Rebuilt, Idle, storeVars, NamesInv, PlanKept, Keys
  <2>3. CASE BootFails
    <3>1. op = NoOp /\ op' = NoOp /\ clock' = clock /\ mem' = mem /\ names' = names /\ idx' = idx
      BY <2>3 DEF BootFails, storeVars, NamesInv, PlanKept
    <3>2. Ownership' /\ OnePer(idx)' /\ Keys' = Keys
      BY <3>1, SameOwnership
    <3>3. QED
      BY <2>0, <3>1, <3>2, EndedNames
  <2>4. CASE Crash
    <3>1. op' = NoOp /\ clock' = clock /\ mem' = mem /\ names' = names /\ idx' = {}
      BY <2>4 DEF Crash, storeVars
    <3>2. Ownership' /\ OnePer(idx)' /\ Keys' = Keys
      BY <3>1, RebuiltNames
    <3>3. PlanKept'
      BY <3>1 DEF PlanKept, Working, NoOp
    <3>4. IdsOrdered'
      BY <3>1, <3>2 DEF NamesInv, IdsOrdered, NoOp
    <3>5. QED
      BY <3>2, <3>3, <3>4 DEF NamesInv
  <2>5. CASE Client /\ ~Reindex
    BY <2>5, ClientPlans, BegunNames
  <2>6. CASE OpStep
    BY <2>6, UploadNames, MetadataNames, IndexNames, UndoNames, CleanupNames DEF OpStep
  <2>7. CASE UNCHANGED vars
    BY <2>7 DEF vars, storeVars, NamesInv, PlanKept, IdsOrdered, Ownership, OneNameDocument,
                OneDocument, NameOwned, NoStolenName, OnePer, Working, Keys, Planned, PlannedSave,
                PlannedUpdate, PlannedForget, PlannedRename, Referrers, Linking, Named,
                Replaced, Replacing
  <2>8. QED
    BY <2>2, <2>3, <2>4, <2>5, <2>6, <2>7 DEF Next
<1>3. QED
  BY <1>1, <1>2, TypeCorrect, PTL DEF Spec

(* The name document of every memory points to the memory's own body.      *)
THEOREM NamesOwned == Spec => []NameOwned
<1>1. NamesInv => NameOwned
  BY DEF NamesInv, Ownership
<1>2. QED
  BY <1>1, NamesStay, PTL

(* The name of an indexed memory never belongs to another memory.          *)
THEOREM NamesNotStolen == Spec => []NoStolenName
<1>1. NamesInv => NoStolenName
  BY DEF NamesInv, Ownership
<1>2. QED
  BY <1>1, NamesStay, PTL

(* There is one document and one row per memory id and per name.           *)
THEOREM AlwaysUnique == Spec => []Unique
<1>1. NamesInv => Unique
  BY DEF NamesInv, Ownership, Unique, OnePer, OneDocument, OneNameDocument, NameOwned, Keys
<1>2. QED
  BY <1>1, NamesStay, PTL

-----------------------------------------------------------------------------
(* Documents, names and index agree as long as every outcome is known and  *)
(* compensations and reads succeed.                                        *)

Settling == op.pc \in {"index", "restore"}

LEMMA NextPc ==
    ASSUME TypeOK
    PROVE  /\ \A pc : \A todo : GoTo(pc, todo) => op'.pc = pc
           /\ Finish => op'.pc = "idle"
           /\ GiveUp => op'.pc \in {"idle", "discard"}
<1>1. \A pc : \A todo : GoTo(pc, todo) => op'.pc = pc
  BY DEF GoTo, TypeOK, Op
<1>2. Finish => op'.pc = "idle"
  BY DEF Finish, NoOp
<1>3. QED
  BY <1>1, <1>2 DEF GiveUp

LEMMA OneEntryPerKey ==
    ASSUME NamesInv
    PROVE  OnePer(Keys)
  BY DEF NamesInv, Ownership, OnePer, OneDocument, OneNameDocument, NameOwned, Keys

(* A step that touches neither documents nor names, between two moments    *)
(* when no change may be taken back.                                       *)
LEMMA SameCatalogue ==
    ASSUME NamesInv, CatalogueInv, ~Settling', mem' = mem, names' = names,
           boot' = "ready" => idx' = {k \in Keys : Indexable(k)}
    PROVE  CatalogueInv'
<1>1. Keys' = Keys /\ Offered' = Keys
  BY DEF Keys, KeysOf, Offered, Settling
<1>2. NamesMatch'
  BY <1>1 DEF CatalogueInv, NamesMatch, Keys
<1>3. OnePer(Offered)'
  BY <1>1, OneEntryPerKey DEF OnePer
<1>4. boot' = "ready" => idx' = {k \in Offered' : Indexable(k)'}
  BY <1>1 DEF Indexable
<1>5. QED
  BY <1>2, <1>3, <1>4 DEF CatalogueInv, Settling

(* What a commit changes: exactly the entries it replaces.                 *)
LEMMA CommitExact ==
    ASSUME TypeOK, BodiesInv, NamesInv, CatalogueInv, op.pc = "commit", Commit
    PROVE  /\ Replaced \subseteq Keys /\ Replacing \cap Keys = {}
           /\ Keys' = (Keys \ Replaced) \cup Replacing
           /\ names' = Keys'
           /\ op.kind = "forget" => Replaced \subseteq tombs'
<1>1. /\ Planned /\ Keys' = KeysOf(mem') /\ names = Keys /\ OnePer(Keys) /\ boot = "ready"
  BY OneEntryPerKey
     DEF NamesInv, PlanKept, Working, Keys, KeysOf, CatalogueInv, NamesMatch, NoOp
<1>2. Replaced \subseteq Keys /\ Replacing \cap Keys = {}
  BY <1>1, PlannedRows DEF CatalogueInv, Offered, BodiesInv, Uploaded, Live, Keys
<1>3. CASE op.kind = "forget"
  <2>1. PICK k \in idx :
            /\ Replaced = {k}
            /\ Keys' = {l \in Keys : l.id # k.id}
            /\ names' = {n \in names : \A l \in Keys : l.id = k.id => n.name # l.name}
            /\ tombs' = tombs \cup {k}
    BY <1>1, <1>3, CommitDeletes DEF DeleteEffect
  <2>2. Replacing = {}
    BY <1>1, <1>3, PlannedIds
  <2>3. k \in Keys /\ \A l \in Keys : (l.id = k.id <=> l = k) /\ (l.name = k.name <=> l = k)
    BY <1>1, <1>2, <2>1 DEF OnePer
  <2>4. Keys' = Keys \ {k}
    BY <2>1, <2>3
  <2>5. names' = Keys \ {k}
    BY <1>1, <2>1, <2>3
  <2>6. QED
    BY <1>2, <2>1, <2>2, <2>4, <2>5
<1>4. CASE op.kind # "forget"
  <2>1. /\ \A r \in Replacing, n \in Keys : n.name = r.name => n.id = r.id
        /\ Keys' = {k \in Keys : k.id \notin IdsOf(Replacing)} \cup Replacing
        /\ names' = {n \in Keys : n.name \notin NamesOf(Replaced) \cup NamesOf(Replacing)}
                        \cup Replacing
    BY <1>1, <1>4, CommitPuts DEF PutEffect
  <2>2. ASSUME NEW k \in Keys
        PROVE  k.id \in IdsOf(Replacing) <=> k \in Replaced
    <3>1. CASE op.kind = "save"
      <4>1. Replaced = {} /\ \A r \in Replacing : r.id = clock
        BY <1>1, <3>1, PlannedIds
      <4>2. k.id # clock
        BY <3>1 DEF NamesInv, IdsOrdered
      <4>3. QED
        BY <4>1, <4>2 DEF IdsOf
    <3>2. CASE op.kind # "save"
      <4>1. IdsOf(Replacing) = IdsOf(Replaced)
        BY <1>1, <1>4, <3>2, PlannedIds
      <4>2. k.id \in IdsOf(Replaced) <=> k \in Replaced
        BY <1>1, <1>2 DEF IdsOf, OnePer
      <4>3. QED
        BY <4>1, <4>2
    <3>3. QED
      BY <3>1, <3>2
  <2>3. ASSUME NEW k \in Keys
        PROVE  k.name \in NamesOf(Replaced) \cup NamesOf(Replacing) <=> k \in Replaced
    <3>1. k.name \in NamesOf(Replaced) <=> k \in Replaced
      BY <1>1, <1>2 DEF NamesOf, OnePer
    <3>2. k.name \in NamesOf(Replacing) => k.id \in IdsOf(Replacing)
      BY <2>1 DEF NamesOf, IdsOf
    <3>3. QED
      BY <2>2, <3>1, <3>2
  <2>4. Keys' = (Keys \ Replaced) \cup Replacing
    BY <2>1, <2>2
  <2>5. names' = (Keys \ Replaced) \cup Replacing
    BY <2>1, <2>3
  <2>6. QED
    BY <1>2, <1>4, <2>4, <2>5
<1>5. QED
  BY <1>3, <1>4

LEMMA CommitCatalogue ==
    ASSUME TypeOK, BodiesInv, NamesInv, CatalogueInv, CommitMetadata
    PROVE  CatalogueInv' /\ Offered' = Keys
<1>1. op.pc = "commit" /\ Commit /\ GoTo("index", {}) /\ UNCHANGED <<idx, boot>>
  BY DEF CommitMetadata
<1>2. /\ Replaced \subseteq Keys /\ Replacing \cap Keys = {}
      /\ Keys' = (Keys \ Replaced) \cup Replacing
      /\ names' = Keys'
      /\ op.kind = "forget" => Replaced \subseteq tombs'
  BY <1>1, CommitExact
<1>3. op'.pc = "index" /\ op'.kind = op.kind /\ op'.prev = op.prev /\ op'.next = op.next
  BY <1>1 DEF TypeOK, Op, GoTo
<1>4. Replaced' = Replaced /\ Replacing' = Replacing
  BY <1>3 DEF Replaced, Replacing
<1>5. Offered' = (Keys' \ Replacing) \cup Replaced
  BY <1>3, <1>4 DEF Offered
<1>6. Offered' = Keys
  BY <1>2, <1>5
<1>7. NamesMatch'
  BY <1>2 DEF NamesMatch, Keys
<1>8. OnePer(Offered)'
  BY <1>6, OneEntryPerKey DEF OnePer
<1>9. Offered = Keys /\ (boot = "ready" => idx = {k \in Offered : Indexable(k)})
  BY <1>1 DEF Offered, CatalogueInv
<1>10. boot' = "ready" => idx' = {k \in Offered' : Indexable(k)'}
  BY <1>1, <1>6, <1>9 DEF Indexable
<1>11. Replacing' \subseteq Keys' /\ Keys' \cap Replaced' = {}
  BY <1>2, <1>4
<1>12. op'.kind = "forget" => Replaced' \subseteq tombs'
  BY <1>2, <1>3, <1>4
<1>13. CatalogueInv'
  BY <1>7, <1>8, <1>10, <1>11, <1>12 DEF CatalogueInv
<1>14. QED
  BY <1>6, <1>13

LEMMA IndexCatalogue ==
    ASSUME TypeOK, NamesInv, CatalogueInv, Index
    PROVE  CatalogueInv'
<1>1. /\ op.pc = "index" /\ boot = "ready" /\ UNCHANGED <<mem, names, tombs, boot>>
  BY DEF Index, CommitIndex, IndexFails, storeVars, NamesInv, PlanKept, NoOp
<1>2. /\ Offered = (Keys \ Replacing) \cup Replaced
      /\ idx = {k \in Offered : Indexable(k)} /\ OnePer(Offered)
      /\ Replacing \subseteq Keys /\ Keys \cap Replaced = {}
  BY <1>1 DEF Offered, CatalogueInv
<1>3. CASE CommitIndex
  <2>1. /\ op'.pc = "sweep"
        /\ \A k \in Replacing : Indexable(k)
        /\ idx' = {k \in idx : k.id \notin IdsOf(Replaced)} \cup Replacing
    BY <1>3 DEF CommitIndex, GoTo, TypeOK, Op
  <2>2. ASSUME NEW k \in Keys, Indexable(k), k \notin Replacing
        PROVE  k \in idx /\ k.id \notin IdsOf(Replaced)
    BY <1>2, <2>2 DEF IdsOf, OnePer
  <2>3. ASSUME NEW k \in idx, k.id \notin IdsOf(Replaced)
        PROVE  k \in Keys /\ Indexable(k)
    BY <1>2, <2>3 DEF IdsOf
  <2>4. idx' = {k \in Keys : Indexable(k)}
    BY <1>2, <2>1, <2>2, <2>3
  <2>5. ~Settling'
    BY <2>1 DEF Settling
  <2>6. QED
    BY <1>1, <2>4, <2>5, SameCatalogue
<1>4. CASE IndexFails
  <2>1. /\ op'.pc = "restore" /\ op'.kind = op.kind /\ idx' = idx
        /\ op'.prev = op.prev /\ op'.next = op.next
    BY <1>4 DEF IndexFails, GoTo, TypeOK, Op
  <2>2. Replaced' = Replaced /\ Replacing' = Replacing /\ Keys' = Keys
    BY <1>1, <2>1 DEF Replaced, Replacing, Keys, KeysOf
  <2>3. Offered' = Offered
    BY <1>2, <2>1, <2>2 DEF Offered
  <2>4. OnePer(Offered)'
    BY <1>2, <2>3 DEF OnePer
  <2>5. NamesMatch'
    BY <1>1, <2>2 DEF NamesMatch, CatalogueInv, Keys
  <2>6. idx' = {k \in Offered' : Indexable(k)'}
    BY <1>2, <2>1, <2>3 DEF Indexable
  <2>7. op'.kind = "forget" => Replaced' \subseteq tombs'
    BY <1>1, <2>1, <2>2 DEF CatalogueInv
  <2>8. QED
    BY <1>2, <2>2, <2>4, <2>5, <2>6, <2>7 DEF CatalogueInv
<1>5. QED
  BY <1>3, <1>4 DEF Index

(* Nothing has taken the names of what a compensation restores.            *)
LEMMA RestoreAccepted ==
    ASSUME TypeOK, NamesInv, CatalogueInv, op.pc = "restore"
    PROVE  RestoreAccepts
<1>1. /\ Planned /\ names = Keys /\ OnePer(idx)
      /\ Offered = (Keys \ Replacing) \cup Replaced /\ OnePer(Offered) /\ Replacing \subseteq Keys
  BY DEF NamesInv, PlanKept, Working, CatalogueInv, NamesMatch, Offered, Keys
<1>2. ASSUME NEW docs, docs \subseteq op.prev
      PROVE  NamesFree(docs)
  <2>1. ASSUME NEW d \in docs, NEW n \in names, n.name = d.key.name
        PROVE  n.id = d.key.id
    <3>1. d.key \in Replaced /\ d.key \in idx
      BY <1>1, <1>2, PlannedRows DEF Replaced, KeysOf
    <3>2. CASE n \in Replacing
      BY <1>1, <2>1, <3>1, <3>2, PlannedNames
    <3>3. CASE n \notin Replacing
      BY <1>1, <2>1, <3>1, <3>3 DEF OnePer
    <3>4. QED
      BY <3>2, <3>3
  <2>2. QED
    BY <2>1 DEF NamesFree
<1>3. RestoreMemoryIndexesAccepts(op.prev, op.next)
  BY <1>1, <1>2 DEF RestoreMemoryIndexesAccepts, Replacing, Keys
<1>4. \A d \in op.prev : \A expected : RestoreMemoryIndexAccepts(d, expected)
  BY <1>2 DEF RestoreMemoryIndexAccepts
<1>5. QED
  BY <1>3, <1>4 DEF RestoreAccepts

(* A compensation brings back exactly what the index still shows.          *)
LEMMA RestoreExact ==
    ASSUME TypeOK, NamesInv, CatalogueInv, op.pc = "restore", Restore
    PROVE  Keys' = Offered /\ names' = Offered
<1>1. /\ Planned /\ Keys' = KeysOf(mem') /\ names = Keys /\ OnePer(Keys) /\ OnePer(Offered)
      /\ Offered = (Keys \ Replacing) \cup Replaced
      /\ Replacing \subseteq Keys /\ Keys \cap Replaced = {}
      /\ op.kind = "forget" => Replaced \subseteq tombs
  BY OneEntryPerKey
     DEF NamesInv, PlanKept, Working, Keys, KeysOf, CatalogueInv, NamesMatch, Offered
<1>2. CASE op.kind = "save"
  <2>1. Replaced = {}
    BY <1>1, <1>2, PlannedIds
  <2>2. Keys' = Keys \ Replacing /\ names' = names \ (Replacing \cap Keys)
    BY <1>1, <1>2, RestoreRemoves DEF RemoveEffect
  <2>3. QED
    BY <1>1, <2>1, <2>2
<1>3. CASE op.kind # "save"
  <2>1. \A k \in Keys, r \in Replaced : k \notin Replacing => k.id # r.id /\ k.name # r.name
    BY <1>1 DEF OnePer
  <2>2. \A k \in Keys : k.id \in IdsOf(Replaced) <=> k \in Replacing
    <3>1. CASE op.kind = "forget"
      <4>1. Replacing = {}
        BY <1>1, <3>1, PlannedIds
      <4>2. QED
        BY <2>1, <4>1 DEF IdsOf
    <3>2. CASE op.kind # "forget"
      <4>1. IdsOf(Replaced) = IdsOf(Replacing)
        BY <1>1, <1>3, <3>2, PlannedIds
      <4>2. QED
        BY <1>1, <4>1 DEF IdsOf, OnePer
    <3>3. QED
      BY <3>1, <3>2
  <2>3. ~NotRestorable
    <3>1. op.kind = "forget" => Replacing = {}
      BY <1>1, PlannedIds
    <3>2. op.kind = "forget" => IdsOf(Replaced) \cap IdsOf(Keys) = {}
      BY <2>1, <3>1 DEF IdsOf
    <3>3. QED
      BY <1>1, <3>2 DEF NotRestorable
  <2>4. PutBackEffect
    BY <1>1, <1>3, <2>3, RestorePutsBack DEF NamesInv, Ownership
  <2>5. Keys' = Offered
    BY <1>1, <2>2, <2>4 DEF PutBackEffect
  <2>6. names' = {n \in Keys : n \notin Replacing /\ n.name \notin NamesOf(Replaced)} \cup Replaced
    BY <1>1, <2>4 DEF PutBackEffect
  <2>7. \A n \in Keys : n \notin Replacing => n.name \notin NamesOf(Replaced)
    BY <2>1 DEF NamesOf
  <2>8. names' = Offered
    BY <1>1, <2>6, <2>7
  <2>9. QED
    BY <2>5, <2>8
<1>4. QED
  BY <1>2, <1>3

LEMMA UndoCatalogue ==
    ASSUME Faults \cap {"commitAck", "restore", "read"} = {},
           TypeOK, NamesInv, CatalogueInv, Undo
    PROVE  CatalogueInv' /\ Compensate
<1>1. Compensate
  BY RestoreAccepted DEF Undo, CompensationFails, CompensationAckLost
<1>2. op.pc = "restore" /\ Restore /\ GiveUp /\ UNCHANGED <<idx, boot>> /\ boot = "ready"
  BY <1>1 DEF Compensate, NamesInv, PlanKept, NoOp
<1>3. Keys' = Offered /\ names' = Offered
  BY <1>2, RestoreExact
<1>4. ~Settling'
  BY <1>2, NextPc DEF Settling
<1>5. Offered' = Offered
  BY <1>3, <1>4 DEF Offered, Settling
<1>6. OnePer(Offered)'
  BY <1>5 DEF CatalogueInv, OnePer
<1>7. NamesMatch'
  BY <1>3 DEF NamesMatch, Keys
<1>8. idx' = {k \in Offered' : Indexable(k)'}
  BY <1>2, <1>5 DEF CatalogueInv, Indexable
<1>9. CatalogueInv'
  BY <1>4, <1>6, <1>7, <1>8 DEF CatalogueInv, Settling
<1>10. QED
  BY <1>1, <1>9

(* Every other step leaves documents and names alone.                      *)
LEMMA OtherCatalogue ==
    ASSUME TypeOK, NamesInv, CatalogueInv,
           (Client /\ ~Reindex) \/ Upload \/ CommitRejected \/ Cleanup
    PROVE  /\ CatalogueInv' /\ ~Settling /\ ~Settling'
           /\ UNCHANGED <<mem, names>>
<1>1. /\ ~Settling /\ ~Settling'
      /\ UNCHANGED <<mem, names, idx, boot>>
  <2>1. CASE Client /\ ~Reindex
    <3>1. PICK kind \in {"save", "update", "forget", "rename"}, pc \in {"write", "commit"} :
              \E prev, next : Begin(kind, pc, prev, next) /\ Planned'
      BY <2>1, ClientPlans
    <3>2. QED
      BY <3>1 DEF Begin, Idle, NoOp, Settling, storeVars
  <2>2. ASSUME NEW k \in op.todo, Write(k) \/ WriteFails(k)
        PROVE  /\ ~Settling /\ ~Settling'
               /\ UNCHANGED <<mem, names, idx, boot>>
    <3>1. op.pc = "write" /\ UNCHANGED <<mem, names, idx, boot>>
      BY <2>2 DEF Write, WriteFails, Uploading
    <3>2. op'.pc \in {"write", "commit", "discard", "idle"}
      BY <2>2, NextPc DEF Write, WriteFails
    <3>3. QED
      BY <3>1, <3>2 DEF Settling
  <2>3. CASE CommitRejected
    BY <2>3, NextPc DEF CommitRejected, Settling, storeVars
  <2>4. ASSUME NEW k \in op.todo, NEW pc \in {"discard", "sweep"}, Removing(pc, k)
        PROVE  /\ ~Settling /\ ~Settling'
               /\ UNCHANGED <<mem, names, idx, boot>>
    <3>1. op.pc = pc /\ UNCHANGED <<mem, names, idx, boot>>
      BY <2>4 DEF Removing
    <3>2. op'.pc \in {pc, "idle"}
      BY <2>4, NextPc DEF Removing
    <3>3. QED
      BY <3>1, <3>2 DEF Settling
  <2>5. CASE NothingToSweep
    BY <2>5, NextPc DEF NothingToSweep, Settling, storeVars
  <2>6. QED
    BY <2>1, <2>2, <2>3, <2>4, <2>5 DEF Upload, Cleanup, Discard, DiscardFails, Sweep, SweepFails
<1>2. boot = "ready" => idx = {k \in Keys : Indexable(k)}
  BY <1>1 DEF CatalogueInv, Offered, Settling
<1>3. QED
  BY <1>1, <1>2, SameCatalogue

LEMMA ReadyCatalogue ==
    ASSUME Faults \cap {"commitAck", "restore", "read"} = {},
           TypeOK, BodiesInv, NamesInv, CatalogueInv, Boot \/ BootFails \/ Crash \/ Reindex
    PROVE  CatalogueInv'
<1>1. mem' = mem /\ names' = names /\ op' = NoOp
  BY DEF Boot, BootFails, Crash, Reindex, Idle, storeVars, NamesInv, PlanKept
<1>2. ~Settling'
  BY <1>1 DEF Settling, NoOp
<1>3. boot' = "ready" => idx' = {k \in Keys : Indexable(k)}
  <2>1. CASE Boot \/ Reindex
    <3>1. PICK unread \in Unread : idx' = Rebuilt(unread)
      BY <2>1 DEF Boot, Reindex
    <3>2. unread = {}
      BY DEF Unread
    <3>3. Keys \subseteq objs
      BY DEF BodiesInv, PointersResolve, Keys
    <3>4. QED
      BY <3>1, <3>2, <3>3 DEF Rebuilt, Keys
  <2>2. CASE BootFails \/ Crash
    BY <2>2 DEF BootFails, Crash
  <2>3. QED
    BY <2>1, <2>2
<1>4. QED
  BY <1>1, <1>2, <1>3, SameCatalogue

(* As long as no outcome of a commit is lost and compensations and reads   *)
(* succeed, the catalogue is in one piece: documents and names are the     *)
(* same, and the index shows them or what they may still be taken back to. *)
THEOREM CatalogueStays ==
    ASSUME Faults \cap {"commitAck", "restore", "read"} = {}
    PROVE  Spec => []CatalogueInv
<1>1. Init => CatalogueInv
  BY DEF Init, StoreInit, CatalogueInv, NamesMatch, Offered, OnePer, NoOp, Keys, KeysOf
<1>2. TypeOK /\ BodiesInv /\ NamesInv /\ CatalogueInv /\ [Next]_vars => CatalogueInv'
  <2> SUFFICES ASSUME TypeOK, BodiesInv, NamesInv, CatalogueInv, [Next]_vars
               PROVE  CatalogueInv'
    OBVIOUS
  <2>1. CASE Boot \/ BootFails \/ Crash \/ Reindex
    BY <2>1, ReadyCatalogue
  <2>2. CASE (Client /\ ~Reindex) \/ Upload \/ CommitRejected \/ Cleanup
    BY <2>2, OtherCatalogue
  <2>3. CASE CommitMetadata
    BY <2>3, CommitCatalogue
  <2>4. CASE CommitAckLost
    BY <2>4 DEF CommitAckLost
  <2>5. CASE Index
    BY <2>5, IndexCatalogue
  <2>6. CASE Undo
    BY <2>6, UndoCatalogue
  <2>7. CASE UNCHANGED vars
    BY <2>7 DEF vars, storeVars, CatalogueInv, NamesMatch, Offered, OnePer, Keys, KeysOf,
                Replaced, Replacing, Indexable
  <2>8. QED
    BY <2>1, <2>2, <2>3, <2>4, <2>5, <2>6, <2>7 DEF Next, OpStep, Metadata
<1>3. "commitAck" \notin Faults
  OBVIOUS
<1>4. Spec => []BodiesInv
  BY <1>3, BodiesStay
<1>5. QED
  BY <1>1, <1>2, <1>4, TypeCorrect, NamesStay, PTL DEF Spec

(* No name stays reserved for a memory that lost it, and none is free that *)
(* a memory has.                                                           *)
THEOREM NamesAlwaysMatch ==
    ASSUME Faults \cap {"commitAck", "restore", "read"} = {}
    PROVE  Spec => []NamesMatch
<1>1. CatalogueInv => NamesMatch
  BY DEF CatalogueInv
<1>2. QED
  BY <1>1, CatalogueStays, PTL

(* An idle service offers exactly the committed memories it can hold.      *)
THEOREM IndexAlwaysAgrees ==
    ASSUME Faults \cap {"commitAck", "restore", "read"} = {}
    PROVE  Spec => []IndexAgrees
<1>1. CatalogueInv => IndexAgrees
  BY DEF CatalogueInv, IndexAgrees, Idle, NoOp, Offered, Keys
<1>2. QED
  BY <1>1, CatalogueStays, PTL

-----------------------------------------------------------------------------
(* The refinement: every step is one of the catalogue's, or none.          *)

LEMMA PendingOffered ==
    Pending = IF Settling THEN {Offered} ELSE {}
  BY DEF Pending, Settling, Offered, Keys

(* A rename rewrites a memory the way the catalogue lets it follow.        *)
LEMMA RewrittenFollows ==
    ASSUME NEW r \in Content, NEW old \in Names, NEW new \in Names,
           old \in r.list.set, Indexable(r)
    PROVE  Rewritten(r, old, new) = Catalogue!Followed(r, old, new)
<1> DEFINE set == (r.list.set \ {old}) \cup {new}
           repeats == new \in r.list.set
           list == [r.list EXCEPT !.set = set, !.repeats = repeats]
<1>1. r.list.repeats = FALSE /\ r.list \in [set : SUBSET Names, repeats : BOOLEAN]
      /\ set \in SUBSET Names /\ repeats \in BOOLEAN
  BY DEF Indexable, Content, LinkList
<1>2. Catalogue!Followed(r, old, new) = [r EXCEPT !.list.set = set, !.list.repeats = repeats]
  BY <1>1 DEF Catalogue!Followed
<1>3. Rewritten(r, old, new) = [r EXCEPT !.list = [set |-> set, repeats |-> repeats]]
  BY <1>1 DEF Rewritten, Redirect
<1> HIDE DEF set, repeats
<1>4. list = [set |-> set, repeats |-> repeats]
  <2>1. list \in [set : {set}, repeats : {repeats}]
    BY <1>1
  <2> HIDE DEF list
  <2>2. QED
    BY <2>1
<1>5. [r EXCEPT !.list.set = set, !.list.repeats = repeats] = [r EXCEPT !.list = list]
  <2> DEFINE half == [r.list EXCEPT !.set = set]
  <2>1. [r EXCEPT !.list.set = set, !.list.repeats = repeats]
          = [[r EXCEPT !.list = half] EXCEPT !.list = [half EXCEPT !.repeats = repeats]]
    BY DEF Content
  <2>2. [half EXCEPT !.repeats = repeats] = list
    OBVIOUS
  <2> HIDE DEF half, list
  <2>3. QED
    BY <2>1, <2>2 DEF Content
<1> HIDE DEF list
<1>6. QED
  BY <1>2, <1>3, <1>4, <1>5

(* A commit is a change of the catalogue of its kind.                      *)
LEMMA CommitChanges ==
    ASSUME TypeOK, BodiesInv, NamesInv, CatalogueInv, CommitMetadata
    PROVE  Catalogue!Change
<1>1. op.pc = "commit" /\ Commit /\ GoTo("index", {})
  BY DEF CommitMetadata
<1>2. /\ Replaced \subseteq Keys /\ Replacing \cap Keys = {}
      /\ Keys' = (Keys \ Replaced) \cup Replacing
  BY <1>1, CommitExact
<1>3. /\ Planned /\ names = Keys /\ OnePer(Keys) /\ idx = {k \in Keys : Indexable(k)}
      /\ Keys \subseteq Content
  BY <1>1, OneEntryPerKey, KeysType
     DEF NamesInv, PlanKept, Working, CatalogueInv, NamesMatch, Offered, NoOp, Keys, TypeOK, StoreTypeOK
<1>4. Pending = {} /\ Pending' = {Keys}
  <2>1. op'.pc = "index"
    BY <1>1, NextPc
  <2>2. Settling' /\ ~Settling
    BY <1>1, <2>1 DEF Settling
  <2>3. Offered' = Keys
    BY CommitCatalogue
  <2>4. Pending' = IF Settling' THEN {Offered'} ELSE {}
    BY DEF Pending, Settling, Offered, Keys
  <2>5. QED
    BY <2>2, <2>3, <2>4, PendingOffered
<1>5. CASE op.kind = "save"
  <2>1. PICK e \in Replacing : Replaced = {} /\ Replacing = {e} /\ e.id = clock
    BY <1>3, <1>5 DEF Planned, PlannedSave
  <2>2. \A n \in Keys : n.name = e.name => n.id = e.id
    BY <1>1, <1>3, <1>5, <2>1, CommitPuts DEF PutEffect
  <2>3. \A n \in Keys : n.id # e.id
    BY <1>1, <1>5, <2>1 DEF NamesInv, IdsOrdered
  <2>4. e \in Keys' /\ Keys' = Keys \cup {e}
    BY <1>2, <2>1
  <2>5. e.id \notin Catalogue!Ids(Keys) /\ e.name \notin Catalogue!Taken(Keys)
    BY <2>2, <2>3 DEF Catalogue!Ids, Catalogue!Taken
  <2>6. Catalogue!Created
    BY <2>4, <2>5 DEF Catalogue!Created, Keys
  <2>7. QED
    BY <1>4, <2>6 DEF Catalogue!Change, Keys
<1>6. CASE op.kind = "update"
  <2>1. PICK k \in idx, e \in Replacing :
            Replaced = {k} /\ Replacing = {e} /\ e.id = k.id /\ e.name = k.name
    BY <1>3, <1>6 DEF Planned, PlannedUpdate
  <2>2. k \in Keys /\ e \in Keys' /\ Keys' = (Keys \ {k}) \cup {e}
    BY <1>2, <2>1
  <2>3. Catalogue!Edited
    BY <2>1, <2>2 DEF Catalogue!Edited, Keys
  <2>4. QED
    BY <1>4, <2>3 DEF Catalogue!Change, Keys
<1>7. CASE op.kind = "forget"
  <2>1. PICK k \in idx : Replaced = {k} /\ Replacing = {}
    BY <1>3, <1>7 DEF Planned, PlannedForget
  <2>2. k \in Keys /\ Keys' = Keys \ {k}
    BY <1>2, <2>1
  <2>3. Catalogue!Deleted
    BY <2>2 DEF Catalogue!Deleted, Keys
  <2>4. QED
    BY <1>4, <2>3 DEF Catalogue!Change, Keys
<1>8. CASE op.kind = "rename"
  <2>1. PICK k \in idx, f \in Replacing :
            /\ f.id = k.id /\ f.name # k.name /\ k.name \notin f.list.set
            /\ Replaced = {k} \cup Referrers(k)
            /\ Replacing = {f} \cup {Rewritten(r, k.name, f.name) : r \in Referrers(k)}
    BY <1>3, <1>8 DEF Planned, PlannedRename
  <2>2. k \in Keys /\ f \in Keys'
    BY <1>2, <1>3, <2>1
  <2>3. \A n \in Keys : n.name # f.name
    <3>1. \A n \in Keys : n.name = f.name => n.id = f.id
      BY <1>1, <1>3, <1>8, CommitPuts DEF PutEffect
    <3>2. QED
      BY <1>3, <2>1, <2>2, <3>1 DEF OnePer
  <2>4. k.name \in Names /\ f.name \in Names
    <3>1. Replacing \subseteq Content
      BY KeysType DEF TypeOK, Op, Replacing
    <3>2. QED
      BY <1>3, <2>2, <3>1 DEF Content
  <2> DEFINE followed(r) == Catalogue!Followed(r, k.name, f.name)
  <2>5. ASSUME NEW r \in Referrers(k)
        PROVE  Rewritten(r, k.name, f.name) = followed(r)
    <3>1. r \in Content /\ k.name \in r.list.set /\ Indexable(r)
      BY <1>3 DEF Referrers, Linking
    <3>2. QED
      BY <2>4, <3>1, RewrittenFollows
  <2>6. ASSUME NEW r \in Keys \ {k}, r \notin Referrers(k)
        PROVE  followed(r) = r
    <3>1. k.name \notin r.list.set \/ ~Indexable(r)
      BY <1>3, <2>6 DEF Referrers, Linking
    <3>2. QED
      BY <3>1 DEF Catalogue!Followed, Indexable
  <2>7. Referrers(k) \subseteq Keys \ {k}
    BY <1>3 DEF Referrers, Linking
  <2>8. Keys' = {f} \cup {followed(r) : r \in Keys \ {k}}
    <3>1. Keys' = {f} \cup {Rewritten(r, k.name, f.name) : r \in Referrers(k)}
                      \cup ((Keys \ {k}) \ Referrers(k))
      BY <1>2, <2>1
    <3>2. {Rewritten(r, k.name, f.name) : r \in Referrers(k)} = {followed(r) : r \in Referrers(k)}
      BY <2>5
    <3> HIDE DEF followed
    <3>3. {followed(r) : r \in Keys \ {k}}
            = {followed(r) : r \in Referrers(k)} \cup ((Keys \ {k}) \ Referrers(k))
      BY <2>6, <2>7
    <3>4. QED
      BY <3>1, <3>2, <3>3
  <2>9. f.name \notin Catalogue!Taken(Keys)
    BY <2>3 DEF Catalogue!Taken
  <2>10. Catalogue!Renamed
    BY <2>1, <2>2, <2>8, <2>9 DEF Catalogue!Renamed, Keys
  <2>11. QED
    BY <1>4, <2>10 DEF Catalogue!Change, Keys
<1>9. QED
  BY <1>3, <1>5, <1>6, <1>7, <1>8 DEF Planned

(* A step that changes neither what is committed nor what may be taken back. *)
LEMMA CatalogueStutters ==
    ASSUME mem' = mem, Pending' = Pending
    PROVE  UNCHANGED Catalogue!catVars
  BY DEF Catalogue!catVars, KeysOf

(* The last chance to take a change back has passed.                       *)
LEMMA ChangeKept ==
    ASSUME mem' = mem, ~Settling'
    PROVE  Catalogue!Keep \/ UNCHANGED Catalogue!catVars
<1>1. Pending' = {}
  BY DEF Pending, Settling
<1>2. KeysOf(mem)' = KeysOf(mem)
  BY DEF KeysOf
<1>3. QED
  BY <1>1, <1>2 DEF Catalogue!Keep, Catalogue!catVars

(* CloudMemoryService implements the catalogue: whatever else fails, and   *)
(* wherever the instance dies, an operation happens entirely or not at all, *)
(* and a rename takes every reference along.                               *)
THEOREM CatalogueImplemented ==
    ASSUME Faults \cap {"commitAck", "restore", "read"} = {}
    PROVE  Spec => ImplementsCatalogue
<1>1. Init => Catalogue!CatalogueInit
  BY DEF Init, StoreInit, Catalogue!CatalogueInit, Pending, NoOp, KeysOf
<1>2. TypeOK /\ BodiesInv /\ NamesInv /\ CatalogueInv /\ [Next]_vars
        => [Catalogue!CatalogueNext]_(Catalogue!catVars)
  <2> SUFFICES ASSUME TypeOK, BodiesInv, NamesInv, CatalogueInv, [Next]_vars
               PROVE  Catalogue!CatalogueNext \/ UNCHANGED Catalogue!catVars
    OBVIOUS
  <2>1. CASE Boot \/ BootFails \/ Crash \/ Reindex
    <3>1. mem' = mem /\ op' = NoOp
      BY <2>1 DEF Boot, BootFails, Crash, Reindex, Idle, storeVars, NamesInv, PlanKept
    <3>2. ~Settling'
      BY <3>1 DEF Settling, NoOp
    <3>3. QED
      BY <3>1, <3>2, ChangeKept DEF Catalogue!CatalogueNext
  <2>2. CASE (Client /\ ~Reindex) \/ Upload \/ CommitRejected \/ Cleanup
    BY <2>2, OtherCatalogue, ChangeKept DEF Catalogue!CatalogueNext
  <2>3. CASE CommitMetadata
    BY <2>3, CommitChanges DEF Catalogue!CatalogueNext
  <2>4. CASE CommitAckLost
    BY <2>4 DEF CommitAckLost
  <2>5. CASE CommitIndex
    <3>1. op'.pc = "sweep" /\ mem' = mem
      BY <2>5, NextPc DEF CommitIndex, storeVars
    <3>2. ~Settling'
      BY <3>1 DEF Settling
    <3>3. QED
      BY <3>1, <3>2, ChangeKept DEF Catalogue!CatalogueNext
  <2>6. CASE IndexFails
    <3>1. /\ op'.pc = "restore" /\ op.pc = "index" /\ mem' = mem
          /\ op'.prev = op.prev /\ op'.next = op.next
      BY <2>6 DEF IndexFails, GoTo, TypeOK, Op, storeVars
    <3>2. Pending' = Pending
      BY <3>1 DEF Pending, Replaced, Replacing, KeysOf
    <3>3. QED
      BY <3>1, <3>2, CatalogueStutters
  <2>7. CASE Undo
    <3>1. op.pc = "restore" /\ Restore /\ GiveUp
      BY <2>7, UndoCatalogue DEF Compensate
    <3>2. Keys' = Offered
      BY <3>1, RestoreExact
    <3>3. Settling /\ ~Settling'
      BY <3>1, NextPc DEF Settling
    <3>4. Pending = {Offered} /\ Pending' = {}
      BY <3>3, PendingOffered DEF Pending, Settling
    <3>5. Catalogue!TakeBack
      BY <3>2, <3>4 DEF Catalogue!TakeBack, Keys
    <3>6. QED
      BY <3>5 DEF Catalogue!CatalogueNext
  <2>8. CASE UNCHANGED vars
    BY <2>8 DEF vars, storeVars, Catalogue!catVars, Pending, Replaced, Replacing, KeysOf
  <2>9. QED
    BY <2>1, <2>2, <2>3, <2>4, <2>5, <2>6, <2>7, <2>8 DEF Next, OpStep, Metadata, Index
<1>3. Spec => []BodiesInv
  BY BodiesStay
<1>4. QED
  BY <1>1, <1>2, <1>3, TypeCorrect, NamesStay, CatalogueStays, PTL
     DEF Spec, ImplementsCatalogue, Catalogue!CatalogueSpec

-----------------------------------------------------------------------------
(***************************************************************************)
(* 3. Readers.                                                             *)
(***************************************************************************)

(* The writers beside the readers are those of CloudMemory.                *)
LEMMA ReadersOnly == ReadSpec => Spec
<1>1. [ReadNext]_allVars => [Next]_vars
  BY DEF ReadNext, allVars, Meanwhile, Get, FindRelated, Search, ListByType, SearchByTag,
         StartRead, Walk, LookUp, Hydrate, Proceed, Answered, vars
<1>2. QED
  BY <1>1, PTL DEF ReadSpec, Spec

-----------------------------------------------------------------------------
(* Bodies of one memory come in the order of their stamps.                 *)

(* What an operation is about to commit or to index.                       *)
Carried == IF Working THEN Replacing ELSE {}

Held == idx \cup Keys \cup Carried

(* No document, and nothing to be committed, is older than the row of its  *)
(* memory.                                                                 *)
AheadInv ==
    /\ \A k \in Held : k.stamp <= clock
    /\ \A r \in idx, k \in Keys \cup Carried : k.id = r.id => k.stamp >= r.stamp

(* No body of Watched that there is or that is to come is older than t.    *)
Above(t, held, now) ==
    \/ t = 0
    \/ /\ t <= now /\ Watched <= now
       /\ \A k \in held : k.id = Watched => k.stamp >= t

ReadPcs == {"idle", "walk", "look up", "fetch", "answered", "missing", "gone"}

Reads == [pc : ReadPcs, rows : SUBSET Content, walk : SUBSET Content, ids : SUBSET Stamps,
          stamp : {0} \cup Stamps, calm : BOOLEAN]

ReadTypeOK == read \in Reads /\ shown \in {0} \cup Stamps

(* An answer is not older than the one before, and nothing that a later    *)
(* read can find is older than what this one has.                          *)
ReadOrder ==
    /\ Above(shown, Held, clock)
    /\ Above(read.stamp, Held, clock)
    /\ read.stamp # 0 => read.stamp >= shown
    /\ \A r \in read.rows :
            r.id = Watched => r.stamp >= shown /\ Above(r.stamp, Held, clock)

(* A read that met no change has rows that are still there.                *)
CalmInv ==
    read.calm =>
        /\ read.rows \subseteq idx
        /\ read.ids \subseteq IdsOf(idx)
        /\ read.pc \notin {"missing", "gone"}

-----------------------------------------------------------------------------
(* How the bodies that count change.                                       *)

(* No step but the start of an operation brings in a body that was not     *)
(* held; rows change to those of documents, or not at all.                 *)
LEMMA HeldStep ==
    ASSUME TypeOK, NamesInv, [Next]_vars, ~(Client /\ ~Reindex)
    PROVE  /\ clock' = clock
           /\ Keys' \subseteq Keys \cup Carried \cup idx
           /\ Carried' \subseteq Carried
           /\ \/ idx' \subseteq idx
              \/ idx' \subseteq idx \cup Keys /\ Keys' = Keys /\ Carried' = {}
<1>1. ASSUME op' = NoOp
      PROVE  Carried' = {}
  BY <1>1 DEF Carried, Working, NoOp
<1>2. mem' = mem => Keys' = Keys
  BY DEF Keys, KeysOf
<1>3. ASSUME NEW pc, NEW todo, GoTo(pc, todo)
      PROVE  op'.pc = pc /\ Replacing' = Replacing
  BY <1>3 DEF GoTo, TypeOK, Op, Replacing
<1>4. ASSUME NEW pc, NEW todo, GoTo(pc, todo), Working
      PROVE  Carried' \subseteq Carried
  BY <1>3, <1>4 DEF Carried
<1>5. ASSUME NEW pc \in {"discard", "sweep"}, NEW todo, GoTo(pc, todo)
      PROVE  Carried' = {}
  BY <1>3, <1>5 DEF Carried, Working
<1>6. ASSUME GiveUp
      PROVE  Carried' = {}
  BY <1>1, <1>5, <1>6 DEF GiveUp, Finish
<1>7. CASE Boot \/ Reindex
  <2>1. op' = NoOp /\ mem' = mem /\ clock' = clock /\ idx' \subseteq Keys
    BY <1>7 DEF Boot, Reindex, Idle, Rebuilt, storeVars, NamesInv, PlanKept, Keys
  <2>2. QED
    BY <1>1, <1>2, <2>1
<1>8. CASE BootFails \/ Crash
  <2>1. op' = NoOp /\ mem' = mem /\ clock' = clock /\ idx' \subseteq idx
    BY <1>8 DEF BootFails, Crash, storeVars, NamesInv, PlanKept
  <2>2. QED
    BY <1>1, <1>2, <2>1
<1>9. CASE Upload
  <2>1. PICK k \in op.todo : Write(k) \/ WriteFails(k)
    BY <1>9 DEF Upload
  <2>2. Working /\ mem' = mem /\ clock' = clock /\ idx' = idx
    BY <2>1 DEF Write, WriteFails, Uploading, Working
  <2>3. (\E pc : \E todo : GoTo(pc, todo)) \/ op' = NoOp
    BY <2>1 DEF Write, WriteFails, Finish
  <2>4. Carried' \subseteq Carried
    BY <1>1, <1>4, <2>2, <2>3
  <2>5. QED
    BY <1>2, <2>2, <2>4
<1>10. CASE CommitRejected \/ CompensationFails
  <2>1. (GiveUp \/ op' = NoOp) /\ mem' = mem /\ clock' = clock /\ idx' = idx
    BY <1>10 DEF CommitRejected, CompensationFails, Finish, storeVars
  <2>2. QED
    BY <1>1, <1>2, <1>6, <2>1
<1>11. CASE CommitMetadata \/ CommitAckLost
  <2>1. op.pc = "commit" /\ Commit /\ idx' = idx /\ clock' = clock /\ Working
    BY <1>11 DEF CommitMetadata, CommitAckLost, Working
  <2>2. Planned /\ Keys' = KeysOf(mem') /\ Carried = Replacing
    BY <2>1 DEF NamesInv, PlanKept, Keys, KeysOf, Carried
  <2>3. Keys' \subseteq Keys \cup Replacing
    <3>1. CASE op.kind = "forget"
      BY <2>1, <2>2, <3>1, CommitDeletes DEF DeleteEffect
    <3>2. CASE op.kind # "forget"
      BY <2>1, <2>2, <3>2, CommitPuts DEF PutEffect
    <3>3. QED
      BY <3>1, <3>2
  <2>4. Carried' \subseteq Carried
    BY <1>4, <1>6, <1>11, <2>1 DEF CommitMetadata, CommitAckLost
  <2>5. QED
    BY <2>1, <2>2, <2>3, <2>4
<1>12. CASE CommitIndex
  <2>1. /\ op.pc = "index" /\ mem' = mem /\ clock' = clock /\ GoTo("sweep", Replaced)
        /\ idx' \subseteq idx \cup Replacing
    BY <1>12 DEF CommitIndex, storeVars
  <2>2. Replacing \subseteq Keys
    BY <2>1 DEF NamesInv, PlanKept
  <2>3. QED
    BY <1>2, <1>5, <2>1, <2>2
<1>13. CASE IndexFails
  <2>1. op.pc = "index" /\ mem' = mem /\ clock' = clock /\ idx' = idx /\ GoTo("restore", {})
    BY <1>13 DEF IndexFails, storeVars
  <2>2. Working
    BY <2>1 DEF Working
  <2>3. QED
    BY <1>2, <1>4, <2>1, <2>2
<1>14. CASE Compensate \/ CompensationAckLost
  <2>1. op.pc = "restore" /\ Restore /\ idx' = idx /\ clock' = clock
    BY <1>14 DEF Compensate, CompensationAckLost
  <2>2. /\ Planned /\ OneNameDocument /\ Keys' = KeysOf(mem')
        /\ Replaced \subseteq idx
    BY <2>1, PlannedRows DEF NamesInv, PlanKept, Ownership, Working, Keys, KeysOf
  <2>3. Keys' \subseteq Keys \cup Replaced
    <3>1. CASE op.kind = "save"
      BY <2>1, <2>2, <3>1, RestoreRemoves DEF RemoveEffect
    <3>2. CASE op.kind # "save"
      BY <2>1, <2>2, <3>2, RestorePutsBack DEF PutBackEffect
    <3>3. QED
      BY <3>1, <3>2
  <2>4. Carried' = {}
    BY <1>1, <1>6, <1>14 DEF Compensate, CompensationAckLost, Finish
  <2>5. QED
    BY <2>1, <2>2, <2>3, <2>4
<1>15. CASE Cleanup
  <2>1. /\ mem' = mem /\ clock' = clock /\ idx' = idx
        /\ \/ op' = NoOp
           \/ \E pc \in {"discard", "sweep"} : \E todo : GoTo(pc, todo)
    <3>1. ASSUME NEW k \in op.todo, NEW pc \in {"discard", "sweep"}, Removing(pc, k)
          PROVE  /\ mem' = mem /\ clock' = clock /\ idx' = idx
                 /\ op' = NoOp \/ GoTo(pc, op.todo \ {k})
      BY <3>1 DEF Removing, Finish
    <3>2. CASE NothingToSweep
      BY <3>2 DEF NothingToSweep, Finish, storeVars
    <3>3. QED
      BY <1>15, <3>1, <3>2 DEF Cleanup, Discard, DiscardFails, Sweep, SweepFails
  <2>2. Carried' = {}
    BY <1>1, <1>5, <2>1
  <2>3. QED
    BY <1>2, <2>1, <2>2
<1>16. CASE UNCHANGED vars
  <2>1. op' = op /\ mem' = mem /\ clock' = clock /\ idx' = idx
    BY <1>16 DEF vars, storeVars
  <2>2. Carried' = Carried
    BY <2>1 DEF Carried, Working, Replacing
  <2>3. QED
    BY <1>2, <2>1, <2>2
<1>17. QED
  BY <1>7, <1>8, <1>9, <1>10, <1>11, <1>12, <1>13, <1>14, <1>15, <1>16
     DEF Next, OpStep, Metadata, Index, Undo

(* The start of an operation brings in bodies with a new id or of the      *)
(* memory of a row, and none older than that row.                          *)
LEMMA HeldBegin ==
    ASSUME TypeOK, Client, ~Reindex
    PROVE  /\ clock' = clock + 1 /\ Keys' = Keys /\ idx' = idx
           /\ Carried' \subseteq Replacing'
           /\ \A e \in Replacing' :
                \/ e.id = clock + 1 /\ e.stamp = clock + 1
                \/ \E r \in idx : /\ e.id = r.id
                                  /\ e.stamp = clock + 1 \/ e.stamp = r.stamp
<1>1. PICK kind \in {"save", "update", "forget", "rename"}, pc \in {"write", "commit"} :
          \E prev, next : Begin(kind, pc, prev, next) /\ Planned'
  BY ClientPlans
<1>2. clock' = clock + 1 /\ mem' = mem /\ idx' = idx /\ Planned'
  BY <1>1 DEF Begin, storeVars
<1>3. Keys' = Keys /\ Carried' \subseteq Replacing'
  BY <1>2 DEF Keys, KeysOf, Carried
<1> DEFINE Young(e) == \/ e.id = clock + 1 /\ e.stamp = clock + 1
                       \/ \E r \in idx : /\ e.id = r.id
                                         /\ e.stamp = clock + 1 \/ e.stamp = r.stamp
<1>4. CASE PlannedSave' \/ PlannedUpdate' \/ PlannedForget'
  <2>1. \A e \in Replacing' : Young(e)
    BY <1>2, <1>4 DEF PlannedSave, PlannedUpdate, PlannedForget
  <2>2. QED
    BY <1>2, <1>3, <2>1
<1>5. CASE PlannedRename'
  <2>1. PICK k \in idx, f \in Replacing' :
            /\ f.id = k.id /\ f.stamp = clock + 1
            /\ Replacing' = {f} \cup {Rewritten(r, k.name, f.name) :
                                      r \in {r \in idx : k.name \in r.list.set} \ {k}}
    BY <1>2, <1>5 DEF PlannedRename, Referrers, Linking
  <2>2. \A r \in idx : /\ Rewritten(r, k.name, f.name).id = r.id
                       /\ Rewritten(r, k.name, f.name).stamp = r.stamp
    BY DEF Rewritten, TypeOK, Content
  <2>3. \A e \in Replacing' : Young(e)
    BY <2>1, <2>2
  <2>4. QED
    BY <1>2, <1>3, <2>3
<1>6. QED
  BY <1>2, <1>4, <1>5 DEF Planned

LEMMA AheadKept ==
    ASSUME TypeOK, NamesInv, AheadInv, [Next]_vars
    PROVE  AheadInv'
<1>0. clock \in Nat /\ \A k \in Keys \cup idx : k.stamp \in Nat /\ k.id \in Nat
  BY KeysType, MaxOpsAssumption DEF TypeOK, StoreTypeOK, Keys, Content, Stamps
<1>1. /\ \A k \in idx \cup Keys \cup Carried : k.stamp <= clock
      /\ \A r \in idx, k \in Keys \cup Carried : k.id = r.id => k.stamp >= r.stamp
  BY DEF AheadInv, Held
<1>2. /\ \A r \in idx, k \in idx : k.id = r.id => k = r
      /\ \A r \in Keys, k \in Keys : k.id = r.id => k = r
  BY DEF NamesInv, OnePer, Ownership, OneDocument
<1>3. CASE ~(Client /\ ~Reindex)
  <2>1. /\ clock' = clock
        /\ Keys' \subseteq Keys \cup Carried \cup idx
        /\ Carried' \subseteq Carried
        /\ \/ idx' \subseteq idx
           \/ idx' \subseteq idx \cup Keys /\ Keys' = Keys /\ Carried' = {}
    BY <1>3, HeldStep
  <2>2. \A k \in idx' \cup Keys' \cup Carried' : k.stamp <= clock'
    BY <1>1, <2>1
  <2>3. \A r \in idx', k \in Keys' \cup Carried' : k.id = r.id => k.stamp >= r.stamp
    <3>1. CASE idx' \subseteq idx
      BY <1>0, <1>1, <1>2, <2>1, <3>1
    <3>2. CASE idx' \subseteq idx \cup Keys /\ Keys' = Keys /\ Carried' = {}
      BY <1>0, <1>1, <1>2, <3>2
    <3>3. QED
      BY <2>1, <3>1, <3>2
  <2>4. QED
    BY <2>2, <2>3 DEF AheadInv, Held
<1>4. CASE Client /\ ~Reindex
  <2>1. /\ clock' = clock + 1 /\ Keys' = Keys /\ idx' = idx
        /\ Carried' \subseteq Replacing'
        /\ \A e \in Replacing' :
             \/ e.id = clock + 1 /\ e.stamp = clock + 1
             \/ \E r \in idx : /\ e.id = r.id
                               /\ e.stamp = clock + 1 \/ e.stamp = r.stamp
    BY <1>4, HeldBegin
  <2>2. \A r \in idx : r.id <= clock
    BY DEF NamesInv, IdsOrdered
  <2>3. ASSUME NEW e \in Carried'
        PROVE  e.stamp <= clock + 1 /\ \A r \in idx : e.id = r.id => e.stamp >= r.stamp
    BY <1>0, <1>1, <1>2, <2>1, <2>2
  <2>4. \A k \in idx' \cup Keys' \cup Carried' : k.stamp <= clock'
    BY <1>0, <1>1, <2>1, <2>3
  <2>5. \A r \in idx', k \in Keys' \cup Carried' : k.id = r.id => k.stamp >= r.stamp
    BY <1>1, <2>1, <2>3
  <2>6. QED
    BY <2>4, <2>5 DEF AheadInv, Held
<1>5. QED
  BY <1>3, <1>4

(* What is below everything stays below everything. *)
LEMMA AboveKept ==
    ASSUME TypeOK, NamesInv, AheadInv, [Next]_vars, NEW t \in Nat, Above(t, Held, clock)
    PROVE  Above(t, Held', clock')
<1>0. clock \in Nat /\ Watched \in Nat
  BY MaxOpsAssumption, WatchedAssumption DEF TypeOK, Stamps
<1>1. CASE t = 0
  BY <1>1 DEF Above
<1>2. CASE t # 0
  <2>1. t <= clock /\ Watched <= clock /\ \A k \in Held : k.id = Watched => k.stamp >= t
    BY <1>2 DEF Above
  <2>2. CASE ~(Client /\ ~Reindex)
    <3>1. Held' \subseteq Held /\ clock' = clock
      BY <2>2, HeldStep DEF Held
    <3>2. QED
      BY <2>1, <3>1 DEF Above
  <2>3. CASE Client /\ ~Reindex
    <3>1. /\ clock' = clock + 1 /\ Keys' = Keys /\ idx' = idx
          /\ Carried' \subseteq Replacing'
          /\ \A e \in Replacing' :
               \/ e.id = clock + 1 /\ e.stamp = clock + 1
               \/ \E r \in idx : /\ e.id = r.id
                                 /\ e.stamp = clock + 1 \/ e.stamp = r.stamp
      BY <2>3, HeldBegin
    <3>2. ASSUME NEW e \in Carried', e.id = Watched
          PROVE  e.stamp >= t
      BY <1>0, <2>1, <3>1, <3>2 DEF Held
    <3>3. \A k \in Held' : k.id = Watched => k.stamp >= t
      BY <2>1, <3>1, <3>2 DEF Held
    <3>4. QED
      BY <1>0, <2>1, <3>1, <3>3 DEF Above
  <2>4. QED
    BY <2>2, <2>3
<1>3. QED
  BY <1>1, <1>2

-----------------------------------------------------------------------------
(* The reads.                                                              *)

(* A read starts with rows or ids of the index; calm, if nothing runs.     *)
LEMMA Started ==
    ASSUME NEW pc \in {"walk", "look up", "fetch"}, NEW rows, rows \subseteq idx, NEW ids,
           ids \subseteq IdsOf(idx), StartRead(pc, rows, ids), TypeOK
    PROVE  /\ read' \in Reads
           /\ read'.pc = pc /\ read'.rows = rows /\ read'.ids = ids /\ read'.stamp = 0
           /\ read'.calm <=> op = NoOp
           /\ UNCHANGED <<vars, shown>>
<1>1. rows \subseteq Content /\ ids \subseteq Stamps
  BY DEF TypeOK, Content, IdsOf
<1>2. read' = [pc |-> pc, rows |-> rows, walk |-> IF pc = "walk" THEN rows ELSE {}, ids |-> ids,
               stamp |-> 0, calm |-> op = NoOp]
  BY DEF StartRead, NoRead
<1>3. UNCHANGED <<vars, shown>>
  BY DEF StartRead
<1>4. read' \in Reads
  BY <1>1, <1>2 DEF Reads, ReadPcs
<1>5. QED
  BY <1>2, <1>3, <1>4

LEMMA StartsRead ==
    ASSUME TypeOK, \/ \E k \in idx : Get(k) \/ FindRelated(k)
                   \/ \E rows \in ManyRows : Search(rows) \/ ListByType(rows) \/ SearchByTag(rows)
    PROVE  \E pc \in {"walk", "look up", "fetch"} : \E rows \in SUBSET idx :
               \E ids \in SUBSET IdsOf(idx) : StartRead(pc, rows, ids)
<1>1. ASSUME NEW pc \in {"walk", "look up", "fetch"}, NEW rows \in SUBSET idx,
             NEW ids \in SUBSET IdsOf(idx), StartRead(pc, rows, ids)
      PROVE  \E p \in {"walk", "look up", "fetch"} : \E rs \in SUBSET idx :
                 \E is \in SUBSET IdsOf(idx) : StartRead(p, rs, is)
  BY <1>1
<1>2. {} \in SUBSET idx /\ {} \in SUBSET IdsOf(idx)
  OBVIOUS
<1>3. CASE \E k \in idx : Get(k) \/ FindRelated(k)
  <2>1. PICK k \in idx : StartRead("fetch", {k}, {}) \/ StartRead("walk", {k}, {})
    BY <1>3 DEF Get, FindRelated
  <2>2. {k} \in SUBSET idx
    OBVIOUS
  <2>3. CASE StartRead("fetch", {k}, {})
    BY <1>1, <1>2, <2>2, <2>3
  <2>4. CASE StartRead("walk", {k}, {})
    BY <1>1, <1>2, <2>2, <2>4
  <2>5. QED
    BY <2>1, <2>3, <2>4
<1>4. CASE \E rows \in ManyRows : Search(rows) \/ ListByType(rows) \/ SearchByTag(rows)
  <2>1. PICK rows \in ManyRows : \/ StartRead("fetch", rows, {})
                                \/ StartRead("look up", {}, IdsOf(rows))
    BY <1>4 DEF Search, ListByType, SearchByTag
  <2>2. rows \in SUBSET idx /\ IdsOf(rows) \in SUBSET IdsOf(idx)
    BY DEF ManyRows, IdsOf
  <2>3. CASE StartRead("fetch", rows, {})
    BY <1>1, <1>2, <2>2, <2>3
  <2>4. CASE StartRead("look up", {}, IdsOf(rows))
    BY <1>1, <1>2, <2>2, <2>4
  <2>5. QED
    BY <2>1, <2>3, <2>4
<1>5. QED
  BY <1>3, <1>4

(* A read goes on with rows of the index, or takes a body it has found.    *)
Gathers == \E found \in SUBSET idx :
    /\ read'.rows = read.rows \cup found
    /\ read'.ids \subseteq read.ids
    /\ read'.stamp = read.stamp
    /\ read'.pc # "missing"
    /\ read'.pc = "gone" =>
            read.pc = "gone" \/ \E id \in read.ids : id \notin IdsOf(idx)

Takes == \E k \in read.rows :
    /\ k \in objs
    /\ read'.stamp = IF k.id = Watched THEN k.stamp ELSE read.stamp
    /\ read'.rows = read.rows \ {k} /\ read'.ids = read.ids
    /\ read'.pc \in {"answered", "fetch"}

Misses == \E k \in read.rows :
    /\ k \notin objs
    /\ read'.stamp = read.stamp
    /\ read'.rows = read.rows /\ read'.ids = read.ids

LEMMA GoesOn ==
    ASSUME TypeOK, ReadTypeOK,
           \/ \E k \in read.walk : Walk(k)
           \/ \E id \in read.ids : LookUp(id)
           \/ \E k \in read.rows : Hydrate(k)
    PROVE  /\ read' \in Reads /\ read'.calm = read.calm
           /\ UNCHANGED <<vars, shown>>
           /\ Gathers \/ Takes \/ Misses
<1> USE DEF ReadTypeOK
<1>1. ASSUME NEW k \in read.walk, Walk(k)
      PROVE  /\ read' \in Reads /\ read'.calm = read.calm
             /\ UNCHANGED <<vars, shown>>
             /\ Gathers
  <2> DEFINE found == {l \in Neighbours(k) : l.id \notin IdsOf(read.rows)}
             pc == IF read.walk = {k} /\ found = {} THEN "fetch" ELSE "walk"
  <2>1. /\ read' = [read EXCEPT !.rows = @ \cup found, !.walk = (@ \ {k}) \cup found, !.pc = pc]
        /\ UNCHANGED <<vars, shown>>
    BY <1>1 DEF Walk, Proceed
  <2>2. found \subseteq idx /\ idx \subseteq Content /\ pc \in ReadPcs /\ pc \notin {"gone", "missing"}
    BY DEF Neighbours, TypeOK, ReadPcs
  <2> HIDE DEF found, pc
  <2>3. read' \in Reads /\ read'.calm = read.calm
    BY <2>1, <2>2 DEF Reads
  <2>4. /\ read'.rows = read.rows \cup found /\ read'.ids = read.ids
        /\ read'.stamp = read.stamp /\ read'.pc = pc
    BY <2>1 DEF Reads
  <2>5. Gathers
    BY <2>2, <2>4 DEF Gathers
  <2>6. QED
    BY <2>1, <2>3, <2>5
<1>2. ASSUME NEW id \in read.ids, LookUp(id)
      PROVE  /\ read' \in Reads /\ read'.calm = read.calm
             /\ UNCHANGED <<vars, shown>>
             /\ Gathers
  <2> DEFINE rows == {k \in idx : k.id = id}
             pc == IF rows = {} THEN "gone" ELSE IF read.ids = {id} THEN "fetch" ELSE "look up"
  <2>1. /\ read' = [read EXCEPT !.rows = @ \cup rows, !.ids = @ \ {id}, !.pc = pc]
        /\ UNCHANGED <<vars, shown>>
    BY <1>2 DEF LookUp, Proceed
  <2>2. /\ rows \subseteq idx /\ idx \subseteq Content /\ pc \in ReadPcs /\ pc # "missing"
        /\ pc = "gone" => id \notin IdsOf(idx)
    BY DEF TypeOK, ReadPcs, IdsOf
  <2> HIDE DEF rows, pc
  <2>3. read' \in Reads /\ read'.calm = read.calm
    BY <2>1, <2>2 DEF Reads
  <2>4. /\ read'.rows = read.rows \cup rows /\ read'.ids \subseteq read.ids
        /\ read'.stamp = read.stamp /\ read'.pc = pc
    BY <2>1 DEF Reads
  <2>5. Gathers
    BY <2>2, <2>4 DEF Gathers
  <2>6. QED
    BY <2>1, <2>3, <2>5
<1>3. ASSUME NEW k \in read.rows, Hydrate(k)
      PROVE  /\ read' \in Reads /\ read'.calm = read.calm
             /\ UNCHANGED <<vars, shown>>
             /\ Takes \/ Misses
  <2> DEFINE stamp == IF k.id = Watched THEN k.stamp ELSE read.stamp
             pc == IF read.rows = {k} THEN "answered" ELSE "fetch"
  <2>1. stamp \in {0} \cup Stamps /\ pc \in ReadPcs /\ pc \in {"answered", "fetch"}
    BY DEF Reads, Content, ReadPcs
  <2>2. CASE k \in objs
    <3>1. /\ read' = [read EXCEPT !.stamp = stamp, !.rows = @ \ {k}, !.pc = pc]
          /\ UNCHANGED <<vars, shown>>
      BY <1>3, <2>2 DEF Hydrate, Proceed, Reads
    <3>2. stamp = IF k.id = Watched THEN k.stamp ELSE read.stamp
      OBVIOUS
    <3> HIDE DEF stamp, pc
    <3>3. /\ read' \in Reads /\ read'.calm = read.calm
          /\ read'.stamp = stamp /\ read'.rows = read.rows \ {k} /\ read'.ids = read.ids
          /\ read'.pc = pc
      BY <2>1, <3>1 DEF Reads
    <3>4. Takes
      BY <2>1, <2>2, <3>2, <3>3 DEF Takes
    <3>5. QED
      BY <3>1, <3>3, <3>4
  <2>3. CASE k \notin objs
    <3>1. read' = [read EXCEPT !.pc = "missing"] /\ UNCHANGED <<vars, shown>>
      BY <1>3, <2>3 DEF Hydrate, Proceed
    <3>2. /\ read' \in Reads /\ read'.calm = read.calm
          /\ read'.stamp = read.stamp /\ read'.rows = read.rows /\ read'.ids = read.ids
      BY <3>1 DEF Reads, ReadPcs
    <3>3. Misses
      BY <2>3, <3>2 DEF Misses
    <3>4. QED
      BY <3>1, <3>2, <3>3
  <2>4. QED
    BY <2>2, <2>3
<1>4. QED
  BY <1>1, <1>2, <1>3

(* Beside the writers a read only learns whether it still is calm.         *)
LEMMA MeanwhileRead ==
    ASSUME ReadTypeOK, Meanwhile
    PROVE  /\ read' \in Reads /\ shown' = shown
           /\ \/ read' = NoRead
              \/ /\ read'.rows = read.rows /\ read'.ids = read.ids /\ read'.stamp = read.stamp
                 /\ read'.pc = read.pc
                 /\ read'.calm => read.calm /\ idx' = idx
<1>1. NoRead \in Reads
  BY DEF NoRead, Reads, ReadPcs
<1>2. CASE boot' # "ready"
  BY <1>1, <1>2 DEF Meanwhile
<1>3. CASE boot' = "ready"
  <2> DEFINE calm == read.calm /\ op' = NoOp /\ idx' = idx
  <2>1. read' = [read EXCEPT !.calm = calm] /\ shown' = shown
    BY <1>3 DEF Meanwhile, ReadTypeOK, Reads
  <2>2. calm \in BOOLEAN /\ (calm => read.calm /\ idx' = idx)
    BY DEF ReadTypeOK, Reads
  <2> HIDE DEF calm
  <2>3. /\ read' \in Reads
        /\ read'.rows = read.rows /\ read'.ids = read.ids /\ read'.stamp = read.stamp
        /\ read'.pc = read.pc /\ read'.calm = calm
    BY <2>1, <2>2 DEF ReadTypeOK, Reads
  <2>4. QED
    BY <2>1, <2>2, <2>3
<1>4. QED
  BY <1>2, <1>3

-----------------------------------------------------------------------------
(* Answers go forward.                                                     *)

(* Whatever fails, no document, and no body an operation is about to        *)
(* commit, is older than the row that the index has of the same memory: so  *)
(* neither an operation nor a compensation followed by a reindex takes a    *)
(* memory back behind what was offered (cloud-service.ts:540-588, 937).     *)
THEOREM NothingFallsBehind == Spec => []AheadInv
<1>1. Init => AheadInv
  <2> SUFFICES ASSUME Init
               PROVE  AheadInv
    OBVIOUS
  <2>1. idx = {} /\ Keys = {} /\ op = NoOp
    BY DEF Init, StoreInit, Keys, KeysOf
  <2>2. Carried = {}
    BY <2>1 DEF Carried, Working, NoOp
  <2>3. QED
    BY <2>1, <2>2 DEF AheadInv, Held
<1>2. TypeOK /\ NamesInv /\ AheadInv /\ [Next]_vars => AheadInv'
  BY AheadKept
<1>3. QED
  BY <1>1, <1>2, TypeCorrect, NamesStay, PTL DEF Spec

(* Nothing that is held is older than a row of the index. *)
LEMMA RowAbove ==
    ASSUME TypeOK, NamesInv, AheadInv, NEW r \in idx, r.id = Watched
    PROVE  Above(r.stamp, Held, clock)
<1>1. r.stamp <= clock /\ r.id <= clock
  BY DEF AheadInv, Held, NamesInv, IdsOrdered
<1>2. ASSUME NEW k \in Held, k.id = Watched
      PROVE  k.stamp >= r.stamp
  <2>1. r.stamp \in Nat
    BY DEF TypeOK, Content, Stamps
  <2>2. CASE k \in idx
    BY <1>2, <2>1, <2>2 DEF NamesInv, OnePer
  <2>3. CASE k \in Keys \cup Carried
    BY <1>2, <2>3 DEF AheadInv
  <2>4. QED
    BY <1>2, <2>2, <2>3 DEF Held
<1>3. QED
  BY <1>1, <1>2 DEF Above

(* Rows of the index are at least as young as what was answered, and       *)
(* nothing later is older than they are.                                   *)
LEMMA FreshRows ==
    ASSUME TypeOK, NamesInv, AheadInv, ReadTypeOK, Above(shown, Held, clock),
           NEW r \in idx, r.id = Watched
    PROVE  r.stamp >= shown /\ Above(r.stamp, Held, clock)
<1>1. Above(r.stamp, Held, clock)
  BY RowAbove
<1>2. r.stamp \in Nat
  BY DEF TypeOK, Content, Stamps
<1>3. r.stamp >= shown
  BY <1>2 DEF Above, Held
<1>4. QED
  BY <1>1, <1>3

(* A step of the reader leaves what is held alone. *)
LEMMA HeldStays ==
    ASSUME UNCHANGED vars
    PROVE  Held' = Held /\ clock' = clock /\ idx' = idx
<1>1. mem' = mem /\ idx' = idx /\ op' = op /\ clock' = clock
  BY DEF vars, storeVars
<1>2. Keys' = Keys /\ Carried' = Carried
  BY <1>1 DEF Keys, KeysOf, Carried, Working, Replacing
<1>3. QED
  BY <1>1, <1>2 DEF Held

LEMMA ReadStep ==
    ASSUME TypeOK, NamesInv, AheadInv, ReadTypeOK, ReadOrder, [ReadNext]_allVars
    PROVE  ReadTypeOK' /\ ReadOrder'
<1>0. /\ read \in Reads /\ shown \in {0} \cup Stamps /\ read.stamp \in {0} \cup Stamps
      /\ Above(shown, Held, clock) /\ Above(read.stamp, Held, clock)
      /\ read.stamp # 0 => read.stamp >= shown
      /\ \A r \in read.rows :
              r.id = Watched => r.stamp >= shown /\ Above(r.stamp, Held, clock)
  BY DEF ReadTypeOK, ReadOrder, Reads
<1>1. CASE Meanwhile
  <2>1. [Next]_vars
    BY <1>1 DEF Meanwhile
  <2>2. \A t \in Nat : Above(t, Held, clock) => Above(t, Held', clock')
    BY <2>1, AboveKept
  <2>3. /\ read' \in Reads /\ shown' = shown
        /\ \/ read' = NoRead
           \/ read'.rows = read.rows /\ read'.stamp = read.stamp
    BY <1>1, MeanwhileRead
  <2>4. /\ \A r \in read.rows : r.stamp \in Nat
        /\ read.stamp \in Nat /\ shown \in Nat
    BY <1>0 DEF Reads, Content, Stamps
  <2>5. Above(shown', Held', clock')
    BY <1>0, <2>2, <2>3, <2>4
  <2>6. CASE read' = NoRead
    <3>1. read'.stamp = 0 /\ read'.rows = {}
      BY <2>6 DEF NoRead
    <3>2. Above(read'.stamp, Held', clock')
      BY <3>1 DEF Above
    <3>3. QED
      BY <1>0, <2>3, <2>5, <3>1, <3>2 DEF ReadTypeOK, ReadOrder
  <2>7. CASE read'.rows = read.rows /\ read'.stamp = read.stamp
    <3>1. Above(read'.stamp, Held', clock')
      BY <1>0, <2>2, <2>4, <2>7
    <3>2. \A r \in read'.rows :
              r.id = Watched => r.stamp >= shown' /\ Above(r.stamp, Held', clock')
      BY <1>0, <2>2, <2>3, <2>4, <2>7
    <3>3. QED
      BY <1>0, <2>3, <2>5, <2>7, <3>1, <3>2 DEF ReadTypeOK, ReadOrder
  <2>8. QED
    BY <2>3, <2>6, <2>7
<1>2. CASE \/ \E k \in idx : Get(k) \/ FindRelated(k)
           \/ \E rows \in ManyRows : Search(rows) \/ ListByType(rows) \/ SearchByTag(rows)
  <2>1. PICK pc \in {"walk", "look up", "fetch"} : \E rows \in SUBSET idx :
               \E ids \in SUBSET IdsOf(idx) : StartRead(pc, rows, ids)
    BY <1>2, StartsRead
  <2>2. PICK rows \in SUBSET idx : \E ids \in SUBSET IdsOf(idx) : StartRead(pc, rows, ids)
    BY <2>1
  <2>3. PICK ids \in SUBSET IdsOf(idx) : StartRead(pc, rows, ids)
    BY <2>2
  <2>4. /\ read' \in Reads /\ read'.rows = rows /\ read'.stamp = 0
        /\ UNCHANGED vars /\ shown' = shown
    BY <2>3, Started
  <2>5. Held' = Held /\ clock' = clock
    BY <2>4, HeldStays
  <2>6. \A r \in rows : r.id = Watched => r.stamp >= shown /\ Above(r.stamp, Held, clock)
    BY <1>0, FreshRows
  <2>7. Above(0, Held, clock)
    BY DEF Above
  <2>8. QED
    BY <1>0, <2>4, <2>5, <2>6, <2>7 DEF ReadTypeOK, ReadOrder
<1>3. CASE \/ \E k \in read.walk : Walk(k)
           \/ \E id \in read.ids : LookUp(id)
           \/ \E k \in read.rows : Hydrate(k)
  <2>1. /\ read' \in Reads
        /\ UNCHANGED vars /\ shown' = shown
        /\ Gathers \/ Takes \/ Misses
    BY <1>3, GoesOn
  <2>2. Held' = Held /\ clock' = clock
    BY <2>1, HeldStays
  <2>3. \A r \in idx : r.id = Watched => r.stamp >= shown /\ Above(r.stamp, Held, clock)
    BY <1>0, FreshRows
  <2>4. \A r \in read'.rows :
              r.id = Watched => r.stamp >= shown /\ Above(r.stamp, Held, clock)
    BY <1>0, <2>1, <2>3 DEF Gathers, Takes, Misses
  <2>5. \/ read'.stamp = read.stamp
        \/ \E k \in read.rows : k.id = Watched /\ read'.stamp = k.stamp
    BY <2>1 DEF Gathers, Takes, Misses
  <2>6. /\ Above(read'.stamp, Held, clock)
        /\ read'.stamp # 0 => read'.stamp >= shown
    BY <1>0, <2>5
  <2>7. QED
    BY <1>0, <2>1, <2>2, <2>4, <2>6 DEF ReadTypeOK, ReadOrder
<1>4. CASE Answered
  <2>1. /\ UNCHANGED vars /\ read' = NoRead
        /\ shown' \in {read.stamp, shown}
    BY <1>4 DEF Answered
  <2>2. Held' = Held /\ clock' = clock
    BY <2>1, HeldStays
  <2>3. /\ read'.stamp = 0 /\ read'.rows = {} /\ read' \in Reads
        /\ Above(read'.stamp, Held, clock)
    BY <2>1 DEF NoRead, Above, Reads, ReadPcs
  <2>4. Above(shown', Held, clock) /\ shown' \in {0} \cup Stamps
    BY <1>0, <2>1
  <2>5. QED
    BY <2>2, <2>3, <2>4 DEF ReadTypeOK, ReadOrder
<1>5. CASE UNCHANGED allVars
  <2>1. UNCHANGED vars /\ read' = read /\ shown' = shown
    BY <1>5 DEF allVars, readVars, vars
  <2>2. Held' = Held /\ clock' = clock
    BY <2>1, HeldStays
  <2>3. QED
    BY <1>0, <2>1, <2>2 DEF ReadTypeOK, ReadOrder
<1>6. QED
  BY <1>1, <1>2, <1>3, <1>4, <1>5 DEF ReadNext

(* The order of the answers survives every step, whatever fails beside     *)
(* the reader.                                                             *)
THEOREM OrderStays == ReadSpec => [](ReadTypeOK /\ ReadOrder)
<1>1. Init /\ ReadInit => ReadTypeOK /\ ReadOrder
  BY DEF ReadInit, NoRead, ReadTypeOK, Reads, ReadPcs, ReadOrder, Above
<1>2. TypeOK /\ NamesInv /\ AheadInv /\ ReadTypeOK /\ ReadOrder /\ [ReadNext]_allVars
          => (ReadTypeOK /\ ReadOrder)'
  BY ReadStep
<1>3. QED
  BY <1>1, <1>2, ReadersOnly, TypeCorrect, NamesStay, NothingFallsBehind, PTL DEF ReadSpec

(* A client never sees a memory go back, whatever fails: not even a lost   *)
(* outcome of a commit or a failed compensation makes a later read answer  *)
(* an older body.                                                          *)
THEOREM AnswersGoForward == ReadSpec => []ReadsGoForward
<1>1. ReadOrder => ReadsGoForward
  BY DEF ReadOrder, ReadsGoForward
<1>2. QED
  BY <1>1, OrderStays, PTL

-----------------------------------------------------------------------------
(* Reads that meet no change.                                              *)

LEMMA CalmStep ==
    ASSUME TypeOK, IndexReadable, ReadTypeOK, CalmInv, [ReadNext]_allVars
    PROVE  CalmInv'
<1> SUFFICES ASSUME read'.calm
             PROVE  /\ read'.rows \subseteq idx' /\ read'.ids \subseteq IdsOf(idx')
                    /\ read'.pc \notin {"missing", "gone"}
  BY DEF CalmInv, IdsOf
<1>1. CASE Meanwhile
  <2>1. \/ read' = NoRead
        \/ /\ read'.rows = read.rows /\ read'.ids = read.ids /\ read'.pc = read.pc
           /\ read'.calm => read.calm /\ idx' = idx
    BY <1>1, MeanwhileRead
  <2>2. QED
    BY <2>1 DEF CalmInv, NoRead
<1>2. CASE \/ \E k \in idx : Get(k) \/ FindRelated(k)
           \/ \E rows \in ManyRows : Search(rows) \/ ListByType(rows) \/ SearchByTag(rows)
  <2>1. PICK pc \in {"walk", "look up", "fetch"} : \E rows \in SUBSET idx :
               \E ids \in SUBSET IdsOf(idx) : StartRead(pc, rows, ids)
    BY <1>2, StartsRead
  <2>2. PICK rows \in SUBSET idx : \E ids \in SUBSET IdsOf(idx) : StartRead(pc, rows, ids)
    BY <2>1
  <2>3. PICK ids \in SUBSET IdsOf(idx) : StartRead(pc, rows, ids)
    BY <2>2
  <2>4. /\ read'.rows = rows /\ read'.ids = ids /\ read'.pc = pc
        /\ UNCHANGED vars
    BY <2>3, Started
  <2>5. idx' = idx
    BY <2>4, HeldStays
  <2>6. QED
    BY <2>4, <2>5
<1>3. CASE \/ \E k \in read.walk : Walk(k)
           \/ \E id \in read.ids : LookUp(id)
           \/ \E k \in read.rows : Hydrate(k)
  <2>1. /\ read'.calm = read.calm /\ UNCHANGED vars
        /\ Gathers \/ Takes \/ Misses
    BY <1>3, GoesOn
  <2>2. idx' = idx
    BY <2>1, HeldStays
  <2>3. /\ read.rows \subseteq idx /\ read.ids \subseteq IdsOf(idx)
        /\ read.pc \notin {"missing", "gone"}
    BY <2>1 DEF CalmInv
  <2>4. ~Misses
    BY <2>3 DEF Misses, IndexReadable
  <2>5. QED
    BY <2>1, <2>2, <2>3, <2>4 DEF Gathers, Takes
<1>4. CASE Answered
  BY <1>4 DEF Answered, NoRead
<1>5. CASE UNCHANGED allVars
  BY <1>5 DEF allVars, readVars, vars, CalmInv
<1>6. QED
  BY <1>1, <1>2, <1>3, <1>4, <1>5 DEF ReadNext

(* Only a change beside it can make a read fail, however earlier changes   *)
(* ended: every body that the index offers is there, even when pointers    *)
(* lead nowhere because the outcome of a commit was lost.                  *)
THEOREM QuietReadsAlwaysSucceed == ReadSpec => []QuietReadsSucceed
<1>1. Init /\ ReadInit => CalmInv
  BY DEF ReadInit, NoRead, CalmInv
<1>2. TypeOK /\ IndexReadable /\ ReadTypeOK /\ CalmInv /\ [ReadNext]_allVars => CalmInv'
  BY CalmStep
<1>3. CalmInv => QuietReadsSucceed
  BY DEF CalmInv, QuietReadsSucceed
<1>4. QED
  BY <1>1, <1>2, <1>3, ReadersOnly, TypeCorrect, IndexAlwaysReadable, OrderStays, PTL
     DEF ReadSpec

=============================================================================
