------------------------------ MODULE CloudStore ------------------------------
(***************************************************************************)
(* The durable half of the cloud memory service, for one project: the      *)
(* Firestore collections memories, names and tombstones, and the GCS       *)
(* bucket of Markdown bodies, with the transactions of                     *)
(* FirestoreMetadataStore that move them.                                  *)
(*                                                                         *)
(* A GCS object key is <prefix>/<project>/memories/<name>/<sha256>.md: the *)
(* name and the hash of the body determine it, so a key and the body stored *)
(* under it are one value here, a Content.  Of a body the model keeps what *)
(* the code's decisions depend on: the memory id and name, the list of     *)
(* names it links to (the list it supersedes goes through the same         *)
(* statements) and the timestamp that tells two bodies of one memory apart. *)
(***************************************************************************)
EXTENDS Naturals

CONSTANTS
    Names,      \* the memory names in play
    MaxOps      \* bound: how many client operations are ever started

ASSUME MaxOpsAssumption == MaxOps \in Nat

VARIABLES
    mem,        \* Firestore memories: a set of Doc, one per memory id
    names,      \* Firestore names: one Content per name, the pointer it stores
    tombs,      \* Firestore tombstones: one per object key, hence a set of Content
    objs        \* GCS: the objects that exist

storeVars == <<mem, names, tombs, objs>>

Stamps == 1..MaxOps

(* A reference list: the names in it, and whether one of them occurs twice *)
(* (nothing on the way in removes duplicates).                             *)
LinkList == [set: SUBSET Names, repeats: BOOLEAN]

Content == [id: Stamps, name: Names, list: LinkList, stamp: Stamps]

(* A memory document: the pointer to its object and its own copy of the    *)
(* reference list, "frontmatter-derived metadata".                         *)
Doc == [key: Content, links: LinkList]

DocFor(k) == [key |-> k, links |-> k.list]

KeysOf(docs) == {d.key : d \in docs}
IdsOf(keys) == {k.id : k \in keys}
NamesOf(keys) == {k.name : k \in keys}

(* transaction.set on the document of each memory id, or of each name *)
SetById(docs) == {d \in mem : d.key.id \notin IdsOf(KeysOf(docs))} \cup docs
SetByName(old, keys) == {k \in old : k.name \notin NamesOf(keys)} \cup keys

(* No name document of these records belongs to another memory; otherwise  *)
(* the transaction throws MemoryConflictError.                             *)
NamesFree(docs) ==
    \A d \in docs, k \in names : k.name = d.key.name => k.id = d.key.id

StoreTypeOK ==
    /\ mem \subseteq Doc
    /\ names \subseteq Content
    /\ tombs \subseteq Content
    /\ objs \subseteq Content

StoreInit ==
    /\ mem = {}
    /\ names = {}
    /\ tombs = {}
    /\ objs = {}

-----------------------------------------------------------------------------
(* The metadata transactions.  Each is one atomic step of Firestore; what it *)
(* needs in order not to throw is the operator XAccepts.                     *)

PutAlwaysAccepts(d) == TRUE      \* mutant: the name document is not read
PutMemoryIndexAccepts(d) == NamesFree({d})

PutMemoryIndex(d) ==
    /\ mem' = SetById({d})
    /\ names' = SetByName(names, {d.key})
    /\ tombs' = tombs

(* Undo of a save: only if the document still is the one the save wrote. *)
RemoveMemoryIndex(k) ==
    /\ mem' = {d \in mem : d.key # k}
    /\ names' = IF k \in KeysOf(mem) THEN names \ {k} ELSE names
    /\ tombs' = tombs

(* Whether restoreMemoryIndex has something to restore: the document is     *)
(* gone and the tombstone of this very body is there (a forget), or the     *)
(* document still is the one the update wrote.                              *)
Restorable(d, expected) ==
    \/ /\ d.key.id \notin IdsOf(KeysOf(mem))
       /\ d.key \in tombs
    \/ expected \in KeysOf(mem)

RestoreMemoryIndexAccepts(d, expected) == Restorable(d, expected) => NamesFree({d})

RestoreMemoryIndex(d, expected) ==
    IF Restorable(d, expected)
    THEN /\ mem' = SetById({d})
         /\ names' = SetByName({k \in names : k # expected}, {d.key})
         /\ tombs' = IF d.key.id \in IdsOf(KeysOf(mem)) THEN tombs ELSE tombs \ {d.key}
    ELSE UNCHANGED <<mem, names, tombs>>

(* mutant: the name document stays *)
DeleteKeepingName(k) ==
    /\ mem' = {d \in mem : d.key.id # k.id}
    /\ names' = names
    /\ tombs' = tombs \cup {k}

(* The name document deleted is the one of the document's current name. *)
DeleteMemoryIndex(k) ==
    LET current == {d.key : d \in {e \in mem : e.key.id = k.id}} IN
    /\ mem' = {d \in mem : d.key.id # k.id}
    /\ names' = {n \in names : n.name \notin NamesOf(current)}
    /\ tombs' = tombs \cup {k}

ReplaceMemoryIndexesAccepts(docs) == NamesFree(docs)

(* mutant: only the renamed memory gets its name document *)
ReplaceTargetName(vacated, docs, dead) ==
    LET target == {d \in docs : d.key.name \notin NamesOf(names)} IN
    /\ mem' = SetById(docs)
    /\ names' = SetByName({k \in names : k.name \notin vacated}, KeysOf(target))
    /\ tombs' = tombs \cup dead

ReplaceMemoryIndexes(vacated, docs, dead) ==
    /\ mem' = SetById(docs)
    /\ names' = SetByName({k \in names : k.name \notin vacated}, KeysOf(docs))
    /\ tombs' = tombs \cup dead

RestoreMemoryIndexesAccepts(prev, next) ==
    /\ KeysOf(next) \subseteq KeysOf(mem) \cap names
    /\ NamesFree(prev)

RestoreMemoryIndexes(prev, next, dead) ==
    LET taken == NamesOf(KeysOf(next)) \ NamesOf(KeysOf(prev)) IN
    /\ mem' = SetById(prev)
    /\ names' = SetByName({k \in names : k.name \notin taken}, KeysOf(prev))
    /\ tombs' = tombs \ dead

-----------------------------------------------------------------------------
(* Tombstones by themselves: writes outside a transaction.                  *)

PutTombstone(k) == tombs' = tombs \cup {k}
ClearTombstone(k) == tombs' = tombs \ {k}

=============================================================================
