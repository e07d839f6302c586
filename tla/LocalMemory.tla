----------------------------- MODULE LocalMemory -----------------------------
(***************************************************************************)
(* MemoryService, the service of a local installation: one Markdown file   *)
(* per memory, named after it, and a SQLite index beside the files.  Files *)
(* and index cannot be changed together, so every operation is a sequence  *)
(* of steps the process may die between; openDefault reconciles the index  *)
(* with the files before anything else runs.                               *)
(*                                                                         *)
(* The lock of a project lets one operation run at a time; only the reindex *)
(* tool does not take it.  A file is replaced by a rename and SQLite       *)
(* commits or not, so one write is one step.  Bodies, tags and the graph   *)
(* are left out.                                                           *)
(***************************************************************************)
EXTENDS Naturals, Sequences, Functions

CONSTANTS
    Ids,            \* ids that ulid() hands out
    LastName,       \* names are 1..LastName, in the order of their file paths
    LinkSets,       \* the links a caller may give
    Ops,            \* operation ids of maintenance requests
    MaxRev,         \* bound: writes of one memory
    MaxRestarts,    \* bound: deaths of the process
    None

ASSUME BoundsAssumption == {LastName, MaxRestarts} \subseteq Nat /\ MaxRev \in Nat \ {0}
ASSUME LinksAssumption == LinkSets \subseteq SUBSET (1..LastName)

VARIABLES
    files,      \* memories/<name>.md
    rows,       \* the index: memories and links
    revs,       \* the index: memory_revisions
    bodies,     \* maintenance-revisions/: the texts kept by maintenance
    applied,    \* the index: maintenance_operations
    job,        \* the operation that holds the lock
    restarts,
    born,       \* history: ids handed out
    kept,       \* history: what each memory's last successful operation wrote
    gone,       \* history: memories forgotten
    replaced,   \* history: texts that maintenance has overwritten
    marred,     \* history: memories left in two files, or in one the index refuses
    stale       \* history: memories the index learned in the middle of a request

disk == <<files, rows, revs, bodies, applied>>
history == <<born, kept, gone, replaced, marred, stale>>
vars == <<disk, job, restarts, history>>

Names == 1..LastName

(* What a file says.  rev stands for updated_at and all that changes with   *)
(* it; doubled, that a name is in the list of links twice.                 *)
Text == [id: Ids, name: Names, links: SUBSET Names, doubled: BOOLEAN,
         status: {"active", "archived"}, rev: 1..MaxRev]
Row == [name: Names, hash: Text, links: SUBSET Names]

ASSUME NoneAssumption == None \notin Text \union Row

(* Each file the operation changes: the text it has and the text it gets.  *)
Change == [was: Text \union {None}, now: Text \union {None}]
Job == [kind: {"none", "save", "update", "forget", "rename", "mutate"},
        step: {"done", "write", "commit", "undo", "unlink", "refs", "hash", "revisions",
               "keep", "put", "rollback", "drop"},
        changes: Seq(Change), at: Nat, op: Ops \union {None}, keys: SUBSET Text]
Idle == [kind |-> "none", step |-> "done", changes |-> <<>>, at |-> 1, op |-> None, keys |-> {}]

Present == {files[n] : n \in Names} \ {None}

RowLinksOfAll(t) == t.links                   \* mutant: an archived memory's too
(* insertCollections is for active memories only; the file keeps its links. *)
RowLinks(t) == IF t.status = "active" THEN t.links ELSE {}
RowOf(t) == [name |-> t.name, hash |-> t, links |-> RowLinks(t)]

(* The primary keys of links and supersedes refuse a list with a repetition. *)
Insertable(t) == ~t.doubled \/ t.status = "archived"

HasRow(n) == \E i \in Ids : rows[i] # None /\ rows[i].name = n
Now == job.changes[1].now
Was == job.changes[1].was

Init ==
    /\ files = [n \in Names |-> None]
    /\ rows = [i \in Ids |-> None]
    /\ revs = {} /\ bodies = {} /\ applied = {}
    /\ job = Idle
    /\ restarts = 0
    /\ born = {} /\ kept = [i \in Ids |-> 0]
    /\ gone = {} /\ replaced = {} /\ marred = {} /\ stale = {}

-----------------------------------------------------------------------------
(* The operations of users: what each checks before it touches a file.      *)

Start(kind, step, changes, op) ==
    /\ job = Idle
    /\ job' = [kind |-> kind, step |-> step, changes |-> changes, at |-> 1, op |-> op, keys |-> {}]
    /\ UNCHANGED <<disk, restarts, gone, replaced, marred, stale>>

Creation(i, n, links, doubled) ==
    [was |-> None, now |-> [id |-> i, name |-> n, links |-> links, doubled |-> doubled /\ links # {},
                            status |-> "active", rev |-> 1]]

(* save asks the index about the name, not the directory. *)
Save(i, n, links, doubled) ==
    /\ i \notin born /\ ~HasRow(n)
    /\ Start("save", "write", <<Creation(i, n, links, doubled)>>, None)
    /\ born' = born \union {i}
    /\ UNCHANGED kept

(* The texts a memory's own file can become by an edit: the links are kept   *)
(* as they are or replaced, perhaps by a list with a repetition.           *)
Edited(t) ==
    LET again == [t EXCEPT !.rev = @ + 1]
    IN  IF t.rev = MaxRev THEN {}
        ELSE {again}
             \union {[again EXCEPT !.links = l, !.doubled = FALSE] : l \in LinkSets}
             \union {[again EXCEPT !.links = l, !.doubled = TRUE] : l \in LinkSets \ {{}}}

HasFile(i) == rows[i] # None /\ files[rows[i].name] # None
FileOf(i) == files[rows[i].name]

Update(i, text) ==
    /\ Start("update", "write", <<[was |-> FileOf(i), now |-> text]>>, None)
    /\ UNCHANGED <<born, kept>>

Edit(i) == HasFile(i) /\ \E u \in Edited(FileOf(i)) : Update(i, u)

(* One name more, which no memory need have; update does the rest. *)
LinkMemories(i, n) ==
    /\ HasFile(i) /\ n \notin FileOf(i).links
    /\ FileOf(i).rev < MaxRev
    /\ Update(i, [FileOf(i) EXCEPT !.links = @ \union {n}, !.rev = @ + 1])

(* A row is enough. *)
Leftover(i) == IF HasFile(i) THEN FileOf(i) ELSE [rows[i].hash EXCEPT !.id = i, !.name = rows[i].name]

(* The revision texts to remove are looked up first. *)
Forget(i) ==
    /\ rows[i] # None
    /\ job = Idle
    /\ job' = [Idle EXCEPT !.kind = "forget", !.step = "unlink",
                           !.changes = <<[was |-> Leftover(i), now |-> None]>>,
                           !.keys = {t \in revs : t.id = i}]
    /\ kept' = [kept EXCEPT ![i] = 0]
    /\ UNCHANGED <<disk, restarts, born, gone, replaced, marred, stale>>

Rename(i, n) ==
    /\ HasFile(i) /\ ~HasRow(n)
    /\ FileOf(i).rev < MaxRev
    /\ Start("rename", "write",
             <<[was |-> FileOf(i), now |-> [FileOf(i) EXCEPT !.name = n, !.rev = @ + 1]]>>, None)
    /\ UNCHANGED <<born, kept>>

-----------------------------------------------------------------------------
(* The steps they share.                                                   *)

Goto(step) == job' = [job EXCEPT !.step = step]

(* atomicWriteText: to the memory's own path, or the path of its new name. *)
Write ==
    /\ job.step = "write"
    /\ files' = [files EXCEPT ![Now.name] = Now]
    /\ Goto("commit")
    /\ UNCHANGED <<rows, revs, bodies, applied, restarts, history>>

Acknowledged(changes) ==
    [i \in Ids |-> IF \E c \in Range(changes) : c.now # None /\ c.now.id = i
                   THEN (CHOOSE c \in Range(changes) : c.now # None /\ c.now.id = i).now.rev
                   ELSE kept[i]]

Commit ==
    /\ job.kind \in {"save", "update"} /\ job.step = "commit"
    /\ Insertable(Now)
    /\ rows' = [rows EXCEPT ![Now.id] = RowOf(Now)]
    /\ job' = Idle
    /\ kept' = Acknowledged(job.changes)
    /\ stale' = stale \ {Now.id}
    /\ UNCHANGED <<files, revs, bodies, applied, restarts, born, gone, replaced, marred>>

CommitRefused ==
    /\ job.kind \in {"save", "update"} /\ job.step = "commit"
    /\ ~Insertable(Now)
    /\ Goto("undo")
    /\ UNCHANGED <<disk, restarts, history>>

Unlinked == None                              \* mutant: update unlinks as save does
(* save unlinks what it wrote; update writes the old text back. *)
Undone == IF job.kind = "update" THEN Was ELSE None

Undo ==
    /\ job.step = "undo"
    /\ files' = [files EXCEPT ![Now.name] = Undone]
    /\ job' = Idle
    /\ UNCHANGED <<rows, revs, bodies, applied, restarts, history>>

Swap(links, old, new) == IF old \in links THEN (links \ {old}) \union {new} ELSE links

(* The row is moved and renameReferenceRows follows in every row's links,    *)
(* repetitions removed; the transaction inserts no links and is not refused. *)
CommitRename ==
    /\ job.kind = "rename" /\ job.step = "commit"
    /\ LET Followed(r) == Swap(r.links, Was.name, Now.name)
       IN  rows' = [i \in Ids |->
                      IF rows[i] = None THEN None
                      ELSE IF i = Now.id THEN [name |-> Now.name, hash |-> Now, links |-> Followed(rows[i])]
                      ELSE [rows[i] EXCEPT !.links = Followed(rows[i])]]
    /\ Goto("unlink")
    /\ UNCHANGED <<files, revs, bodies, applied, restarts, history>>

UnlinkForgotten ==                            \* mutant: rename leaves the old file
    /\ job.step = "unlink"
    /\ files' = IF job.kind = "forget" THEN [files EXCEPT ![Was.name] = None] ELSE files
    /\ Goto(IF job.kind = "rename" THEN "refs" ELSE "commit")
    /\ UNCHANGED <<rows, revs, bodies, applied, restarts, history>>
(* rename removes the old file after the commit, forget before it. *)
Unlink ==
    /\ job.step = "unlink"
    /\ files' = [files EXCEPT ![Was.name] = None]
    /\ Goto(IF job.kind = "rename" THEN "refs" ELSE "commit")
    /\ UNCHANGED <<rows, revs, bodies, applied, restarts, history>>

(* rewriteInboundReferences: the files that list the old name, but not the  *)
(* renamed memory's own.                                                   *)
ReferringInIndex ==                           \* mutant: asks the rows, which follow already
    {n \in Names \ {Now.name} : \E i \in Ids : HasFile(i) /\ rows[i].name = n /\ Was.name \in rows[i].links}
Referring == {n \in Names \ {Now.name} : files[n] # None /\ Was.name \in files[n].links}

Rewritten(t) == [t EXCEPT !.links = Swap(@, Was.name, Now.name),
                          !.doubled = @ \/ Now.name \in t.links]

RewriteReference ==
    /\ job.step = "refs"
    /\ \E n \in Referring :
         /\ files' = [files EXCEPT ![n] = Rewritten(@)]
         /\ marred' = IF Insertable(Rewritten(files[n])) THEN marred ELSE marred \union {files[n].id}
         /\ job' = [job EXCEPT !.step = "hash", !.at = n]
    /\ UNCHANGED <<rows, revs, bodies, applied, restarts, born, kept, gone, replaced, stale>>

UpdateHash ==
    /\ job.step = "hash"
    /\ LET t == files[job.at]
       IN  rows' = [rows EXCEPT ![t.id] = IF @ = None THEN None ELSE [@ EXCEPT !.hash = t]]
    /\ job' = [job EXCEPT !.step = "refs", !.at = 1]
    /\ UNCHANGED <<files, revs, bodies, applied, restarts, history>>

FinishRename ==
    /\ job.step = "refs" /\ Referring = {}
    /\ job' = Idle
    /\ kept' = Acknowledged(job.changes)
    /\ UNCHANGED <<disk, restarts, born, gone, replaced, marred, stale>>

CommitForget ==
    /\ job.kind = "forget" /\ job.step = "commit"
    /\ rows' = [rows EXCEPT ![Was.id] = None]
    /\ revs' = {t \in revs : t.id # Was.id}
    /\ Goto("revisions")
    /\ replaced' = {t \in replaced : t.id # Was.id}
    /\ stale' = stale \ {Was.id}
    /\ UNCHANGED <<files, bodies, applied, restarts, born, kept, gone, marred>>

(* A text that an interrupted request left is not among them. *)
ForgetRevisions ==
    /\ job.step = "revisions"
    /\ bodies' = bodies \ job.keys
    /\ job' = Idle
    /\ gone' = gone \union {Was.id}
    /\ UNCHANGED <<files, rows, revs, applied, restarts, born, kept, replaced, marred, stale>>

-----------------------------------------------------------------------------
(* applyMutation: a request of maintenance or curation.                     *)

(* The request names hashes that file and index both still have. *)
Current(i) == HasFile(i) /\ rows[i].hash = FileOf(i)

Archived(t) == [t EXCEPT !.status = "archived", !.rev = @ + 1]

(* A restore takes a kept text of the memory, under the name it has now, and *)
(* makes it active.                                                        *)
Restored(i) ==
    {[t EXCEPT !.name = FileOf(i).name, !.status = "active", !.rev = FileOf(i).rev + 1] :
        t \in {u \in revs \intersect bodies : u.id = i}}

MutateOne(op, i) ==
    /\ op \notin applied /\ Current(i)
    /\ FileOf(i).rev < MaxRev
    /\ \E u \in Edited(FileOf(i)) \union Restored(i) \union {Archived(FileOf(i))} :
          Start("mutate", "keep", <<[was |-> FileOf(i), now |-> u]>>, op)
    /\ UNCHANGED <<born, kept>>

(* The target of a merge is patched, its source archived. *)
Merge(op, i, j) ==
    /\ i # j /\ op \notin applied /\ Current(i) /\ Current(j)
    /\ FileOf(j).rev < MaxRev
    /\ \E u \in Edited(FileOf(i)) :
          Start("mutate", "keep", <<[was |-> FileOf(i), now |-> u],
                                    [was |-> FileOf(j), now |-> Archived(FileOf(j))]>>, op)
    /\ UNCHANGED <<born, kept>>

(* A create asks index and directory. *)
Create(op, i, n, links) ==
    /\ op \notin applied /\ i \notin born
    /\ ~HasRow(n) /\ files[n] = None
    /\ Start("mutate", "put", <<Creation(i, n, links, FALSE)>>, op)
    /\ born' = born \union {i}
    /\ UNCHANGED kept

This == job.changes[job.at]
Last == job.at = Len(job.changes)

(* writeRevisionBody comes before the file is overwritten. *)
Keep ==
    /\ job.step = "keep"
    /\ bodies' = bodies \union {This.was}
    /\ Goto("put")
    /\ UNCHANGED <<files, rows, revs, applied, restarts, history>>

Put ==
    /\ job.step = "put"
    /\ files' = [files EXCEPT ![This.now.name] = This.now]
    /\ replaced' = replaced \union ({This.was} \ {None})
    /\ job' = IF Last THEN [job EXCEPT !.step = "commit", !.at = 1]
              ELSE [job EXCEPT !.step = "keep", !.at = @ + 1]
    /\ UNCHANGED <<rows, revs, bodies, applied, restarts, born, kept, gone, marred, stale>>

Originals == {c.was : c \in Range(job.changes)} \ {None}

(* What the commit's callback makes of the rows: every memory of the request *)
(* gets a row anew.                                                        *)
RowsAfter(changes) ==
    [i \in Ids |-> IF \E c \in Range(changes) : c.now.id = i
                   THEN RowOf((CHOOSE c \in Range(changes) : c.now.id = i).now)
                   ELSE rows[i]]

(* The transaction asks for the hashes of the request again, and whether a   *)
(* name is another memory's.                                               *)
Stands(c) ==
    /\ c.was # None => rows[c.was.id] # None /\ rows[c.was.id].hash = c.was
    /\ \A i \in Ids \ {c.now.id} : rows[i] # None => rows[i].name # c.now.name

CommitMutation ==
    /\ job.kind = "mutate" /\ job.step = "commit"
    /\ \A c \in Range(job.changes) : Stands(c) /\ Insertable(c.now)
    /\ rows' = RowsAfter(job.changes)
    /\ revs' = revs \union Originals
    /\ applied' = applied \union {job.op}
    /\ job' = Idle
    /\ kept' = Acknowledged(job.changes)
    /\ stale' = stale \ {c.now.id : c \in Range(job.changes)}
    /\ UNCHANGED <<files, bodies, restarts, born, gone, replaced, marred>>

(* The owner's settings changed meanwhile, a check fails, or the index       *)
(* refuses a list.                                                         *)
MutationRefused ==
    /\ job.kind = "mutate" /\ job.step = "commit"
    /\ Goto("rollback")
    /\ UNCHANGED <<disk, restarts, history>>

RollBackLast ==                               \* mutant: the kept texts go first
    /\ job.step = "rollback"
    /\ bodies' = bodies \ Originals
    /\ files' = [files EXCEPT ![This.now.name] = This.was]
    /\ replaced' = replaced \ {This.was}
    /\ job' = IF Last THEN [job EXCEPT !.step = "drop", !.at = 1] ELSE [job EXCEPT !.at = @ + 1]
    /\ UNCHANGED <<rows, revs, applied, restarts, born, kept, gone, marred, stale>>
(* rollbackMutationFiles: every file, and only then the texts that were kept. *)
RollBack ==
    /\ job.step = "rollback"
    /\ files' = [files EXCEPT ![This.now.name] = This.was]
    /\ replaced' = replaced \ {This.was}
    /\ job' = IF Last THEN [job EXCEPT !.step = "drop", !.at = 1] ELSE [job EXCEPT !.at = @ + 1]
    /\ UNCHANGED <<rows, revs, bodies, applied, restarts, born, kept, gone, marred, stale>>

Drop ==
    /\ job.step = "drop"
    /\ bodies' = bodies \ Originals
    /\ job' = Idle
    /\ UNCHANGED <<files, rows, revs, applied, restarts, history>>

-----------------------------------------------------------------------------
(* The index is brought back to the files.                                 *)

(* upsertMemory under a savepoint: a text the index refuses, or whose name   *)
(* another memory has in the index, is passed over.                         *)
Upserted(rs, t) ==
    IF Insertable(t) /\ \A i \in Ids \ {t.id} : rs[i] # None => rs[i].name # t.name
    THEN [rs EXCEPT ![t.id] = RowOf(t)]
    ELSE rs

(* The files in the order of their paths: the last of two with one id stays. *)
Scanned(before) ==
    LET After[n \in 0..LastName] ==
            IF n = 0 THEN before
            ELSE IF files[n] = None THEN After[n - 1]
            ELSE Upserted(After[n - 1], files[n])
    IN  After[LastName]

ReconciledKeeping(before) == Scanned(before)  \* mutant: rows without a file stay
(* reconcile: then rows of ids no file has are deleted.                     *)
Reconciled(before) ==
    LET scanned == Scanned(before)
    IN  [i \in Ids |-> IF \E t \in Present : t.id = i THEN scanned[i] ELSE None]

InTwoFiles == {i \in Ids : \E m, n \in Names : /\ m # n /\ files[m] # None /\ files[n] # None
                                               /\ files[m].id = i /\ files[n].id = i}

Unreadable(texts) == {t.id : t \in {u \in texts : ~Insertable(u)}}

(* The reindex tool takes no lock.  The operations of users run without a    *)
(* pause, but a request of maintenance lets others in where it has kept a   *)
(* text, and between the refusal of its commit and the rollback.           *)
ReindexRuns ==
    \/ job = Idle
    \/ job.kind = "mutate" /\ job.step \in {"keep", "put"}
    \/ job.step = "rollback" /\ job.at = 1

(* What the request has written already, which may yet be taken back. *)
Ahead == {c.now : c \in {d \in Range(job.changes) : files[d.now.name] = d.now}}

NoRows == [i \in Ids |-> None]

Reindex ==
    /\ ReindexRuns
    /\ rows' = Reconciled(NoRows)
    /\ stale' = {t.id : t \in Ahead}
    /\ marred' = marred \union Unreadable(Ahead)
    /\ UNCHANGED <<files, revs, bodies, applied, job, restarts, born, kept, gone, replaced>>

(* The process dies at any step and starts again with openDefault.  The      *)
(* reindex tool deletes the rows in a transaction of its own.              *)
Restart ==
    /\ restarts < MaxRestarts
    /\ restarts' = restarts + 1
    /\ job' = Idle
    /\ \E before \in {rows} \union (IF ReindexRuns THEN {NoRows} ELSE {}) : rows' = Reconciled(before)
    /\ marred' = marred \union InTwoFiles \union Unreadable(Present)
    /\ stale' = {}
    /\ UNCHANGED <<files, revs, bodies, applied, born, kept, gone, replaced>>

Next ==
    \/ \E i \in Ids, n \in Names, l \in LinkSets, d \in BOOLEAN : Save(i, n, l, d)
    \/ \E i \in Ids : Edit(i) \/ Forget(i)
    \/ \E i \in Ids, n \in Names : LinkMemories(i, n) \/ Rename(i, n)
    \/ Write \/ Commit \/ CommitRefused \/ Undo
    \/ CommitRename \/ Unlink \/ RewriteReference \/ UpdateHash \/ FinishRename
    \/ CommitForget \/ ForgetRevisions
    \/ \E op \in Ops, i \in Ids : MutateOne(op, i)
    \/ \E op \in Ops, i, j \in Ids : Merge(op, i, j)
    \/ \E op \in Ops, i \in Ids, n \in Names, l \in LinkSets : Create(op, i, n, l)
    \/ Keep \/ Put \/ CommitMutation \/ MutationRefused \/ RollBack \/ Drop
    \/ Reindex \/ Restart

Spec == Init /\ [][Next]_vars

-----------------------------------------------------------------------------
(* Properties.                                                             *)

(* Every variable has its type and every file the name of its memory. *)
TypeOK ==
    /\ files \in [Names -> Text \union {None}]
    /\ \A n \in Names : files[n] # None => files[n].name = n
    /\ rows \in [Ids -> Row \union {None}]
    /\ revs \subseteq Text /\ bodies \subseteq Text
    /\ applied \subseteq Ops
    /\ job \in Job
    /\ restarts \in 0..MaxRestarts
    /\ kept \in [Ids -> 0..MaxRev]
    /\ born \subseteq Ids /\ gone \subseteq born /\ replaced \subseteq Text
    /\ marred \subseteq born /\ stale \subseteq born

(* Between operations, however many times the process died inside earlier   *)
(* ones, index and files agree: every row leads to its memory's file, every *)
(* memory whose file the index can hold has a row, and the row has the hash *)
(* of the file and the links of an active memory.  Excepted are marred      *)
(* memories - a rename that is interrupted leaves two files; a rename, an   *)
(* update that is interrupted before the index refuses its list, or a       *)
(* reindex before a rollback, a memory that no reconcile can read - stale    *)
(* ones, whose new text a reindex found before the request was taken back,  *)
(* until something writes their rows again, and the links of a memory to   *)
(* itself, which a rename follows in the index and not in the file         *)
(* (service.ts, reconcile.ts).                                             *)
IndexAgrees ==
    job = Idle =>
        /\ \A t \in Present : (Insertable(t) /\ t.id \notin marred) => rows[t.id] # None
        /\ \A i \in Ids \ (marred \union stale) :
              rows[i] # None =>
                  /\ HasFile(i) /\ rows[i].hash = FileOf(i)
                  /\ rows[i].name \notin rows[i].links =>
                       rows[i].links = IF FileOf(i).status = "active" THEN FileOf(i).links ELSE {}

(* What an operation reported as done is not undone by a later operation's  *)
(* failure or by the death of the process: the memory has a file with that  *)
(* text or a later one (the undo steps and the order of file and index      *)
(* writes in service.ts).                                                  *)
NothingLost ==
    \A i \in Ids \ marred :
        kept[i] > 0 => \E t \in Present : t.id = i /\ t.rev >= kept[i]

(* A memory whose forgetting was reported never comes back, by a restart or *)
(* by a reindex (forget removes the file before the rows).                  *)
ForgottenStaysGone ==
    \A i \in gone \ marred : rows[i] = None /\ \A t \in Present : t.id # i

(* Whatever text maintenance has overwritten in a file can still be found   *)
(* on disk, even when the process died before the commit or in the middle   *)
(* of a rollback (applyMutation writes a revision text before the file, and *)
(* rollbackMutationFiles removes it after restoring the file).              *)
OriginalsKept == replaced \subseteq bodies

(* When rename reports success no other memory refers to the old name, in   *)
(* the files or in the index (renameReferenceRows, rewriteInboundReferences).*)
RenameFollowed ==
    [][(job.kind = "rename" /\ job' = Idle /\ restarts' = restarts) =>
         /\ \A n \in Names \ {Now.name} : files'[n] # None => Was.name \notin files'[n].links
         /\ \A i \in Ids : rows'[i] # None => Was.name \notin rows'[i].links]_vars

(* Run local_reindex: after a reindex every memory that has a file is in     *)
(* the index ("Rebuild that project's SQLite index from markdown files",    *)
(* mcp/tools/meta.ts).                                                     *)
ReindexIsComplete ==
    [][Reindex => \A t \in Present : rows'[t.id] # None]_vars

=============================================================================
