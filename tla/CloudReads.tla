------------------------------ MODULE CloudReads ------------------------------
(***************************************************************************)
(* Readers of the cloud memory service beside its writers.  Reads do not   *)
(* take the project's mutex: a read selects rows of the index and fetches  *)
(* the bodies they name afterwards, while an operation may move the rows,  *)
(* take its change back and remove bodies.  A client sends one read after  *)
(* the other.                                                              *)
(***************************************************************************)
EXTENDS CloudMemory, FiniteSets

CONSTANT Watched    \* the memory whose answers are compared

ASSUME WatchedAssumption == Watched \in Stamps

VARIABLES
    read,       \* the read in flight
    shown       \* history: the youngest stamp of Watched in an answer; 0 is none

readVars == <<read, shown>>

(* rows to be fetched; rows to walk from; ids to be looked up; the stamp of *)
(* Watched among the bodies fetched; calm: no operation and no reindex met  *)
(* this read.                                                              *)
NoRead == [pc |-> "idle", rows |-> {}, walk |-> {}, ids |-> {}, stamp |-> 0,
           calm |-> FALSE]

ReadInit == read = NoRead /\ shown = 0

StartRead(pc, rows, ids) ==
    /\ read.pc = "idle" /\ boot = "ready"
    /\ read' = [NoRead EXCEPT !.pc = pc, !.rows = rows, !.ids = ids,
                              !.walk = IF pc = "walk" THEN rows ELSE {}, !.calm = op = NoOp]
    /\ UNCHANGED <<vars, shown>>

(* get, by id or by name. *)
Get(k) == StartRead("fetch", {k}, {})

(* searchFulltext and searchAssociative: whatever the ranking comes to, the *)
(* rows are of the index as it is now.                                     *)
Search(rows) == StartRead("fetch", rows, {})

(* The rows of one type. *)
ListByType(rows) == StartRead("fetch", rows, {})

(* searchByTag: the summaries first, then get by the id of each. *)
SearchByTag(rows) == StartRead("look up", {}, IdsOf(rows))

(* findRelated: the memory itself, and what its links lead to.             *)
FindRelated(k) == StartRead("walk", {k}, {})

-----------------------------------------------------------------------------
Proceed(next) == read' = next /\ UNCHANGED <<vars, shown>>

(* The query over links joined with memories, as the index is by now.      *)
Neighbours(k) ==
    {l \in idx : \E row \in idx : row.id = k.id /\ l.name \in row.list.set}

Walk(k) ==
    /\ read.pc = "walk" /\ k \in read.walk
    /\ LET found == {l \in Neighbours(k) : l.id \notin IdsOf(read.rows)} IN
       Proceed([read EXCEPT !.rows = @ \cup found,
                            !.walk = (@ \ {k}) \cup found,
                            !.pc = IF read.walk = {k} /\ found = {} THEN "fetch" ELSE "walk"])

(* A memory that was forgotten meanwhile makes the whole search fail.      *)
LookUp(id) ==
    LET rows == {k \in idx : k.id = id} IN
    /\ read.pc = "look up" /\ id \in read.ids
    /\ Proceed([read EXCEPT !.rows = @ \cup rows,
                            !.ids = @ \ {id},
                            !.pc = IF rows = {} THEN "gone"
                                   ELSE IF read.ids = {id} THEN "fetch" ELSE "look up"])

(* hydrate; Promise.all rejects with the first body that is not there.      *)
Hydrate(k) ==
    /\ read.pc = "fetch" /\ k \in read.rows
    /\ IF k \in objs
       THEN Proceed([read EXCEPT !.stamp = IF k.id = Watched THEN k.stamp ELSE @,
                                 !.rows = @ \ {k},
                                 !.pc = IF read.rows = {k} THEN "answered" ELSE "fetch"])
       ELSE Proceed([read EXCEPT !.pc = "missing"])

(* The answer, or the error, goes out. *)
Answered ==
    /\ read.pc \in {"answered", "missing", "gone"}
    /\ shown' = IF read.pc = "answered" /\ read.stamp # 0 THEN read.stamp ELSE shown
    /\ read' = NoRead
    /\ UNCHANGED vars

(* What the writers do meanwhile; an instance that dies takes its reads     *)
(* along.                                                                  *)
Meanwhile ==
    /\ Next
    /\ read' = IF boot' # "ready" THEN NoRead
               ELSE [read EXCEPT !.calm = @ /\ op' = NoOp /\ idx' = idx]
    /\ shown' = shown

(* A search that finds one memory goes the way of a get. *)
ManyRows == {rows \in SUBSET idx : Cardinality(rows) > 1}

ReadNext ==
    \/ Meanwhile
    \/ \E k \in idx : Get(k) \/ FindRelated(k)
    \/ \E rows \in ManyRows : Search(rows) \/ ListByType(rows) \/ SearchByTag(rows)
    \/ \E k \in read.walk : Walk(k)
    \/ \E id \in read.ids : LookUp(id)
    \/ \E k \in read.rows : Hydrate(k)
    \/ Answered

allVars == <<vars, readVars>>

ReadSpec == Init /\ ReadInit /\ [][ReadNext]_allVars

-----------------------------------------------------------------------------
(* Properties.                                                             *)

(* A read that met no operation finds every body its rows name, and every    *)
(* row again: only a change beside it can make it fail, however earlier     *)
(* changes ended.                                                          *)
QuietReadsSucceed == read.pc \in {"missing", "gone"} => ~read.calm

(* A client never sees a memory go back: what a later read answers is not    *)
(* older than what an earlier one did, through failed changes, restarts and  *)
(* reindexes.                                                              *)
ReadsGoForward ==
    read.pc = "answered" /\ read.stamp # 0 => read.stamp >= shown

=============================================================================
