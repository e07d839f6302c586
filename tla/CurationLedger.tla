---------------------------- MODULE CurationLedger ----------------------------
(***************************************************************************)
(* The ledger behind dated curation: runs, the manifest pages of each, the *)
(* outcomes recorded for a page, the cursor of a project, and the shared   *)
(* restore requests.  There are two of it, LocalCurationStore over SQLite  *)
(* and FirestoreCurationStore; here both get the same calls of the         *)
(* curation tools, and the answers are compared.                           *)
(*                                                                         *)
(* Clients may call out of order, again, and for runs of each other; a page *)
(* token is signed, so only one that was handed out comes back, and it says *)
(* what the stored page before it says.  Every call is one transaction of  *)
(* one store.  One source project; Curation has the service around this.   *)
(***************************************************************************)
EXTENDS Naturals, Sequences

CONSTANTS
    Mems,           \* ids of source memories
    Places,         \* positions in the listing of them
    Requests,       \* ids of restore requests
    MaxRuns,        \* bound: runs
    MaxPages,       \* bound: pages of a run
    MaxClock,       \* bound: time stamps; 0 is none
    Dates,          \* bound: from and to dates of manual runs
    None

ASSUME LedgerBounds == {MaxRuns, MaxPages, MaxClock} \subseteq Nat
ASSUME LedgerDates == \A d \in Dates : d[1] \in 1..MaxClock /\ d[2] \in d[1] + 1..MaxClock

Stores == {"sqlite", "firestore"}

(* Outcomes of a page are compared as text: their order is part of them.   *)
Verdicts == {"promoted first", "no_op first"}
Outcomes == [ids: SUBSET Mems, verdict: Verdicts]

ASSUME NoOutcomes == None \notin Outcomes

VARIABLES
    clock,
    ledger      \* by store

vars == <<clock, ledger>>

(* A page [after, next, items] without a next place is the last of its      *)
(* snapshot.                                                               *)
Last(page) == page.next = None

Init ==
    /\ clock = 1
    /\ ledger = [s \in Stores |->
                    [cursor |-> 0, runs |-> <<>>, pages |-> <<>>,
                     requests |-> [q \in Requests |-> None]]]

Tick ==
    /\ clock < MaxClock
    /\ clock' = clock + 1
    /\ UNCHANGED ledger

(* A call has the ledger and the answer it leaves.                         *)
Result(l, a) == [ledger |-> l, answer |-> a]
Refuse(l) == Result(l, "refused")

Call(local, firestore) ==
    /\ ledger' = [s \in Stores |-> IF s = "sqlite" THEN local.ledger ELSE firestore.ledger]
    /\ UNCHANGED clock

Local == ledger["sqlite"]
Firestore == ledger["firestore"]

-----------------------------------------------------------------------------
(* begin.                                                                  *)

Manual(dates) == [mode |-> "manual", from |-> dates[1], to |-> dates[2]]

(* parseCurationWindow: a schedule run, and a manual one without dates,     *)
(* begins at the cursor and ends now.                                      *)
Window(l, mode, dates) ==
    IF dates = None THEN [mode |-> mode, from |-> l.cursor, to |-> clock] ELSE Manual(dates)

Begun(l, mode, dates) ==
    LET w == Window(l, mode, dates)
        run == [from |-> w.from, to |-> w.to, mode |-> w.mode, before |-> l.cursor,
                state |-> "running", count |-> 0, completed |-> 0, snapshot |-> FALSE,
                advanced |-> FALSE]
    IN  IF w.from >= w.to THEN Refuse(l)
        ELSE Result([l EXCEPT !.runs = Append(@, run), !.pages = Append(@, <<>>)], "ok")

Begin(mode, dates) ==
    /\ Len(Local.runs) < MaxRuns
    /\ dates # None => mode = "manual"
    /\ Call(Begun(Local, mode, dates), Begun(Firestore, mode, dates))

-----------------------------------------------------------------------------
(* savePage.                                                               *)

Follows(pages, i, page) ==
    IF i = 1 THEN page.after = None
    ELSE ~Last(pages[i - 1]) /\ pages[i - 1].next = page.after

WithPage(page) ==
    [after |-> page.after, next |-> page.next, items |-> page.items, outcomes |-> None]
Same(stored, page) == [stored EXCEPT !.outcomes = None] = WithPage(page)

(* Firestore compares the page it reads back and the page it is given as    *)
(* JSON text, and need not give back the keys of an item in the order they  *)
(* were written in (kept).                                                 *)
SameText(stored, page, kept) == Same(stored, page) /\ (kept \/ page.items = {})

(* SQLite: the run must be open, also for a page that is known. *)
LocalSavePage(l, r, i, page) ==
    LET run == l.runs[r]
        pages == l.pages[r]
    IN
    IF run.state # "running" \/ run.snapshot THEN Refuse(l)
    ELSE IF i <= Len(pages) THEN (IF Same(pages[i], page) THEN Result(l, "ok") ELSE Refuse(l))
    ELSE IF i # run.count + 1 \/ ~Follows(pages, i, page) THEN Refuse(l)
    ELSE Result([l EXCEPT !.pages[r] = Append(@, WithPage(page)),
                          !.runs[r].count = i,
                          !.runs[r].snapshot = Last(page)], "ok")

(* Firestore: a page that is known is compared first.                      *)
FirestoreSavePage(l, r, i, page, kept) ==
    LET run == l.runs[r]
        pages == l.pages[r]
    IN
    IF i <= Len(pages) THEN (IF SameText(pages[i], page, kept) THEN Result(l, "ok") ELSE Refuse(l))
    ELSE IF run.state # "running" \/ run.snapshot \/ i # run.count + 1 \/ ~Follows(pages, i, page)
         THEN Refuse(l)
    ELSE Result([l EXCEPT !.pages[r] = Append(@, WithPage(page)),
                          !.runs[r].count = @ + 1,
                          !.runs[r].snapshot = Last(page)], "ok")

(* A page of the snapshot: the first, or the one after any page whose token *)
(* somebody has, again perhaps, with what is listed there now.             *)
Token(l, r, i) == IF i = 1 THEN None ELSE l.pages[r][i - 1].next

Sendable(r, i) == i = 1 \/ (i - 1 \in DOMAIN Local.pages[r] /\ Token(Local, r, i) # None)

PagesAt(r, i) ==
    [after: {Token(Local, r, i)}, next: IF i = MaxPages THEN {None} ELSE Places \cup {None},
     items: SUBSET Mems]

SavePage(r, i, page) ==
    \E kept \in BOOLEAN :
        Call(LocalSavePage(Local, r, i, page), FirestoreSavePage(Firestore, r, i, page, kept))

-----------------------------------------------------------------------------
(* recordOutcomes.                                                         *)

Recorded(l, r, i, outcomes) ==
    Result([l EXCEPT !.pages[r][i].outcomes = outcomes, !.runs[r].completed = @ + 1], "ok")

(* Mutant: a page that is complete is counted again.                       *)
RecordedAgain(l, r, i, outcomes) ==
    IF l.runs[r].state # "running" \/ l.pages[r][i].items # outcomes.ids
    THEN Refuse(l)
    ELSE Recorded(l, r, i, outcomes)

LocalRecord(l, r, i, outcomes) ==
    IF l.runs[r].state # "running" \/ l.pages[r][i].items # outcomes.ids
    THEN Refuse(l)
    ELSE IF l.pages[r][i].outcomes = None THEN Recorded(l, r, i, outcomes)
    ELSE IF l.pages[r][i].outcomes = outcomes THEN Result(l, "ok")
    ELSE Refuse(l)

FirestoreRecord(l, r, i, outcomes) ==
    LET page == l.pages[r][i] IN
    IF l.runs[r].state = "running" /\ page.items = outcomes.ids /\ page.outcomes \in {None, outcomes}
    THEN IF page.outcomes = None THEN Recorded(l, r, i, outcomes) ELSE Result(l, "ok")
    ELSE Refuse(l)

RecordOutcomes(r, i, outcomes) ==
    Call(LocalRecord(Local, r, i, outcomes), FirestoreRecord(Firestore, r, i, outcomes))

-----------------------------------------------------------------------------
(* complete.                                                               *)

Whole(run) == run.snapshot /\ run.count # 0 /\ run.completed = run.count

(* Mutant: no comparison with the cursor the run began at.                 *)
ShouldAdvanceAlways(l, run) == run.mode = "schedule"

ShouldAdvance(l, run) == run.mode = "schedule" /\ l.cursor = run.before

Ended(l, advanced) == [cursor |-> l.cursor, advanced |-> advanced]

LocalComplete(l, r) ==
    LET run == l.runs[r]
        advances == ShouldAdvance(l, run)
        after == [l EXCEPT !.cursor = IF advances THEN run.to ELSE @,
                           !.runs[r].state = "complete", !.runs[r].advanced = advances]
    IN
    IF run.state = "complete" THEN Result(l, Ended(l, run.advanced))
    ELSE IF ~Whole(run) THEN Result(l, Ended(l, FALSE))
    ELSE Result(after, Ended(after, advances))

(* Mutant: a run that is complete is looked at again.                      *)
CompleteAgain(l, r) ==
    LET run == l.runs[r]
        advances == Whole(run) /\ ShouldAdvance(l, run)
        after == [l EXCEPT !.cursor = IF advances THEN run.to ELSE @,
                           !.runs[r].state = IF Whole(run) THEN "complete" ELSE @,
                           !.runs[r].advanced = advances]
    IN  Result(after, Ended(after, advances))

FirestoreComplete(l, r) ==
    LET run == l.runs[r]
        advances == ShouldAdvance(l, run)
        cursor == IF advances THEN run.to ELSE l.cursor
        after == [l EXCEPT !.cursor = cursor,
                           !.runs[r].state = "complete", !.runs[r].advanced = advances]
    IN
    IF run.state = "complete" \/ ~Whole(run)
    THEN Result(l, Ended(l, run.state = "complete" /\ run.advanced))
    ELSE Result(after, [cursor |-> cursor, advanced |-> advances])

Complete(r) == Call(LocalComplete(Local, r), FirestoreComplete(Firestore, r))

-----------------------------------------------------------------------------
(* Restore requests.                                                       *)

CreateRequest(q) ==
    /\ Local.requests[q] = None
    /\ LET Created(l) == Result([l EXCEPT !.requests[q] = "pending"], "ok")
       IN  Call(Created(Local), Created(Firestore))

(* completeRestoreRequest: what was settled first stays, and is the answer. *)
Settled(l, q, state) ==
    LET final == IF l.requests[q] = "pending" THEN state ELSE l.requests[q]
    IN  Result([l EXCEPT !.requests[q] = final], final)

SettleRequest(q, state) ==
    /\ Local.requests[q] # None
    /\ Call(Settled(Local, q, state), Settled(Firestore, q, state))

-----------------------------------------------------------------------------
Next ==
    \/ Tick
    \/ \E mode \in {"schedule", "manual"}, dates \in Dates \cup {None} : Begin(mode, dates)
    \/ \E r \in DOMAIN Local.runs, i \in 1..MaxPages :
            Sendable(r, i) /\ \E page \in PagesAt(r, i) : SavePage(r, i, page)
    \/ \E r \in DOMAIN Local.runs : \E i \in DOMAIN Local.pages[r], o \in Outcomes : RecordOutcomes(r, i, o)
    \/ \E r \in DOMAIN Local.runs : Complete(r)
    \/ \E q \in Requests : CreateRequest(q)
    \/ \E q \in Requests, state \in {"succeeded", "failed"} : SettleRequest(q, state)

Spec == Init /\ [][Next]_vars

-----------------------------------------------------------------------------
(* Properties.                                                             *)

(* A project that is served from SQLite and one that is served from          *)
(* Firestore meet the same ledger: the same calls leave the same, and a     *)
(* call gets the same answer, but for a page that is stored already, of     *)
(* which nothing changes.  Sent again when its run has its last page,       *)
(* Firestore may say it is known, SQLite that the run is not open; and      *)
(* Firestore may not recognise a page that has items.                      *)
StoresAgree ==
    /\ Local = Firestore
    /\ \A r \in DOMAIN Local.runs :
        /\ \A i \in 1..MaxPages : Sendable(r, i) =>
            \A page \in PagesAt(r, i), kept \in BOOLEAN :
                LET local == LocalSavePage(Local, r, i, page).answer
                    firestore == FirestoreSavePage(Firestore, r, i, page, kept).answer
                IN  \/ local = firestore
                    \/ /\ i \in DOMAIN Local.pages[r]
                       /\ \/ Local.runs[r].snapshot /\ local = "refused" /\ firestore = "ok"
                          \/ page.items # {} /\ local = "ok" /\ firestore = "refused"
        /\ \A i \in DOMAIN Local.pages[r], o \in Outcomes :
            LocalRecord(Local, r, i, o).answer = FirestoreRecord(Firestore, r, i, o).answer
        /\ LocalComplete(Local, r).answer = FirestoreComplete(Firestore, r).answer

(* A run that moved the cursor read its window to the end, page after page  *)
(* without a gap, and recorded an outcome for every memory it read.         *)
AdvancedRunIsWhole ==
    \A s \in Stores : \A r \in DOMAIN ledger[s].runs :
        LET pages == ledger[s].pages[r] IN
        ledger[s].runs[r].advanced =>
            /\ pages # <<>> /\ \A i \in DOMAIN pages : Last(pages[i]) <=> i = Len(pages)
            /\ \A i \in DOMAIN pages : Follows(pages, i, pages[i])
            /\ \A i \in DOMAIN pages :
                    pages[i].outcomes # None /\ pages[i].outcomes.ids = pages[i].items

(* The windows of the runs that moved the cursor lie end to end from the     *)
(* beginning up to the cursor: no moment is left out, none is read twice,   *)
(* and the cursor never goes back.                                         *)
WindowsTile ==
    \A s \in Stores :
        LET l == ledger[s]
            Moved == {r \in DOMAIN l.runs : l.runs[r].advanced}
        IN
        /\ \A r \in Moved : \E q \in Moved : l.runs[q].from = 0
        /\ \A r \in Moved : l.runs[r].to = l.cursor \/ \E q \in Moved : l.runs[q].from = l.runs[r].to
        /\ \A r, q \in Moved : r = q \/ l.runs[r].to <= l.runs[q].from \/ l.runs[q].to <= l.runs[r].from
        /\ Moved = {} => l.cursor = 0
=============================================================================
