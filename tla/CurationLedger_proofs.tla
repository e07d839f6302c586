------------------------ MODULE CurationLedger_proofs ------------------------
(***************************************************************************)
(* Proofs about CurationLedger for any memories, places, dates and bounds: *)
(* the two stores agree, a run that moved the cursor is whole, and the     *)
(* windows of such runs lie end to end.                                    *)
(***************************************************************************)
EXTENDS CurationLedger, FiniteSetTheorems, SequenceTheorems, TLAPS

-----------------------------------------------------------------------------
(* The inductive invariant, of the ledger both stores hold.                *)

Run == [from: Nat, to: Nat, mode: {"schedule", "manual"}, before: Nat,
        state: {"running", "complete"}, count: Nat, completed: Nat,
        snapshot: BOOLEAN, advanced: BOOLEAN]

Sent == [after: Places \cup {None}, next: Places \cup {None}, items: SUBSET Mems]

Page == [after: Places \cup {None}, next: Places \cup {None}, items: SUBSET Mems,
         outcomes: Outcomes \cup {None}]

States == {"pending", "succeeded", "failed"}

Ledger == [cursor: Nat, runs: Seq(Run), pages: Seq(Seq(Page)),
           requests: [Requests -> States \cup {None}]]

(* The pages whose outcomes have come. *)
Done(pages) == {i \in 1..Len(pages) : pages[i].outcomes # None}

(* The counters of a run count its pages, its snapshot ends at the page     *)
(* that is last, and a run that is complete has an outcome for every page. *)
RunInv(run, pages) ==
    /\ run.from < run.to
    /\ run.mode = "schedule" => run.from = run.before
    /\ run.advanced => run.mode = "schedule" /\ run.state = "complete"
    /\ run.state = "complete" => Whole(run)
    /\ run.count = Len(pages)
    /\ \A i \in 1..Len(pages) : Last(pages[i]) <=> run.snapshot /\ i = Len(pages)
    /\ \A i \in 1..Len(pages) : Follows(pages, i, pages[i])
    /\ \A i \in 1..Len(pages) :
           pages[i].outcomes = None \/ pages[i].outcomes.ids = pages[i].items
    /\ run.completed = Cardinality(Done(pages))

Moved(l) == {r \in 1..Len(l.runs) : l.runs[r].advanced}

(* WindowsTile of one ledger, and no window beyond the cursor. *)
Tiles(l) ==
    /\ \A r \in Moved(l) : l.runs[r].to <= l.cursor
    /\ \A r \in Moved(l) : \E q \in Moved(l) : l.runs[q].from = 0
    /\ \A r \in Moved(l) :
           l.runs[r].to = l.cursor \/ \E q \in Moved(l) : l.runs[q].from = l.runs[r].to
    /\ \A r, q \in Moved(l) :
           r = q \/ l.runs[r].to <= l.runs[q].from \/ l.runs[q].to <= l.runs[r].from
    /\ Moved(l) = {} => l.cursor = 0

LedgerInv(l) ==
    /\ l \in Ledger /\ Len(l.pages) = Len(l.runs)
    /\ \A r \in 1..Len(l.runs) : RunInv(l.runs[r], l.pages[r])
    /\ Tiles(l)

Inv ==
    /\ clock \in Nat
    /\ Local = Firestore
    /\ DOMAIN ledger = Stores
    /\ LedgerInv(Local)

-----------------------------------------------------------------------------
(* Changing one run.                                                       *)

(* The ledgers, one, in which a run and its pages are replaced.            *)
Put(l, r, run, pages) ==
    [cursor: {l.cursor}, runs: {[l.runs EXCEPT ![r] = run]},
     pages: {[l.pages EXCEPT ![r] = pages]}, requests: {l.requests}]

(* A run that keeps its window, and does not move the cursor. *)
LEMMA PutRun ==
    ASSUME NEW l, LedgerInv(l), NEW r \in 1..Len(l.runs), NEW run \in Run,
           NEW pages \in Seq(Page), RunInv(run, pages),
           run.from = l.runs[r].from, run.to = l.runs[r].to, run.advanced = l.runs[r].advanced,
           NEW m \in Put(l, r, run, pages)
    PROVE  LedgerInv(m)
<1>0. /\ m.cursor = l.cursor
      /\ m.runs = [l.runs EXCEPT ![r] = run] /\ m.pages = [l.pages EXCEPT ![r] = pages]
  BY DEF Put
<1>1. l.runs \in Seq(Run) /\ l.pages \in Seq(Seq(Page)) /\ Len(l.pages) = Len(l.runs)
  BY DEF LedgerInv, Ledger
<1>9. m \in Ledger
  <2>1. [l.runs EXCEPT ![r] = run] \in Seq(Run)
    BY <1>1, ExceptSeq
  <2>2. [l.pages EXCEPT ![r] = pages] \in Seq(Seq(Page))
    BY <1>1, ExceptSeq
  <2>3. QED
    BY <2>1, <2>2 DEF LedgerInv, Ledger, Put
<1>2. /\ Len(m.runs) = Len(l.runs) /\ m.runs[r] = run
      /\ \A q \in 1..Len(l.runs) : q # r => m.runs[q] = l.runs[q]
  BY <1>0, <1>1
<1>3. /\ Len(m.pages) = Len(l.runs) /\ m.pages[r] = pages
      /\ \A q \in 1..Len(l.runs) : q # r => m.pages[q] = l.pages[q]
  BY <1>0, <1>1
<1>4. \A q \in 1..Len(l.runs) : RunInv(m.runs[q], m.pages[q])
  BY <1>2, <1>3 DEF LedgerInv
<1>5. \A q \in 1..Len(l.runs) : /\ m.runs[q].from = l.runs[q].from
                                /\ m.runs[q].to = l.runs[q].to
                                /\ m.runs[q].advanced = l.runs[q].advanced
  BY <1>2
<1>6. Moved(m) = Moved(l)
  BY <1>2, <1>5 DEF Moved
<1>7. Tiles(m)
  <2>1. \A q \in Moved(l) : m.runs[q].from = l.runs[q].from /\ m.runs[q].to = l.runs[q].to
    BY <1>5 DEF Moved
  <2>2. Tiles(l) /\ m.cursor = l.cursor
    BY <1>0 DEF LedgerInv
  <2>3. QED
    BY <1>6, <2>1, <2>2 DEF Tiles
<1>8. QED
  BY <1>2, <1>3, <1>4, <1>7, <1>9 DEF LedgerInv

(* A page is appended, with what the run becomes. *)
LEMMA Appended ==
    ASSUME NEW pages \in Seq(Page), NEW page \in Page
    PROVE  /\ Append(pages, page) \in Seq(Page) /\ Len(Append(pages, page)) = Len(pages) + 1
           /\ \A i \in 1..Len(pages) : Append(pages, page)[i] = pages[i]
           /\ Append(pages, page)[Len(pages) + 1] = page
           /\ page.outcomes = None => Done(Append(pages, page)) = Done(pages)
<1>1. /\ Append(pages, page) \in Seq(Page) /\ Len(Append(pages, page)) = Len(pages) + 1
      /\ \A i \in 1..Len(pages) : Append(pages, page)[i] = pages[i]
      /\ Append(pages, page)[Len(pages) + 1] = page
  BY AppendProperties
<1>2. Len(pages) \in Nat
  OBVIOUS
<1>3. page.outcomes = None => Done(Append(pages, page)) = Done(pages)
  BY <1>1, <1>2 DEF Done
<1>4. QED
  BY <1>1, <1>3

-----------------------------------------------------------------------------
(* savePage: the two stores keep the same page, and answer the same unless  *)
(* it is stored already.                                                   *)

SaveAgrees(l, r, i, page, kept) ==
    /\ LocalSavePage(l, r, i, page).ledger = FirestoreSavePage(l, r, i, page, kept).ledger
    /\ LET local == LocalSavePage(l, r, i, page).answer
           firestore == FirestoreSavePage(l, r, i, page, kept).answer
       IN  \/ local = firestore
           \/ /\ i \in DOMAIN l.pages[r]
              /\ \/ l.runs[r].snapshot /\ local = "refused" /\ firestore = "ok"
                 \/ page.items # {} /\ local = "ok" /\ firestore = "refused"

LEMMA SaveHolds ==
    ASSUME NEW l, LedgerInv(l), NEW r \in 1..Len(l.runs), NEW i \in Nat \ {0}, NEW page \in Sent,
           NEW kept \in BOOLEAN
    PROVE  SaveAgrees(l, r, i, page, kept) /\ LedgerInv(LocalSavePage(l, r, i, page).ledger)
<1> DEFINE run == l.runs[r]
           pages == l.pages[r]
           new == WithPage(page)
           m == [l EXCEPT !.pages[r] = Append(@, WithPage(page)),
                          !.runs[r].count = i,
                          !.runs[r].snapshot = Last(page)]
           n == [l EXCEPT !.pages[r] = Append(@, WithPage(page)),
                          !.runs[r].count = @ + 1,
                          !.runs[r].snapshot = Last(page)]
           after == [run EXCEPT !.count = i, !.snapshot = Last(page)]
<1>1. /\ l \in Ledger /\ Len(l.pages) = Len(l.runs) /\ run \in Run /\ pages \in Seq(Page)
      /\ RunInv(run, pages)
  BY DEF LedgerInv, Ledger
<1>2. new \in Page /\ new.outcomes = None /\ new.after = page.after /\ new.next = page.next
  BY DEF WithPage, Page, Sent
<1>0. i <= Len(pages) => i \in DOMAIN pages
  BY <1>1
<1>3. CASE run.state # "running" \/ run.snapshot
  <2>1. run.snapshot
    BY <1>1, <1>3 DEF RunInv, Whole, Run
  <2>2. LocalSavePage(l, r, i, page) = Refuse(l)
    BY <1>3 DEF LocalSavePage
  <2>3. \/ FirestoreSavePage(l, r, i, page, kept) = Refuse(l)
        \/ i <= Len(pages) /\ FirestoreSavePage(l, r, i, page, kept) = Result(l, "ok")
    BY <1>3 DEF FirestoreSavePage
  <2>4. QED
    BY <1>0, <2>1, <2>2, <2>3 DEF SaveAgrees, Refuse, Result
<1>4. CASE i <= Len(pages) /\ run.state = "running" /\ ~run.snapshot
  BY <1>0, <1>4 DEF SaveAgrees, LocalSavePage, FirestoreSavePage, SameText, Refuse, Result
<1>5. CASE /\ ~(i <= Len(pages)) /\ run.state = "running" /\ ~run.snapshot
           /\ i # run.count + 1 \/ ~Follows(pages, i, page)
  BY <1>5 DEF SaveAgrees, LocalSavePage, FirestoreSavePage, Refuse, Result
<1>6. CASE /\ ~(i <= Len(pages)) /\ run.state = "running" /\ ~run.snapshot
           /\ i = run.count + 1 /\ Follows(pages, i, page)
  <2>1. /\ LocalSavePage(l, r, i, page) = Result(m, "ok")
        /\ FirestoreSavePage(l, r, i, page, kept) = Result(n, "ok")
    BY <1>6 DEF LocalSavePage, FirestoreSavePage
  <2>2. m = n
    BY <1>1, <1>6 DEF Ledger
  <2>3. m \in Put(l, r, after, Append(pages, new))
    BY <1>1 DEF Put, Ledger
  <2>4. /\ after \in Run /\ after.from = run.from /\ after.to = run.to /\ after.mode = run.mode
        /\ after.before = run.before /\ after.advanced = run.advanced /\ after.state = run.state
        /\ after.count = i /\ after.completed = run.completed
        /\ after.snapshot <=> Last(page)
    BY <1>1 DEF Run, Last
  <2> DEFINE more == Append(pages, new)
  <2>5. /\ more \in Seq(Page) /\ Len(more) = Len(pages) + 1
        /\ \A j \in 1..Len(pages) : more[j] = pages[j]
        /\ more[Len(pages) + 1] = new /\ Done(more) = Done(pages)
    BY <1>1, <1>2, Appended
  <2>6. i = Len(pages) + 1 /\ Len(pages) \in Nat
    BY <1>1, <1>6 DEF RunInv
  <2> HIDE DEF after, more, new, run, pages, m
  <2>8. RunInv(after, more)
    <3>1. \A j \in 1..Len(more) : Last(more[j]) <=> after.snapshot /\ j = Len(more)
      <4>1. \A j \in 1..Len(pages) : ~Last(more[j])
        BY <1>1, <1>6, <2>5 DEF RunInv
      <4>2. Last(more[Len(more)]) <=> after.snapshot
        <5>1. more[Len(more)] = new
          BY <2>5
        <5>2. Last(new) <=> Last(page)
          BY <1>2 DEF Last
        <5>3. QED
          BY <2>4, <5>1, <5>2
      <4>3. QED
        BY <4>1, <4>2, <2>5, <2>6
    <3>2. \A j \in 1..Len(more) : Follows(more, j, more[j])
      <4>1. \A j \in 1..Len(pages) : Follows(more, j, more[j])
        BY SMTT(30), <1>1, <2>5, <2>6 DEF RunInv, Follows
      <4>2. Follows(more, i, new)
        BY <1>2, <1>6, <2>5, <2>6 DEF Follows
      <4>3. QED
        BY <4>1, <4>2, <2>5, <2>6
    <3>3. \A j \in 1..Len(more) :
             more[j].outcomes = None \/ more[j].outcomes.ids = more[j].items
      BY <1>1, <1>2, <2>5, <2>6 DEF RunInv
    <3>4. QED
      BY <1>1, <1>6, <2>4, <2>5, <2>6, <3>1, <3>2, <3>3 DEF RunInv
  <2>9. LedgerInv(m)
    BY <2>3, <2>4, <2>5, <2>8, PutRun DEF run, more
  <2>10. QED
    BY <2>1, <2>2, <2>9 DEF SaveAgrees, Result
<1>7. QED
  BY <1>3, <1>4, <1>5, <1>6

-----------------------------------------------------------------------------
(* recordOutcomes.                                                         *)

(* One more page is done; when as many are done as there are, all are.     *)
LEMMA DoneCounts ==
    ASSUME NEW pages \in Seq(Page)
    PROVE  /\ Cardinality(Done(pages)) \in Nat
           /\ \A i \in 1..Len(pages) : i \notin Done(pages) =>
                 Cardinality(Done(pages) \cup {i}) = Cardinality(Done(pages)) + 1
           /\ Cardinality(Done(pages)) = Len(pages) => Done(pages) = 1..Len(pages)
<1>1. Len(pages) \in Nat
  OBVIOUS
<1>2. IsFiniteSet(1..Len(pages)) /\ Cardinality(1..Len(pages)) = Len(pages)
  BY SMTT(30), <1>1, FS_Interval
<1>3. Done(pages) \in SUBSET (1..Len(pages))
  BY DEF Done
<1>4. IsFiniteSet(Done(pages))
  BY <1>2, <1>3, FS_Subset
<1>5. Cardinality(Done(pages)) \in Nat
  BY <1>4, FS_CardinalityType
<1>6. \A i \in 1..Len(pages) : i \notin Done(pages) =>
         Cardinality(Done(pages) \cup {i}) = Cardinality(Done(pages)) + 1
  BY <1>4, FS_AddElement
<1>7. Cardinality(Done(pages)) = Len(pages) => Done(pages) = 1..Len(pages)
  BY <1>2, <1>3, FS_Subset
<1>8. QED
  BY <1>5, <1>6, <1>7

LEMMA RecordHolds ==
    ASSUME NEW l, LedgerInv(l), NEW r \in 1..Len(l.runs), NEW i \in 1..Len(l.pages[r]),
           NEW o \in Outcomes
    PROVE  /\ LocalRecord(l, r, i, o) = FirestoreRecord(l, r, i, o)
           /\ LedgerInv(LocalRecord(l, r, i, o).ledger)
<1> DEFINE run == l.runs[r]
           pages == l.pages[r]
           m == [l EXCEPT !.pages[r][i].outcomes = o, !.runs[r].completed = @ + 1]
           after == [run EXCEPT !.completed = @ + 1]
           page == [pages[i] EXCEPT !.outcomes = o]
           more == [pages EXCEPT ![i] = page]
<1>1. /\ l \in Ledger /\ Len(l.pages) = Len(l.runs) /\ run \in Run /\ pages \in Seq(Page)
      /\ RunInv(run, pages) /\ pages[i] \in Page
  BY DEF LedgerInv, Ledger
<1>2. o # None
  BY NoOutcomes
<1>3. CASE run.state # "running" \/ pages[i].items # o.ids \/ pages[i].outcomes # None
  BY <1>2, <1>3 DEF LocalRecord, FirestoreRecord, Refuse, Result
<1>4. CASE run.state = "running" /\ pages[i].items = o.ids /\ pages[i].outcomes = None
  <2>1. /\ LocalRecord(l, r, i, o) = Result(m, "ok")
        /\ FirestoreRecord(l, r, i, o) = Result(m, "ok")
    BY <1>4 DEF LocalRecord, FirestoreRecord, Recorded
  <2>2. m \in Put(l, r, after, more)
    BY <1>1 DEF Put, Ledger
  <2>3. /\ page \in Page /\ page.outcomes = o /\ page.items = pages[i].items
        /\ page.next = pages[i].next /\ page.after = pages[i].after
    BY <1>1 DEF Page
  <2>4. /\ after \in Run /\ after.from = run.from /\ after.to = run.to /\ after.mode = run.mode
        /\ after.before = run.before /\ after.advanced = run.advanced /\ after.state = run.state
        /\ after.count = run.count /\ after.completed = run.completed + 1
        /\ after.snapshot = run.snapshot
    <3>1. run \in Run /\ run.completed + 1 \in Nat
      BY <1>1 DEF Run
    <3> HIDE DEF run
    <3>2. QED
      BY <3>1 DEF Run
  <2> HIDE DEF page
  <2>5. /\ more \in Seq(Page) /\ Len(more) = Len(pages) /\ Len(pages) \in Nat
        /\ more[i] = page /\ \A j \in 1..Len(pages) : j # i => more[j] = pages[j]
    BY <1>1, <2>3, ExceptSeq
  <2> HIDE DEF after, more, run, pages, m
  <2>6. RunInv(after, more)
    <3>1. \A j \in 1..Len(more) : Last(more[j]) <=> after.snapshot /\ j = Len(more)
      <4>1. \A j \in 1..Len(pages) : Last(more[j]) <=> Last(pages[j])
        BY <2>3, <2>5 DEF Last
      <4>2. QED
        BY <1>1, <2>4, <2>5, <4>1 DEF RunInv
    <3>2. \A j \in 1..Len(more) : Follows(more, j, more[j])
      <4>1. \A j \in 1..Len(pages) : /\ more[j].next = pages[j].next
                                     /\ more[j].after = pages[j].after
        BY <2>3, <2>5
      <4>2. QED
        BY SMTT(30), <1>1, <2>5, <4>1 DEF RunInv, Follows, Last
    <3>3. \A j \in 1..Len(more) :
             more[j].outcomes = None \/ more[j].outcomes.ids = more[j].items
      BY <1>1, <1>4, <2>3, <2>5 DEF RunInv
    <3>4. Done(more) = Done(pages) \cup {i} /\ i \notin Done(pages)
      BY <1>2, <1>4, <2>3, <2>5 DEF Done, pages
    <3>5. after.completed = Cardinality(Done(more))
      BY <1>1, <2>4, <2>5, <3>4, DoneCounts DEF RunInv, pages
    <3>6. QED
      BY <1>1, <1>4, <2>4, <2>5, <3>1, <3>2, <3>3, <3>5 DEF RunInv
  <2>7. LedgerInv(m)
    BY <2>2, <2>4, <2>5, <2>6, PutRun DEF run
  <2>8. QED
    BY <2>1, <2>7 DEF Result
<1>5. QED
  BY <1>3, <1>4

-----------------------------------------------------------------------------
(* complete: the cursor moves to the end of a window that began at it.      *)

LEMMA CompleteHolds ==
    ASSUME NEW l, LedgerInv(l), NEW r \in 1..Len(l.runs)
    PROVE  /\ LocalComplete(l, r) = FirestoreComplete(l, r)
           /\ LedgerInv(LocalComplete(l, r).ledger)
<1> DEFINE run == l.runs[r]
           pages == l.pages[r]
           advances == ShouldAdvance(l, run)
           cursor == IF advances THEN run.to ELSE l.cursor
           m == [l EXCEPT !.cursor = IF advances THEN run.to ELSE @,
                          !.runs[r].state = "complete", !.runs[r].advanced = advances]
           after == [run EXCEPT !.state = "complete", !.advanced = advances]
<1>1. /\ l \in Ledger /\ Len(l.pages) = Len(l.runs) /\ run \in Run /\ pages \in Seq(Page)
      /\ RunInv(run, pages) /\ l.runs \in Seq(Run)
  BY DEF LedgerInv, Ledger
<1>2. CASE run.state = "complete" \/ ~Whole(run)
  BY <1>1, <1>2 DEF LocalComplete, FirestoreComplete, Result, Ended, Run
<1>3. CASE run.state = "running" /\ Whole(run)
  <2>1. m \in [cursor: {cursor}, runs: {[l.runs EXCEPT ![r] = after]},
               pages: {l.pages}, requests: {l.requests}]
    BY <1>1 DEF Ledger
  <2>2. /\ LocalComplete(l, r) = Result(m, Ended(m, advances))
        /\ FirestoreComplete(l, r) = Result(m, [cursor |-> cursor, advanced |-> advances])
    BY <1>3 DEF LocalComplete, FirestoreComplete
  <2>3. Ended(m, advances) = [cursor |-> cursor, advanced |-> advances]
    BY <2>1 DEF Ended
  <2>4. /\ after \in Run /\ after.from = run.from /\ after.to = run.to /\ after.mode = run.mode
        /\ after.before = run.before /\ after.advanced = advances /\ after.state = "complete"
        /\ after.count = run.count /\ after.completed = run.completed
        /\ after.snapshot = run.snapshot
    BY <1>1 DEF Run, ShouldAdvance
  <2>5. /\ advances => run.mode = "schedule" /\ l.cursor = run.before
        /\ advances \in BOOLEAN
        /\ ~run.advanced
    BY <1>1, <1>3 DEF ShouldAdvance, RunInv
  <2>6. /\ cursor \in Nat /\ (advances => cursor = run.to) /\ (~advances => cursor = l.cursor)
        /\ run.from \in Nat /\ run.to \in Nat /\ l.cursor \in Nat
    BY <1>1 DEF Run, Ledger
  <2> HIDE DEF after, run, pages, advances, cursor, m
  <2>7. RunInv(after, pages)
    BY <1>1, <1>3, <2>4, <2>5 DEF RunInv, Whole
  <2>8. /\ Len(m.runs) = Len(l.runs) /\ m.runs[r] = after
        /\ \A q \in 1..Len(l.runs) : q # r => m.runs[q] = l.runs[q]
        /\ m.cursor = cursor /\ m.pages = l.pages /\ m \in Ledger
    <3>1. /\ [l.runs EXCEPT ![r] = after] \in Seq(Run)
          /\ Len([l.runs EXCEPT ![r] = after]) = Len(l.runs)
          /\ [l.runs EXCEPT ![r] = after][r] = after
          /\ \A q \in 1..Len(l.runs) : q # r => [l.runs EXCEPT ![r] = after][q] = l.runs[q]
      BY <1>1, <2>4, ExceptSeq
    <3>2. QED
      BY <1>1, <2>1, <2>6, <3>1 DEF Ledger
  <2>9. \A q \in 1..Len(m.runs) : RunInv(m.runs[q], m.pages[q])
    BY <1>1, <2>7, <2>8 DEF LedgerInv, pages
  <2>10. /\ \A q \in Moved(l) : /\ q \in 1..Len(l.runs) /\ q # r
                                /\ m.runs[q] = l.runs[q] /\ l.runs[q].from \in Nat
                                /\ l.runs[q].to \in Nat
         /\ Moved(m) = IF advances THEN Moved(l) \cup {r} ELSE Moved(l)
    <3>1. r \notin Moved(l)
      BY <2>5 DEF Moved, run
    <3>2. \A q \in 1..Len(l.runs) : l.runs[q] \in Run
      BY <1>1
    <3>3. \A q \in Moved(l) : /\ q \in 1..Len(l.runs) /\ q # r
                              /\ m.runs[q] = l.runs[q] /\ l.runs[q].from \in Nat
                              /\ l.runs[q].to \in Nat
      BY <2>8, <3>1, <3>2 DEF Moved, Run
    <3>4. Moved(m) = IF advances THEN Moved(l) \cup {r} ELSE Moved(l)
      BY <2>4, <2>5, <2>8, <3>1 DEF Moved
    <3>5. QED
      BY <3>3, <3>4
  <2>11. Tiles(m)
    <3>1. Tiles(l)
      BY DEF LedgerInv
    <3>2. CASE ~advances
      BY ZenonT(60), <2>6, <2>8, <2>10, <3>1, <3>2 DEF Tiles
    <3>3. CASE advances
      <4>1. /\ m.cursor = run.to /\ l.cursor = run.from /\ run.from < run.to
            /\ m.runs[r].from = run.from /\ m.runs[r].to = run.to
            /\ Moved(m) = Moved(l) \cup {r}
        BY <1>1, <2>4, <2>5, <2>6, <2>8, <2>10, <3>3 DEF RunInv
      <4>2. \A q \in Moved(l) : l.runs[q].to <= run.from
        BY <3>1, <4>1 DEF Tiles
      <4>3. \A q \in Moved(m) : m.runs[q].to <= m.cursor
        BY <2>6, <2>10, <4>1, <4>2
      <4>4. \E q \in Moved(m) : m.runs[q].from = 0
        <5>1. CASE Moved(l) = {}
          BY <3>1, <4>1, <5>1 DEF Tiles
        <5>2. CASE Moved(l) # {}
          BY <2>10, <3>1, <4>1, <5>2 DEF Tiles
        <5>3. QED
          BY <5>1, <5>2
      <4>5. ASSUME NEW p \in Moved(m)
            PROVE  m.runs[p].to = m.cursor \/ \E q \in Moved(m) : m.runs[q].from = m.runs[p].to
        <5>1. CASE p = r
          BY <4>1, <5>1
        <5>2. CASE p # r
          BY <2>10, <3>1, <4>1, <5>2 DEF Tiles
        <5>3. QED
          BY <5>1, <5>2
      <4>6. \A p, q \in Moved(m) :
               p = q \/ m.runs[p].to <= m.runs[q].from \/ m.runs[q].to <= m.runs[p].from
        BY <2>10, <3>1, <4>1, <4>2 DEF Tiles
      <4>7. QED
        BY <4>1, <4>3, <4>4, <4>5, <4>6 DEF Tiles
    <3>4. QED
      BY <3>2, <3>3
  <2>12. LedgerInv(m)
    BY <1>1, <2>8, <2>9, <2>11 DEF LedgerInv
  <2>13. QED
    BY <2>2, <2>3, <2>12 DEF Result
<1>4. QED
  BY <1>1, <1>2, <1>3 DEF Run

-----------------------------------------------------------------------------
(* begin, and the restore requests.                                        *)

LEMMA BeginHolds ==
    ASSUME NEW l, LedgerInv(l), clock \in Nat, NEW mode \in {"schedule", "manual"},
           NEW dates \in Dates \cup {None}, dates # None => mode = "manual"
    PROVE  LedgerInv(Begun(l, mode, dates).ledger)
<1> DEFINE w == Window(l, mode, dates)
           run == [from |-> w.from, to |-> w.to, mode |-> w.mode, before |-> l.cursor,
                   state |-> "running", count |-> 0, completed |-> 0, snapshot |-> FALSE,
                   advanced |-> FALSE]
           m == [l EXCEPT !.runs = Append(@, run), !.pages = Append(@, <<>>)]
<1>1. /\ l \in Ledger /\ Len(l.pages) = Len(l.runs) /\ Len(l.runs) \in Nat /\ l.cursor \in Nat
      /\ l.runs \in Seq(Run) /\ l.pages \in Seq(Seq(Page))
  BY DEF LedgerInv, Ledger
<1>2. /\ w.from \in Nat /\ w.to \in Nat /\ w.mode \in {"schedule", "manual"}
      /\ w.mode = "schedule" => w.from = l.cursor
  <2>1. CASE dates = None
    BY <1>1, <2>1 DEF Window
  <2>2. CASE dates # None
    <3>1. dates[1] \in Nat /\ dates[2] \in Nat
      BY <2>2, LedgerDates, LedgerBounds
    <3>2. QED
      BY <2>2, <3>1 DEF Window, Manual
  <2>3. QED
    BY <2>1, <2>2
<1>3. CASE w.from >= w.to
  BY <1>3 DEF Begun, Refuse, Result
<1>4. CASE ~(w.from >= w.to)
  <2>1. Begun(l, mode, dates).ledger = m
    BY <1>4 DEF Begun, Result
  <2>2. m \in [cursor: {l.cursor}, runs: {Append(l.runs, run)},
               pages: {Append(l.pages, <<>>)}, requests: {l.requests}]
    BY <1>1 DEF Ledger
  <2> HIDE DEF w
  <2>3. /\ run \in Run /\ run.from < run.to /\ (run.mode = "schedule" => run.from = run.before)
        /\ ~run.advanced /\ run.state = "running" /\ run.count = 0 /\ run.completed = 0
    BY <1>1, <1>2, <1>4 DEF Run
  <2> HIDE DEF run, m
  <2>4. /\ Append(l.runs, run) \in Seq(Run) /\ Len(Append(l.runs, run)) = Len(l.runs) + 1
        /\ \A q \in 1..Len(l.runs) : Append(l.runs, run)[q] = l.runs[q]
        /\ Append(l.runs, run)[Len(l.runs) + 1] = run
    BY <1>1, <2>3, AppendProperties
  <2>5. <<>> \in Seq(Page) /\ Len(<<>>) = 0
    OBVIOUS
  <2>6. /\ Append(l.pages, <<>>) \in Seq(Seq(Page)) /\ Len(Append(l.pages, <<>>)) = Len(l.runs) + 1
        /\ \A q \in 1..Len(l.runs) : Append(l.pages, <<>>)[q] = l.pages[q]
        /\ Append(l.pages, <<>>)[Len(l.runs) + 1] = <<>>
    BY <1>1, <2>5, AppendProperties
  <2>7. /\ m.cursor = l.cursor /\ m.runs = Append(l.runs, run) /\ m.pages = Append(l.pages, <<>>)
        /\ m \in Ledger
    BY <1>1, <2>2, <2>4, <2>6 DEF Ledger
  <2>8. RunInv(run, <<>>)
    <3>1. Done(<<>>) = {}
      BY <2>5 DEF Done
    <3>2. Cardinality(Done(<<>>)) = 0
      BY <3>1, FS_EmptySet
    <3>3. QED
      BY <2>3, <2>5, <3>2 DEF RunInv
  <2>9. \A q \in 1..Len(m.runs) : RunInv(m.runs[q], m.pages[q])
    BY <1>1, <2>4, <2>6, <2>7, <2>8 DEF LedgerInv
  <2>10. Moved(m) = Moved(l)
    BY <1>1, <2>3, <2>4, <2>7 DEF Moved
  <2>11. \A q \in Moved(l) : m.runs[q] = l.runs[q]
    BY <2>4, <2>7 DEF Moved
  <2>12. Tiles(m)
    BY <2>7, <2>10, <2>11 DEF Tiles, LedgerInv
  <2>13. QED
    BY <2>1, <2>4, <2>6, <2>7, <2>9, <2>12 DEF LedgerInv
<1>5. QED
  BY <1>3, <1>4

LEMMA RequestHolds ==
    ASSUME NEW l, LedgerInv(l), NEW q \in Requests, NEW x \in States \cup {None}
    PROVE  LedgerInv([l EXCEPT !.requests[q] = x])
<1> DEFINE m == [l EXCEPT !.requests[q] = x]
<1>1. l \in Ledger
  BY DEF LedgerInv
<1>2. m \in Ledger /\ m.cursor = l.cursor /\ m.runs = l.runs /\ m.pages = l.pages
  BY <1>1 DEF Ledger
<1> HIDE DEF m
<1>3. Tiles(m)
  BY <1>2 DEF LedgerInv, Tiles, Moved
<1>4. LedgerInv(m)
  BY <1>2, <1>3 DEF LedgerInv
<1>5. QED
  BY <1>4 DEF m

-----------------------------------------------------------------------------
(* The theorems.                                                           *)

(* A call that leaves both stores the same ledger, of the right kind.      *)
LEMMA CallHolds ==
    ASSUME Inv, NEW a, NEW b, Call(a, b), a.ledger = b.ledger, LedgerInv(a.ledger)
    PROVE  Inv'
<1>1. /\ clock' = clock /\ DOMAIN ledger' = Stores
      /\ ledger'["sqlite"] = a.ledger /\ ledger'["firestore"] = b.ledger
  BY DEF Call, Stores
<1>2. Local' = a.ledger /\ Firestore' = a.ledger
  BY <1>1 DEF Local, Firestore
<1>3. QED
  BY <1>1, <1>2 DEF Inv

(* The pages that may be sent are pages. *)
LEMMA PagesAreSent ==
    ASSUME Inv, NEW r \in 1..Len(Local.runs), NEW i \in 1..MaxPages, Sendable(r, i),
           NEW page \in PagesAt(r, i)
    PROVE  page \in Sent
<1>1. Local \in Ledger /\ Len(Local.pages) = Len(Local.runs)
  BY DEF Inv, LedgerInv
<1>2. Local.pages[r] \in Seq(Page)
  BY <1>1 DEF Ledger
<1>3. Token(Local, r, i) \in Places \cup {None}
  <2>1. CASE i = 1
    BY <2>1 DEF Token
  <2>2. CASE i # 1
    <3>1. i - 1 \in DOMAIN Local.pages[r]
      BY <2>2 DEF Sendable
    <3>2. Local.pages[r][i - 1] \in Page
      BY <1>2, <3>1
    <3>3. QED
      BY <2>2, <3>2 DEF Token, Page
  <2>3. QED
    BY <2>1, <2>2
<1>4. QED
  BY <1>3 DEF PagesAt, Sent

LEMMA Runs ==
    ASSUME Inv
    PROVE  /\ LedgerInv(Local) /\ Firestore = Local /\ DOMAIN Local.runs = 1..Len(Local.runs)
           /\ \A r \in 1..Len(Local.runs) : DOMAIN Local.pages[r] = 1..Len(Local.pages[r])
<1>1. Local \in Ledger /\ Len(Local.pages) = Len(Local.runs)
  BY DEF Inv, LedgerInv
<1>2. Local.runs \in Seq(Run) /\ Local.pages \in Seq(Seq(Page))
  BY <1>1 DEF Ledger
<1>3. \A r \in 1..Len(Local.runs) : Local.pages[r] \in Seq(Page)
  BY <1>1, <1>2
<1>4. QED
  BY <1>2, <1>3 DEF Inv

LEMMA Step == Inv /\ [Next]_vars => Inv'
<1> SUFFICES ASSUME Inv, [Next]_vars PROVE Inv'
  OBVIOUS
<1>1. /\ LedgerInv(Local) /\ Firestore = Local /\ DOMAIN Local.runs = 1..Len(Local.runs)
      /\ \A r \in 1..Len(Local.runs) : DOMAIN Local.pages[r] = 1..Len(Local.pages[r])
  BY Runs
<1>2. MaxPages \in Nat
  BY LedgerBounds
<1>3. CASE Tick
  BY <1>3 DEF Tick, Inv, Local, Firestore
<1>4. ASSUME NEW mode \in {"schedule", "manual"}, NEW dates \in Dates \cup {None}, Begin(mode, dates)
      PROVE  Inv'
  <2>1. LedgerInv(Begun(Local, mode, dates).ledger)
    BY <1>1, <1>4, BeginHolds DEF Begin, Inv
  <2>2. Call(Begun(Local, mode, dates), Begun(Local, mode, dates))
    BY <1>1, <1>4 DEF Begin
  <2>3. QED
    BY <2>1, <2>2, CallHolds
<1>5. ASSUME NEW r \in DOMAIN Local.runs, NEW i \in 1..MaxPages, Sendable(r, i),
             NEW page \in PagesAt(r, i), SavePage(r, i, page)
      PROVE  Inv'
  <2>1. page \in Sent /\ i \in Nat \ {0}
    BY <1>1, <1>2, <1>5, PagesAreSent
  <2>2. PICK kept \in BOOLEAN :
            Call(LocalSavePage(Local, r, i, page), FirestoreSavePage(Firestore, r, i, page, kept))
    BY <1>5 DEF SavePage
  <2>3. /\ SaveAgrees(Local, r, i, page, kept)
        /\ LedgerInv(LocalSavePage(Local, r, i, page).ledger)
    BY <1>1, <2>1, SaveHolds
  <2>4. QED
    BY <1>1, <2>2, <2>3, CallHolds DEF SaveAgrees
<1>6. ASSUME NEW r \in DOMAIN Local.runs, NEW i \in DOMAIN Local.pages[r], NEW o \in Outcomes,
             RecordOutcomes(r, i, o)
      PROVE  Inv'
  <2>1. /\ LocalRecord(Local, r, i, o) = FirestoreRecord(Local, r, i, o)
        /\ LedgerInv(LocalRecord(Local, r, i, o).ledger)
    BY <1>1, RecordHolds
  <2>2. QED
    BY <1>1, <1>6, <2>1, CallHolds DEF RecordOutcomes
<1>7. ASSUME NEW r \in DOMAIN Local.runs, Complete(r) PROVE Inv'
  <2>1. /\ LocalComplete(Local, r) = FirestoreComplete(Local, r)
        /\ LedgerInv(LocalComplete(Local, r).ledger)
    BY <1>1, CompleteHolds
  <2>2. QED
    BY <1>1, <1>7, <2>1, CallHolds DEF Complete
<1>8. ASSUME NEW q \in Requests, CreateRequest(q) PROVE Inv'
  <2> DEFINE a == Result([Local EXCEPT !.requests[q] = "pending"], "ok")
  <2>1. LedgerInv(a.ledger)
    BY <1>1, RequestHolds DEF Result, States
  <2>2. Call(a, a)
    BY <1>1, <1>8 DEF CreateRequest
  <2> HIDE DEF a
  <2>3. QED
    BY <2>1, <2>2, CallHolds
<1>9. ASSUME NEW q \in Requests, NEW state \in {"succeeded", "failed"}, SettleRequest(q, state)
      PROVE  Inv'
  <2> DEFINE a == Settled(Local, q, state)
  <2>1. Local.requests[q] \in States \cup {None}
    BY <1>1 DEF LedgerInv, Ledger
  <2>2. LedgerInv(a.ledger)
    BY <1>1, <2>1, RequestHolds DEF Settled, Result, States
  <2>3. Call(a, a)
    BY <1>1, <1>9 DEF SettleRequest
  <2> HIDE DEF a
  <2>4. QED
    BY <2>2, <2>3, CallHolds
<1>10. CASE UNCHANGED vars
  BY <1>10 DEF vars, Inv, Local, Firestore
<1>11. QED
  BY <1>3, <1>4, <1>5, <1>6, <1>7, <1>8, <1>9, <1>10 DEF Next

LEMMA Start == Init => Inv
<1> SUFFICES ASSUME Init PROVE Inv
  OBVIOUS
<1> DEFINE l == [cursor |-> 0, runs |-> <<>>, pages |-> <<>>,
                 requests |-> [q \in Requests |-> None]]
<1>1. Local = l /\ Firestore = l /\ DOMAIN ledger = Stores /\ clock \in Nat
  BY DEF Init, Local, Firestore, Stores
<1>2. l \in Ledger
  BY DEF Ledger
<1>3. Len(l.runs) = 0 /\ Len(l.pages) = 0
  OBVIOUS
<1>4. Moved(l) = {}
  BY <1>3 DEF Moved
<1>5. LedgerInv(l)
  BY <1>2, <1>3, <1>4 DEF LedgerInv, Tiles
<1>6. QED
  BY <1>1, <1>5 DEF Inv

LEMMA Invariant == Spec => []Inv
  BY Start, Step, PTL DEF Spec

(* Whatever calls come, in any order, again and for runs of each other: the *)
(* SQLite and the Firestore ledger stay the same, and give the same answers *)
(* but for a page that is stored already, in whatever order Firestore gives *)
(* the keys of its items back.                                             *)
THEOREM StoresAlwaysAgree == Spec => []StoresAgree
<1>1. ASSUME Inv PROVE StoresAgree
  <2>1. /\ LedgerInv(Local) /\ Firestore = Local /\ DOMAIN Local.runs = 1..Len(Local.runs)
        /\ \A r \in 1..Len(Local.runs) : DOMAIN Local.pages[r] = 1..Len(Local.pages[r])
    BY <1>1, Runs
  <2>2. MaxPages \in Nat
    BY LedgerBounds
  <2>3. ASSUME NEW r \in DOMAIN Local.runs, NEW i \in 1..MaxPages, Sendable(r, i),
               NEW page \in PagesAt(r, i), NEW kept \in BOOLEAN
        PROVE  SaveAgrees(Local, r, i, page, kept)
    <3>1. page \in Sent /\ i \in Nat \ {0}
      BY <1>1, <2>1, <2>2, <2>3, PagesAreSent
    <3>2. QED
      BY <2>1, <3>1, SaveHolds
  <2>4. ASSUME NEW r \in DOMAIN Local.runs, NEW i \in DOMAIN Local.pages[r], NEW o \in Outcomes
        PROVE  LocalRecord(Local, r, i, o).answer = FirestoreRecord(Local, r, i, o).answer
    BY <2>1, RecordHolds
  <2>5. ASSUME NEW r \in DOMAIN Local.runs
        PROVE  LocalComplete(Local, r).answer = FirestoreComplete(Local, r).answer
    BY <2>1, CompleteHolds
  <2>6. QED
    BY <2>1, <2>3, <2>4, <2>5 DEF StoresAgree, SaveAgrees
<1>2. QED
  BY <1>1, Invariant, PTL

(* In both stores a run that moved the cursor has its pages up to the last, *)
(* each following on the one before, and an outcome for each.              *)
THEOREM AdvancesAreWhole == Spec => []AdvancedRunIsWhole
<1>1. ASSUME Inv PROVE AdvancedRunIsWhole
  <2>1. /\ LedgerInv(Local) /\ Firestore = Local /\ DOMAIN Local.runs = 1..Len(Local.runs)
        /\ \A r \in 1..Len(Local.runs) : DOMAIN Local.pages[r] = 1..Len(Local.pages[r])
    BY <1>1, Runs
  <2>2. \A s \in Stores : ledger[s] = Local
    BY <2>1 DEF Stores, Local, Firestore
  <2>3. ASSUME NEW r \in 1..Len(Local.runs), Local.runs[r].advanced
        PROVE  LET pages == Local.pages[r] IN
               /\ pages # <<>> /\ \A i \in DOMAIN pages : Last(pages[i]) <=> i = Len(pages)
               /\ \A i \in DOMAIN pages : Follows(pages, i, pages[i])
               /\ \A i \in DOMAIN pages :
                       pages[i].outcomes # None /\ pages[i].outcomes.ids = pages[i].items
    <3> DEFINE run == Local.runs[r]
               pages == Local.pages[r]
    <3>1. RunInv(run, pages) /\ pages \in Seq(Page) /\ run \in Run
      BY <2>1 DEF LedgerInv, Ledger
    <3>2. Whole(run)
      BY <2>3, <3>1 DEF RunInv
    <3>3. run.snapshot /\ Len(pages) # 0 /\ Cardinality(Done(pages)) = Len(pages)
      BY <3>1, <3>2 DEF RunInv, Whole
    <3>4. Done(pages) = 1..Len(pages)
      BY <3>1, <3>3, DoneCounts
    <3>5. \A i \in 1..Len(pages) : pages[i].outcomes # None
      BY <3>4 DEF Done
    <3>6. pages # <<>>
      BY <3>3
    <3>7. QED
      BY <2>1, <3>1, <3>3, <3>5, <3>6 DEF RunInv
  <2>4. QED
    BY <2>1, <2>2, <2>3 DEF AdvancedRunIsWhole
<1>2. QED
  BY <1>1, Invariant, PTL

(* In both stores the windows of the runs that moved the cursor lie end to  *)
(* end from the beginning to the cursor.                                   *)
THEOREM WindowsAlwaysTile == Spec => []WindowsTile
<1>1. ASSUME Inv PROVE WindowsTile
  <2>1. /\ LedgerInv(Local) /\ Firestore = Local /\ DOMAIN Local.runs = 1..Len(Local.runs)
    BY <1>1, Runs
  <2>2. \A s \in Stores : ledger[s] = Local
    BY <2>1 DEF Stores, Local, Firestore
  <2>3. QED
    BY SMTT(30), <2>1, <2>2 DEF WindowsTile, LedgerInv, Tiles, Moved
<1>2. QED
  BY <1>1, Invariant, PTL

=============================================================================
