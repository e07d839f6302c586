-------------------------- MODULE LocalMemory_proofs --------------------------
(***************************************************************************)
(* Proofs about LocalMemory for any number of memories, names, requests of *)
(* maintenance and deaths of the process: index and files agree, nothing   *)
(* that was acknowledged is lost, what was forgotten stays gone, what      *)
(* maintenance overwrites is kept, and a rename is followed everywhere.    *)
(***************************************************************************)
EXTENDS LocalMemory, WellFoundedInduction, TLAPS

-----------------------------------------------------------------------------
(* The inductive invariant.  First, one memory and its file.               *)

Mine(i) == {t \in Present : t.id = i}

(* A row as a transaction left it; only a link of the memory to itself may  *)
(* have been followed in the row alone.  The row of a stale memory tells   *)
(* no more than its name.                                                  *)
Matches(r, t) ==
    /\ r # None /\ r.name = t.name
    /\ \/ t.id \in stale
       \/ r.hash = t /\ (t.name \notin r.links => r.links = RowLinks(t))

Absent(i) == rows[i] = None /\ Mine(i) = {}

(* One file, which the index can hold and does hold; or neither file nor     *)
(* row, or the row that a creation taken back has left.                    *)
Fits(i, r, texts) ==
    \/ texts = {} /\ (r = None \/ i \in stale)
    \/ \E t \in texts : texts = {t} /\ Insertable(t) /\ Matches(r, t)

Settled(i) == Fits(i, rows[i], Mine(i))

(* A row never leads to the file of another memory, marred or not. *)
RowsLead == \A i \in Ids : HasFile(i) => FileOf(i).id = i

AllBorn ==
    /\ \A t \in Present : t.id \in born
    /\ \A i \in Ids : rows[i] # None \/ kept[i] > 0 => i \in born

(* NothingLost and ForgottenStaysGone, of one memory. *)
Safe(i) ==
    \/ i \in marred
    \/ /\ kept[i] > 0 => \E t \in Mine(i) : t.rev >= kept[i]
       /\ i \in gone => rows[i] = None /\ Mine(i) = {}

-----------------------------------------------------------------------------
(* What an operation has still before it, and what it has done.            *)

Steps == [none |-> {"done"},
          save |-> {"write", "commit", "undo"},
          update |-> {"write", "commit", "undo"},
          forget |-> {"unlink", "commit", "revisions"},
          rename |-> {"write", "commit", "unlink", "refs", "hash"},
          mutate |-> {"keep", "put", "commit", "rollback", "drop"}]

Places == 1..Len(job.changes)
Old(k) == job.changes[k].was
New(k) == job.changes[k].now

(* A memory is made, or the file of one is edited under its name.          *)
Makes(k) ==
    /\ Old(k) = None /\ New(k) \in Text
    /\ rows[New(k).id] # None => New(k).id \in stale /\ rows[New(k).id].name = New(k).name
    /\ \A i \in Ids \ {New(k).id} : rows[i] # None => rows[i].name # New(k).name
    /\ kept[New(k).id] = 0 /\ New(k).id \notin marred
    /\ job.kind = "save" \/ Insertable(New(k))

Edits(k) ==
    /\ Old(k) \in Text /\ New(k) \in Text
    /\ Old(k).id = New(k).id /\ Old(k).name = New(k).name /\ Old(k).rev < New(k).rev
    /\ \/ New(k).id \in marred
       \/ /\ rows[New(k).id] # None /\ rows[New(k).id].name = New(k).name
          /\ kept[New(k).id] <= Old(k).rev

(* Its file is as it was before the operation. *)
Untouched(k) ==
    /\ Old(k) = None =>
          /\ Mine(New(k).id) = {}
          /\ files[New(k).name] # None => job.kind = "save" /\ files[New(k).name].id \in marred
    /\ Old(k) # None =>
          /\ files[New(k).name] = Old(k)
          /\ New(k).id \in marred \/ Settled(New(k).id)

(* Its file is written, and its row is as it was. *)
Written(k) ==
    /\ files[New(k).name] = New(k)
    /\ New(k).id \in marred \/ Mine(New(k).id) = {New(k)}
    /\ Old(k) # None => \/ New(k).id \in marred
                        \/ Insertable(Old(k)) /\ Matches(rows[New(k).id], Old(k))

(* The changes an operation has made in the files. *)
IsWritten(k) ==
    \/ job.step \in {"commit", "undo"}
    \/ job.step \in {"keep", "put"} /\ k < job.at
    \/ job.step = "rollback" /\ k >= job.at

Changed(k) ==
    /\ Makes(k) \/ Edits(k)
    /\ New(k).id \in born /\ New(k).id \notin gone \ marred
    /\ IF IsWritten(k) THEN Written(k) ELSE Untouched(k)

Editing == job.kind \in {"save", "update", "mutate"}

EditInv ==
    /\ job.kind = "save" => Len(job.changes) = 1 /\ Old(1) = None
    /\ job.kind = "update" => Len(job.changes) = 1 /\ Old(1) # None
    /\ job.kind = "mutate" => job.at \in Places /\ job.op \in Ops
    /\ \A k \in Places : Changed(k)
    /\ \A k, l \in Places : k # l => New(k).id # New(l).id /\ New(k).name # New(l).name
    /\ \A i \in Ids \ marred : (\A k \in Places : New(k).id # i) => Settled(i)

(* What is overwritten is kept, and given up only when it is back.  A        *)
(* request that has a text to keep, or several parts, makes no memory.     *)
KeepInv ==
    /\ job.step = "keep" \/ Len(job.changes) > 1 => \A k \in Places : Old(k) # None
    /\ job.step = "put" => Old(job.at) \in bodies \union {None}
    /\ job.step = "commit" => job.at = 1
    /\ job.step = "rollback" => \A k \in Places : k < job.at => Old(k) \notin replaced
    /\ job.step = "drop" => \A k \in Places : Old(k) \notin replaced

ForgetInv ==
    /\ Len(job.changes) = 1 /\ Was \in Text /\ Was.id \in born
    /\ kept[Was.id] = 0
    /\ \A t \in job.keys : t.id = Was.id
    /\ \A i \in Ids \ marred : i # Was.id => Settled(i)
    /\ job.step = "unlink" => /\ files[Was.name] \in {Was, None}
                              /\ rows[Was.id] # None /\ rows[Was.id].name = Was.name
                              /\ Was.id \in marred \/ Settled(Was.id)
    /\ job.step # "unlink" => Was.id \in marred \/ Mine(Was.id) = {}
    /\ job.step = "revisions" => /\ rows[Was.id] = None
                                 /\ \A t \in replaced : t.id # Was.id

(* Another memory while the index has followed a rename, its file perhaps    *)
(* not yet; late is the file whose hash the index has still to learn.      *)
Follows(i, r, texts, old, new, late) ==
    \/ texts = {} /\ (r = None \/ i \in stale)
    \/ \E t \in texts :
        /\ texts = {t} /\ Insertable(t)
        /\ r # None /\ r.name = t.name
        /\ \/ i \in stale
           \/ /\ r.hash = t \/ late = t.name
              /\ t.name \notin r.links => r.links = Swap(RowLinks(t), old, new)

Late == IF job.step = "hash" THEN job.at ELSE 0

(* The renamed memory, before the commit and after it. *)
Renaming ==
    /\ files[Was.name] = Was
    /\ rows[Was.id].name = Was.name /\ ~HasRow(Now.name)
    /\ Was.id \in marred \/ (Insertable(Was) /\ Matches(rows[Was.id], Was))
    /\ \A i \in Ids \ marred : i # Was.id => Settled(i)

Renamed ==
    /\ rows[Was.id].name = Now.name
    /\ Was.id \in marred \/ (Insertable(Now) /\ Matches(rows[Was.id], Now))
    /\ \A i \in Ids : rows[i] # None => Was.name \notin rows[i].links
    /\ \A i \in Ids \ marred :
          i # Was.id => Follows(i, rows[i], Mine(i), Was.name, Now.name, Late)

RenameInv ==
    /\ Len(job.changes) = 1 /\ Was \in Text /\ Now \in Text
    /\ Was.id = Now.id /\ Was.name # Now.name /\ Was.links = Now.links
    /\ Was.doubled = Now.doubled /\ Was.status = Now.status /\ Was.rev < Now.rev
    /\ Was.id \in born /\ Was.id \notin gone \ marred
    /\ Was.id \in marred \/ kept[Was.id] <= Was.rev
    /\ rows[Was.id] # None
    /\ job.step \in {"write", "commit"} => Renaming
    /\ job.step \in {"unlink", "refs", "hash"} => Renamed
    /\ job.step = "write" =>
          /\ files[Now.name] # None => files[Now.name].id \in marred
          /\ Was.id \in marred \/ Mine(Was.id) = {Was}
    /\ job.step # "write" => files[Now.name] = Now
    /\ job.step \in {"commit", "unlink"} =>
          /\ files[Was.name] = Was
          /\ Was.id \in marred \/ Mine(Was.id) = {Was, Now}
    /\ job.step \in {"refs", "hash"} => Was.id \in marred \/ Mine(Was.id) = {Now}
    /\ job.step = "hash" => job.at \in Names \ {Now.name} /\ files[job.at] # None

IdleInv == job = Idle /\ \A i \in Ids \ marred : Settled(i)

JobInv ==
    /\ job.step \in Steps[job.kind]
    /\ job.kind = "none" => IdleInv
    /\ Editing => EditInv
    /\ job.kind = "mutate" => KeepInv
    /\ job.kind = "forget" => ForgetInv
    /\ job.kind = "rename" => RenameInv

LocalInv ==
    /\ TypeOK /\ RowsLead /\ AllBorn /\ OriginalsKept
    /\ \A i \in Ids : Safe(i)
    /\ JobInv

-----------------------------------------------------------------------------
(* Induction over the files.                                               *)

(* Nat is well-founded, said of sets. *)
LEMMA FromZero ==
    ASSUME NEW S, 0 \in S, \A n \in Nat : n \in S => n + 1 \in S
    PROVE  \A n \in Nat : n \in S
<1> DEFINE R == OpToRel(<, Nat)
           T == Nat \ S
<1>1. \A m, n \in Nat : <<m, n>> \notin R => ~(m < n)
  BY Zenon DEF OpToRel
<1>2. IsWellFoundedOn(R, Nat)
  BY Zenon, NatLessThanWellFounded
<1> HIDE DEF R
<1>3. ASSUME T # {} PROVE FALSE
  <2>1. PICK n \in T : \A m \in T : <<m, n>> \notin R
    BY <1>2, <1>3, WFMin
  <2>2. \A m \in T : ~(m < n)
    BY <1>1, <2>1
  <2>3. n \in Nat /\ n # 0 /\ n - 1 \in Nat /\ n - 1 \notin S
    BY <2>1
  <2>4. n - 1 \in T /\ n - 1 < n
    BY <2>3
  <2>5. QED
    BY <2>2, <2>4
<1>4. QED
  BY <1>3

(* What the scan has made of the rows after so many files. *)
ScanTo(k, before, f) ==
    f = [n \in 0..k |-> IF n = 0 THEN before
                        ELSE IF files[n] = None THEN f[n - 1]
                        ELSE Upserted(f[n - 1], files[n])]

LEMMA ScanExists ==
    ASSUME NEW before
    PROVE  \A k \in Nat : \E f : ScanTo(k, before, f)
<1> DEFINE S == {k \in Nat : \E f : ScanTo(k, before, f)}
<1>1. 0 \in S
  <2> DEFINE f == [n \in 0..0 |-> before]
  <2>1. ScanTo(0, before, f)
    BY DEF ScanTo
  <2>2. QED
    BY <2>1
<1>2. ASSUME NEW k \in Nat, k \in S PROVE k + 1 \in S
  <2>1. PICK g : ScanTo(k, before, g)
    BY <1>2
  <2> DEFINE h == [n \in 0..k + 1 |->
                     IF n <= k THEN g[n]
                     ELSE IF files[n] = None THEN g[k] ELSE Upserted(g[k], files[n])]
  <2>2. \A n \in 0..k : h[n] = g[n]
    OBVIOUS
  <2>3. h[k + 1] = IF files[k + 1] = None THEN g[k] ELSE Upserted(g[k], files[k + 1])
    OBVIOUS
  <2>4. \A n \in 0..k : g[n] = IF n = 0 THEN before
                               ELSE IF files[n] = None THEN g[n - 1]
                               ELSE Upserted(g[n - 1], files[n])
    BY <2>1 DEF ScanTo
  <2>5. \A n \in 0..k + 1 : h[n] = IF n = 0 THEN before
                                   ELSE IF files[n] = None THEN h[n - 1]
                                   ELSE Upserted(h[n - 1], files[n])
    <3> HIDE DEF h
    <3> TAKE n \in 0..k + 1
    <3>1. CASE n \in 0..k
      <4>1. n # 0 => n - 1 \in 0..k
        BY <3>1
      <4>2. QED
        BY <3>1, <4>1, <2>2, <2>4
    <3>2. CASE n = k + 1
      <4>1. n # 0 /\ n - 1 = k /\ k \in 0..k
        BY <3>2
      <4>2. QED
        BY <3>2, <4>1, <2>2, <2>3
    <3>3. QED
      BY <3>1, <3>2
  <2>6. ScanTo(k + 1, before, h)
    <3>1. h = [n \in 0..k + 1 |-> h[n]]
      OBVIOUS
    <3> HIDE DEF h
    <3>2. QED
      BY <2>5, <3>1 DEF ScanTo
  <2> HIDE DEF h
  <2>7. QED
    BY <2>6
<1>3. QED
  <2> HIDE DEF S
  <2>1. \A k \in Nat : k \in S
    BY <1>1, <1>2, FromZero
  <2>2. QED
    BY <2>1 DEF S

LEMMA ScannedIs ==
    ASSUME NEW before
    PROVE  \E f : ScanTo(LastName, before, f) /\ Scanned(before) = f[LastName]
<1> DEFINE f == CHOOSE f : ScanTo(LastName, before, f)
<1>1. ScanTo(LastName, before, f)
  BY ScanExists, BoundsAssumption
<1>2. Scanned(before) = f[LastName]
  BY DEF Scanned, ScanTo
<1> HIDE DEF f
<1>3. QED
  BY <1>1, <1>2

-----------------------------------------------------------------------------
(* What reconcile makes of the rows.                                       *)

FilesTyped ==
    /\ files \in [Names -> Text \union {None}]
    /\ \A n \in Names : files[n] # None => files[n].name = n

LEMMA TextFields ==
    ASSUME NEW t \in Text
    PROVE  /\ t.id \in Ids /\ t.name \in Names /\ t.links \subseteq Names
           /\ t.doubled \in BOOLEAN /\ t.status \in {"active", "archived"}
           /\ t.rev \in 1..MaxRev /\ t # None
  BY NoneAssumption DEF Text

LEMMA RowOfIs ==
    ASSUME NEW t \in Text
    PROVE  /\ RowOf(t) \in Row /\ RowOf(t) # None
           /\ RowOf(t).name = t.name /\ RowOf(t).hash = t /\ RowOf(t).links = RowLinks(t)
<1>1. RowLinks(t) \subseteq Names
  BY TextFields DEF RowLinks
<1>2. RowOf(t) \in Row
  BY <1>1, TextFields DEF RowOf, Row
<1>3. QED
  BY <1>2, NoneAssumption DEF RowOf

(* The text of a file names the file. *)
LEMMA PresentFiles ==
    ASSUME FilesTyped
    PROVE  /\ Present \subseteq Text
           /\ \A t \in Present : t \in Text /\ t.name \in Names /\ files[t.name] = t
           /\ \A n \in Names : files[n] # None =>
                files[n] \in Present /\ files[n] \in Text /\ files[n].name = n
  BY TextFields DEF FilesTyped, Present

(* The rows a scan starts from lead nowhere wrong. *)
Leads(before) ==
    /\ before \in [Ids -> Row \union {None}]
    /\ \A i \in Ids : before[i] # None /\ files[before[i].name] # None =>
          files[before[i].name].id = i

(* After some of the files a memory has the row of one of them that the      *)
(* index can hold, or the row it had when there is none.                   *)
ScannedSoFar(k, before, now) ==
    /\ now \in [Ids -> Row \union {None}]
    /\ \A i \in Ids :
          \/ \E n \in 1..k : /\ files[n] # None /\ files[n].id = i /\ Insertable(files[n])
                             /\ now[i] = RowOf(files[n])
          \/ /\ now[i] = before[i]
             /\ \A n \in 1..k : files[n] # None /\ files[n].id = i => ~Insertable(files[n])

(* No other memory's row is in the way of a file. *)
LEMMA NothingInTheWay ==
    ASSUME FilesTyped, NEW before, Leads(before), NEW k \in Nat, k + 1 <= LastName,
           NEW now, ScannedSoFar(k, before, now), files[k + 1] # None,
           NEW i \in Ids \ {files[k + 1].id}, now[i] # None
    PROVE  now[i].name # k + 1
<1>1. k + 1 \in Names
  BY BoundsAssumption DEF Names
<1>2. CASE now[i] = before[i]
  BY <1>1, <1>2 DEF Leads
<1>3. CASE \E n \in 1..k : files[n] # None /\ now[i] = RowOf(files[n])
  <2>1. PICK n \in 1..k : files[n] # None /\ now[i] = RowOf(files[n])
    BY <1>3
  <2>2. n \in Names /\ n # k + 1
    BY <1>1, BoundsAssumption DEF Names
  <2>3. now[i].name = n
    BY <2>1, <2>2, PresentFiles, RowOfIs
  <2>4. QED
    BY <2>2, <2>3
<1>4. QED
  BY <1>2, <1>3 DEF ScannedSoFar

LEMMA ScanOne ==
    ASSUME FilesTyped, NEW before, Leads(before), NEW k \in Nat, k + 1 <= LastName,
           NEW now, ScannedSoFar(k, before, now)
    PROVE  ScannedSoFar(k + 1, before,
                        IF files[k + 1] = None THEN now ELSE Upserted(now, files[k + 1]))
<1>1. k + 1 \in Names
  BY BoundsAssumption DEF Names
<1>2. 1..k + 1 = 1..k \union {k + 1}
  OBVIOUS
<1>3. CASE files[k + 1] = None
  BY <1>2, <1>3 DEF ScannedSoFar
<1>4. CASE files[k + 1] # None
  <2>1. PICK t \in Text : t = files[k + 1]
    BY <1>1, <1>4, PresentFiles
  <2>2. t.name = k + 1 /\ t.id \in Ids
    BY <1>1, <1>4, <2>1, PresentFiles, TextFields
  <2>3. CASE ~Insertable(t)
    <3>1. Upserted(now, t) = now
      BY <2>3 DEF Upserted
    <3>2. QED
      BY <1>2, <1>4, <2>1, <2>3, <3>1 DEF ScannedSoFar
  <2>4. CASE Insertable(t)
    <3>1. Upserted(now, t) = [now EXCEPT ![t.id] = RowOf(t)]
      BY <1>4, <2>1, <2>2, <2>4, NothingInTheWay DEF Upserted
    <3>2. /\ Upserted(now, t) \in [Ids -> Row \union {None}]
          /\ Upserted(now, t)[t.id] = RowOf(t)
          /\ \A i \in Ids \ {t.id} : Upserted(now, t)[i] = now[i]
      BY <2>2, <3>1, RowOfIs DEF ScannedSoFar
    <3>3. QED
      BY <1>2, <1>4, <2>1, <2>4, <3>2 DEF ScannedSoFar
  <2>5. QED
    BY <1>4, <2>1, <2>3, <2>4
<1>5. QED
  BY <1>3, <1>4

(* The scan: a memory with a file that the index can hold gets the row of   *)
(* such a file, every other keeps what it had.                             *)
LEMMA ScanResult ==
    ASSUME FilesTyped, NEW before, Leads(before)
    PROVE  /\ Scanned(before) \in [Ids -> Row \union {None}]
           /\ \A i \in Ids :
                \/ \E t \in Mine(i) : Insertable(t) /\ Scanned(before)[i] = RowOf(t)
                \/ /\ Scanned(before)[i] = before[i]
                   /\ \A t \in Mine(i) : ~Insertable(t)
<1>1. PICK f : ScanTo(LastName, before, f) /\ Scanned(before) = f[LastName]
  BY ScannedIs
<1>2. \A n \in 0..LastName : f[n] = IF n = 0 THEN before
                                    ELSE IF files[n] = None THEN f[n - 1]
                                    ELSE Upserted(f[n - 1], files[n])
  BY <1>1 DEF ScanTo
<1> DEFINE S == {k \in Nat : k <= LastName => ScannedSoFar(k, before, f[k])}
<1>3. 0 \in S
  <2>1. f[0] = before
    BY <1>2, BoundsAssumption
  <2>2. QED
    BY <2>1 DEF ScannedSoFar, Leads
<1>4. ASSUME NEW k \in Nat, k \in S PROVE k + 1 \in S
  <2>1. CASE k + 1 <= LastName
    <3>1. k + 1 \in 0..LastName /\ k + 1 # 0 /\ (k + 1) - 1 = k /\ k <= LastName
      BY <2>1, BoundsAssumption
    <3>2. f[k + 1] = IF files[k + 1] = None THEN f[k] ELSE Upserted(f[k], files[k + 1])
      BY <1>2, <3>1
    <3>3. ScannedSoFar(k, before, f[k])
      BY <1>4, <3>1
    <3>4. ScannedSoFar(k + 1, before, f[k + 1])
      BY <2>1, <3>2, <3>3, ScanOne
    <3>5. QED
      BY <3>4
  <2>2. QED
    BY <2>1
<1>5. LastName \in S
  <2> HIDE DEF S
  <2>1. QED
    BY <1>3, <1>4, FromZero, BoundsAssumption
<1>6. ScannedSoFar(LastName, before, Scanned(before))
  BY <1>1, <1>5, BoundsAssumption
<1>7. \A i \in Ids, n \in Names : files[n] # None /\ files[n].id = i => files[n] \in Mine(i)
  BY PresentFiles DEF Mine
<1>8. \A i \in Ids : \A t \in Mine(i) : t.name \in Names /\ files[t.name] = t /\ t.id = i /\ t # None
  BY PresentFiles, TextFields DEF Mine
<1>9. QED
  BY <1>6, <1>7, <1>8 DEF ScannedSoFar, Names

-----------------------------------------------------------------------------
(* Facts the steps share.                                                  *)

(* A list of texts the model's steps compare. *)
LEMMA Typed ==
    ASSUME TypeOK
    PROVE  /\ FilesTyped
           /\ rows \in [Ids -> Row \union {None}]
           /\ \A i \in Ids : rows[i] # None =>
                 rows[i] \in Row /\ rows[i].name \in Names /\ rows[i].links \subseteq Names
           /\ kept \in [Ids -> 0..MaxRev] /\ \A i \in Ids : kept[i] \in Nat
<1>1. FilesTyped
  BY DEF TypeOK, FilesTyped
<1>2. \A i \in Ids : kept[i] \in Nat
  BY BoundsAssumption DEF TypeOK
<1>3. \A r \in Row : r.name \in Names /\ r.links \subseteq Names
  BY DEF Row
<1>4. QED
  BY <1>1, <1>2, <1>3 DEF TypeOK

LEMMA Revisions ==
    ASSUME NEW t \in Text
    PROVE  t.rev \in Nat
  BY TextFields, BoundsAssumption

(* One file is replaced, by a text that names it or by nothing. *)
Puts(n, x) == files' = [files EXCEPT ![n] = x]

LEMMA OneFile ==
    ASSUME FilesTyped, NEW n \in Names, NEW x \in Text \union {None}, x # None => x.name = n,
           Puts(n, x)
    PROVE  /\ FilesTyped'
           /\ files'[n] = x /\ \A m \in Names \ {n} : files'[m] = files[m]
           /\ Present' = (Present \ {files[n]}) \union ({x} \ {None})
<1>1. files'[n] = x /\ \A m \in Names \ {n} : files'[m] = files[m]
  BY DEF FilesTyped, Puts
<1>2. FilesTyped'
  BY <1>1 DEF FilesTyped, Puts
<1>3. \A m \in Names \ {n} : files[m] # None => files[m] # files[n]
  BY TextFields DEF FilesTyped
<1>4. Present' = (Present \ {files[n]}) \union ({x} \ {None})
  BY <1>1, <1>3 DEF Present
<1>5. QED
  BY <1>1, <1>2, <1>4

LEMMA OneFileMine ==
    ASSUME FilesTyped, NEW n \in Names, NEW x \in Text \union {None}, x # None => x.name = n,
           Puts(n, x), NEW i \in Ids
    PROVE  Mine(i)' = (Mine(i) \ {files[n]}) \union (IF x # None /\ x.id = i THEN {x} ELSE {})
<1>1. Present' = (Present \ {files[n]}) \union ({x} \ {None})
  BY OneFile
<1>2. \A t : t \in Mine(i)' <=> t \in Present' /\ t.id = i
  BY DEF Mine
<1>3. \A t : t \in Mine(i) <=> t \in Present /\ t.id = i
  BY DEF Mine
<1>4. QED
  BY <1>1, <1>2, <1>3

(* The other memories do not notice. *)
LEMMA OthersFiles ==
    ASSUME FilesTyped, NEW n \in Names, NEW x \in Text \union {None}, x # None => x.name = n,
           Puts(n, x),
           NEW i \in Ids, files[n] # None => files[n].id # i, x # None => x.id # i
    PROVE  Mine(i)' = Mine(i)
<1>1. files[n] \notin Mine(i)
  BY PresentFiles, TextFields DEF Mine
<1>2. Mine(i)' = (Mine(i) \ {files[n]}) \union (IF x # None /\ x.id = i THEN {x} ELSE {})
  BY OneFileMine
<1>3. (IF x # None /\ x.id = i THEN {x} ELSE {}) = {}
  OBVIOUS
<1>4. QED
  BY <1>1, <1>2, <1>3

LEMMA MineIs ==
    ASSUME FilesTyped, NEW i \in Ids
    PROVE  /\ \A t \in Mine(i) : /\ t \in Text /\ t.id = i /\ t \in Present
                                 /\ t.name \in Names /\ files[t.name] = t
           /\ \A n \in Names : files[n] # None /\ files[n].id = i => files[n] \in Mine(i)
           /\ \A t \in Present : t.id = i => t \in Mine(i)
  BY PresentFiles DEF Mine

LEMMA SameFiles ==
    ASSUME files' = files
    PROVE  Present' = Present /\ \A i : Mine(i)' = Mine(i)
  BY DEF Present, Mine

(* A memory whose row and files stay is as it was. *)
LEMMA SettledStays ==
    ASSUME NEW i, rows'[i] = rows[i], Mine(i)' = Mine(i), i \in stale' <=> i \in stale
    PROVE  Settled(i)' <=> Settled(i)
<1>1. \A t \in Mine(i) : t.id = i
  BY DEF Mine
<1>2. QED
  BY <1>1 DEF Settled, Fits, Matches

LEMMA SettledThere ==
    ASSUME rows' = rows, files' = files, stale' = stale
    PROVE  \A i : Settled(i)' <=> Settled(i)
  BY SettledStays, SameFiles

LEMMA MatchesThere ==
    ASSUME rows' = rows, stale' = stale
    PROVE  \A i, t : Matches(rows[i], t)' <=> Matches(rows[i], t)
  BY DEF Matches

(* Which operations have which steps. *)
LEMMA JobIs ==
    ASSUME TypeOK, job.step \in Steps[job.kind]
    PROVE  /\ job.kind \in {"none", "save", "update", "forget", "rename", "mutate"}
           /\ job.kind = "none" => job.step = "done"
           /\ job.kind \in {"save", "update"} => job.step \in {"write", "commit", "undo"}
           /\ job.kind = "forget" => job.step \in {"unlink", "commit", "revisions"}
           /\ job.kind = "rename" => job.step \in {"write", "commit", "unlink", "refs", "hash"}
           /\ job.kind = "mutate" => job.step \in {"keep", "put", "commit", "rollback", "drop"}
           /\ Len(job.changes) \in Nat
           /\ \A k \in Places : Old(k) \in Text \union {None} /\ New(k) \in Text \union {None}
           /\ job.at \in Nat /\ job.keys \subseteq Text /\ job.op \in Ops \union {None}
<1>1. /\ job \in Job
      /\ job.changes \in Seq(Change)
  BY DEF TypeOK, Job
<1>2. \A k \in Places : job.changes[k] \in Change
  BY <1>1 DEF Places
<1>3. \A k \in Places : Old(k) \in Text \union {None} /\ New(k) \in Text \union {None}
  BY <1>2 DEF Change, Old, New
<1>4. QED
  BY <1>1, <1>3 DEF Job, Steps

LEMMA IdleIs ==
    /\ Idle \in Job /\ Idle.kind = "none" /\ Idle.step = "done"
    /\ Idle.step \in Steps[Idle.kind]
  BY DEF Idle, Job, Steps

LEMMA GotoIs ==
    ASSUME job \in Job, NEW step, Goto(step),
           step \in {"done", "write", "commit", "undo", "unlink", "refs", "hash", "revisions",
                     "keep", "put", "rollback", "drop"}
    PROVE  /\ job' \in Job /\ job'.step = step
           /\ job'.kind = job.kind /\ job'.changes = job.changes /\ job'.at = job.at
           /\ job'.op = job.op /\ job'.keys = job.keys
  BY DEF Goto, Job

LEMMA SameChanges ==
    ASSUME job'.changes = job.changes
    PROVE  /\ Places' = Places
           /\ \A k : Old(k)' = Old(k) /\ New(k)' = New(k)
           /\ Was' = Was /\ Now' = Now
           /\ Was = Old(1) /\ Now = New(1)
  BY DEF Places, Old, New, Was, Now

-----------------------------------------------------------------------------
(* Between operations, and how one starts.                                 *)

LEMMA Quiet ==
    ASSUME LocalInv, job = Idle
    PROVE  \A i \in Ids \ marred : Settled(i)
  BY IdleIs DEF LocalInv, JobInv, IdleInv

LEMMA SettledIs ==
    ASSUME FilesTyped, NEW i \in Ids, Settled(i), NEW n \in Names,
           files[n] # None, files[n].id = i
    PROVE  /\ Mine(i) = {files[n]} /\ Insertable(files[n])
           /\ Matches(rows[i], files[n]) /\ rows[i] # None /\ rows[i].name = n
<1>1. files[n] \in Mine(i)
  BY MineIs
<1>2. Mine(i) = {files[n]} /\ Insertable(files[n]) /\ Matches(rows[i], files[n])
  BY <1>1 DEF Settled, Fits
<1>3. QED
  BY <1>2 DEF Matches, FilesTyped

(* A file at a name the index does not know belongs to a marred memory. *)
LEMMA NoSquatter ==
    ASSUME LocalInv, job = Idle, NEW n \in Names, ~HasRow(n), files[n] # None
    PROVE  files[n].id \in marred
<1>1. FilesTyped
  BY Typed DEF LocalInv
<1>2. files[n] \in Text
  BY <1>1, PresentFiles
<1>3. files[n].id \in Ids
  BY <1>2, TextFields
<1>4. ASSUME files[n].id \notin marred PROVE FALSE
  <2>1. Settled(files[n].id)
    BY <1>3, <1>4, Quiet
  <2>2. rows[files[n].id] # None /\ rows[files[n].id].name = n
    BY <1>1, <1>3, <2>1, SettledIs
  <2>3. QED
    BY <1>3, <2>2 DEF HasRow
<1>5. QED
  BY <1>4

LEMMA Unborn ==
    ASSUME LocalInv, NEW i \in Ids, i \notin born
    PROVE  /\ rows[i] = None /\ Mine(i) = {} /\ kept[i] = 0
           /\ i \notin marred /\ i \notin gone
<1>1. TypeOK /\ AllBorn
  BY DEF LocalInv
<1>2. Mine(i) = {}
  BY <1>1 DEF AllBorn, Mine
<1>3. kept[i] \in Nat
  BY <1>1, Typed
<1>4. QED
  BY <1>1, <1>2, <1>3 DEF AllBorn, TypeOK

(* The file a row leads to. *)
LEMMA FileIs ==
    ASSUME LocalInv, NEW i \in Ids, HasFile(i)
    PROVE  /\ FileOf(i) \in Text /\ FileOf(i) \in Mine(i) /\ FileOf(i).id = i
           /\ FileOf(i).name = rows[i].name /\ FileOf(i).name \in Names
           /\ files[FileOf(i).name] = FileOf(i)
           /\ rows[i] # None /\ FileOf(i).rev \in Nat /\ i \in born
<1>1. FilesTyped /\ rows[i] # None /\ rows[i].name \in Names /\ files[rows[i].name] # None
  BY Typed DEF LocalInv, HasFile
<1>2. FileOf(i) \in Text /\ FileOf(i).name = rows[i].name /\ FileOf(i) = files[rows[i].name]
  BY <1>1, PresentFiles DEF FileOf
<1>3. FileOf(i).id = i
  BY DEF LocalInv, RowsLead
<1>4. FileOf(i) \in Mine(i)
  BY <1>1, <1>2, <1>3, MineIs
<1>5. i \in born
  BY <1>1 DEF LocalInv, AllBorn
<1>6. QED
  BY <1>1, <1>2, <1>3, <1>4, <1>5, Revisions

(* Of a memory with a file no forgetting was reported, and what was reported *)
(* of it is not later than the file.                                       *)
LEMMA FileIsSafe ==
    ASSUME LocalInv, job = Idle, NEW i \in Ids, HasFile(i)
    PROVE  /\ i \notin gone \ marred
           /\ i \in marred \/ (kept[i] <= FileOf(i).rev /\ Settled(i) /\ Mine(i) = {FileOf(i)})
<1>1. /\ FileOf(i) \in Mine(i) /\ FileOf(i).rev \in Nat /\ rows[i] # None
      /\ FileOf(i).name \in Names /\ files[FileOf(i).name] = FileOf(i) /\ FileOf(i).id = i
      /\ FileOf(i) \in Text
  BY FileIs
<1>2. Safe(i) /\ FilesTyped /\ kept[i] \in Nat
  BY Typed DEF LocalInv
<1>3. i \notin gone \ marred
  BY <1>1, <1>2 DEF Safe
<1>4. CASE i \notin marred
  <2>1. Settled(i)
    BY <1>4, Quiet
  <2>2. Mine(i) = {FileOf(i)}
    BY <1>1, <1>2, <2>1, SettledIs, TextFields
  <2>3. kept[i] <= FileOf(i).rev
    BY <1>1, <1>2, <1>4, <2>2 DEF Safe
  <2>4. QED
    BY <1>3, <2>1, <2>2, <2>3
<1>5. QED
  BY <1>3, <1>4

(* A change an operation may start with. *)
CanMake(c) ==
    /\ c.was = None /\ c.now \in Text
    /\ rows[c.now.id] = None /\ ~HasRow(c.now.name)
    /\ kept[c.now.id] = 0 /\ c.now.id \notin marred /\ c.now.id \notin gone
    /\ Mine(c.now.id) = {}
    /\ files[c.now.name] # None => files[c.now.name].id \in marred

CanEdit(c) ==
    /\ c.was \in Text /\ c.now \in Text
    /\ c.was.id = c.now.id /\ c.was.name = c.now.name /\ c.was.rev < c.now.rev
    /\ rows[c.now.id] # None /\ rows[c.now.id].name = c.now.name
    /\ files[c.now.name] = c.was
    /\ c.now.id \notin gone \ marred
    /\ c.now.id \in marred \/ (kept[c.now.id] <= c.was.rev /\ Settled(c.now.id))

LEMMA EditOk ==
    ASSUME LocalInv, job = Idle, NEW i \in Ids, HasFile(i), NEW u \in Text,
           u.id = i, u.name = FileOf(i).name, FileOf(i).rev < u.rev,
           NEW c, c = [was |-> FileOf(i), now |-> u]
    PROVE  c \in Change /\ CanEdit(c) /\ c.now.id \in born /\ c.was # None
  BY FileIs, FileIsSafe, TextFields DEF CanEdit, Change

LEMMA CreationOk ==
    ASSUME LocalInv, job = Idle, NEW i \in Ids, NEW n \in Names, NEW links \in LinkSets,
           NEW doubled \in BOOLEAN, i \notin born, ~HasRow(n),
           NEW c, c = Creation(i, n, links, doubled)
    PROVE  /\ c \in Change /\ CanMake(c) /\ c.now.id = i /\ c.now.name = n /\ c.was = None
           /\ ~doubled => Insertable(c.now)
<1>1. links \subseteq Names
  BY LinksAssumption DEF Names
<1>2. /\ c.now \in Text /\ c.now.id = i /\ c.now.name = n /\ c.was = None /\ c \in Change
      /\ ~doubled => ~c.now.doubled
  BY <1>1, BoundsAssumption DEF Creation, Text, Change
<1>3. QED
  BY <1>2, Unborn, NoSquatter DEF CanMake, Insertable

(* Nothing on disk changes when an operation starts. *)
LEMMA StartKeeps ==
    ASSUME LocalInv, UNCHANGED <<disk, restarts, gone, replaced, marred, stale>>,
           job' \in Job, born \subseteq born', born' \subseteq Ids,
           \A i \in Ids : kept'[i] = kept[i] \/ kept'[i] = 0, kept' \in [Ids -> 0..MaxRev]
    PROVE  /\ TypeOK' /\ RowsLead' /\ AllBorn' /\ OriginalsKept'
           /\ \A i \in Ids : Safe(i)'
<1>1. TypeOK'
  BY DEF LocalInv, TypeOK, disk
<1>2. RowsLead'
  BY DEF LocalInv, RowsLead, HasFile, FileOf, disk
<1>3. Present' = Present
  BY DEF Present, disk
<1>4. AllBorn'
  BY <1>3 DEF LocalInv, AllBorn, disk
<1>5. OriginalsKept'
  BY DEF LocalInv, OriginalsKept, disk
<1>6. ASSUME NEW i \in Ids PROVE Safe(i)'
  <2>1. Mine(i)' = Mine(i)
    BY SameFiles DEF disk
  <2>2. QED
    BY <2>1 DEF LocalInv, Safe, disk
<1>7. QED
  BY <1>1, <1>2, <1>4, <1>5, <1>6

LEMMA StartEdit ==
    ASSUME LocalInv, NEW kind \in {"save", "update", "mutate"}, NEW step, step \in Steps[kind],
           step \in {"write", "keep", "put"},
           NEW changes \in Seq(Change), NEW op \in Ops \union {None},
           Start(kind, step, changes, op),
           born \subseteq born', born' \subseteq Ids, kept' = kept,
           Len(changes) # 0,
           kind = "save" => Len(changes) = 1 /\ changes[1].was = None,
           kind = "update" => Len(changes) = 1 /\ changes[1].was # None,
           kind = "mutate" => op \in Ops,
           step = "keep" \/ Len(changes) > 1 => \A k \in 1..Len(changes) : changes[k].was # None,
           step = "put" => changes[1].was = None,
           \A k \in 1..Len(changes) : changes[k].was = None =>
              kind = "save" \/ (files[changes[k].now.name] = None /\ Insertable(changes[k].now)),
           \A k \in 1..Len(changes) : CanMake(changes[k]) \/ CanEdit(changes[k]),
           \A k \in 1..Len(changes) : changes[k].now.id \in born',
           \A k, l \in 1..Len(changes) : k # l => /\ changes[k].now.id # changes[l].now.id
                                                  /\ changes[k].now.name # changes[l].now.name
    PROVE  LocalInv'
<1>1. job = Idle /\ UNCHANGED <<disk, restarts, gone, replaced, marred, stale>>
  BY DEF Start
<1>2. /\ job'.kind = kind /\ job'.step = step /\ job'.changes = changes
      /\ job'.at = 1 /\ job'.op = op /\ job' \in Job
  BY DEF Start, Job, Steps
<1>3. Len(changes) \in Nat \ {0} /\ Places' = 1..Len(changes)
  BY <1>2 DEF Places
<1>4. /\ TypeOK' /\ RowsLead' /\ AllBorn' /\ OriginalsKept'
      /\ \A i \in Ids : Safe(i)'
  BY <1>1, <1>2, StartKeeps DEF LocalInv, TypeOK
<1>5. \A k \in 1..Len(changes) : Old(k)' = changes[k].was /\ New(k)' = changes[k].now
  BY <1>2 DEF Old, New
<1>6. Present' = Present
  BY <1>1 DEF Present, disk
<1>7. ASSUME NEW k \in 1..Len(changes) PROVE Changed(k)'
  <2>1. PICK c : c = changes[k]
    OBVIOUS
  <2>2. Old(k)' = c.was /\ New(k)' = c.now
    BY <1>5, <2>1
  <2>3. CanMake(c) \/ CanEdit(c)
    BY <2>1
  <2>4. c.now.id \in born' /\ c.now.id \notin gone \ marred
    BY <2>1, <2>3 DEF CanMake, CanEdit
  <2>5. ~IsWritten(k)'
    BY <1>2 DEF IsWritten
  <2>6. CASE CanMake(c)
    <3>1. /\ c.was = None
          /\ kind = "save" \/ (files[c.now.name] = None /\ Insertable(c.now))
      BY <2>1, <2>6 DEF CanMake
    <3>2. Makes(k)'
      BY <1>1, <1>2, <2>2, <2>6, <3>1 DEF CanMake, Makes, HasRow, disk
    <3>3. Mine(c.now.id)' = {} /\ (files[c.now.name] # None => files[c.now.name].id \in marred)
      BY <1>1, <1>6, <2>6 DEF CanMake, Mine, disk
    <3>4. Untouched(k)'
      BY <1>1, <1>2, <2>2, <3>1, <3>3 DEF Untouched, Mine, disk
    <3>5. QED
      BY <1>1, <2>2, <2>4, <2>5, <3>2, <3>4 DEF Changed
  <2>7. CASE CanEdit(c)
    <3>1. Edits(k)'
      BY <1>1, <2>2, <2>7 DEF CanEdit, Edits, disk
    <3>2. c.was # None
      BY <2>7, TextFields DEF CanEdit
    <3>3. c.now.id \in marred \/ Settled(c.now.id)'
      BY <1>1, <2>7, SettledThere DEF CanEdit, disk
    <3>4. files[c.now.name] = c.was
      BY <2>7 DEF CanEdit
    <3>5. Untouched(k)'
      BY <1>1, <2>2, <3>2, <3>3, <3>4 DEF Untouched, Settled, Mine, disk
    <3>6. QED
      BY <1>1, <2>2, <2>4, <2>5, <3>1, <3>5 DEF Changed
  <2>8. QED
    BY <2>3, <2>6, <2>7
<1>8. \A k, l \in Places' : k # l => New(k)'.id # New(l)'.id /\ New(k)'.name # New(l)'.name
  BY <1>3, <1>5
<1>9. ASSUME NEW i \in Ids \ marred' PROVE Settled(i)'
  <2>1. Settled(i)
    BY <1>1, Quiet
  <2>2. QED
    BY <1>1, <2>1, SettledThere DEF disk
<1>10. EditInv'
  BY <1>2, <1>3, <1>5, <1>7, <1>8, <1>9 DEF EditInv
<1>11. kind = "mutate" => KeepInv'
  <2>1. step \in {"keep", "put"} \/ kind # "mutate"
    BY DEF Steps
  <2>2. QED
    BY <1>2, <1>3, <1>5, <2>1 DEF KeepInv
<1>12. JobInv'
  BY <1>2, <1>10, <1>11 DEF JobInv, Editing
<1>13. QED
  BY <1>4, <1>12 DEF LocalInv

(* A request of one change. *)
LEMMA StartOne ==
    ASSUME LocalInv, NEW kind \in {"save", "update", "mutate"}, NEW step, step \in Steps[kind],
           step \in {"write", "keep", "put"},
           NEW c \in Change, NEW op \in Ops \union {None},
           Start(kind, step, <<c>>, op),
           born \subseteq born', born' \subseteq Ids, kept' = kept,
           kind = "save" => c.was = None,
           kind = "update" => c.was # None,
           kind = "mutate" => op \in Ops,
           step = "keep" => c.was # None,
           step = "put" => c.was = None,
           c.was = None => kind = "save" \/ (files[c.now.name] = None /\ Insertable(c.now)),
           CanMake(c) \/ CanEdit(c),
           c.now.id \in born'
    PROVE  LocalInv'
<1> DEFINE changes == <<c>>
<1>1. changes \in Seq(Change) /\ Len(changes) = 1 /\ changes[1] = c
  OBVIOUS
<1>2. Start(kind, step, changes, op)
  OBVIOUS
<1> HIDE DEF changes
<1>3. \A k \in 1..Len(changes) : k = 1 /\ changes[k] = c
  BY <1>1
<1>4. \A k, l \in 1..Len(changes) : k = l
  BY <1>3
<1>5. Len(changes) # 0 /\ ~(Len(changes) > 1)
  BY <1>1
<1>6. QED
  BY <1>1, <1>2, <1>3, <1>4, <1>5, StartEdit

LEMMA Born ==
    ASSUME LocalInv
    PROVE  born \subseteq Ids /\ \A i \in Ids : born \subseteq born \union {i}
  BY DEF LocalInv, TypeOK

LEMMA SaveKeeps ==
    ASSUME LocalInv, NEW i \in Ids, NEW n \in Names, NEW links \in LinkSets,
           NEW doubled \in BOOLEAN, Save(i, n, links, doubled)
    PROVE  LocalInv'
<1>1. PICK c : c = Creation(i, n, links, doubled)
  OBVIOUS
<1>2. /\ Start("save", "write", <<c>>, None) /\ i \notin born /\ ~HasRow(n)
      /\ born' = born \union {i} /\ kept' = kept
  BY <1>1 DEF Save
<1>3. job = Idle
  BY <1>2 DEF Start
<1>4. c \in Change /\ CanMake(c) /\ c.now.id = i /\ c.was = None
  BY <1>1, <1>2, <1>3, CreationOk
<1>5. "write" \in Steps["save"]
  BY DEF Steps
<1>6. QED
  BY <1>2, <1>4, <1>5, StartOne, Born

LEMMA EditedIs ==
    ASSUME NEW t \in Text, NEW u \in Edited(t)
    PROVE  u \in Text /\ u.id = t.id /\ u.name = t.name /\ t.rev < u.rev
<1> DEFINE again == [t EXCEPT !.rev = @ + 1]
<1>1. t.rev # MaxRev
  BY DEF Edited
<1>2. again \in Text /\ again.id = t.id /\ again.name = t.name /\ t.rev < again.rev
  <2>1. t.rev + 1 \in 1..MaxRev /\ t.rev < t.rev + 1
    BY <1>1, TextFields, BoundsAssumption
  <2>2. QED
    BY <2>1 DEF Text
<1>3. \/ u = again
      \/ \E l \in LinkSets, d \in BOOLEAN : u = [again EXCEPT !.links = l, !.doubled = d]
  BY <1>1 DEF Edited
<1>4. ASSUME NEW l \in LinkSets, NEW d \in BOOLEAN,
             u = [again EXCEPT !.links = l, !.doubled = d]
      PROVE  u \in Text /\ u.id = t.id /\ u.name = t.name /\ t.rev < u.rev
  <2>1. l \subseteq Names
    BY LinksAssumption DEF Names
  <2> HIDE DEF again
  <2>2. QED
    BY <1>2, <1>4, <2>1 DEF Text
<1>5. QED
  <2> HIDE DEF again
  <2>1. QED
    BY <1>2, <1>3, <1>4

LEMMA UpdateKeeps ==
    ASSUME LocalInv, NEW i \in Ids, HasFile(i), NEW u \in Text,
           u.id = i, u.name = FileOf(i).name, FileOf(i).rev < u.rev, Update(i, u)
    PROVE  LocalInv'
<1>1. PICK c : c = [was |-> FileOf(i), now |-> u]
  OBVIOUS
<1>2. Start("update", "write", <<c>>, None) /\ born' = born /\ kept' = kept
  BY <1>1 DEF Update
<1>3. job = Idle
  BY <1>2 DEF Start
<1>4. c \in Change /\ CanEdit(c) /\ c.now.id \in born /\ c.was # None
  BY <1>1, <1>3, EditOk
<1>5. "write" \in Steps["update"]
  BY DEF Steps
<1>6. QED
  BY <1>2, <1>4, <1>5, StartOne, Born

LEMMA EditKeeps ==
    ASSUME LocalInv, NEW i \in Ids, Edit(i)
    PROVE  LocalInv'
<1>1. HasFile(i)
  BY DEF Edit
<1>2. PICK u \in Edited(FileOf(i)) : Update(i, u)
  BY DEF Edit
<1>3. u \in Text /\ u.id = i /\ u.name = FileOf(i).name /\ FileOf(i).rev < u.rev
  BY <1>1, FileIs, EditedIs
<1>4. QED
  BY <1>1, <1>2, <1>3, UpdateKeeps

LEMMA LinkMemoriesKeeps ==
    ASSUME LocalInv, NEW i \in Ids, NEW n \in Names, LinkMemories(i, n)
    PROVE  LocalInv'
<1>1. HasFile(i) /\ FileOf(i).rev < MaxRev
  BY DEF LinkMemories
<1>2. PICK t \in Text : t = FileOf(i) /\ t.id = i
  BY <1>1, FileIs
<1>3. PICK u : u = [t EXCEPT !.links = @ \union {n}, !.rev = @ + 1]
  OBVIOUS
<1>4. t.rev + 1 \in 1..MaxRev /\ t.rev < t.rev + 1
  BY <1>1, <1>2, TextFields, BoundsAssumption
<1>5. u \in Text /\ u.id = t.id /\ u.name = t.name /\ t.rev < u.rev
  BY <1>3, <1>4 DEF Text
<1>6. Update(i, u)
  BY <1>2, <1>3 DEF LinkMemories
<1>7. QED
  BY <1>1, <1>2, <1>5, <1>6, UpdateKeeps

LEMMA ArchivedIs ==
    ASSUME NEW t \in Text, t.rev < MaxRev
    PROVE  /\ Archived(t) \in Text /\ Archived(t).id = t.id /\ Archived(t).name = t.name
           /\ t.rev < Archived(t).rev
<1>1. t.rev + 1 \in 1..MaxRev /\ t.rev < t.rev + 1
  BY TextFields, BoundsAssumption
<1>2. QED
  BY <1>1 DEF Text, Archived

(* A text a restore writes. *)
LEMMA RestoredIs ==
    ASSUME LocalInv, NEW i \in Ids, HasFile(i), FileOf(i).rev < MaxRev, NEW u \in Restored(i)
    PROVE  u \in Text /\ u.id = i /\ u.name = FileOf(i).name /\ FileOf(i).rev < u.rev
<1>1. PICK t \in revs :
          /\ t.id = i
          /\ u = [t EXCEPT !.name = FileOf(i).name, !.status = "active", !.rev = FileOf(i).rev + 1]
  BY DEF Restored
<1>2. t \in Text
  BY DEF LocalInv, TypeOK
<1>3. /\ FileOf(i).name \in Names /\ FileOf(i).rev + 1 \in 1..MaxRev
      /\ FileOf(i).rev < FileOf(i).rev + 1
  BY <1>1, FileIs, TextFields, BoundsAssumption
<1>4. QED
  BY <1>1, <1>2, <1>3 DEF Text

LEMMA MutateOneKeeps ==
    ASSUME LocalInv, NEW op \in Ops, NEW i \in Ids, MutateOne(op, i)
    PROVE  LocalInv'
<1>1. HasFile(i) /\ FileOf(i).rev < MaxRev /\ born' = born /\ kept' = kept
  BY DEF MutateOne, Current
<1>2. PICK u \in Edited(FileOf(i)) \union Restored(i) \union {Archived(FileOf(i))} :
             Start("mutate", "keep", <<[was |-> FileOf(i), now |-> u]>>, op)
  BY DEF MutateOne
<1>3. u \in Text /\ u.id = i /\ u.name = FileOf(i).name /\ FileOf(i).rev < u.rev
  BY <1>1, <1>2, FileIs, EditedIs, RestoredIs, ArchivedIs
<1>4. PICK c : c = [was |-> FileOf(i), now |-> u]
  OBVIOUS
<1>5. Start("mutate", "keep", <<c>>, op) /\ job = Idle
  BY <1>2, <1>4 DEF Start
<1>6. c \in Change /\ CanEdit(c) /\ c.now.id \in born /\ c.was # None
  BY <1>1, <1>3, <1>4, <1>5, EditOk
<1>7. "keep" \in Steps["mutate"]
  BY DEF Steps
<1>8. QED
  BY <1>1, <1>5, <1>6, <1>7, StartOne, Born

LEMMA CreateKeeps ==
    ASSUME LocalInv, NEW op \in Ops, NEW i \in Ids, NEW n \in Names, NEW links \in LinkSets,
           Create(op, i, n, links)
    PROVE  LocalInv'
<1>0. PICK no \in BOOLEAN : no = FALSE
  OBVIOUS
<1>1. PICK c : c = Creation(i, n, links, no)
  OBVIOUS
<1>2. /\ Start("mutate", "put", <<c>>, op) /\ i \notin born /\ ~HasRow(n)
      /\ born' = born \union {i} /\ kept' = kept /\ files[n] = None
  BY <1>0, <1>1 DEF Create
<1>3. job = Idle
  BY <1>2 DEF Start
<1>4. /\ c \in Change /\ CanMake(c) /\ c.now.id = i /\ c.now.name = n /\ c.was = None
      /\ Insertable(c.now)
  BY <1>0, <1>1, <1>2, <1>3, CreationOk
<1>5. "put" \in Steps["mutate"]
  BY DEF Steps
<1>6. QED
  BY <1>2, <1>4, <1>5, StartOne, Born

LEMMA MergeKeeps ==
    ASSUME LocalInv, NEW op \in Ops, NEW i \in Ids, NEW j \in Ids, Merge(op, i, j)
    PROVE  LocalInv'
<1>1. /\ i # j /\ HasFile(i) /\ HasFile(j) /\ FileOf(j).rev < MaxRev
      /\ born' = born /\ kept' = kept
  BY DEF Merge, Current
<1>2. PICK u \in Edited(FileOf(i)) :
          Start("mutate", "keep",
                <<[was |-> FileOf(i), now |-> u],
                  [was |-> FileOf(j), now |-> Archived(FileOf(j))]>>, op)
  BY DEF Merge
<1>3. u \in Text /\ u.id = i /\ u.name = FileOf(i).name /\ FileOf(i).rev < u.rev
  BY <1>1, FileIs, EditedIs
<1>4. PICK t \in Text : t = FileOf(j) /\ t.id = j
  BY <1>1, FileIs
<1>5. PICK v : v = Archived(t)
  OBVIOUS
<1>6. v \in Text /\ v.id = j /\ v.name = FileOf(j).name /\ FileOf(j).rev < v.rev
  BY <1>1, <1>4, <1>5, ArchivedIs
<1>7. PICK c, d : c = [was |-> FileOf(i), now |-> u] /\ d = [was |-> FileOf(j), now |-> v]
  OBVIOUS
<1>8. Start("mutate", "keep", <<c, d>>, op) /\ job = Idle
  BY <1>2, <1>4, <1>5, <1>7 DEF Start
<1>9. c \in Change /\ CanEdit(c) /\ c.now.id \in born /\ c.was # None /\ c.now = u
  BY <1>1, <1>3, <1>7, <1>8, EditOk
<1>10. d \in Change /\ CanEdit(d) /\ d.now.id \in born /\ d.was # None /\ d.now = v
  BY <1>1, <1>6, <1>7, <1>8, EditOk
<1>11. u.id # v.id /\ u.name # v.name
  <2>1. FileOf(i).id = i /\ files[FileOf(i).name] = FileOf(i)
    BY <1>1, FileIs
  <2>2. FileOf(j).id = j /\ files[FileOf(j).name] = FileOf(j)
    BY <1>1, FileIs
  <2>3. QED
    BY <1>1, <1>3, <1>6, <2>1, <2>2
<1> DEFINE changes == <<c, d>>
<1>12. /\ changes \in Seq(Change) /\ Len(changes) = 2
       /\ changes[1] = c /\ changes[2] = d
  BY <1>9, <1>10
<1>13. Start("mutate", "keep", changes, op)
  BY <1>8
<1> HIDE DEF changes
<1>14. \A k \in 1..Len(changes) : (k = 1 /\ changes[k] = c) \/ (k = 2 /\ changes[k] = d)
  BY <1>12
<1>15. /\ \A k \in 1..Len(changes) : changes[k].was # None /\ CanEdit(changes[k])
       /\ \A k \in 1..Len(changes) : changes[k].now.id \in born
  BY <1>9, <1>10, <1>14
<1>16. \A k, l \in 1..Len(changes) : k # l => /\ changes[k].now.id # changes[l].now.id
                                              /\ changes[k].now.name # changes[l].now.name
  BY <1>9, <1>10, <1>11, <1>14
<1>17. Len(changes) # 0 /\ changes[1].was # None /\ "keep" \in Steps["mutate"]
  BY <1>9, <1>12 DEF Steps
<1>18. QED
  BY <1>1, <1>12, <1>13, <1>15, <1>16, <1>17, StartEdit, Born

(* What there is to forget of a memory. *)
LEMMA LeftoverIs ==
    ASSUME LocalInv, NEW i \in Ids, rows[i] # None
    PROVE  /\ Leftover(i) \in Text /\ Leftover(i).id = i /\ Leftover(i).name \in Names
           /\ Leftover(i).name = rows[i].name
           /\ files[Leftover(i).name] \in {Leftover(i), None} /\ i \in born
<1>1. i \in born
  BY DEF LocalInv, AllBorn
<1>2. CASE HasFile(i)
  BY <1>1, <1>2, FileIs DEF Leftover
<1>3. CASE ~HasFile(i)
  <2>1. rows[i] \in Row /\ rows[i].name \in Names /\ files[rows[i].name] = None
    BY <1>3, Typed DEF LocalInv, HasFile
  <2>2. PICK h \in Text : h = rows[i].hash
    BY <2>1 DEF Row
  <2>3. PICK n \in Names : n = rows[i].name
    BY <2>1
  <2>4. Leftover(i) = [h EXCEPT !.id = i, !.name = n]
    BY <1>3, <2>2, <2>3 DEF Leftover
  <2>5. Leftover(i) \in Text /\ Leftover(i).id = i /\ Leftover(i).name = n
    BY <2>4 DEF Text
  <2>6. QED
    BY <1>1, <2>1, <2>3, <2>5
<1>4. QED
  BY <1>2, <1>3

LEMMA ForgetKeeps ==
    ASSUME LocalInv, NEW i \in Ids, Forget(i)
    PROVE  LocalInv'
<1>1. /\ rows[i] # None /\ job = Idle
      /\ job' = [Idle EXCEPT !.kind = "forget", !.step = "unlink",
                             !.changes = <<[was |-> Leftover(i), now |-> None]>>,
                             !.keys = {t \in revs : t.id = i}]
      /\ kept' = [kept EXCEPT ![i] = 0] /\ born' = born
      /\ UNCHANGED <<disk, restarts, gone, replaced, marred, stale>>
  BY DEF Forget
<1>2. PICK w \in Text : /\ w = Leftover(i) /\ w.id = i /\ w.name \in Names
                        /\ w.name = rows[i].name /\ files[w.name] \in {w, None} /\ i \in born
  BY <1>1, LeftoverIs
<1>3. PICK c : c = [was |-> w, now |-> None]
  OBVIOUS
<1>4. PICK keys : keys = {t \in revs : t.id = i}
  OBVIOUS
<1>5. c \in Change /\ c.was = w /\ keys \subseteq Text /\ \A t \in keys : t.id = i
  BY <1>2, <1>3, <1>4 DEF Change, LocalInv, TypeOK
<1>6. /\ job'.kind = "forget" /\ job'.step = "unlink" /\ job'.changes = <<c>>
      /\ job'.keys = keys /\ job' \in Job
  <2>1. job' = [Idle EXCEPT !.kind = "forget", !.step = "unlink", !.changes = <<c>>, !.keys = keys]
    BY <1>1, <1>2, <1>3, <1>4
  <2>2. job' = [kind |-> "forget", step |-> "unlink", changes |-> <<c>>, at |-> 1,
                op |-> None, keys |-> keys]
    BY <2>1 DEF Idle
  <2>3. <<c>> \in Seq(Change)
    BY <1>5
  <2>4. QED
    BY <1>5, <2>2, <2>3 DEF Job
<1>7. Was' = w /\ Len(job'.changes) = 1
  BY <1>5, <1>6 DEF Was
<1>8. TypeOK
  BY DEF LocalInv
<1>9. kept' \in [Ids -> 0..MaxRev] /\ kept'[i] = 0 /\ \A j \in Ids : kept'[j] \in {0, kept[j]}
  BY <1>1, <1>8, BoundsAssumption DEF TypeOK
<1>10. /\ TypeOK' /\ RowsLead' /\ AllBorn' /\ OriginalsKept'
       /\ \A j \in Ids : Safe(j)'
  BY <1>1, <1>6, <1>8, <1>9, StartKeeps, Born
<1>11. ASSUME NEW j \in Ids \ marred' PROVE Settled(j)'
  <2>1. Settled(j)
    BY <1>1, Quiet
  <2>2. QED
    BY <1>1, <2>1, SettledThere DEF disk
<1>12. w.id \notin marred' => Settled(w.id)'
  BY <1>2, <1>11
<1>13. ForgetInv'
  <2>1. (w.id \in marred \/ Settled(w.id))'
    BY <1>12
  <2>2. (Was.id \in marred \/ Settled(Was.id))'
    BY <1>7, <2>1 DEF Settled, Mine
  <2>3. QED
    BY <1>1, <1>2, <1>5, <1>6, <1>7, <1>9, <1>11, <2>2 DEF ForgetInv, disk
<1>14. JobInv'
  BY <1>6, <1>13 DEF JobInv, Editing, Steps
<1>15. QED
  BY <1>10, <1>14 DEF LocalInv

LEMMA RenameKeeps ==
    ASSUME LocalInv, NEW i \in Ids, NEW n \in Names, Rename(i, n)
    PROVE  LocalInv'
<1>1. /\ HasFile(i) /\ ~HasRow(n) /\ FileOf(i).rev < MaxRev
      /\ Start("rename", "write",
               <<[was |-> FileOf(i), now |-> [FileOf(i) EXCEPT !.name = n, !.rev = @ + 1]]>>, None)
      /\ born' = born /\ kept' = kept
  BY DEF Rename
<1>2. PICK w \in Text : /\ w = FileOf(i) /\ w.id = i /\ w.name \in Names /\ w.name = rows[i].name
                        /\ files[w.name] = w /\ i \in born /\ rows[i] # None
  BY <1>1, FileIs
<1>3. PICK v : v = [w EXCEPT !.name = n, !.rev = @ + 1]
  OBVIOUS
<1>4. /\ v \in Text /\ v.id = i /\ v.name = n /\ w.rev < v.rev
      /\ v.links = w.links /\ v.doubled = w.doubled /\ v.status = w.status
  <2>1. w.rev + 1 \in 1..MaxRev /\ w.rev < w.rev + 1
    BY <1>1, <1>2, TextFields, BoundsAssumption
  <2>2. QED
    BY <1>2, <1>3, <2>1 DEF Text
<1>5. PICK c : c = [was |-> w, now |-> v]
  OBVIOUS
<1>6. c \in Change /\ c.was = w /\ c.now = v
  BY <1>4, <1>5 DEF Change
<1>7. Start("rename", "write", <<c>>, None)
  BY <1>1, <1>2, <1>3, <1>5
<1>8. job = Idle /\ UNCHANGED <<disk, restarts, gone, replaced, marred, stale>>
  BY <1>7 DEF Start
<1>9. /\ job'.kind = "rename" /\ job'.step = "write" /\ job'.changes = <<c>> /\ job' \in Job
  BY <1>6, <1>7 DEF Start, Job
<1>10. Was' = w /\ Now' = v /\ Len(job'.changes) = 1
  BY <1>6, <1>9 DEF Was, Now
<1>11. TypeOK
  BY DEF LocalInv
<1>12. /\ TypeOK' /\ RowsLead' /\ AllBorn' /\ OriginalsKept'
       /\ \A j \in Ids : Safe(j)'
  BY <1>1, <1>8, <1>9, <1>11, StartKeeps, Born DEF TypeOK
<1>13. w.name # n
  BY <1>1, <1>2 DEF HasRow
<1>14. ASSUME NEW j \in Ids \ marred' PROVE Settled(j)'
  <2>1. Settled(j)
    BY <1>8, Quiet
  <2>2. QED
    BY <1>8, <2>1, SettledThere DEF disk
<1>15. i \notin gone \ marred /\ (i \in marred \/ (kept[i] <= w.rev /\ Settled(i) /\ Mine(i) = {w}))
  BY <1>1, <1>2, <1>8, FileIsSafe
<1>16. i \in marred \/ (Insertable(w) /\ Matches(rows[i], w))
  BY <1>15, <1>2, <1>11, Typed, SettledIs, TextFields
<1>17. files[n] # None => files[n].id \in marred
  BY <1>1, <1>8, NoSquatter
<1>18. Renaming'
  <2>1. (w.id \in marred \/ (Insertable(w) /\ Matches(rows[w.id], w)))'
    BY <1>2, <1>8, <1>16, MatchesThere DEF disk
  <2>2. /\ files'[w.name] = w /\ rows'[w.id].name = w.name
        /\ (~HasRow(v.name))'
    BY <1>1, <1>2, <1>4, <1>8 DEF HasRow, disk
  <2>3. QED
    BY <1>10, <1>14, <2>1, <2>2 DEF Renaming
<1>19. (Was.id \in marred \/ Mine(Was.id) = {Was})'
  <2>1. Present' = Present
    BY <1>8 DEF Present, disk
  <2>2. QED
    BY <1>2, <1>8, <1>10, <1>15, <2>1 DEF Mine
<1>20. RenameInv'
  BY <1>1, <1>2, <1>4, <1>8, <1>9, <1>10, <1>13, <1>15, <1>17, <1>18, <1>19 DEF RenameInv, disk
<1>21. JobInv'
  BY <1>9, <1>20 DEF JobInv, Editing, Steps
<1>22. QED
  BY <1>12, <1>21 DEF LocalInv

-----------------------------------------------------------------------------
(* A file of an edit is written, or put back.                              *)

LEMMA ChangeIs ==
    ASSUME LocalInv, EditInv, NEW k \in Places
    PROVE  /\ Changed(k)
           /\ New(k) \in Text /\ New(k).id \in Ids /\ New(k).name \in Names
           /\ Old(k) \in Text \union {None} /\ New(k) # None
           /\ Old(k) # None => /\ Old(k) \in Text /\ Old(k).id = New(k).id
                               /\ Old(k).name = New(k).name
           /\ Old(k) = None => Makes(k)
           /\ Old(k) # None => Edits(k)
<1>1. Changed(k) /\ (Makes(k) \/ Edits(k))
  BY DEF EditInv, Changed
<1>2. New(k) \in Text
  BY <1>1 DEF Makes, Edits
<1>3. \A t \in Text : t # None
  BY TextFields
<1>4. QED
  BY <1>1, <1>2, <1>3, TextFields DEF Makes, Edits

(* What is at the place of a change, and whose rows lead there. *)
LEMMA PlaceOf ==
    ASSUME LocalInv, EditInv, NEW k \in Places
    PROVE  /\ files[New(k).name] # None =>
                 files[New(k).name].id = New(k).id \/ files[New(k).name].id \in marred
           /\ New(k).id \notin marred => Mine(New(k).id) \subseteq {files[New(k).name]}
           /\ \A i \in Ids : rows[i] # None /\ rows[i].name = New(k).name => i = New(k).id
<1>1. PICK a, b : a = Old(k) /\ b = New(k)
  OBVIOUS
<1>2. /\ b \in Text /\ b.id \in Ids /\ b.name \in Names /\ b # None
      /\ a # None => a \in Text /\ a.id = b.id /\ a.name = b.name
      /\ a = None => Makes(k)
      /\ a # None => Edits(k)
      /\ Written(k) \/ Untouched(k)
  BY <1>1, ChangeIs DEF Changed
<1>3. FilesTyped /\ RowsLead
  BY Typed DEF LocalInv
<1>4. CASE Written(k)
  <2>1. files[b.name] = b /\ (b.id \in marred \/ Mine(b.id) = {b})
    BY <1>1, <1>4 DEF Written
  <2>2. \A i \in Ids : rows[i] # None /\ rows[i].name = b.name => i = b.id
    BY <1>2, <1>3, <2>1 DEF RowsLead, HasFile, FileOf
  <2>3. QED
    BY <1>1, <2>1, <2>2
<1>5. CASE Untouched(k) /\ a # None
  <2>1. files[b.name] = a /\ (b.id \in marred \/ Settled(b.id))
    BY <1>1, <1>5 DEF Untouched
  <2>2. \A i \in Ids : rows[i] # None /\ rows[i].name = b.name => i = b.id
    BY <1>2, <1>3, <1>5, <2>1 DEF RowsLead, HasFile, FileOf
  <2>3. b.id \notin marred => Mine(b.id) = {a}
    BY <1>2, <1>3, <1>5, <2>1, SettledIs
  <2>4. QED
    BY <1>1, <1>2, <1>5, <2>1, <2>2, <2>3
<1>6. CASE Untouched(k) /\ a = None
  <2>1. Mine(b.id) = {} /\ (files[b.name] # None => files[b.name].id \in marred)
    BY <1>1, <1>6 DEF Untouched
  <2>2. \A i \in Ids : rows[i] # None /\ rows[i].name = b.name => i = b.id
    BY <1>1, <1>2, <1>6 DEF Makes
  <2>3. QED
    BY <1>1, <2>1, <2>2
<1>7. QED
  BY <1>2, <1>4, <1>5, <1>6

LEMMA ReplaceFile ==
    ASSUME LocalInv, EditInv, NEW k \in Places, NEW x \in {Old(k), New(k)},
           Puts(New(k).name, x),
           UNCHANGED <<rows, kept, gone, born, marred, stale>>
    PROVE  /\ FilesTyped' /\ RowsLead' /\ AllBorn'
           /\ \A i \in Ids : Safe(i)'
           /\ files'[New(k).name] = x
           /\ \A m \in Names : m # New(k).name => files'[m] = files[m]
<1>1. PICK a, b : a = Old(k) /\ b = New(k)
  OBVIOUS
<1>2. /\ b \in Text /\ b.id \in Ids /\ b.name \in Names /\ b # None
      /\ a # None => a \in Text /\ a.id = b.id /\ a.name = b.name
      /\ a = None => Makes(k)
      /\ a # None => Edits(k)
      /\ b.id \in born /\ b.id \notin gone \ marred
  BY <1>1, ChangeIs DEF Changed
<1>3. TypeOK /\ FilesTyped /\ RowsLead /\ AllBorn
  BY Typed DEF LocalInv
<1>4. x \in Text \union {None} /\ (x # None => x.name = b.name /\ x.id = b.id)
  BY <1>1, <1>2
<1>5. PICK n \in Names : n = b.name /\ Puts(n, x)
  BY <1>1, <1>2
<1>6. /\ FilesTyped' /\ files'[b.name] = x /\ \A m \in Names \ {b.name} : files'[m] = files[m]
      /\ Present' = (Present \ {files[b.name]}) \union ({x} \ {None})
  BY <1>2, <1>3, <1>4, <1>5, OneFile
<1>7. RowsLead'
  <2>1. \A i \in Ids : rows[i] # None /\ rows[i].name = b.name => i = b.id
    BY <1>1, PlaceOf
  <2>2. \A i \in Ids : rows[i] # None => rows[i].name \in Names
    BY <1>3, Typed
  <2>3. QED
    BY <1>3, <1>4, <1>6, <2>1, <2>2 DEF RowsLead, HasFile, FileOf
<1>8. AllBorn'
  BY <1>2, <1>3, <1>4, <1>6 DEF AllBorn
<1>9. ASSUME NEW i \in Ids PROVE Safe(i)'
  <2>1. Safe(i) /\ kept[i] \in Nat
    BY <1>3, Typed DEF LocalInv
  <2>2. CASE i \in marred
    BY <2>2 DEF Safe
  <2>3. CASE i \notin marred /\ i # b.id
    <3>1. files[b.name] # None => files[b.name].id # i
      BY <1>1, <2>3, PlaceOf
    <3>2. Mine(i)' = Mine(i)
      <4>1. /\ x \in Text \union {None} /\ (x # None => x.name = n) /\ (x # None => x.id # i)
            /\ (files[n] # None => files[n].id # i)
        BY <1>4, <1>5, <2>3, <3>1
      <4>2. QED
        BY <1>3, <1>5, <4>1, OthersFiles
    <3>3. QED
      BY <2>1, <2>3, <3>2 DEF Safe
  <2>4. CASE i \notin marred /\ i = b.id
    <3>1. x # None => x \in Mine(i)'
      BY <1>3, <1>4, <1>5, <2>4, OneFileMine
    <3>2. i \notin gone
      BY <1>2, <2>4
    <3>3. CASE a = None
      BY <1>1, <1>2, <2>4, <3>2, <3>3 DEF Makes, Safe
    <3>4. CASE a # None
      <4>1. /\ kept[i] <= a.rev /\ a.rev < b.rev /\ a.rev \in Nat /\ b.rev \in Nat
        BY <1>1, <1>2, <2>4, <3>4, Revisions DEF Edits
      <4>2. x # None /\ x.rev >= kept[i]
        BY <1>1, <1>2, <2>1, <3>4, <4>1
      <4>3. QED
        BY <3>1, <3>2, <4>2 DEF Safe
    <3>5. QED
      BY <3>3, <3>4
  <2>5. QED
    BY <2>2, <2>3, <2>4
<1>10. QED
  BY <1>1, <1>6, <1>7, <1>8, <1>9

(* The files of memories that are not marred, before and after. *)
LEMMA ReplaceMine ==
    ASSUME LocalInv, EditInv, NEW k \in Places, NEW x \in {Old(k), New(k)},
           Puts(New(k).name, x),
           NEW i \in Ids, i \notin marred
    PROVE  /\ i # New(k).id => Mine(i)' = Mine(i)
           /\ i = New(k).id => Mine(i)' = {x} \ {None}
<1>1. PICK b : b = New(k)
  OBVIOUS
<1>2. /\ b \in Text /\ b.id \in Ids /\ b.name \in Names
      /\ x \in Text \union {None} /\ (x # None => x.name = b.name /\ x.id = b.id)
  BY <1>1, ChangeIs
<1>3. FilesTyped
  BY Typed DEF LocalInv
<1>4. PICK n \in Names : n = b.name /\ Puts(n, x)
  BY <1>1, <1>2
<1>5. ASSUME i # b.id PROVE Mine(i)' = Mine(i)
  <2>1. files[b.name] # None => files[b.name].id # i
    BY <1>1, <1>5, PlaceOf
  <2>2. QED
    BY <1>2, <1>3, <1>4, <1>5, <2>1, OthersFiles
<1>6. ASSUME i = b.id PROVE Mine(i)' = {x} \ {None}
  <2>1. Mine(i) \subseteq {files[b.name]}
    BY <1>1, <1>6, PlaceOf
  <2>2. Mine(i)' = (Mine(i) \ {files[b.name]}) \union (IF x # None /\ x.id = i THEN {x} ELSE {})
    BY <1>2, <1>3, <1>4, OneFileMine
  <2>3. QED
    BY <1>2, <1>6, <2>1, <2>2
<1>7. QED
  BY <1>1, <1>5, <1>6

LEMMA ThisWritten ==
    ASSUME LocalInv, EditInv, NEW k \in Places, ~IsWritten(k), Puts(New(k).name, New(k)),
           UNCHANGED <<rows, kept, gone, born, marred, stale>>, job'.changes = job.changes
    PROVE  Written(k)'
<1>1. PICK a, b : a = Old(k) /\ b = New(k)
  OBVIOUS
<1>2. /\ b \in Text /\ b.id \in Ids /\ b.name \in Names /\ b # None
      /\ a # None => a \in Text /\ a.id = b.id /\ a.name = b.name
      /\ Untouched(k)
  BY <1>1, ChangeIs DEF Changed
<1>3. Old(k)' = a /\ New(k)' = b
  BY <1>1, SameChanges
<1>4. Puts(b.name, b) /\ FilesTyped
  BY <1>1, Typed DEF LocalInv
<1>5. files'[b.name] = b
  BY <1>2, <1>4, OneFile
<1>6. b.id \notin marred => Mine(b.id)' = {b}
  BY <1>1, <1>2, <1>4, ReplaceMine
<1>7. ASSUME a # None, b.id \notin marred PROVE Insertable(a) /\ Matches(rows[b.id], a)
  <2>1. files[b.name] = a /\ Settled(b.id)
    BY <1>1, <1>2, <1>7 DEF Untouched
  <2>2. QED
    BY <1>2, <1>4, <1>7, <2>1, SettledIs
<1>8. (b.id \in marred \/ Mine(b.id) = {b})'
  BY <1>6
<1>9. a # None => (b.id \in marred \/ (Insertable(a) /\ Matches(rows[b.id], a)))'
  BY <1>7, MatchesThere
<1>10. QED
  BY <1>3, <1>5, <1>8, <1>9 DEF Written, Mine

LEMMA ThisBack ==
    ASSUME LocalInv, EditInv, NEW k \in Places, IsWritten(k), Puts(New(k).name, Old(k)),
           UNCHANGED <<rows, kept, gone, born, marred, stale>>,
           NEW i \in Ids, i = New(k).id, i \notin marred
    PROVE  Settled(i)'
<1>1. PICK a, b : a = Old(k) /\ b = New(k)
  OBVIOUS
<1>2. /\ b \in Text /\ b.id = i /\ b # None
      /\ a # None => a \in Text /\ a.id = b.id /\ a.name = b.name
      /\ a = None => Makes(k)
      /\ Written(k)
  BY <1>1, ChangeIs DEF Changed
<1>3. Mine(i)' = {a} \ {None}
  BY <1>1, ReplaceMine
<1>4. CASE a = None
  BY <1>1, <1>2, <1>3, <1>4 DEF Settled, Fits, Makes
<1>5. CASE a # None
  <2>1. Insertable(a) /\ Matches(rows[i], a)
    BY <1>1, <1>2, <1>5 DEF Written
  <2>2. Insertable(a) /\ Matches(rows[i], a)'
    BY <2>1, MatchesThere
  <2>3. Mine(i)' = {a}
    BY <1>3, <1>5
  <2>4. QED
    BY <2>2, <2>3 DEF Settled, Fits
<1>6. QED
  BY <1>4, <1>5

LEMMA ThisUntouched ==
    ASSUME LocalInv, EditInv, NEW k \in Places, IsWritten(k), Puts(New(k).name, Old(k)),
           UNCHANGED <<rows, kept, gone, born, marred, stale>>, job'.changes = job.changes
    PROVE  Untouched(k)'
<1>1. PICK a, b : a = Old(k) /\ b = New(k)
  OBVIOUS
<1>2. /\ b \in Text /\ b.id \in Ids /\ b.name \in Names /\ b # None
      /\ a \in Text \union {None} /\ (a # None => a.name = b.name)
      /\ a = None => Makes(k)
      /\ Written(k)
  BY <1>1, ChangeIs DEF Changed
<1>3. Old(k)' = a /\ New(k)' = b
  BY <1>1, SameChanges
<1>4. Puts(b.name, a) /\ FilesTyped
  BY <1>1, Typed DEF LocalInv
<1>5. files'[b.name] = a
  BY <1>2, <1>4, OneFile
<1>6. a = None => b.id \notin marred /\ Mine(b.id)' = {}
  <2> SUFFICES ASSUME a = None PROVE b.id \notin marred /\ Mine(b.id)' = {}
    OBVIOUS
  <2>1. b.id \notin marred
    BY <1>1, <1>2 DEF Makes
  <2>2. Mine(b.id)' = {a} \ {None}
    BY <1>1, <1>2, <2>1, ReplaceMine
  <2>3. QED
    BY <2>1, <2>2
<1>7. b.id \notin marred => Settled(b.id)'
  BY <1>1, <1>2, <1>4, ThisBack
<1>8. (b.id \in marred \/ Settled(b.id))'
  BY <1>7
<1>9. (a = None => Mine(b.id) = {})'
  BY <1>6
<1>10. QED
  BY <1>2, <1>3, <1>5, <1>8, <1>9 DEF Untouched, Settled, Mine

LEMMA OtherChange ==
    ASSUME LocalInv, EditInv, NEW k \in Places, NEW x \in {Old(k), New(k)},
           Puts(New(k).name, x),
           UNCHANGED <<rows, kept, gone, born, marred, stale>>, job'.changes = job.changes,
           job'.kind = job.kind, NEW l \in Places, l # k, IsWritten(l)' = IsWritten(l)
    PROVE  Changed(l)'
<1>1. PICK a, b, n : a = Old(l) /\ b = New(l) /\ n = New(k).name
  OBVIOUS
<1>2. /\ b \in Text /\ b.id \in Ids /\ b.name \in Names /\ b # None
      /\ a # None => a \in Text /\ a.id = b.id /\ a.name = b.name
      /\ a = None => Makes(l)
      /\ a # None => Edits(l)
      /\ Changed(l)
  BY <1>1, ChangeIs
<1>3. Old(l)' = a /\ New(l)' = b
  BY <1>1, SameChanges
<1>4. b.id # New(k).id /\ b.name # n
  BY <1>1 DEF EditInv
<1>5. files'[b.name] = files[b.name]
  BY <1>1, <1>2, <1>4, ReplaceFile
<1>6. b.id \notin marred => Mine(b.id)' = Mine(b.id)
  BY <1>1, <1>2, <1>4, ReplaceMine
<1>7. (Makes(l) \/ Edits(l))'
  <2>1. a = None => Makes(l)'
    BY <1>1, <1>2, <1>3 DEF Makes, HasRow
  <2>2. a # None => Edits(l)'
    BY <1>1, <1>2, <1>3 DEF Edits
  <2>3. QED
    BY <2>1, <2>2
<1>8. Written(l) => Written(l)'
  <2>1. (b.id \in marred \/ Mine(b.id) = {b}) => (b.id \in marred \/ Mine(b.id) = {b})'
    BY <1>6
  <2>2. Matches(rows[b.id], a) => Matches(rows[b.id], a)'
    BY MatchesThere
  <2>3. QED
    BY <1>1, <1>3, <1>5, <2>1, <2>2 DEF Written, Mine
<1>9. Untouched(l) => Untouched(l)'
  <2>1. a = None => b.id \notin marred
    BY <1>1, <1>2 DEF Makes
  <2>2. (a = None /\ Mine(b.id) = {}) => (a = None /\ Mine(b.id) = {})'
    BY <1>6, <2>1
  <2>3. (b.id \in marred \/ Settled(b.id)) => (b.id \in marred \/ Settled(b.id))'
    BY <1>6, SettledStays
  <2>4. QED
    BY <1>1, <1>3, <1>5, <2>2, <2>3 DEF Untouched, Settled, Mine
<1>10. QED
  BY <1>1, <1>2, <1>3, <1>7, <1>8, <1>9 DEF Changed

LEMMA EditStep ==
    ASSUME LocalInv, EditInv, NEW k \in Places, NEW x \in {Old(k), New(k)},
           Puts(New(k).name, x),
           UNCHANGED <<rows, kept, gone, born, marred, stale>>,
           job'.changes = job.changes, job'.kind = job.kind, job'.op = job.op,
           job.kind = "mutate" => job'.at \in Places,
           \/ x = New(k) /\ ~IsWritten(k) /\ IsWritten(k)'
           \/ x = Old(k) /\ IsWritten(k) /\ ~IsWritten(k)',
           \A l \in Places : l # k => IsWritten(l)' = IsWritten(l)
    PROVE  EditInv'
<1>1. Changed(k)'
  <2>1. PICK a, b : a = Old(k) /\ b = New(k)
    OBVIOUS
  <2>2. /\ a = None => Makes(k)
        /\ a # None => Edits(k)
        /\ b.id \in born /\ b.id \notin gone \ marred
    BY <2>1, ChangeIs DEF Changed
  <2>3. Old(k)' = a /\ New(k)' = b
    BY <2>1, SameChanges
  <2>4. (Makes(k) \/ Edits(k))'
    <3>1. a = None => Makes(k)'
      BY <2>1, <2>2, <2>3 DEF Makes, HasRow
    <3>2. a # None => Edits(k)'
      BY <2>1, <2>2, <2>3 DEF Edits
    <3>3. QED
      BY <3>1, <3>2
  <2>5. IF IsWritten(k)' THEN Written(k)' ELSE Untouched(k)'
    BY ThisWritten, ThisUntouched
  <2>6. QED
    BY <2>2, <2>3, <2>4, <2>5 DEF Changed
<1>2. ASSUME NEW l \in Places PROVE Changed(l)'
  BY <1>1, OtherChange
<1>3. ASSUME NEW i \in Ids \ marred, \A l \in Places : New(l).id # i PROVE Settled(i)'
  <2>1. Settled(i)
    BY <1>3 DEF EditInv
  <2>2. Mine(i)' = Mine(i)
    BY <1>3, ReplaceMine
  <2>3. QED
    BY <2>1, <2>2, SettledStays
<1>4. /\ Places' = Places /\ \A l : Old(l)' = Old(l) /\ New(l)' = New(l)
  BY SameChanges
<1>5. QED
  BY <1>2, <1>3, <1>4 DEF EditInv

-----------------------------------------------------------------------------
(* The steps of an edit.                                                   *)

LEMMA JobOf ==
    ASSUME LocalInv
    PROVE  /\ TypeOK /\ job \in Job /\ job.step \in Steps[job.kind]
           /\ Editing => EditInv
           /\ job.kind = "mutate" => KeepInv
           /\ job.kind = "forget" => ForgetInv
           /\ job.kind = "rename" => RenameInv
           /\ job.kind = "none" => IdleInv
  BY DEF LocalInv, JobInv, TypeOK

LEMMA IdleAgain ==
    ASSUME job' = Idle, \A i \in Ids \ marred' : Settled(i)'
    PROVE  JobInv'
<1>1. IdleInv'
  BY DEF IdleInv
<1>2. QED
  BY <1>1, IdleIs DEF JobInv, Editing

LEMMA WriteEditKeeps ==
    ASSUME LocalInv, Write, job.kind # "rename"
    PROVE  LocalInv'
<1>1. /\ job.step = "write" /\ Puts(Now.name, Now) /\ Goto("commit")
      /\ UNCHANGED <<rows, revs, bodies, applied, restarts, born, kept, gone, replaced, marred, stale>>
  BY DEF Write, Puts, history
<1>2. TypeOK /\ job \in Job
  BY JobOf
<1>3. job.kind \in {"save", "update"}
  BY <1>1, JobOf, JobIs
<1>4. EditInv /\ Len(job.changes) = 1
  BY <1>3, JobOf DEF Editing, EditInv
<1>5. /\ job' \in Job /\ job'.step = "commit" /\ job'.kind = job.kind
      /\ job'.changes = job.changes /\ job'.op = job.op
  BY <1>1, <1>2, GotoIs
<1>6. 1 \in Places /\ (\A l \in Places : l = 1) /\ Now = New(1)
  BY <1>4 DEF Places, Now, New
<1>7. ~IsWritten(1) /\ IsWritten(1)'
  BY <1>1, <1>5 DEF IsWritten
<1>8. /\ FilesTyped' /\ RowsLead' /\ AllBorn'
      /\ \A i \in Ids : Safe(i)'
  BY <1>1, <1>4, <1>6, ReplaceFile
<1>9. EditInv'
  BY <1>1, <1>3, <1>4, <1>5, <1>6, <1>7, EditStep
<1>10. JobInv'
  BY <1>3, <1>5, <1>9 DEF JobInv, Editing, Steps
<1>11. TypeOK'
  BY <1>1, <1>2, <1>5, <1>8 DEF TypeOK, FilesTyped
<1>12. OriginalsKept'
  BY <1>1 DEF LocalInv, OriginalsKept
<1>13. QED
  BY <1>8, <1>10, <1>11, <1>12 DEF LocalInv

LEMMA UndoKeeps ==
    ASSUME LocalInv, Undo
    PROVE  LocalInv'
<1>1. /\ job.step = "undo" /\ Puts(Now.name, Undone) /\ job' = Idle
      /\ UNCHANGED <<rows, revs, bodies, applied, restarts, born, kept, gone, replaced, marred, stale>>
  BY DEF Undo, Puts, history
<1>2. TypeOK /\ job \in Job
  BY JobOf
<1>3. job.kind \in {"save", "update"}
  BY <1>1, JobOf, JobIs
<1>4. EditInv /\ Len(job.changes) = 1
  BY <1>3, JobOf DEF Editing, EditInv
<1>5. 1 \in Places /\ (\A l \in Places : l = 1) /\ Now = New(1) /\ Was = Old(1)
  BY <1>4 DEF Places, Now, New, Was, Old
<1>6. Undone = Old(1)
  BY <1>3, <1>4, <1>5 DEF Undone, EditInv
<1>7. IsWritten(1)
  BY <1>1 DEF IsWritten
<1>8. /\ FilesTyped' /\ RowsLead' /\ AllBorn'
      /\ \A i \in Ids : Safe(i)'
  BY <1>1, <1>4, <1>5, <1>6, ReplaceFile
<1>9. ASSUME NEW i \in Ids, i \notin marred PROVE Settled(i)'
  <2>1. CASE i = New(1).id
    BY <1>1, <1>4, <1>5, <1>6, <1>7, <1>9, <2>1, ThisBack
  <2>2. CASE i # New(1).id
    <3>1. Settled(i)
      BY <1>4, <1>5, <1>9, <2>2 DEF EditInv
    <3>2. Mine(i)' = Mine(i)
      BY <1>1, <1>4, <1>5, <1>6, <1>9, <2>2, ReplaceMine
    <3>3. QED
      BY <1>1, <3>1, <3>2, SettledStays
  <2>3. QED
    BY <2>1, <2>2
<1>10. JobInv'
  BY <1>1, <1>9, IdleAgain
<1>11. TypeOK'
  BY <1>1, <1>2, <1>8, IdleIs DEF TypeOK, FilesTyped
<1>12. OriginalsKept'
  BY <1>1 DEF LocalInv, OriginalsKept
<1>13. QED
  BY <1>8, <1>10, <1>11, <1>12 DEF LocalInv

(* A step that leaves files, rows and histories alone. *)
LEMMA StillThere ==
    ASSUME LocalInv, UNCHANGED <<files, rows, kept, gone, born, marred, stale>>
    PROVE  /\ RowsLead' /\ AllBorn'
           /\ \A i \in Ids : Safe(i)'
           /\ \A i \in Ids : Settled(i) => Settled(i)'
<1>1. RowsLead'
  BY DEF LocalInv, RowsLead, HasFile, FileOf
<1>2. Present' = Present
  BY SameFiles
<1>3. AllBorn'
  BY <1>2 DEF LocalInv, AllBorn
<1>4. ASSUME NEW i \in Ids PROVE Safe(i)' /\ (Settled(i) => Settled(i)')
  <2>1. Mine(i)' = Mine(i)
    BY SameFiles
  <2>2. QED
    BY <2>1, SettledThere DEF LocalInv, Safe
<1>5. QED
  BY <1>1, <1>3, <1>4

LEMMA StillEditing ==
    ASSUME LocalInv, EditInv, UNCHANGED <<files, rows, kept, gone, born, marred, stale>>,
           job'.changes = job.changes, job'.kind = job.kind, job'.op = job.op,
           job.kind = "mutate" => job'.at \in Places,
           \A k \in Places : IsWritten(k)' = IsWritten(k)
    PROVE  EditInv'
<1>1. ASSUME NEW k \in Places PROVE Changed(k)'
  <2>1. PICK a, b : a = Old(k) /\ b = New(k)
    OBVIOUS
  <2>2. Old(k)' = a /\ New(k)' = b /\ Present' = Present
    BY <2>1, SameChanges, SameFiles
  <2>3. Changed(k)
    BY DEF EditInv
  <2>4. (Makes(k) => Makes(k)') /\ (Edits(k) => Edits(k)')
    BY <2>1, <2>2 DEF Makes, Edits, HasRow
  <2>5. Written(k) => Written(k)'
    BY <2>1, <2>2, MatchesThere DEF Written, Mine
  <2>6. Untouched(k) => Untouched(k)'
    <3>1. Settled(b.id) => Settled(b.id)'
      BY SettledThere
    <3>2. QED
      BY <2>1, <2>2, <3>1 DEF Untouched, Settled, Mine
  <2>7. QED
    BY <2>1, <2>2, <2>3, <2>4, <2>5, <2>6 DEF Changed
<1>2. \A i \in Ids : Settled(i) => Settled(i)'
  BY StillThere
<1>3. /\ Places' = Places /\ \A l : Old(l)' = Old(l) /\ New(l)' = New(l)
  BY SameChanges
<1>4. QED
  BY <1>1, <1>2, <1>3 DEF EditInv

LEMMA CommitRefusedKeeps ==
    ASSUME LocalInv, CommitRefused
    PROVE  LocalInv'
<1>1. /\ job.step = "commit" /\ job.kind \in {"save", "update"} /\ Goto("undo")
      /\ UNCHANGED <<files, rows, revs, bodies, applied, restarts,
                     born, kept, gone, replaced, marred, stale>>
  BY DEF CommitRefused, disk, history
<1>2. TypeOK /\ job \in Job /\ EditInv
  BY <1>1, JobOf DEF Editing
<1>3. /\ job' \in Job /\ job'.step = "undo" /\ job'.kind = job.kind
      /\ job'.changes = job.changes /\ job'.op = job.op
  BY <1>1, <1>2, GotoIs
<1>4. \A k \in Places : IsWritten(k)' = IsWritten(k)
  BY <1>1, <1>3 DEF IsWritten
<1>5. EditInv'
  BY <1>1, <1>2, <1>3, <1>4, StillEditing
<1>6. JobInv'
  BY <1>1, <1>3, <1>5 DEF JobInv, Editing, Steps
<1>7. TypeOK'
  BY <1>1, <1>2, <1>3 DEF TypeOK
<1>8. OriginalsKept'
  BY <1>1 DEF LocalInv, OriginalsKept
<1>9. QED
  BY <1>1, <1>6, <1>7, <1>8, StillThere DEF LocalInv

-----------------------------------------------------------------------------
(* The steps of a request of maintenance.                                  *)

LEMMA Mutating ==
    ASSUME LocalInv, job.kind = "mutate"
    PROVE  /\ TypeOK /\ job \in Job /\ EditInv /\ KeepInv
           /\ job.at \in Places /\ job.at \in Nat /\ job.op \in Ops
           /\ Len(job.changes) \in Nat /\ Places \subseteq Nat
           /\ This.was = Old(job.at) /\ This.now = New(job.at)
<1>1. TypeOK /\ job \in Job /\ EditInv /\ KeepInv
  BY JobOf DEF Editing
<1>2. job.at \in Places /\ job.op \in Ops
  BY <1>1 DEF EditInv
<1>3. QED
  BY <1>1, <1>2, JobOf, JobIs DEF This, Old, New, Places

LEMMA KeepKeeps ==
    ASSUME LocalInv, Keep
    PROVE  LocalInv'
<1>1. /\ job.step = "keep" /\ bodies' = bodies \union {This.was} /\ Goto("put")
      /\ UNCHANGED <<files, rows, revs, applied, restarts, born, kept, gone, replaced, marred, stale>>
  BY DEF Keep, history
<1>2. job.kind = "mutate"
  BY <1>1, JobOf, JobIs
<1>3. /\ TypeOK /\ job \in Job /\ EditInv /\ KeepInv /\ job.at \in Places
      /\ This.was = Old(job.at)
  BY <1>2, Mutating
<1>4. /\ job' \in Job /\ job'.step = "put" /\ job'.kind = job.kind
      /\ job'.changes = job.changes /\ job'.op = job.op /\ job'.at = job.at
  BY <1>1, <1>3, GotoIs
<1>5. \A k \in Places : IsWritten(k)' = IsWritten(k)
  BY <1>1, <1>4 DEF IsWritten
<1>6. EditInv'
  BY <1>1, <1>3, <1>4, <1>5, StillEditing
<1>7. /\ Places' = Places /\ \A l : Old(l)' = Old(l)
  BY <1>4, SameChanges
<1>8. KeepInv'
  BY <1>1, <1>3, <1>4, <1>7 DEF KeepInv
<1>9. JobInv'
  BY <1>2, <1>4, <1>6, <1>8 DEF JobInv, Editing, Steps
<1>10. Old(job.at) \in Text
  BY <1>1, <1>3, ChangeIs DEF KeepInv
<1>11. TypeOK'
  BY <1>1, <1>3, <1>4, <1>10 DEF TypeOK
<1>12. OriginalsKept'
  BY <1>1 DEF LocalInv, OriginalsKept
<1>13. QED
  BY <1>1, <1>9, <1>11, <1>12, StillThere DEF LocalInv

LEMMA PutKeeps ==
    ASSUME LocalInv, Put
    PROVE  LocalInv'
<1>1. /\ job.step = "put" /\ Puts(This.now.name, This.now)
      /\ replaced' = replaced \union ({This.was} \ {None})
      /\ job' = IF Last THEN [job EXCEPT !.step = "commit", !.at = 1]
                ELSE [job EXCEPT !.step = "keep", !.at = @ + 1]
      /\ UNCHANGED <<rows, revs, bodies, applied, restarts, born, kept, gone, marred, stale>>
  BY DEF Put, Puts
<1>2. job.kind = "mutate"
  BY <1>1, JobOf, JobIs
<1>3. PICK k \in Places : k = job.at
  BY <1>2, Mutating
<1>4. /\ TypeOK /\ job \in Job /\ EditInv /\ KeepInv
      /\ This.was = Old(k) /\ This.now = New(k) /\ k \in Nat /\ k <= Len(job.changes)
      /\ Len(job.changes) \in Nat /\ \A l \in Places : l \in Nat /\ l <= Len(job.changes)
  BY <1>2, <1>3, Mutating DEF Places
<1>5. /\ job' \in Job /\ job'.kind = job.kind /\ job'.changes = job.changes
      /\ job'.op = job.op
      /\ Last => job'.step = "commit" /\ job'.at = 1
      /\ ~Last => job'.step = "keep" /\ job'.at = k + 1
  <2>1. CASE Last
    <3>1. job' = [job EXCEPT !.step = "commit", !.at = 1]
      BY <1>1, <2>1
    <3>2. QED
      BY <1>4, <2>1, <3>1 DEF Job
  <2>2. CASE ~Last
    <3>1. job' = [job EXCEPT !.step = "keep", !.at = k + 1]
      BY <1>1, <1>3, <2>2
    <3>2. k + 1 \in Nat
      BY <1>4
    <3>3. QED
      BY <1>1, <1>4, <2>2, <3>1, <3>2 DEF Job
  <2>3. QED
    BY <2>1, <2>2
<1>6. Last <=> k = Len(job.changes)
  BY <1>3 DEF Last
<1>7. job'.at \in Places
  BY <1>3, <1>4, <1>5, <1>6 DEF Places
<1>8. ~IsWritten(k) /\ IsWritten(k)'
  BY <1>1, <1>3, <1>4, <1>5 DEF IsWritten
<1>9. ASSUME NEW l \in Places, l # k PROVE IsWritten(l)' = IsWritten(l)
  <2>1. IsWritten(l) <=> l < k
    BY <1>1, <1>3 DEF IsWritten
  <2>2. IsWritten(l)' <=> l < k
    BY <1>4, <1>5, <1>6, <1>9 DEF IsWritten
  <2>3. IsWritten(l) \in BOOLEAN /\ IsWritten(l)' \in BOOLEAN
    BY DEF IsWritten
  <2>4. QED
    BY <2>1, <2>2, <2>3
<1>10. Puts(New(k).name, New(k))
  BY <1>1, <1>4
<1>11. /\ FilesTyped' /\ RowsLead' /\ AllBorn'
       /\ \A i \in Ids : Safe(i)'
  BY <1>1, <1>4, <1>10, ReplaceFile
<1>12. EditInv'
  BY <1>1, <1>4, <1>5, <1>7, <1>8, <1>9, <1>10, EditStep
<1>13. /\ Places' = Places /\ \A l : Old(l)' = Old(l)
  BY <1>5, SameChanges
<1>14. KeepInv'
  <2>1. CASE Last
    BY <1>4, <1>5, <1>13, <2>1 DEF KeepInv
  <2>2. CASE ~Last
    <3>1. Len(job.changes) > 1
      BY <1>3, <1>4, <1>6, <2>2 DEF Places
    <3>2. QED
      BY <1>4, <1>5, <1>13, <2>2, <3>1 DEF KeepInv
  <2>3. QED
    BY <2>1, <2>2
<1>15. JobInv'
  BY <1>2, <1>5, <1>12, <1>14 DEF JobInv, Editing, Steps
<1>16. Old(k) \in Text \union {None} /\ Old(k) \in bodies \union {None}
  BY <1>1, <1>3, <1>4, ChangeIs DEF KeepInv
<1>17. TypeOK'
  BY <1>1, <1>4, <1>5, <1>11, <1>16 DEF TypeOK, FilesTyped
<1>18. OriginalsKept'
  BY <1>1, <1>4, <1>16 DEF LocalInv, OriginalsKept
<1>19. QED
  BY <1>11, <1>15, <1>17, <1>18 DEF LocalInv

LEMMA MutationRefusedKeeps ==
    ASSUME LocalInv, MutationRefused
    PROVE  LocalInv'
<1>1. /\ job.step = "commit" /\ job.kind = "mutate" /\ Goto("rollback")
      /\ UNCHANGED <<files, rows, revs, bodies, applied, restarts,
                     born, kept, gone, replaced, marred, stale>>
  BY DEF MutationRefused, disk, history
<1>2. /\ TypeOK /\ job \in Job /\ EditInv /\ KeepInv /\ job.at \in Places
      /\ Len(job.changes) \in Nat
  BY <1>1, Mutating
<1>3. /\ job' \in Job /\ job'.step = "rollback" /\ job'.kind = job.kind
      /\ job'.changes = job.changes /\ job'.op = job.op /\ job'.at = job.at /\ job.at = 1
  BY <1>1, <1>2, GotoIs DEF KeepInv
<1>4. \A k \in Places : IsWritten(k)' = IsWritten(k)
  BY <1>1, <1>2, <1>3 DEF IsWritten, Places
<1>5. EditInv'
  BY <1>1, <1>2, <1>3, <1>4, StillEditing
<1>6. /\ Places' = Places /\ \A l : Old(l)' = Old(l)
  BY <1>3, SameChanges
<1>7. \A k \in Places : ~(k < 1)
  BY <1>2 DEF Places
<1>8. KeepInv'
  BY <1>2, <1>3, <1>6, <1>7 DEF KeepInv
<1>9. JobInv'
  BY <1>1, <1>3, <1>5, <1>8 DEF JobInv, Editing, Steps
<1>10. TypeOK'
  BY <1>1, <1>2, <1>3 DEF TypeOK
<1>11. OriginalsKept'
  BY <1>1 DEF LocalInv, OriginalsKept
<1>12. QED
  BY <1>1, <1>9, <1>10, <1>11, StillThere DEF LocalInv

LEMMA RollBackKeeps ==
    ASSUME LocalInv, RollBack
    PROVE  LocalInv'
<1>1. /\ job.step = "rollback" /\ Puts(This.now.name, This.was)
      /\ replaced' = replaced \ {This.was}
      /\ job' = IF Last THEN [job EXCEPT !.step = "drop", !.at = 1] ELSE [job EXCEPT !.at = @ + 1]
      /\ UNCHANGED <<rows, revs, bodies, applied, restarts, born, kept, gone, marred, stale>>
  BY DEF RollBack, Puts
<1>2. job.kind = "mutate"
  BY <1>1, JobOf, JobIs
<1>3. PICK k \in Places : k = job.at
  BY <1>2, Mutating
<1>4. /\ TypeOK /\ job \in Job /\ EditInv /\ KeepInv
      /\ This.was = Old(k) /\ This.now = New(k) /\ k \in Nat /\ k <= Len(job.changes)
      /\ Len(job.changes) \in Nat /\ \A l \in Places : l \in Nat /\ l <= Len(job.changes)
  BY <1>2, <1>3, Mutating DEF Places
<1>5. /\ job' \in Job /\ job'.kind = job.kind /\ job'.changes = job.changes
      /\ job'.op = job.op
      /\ Last => job'.step = "drop" /\ job'.at = 1
      /\ ~Last => job'.step = "rollback" /\ job'.at = k + 1
  <2>1. CASE Last
    <3>1. job' = [job EXCEPT !.step = "drop", !.at = 1]
      BY <1>1, <2>1
    <3>2. QED
      BY <1>4, <2>1, <3>1 DEF Job
  <2>2. CASE ~Last
    <3>1. job' = [job EXCEPT !.at = k + 1]
      BY <1>1, <1>3, <2>2
    <3>2. k + 1 \in Nat
      BY <1>4
    <3>3. QED
      BY <1>1, <1>4, <2>2, <3>1, <3>2 DEF Job
  <2>3. QED
    BY <2>1, <2>2
<1>6. Last <=> k = Len(job.changes)
  BY <1>3 DEF Last
<1>7. job'.at \in Places
  BY <1>3, <1>4, <1>5, <1>6 DEF Places
<1>8. IsWritten(k) /\ ~IsWritten(k)'
  BY <1>1, <1>3, <1>4, <1>5 DEF IsWritten
<1>9. ASSUME NEW l \in Places, l # k PROVE IsWritten(l)' = IsWritten(l)
  <2>1. IsWritten(l) <=> l >= k
    BY <1>1, <1>3 DEF IsWritten
  <2>2. IsWritten(l)' <=> l >= k
    BY <1>4, <1>5, <1>6, <1>9 DEF IsWritten
  <2>3. IsWritten(l) \in BOOLEAN /\ IsWritten(l)' \in BOOLEAN
    BY DEF IsWritten
  <2>4. QED
    BY <2>1, <2>2, <2>3
<1>10. Puts(New(k).name, Old(k))
  BY <1>1, <1>4
<1>11. /\ FilesTyped' /\ RowsLead' /\ AllBorn'
       /\ \A i \in Ids : Safe(i)'
  BY <1>1, <1>4, <1>10, ReplaceFile
<1>12. EditInv'
  BY <1>1, <1>4, <1>5, <1>7, <1>8, <1>9, <1>10, EditStep
<1>13. /\ Places' = Places /\ \A l : Old(l)' = Old(l)
  BY <1>5, SameChanges
<1>14. \A l \in Places : l <= k => Old(l) \notin replaced'
  BY <1>1, <1>3, <1>4 DEF KeepInv
<1>15. KeepInv'
  <2>1. CASE Last
    BY <1>4, <1>5, <1>6, <1>13, <1>14, <2>1 DEF KeepInv
  <2>2. CASE ~Last
    BY <1>4, <1>5, <1>13, <1>14, <2>2 DEF KeepInv
  <2>3. QED
    BY <2>1, <2>2
<1>16. JobInv'
  BY <1>2, <1>5, <1>12, <1>15 DEF JobInv, Editing, Steps
<1>17. TypeOK'
  BY <1>1, <1>4, <1>5, <1>11 DEF TypeOK, FilesTyped
<1>18. OriginalsKept'
  BY <1>1 DEF LocalInv, OriginalsKept
<1>19. QED
  BY <1>11, <1>16, <1>17, <1>18 DEF LocalInv

LEMMA DropKeeps ==
    ASSUME LocalInv, Drop
    PROVE  LocalInv'
<1>1. /\ job.step = "drop" /\ bodies' = bodies \ Originals /\ job' = Idle
      /\ UNCHANGED <<files, rows, revs, applied, restarts, born, kept, gone, replaced, marred, stale>>
  BY DEF Drop, history
<1>2. job.kind = "mutate"
  BY <1>1, JobOf, JobIs
<1>3. TypeOK /\ EditInv /\ KeepInv
  BY <1>2, Mutating
<1>4. ASSUME NEW i \in Ids, i \notin marred PROVE Settled(i)'
  <2>1. ASSUME NEW k \in Places, New(k).id = i PROVE Settled(i)
    <3>1. Untouched(k)
      BY <1>1, <1>3, ChangeIs DEF Changed, IsWritten
    <3>2. QED
      BY <1>3, <1>4, <2>1, <3>1, ChangeIs DEF Untouched, Settled, Fits, Makes
  <2>2. Settled(i)
    BY <1>3, <1>4, <2>1 DEF EditInv
  <2>3. QED
    BY <1>1, <2>2, StillThere
<1>5. JobInv'
  BY <1>1, <1>4, IdleAgain
<1>6. TypeOK'
  BY <1>1, <1>3, IdleIs DEF TypeOK
<1>7. OriginalsKept'
  <2>1. DOMAIN job.changes = Places
    BY <1>3 DEF TypeOK, Job, Places
  <2>2. \A t \in Originals : \E k \in Places : t = Old(k)
    BY <2>1 DEF Originals, Range, Old
  <2>3. replaced \subseteq bodies
    BY DEF LocalInv, OriginalsKept
  <2>4. \A k \in Places : Old(k) \notin replaced
    BY <1>1, <1>3 DEF KeepInv
  <2>5. QED
    BY <1>1, <2>2, <2>3, <2>4 DEF OriginalsKept
<1>8. QED
  BY <1>1, <1>5, <1>6, <1>7, StillThere DEF LocalInv

-----------------------------------------------------------------------------
(* The commit of an edit.                                                  *)

LEMMA ChangesIs ==
    ASSUME TypeOK
    PROVE  /\ \A k \in Places : job.changes[k] \in Range(job.changes)
           /\ \A c \in Range(job.changes) :
                 \E k \in Places : c = job.changes[k] /\ c.was = Old(k) /\ c.now = New(k)
<1>1. DOMAIN job.changes = Places
  BY DEF TypeOK, Job, Places
<1>2. Range(job.changes) = {job.changes[k] : k \in Places}
  BY <1>1 DEF Range
<1>3. QED
  BY <1>2 DEF Old, New

(* Each memory of the operation is acknowledged with the text it got. *)
LEMMA AcknowledgedIs ==
    ASSUME TypeOK, \A k \in Places : New(k) \in Text,
           \A k, l \in Places : k # l => New(k).id # New(l).id
    PROVE  /\ Acknowledged(job.changes) \in [Ids -> 0..MaxRev]
           /\ \A k \in Places : Acknowledged(job.changes)[New(k).id] = New(k).rev
           /\ \A i \in Ids : (\A k \in Places : New(k).id # i) =>
                 Acknowledged(job.changes)[i] = kept[i]
<1> DEFINE Of(i, c) == c.now # None /\ c.now.id = i
           Reported(i) == CHOOSE c \in Range(job.changes) : Of(i, c)
<1>1. \A i \in Ids : Acknowledged(job.changes)[i] =
        IF \E c \in Range(job.changes) : Of(i, c) THEN Reported(i).now.rev ELSE kept[i]
  BY DEF Acknowledged
<1>2. ASSUME NEW k \in Places
      PROVE  /\ Reported(New(k).id).now = New(k)
             /\ \E c \in Range(job.changes) : Of(New(k).id, c)
  <2>1. PICK i : i = New(k).id
    OBVIOUS
  <2>2. job.changes[k] \in Range(job.changes) /\ job.changes[k].now = New(k)
    BY ChangesIs DEF New
  <2>3. Of(i, job.changes[k])
    BY <2>1, <2>2, TextFields
  <2>4. Reported(i) \in Range(job.changes) /\ Of(i, Reported(i))
    BY <2>2, <2>3
  <2> HIDE DEF Reported
  <2>5. PICK l \in Places : Reported(i).now = New(l)
    BY <2>4, ChangesIs
  <2>6. New(l).id = New(k).id
    BY <2>1, <2>4, <2>5
  <2>7. l = k
    BY <2>6
  <2>8. QED
    BY <2>1, <2>2, <2>3, <2>5, <2>7
<1>3. ASSUME NEW i \in Ids, \A k \in Places : New(k).id # i
      PROVE  ~\E c \in Range(job.changes) : Of(i, c)
  BY <1>3, ChangesIs
<1>4. \A k \in Places : New(k).id \in Ids /\ New(k).rev \in 0..MaxRev
  BY TextFields, BoundsAssumption
<1> HIDE DEF Reported, Of
<1>5. \A k \in Places : Acknowledged(job.changes)[New(k).id] = New(k).rev
  BY <1>1, <1>2, <1>4
<1>6. \A i \in Ids : (\A k \in Places : New(k).id # i) =>
         Acknowledged(job.changes)[i] = kept[i]
  BY <1>1, <1>3
<1>7. \A i \in Ids : Acknowledged(job.changes)[i] \in 0..MaxRev
  BY <1>4, <1>5, <1>6 DEF TypeOK
<1>8. Acknowledged(job.changes) \in [Ids -> 0..MaxRev]
  BY <1>7 DEF Acknowledged
<1>9. QED
  BY <1>5, <1>6, <1>8

LEMMA Committed ==
    ASSUME LocalInv, EditInv, \A k \in Places : IsWritten(k) /\ Insertable(New(k)),
           UNCHANGED <<files, gone, born, marred>>, job' = Idle,
           rows' \in [Ids -> Row \union {None}],
           kept' = Acknowledged(job.changes), stale' = stale \ {New(k).id : k \in Places},
           \A k \in Places : rows'[New(k).id] = RowOf(New(k)),
           \A i \in Ids : (\A k \in Places : New(k).id # i) => rows'[i] = rows[i]
    PROVE  /\ RowsLead' /\ AllBorn' /\ JobInv' /\ kept' \in [Ids -> 0..MaxRev]
           /\ \A i \in Ids : Safe(i)'
<1>1. TypeOK /\ FilesTyped /\ RowsLead /\ AllBorn
  BY Typed DEF LocalInv
<1>2. \A k \in Places : New(k) \in Text /\ New(k).id \in Ids /\ New(k).name \in Names
  BY ChangeIs
<1>3. \A k, l \in Places : k # l => New(k).id # New(l).id
  BY DEF EditInv
<1>4. /\ kept' \in [Ids -> 0..MaxRev]
      /\ \A k \in Places : kept'[New(k).id] = New(k).rev
      /\ \A i \in Ids : (\A k \in Places : New(k).id # i) => kept'[i] = kept[i]
  BY <1>1, <1>2, <1>3, AcknowledgedIs
<1>5. ASSUME NEW i \in Ids
      PROVE  /\ rows'[i] # None /\ files[rows'[i].name] # None => files[rows'[i].name].id = i
             /\ rows'[i] # None \/ kept'[i] > 0 => i \in born
             /\ Safe(i)'
             /\ i \notin marred => Settled(i)'
  <2>1. Mine(i)' = Mine(i)
    BY SameFiles
  <2>2. CASE \A k \in Places : New(k).id # i
    <3>1. rows'[i] = rows[i] /\ kept'[i] = kept[i]
      BY <1>4, <2>2
    <3>2. Safe(i)'
      BY <2>1, <3>1 DEF LocalInv, Safe
    <3>3. i \notin marred => Settled(i)'
      <4>1. i \in stale' <=> i \in stale
        BY <2>2
      <4>2. Settled(i)' <=> Settled(i)
        BY <2>1, <3>1, <4>1, SettledStays
      <4>3. QED
        BY <2>2, <4>2 DEF EditInv
    <3>4. QED
      BY <1>1, <3>1, <3>2, <3>3 DEF RowsLead, HasFile, FileOf, AllBorn
  <2>3. CASE \E k \in Places : New(k).id = i
    <3>1. PICK k \in Places : New(k).id = i
      BY <2>3
    <3>2. PICK b \in Text : b = New(k) /\ b.id = i
      BY <1>2, <3>1
    <3>3. /\ files[b.name] = b /\ (i \in marred \/ Mine(i) = {b})
          /\ i \in born /\ i \notin gone \ marred /\ Insertable(b)
      BY <3>2, ChangeIs DEF Changed, Written
    <3>4. rows'[i] = RowOf(b) /\ kept'[i] = b.rev /\ b.rev \in Nat
      BY <1>4, <3>2, Revisions
    <3>5. rows'[i] # None /\ rows'[i].name = b.name /\ rows'[i].hash = b /\ rows'[i].links = RowLinks(b)
      BY <3>4, RowOfIs
    <3>6. i \notin marred => Settled(i)'
      BY <2>1, <3>3, <3>5 DEF Settled, Fits, Matches
    <3>7. Safe(i)'
      BY <2>1, <3>3, <3>4 DEF Safe
    <3>8. QED
      BY <3>2, <3>3, <3>5, <3>6, <3>7
  <2>4. QED
    BY <2>2, <2>3
<1>6. RowsLead'
  BY <1>5 DEF RowsLead, HasFile, FileOf
<1>7. AllBorn'
  BY <1>1, <1>5, SameFiles DEF AllBorn
<1>8. JobInv'
  BY <1>5, IdleAgain
<1>9. QED
  BY <1>4, <1>5, <1>6, <1>7, <1>8

LEMMA CommitKeeps ==
    ASSUME LocalInv, Commit
    PROVE  LocalInv'
<1>1. /\ job.kind \in {"save", "update"} /\ job.step = "commit" /\ Insertable(Now)
      /\ rows' = [rows EXCEPT ![Now.id] = RowOf(Now)] /\ job' = Idle
      /\ kept' = Acknowledged(job.changes) /\ stale' = stale \ {Now.id}
      /\ UNCHANGED <<files, revs, bodies, applied, restarts, born, gone, replaced, marred>>
  BY DEF Commit
<1>2. TypeOK /\ EditInv /\ Len(job.changes) = 1
  BY <1>1, JobOf DEF Editing, EditInv
<1>3. 1 \in Places /\ (\A k \in Places : k = 1) /\ Now = New(1)
  BY <1>2 DEF Places, Now, New
<1>4. Now \in Text /\ Now.id \in Ids
  BY <1>2, <1>3, ChangeIs
<1>5. /\ rows' \in [Ids -> Row \union {None}]
      /\ rows'[Now.id] = RowOf(Now) /\ \A i \in Ids \ {Now.id} : rows'[i] = rows[i]
  BY <1>1, <1>2, <1>4, RowOfIs DEF TypeOK
<1>6. \A k \in Places : IsWritten(k) /\ Insertable(New(k))
  BY <1>1, <1>3 DEF IsWritten
<1>7. /\ \A k \in Places : rows'[New(k).id] = RowOf(New(k))
      /\ \A i \in Ids : (\A k \in Places : New(k).id # i) => rows'[i] = rows[i]
      /\ stale' = stale \ {New(k).id : k \in Places}
  BY <1>1, <1>3, <1>5
<1>8. /\ RowsLead' /\ AllBorn' /\ JobInv' /\ kept' \in [Ids -> 0..MaxRev]
      /\ \A i \in Ids : Safe(i)'
  BY <1>1, <1>2, <1>5, <1>6, <1>7, Committed
<1>9. TypeOK'
  BY <1>1, <1>2, <1>5, <1>8, IdleIs DEF TypeOK
<1>10. OriginalsKept'
  BY <1>1 DEF LocalInv, OriginalsKept
<1>11. QED
  BY <1>8, <1>9, <1>10 DEF LocalInv

LEMMA RowsAfterIs ==
    ASSUME TypeOK, \A k \in Places : New(k) \in Text,
           \A k, l \in Places : k # l => New(k).id # New(l).id
    PROVE  /\ RowsAfter(job.changes) \in [Ids -> Row \union {None}]
           /\ \A k \in Places : RowsAfter(job.changes)[New(k).id] = RowOf(New(k))
           /\ \A i \in Ids : (\A k \in Places : New(k).id # i) =>
                 RowsAfter(job.changes)[i] = rows[i]
<1> DEFINE Of(i, c) == c.now.id = i
           Changing(i) == CHOOSE c \in Range(job.changes) : Of(i, c)
<1>1. \A i \in Ids : RowsAfter(job.changes)[i] =
        IF \E c \in Range(job.changes) : Of(i, c) THEN RowOf(Changing(i).now) ELSE rows[i]
  BY DEF RowsAfter
<1>2. ASSUME NEW k \in Places
      PROVE  /\ Changing(New(k).id).now = New(k)
             /\ \E c \in Range(job.changes) : Of(New(k).id, c)
  <2>1. PICK i : i = New(k).id
    OBVIOUS
  <2>2. job.changes[k] \in Range(job.changes) /\ job.changes[k].now = New(k)
    BY ChangesIs DEF New
  <2>3. Of(i, job.changes[k])
    BY <2>1, <2>2
  <2>4. Changing(i) \in Range(job.changes) /\ Of(i, Changing(i))
    BY <2>2, <2>3
  <2> HIDE DEF Changing
  <2>5. PICK l \in Places : Changing(i).now = New(l)
    BY <2>4, ChangesIs
  <2>6. l = k
    BY <2>1, <2>4, <2>5
  <2>7. QED
    BY <2>1, <2>2, <2>3, <2>5, <2>6
<1>3. ASSUME NEW i \in Ids, \A k \in Places : New(k).id # i
      PROVE  ~\E c \in Range(job.changes) : Of(i, c)
  BY <1>3, ChangesIs
<1>4. \A k \in Places : New(k).id \in Ids /\ RowOf(New(k)) \in Row
  BY TextFields, RowOfIs
<1> HIDE DEF Changing, Of
<1>5. \A k \in Places : RowsAfter(job.changes)[New(k).id] = RowOf(New(k))
  BY <1>1, <1>2, <1>4
<1>6. \A i \in Ids : (\A k \in Places : New(k).id # i) => RowsAfter(job.changes)[i] = rows[i]
  BY <1>1, <1>3
<1>7. \A i \in Ids : RowsAfter(job.changes)[i] \in Row \union {None}
  BY <1>4, <1>5, <1>6 DEF TypeOK
<1>8. RowsAfter(job.changes) \in [Ids -> Row \union {None}]
  BY <1>7 DEF RowsAfter
<1>9. QED
  BY <1>5, <1>6, <1>8

LEMMA CommitMutationKeeps ==
    ASSUME LocalInv, CommitMutation
    PROVE  LocalInv'
<1>1. /\ job.kind = "mutate" /\ job.step = "commit"
      /\ \A c \in Range(job.changes) : Insertable(c.now)
      /\ rows' = RowsAfter(job.changes) /\ revs' = revs \union Originals
      /\ applied' = applied \union {job.op} /\ job' = Idle
      /\ kept' = Acknowledged(job.changes)
      /\ stale' = stale \ {c.now.id : c \in Range(job.changes)}
      /\ UNCHANGED <<files, bodies, restarts, born, gone, replaced, marred>>
  BY DEF CommitMutation
<1>2. TypeOK /\ EditInv /\ job.op \in Ops
  BY <1>1, Mutating
<1>3. \A k \in Places : New(k) \in Text /\ Old(k) \in Text \union {None}
  BY <1>2, ChangeIs
<1>4. \A k, l \in Places : k # l => New(k).id # New(l).id
  BY <1>2 DEF EditInv
<1>5. /\ rows' \in [Ids -> Row \union {None}]
      /\ \A k \in Places : rows'[New(k).id] = RowOf(New(k))
      /\ \A i \in Ids : (\A k \in Places : New(k).id # i) => rows'[i] = rows[i]
  BY <1>1, <1>2, <1>3, <1>4, RowsAfterIs
<1>6. \A k \in Places : IsWritten(k) /\ Insertable(New(k))
  BY <1>1, <1>2, ChangesIs DEF IsWritten, New
<1> DEFINE Done == {c.now.id : c \in Range(job.changes)}
<1>6a. Done = {New(k).id : k \in Places}
  BY <1>2, ChangesIs DEF New
<1>7. /\ RowsLead' /\ AllBorn' /\ JobInv' /\ kept' \in [Ids -> 0..MaxRev]
      /\ \A i \in Ids : Safe(i)'
  BY <1>1, <1>2, <1>5, <1>6, <1>6a, Committed
<1>8. Originals \subseteq Text
  BY <1>2, <1>3, ChangesIs DEF Originals
<1>9. TypeOK'
  BY <1>1, <1>2, <1>5, <1>7, <1>8, IdleIs DEF TypeOK
<1>10. OriginalsKept'
  BY <1>1 DEF LocalInv, OriginalsKept
<1>11. QED
  BY <1>7, <1>9, <1>10 DEF LocalInv

-----------------------------------------------------------------------------
(* The steps of forget.                                                    *)

LEMMA RemoveFile ==
    ASSUME LocalInv, NEW t \in Text, files[t.name] \in {t, None}, Puts(t.name, None),
           UNCHANGED <<rows, kept, born>>
    PROVE  /\ FilesTyped' /\ RowsLead' /\ AllBorn'
           /\ \A m \in Names : m # t.name => files'[m] = files[m]
<1>1. FilesTyped /\ RowsLead /\ AllBorn /\ TypeOK /\ t.name \in Names
  BY Typed, TextFields DEF LocalInv
<1>2. /\ FilesTyped' /\ files'[t.name] = None
      /\ \A m \in Names \ {t.name} : files'[m] = files[m]
      /\ Present' = (Present \ {files[t.name]}) \union ({None} \ {None})
  BY <1>1, OneFile
<1>3. \A i \in Ids : rows[i] # None => rows[i].name \in Names
  BY <1>1, Typed
<1>4. RowsLead'
  BY <1>1, <1>2, <1>3 DEF RowsLead, HasFile, FileOf
<1>5. AllBorn'
  BY <1>1, <1>2 DEF AllBorn
<1>6. QED
  BY <1>2, <1>4, <1>5

LEMMA RemoveMine ==
    ASSUME FilesTyped, NEW t \in Text, files[t.name] \in {t, None}, Puts(t.name, None),
           NEW i \in Ids
    PROVE  /\ i # t.id => Mine(i)' = Mine(i)
           /\ Mine(i)' = Mine(i) \ {t}
<1>1. t.name \in Names /\ t # None
  BY TextFields
<1>2. Mine(i)' = (Mine(i) \ {files[t.name]}) \union (IF None # None /\ None.id = i THEN {None} ELSE {})
  BY <1>1, OneFileMine
<1>3. Mine(i)' = Mine(i) \ {t}
  <2>1. None \notin Mine(i) /\ (t \in Mine(i) => files[t.name] = t)
    BY MineIs, NoneAssumption
  <2>2. QED
    BY <1>2, <2>1
<1>4. i # t.id => t \notin Mine(i)
  BY DEF Mine
<1>5. QED
  BY <1>3, <1>4

LEMMA Forgetting ==
    ASSUME LocalInv, job.kind = "forget"
    PROVE  /\ TypeOK /\ FilesTyped /\ job \in Job /\ ForgetInv
           /\ Was \in Text /\ Was.id \in Ids /\ Was.name \in Names /\ Was # None
  BY JobOf, Typed, TextFields DEF ForgetInv

LEMMA UnlinkForgetKeeps ==
    ASSUME LocalInv, Unlink, job.kind = "forget"
    PROVE  LocalInv'
<1>1. /\ job.step = "unlink" /\ Puts(Was.name, None) /\ Goto("commit")
      /\ UNCHANGED <<rows, revs, bodies, applied, restarts, born, kept, gone, replaced, marred, stale>>
  BY DEF Unlink, Puts, history
<1>2. PICK w \in Text : w = Was /\ w.id \in Ids /\ w.name \in Names /\ w # None
  BY Forgetting
<1>3. TypeOK /\ FilesTyped /\ job \in Job /\ ForgetInv
  BY Forgetting
<1>4. /\ files[w.name] \in {w, None} /\ (w.id \in marred \/ Settled(w.id)) /\ kept[w.id] = 0
      /\ rows[w.id] # None /\ rows[w.id].name = w.name
  BY <1>1, <1>2, <1>3 DEF ForgetInv
<1>5. Puts(w.name, None)
  BY <1>1, <1>2
<1>6. FilesTyped' /\ RowsLead' /\ AllBorn'
  BY <1>1, <1>4, <1>5, RemoveFile
<1>7. w.id \notin marred => Mine(w.id) \subseteq {w}
  <2>1. \A t \in Mine(w.id) : t # None /\ files[t.name] = t
    BY <1>2, <1>3, MineIs, NoneAssumption
  <2>2. Settled(w.id) => \A t \in Mine(w.id) : t.name = w.name
    BY <1>4 DEF Settled, Fits, Matches
  <2>3. QED
    BY <1>4, <2>1, <2>2
<1>8. w.id \notin marred => Mine(w.id)' = {}
  BY <1>2, <1>3, <1>4, <1>5, <1>7, RemoveMine
<1>9. ASSUME NEW i \in Ids PROVE Safe(i)' /\ (i # w.id /\ Settled(i) => Settled(i)')
  <2>1. CASE i # w.id
    <3>1. Mine(i)' = Mine(i)
      BY <1>3, <1>4, <1>5, <2>1, RemoveMine
    <3>2. Settled(i)' <=> Settled(i)
      BY <1>1, <3>1, SettledStays
    <3>3. QED
      BY <1>1, <3>1, <3>2 DEF LocalInv, Safe
  <2>2. CASE i = w.id
    <3>1. Safe(i)
      BY DEF LocalInv
    <3>2. i \notin marred => kept[i] = 0 /\ i \notin gone
      BY <1>4, <2>2, <3>1 DEF Safe
    <3>3. kept'[i] > 0 => kept[i] # 0
      BY <1>1
    <3>4. QED
      BY <1>1, <2>2, <3>2, <3>3 DEF Safe
  <2>3. QED
    BY <2>1, <2>2
<1>10. /\ job' \in Job /\ job'.step = "commit" /\ job'.kind = "forget"
       /\ job'.changes = job.changes /\ job'.keys = job.keys
  BY <1>1, <1>3, GotoIs
<1>11. Was' = w
  BY <1>2, <1>10, SameChanges
<1>12. (w.id \in marred \/ Mine(w.id) = {})'
  BY <1>1, <1>8
<1>13. ForgetInv'
  <2>1. /\ Len(job.changes) = 1 /\ w.id \in born /\ kept[w.id] = 0
        /\ \A t \in job.keys : t.id = w.id
        /\ \A i \in Ids \ marred : i # w.id => Settled(i)
    BY <1>2, <1>3 DEF ForgetInv
  <2>2. (Was.id \in marred \/ Mine(Was.id) = {})'
    BY <1>11, <1>12 DEF Mine
  <2>3. QED
    BY <1>1, <1>9, <1>10, <1>11, <2>1, <2>2 DEF ForgetInv
<1>14. JobInv'
  BY <1>10, <1>13 DEF JobInv, Editing, Steps
<1>15. TypeOK'
  BY <1>1, <1>3, <1>6, <1>10 DEF TypeOK, FilesTyped
<1>16. OriginalsKept'
  BY <1>1 DEF LocalInv, OriginalsKept
<1>17. QED
  BY <1>6, <1>9, <1>14, <1>15, <1>16 DEF LocalInv

LEMMA CommitForgetKeeps ==
    ASSUME LocalInv, CommitForget
    PROVE  LocalInv'
<1>1. /\ job.kind = "forget" /\ job.step = "commit"
      /\ rows' = [rows EXCEPT ![Was.id] = None]
      /\ revs' = {t \in revs : t.id # Was.id}
      /\ Goto("revisions")
      /\ replaced' = {t \in replaced : t.id # Was.id}
      /\ stale' = stale \ {Was.id}
      /\ UNCHANGED <<files, bodies, applied, restarts, born, kept, gone, marred>>
  BY DEF CommitForget
<1>2. PICK w \in Text : w = Was /\ w.id \in Ids
  BY <1>1, Forgetting
<1>3. TypeOK /\ job \in Job /\ ForgetInv
  BY <1>1, Forgetting
<1>4. /\ rows' \in [Ids -> Row \union {None}] /\ rows'[w.id] = None
      /\ \A i \in Ids \ {w.id} : rows'[i] = rows[i]
  BY <1>1, <1>2, <1>3 DEF TypeOK
<1>5. Present' = Present
  BY <1>1, SameFiles
<1>6. RowsLead'
  BY <1>1, <1>4 DEF LocalInv, RowsLead, HasFile, FileOf
<1>7. AllBorn'
  BY <1>1, <1>4, <1>5 DEF LocalInv, AllBorn
<1>8. ASSUME NEW i \in Ids PROVE Safe(i)' /\ (i # w.id /\ Settled(i) => Settled(i)')
  <2>1. Mine(i)' = Mine(i)
    BY <1>1, SameFiles
  <2>2. i # w.id => (Settled(i)' <=> Settled(i))
    <3>1. i # w.id => (i \in stale' <=> i \in stale)
      BY <1>1, <1>2
    <3>2. QED
      BY <1>4, <2>1, <3>1, SettledStays
  <2>3. QED
    BY <1>1, <1>4, <2>1, <2>2 DEF LocalInv, Safe
<1>9. /\ job' \in Job /\ job'.step = "revisions" /\ job'.kind = "forget"
      /\ job'.changes = job.changes /\ job'.keys = job.keys
  BY <1>1, <1>3, GotoIs
<1>10. Was' = w
  BY <1>2, <1>9, SameChanges
<1>11. ForgetInv'
  <2>1. /\ Len(job.changes) = 1 /\ w.id \in born /\ kept[w.id] = 0
        /\ \A t \in job.keys : t.id = w.id
        /\ \A i \in Ids \ marred : i # w.id => Settled(i)
        /\ w.id \in marred \/ Mine(w.id) = {}
    BY <1>1, <1>2, <1>3 DEF ForgetInv
  <2>2. (w.id \in marred \/ Mine(w.id) = {})'
    <3>1. Mine(w.id)' = Mine(w.id)
      BY <1>1, SameFiles
    <3>2. QED
      BY <1>1, <2>1, <3>1
  <2>3. (Was.id \in marred \/ Mine(Was.id) = {})'
    BY <1>10, <2>2 DEF Mine
  <2>4. \A t \in replaced' : t.id # w.id
    BY <1>1, <1>2
  <2>5. QED
    BY <1>1, <1>4, <1>8, <1>9, <1>10, <2>1, <2>3, <2>4 DEF ForgetInv
<1>12. JobInv'
  BY <1>9, <1>11 DEF JobInv, Editing, Steps
<1>13. replaced' \subseteq replaced /\ revs' \subseteq revs
  BY <1>1
<1>14. TypeOK'
  BY <1>1, <1>3, <1>4, <1>9, <1>13 DEF TypeOK
<1>15. OriginalsKept'
  BY <1>1, <1>13 DEF LocalInv, OriginalsKept
<1>16. QED
  BY <1>6, <1>7, <1>8, <1>12, <1>14, <1>15 DEF LocalInv

LEMMA ForgetRevisionsKeeps ==
    ASSUME LocalInv, ForgetRevisions
    PROVE  LocalInv'
<1>1. /\ job.step = "revisions" /\ bodies' = bodies \ job.keys /\ job' = Idle
      /\ gone' = gone \union {Was.id}
      /\ UNCHANGED <<files, rows, revs, applied, restarts, born, kept, replaced, marred, stale>>
  BY DEF ForgetRevisions
<1>2. job.kind = "forget"
  BY <1>1, JobOf, JobIs
<1>3. PICK w \in Text : w = Was /\ w.id \in Ids
  BY <1>2, Forgetting
<1>4. TypeOK /\ job \in Job /\ ForgetInv
  BY <1>2, Forgetting
<1>5. /\ w.id \in born /\ kept[w.id] = 0 /\ rows[w.id] = None
      /\ \A t \in job.keys : t.id = w.id
      /\ \A t \in replaced : t.id # w.id
      /\ \A i \in Ids \ marred : i # w.id => Settled(i)
      /\ w.id \in marred \/ Mine(w.id) = {}
  BY <1>1, <1>3, <1>4 DEF ForgetInv
<1>6. RowsLead'
  BY <1>1 DEF LocalInv, RowsLead, HasFile, FileOf
<1>7. AllBorn'
  BY <1>1, SameFiles DEF LocalInv, AllBorn
<1>8. ASSUME NEW i \in Ids PROVE Safe(i)' /\ (i \notin marred => Settled(i)')
  <2>1. Mine(i)' = Mine(i)
    BY <1>1, SameFiles
  <2>2. Safe(i)
    BY DEF LocalInv
  <2>3. CASE i # w.id
    <3>1. Settled(i)' <=> Settled(i)
      BY <1>1, <2>1, SettledStays
    <3>2. QED
      BY <1>1, <1>3, <1>5, <2>1, <2>2, <2>3, <3>1 DEF Safe
  <2>4. CASE i = w.id
    BY <1>1, <1>5, <2>1, <2>2, <2>4 DEF Safe, Settled, Fits
  <2>5. QED
    BY <2>3, <2>4
<1>9. JobInv'
  BY <1>1, <1>8, IdleAgain
<1>10. TypeOK'
  BY <1>1, <1>3, <1>4, <1>5, IdleIs DEF TypeOK
<1>11. OriginalsKept'
  BY <1>1, <1>5 DEF LocalInv, OriginalsKept
<1>12. QED
  BY <1>6, <1>7, <1>8, <1>9, <1>10, <1>11 DEF LocalInv

-----------------------------------------------------------------------------
(* The steps of rename.                                                    *)

LEMMA RenameIs ==
    ASSUME LocalInv, job.kind = "rename"
    PROVE  /\ TypeOK /\ FilesTyped /\ RowsLead /\ AllBorn /\ job \in Job /\ RenameInv
           /\ job.step \in {"write", "commit", "unlink", "refs", "hash"}
           /\ Was \in Text /\ Now \in Text /\ Was # None /\ Now # None
           /\ Was.id \in Ids /\ Now.id = Was.id
           /\ Was.name \in Names /\ Now.name \in Names /\ Was.name # Now.name
           /\ Was.id \in born /\ Was.id \notin gone \ marred
           /\ Was.rev \in Nat /\ Now.rev \in Nat /\ Was.rev < Now.rev
           /\ Was.id \in marred \/ kept[Was.id] <= Was.rev
           /\ rows[Was.id] # None /\ kept[Was.id] \in Nat
           /\ Len(job.changes) = 1
<1>1. TypeOK /\ FilesTyped /\ RowsLead /\ AllBorn /\ job \in Job /\ RenameInv
  BY JobOf, Typed DEF LocalInv
<1>2. job.step \in {"write", "commit", "unlink", "refs", "hash"}
  BY JobOf, JobIs
<1>3. Was \in Text /\ Now \in Text
  BY <1>1 DEF RenameInv
<1>4. Was # None /\ Now # None /\ Was.id \in Ids /\ Was.name \in Names /\ Now.name \in Names
  BY <1>3, TextFields
<1>5. Was.rev \in Nat /\ Now.rev \in Nat
  BY <1>3, Revisions
<1>6. kept[Was.id] \in Nat
  BY <1>1, <1>4, Typed
<1>7. QED
  BY <1>1, <1>2, <1>3, <1>4, <1>5, <1>6 DEF RenameInv

LEMMA WriteRenameKeeps ==
    ASSUME LocalInv, Write, job.kind = "rename"
    PROVE  LocalInv'
<1>1. /\ job.step = "write" /\ Puts(Now.name, Now) /\ Goto("commit")
      /\ UNCHANGED <<rows, revs, bodies, applied, restarts, born, kept, gone, replaced, marred, stale>>
  BY DEF Write, Puts, history
<1>2. PICK w \in Text, v \in Text : w = Was /\ v = Now
  BY RenameIs
<1>3. /\ TypeOK /\ FilesTyped /\ RowsLead /\ AllBorn /\ job \in Job /\ RenameInv
      /\ w # None /\ v # None /\ w.id \in Ids /\ v.id = w.id
      /\ w.name \in Names /\ v.name \in Names /\ w.name # v.name
      /\ w.id \in born /\ w.id \notin gone \ marred
      /\ w.rev \in Nat /\ (w.id \in marred \/ kept[w.id] <= w.rev)
      /\ rows[w.id] # None /\ kept[w.id] \in Nat /\ Len(job.changes) = 1
  BY <1>2, RenameIs
<1>4. /\ files[w.name] = w
      /\ rows[w.id].name = w.name /\ ~HasRow(v.name)
      /\ w.id \in marred \/ (Insertable(w) /\ Matches(rows[w.id], w))
      /\ \A i \in Ids \ marred : i # w.id => Settled(i)
      /\ files[v.name] # None => files[v.name].id \in marred
      /\ w.id \in marred \/ Mine(w.id) = {w}
  BY <1>1, <1>2, <1>3 DEF RenameInv, Renaming
<1>5. Puts(v.name, v)
  BY <1>1, <1>2
<1>6. /\ FilesTyped' /\ files'[v.name] = v
      /\ \A m \in Names \ {v.name} : files'[m] = files[m]
      /\ Present' = (Present \ {files[v.name]}) \union ({v} \ {None})
  BY <1>3, <1>5, OneFile
<1>7. RowsLead'
  <2>1. \A i \in Ids : rows[i] # None => rows[i].name \in Names /\ rows[i].name # v.name
    BY <1>3, <1>4, Typed DEF HasRow
  <2>2. QED
    BY <1>1, <1>3, <1>6, <2>1 DEF RowsLead, HasFile, FileOf
<1>8. AllBorn'
  BY <1>1, <1>3, <1>6 DEF AllBorn
<1>9. ASSUME NEW i \in Ids, i \notin marred
      PROVE  /\ i # w.id => Mine(i)' = Mine(i)
             /\ i = w.id => Mine(i)' = {w, v}
  <2>1. files[v.name] # None => files[v.name].id # i
    BY <1>4, <1>9
  <2>2. Mine(i)' = (Mine(i) \ {files[v.name]}) \union (IF v # None /\ v.id = i THEN {v} ELSE {})
    BY <1>3, <1>5, OneFileMine
  <2>3. files[v.name] \notin Mine(i)
    BY <1>3, <2>1, MineIs, TextFields
  <2>4. QED
    BY <1>3, <1>4, <1>9, <2>2, <2>3
<1>10. ASSUME NEW i \in Ids PROVE Safe(i)'
  <2>1. Safe(i)
    BY DEF LocalInv
  <2>2. CASE i \notin marred /\ i # w.id
    BY <1>1, <1>9, <2>1, <2>2 DEF Safe
  <2>3. CASE i \notin marred /\ i = w.id
    <3>1. Mine(i)' = {w, v} /\ i \notin gone /\ w.rev >= kept[i]
      BY <1>3, <1>9, <2>3
    <3>2. QED
      BY <1>1, <3>1 DEF Safe
  <2>4. CASE i \in marred
    BY <1>1, <2>4 DEF Safe
  <2>5. QED
    BY <2>2, <2>3, <2>4
<1>11. ASSUME NEW i \in Ids \ marred, i # w.id PROVE Settled(i)'
  <2>1. Settled(i)
    BY <1>4, <1>11
  <2>2. QED
    BY <1>1, <1>9, <1>11, <2>1, SettledStays
<1>12. /\ job' \in Job /\ job'.step = "commit" /\ job'.kind = "rename"
       /\ job'.changes = job.changes
  BY <1>1, <1>3, GotoIs
<1>13. Was' = w /\ Now' = v
  BY <1>2, <1>12, SameChanges
<1>14. Renaming'
  <2>1. Matches(rows[w.id], w)' <=> Matches(rows[w.id], w)
    BY <1>1, MatchesThere
  <2>2. QED
    BY <1>1, <1>3, <1>4, <1>6, <1>11, <1>13, <2>1 DEF Renaming, HasRow
<1>15. (Was.id \in marred \/ Mine(Was.id) = {Was, Now})'
  <2>1. (w.id \in marred \/ Mine(w.id) = {w, v})'
    BY <1>1, <1>3, <1>9
  <2>2. QED
    BY <1>13, <2>1 DEF Mine
<1>16. RenameInv'
  BY <1>1, <1>2, <1>3, <1>4, <1>6, <1>12, <1>13, <1>14, <1>15 DEF RenameInv
<1>17. JobInv'
  BY <1>12, <1>16 DEF JobInv, Editing, Steps
<1>18. TypeOK'
  BY <1>1, <1>3, <1>6, <1>12 DEF TypeOK, FilesTyped
<1>19. OriginalsKept'
  BY <1>1 DEF LocalInv, OriginalsKept
<1>20. QED
  BY <1>7, <1>8, <1>10, <1>17, <1>18, <1>19 DEF LocalInv

LEMMA WriteKeeps ==
    ASSUME LocalInv, Write
    PROVE  LocalInv'
  BY WriteEditKeeps, WriteRenameKeeps

(* What renameReferenceRows does to a list of links. *)
LEMMA SwapIs ==
    ASSUME NEW links, NEW old, NEW new, old # new
    PROVE  /\ old \notin Swap(links, old, new)
           /\ old \notin links => Swap(links, old, new) = links
           /\ new \notin Swap(links, old, new) => old \notin links
           /\ \A n : n # old /\ n \in links => n \in Swap(links, old, new)
  BY DEF Swap

(* The links of every row, and the place of the renamed memory. *)
LEMMA FollowedRows ==
    ASSUME LocalInv, CommitRename
    PROVE  /\ rows' \in [Ids -> Row \union {None}]
           /\ \A i \in Ids :
                 /\ rows[i] = None <=> rows'[i] = None
                 /\ rows[i] # None =>
                       /\ rows'[i].links = Swap(rows[i].links, Was.name, Now.name)
                       /\ i # Now.id => rows'[i].name = rows[i].name /\ rows'[i].hash = rows[i].hash
                       /\ i = Now.id => rows'[i].name = Now.name /\ rows'[i].hash = Now
<1>1. job.kind = "rename"
  BY DEF CommitRename
<1>2. PICK w \in Text, v \in Text : w = Was /\ v = Now
  BY <1>1, RenameIs
<1>3. TypeOK /\ w.name \in Names /\ v.name \in Names
  BY <1>1, <1>2, RenameIs
<1> DEFINE Followed(r) == Swap(r.links, w.name, v.name)
           Same(r) == [r EXCEPT !.links = Followed(r)]
           Moved(r) == [name |-> v.name, hash |-> v, links |-> Followed(r)]
<1>4. rows' = [i \in Ids |-> IF rows[i] = None THEN None
                             ELSE IF i = v.id THEN Moved(rows[i]) ELSE Same(rows[i])]
  BY <1>2 DEF CommitRename
<1>5. ASSUME NEW r \in Row
      PROVE  /\ Same(r) \in Row /\ Moved(r) \in Row
             /\ Same(r).links = Followed(r) /\ Same(r).name = r.name /\ Same(r).hash = r.hash
             /\ Moved(r).links = Followed(r) /\ Moved(r).name = v.name /\ Moved(r).hash = v
  <2>1. Followed(r) \subseteq Names
    BY <1>3 DEF Swap, Row
  <2> HIDE DEF Followed
  <2>2. QED
    BY <1>3, <2>1 DEF Row
<1>6. \A r \in Row : r # None
  BY NoneAssumption
<1>7. \A i \in Ids : rows[i] # None => rows[i] \in Row
  BY <1>3, Typed
<1>8. ASSUME NEW i \in Ids
      PROVE  /\ rows'[i] \in Row \union {None}
             /\ rows[i] = None <=> rows'[i] = None
             /\ rows[i] # None =>
                   /\ rows'[i].links = Followed(rows[i])
                   /\ i # v.id => rows'[i].name = rows[i].name /\ rows'[i].hash = rows[i].hash
                   /\ i = v.id => rows'[i].name = v.name /\ rows'[i].hash = v
  <2>1. rows'[i] = IF rows[i] = None THEN None
                   ELSE IF i = v.id THEN Moved(rows[i]) ELSE Same(rows[i])
    BY <1>4
  <2> HIDE DEF Moved, Same, Followed
  <2>2. QED
    BY <1>5, <1>6, <1>7, <2>1
<1>9. rows' \in [Ids -> Row \union {None}]
  <2> HIDE DEF Moved, Same
  <2>1. QED
    BY <1>4, <1>8
<1>10. QED
  BY <1>2, <1>8, <1>9

LEMMA CommitRenameKeeps ==
    ASSUME LocalInv, CommitRename
    PROVE  LocalInv'
<1>1. /\ job.kind = "rename" /\ job.step = "commit" /\ Goto("unlink")
      /\ UNCHANGED <<files, revs, bodies, applied, restarts, born, kept, gone, replaced, marred, stale>>
  BY DEF CommitRename, history
<1>2. PICK w \in Text, v \in Text : w = Was /\ v = Now
  BY <1>1, RenameIs
<1>3. /\ TypeOK /\ FilesTyped /\ RowsLead /\ AllBorn /\ job \in Job /\ RenameInv
      /\ w # None /\ v # None /\ w.id \in Ids /\ v.id = w.id
      /\ w.name \in Names /\ v.name \in Names /\ w.name # v.name
      /\ w.id \in born /\ w.id \notin gone \ marred
      /\ w.rev \in Nat /\ (w.id \in marred \/ kept[w.id] <= w.rev)
      /\ rows[w.id] # None /\ kept[w.id] \in Nat /\ Len(job.changes) = 1
  BY <1>1, <1>2, RenameIs
<1>4. /\ files[w.name] = w /\ files[v.name] = v /\ w.links = v.links /\ w.doubled = v.doubled
      /\ w.status = v.status
      /\ rows[w.id].name = w.name
      /\ w.id \in marred \/ (Insertable(w) /\ Matches(rows[w.id], w))
      /\ \A i \in Ids \ marred : i # w.id => Settled(i)
      /\ w.id \in marred \/ Mine(w.id) = {w, v}
  BY <1>1, <1>2, <1>3 DEF RenameInv, Renaming
<1>5. /\ rows' \in [Ids -> Row \union {None}]
      /\ \A i \in Ids :
            /\ rows[i] = None <=> rows'[i] = None
            /\ rows[i] # None =>
                  /\ rows'[i].links = Swap(rows[i].links, w.name, v.name)
                  /\ i # w.id => rows'[i].name = rows[i].name /\ rows'[i].hash = rows[i].hash
                  /\ i = w.id => rows'[i].name = v.name /\ rows'[i].hash = v
  BY <1>2, <1>3, FollowedRows
<1>6. RowsLead'
  BY <1>1, <1>3, <1>4, <1>5 DEF RowsLead, HasFile, FileOf
<1>7. AllBorn'
  BY <1>1, <1>3, <1>5, SameFiles DEF AllBorn
<1>8. ASSUME NEW i \in Ids PROVE Mine(i)' = Mine(i) /\ Safe(i)'
  <2>1. Mine(i)' = Mine(i)
    BY <1>1, SameFiles
  <2>2. QED
    BY <1>1, <1>5, <2>1 DEF LocalInv, Safe
<1>9. ASSUME NEW i \in Ids \ marred, i # w.id
      PROVE  Follows(i, rows'[i], Mine(i), w.name, v.name, 0)
  <2>1. Settled(i)
    BY <1>4, <1>9
  <2>2. CASE (rows[i] = None \/ i \in stale) /\ Mine(i) = {}
    BY <1>5, <2>2 DEF Follows
  <2>3. CASE \E t \in Mine(i) : Mine(i) = {t} /\ Insertable(t) /\ Matches(rows[i], t)
    <3>1. PICK t \in Mine(i) : Mine(i) = {t} /\ Insertable(t) /\ Matches(rows[i], t)
      BY <2>3
    <3>2. /\ t.id = i /\ t.name \in Names /\ files[t.name] = t
      BY <1>3, <3>1, MineIs
    <3>3. t.name # w.name /\ t.name # v.name
      BY <1>3, <1>4, <1>9, <3>2
    <3>4. /\ rows'[i] # None /\ rows'[i].name = t.name /\ rows'[i].hash = rows[i].hash
          /\ rows'[i].links = Swap(rows[i].links, w.name, v.name)
      BY <1>5, <1>9, <3>1 DEF Matches
    <3>5. CASE i \in stale
      BY <3>1, <3>4, <3>5 DEF Follows
    <3>6. CASE i \notin stale
      <4>1. /\ rows[i].hash = t
            /\ t.name \notin rows[i].links => rows[i].links = RowLinks(t)
        BY <3>1, <3>2, <3>6 DEF Matches
      <4>2. t.name \notin rows'[i].links => t.name \notin rows[i].links
        BY <1>3, <3>3, <3>4, SwapIs
      <4>3. t.name \notin rows'[i].links => rows'[i].links = Swap(RowLinks(t), w.name, v.name)
        BY <3>4, <4>1, <4>2
      <4>4. QED
        BY <3>1, <3>4, <4>1, <4>3 DEF Follows
    <3>7. QED
      BY <3>5, <3>6
  <2>4. QED
    BY <2>1, <2>2, <2>3 DEF Settled, Fits
<1>10. /\ job' \in Job /\ job'.step = "unlink" /\ job'.kind = "rename"
       /\ job'.changes = job.changes
  BY <1>1, <1>3, GotoIs
<1>11. Was' = w /\ Now' = v /\ Late' = 0
  BY <1>2, <1>10, SameChanges DEF Late
<1>12. w.id \in marred \/ (Insertable(v) /\ Matches(rows'[w.id], v))
  <2>1. CASE w.id \notin marred
    <3>1. Insertable(w) /\ Matches(rows[w.id], w)
      BY <1>4, <2>1
    <3>2. Insertable(v)
      BY <1>4, <3>1 DEF Insertable
    <3>3. /\ rows'[w.id] # None /\ rows'[w.id].name = v.name /\ rows'[w.id].hash = v
          /\ rows'[w.id].links = Swap(rows[w.id].links, w.name, v.name)
      BY <1>3, <1>5
    <3>4. v.name \notin rows'[w.id].links => w.name \notin rows[w.id].links
      BY <1>3, <3>3, SwapIs
    <3>5. RowLinks(v) = RowLinks(w)
      BY <1>4 DEF RowLinks
    <3>6. ASSUME w.id \notin stale, v.name \notin rows'[w.id].links
          PROVE  rows'[w.id].links = RowLinks(v)
      <4>1. w.name \notin rows[w.id].links => rows[w.id].links = RowLinks(w)
        BY <3>1, <3>6 DEF Matches
      <4>2. QED
        BY <1>3, <3>3, <3>4, <3>5, <3>6, <4>1, SwapIs
    <3>7. QED
      BY <1>3, <3>2, <3>3, <3>6 DEF Matches
  <2>2. QED
    BY <2>1
<1>13. \A i \in Ids : rows'[i] # None => w.name \notin rows'[i].links
  BY <1>3, <1>5, SwapIs
<1>14. Renamed'
  <2>1. ASSUME NEW i \in Ids \ marred', i # w.id
        PROVE  Follows(i, rows[i], Mine(i), w.name, v.name, 0)'
    <3>1. Follows(i, rows'[i], Mine(i), w.name, v.name, 0)
      BY <1>1, <1>9, <2>1
    <3>2. QED
      BY <1>1, <1>8, <3>1 DEF Follows
  <2>2. (w.id \in marred \/ (Insertable(v) /\ Matches(rows[w.id], v)))'
    BY <1>1, <1>12 DEF Matches
  <2>3. QED
    BY <1>1, <1>3, <1>5, <1>11, <1>13, <2>1, <2>2 DEF Renamed
<1>15. (Was.id \in marred \/ Mine(Was.id) = {Was, Now})'
  <2>1. (w.id \in marred \/ Mine(w.id) = {w, v})'
    BY <1>1, <1>3, <1>4, <1>8
  <2>2. QED
    BY <1>11, <2>1 DEF Mine
<1>16. RenameInv'
  BY <1>1, <1>2, <1>3, <1>4, <1>5, <1>10, <1>11, <1>14, <1>15 DEF RenameInv
<1>17. JobInv'
  BY <1>10, <1>16 DEF JobInv, Editing, Steps
<1>18. TypeOK'
  BY <1>1, <1>3, <1>5, <1>10 DEF TypeOK
<1>19. OriginalsKept'
  BY <1>1 DEF LocalInv, OriginalsKept
<1>20. QED
  BY <1>6, <1>7, <1>8, <1>17, <1>18, <1>19 DEF LocalInv

(* Once the index has followed, the other memories do too. *)
LEMMA RenamedIs ==
    ASSUME LocalInv, job.kind = "rename", job.step \in {"unlink", "refs", "hash"}
    PROVE  /\ files[Now.name] = Now
           /\ rows[Was.id].name = Now.name
           /\ Was.id \in marred \/ (Insertable(Now) /\ Matches(rows[Was.id], Now))
           /\ \A i \in Ids : rows[i] # None => Was.name \notin rows[i].links
           /\ \A i \in Ids \ marred :
                 i # Was.id => Follows(i, rows[i], Mine(i), Was.name, Now.name, Late)
           /\ job.step = "unlink" => /\ files[Was.name] = Was
                                     /\ Was.id \in marred \/ Mine(Was.id) = {Was, Now}
           /\ job.step # "unlink" => Was.id \in marred \/ Mine(Was.id) = {Now}
           /\ job.step = "hash" => job.at \in Names \ {Now.name} /\ files[job.at] # None
  BY RenameIs DEF RenameInv, Renamed

LEMMA UnlinkRenameKeeps ==
    ASSUME LocalInv, Unlink, job.kind = "rename"
    PROVE  LocalInv'
<1>1. /\ job.step = "unlink" /\ Puts(Was.name, None) /\ Goto("refs")
      /\ UNCHANGED <<rows, revs, bodies, applied, restarts, born, kept, gone, replaced, marred, stale>>
  BY DEF Unlink, Puts, history
<1>2. PICK w \in Text, v \in Text : w = Was /\ v = Now
  BY RenameIs
<1>3. /\ TypeOK /\ FilesTyped /\ RowsLead /\ AllBorn /\ job \in Job /\ RenameInv
      /\ w # None /\ v # None /\ w.id \in Ids /\ v.id = w.id
      /\ w.name \in Names /\ v.name \in Names /\ w.name # v.name
      /\ w.id \in born /\ w.id \notin gone \ marred
      /\ w.rev \in Nat /\ v.rev \in Nat /\ w.rev < v.rev
      /\ w.id \in marred \/ kept[w.id] <= w.rev
      /\ rows[w.id] # None /\ kept[w.id] \in Nat /\ Len(job.changes) = 1
  BY <1>1, <1>2, RenameIs
<1>4. /\ files[v.name] = v /\ files[w.name] = w
      /\ rows[w.id].name = v.name
      /\ w.id \in marred \/ (Insertable(v) /\ Matches(rows[w.id], v))
      /\ \A i \in Ids : rows[i] # None => w.name \notin rows[i].links
      /\ \A i \in Ids \ marred : i # w.id => Follows(i, rows[i], Mine(i), w.name, v.name, Late)
      /\ w.id \in marred \/ Mine(w.id) = {w, v}
  BY <1>1, <1>2, RenamedIs
<1>5. Puts(w.name, None)
  BY <1>1, <1>2
<1>6. /\ FilesTyped' /\ RowsLead' /\ AllBorn'
      /\ \A m \in Names : m # w.name => files'[m] = files[m]
  BY <1>1, <1>4, <1>5, RemoveFile
<1>7. ASSUME NEW i \in Ids
      PROVE  /\ i # w.id => Mine(i)' = Mine(i)
             /\ Mine(i)' = Mine(i) \ {w}
  BY <1>3, <1>4, <1>5, RemoveMine
<1>8. w.id \notin marred => Mine(w.id)' = {v}
  BY <1>3, <1>4, <1>7
<1>9. ASSUME NEW i \in Ids PROVE Safe(i)'
  <2>1. Safe(i)
    BY DEF LocalInv
  <2>2. CASE i # w.id
    BY <1>1, <1>7, <2>1, <2>2 DEF Safe
  <2>3. CASE i = w.id /\ i \notin marred
    <3>1. Mine(i)' = {v} /\ i \notin gone /\ v.rev >= kept[i]
      BY <1>3, <1>8, <2>3
    <3>2. QED
      BY <1>1, <3>1 DEF Safe
  <2>4. CASE i \in marred
    BY <1>1, <2>4 DEF Safe
  <2>5. QED
    BY <2>2, <2>3, <2>4
<1>10. /\ job' \in Job /\ job'.step = "refs" /\ job'.kind = "rename"
       /\ job'.changes = job.changes
  BY <1>1, <1>3, GotoIs
<1>11. Was' = w /\ Now' = v /\ Late' = 0 /\ Late = 0
  BY <1>1, <1>2, <1>10, SameChanges DEF Late
<1>12. Renamed'
  <2>1. ASSUME NEW i \in Ids \ marred', i # w.id
        PROVE  Follows(i, rows[i], Mine(i), w.name, v.name, 0)'
    <3>1. Follows(i, rows[i], Mine(i), w.name, v.name, 0)
      BY <1>1, <1>4, <1>11, <2>1
    <3>2. QED
      BY <1>1, <1>7, <2>1, <3>1 DEF Follows
  <2>2. (w.id \in marred \/ (Insertable(v) /\ Matches(rows[w.id], v)))'
    BY <1>1, <1>4 DEF Matches
  <2>3. QED
    BY <1>1, <1>3, <1>4, <1>11, <2>1, <2>2 DEF Renamed
<1>13. (Was.id \in marred \/ Mine(Was.id) = {Now})'
  <2>1. (w.id \in marred \/ Mine(w.id) = {v})'
    BY <1>1, <1>8
  <2>2. QED
    BY <1>11, <2>1 DEF Mine
<1>14. RenameInv'
  BY <1>1, <1>2, <1>3, <1>4, <1>6, <1>10, <1>11, <1>12, <1>13 DEF RenameInv
<1>15. JobInv'
  BY <1>10, <1>14 DEF JobInv, Editing, Steps
<1>16. TypeOK'
  BY <1>1, <1>3, <1>6, <1>10 DEF TypeOK, FilesTyped
<1>17. OriginalsKept'
  BY <1>1 DEF LocalInv, OriginalsKept
<1>18. QED
  BY <1>6, <1>9, <1>15, <1>16, <1>17 DEF LocalInv

LEMMA UnlinkKeeps ==
    ASSUME LocalInv, Unlink
    PROVE  LocalInv'
<1>1. job.step = "unlink"
  BY DEF Unlink
<1>2. job.kind \in {"forget", "rename"}
  BY <1>1, JobOf, JobIs
<1>3. QED
  BY <1>2, UnlinkForgetKeeps, UnlinkRenameKeeps

LEMMA RewriteReferenceKeeps ==
    ASSUME LocalInv, RewriteReference
    PROVE  LocalInv'
<1>1. /\ job.step = "refs"
      /\ UNCHANGED <<rows, revs, bodies, applied, restarts, born, kept, gone, replaced, stale>>
  BY DEF RewriteReference
<1>2. job.kind = "rename"
  BY <1>1, JobOf, JobIs
<1>3. PICK w \in Text, v \in Text : w = Was /\ v = Now
  BY <1>2, RenameIs
<1>4. /\ TypeOK /\ FilesTyped /\ RowsLead /\ AllBorn /\ job \in Job /\ RenameInv
      /\ w # None /\ v # None /\ w.id \in Ids /\ v.id = w.id
      /\ w.name \in Names /\ v.name \in Names /\ w.name # v.name
      /\ w.id \in born /\ w.id \notin gone \ marred
      /\ w.rev \in Nat /\ v.rev \in Nat /\ w.rev < v.rev
      /\ w.id \in marred \/ kept[w.id] <= w.rev
      /\ rows[w.id] # None /\ kept[w.id] \in Nat /\ Len(job.changes) = 1
  BY <1>2, <1>3, RenameIs
<1>5. /\ files[v.name] = v
      /\ rows[w.id].name = v.name
      /\ w.id \in marred \/ (Insertable(v) /\ Matches(rows[w.id], v))
      /\ \A i \in Ids : rows[i] # None => w.name \notin rows[i].links
      /\ \A i \in Ids \ marred : i # w.id => Follows(i, rows[i], Mine(i), w.name, v.name, 0)
      /\ w.id \in marred \/ Mine(w.id) = {v}
  BY <1>1, <1>2, <1>3, RenamedIs DEF Late
<1>6. PICK n \in Referring :
         /\ files' = [files EXCEPT ![n] = Rewritten(files[n])]
         /\ marred' = IF Insertable(Rewritten(files[n])) THEN marred
                      ELSE marred \union {files[n].id}
         /\ job' = [job EXCEPT !.step = "hash", !.at = n]
  BY <1>3 DEF RewriteReference
<1>7. PICK t \in Text : /\ t = files[n] /\ t.name = n /\ n \in Names /\ n # v.name
                        /\ t \in Present /\ w.name \in t.links
  BY <1>3, <1>4, <1>6, PresentFiles DEF Referring
<1>8. t.id \in Ids /\ t \in Mine(t.id) /\ t # None /\ t.id \in born
  BY <1>4, <1>7, MineIs, TextFields DEF AllBorn
<1>9. PICK u : u = Rewritten(t)
  OBVIOUS
<1>10. /\ u \in Text /\ u.id = t.id /\ u.name = n /\ u.rev = t.rev /\ u # None
       /\ u.links = Swap(t.links, w.name, v.name) /\ u.status = t.status
  <2>1. Swap(t.links, w.name, v.name) \subseteq Names
    BY <1>4, TextFields DEF Swap
  <2>2. (t.doubled \/ v.name \in t.links) \in BOOLEAN
    BY TextFields
  <2>3. u = [t EXCEPT !.links = Swap(t.links, w.name, v.name),
                      !.doubled = t.doubled \/ v.name \in t.links]
    BY <1>3, <1>9 DEF Rewritten
  <2>4. u \in Text /\ u.id = t.id /\ u.name = n /\ u.rev = t.rev
    BY <1>7, <2>1, <2>2, <2>3 DEF Text
  <2>5. QED
    BY <2>3, <2>4, TextFields DEF Text
<1>11. Puts(n, u)
  BY <1>6, <1>7, <1>9 DEF Puts
<1>12. /\ FilesTyped' /\ files'[n] = u
       /\ \A m \in Names \ {n} : files'[m] = files[m]
       /\ Present' = (Present \ {files[n]}) \union ({u} \ {None})
  BY <1>4, <1>7, <1>10, <1>11, OneFile
<1>13. marred \subseteq marred' /\ marred' \subseteq marred \union {t.id}
       /\ (t.id \notin marred' => Insertable(u))
  BY <1>6, <1>7, <1>9
<1>14. RowsLead'
  <2>1. \A i \in Ids : rows[i] # None => rows[i].name \in Names
    BY <1>4, Typed
  <2>2. QED
    BY <1>1, <1>4, <1>7, <1>8, <1>10, <1>12, <2>1 DEF RowsLead, HasFile, FileOf
<1>15. AllBorn'
  BY <1>1, <1>4, <1>8, <1>10, <1>12 DEF AllBorn
<1>16. ASSUME NEW i \in Ids
       PROVE  /\ i # t.id => Mine(i)' = Mine(i)
              /\ i = t.id => Mine(i)' = (Mine(i) \ {t}) \union {u}
  <2>1. Mine(i)' = (Mine(i) \ {files[n]}) \union (IF u # None /\ u.id = i THEN {u} ELSE {})
    BY <1>4, <1>7, <1>10, <1>11, OneFileMine
  <2>2. i # t.id => t \notin Mine(i)
    BY DEF Mine
  <2>3. QED
    BY <1>7, <1>10, <2>1, <2>2
<1>17. ASSUME NEW i \in Ids PROVE Safe(i)'
  <2>1. Safe(i)
    BY DEF LocalInv
  <2>2. CASE i # t.id
    BY <1>1, <1>13, <1>16, <2>1, <2>2 DEF Safe
  <2>3. CASE i = t.id
    <3>1. i \in marred \/ i \notin gone
      BY <1>8, <2>1, <2>3 DEF Safe
    <3>2. kept[i] > 0 /\ i \notin marred => \E x \in Mine(i)' : x.rev >= kept[i]
      <4>1. ASSUME kept[i] > 0, i \notin marred PROVE \E x \in Mine(i)' : x.rev >= kept[i]
        <5>1. PICK x \in Mine(i) : x.rev >= kept[i]
          BY <2>1, <4>1 DEF Safe
        <5>2. CASE x = t
          BY <1>10, <1>16, <2>3, <5>1, <5>2
        <5>3. CASE x # t
          BY <1>16, <2>3, <5>1, <5>3
        <5>4. QED
          BY <5>2, <5>3
      <4>2. QED
        BY <4>1
    <3>3. QED
      BY <1>1, <1>13, <3>1, <3>2 DEF Safe
  <2>4. QED
    BY <2>2, <2>3
<1>18. w.id = t.id => w.id \in marred
  BY <1>5, <1>7, <1>8
<1>19. ASSUME NEW i \in Ids, i \notin marred', i # w.id
       PROVE  Follows(i, rows[i], Mine(i)', w.name, v.name, n)
  <2>1. Follows(i, rows[i], Mine(i), w.name, v.name, 0)
    BY <1>5, <1>13, <1>19
  <2>2. \A m \in Names : m # 0
    BY DEF Names
  <2>3. CASE i # t.id
    <3>1. Mine(i)' = Mine(i)
      BY <1>16, <2>3
    <3>2. \A x \in Mine(i) : x.name # 0
      BY <1>4, <2>2, MineIs
    <3>3. QED
      BY <2>1, <3>1, <3>2 DEF Follows
  <2>4. CASE i = t.id
    <3>1. /\ Mine(i) = {t} /\ rows[i] # None /\ rows[i].name = n
          /\ i \notin stale /\ n \notin rows[i].links =>
               rows[i].links = Swap(RowLinks(t), w.name, v.name)
      BY <1>7, <1>8, <2>1, <2>4 DEF Follows
    <3>2. Mine(i)' = {u}
      BY <1>16, <2>4, <3>1
    <3>3. Insertable(u)
      BY <1>13, <1>19, <2>4
    <3>4. Swap(RowLinks(u), w.name, v.name) = Swap(RowLinks(t), w.name, v.name)
      BY <1>4, <1>10, SwapIs DEF RowLinks
    <3>5. QED
      BY <1>10, <3>1, <3>2, <3>3, <3>4 DEF Follows
  <2>5. QED
    BY <2>3, <2>4
<1>20. /\ job' \in Job /\ job'.step = "hash" /\ job'.kind = "rename"
       /\ job'.changes = job.changes /\ job'.at = n
  <2>1. n \in Nat
    BY <1>7, BoundsAssumption DEF Names
  <2>2. QED
    BY <1>2, <1>4, <1>6, <2>1 DEF Job
<1>21. Was' = w /\ Now' = v /\ Late' = n
  BY <1>3, <1>20, SameChanges DEF Late
<1>22. Renamed'
  <2>1. ASSUME NEW i \in Ids \ marred', i # w.id
        PROVE  Follows(i, rows[i], Mine(i), w.name, v.name, n)'
    <3>1. Follows(i, rows[i], Mine(i)', w.name, v.name, n)
      BY <1>19, <2>1
    <3>2. QED
      BY <1>1, <3>1 DEF Follows
  <2>2. (w.id \in marred \/ (Insertable(v) /\ Matches(rows[w.id], v)))'
    BY <1>1, <1>5, <1>13 DEF Matches
  <2>3. QED
    BY <1>1, <1>4, <1>5, <1>13, <1>21, <2>1, <2>2 DEF Renamed
<1>23. (Was.id \in marred \/ Mine(Was.id) = {Now})'
  <2>1. (w.id \in marred \/ Mine(w.id) = {v})'
    BY <1>4, <1>5, <1>13, <1>16, <1>18
  <2>2. QED
    BY <1>21, <2>1 DEF Mine
<1>24. RenameInv'
  <2>1. w.links = v.links /\ w.doubled = v.doubled /\ w.status = v.status
    BY <1>3, <1>4 DEF RenameInv
  <2>2. files'[v.name] = v /\ files'[n] # None
    BY <1>4, <1>5, <1>7, <1>10, <1>12
  <2>3. QED
    BY <1>1, <1>4, <1>7, <1>13, <1>20, <1>21, <1>22, <1>23, <2>1, <2>2 DEF RenameInv
<1>25. JobInv'
  BY <1>20, <1>24 DEF JobInv, Editing, Steps
<1>26. TypeOK'
  BY <1>1, <1>4, <1>8, <1>12, <1>13, <1>20 DEF TypeOK, FilesTyped
<1>27. OriginalsKept'
  BY <1>1 DEF LocalInv, OriginalsKept
<1>28. QED
  BY <1>14, <1>15, <1>17, <1>25, <1>26, <1>27 DEF LocalInv

LEMMA UpdateHashKeeps ==
    ASSUME LocalInv, UpdateHash
    PROVE  LocalInv'
<1>1. /\ job.step = "hash"
      /\ rows' = [rows EXCEPT ![files[job.at].id] =
                    IF @ = None THEN None ELSE [@ EXCEPT !.hash = files[job.at]]]
      /\ job' = [job EXCEPT !.step = "refs", !.at = 1]
      /\ UNCHANGED <<files, revs, bodies, applied, restarts, born, kept, gone, replaced, marred, stale>>
  BY DEF UpdateHash, history
<1>2. job.kind = "rename"
  BY <1>1, JobOf, JobIs
<1>3. PICK w \in Text, v \in Text : w = Was /\ v = Now
  BY <1>2, RenameIs
<1>4. /\ TypeOK /\ FilesTyped /\ RowsLead /\ AllBorn /\ job \in Job /\ RenameInv
      /\ w # None /\ v # None /\ w.id \in Ids /\ v.id = w.id
      /\ w.name \in Names /\ v.name \in Names /\ w.name # v.name
      /\ w.id \in born /\ w.id \notin gone \ marred
      /\ w.rev \in Nat /\ v.rev \in Nat /\ w.rev < v.rev
      /\ w.id \in marred \/ kept[w.id] <= w.rev
      /\ rows[w.id] # None /\ kept[w.id] \in Nat /\ Len(job.changes) = 1
  BY <1>2, <1>3, RenameIs
<1>5. PICK n \in Names : n = job.at /\ n # v.name /\ files[n] # None
  BY <1>1, <1>2, <1>3, RenamedIs
<1>6. /\ files[v.name] = v
      /\ rows[w.id].name = v.name
      /\ w.id \in marred \/ (Insertable(v) /\ Matches(rows[w.id], v))
      /\ \A i \in Ids : rows[i] # None => w.name \notin rows[i].links
      /\ \A i \in Ids \ marred : i # w.id => Follows(i, rows[i], Mine(i), w.name, v.name, n)
      /\ w.id \in marred \/ Mine(w.id) = {v}
  BY <1>1, <1>2, <1>3, <1>5, RenamedIs DEF Late
<1>7. PICK t \in Text : t = files[n] /\ t.name = n /\ t \in Present
  BY <1>4, <1>5, PresentFiles
<1>8. t.id \in Ids /\ t \in Mine(t.id) /\ t # None
  BY <1>4, <1>7, MineIs, TextFields
<1>9. \A i \in Ids : rows[i] # None => rows[i] \in Row
  BY <1>4, Typed
<1>10. ASSUME NEW r \in Row
       PROVE  /\ [r EXCEPT !.hash = t] \in Row /\ [r EXCEPT !.hash = t].hash = t
              /\ [r EXCEPT !.hash = t].name = r.name /\ [r EXCEPT !.hash = t].links = r.links
              /\ [r EXCEPT !.hash = t] # None
  <2>1. [r EXCEPT !.hash = t] \in Row
    BY DEF Row
  <2>2. QED
    BY <2>1, NoneAssumption DEF Row
<1>11. /\ rows' \in [Ids -> Row \union {None}]
       /\ \A i \in Ids \ {t.id} : rows'[i] = rows[i]
       /\ rows[t.id] = None <=> rows'[t.id] = None
       /\ rows[t.id] # None => /\ rows'[t.id].hash = t /\ rows'[t.id].name = rows[t.id].name
                               /\ rows'[t.id].links = rows[t.id].links
  <2>1. rows' = [rows EXCEPT ![t.id] = IF rows[t.id] = None THEN None
                                       ELSE [rows[t.id] EXCEPT !.hash = t]]
    BY <1>1, <1>5, <1>7
  <2>2. PICK r : r = IF rows[t.id] = None THEN None ELSE [rows[t.id] EXCEPT !.hash = t]
    OBVIOUS
  <2>3. rows' = [rows EXCEPT ![t.id] = r]
    BY <2>1, <2>2
  <2>4. /\ rows[t.id] = None => r = None
        /\ rows[t.id] # None => /\ r \in Row /\ r # None /\ r.hash = t
                                /\ r.name = rows[t.id].name /\ r.links = rows[t.id].links
    BY <1>8, <1>9, <1>10, <2>2
  <2>5. r \in Row \union {None}
    BY <2>4
  <2>6. rows'[t.id] = r /\ rows' \in [Ids -> Row \union {None}] /\ \A i \in Ids \ {t.id} : rows'[i] = rows[i]
    BY <1>4, <1>8, <2>3, <2>5 DEF TypeOK
  <2>7. QED
    BY <2>4, <2>6
<1>12. RowsLead'
  <2>1. \A i \in Ids : /\ rows'[i] = None <=> rows[i] = None
                       /\ rows'[i] # None => rows'[i].name = rows[i].name
    BY <1>11
  <2>2. \A i \in Ids : rows[i] # None /\ files[rows[i].name] # None
                          => files[rows[i].name].id = i
    BY <1>4 DEF RowsLead, HasFile, FileOf
  <2>3. files' = files
    BY <1>1
  <2>4. QED
    BY <2>1, <2>2, <2>3 DEF RowsLead, HasFile, FileOf
<1>13. AllBorn'
  BY <1>1, <1>4, <1>11, SameFiles DEF AllBorn
<1>14. ASSUME NEW i \in Ids PROVE Mine(i)' = Mine(i) /\ Safe(i)'
  <2>1. Mine(i)' = Mine(i)
    BY <1>1, SameFiles
  <2>2. QED
    BY <1>1, <1>11, <2>1 DEF LocalInv, Safe
<1>15. w.id = t.id => w.id \in marred
  BY <1>5, <1>6, <1>7, <1>8
<1>16. ASSUME NEW i \in Ids, i \notin marred, i # w.id
       PROVE  Follows(i, rows'[i], Mine(i), w.name, v.name, 0)
  <2>1. Follows(i, rows[i], Mine(i), w.name, v.name, n)
    BY <1>6, <1>16
  <2>2. CASE (rows[i] = None \/ i \in stale) /\ Mine(i) = {}
    BY <1>11, <2>2 DEF Follows
  <2>3. CASE Mine(i) # {}
    <3>1. PICK x \in Mine(i) :
             /\ Mine(i) = {x} /\ Insertable(x) /\ rows[i] # None /\ rows[i].name = x.name
             /\ \/ i \in stale
                \/ /\ rows[i].hash = x \/ n = x.name
                   /\ x.name \notin rows[i].links =>
                        rows[i].links = Swap(RowLinks(x), w.name, v.name)
      BY <2>1, <2>3 DEF Follows
    <3>2. files[x.name] = x /\ x.id = i
      BY <1>4, <3>1, MineIs
    <3>3. CASE i = t.id
      <4>1. x = t
        BY <1>8, <3>1, <3>3
      <4>2. QED
        BY <1>11, <2>3, <3>1, <3>3, <4>1 DEF Follows
    <3>4. CASE i # t.id
      <4>1. n # x.name
        BY <1>7, <3>2, <3>4
      <4>2. QED
        BY <1>11, <2>3, <3>1, <3>4, <4>1 DEF Follows
    <3>5. QED
      BY <3>3, <3>4
  <2>4. QED
    BY <2>1, <2>2, <2>3 DEF Follows
<1>17. /\ job' \in Job /\ job'.step = "refs" /\ job'.kind = "rename"
       /\ job'.changes = job.changes
  BY <1>1, <1>2, <1>4 DEF Job
<1>18. Was' = w /\ Now' = v /\ Late' = 0
  BY <1>3, <1>17, SameChanges DEF Late
<1>19. w.id \in marred \/ (Insertable(v) /\ Matches(rows'[w.id], v))
  <2>1. w.id \notin marred => rows'[w.id] = rows[w.id]
    BY <1>4, <1>11, <1>15
  <2>2. QED
    BY <1>6, <2>1
<1>20. Renamed'
  <2>1. ASSUME NEW i \in Ids \ marred', i # w.id
        PROVE  Follows(i, rows[i], Mine(i), w.name, v.name, 0)'
    <3>1. Follows(i, rows'[i], Mine(i), w.name, v.name, 0)
      BY <1>1, <1>16, <2>1
    <3>2. QED
      BY <1>1, <1>14, <3>1 DEF Follows
  <2>2. /\ rows'[w.id].name = v.name
        /\ \A i \in Ids : rows'[i] # None => w.name \notin rows'[i].links
    BY <1>4, <1>6, <1>8, <1>11
  <2>3. (w.id \in marred \/ (Insertable(v) /\ Matches(rows[w.id], v)))'
    BY <1>1, <1>19 DEF Matches
  <2>4. QED
    BY <1>1, <1>4, <1>18, <2>1, <2>2, <2>3 DEF Renamed
<1>21. (Was.id \in marred \/ Mine(Was.id) = {Now})'
  <2>1. (w.id \in marred \/ Mine(w.id) = {v})'
    BY <1>1, <1>4, <1>6, <1>14
  <2>2. QED
    BY <1>18, <2>1 DEF Mine
<1>22. RenameInv'
  <2>1. w.links = v.links /\ w.doubled = v.doubled /\ w.status = v.status
    BY <1>3, <1>4 DEF RenameInv
  <2>2. rows'[w.id] # None
    BY <1>4, <1>8, <1>11
  <2>3. QED
    BY <1>1, <1>4, <1>6, <1>17, <1>18, <1>20, <1>21, <2>1, <2>2 DEF RenameInv
<1>23. JobInv'
  BY <1>17, <1>22 DEF JobInv, Editing, Steps
<1>24. TypeOK'
  BY <1>1, <1>4, <1>11, <1>17 DEF TypeOK
<1>25. OriginalsKept'
  BY <1>1 DEF LocalInv, OriginalsKept
<1>26. QED
  BY <1>12, <1>13, <1>14, <1>23, <1>24, <1>25 DEF LocalInv

LEMMA FinishRenameKeeps ==
    ASSUME LocalInv, FinishRename
    PROVE  LocalInv'
<1>1. /\ job.step = "refs" /\ Referring = {} /\ job' = Idle
      /\ kept' = Acknowledged(job.changes)
      /\ UNCHANGED <<files, rows, revs, bodies, applied, restarts, born, gone, replaced, marred, stale>>
  BY DEF FinishRename, disk
<1>2. job.kind = "rename"
  BY <1>1, JobOf, JobIs
<1>3. PICK w \in Text, v \in Text : w = Was /\ v = Now
  BY <1>2, RenameIs
<1>4. /\ TypeOK /\ FilesTyped /\ RowsLead /\ AllBorn /\ job \in Job /\ RenameInv
      /\ w # None /\ v # None /\ w.id \in Ids /\ v.id = w.id
      /\ w.name \in Names /\ v.name \in Names /\ w.name # v.name
      /\ w.id \in born /\ w.id \notin gone \ marred
      /\ v.rev \in Nat /\ Len(job.changes) = 1
  BY <1>2, <1>3, RenameIs
<1>5. /\ files[v.name] = v
      /\ w.id \in marred \/ (Insertable(v) /\ Matches(rows[w.id], v))
      /\ \A i \in Ids \ marred : i # w.id => Follows(i, rows[i], Mine(i), w.name, v.name, 0)
      /\ w.id \in marred \/ Mine(w.id) = {v}
  BY <1>1, <1>2, <1>3, RenamedIs DEF Late
<1>6. 1 \in Places /\ (\A k \in Places : k = 1) /\ New(1) = v
  BY <1>3, <1>4 DEF Places, New, Now
<1>7. /\ kept' \in [Ids -> 0..MaxRev] /\ kept'[w.id] = v.rev
      /\ \A i \in Ids : i # w.id => kept'[i] = kept[i]
  BY <1>1, <1>4, <1>6, AcknowledgedIs
<1>8. \A n \in Names : n # v.name /\ files[n] # None => w.name \notin files[n].links
  BY <1>1, <1>3 DEF Referring
<1>9. RowsLead'
  BY <1>1, <1>4 DEF RowsLead, HasFile, FileOf
<1>10. AllBorn'
  BY <1>1, <1>4, <1>7, SameFiles DEF AllBorn
<1>11. ASSUME NEW i \in Ids PROVE Safe(i)' /\ (i \notin marred => Settled(i)')
  <2>1. Mine(i)' = Mine(i)
    BY <1>1, SameFiles
  <2>2. CASE i = w.id
    <3>1. Safe(i)'
      BY <1>1, <1>4, <1>5, <1>7, <2>1, <2>2 DEF Safe
    <3>2. i \notin marred => Settled(i)'
      <4>1. i \notin marred => Settled(i)
        BY <1>5, <2>2 DEF Settled, Fits
      <4>2. QED
        BY <1>1, <2>1, <4>1, SettledStays
    <3>3. QED
      BY <3>1, <3>2
  <2>3. CASE i # w.id
    <3>1. Safe(i)'
      BY <1>1, <1>7, <2>1, <2>3 DEF LocalInv, Safe
    <3>2. ASSUME i \notin marred PROVE Settled(i)'
      <4>1. Follows(i, rows[i], Mine(i), w.name, v.name, 0)
        BY <1>5, <2>3, <3>2
      <4>2. ASSUME NEW t \in Mine(i)
            PROVE  t.name # 0 /\ t.id = i /\ Swap(RowLinks(t), w.name, v.name) = RowLinks(t)
        <5>1. /\ t.id = i /\ t.name \in Names /\ files[t.name] = t /\ t # None
          BY <1>4, MineIs, TextFields
        <5>2. t.name # v.name /\ t.name # 0
          BY <1>4, <1>5, <2>3, <5>1 DEF Names
        <5>3. w.name \notin t.links
          BY <1>8, <5>1, <5>2
        <5>4. QED
          BY <1>4, <5>1, <5>2, <5>3, SwapIs DEF RowLinks
      <4>3. Fits(i, rows[i], Mine(i))
        BY <4>1, <4>2 DEF Follows, Fits, Matches
      <4>4. Settled(i)' <=> Settled(i)
        BY <1>1, <2>1, SettledStays
      <4>5. QED
        BY <4>3, <4>4 DEF Settled
    <3>3. QED
      BY <3>1, <3>2
  <2>4. QED
    BY <2>2, <2>3
<1>12. JobInv'
  BY <1>1, <1>11, IdleAgain
<1>13. TypeOK'
  BY <1>1, <1>4, <1>7, IdleIs DEF TypeOK
<1>14. OriginalsKept'
  BY <1>1 DEF LocalInv, OriginalsKept
<1>15. QED
  BY <1>9, <1>10, <1>11, <1>12, <1>13, <1>14 DEF LocalInv

-----------------------------------------------------------------------------
(* The index is brought back to the files.                                 *)

LEMMA ReconciledIs ==
    ASSUME FilesTyped, NEW before, Leads(before)
    PROVE  /\ Reconciled(before) \in [Ids -> Row \union {None}]
           /\ \A i \in Ids :
                /\ Mine(i) = {} => Reconciled(before)[i] = None
                /\ \/ Reconciled(before)[i] = None
                   \/ \E t \in Mine(i) : Insertable(t) /\ Reconciled(before)[i] = RowOf(t)
                   \/ /\ Reconciled(before)[i] = before[i] /\ Mine(i) # {}
                      /\ \A t \in Mine(i) : ~Insertable(t)
                /\ Mine(i) # {} => Reconciled(before)[i] = Scanned(before)[i]
<1>1. Reconciled(before) = [i \in Ids |-> IF \E t \in Present : t.id = i
                                          THEN Scanned(before)[i] ELSE None]
  BY DEF Reconciled
<1>2. \A i \in Ids : (\E t \in Present : t.id = i) <=> Mine(i) # {}
  BY DEF Mine
<1>3. /\ Scanned(before) \in [Ids -> Row \union {None}]
      /\ \A i \in Ids :
           \/ \E t \in Mine(i) : Insertable(t) /\ Scanned(before)[i] = RowOf(t)
           \/ /\ Scanned(before)[i] = before[i]
              /\ \A t \in Mine(i) : ~Insertable(t)
  BY ScanResult
<1>4. \A i \in Ids : /\ Reconciled(before)[i] = IF Mine(i) # {} THEN Scanned(before)[i] ELSE None
                     /\ Reconciled(before)[i] \in Row \union {None}
  BY <1>1, <1>2, <1>3
<1>5. Reconciled(before) \in [Ids -> Row \union {None}]
  BY <1>1, <1>4
<1>6. QED
  BY <1>3, <1>4, <1>5

(* Whatever was in the files, the rows then lead to them. *)
LEMMA AfterReconcile ==
    ASSUME LocalInv, NEW before, Leads(before), rows' = Reconciled(before),
           UNCHANGED <<files, kept, gone, born>>, marred \subseteq marred'
    PROVE  /\ rows' \in [Ids -> Row \union {None}]
           /\ RowsLead' /\ AllBorn' /\ \A i \in Ids : Safe(i)'
<1>1. TypeOK /\ FilesTyped /\ AllBorn
  BY Typed DEF LocalInv
<1>2. rows' \in [Ids -> Row \union {None}]
  BY <1>1, ReconciledIs
<1>3. ASSUME NEW i \in Ids
      PROVE  /\ Mine(i) = {} => rows'[i] = None
             /\ \/ rows'[i] = None
                \/ \E t \in Mine(i) : Insertable(t) /\ rows'[i] = RowOf(t)
                \/ rows'[i] = before[i] /\ Mine(i) # {} /\ \A t \in Mine(i) : ~Insertable(t)
  BY <1>1, ReconciledIs
<1>4. ASSUME NEW i \in Ids, rows'[i] # None, files[rows'[i].name] # None
      PROVE  files[rows'[i].name].id = i
  <2>1. CASE \E t \in Mine(i) : rows'[i] = RowOf(t)
    <3>1. PICK t \in Mine(i) : rows'[i] = RowOf(t)
      BY <2>1
    <3>2. t \in Text /\ t.id = i /\ files[t.name] = t
      BY <1>1, MineIs
    <3>3. QED
      BY <3>1, <3>2, RowOfIs
  <2>2. CASE rows'[i] = before[i]
    BY <1>4, <2>2 DEF Leads
  <2>3. QED
    BY <1>3, <1>4, <2>1, <2>2
<1>5. RowsLead'
  BY <1>4 DEF RowsLead, HasFile, FileOf
<1>6. AllBorn'
  <2>1. \A i \in Ids : Mine(i) # {} => i \in born
    BY <1>1 DEF AllBorn, Mine
  <2>2. QED
    BY <1>1, <1>3, <2>1, SameFiles DEF AllBorn
<1>7. ASSUME NEW i \in Ids PROVE Safe(i)'
  <2>1. Mine(i)' = Mine(i) /\ Safe(i)
    BY SameFiles DEF LocalInv
  <2>2. QED
    BY <1>3, <2>1 DEF Safe
<1>8. QED
  BY <1>2, <1>5, <1>6, <1>7

(* A memory without a file has no row then, and one with a file that the     *)
(* index can hold has the row of that file.                                *)
LEMMA ReadAgain ==
    ASSUME LocalInv, NEW before, Leads(before), rows' = Reconciled(before), files' = files,
           NEW i \in Ids
    PROVE  /\ Mine(i)' = Mine(i)
           /\ Mine(i) = {} => rows'[i] = None /\ Settled(i)'
           /\ \A t \in Mine(i) : Mine(i) = {t} /\ Insertable(t) =>
                 rows'[i] = RowOf(t) /\ Settled(i)'
<1>1. FilesTyped
  BY Typed DEF LocalInv
<1>2. Mine(i)' = Mine(i)
  BY SameFiles
<1>3. ASSUME Mine(i) = {} PROVE rows'[i] = None /\ Settled(i)'
  BY <1>1, <1>2, <1>3, ReconciledIs DEF Settled, Fits
<1>4. ASSUME NEW t \in Mine(i), Mine(i) = {t}, Insertable(t)
      PROVE  rows'[i] = RowOf(t) /\ Settled(i)'
  <2>1. Reconciled(before)[i] = Scanned(before)[i]
    BY <1>1, <1>4, ReconciledIs
  <2>2. Scanned(before)[i] = RowOf(t)
    BY <1>1, <1>4, ScanResult
  <2>3. t \in Text
    BY <1>1, MineIs
  <2>4. Matches(rows[i], t)'
    BY <2>1, <2>2, <2>3, RowOfIs DEF Matches
  <2>5. QED
    BY <1>2, <1>4, <2>1, <2>2, <2>4 DEF Settled, Fits
<1>5. QED
  BY <1>2, <1>3, <1>4

LEMMA NoRowsLead == Leads(NoRows)
  BY DEF Leads, NoRows

(* Without rows before, every row is the row of a file. *)
LEMMA OnlyFiles ==
    ASSUME LocalInv, rows' = Reconciled(NoRows), NEW i \in Ids, rows'[i] # None
    PROVE  \E t \in Mine(i) : t \in Text /\ rows'[i] = RowOf(t) /\ files[t.name] = t
<1>1. FilesTyped
  BY Typed DEF LocalInv
<1>2. NoRows[i] = None
  BY DEF NoRows
<1>3. PICK t \in Mine(i) : rows'[i] = RowOf(t)
  BY <1>1, <1>2, NoRowsLead, ReconciledIs
<1>4. QED
  BY <1>1, <1>3, MineIs

(* What a request has written so far. *)
LEMMA AheadIs ==
    ASSUME LocalInv, job.kind = "mutate"
    PROVE  Ahead = {New(k) : k \in {l \in Places : IsWritten(l)}}
<1>1. TypeOK /\ EditInv
  BY Mutating
<1>2. ASSUME NEW k \in Places PROVE files[New(k).name] = New(k) <=> IsWritten(k)
  <2>1. PICK a, b : a = Old(k) /\ b = New(k)
    OBVIOUS
  <2>2. /\ b \in Text /\ b # None
        /\ a # None => a \in Text /\ Edits(k)
        /\ Changed(k)
    BY <1>1, <2>1, ChangeIs
  <2>3. CASE IsWritten(k)
    BY <2>2, <2>3 DEF Changed, Written
  <2>4. CASE ~IsWritten(k) /\ a = None
    BY <2>1, <2>2, <2>4 DEF Changed, Untouched
  <2>5. CASE ~IsWritten(k) /\ a # None
    <3>1. a # b
      BY <2>1, <2>2, <2>5, Revisions DEF Edits
    <3>2. QED
      BY <2>1, <2>2, <2>5, <3>1 DEF Changed, Untouched
  <2>6. QED
    BY <2>3, <2>4, <2>5 DEF IsWritten
<1>3. \A c \in Range(job.changes) : \E k \in Places : c.now = New(k)
  BY <1>1, ChangesIs
<1>4. \A k \in Places : \E c \in Range(job.changes) : c.now = New(k)
  BY <1>1, ChangesIs DEF New
<1>5. \A x : x \in Ahead <=> \E c \in Range(job.changes) : x = c.now /\ files[c.now.name] = c.now
  BY DEF Ahead
<1>6. QED
  BY <1>2, <1>3, <1>4, <1>5

(* A reindex in the middle of a request: what the request has written is     *)
(* from then on in the index too, and stale.                               *)
LEMMA ReindexDuring ==
    ASSUME LocalInv, Reindex, job.kind = "mutate"
    PROVE  EditInv'
<1>1. /\ rows' = Reconciled(NoRows) /\ stale' = {t.id : t \in Ahead}
      /\ marred' = marred \union Unreadable(Ahead)
      /\ UNCHANGED <<files, job, born, kept, gone>>
  BY DEF Reindex
<1>2. TypeOK /\ EditInv /\ FilesTyped
  BY Mutating, Typed DEF LocalInv
<1>3. Ahead = {New(k) : k \in {l \in Places : IsWritten(l)}}
  BY AheadIs
<1>4. /\ \A k \in Places : IsWritten(k) => New(k).id \in stale'
      /\ \A k \in Places : IsWritten(k) /\ ~Insertable(New(k)) => New(k).id \in marred'
      /\ \A i \in marred' \ marred :
            \E k \in Places : IsWritten(k) /\ New(k).id = i /\ ~Insertable(New(k))
      /\ marred \subseteq marred'
  BY <1>1, <1>3 DEF Unreadable
<1>5. /\ Places' = Places /\ \A k : Old(k)' = Old(k) /\ New(k)' = New(k)
  BY <1>1, SameChanges
<1>6. \A k \in Places : IsWritten(k)' = IsWritten(k)
  BY <1>1 DEF IsWritten
<1>7. \A k, l \in Places : k # l => New(k).id # New(l).id
  BY <1>2 DEF EditInv
<1>8. ASSUME NEW k \in Places PROVE Changed(k)'
  <2>1. PICK a, b : a = Old(k) /\ b = New(k)
    OBVIOUS
  <2>2. /\ b \in Text /\ b.id \in Ids /\ b.name \in Names /\ b # None
        /\ a # None => a \in Text /\ a.id = b.id /\ a.name = b.name
        /\ a = None => Makes(k)
        /\ a # None => Edits(k)
        /\ Changed(k)
    BY <1>2, <2>1, ChangeIs
  <2>3. Old(k)' = a /\ New(k)' = b
    BY <1>5, <2>1
  <2>4. Mine(b.id)' = Mine(b.id)
    BY <1>1, SameFiles
  <2>5. b.id \in born' /\ b.id \notin gone' \ marred'
    BY <1>1, <1>4, <2>1, <2>2 DEF Changed
  <2>6. CASE a = None
    <3>1. /\ kept[b.id] = 0 /\ b.id \notin marred /\ Insertable(b)
      BY <2>1, <2>2, <2>6 DEF Makes
    <3>2. b.id \notin marred'
      BY <1>4, <1>7, <2>1, <3>1
    <3>3. IF IsWritten(k) THEN files[b.name] = b /\ Mine(b.id) = {b}
          ELSE files[b.name] = None /\ Mine(b.id) = {}
      BY <2>1, <2>2, <2>6, <3>1 DEF Changed, Written, Untouched
    <3>4. rows'[b.id] # None => b.id \in stale' /\ rows'[b.id].name = b.name
      <4>1. CASE IsWritten(k)
        <5>1. rows'[b.id] = RowOf(b)
          BY <1>1, <2>2, <3>1, <3>3, <4>1, NoRowsLead, ReadAgain
        <5>2. QED
          BY <1>4, <2>1, <2>2, <4>1, <5>1, RowOfIs
      <4>2. CASE ~IsWritten(k)
        BY <1>1, <2>2, <3>3, <4>2, NoRowsLead, ReadAgain
      <4>3. QED
        BY <4>1, <4>2
    <3>5. ASSUME NEW i \in Ids \ {b.id}, rows'[i] # None PROVE rows'[i].name # b.name
      <4>1. PICK t \in Mine(i) : t \in Text /\ rows'[i] = RowOf(t) /\ files[t.name] = t
        BY <1>1, <3>5, OnlyFiles
      <4>2. t.id = i /\ t # None
        BY <4>1, TextFields DEF Mine
      <4>3. QED
        BY <3>3, <3>5, <4>1, <4>2, RowOfIs
    <3>6. Makes(k)'
      BY <1>1, <2>2, <2>3, <2>6, <3>1, <3>2, <3>4, <3>5 DEF Makes
    <3>7. IF IsWritten(k) THEN Written(k)' ELSE Untouched(k)'
      BY <1>1, <2>3, <2>4, <2>6, <3>3 DEF Written, Untouched, Mine
    <3>8. QED
      BY <1>6, <2>3, <2>5, <3>6, <3>7 DEF Changed
  <2>7. CASE a # None
    <3>1. /\ a.rev < b.rev /\ (b.id \in marred \/ kept[b.id] <= a.rev)
      BY <2>1, <2>2, <2>7 DEF Edits
    <3>2. ASSUME IsWritten(k)
          PROVE  /\ files[b.name] = b /\ (b.id \in marred \/ (Mine(b.id) = {b} /\ Insertable(a)))
                 /\ b.id \in stale' /\ (b.id \in marred' \/ Insertable(b))
      BY <1>4, <2>1, <2>2, <2>7, <3>2 DEF Changed, Written
    <3>3. ASSUME ~IsWritten(k)
          PROVE  /\ files[b.name] = a
                 /\ b.id \in marred \/ (Mine(b.id) = {a} /\ Insertable(a))
      <4>1. files[b.name] = a /\ (b.id \in marred \/ Settled(b.id))
        BY <2>1, <2>2, <2>7, <3>3 DEF Changed, Untouched
      <4>2. QED
        BY <1>2, <2>2, <2>7, <4>1, SettledIs
    <3>4. ASSUME b.id \notin marred'
          PROVE  rows'[b.id] = IF IsWritten(k) THEN RowOf(b) ELSE RowOf(a)
      BY <1>1, <1>4, <2>2, <3>2, <3>3, <3>4, NoRowsLead, ReadAgain
    <3>5. b.id \notin marred' => rows'[b.id] # None /\ rows'[b.id].name = b.name
      BY <2>2, <2>7, <3>4, RowOfIs
    <3>6. Edits(k)'
      BY <1>1, <1>4, <2>2, <2>3, <2>7, <3>1, <3>5 DEF Edits
    <3>7. ASSUME IsWritten(k) PROVE Written(k)'
      <4>1. b.id \notin marred' => Matches(rows[b.id], a)'
        BY <2>2, <2>7, <3>2, <3>5, <3>7 DEF Matches
      <4>2. (b.id \in marred \/ Mine(b.id) = {b})'
        BY <1>4, <2>4, <3>2, <3>7
      <4>3. (b.id \in marred \/ (Insertable(a) /\ Matches(rows[b.id], a)))'
        BY <1>4, <3>2, <3>7, <4>1
      <4>4. QED
        BY <1>1, <2>3, <2>7, <3>2, <3>7, <4>2, <4>3 DEF Written, Mine
    <3>8. ASSUME ~IsWritten(k) PROVE Untouched(k)'
      <4>1. b.id \notin marred => Settled(b.id)'
        BY <1>1, <2>2, <3>3, <3>8, NoRowsLead, ReadAgain
      <4>2. (b.id \in marred \/ Settled(b.id))'
        BY <1>4, <4>1
      <4>3. QED
        BY <1>1, <2>3, <2>7, <3>3, <3>8, <4>2 DEF Untouched, Settled, Mine
    <3>9. QED
      BY <1>6, <2>3, <2>5, <3>6, <3>7, <3>8 DEF Changed
  <2>8. QED
    BY <2>6, <2>7
<1>9. ASSUME NEW i \in Ids \ marred', \A k \in Places : New(k).id # i PROVE Settled(i)'
  <2>1. Settled(i)
    BY <1>2, <1>4, <1>9 DEF EditInv
  <2>2. Mine(i) = {} \/ \E t \in Mine(i) : Mine(i) = {t} /\ Insertable(t)
    BY <2>1 DEF Settled, Fits
  <2>3. QED
    BY <1>1, <2>2, NoRowsLead, ReadAgain
<1>10. QED
  BY <1>1, <1>2, <1>5, <1>8, <1>9 DEF EditInv

LEMMA ReindexKeeps ==
    ASSUME LocalInv, Reindex
    PROVE  LocalInv'
<1>1. /\ ReindexRuns /\ rows' = Reconciled(NoRows) /\ stale' = {t.id : t \in Ahead}
      /\ marred' = marred \union Unreadable(Ahead)
      /\ UNCHANGED <<files, revs, bodies, applied, job, restarts, born, kept, gone, replaced>>
  BY DEF Reindex
<1>2. TypeOK /\ FilesTyped /\ job.step \in Steps[job.kind]
  BY JobOf, Typed DEF LocalInv
<1>3. job = Idle \/ job.kind = "mutate"
  BY <1>1, <1>2, JobIs DEF ReindexRuns
<1>4. /\ rows' \in [Ids -> Row \union {None}]
      /\ RowsLead' /\ AllBorn' /\ \A i \in Ids : Safe(i)'
  BY <1>1, NoRowsLead, AfterReconcile
<1>5. {t.id : t \in Ahead} \subseteq born
  <2>1. \A x \in Ahead : \E k \in Places : x = New(k)
    BY <1>2, ChangesIs DEF Ahead
  <2>2. job = Idle => Places = {}
    BY DEF Places, Idle
  <2>3. job.kind = "mutate" => \A k \in Places : New(k).id \in born
    BY Mutating, ChangeIs DEF Changed
  <2>4. QED
    BY <1>3, <2>1, <2>2, <2>3
<1>6. JobInv'
  <2>1. CASE job = Idle
    <3>1. ASSUME NEW i \in Ids \ marred' PROVE Settled(i)'
      <4>1. Settled(i)
        BY <1>1, <2>1, Quiet
      <4>2. Mine(i) = {} \/ \E t \in Mine(i) : Mine(i) = {t} /\ Insertable(t)
        BY <4>1 DEF Settled, Fits
      <4>3. QED
        BY <1>1, <4>2, NoRowsLead, ReadAgain
    <3>2. QED
      BY <1>1, <2>1, <3>1, IdleAgain
  <2>2. CASE job.kind = "mutate"
    <3>1. EditInv'
      BY <2>2, ReindexDuring
    <3>2. KeepInv'
      <4>1. Places' = Places /\ \A k : Old(k)' = Old(k)
        BY <1>1, SameChanges
      <4>2. KeepInv
        BY <2>2, Mutating
      <4>3. QED
        BY <1>1, <4>1, <4>2 DEF KeepInv
    <3>3. QED
      BY <1>1, <1>2, <2>2, <3>1, <3>2 DEF JobInv, Editing
  <2>3. QED
    BY <1>3, <2>1, <2>2
<1>7. TypeOK'
  <2>1. Unreadable(Ahead) \subseteq {t.id : t \in Ahead}
    BY DEF Unreadable
  <2>2. QED
    BY <1>1, <1>2, <1>4, <1>5, <2>1 DEF TypeOK
<1>8. OriginalsKept'
  BY <1>1 DEF LocalInv, OriginalsKept
<1>9. QED
  BY <1>4, <1>6, <1>7, <1>8 DEF LocalInv

(* What a death of the process may have left of a memory. *)
LEMMA RestartKeeps ==
    ASSUME LocalInv, Restart
    PROVE  LocalInv'
<1>1. /\ restarts < MaxRestarts /\ restarts' = restarts + 1
      /\ job' = Idle /\ stale' = {}
      /\ marred' = marred \union InTwoFiles \union {t.id : t \in {u \in Present : ~Insertable(u)}}
      /\ UNCHANGED <<files, revs, bodies, applied, born, kept, gone, replaced>>
  BY DEF Restart, Unreadable
<1>2. TypeOK /\ FilesTyped /\ AllBorn
  BY Typed DEF LocalInv
<1>3. Leads(rows)
  BY <1>2 DEF Leads, LocalInv, RowsLead, HasFile, FileOf, TypeOK
<1>4. PICK before : Leads(before) /\ rows' = Reconciled(before)
  BY <1>3, NoRowsLead DEF Restart
<1>5. ASSUME NEW i \in Ids \ marred'
      PROVE  Mine(i) = {} \/ \E t \in Mine(i) : Mine(i) = {t} /\ Insertable(t)
  <2>1. \A s, t \in Mine(i) : s = t
    <3>1. ASSUME NEW s \in Mine(i), NEW t \in Mine(i), s # t PROVE FALSE
      <4>1. /\ s.name \in Names /\ files[s.name] = s /\ s.id = i /\ s # None
            /\ t.name \in Names /\ files[t.name] = t /\ t.id = i /\ t # None
        BY <1>2, MineIs, TextFields
      <4>2. s.name # t.name
        BY <3>1, <4>1
      <4>3. i \in InTwoFiles
        BY <4>1, <4>2 DEF InTwoFiles
      <4>4. QED
        BY <1>1, <4>3
    <3>2. QED
      BY <3>1
  <2>2. \A t \in Mine(i) : Insertable(t)
    BY <1>1 DEF Mine
  <2>3. QED
    BY <2>1, <2>2
<1>6. /\ rows' \in [Ids -> Row \union {None}]
      /\ RowsLead' /\ AllBorn' /\ JobInv'
      /\ \A i \in Ids : Safe(i)'
  <2>1. marred \subseteq marred'
    BY <1>1
  <2>2. \A i \in Ids \ marred' : Settled(i)'
    BY <1>1, <1>4, <1>5, ReadAgain
  <2>3. JobInv'
    BY <1>1, <2>2, IdleAgain
  <2>4. QED
    BY <1>1, <1>4, <2>1, <2>3, AfterReconcile
<1>7. marred' \subseteq born'
  <2>1. InTwoFiles \subseteq born
    BY <1>2, PresentFiles DEF InTwoFiles, AllBorn
  <2>2. QED
    BY <1>1, <1>2, <2>1 DEF AllBorn, TypeOK
<1>8. TypeOK'
  BY <1>1, <1>2, <1>6, <1>7, IdleIs, BoundsAssumption DEF TypeOK
<1>9. OriginalsKept'
  BY <1>1 DEF LocalInv, OriginalsKept
<1>10. QED
  BY <1>6, <1>8, <1>9 DEF LocalInv

-----------------------------------------------------------------------------
(* The invariant.                                                          *)

LEMMA InitLocalInv ==
    Init => LocalInv
<1> SUFFICES ASSUME Init PROVE LocalInv
  OBVIOUS
<1>1. TypeOK
  BY IdleIs, BoundsAssumption, NoneAssumption DEF Init, TypeOK
<1>2. Present = {}
  BY DEF Init, Present
<1>3. \A i \in Ids : Mine(i) = {}
  BY <1>2 DEF Mine
<1>4. RowsLead /\ OriginalsKept
  BY DEF Init, RowsLead, HasFile, OriginalsKept
<1>5. AllBorn
  BY <1>2 DEF Init, AllBorn
<1>6. \A i \in Ids : Safe(i)
  BY DEF Init, Safe
<1>7. IdleInv
  BY <1>3 DEF Init, IdleInv, Settled, Fits
<1>8. JobInv
  BY <1>7, IdleIs DEF IdleInv, JobInv, Editing
<1>9. QED
  BY <1>1, <1>4, <1>5, <1>6, <1>8 DEF LocalInv

LEMMA StutterKeeps ==
    ASSUME LocalInv, UNCHANGED vars
    PROVE  LocalInv'
<1>1. UNCHANGED <<files, rows, revs, bodies, applied, job, restarts,
                  born, kept, gone, replaced, marred, stale>>
  BY DEF vars, disk, history
<1>2. TypeOK' /\ OriginalsKept'
  BY <1>1 DEF LocalInv, TypeOK, OriginalsKept
<1>3. Present' = Present
  BY <1>1, SameFiles
<1>4. RowsLead' /\ AllBorn' /\ \A i \in Ids : Safe(i)'
  BY <1>1, StillThere
<1>5. /\ Places' = Places /\ \A k : Old(k)' = Old(k) /\ New(k)' = New(k)
      /\ Was' = Was /\ Now' = Now
  BY <1>1, SameChanges
<1>6. \A i \in Ids : Settled(i) => Settled(i)'
  BY <1>1, StillThere
<1>7. Editing => EditInv'
  <2>1. Editing => EditInv
    BY JobOf
  <2>2. \A k \in Places : IsWritten(k)' = IsWritten(k)
    BY <1>1 DEF IsWritten
  <2>3. EditInv => (job.kind = "mutate" => job'.at \in Places)
    BY <1>1 DEF EditInv
  <2>4. QED
    BY <1>1, <2>1, <2>2, <2>3, StillEditing
<1>8. job.kind = "mutate" => KeepInv'
  BY <1>1, <1>5, JobOf DEF KeepInv
<1>9. job.kind = "none" => IdleInv'
  BY <1>1, <1>6, JobOf DEF IdleInv
<1>10. PICK w, v : w = Was /\ v = Now
  OBVIOUS
<1>11. job.kind = "forget" => ForgetInv'
  <2>1. Was' = w
    BY <1>5, <1>10
  <2>2. (w.id \in marred \/ Settled(w.id)) => (w.id \in marred \/ Settled(w.id))'
    BY <1>1, SettledThere
  <2>3. (Was.id \in marred \/ Settled(Was.id))' <=> (w.id \in marred \/ Settled(w.id))'
    BY <2>1 DEF Settled, Mine
  <2>4. (Was.id \in marred \/ Mine(Was.id) = {})' <=> (Was.id \in marred \/ Mine(Was.id) = {})
    BY <1>1, <1>3, <1>10, <2>1 DEF Mine
  <2>5. ForgetInv => ForgetInv'
    BY <1>1, <1>6, <1>10, <2>1, <2>2, <2>3, <2>4 DEF ForgetInv
  <2>6. QED
    BY <2>5, JobOf
<1>12. job.kind = "rename" => RenameInv'
  <2>1. Was' = w /\ Now' = v /\ Late' = Late
    BY <1>1, <1>5, <1>10 DEF Late
  <2>2. Renaming => Renaming'
    <3>1. (Insertable(w) /\ Matches(rows[w.id], w)) => (Insertable(w) /\ Matches(rows[w.id], w))'
      BY <1>1, MatchesThere
    <3>2. QED
      BY <1>1, <1>6, <1>10, <2>1, <3>1 DEF Renaming, HasRow
  <2>3. Renamed => Renamed'
    <3>1. (Insertable(v) /\ Matches(rows[w.id], v)) => (Insertable(v) /\ Matches(rows[w.id], v))'
      BY <1>1, MatchesThere
    <3>2. ASSUME NEW i \in Ids, NEW l, Follows(i, rows[i], Mine(i), w.name, v.name, l)
          PROVE  Follows(i, rows[i], Mine(i), w.name, v.name, l)'
      BY <1>1, <1>3, <3>2 DEF Follows, Mine
    <3>3. PICK l : l = Late
      OBVIOUS
    <3>4. QED
      BY <1>1, <1>10, <2>1, <3>1, <3>2, <3>3 DEF Renamed
  <2>4. RenameInv => RenameInv'
    BY <1>1, <1>3, <1>10, <2>1, <2>2, <2>3 DEF RenameInv, Mine
  <2>5. QED
    BY <2>4, JobOf
<1>13. JobInv'
  BY <1>1, <1>7, <1>8, <1>9, <1>11, <1>12, JobOf DEF JobInv, Editing
<1>14. QED
  BY <1>2, <1>4, <1>13 DEF LocalInv

LEMMA NextKeeps ==
    ASSUME LocalInv, [Next]_vars
    PROVE  LocalInv'
<1>1. CASE \E i \in Ids, n \in Names, l \in LinkSets, d \in BOOLEAN : Save(i, n, l, d)
  BY <1>1, SaveKeeps
<1>2. CASE \E i \in Ids : Edit(i) \/ Forget(i)
  BY <1>2, EditKeeps, ForgetKeeps
<1>3. CASE \E i \in Ids, n \in Names : LinkMemories(i, n) \/ Rename(i, n)
  BY <1>3, LinkMemoriesKeeps, RenameKeeps
<1>4. CASE Write \/ Commit \/ CommitRefused \/ Undo
  BY <1>4, WriteKeeps, CommitKeeps, CommitRefusedKeeps, UndoKeeps
<1>5. CASE CommitRename \/ Unlink \/ RewriteReference \/ UpdateHash \/ FinishRename
  BY <1>5, CommitRenameKeeps, UnlinkKeeps, RewriteReferenceKeeps, UpdateHashKeeps, FinishRenameKeeps
<1>6. CASE CommitForget \/ ForgetRevisions
  BY <1>6, CommitForgetKeeps, ForgetRevisionsKeeps
<1>7. CASE \E op \in Ops, i \in Ids : MutateOne(op, i)
  BY <1>7, MutateOneKeeps
<1>8. CASE \E op \in Ops, i, j \in Ids : Merge(op, i, j)
  BY <1>8, MergeKeeps
<1>9. CASE \E op \in Ops, i \in Ids, n \in Names, l \in LinkSets : Create(op, i, n, l)
  BY <1>9, CreateKeeps
<1>10. CASE Keep \/ Put \/ CommitMutation \/ MutationRefused \/ RollBack \/ Drop
  BY <1>10, KeepKeeps, PutKeeps, CommitMutationKeeps, MutationRefusedKeeps, RollBackKeeps, DropKeeps
<1>11. CASE Reindex \/ Restart
  BY <1>11, ReindexKeeps, RestartKeeps
<1>12. CASE UNCHANGED vars
  BY <1>12, StutterKeeps
<1>13. QED
  BY <1>1, <1>2, <1>3, <1>4, <1>5, <1>6, <1>7, <1>8, <1>9, <1>10, <1>11, <1>12 DEF Next

LEMMA LocalInvHolds ==
    Spec => []LocalInv
<1>1. LocalInv /\ [Next]_vars => LocalInv'
  BY NextKeeps
<1>2. QED
  BY <1>1, InitLocalInv, PTL DEF Spec

-----------------------------------------------------------------------------
(* Results.                                                                *)

(* Whatever dies when, every variable keeps its type and every file the     *)
(* name of its memory: service.ts writes a file only under the name its    *)
(* text has.                                                               *)
THEOREM LocalTypes == Spec => []TypeOK
<1>1. LocalInv => TypeOK
  BY DEF LocalInv
<1>2. QED
  BY <1>1, LocalInvHolds, PTL

(* Between operations a row of the index leads to the file of its memory,   *)
(* has its hash and, but for a link of the memory to itself, the links an  *)
(* active memory has, and every file the index can hold has a row: an      *)
(* interrupted operation of service.ts is made good by reconcile.  Marred  *)
(* memories are excepted, and stale ones, which a reindex found in the     *)
(* middle of a request.                                                    *)
THEOREM IndexFollowsFiles == Spec => []IndexAgrees
<1>1. ASSUME LocalInv PROVE IndexAgrees
  <2> SUFFICES ASSUME job = Idle
               PROVE  /\ \A t \in Present : (Insertable(t) /\ t.id \notin marred) => rows[t.id] # None
                      /\ \A i \in Ids \ (marred \union stale) :
                            rows[i] # None =>
                                /\ HasFile(i) /\ rows[i].hash = FileOf(i)
                                /\ rows[i].name \notin rows[i].links =>
                                     rows[i].links = RowLinks(FileOf(i))
    BY DEF IndexAgrees, RowLinks
  <2>1. FilesTyped /\ \A i \in Ids \ marred : Settled(i)
    BY <1>1, Quiet, Typed DEF LocalInv
  <2>2. ASSUME NEW i \in Ids \ (marred \union stale), rows[i] # None
        PROVE  /\ HasFile(i) /\ rows[i].hash = FileOf(i)
               /\ rows[i].name \notin rows[i].links => rows[i].links = RowLinks(FileOf(i))
    <3>1. PICK t \in Mine(i) : Matches(rows[i], t)
      BY <2>1, <2>2 DEF Settled, Fits
    <3>2. files[t.name] = t /\ t.id = i /\ t # None
      BY <2>1, MineIs, TextFields
    <3>3. QED
      BY <2>2, <3>1, <3>2 DEF Matches, HasFile, FileOf
  <2>3. ASSUME NEW t \in Present, t.id \notin marred PROVE rows[t.id] # None
    <3>1. t.id \in Ids /\ t \in Mine(t.id)
      BY <2>1, PresentFiles, TextFields DEF Mine
    <3>2. Settled(t.id)
      BY <2>1, <2>3, <3>1
    <3>3. QED
      BY <3>1, <3>2 DEF Settled, Fits, Matches
  <2>4. QED
    BY <2>2, <2>3
<1>2. QED
  BY <1>1, LocalInvHolds, PTL

(* What a successful save, update, rename or request of maintenance wrote   *)
(* is in a file, in that text or a later one, whatever fails or dies after; *)
(* forget alone takes it away (the undo steps of service.ts).              *)
THEOREM AcknowledgedStays == Spec => []NothingLost
<1>1. ASSUME LocalInv PROVE NothingLost
  <2> SUFFICES ASSUME NEW i \in Ids \ marred, kept[i] > 0
               PROVE  \E t \in Present : t.id = i /\ t.rev >= kept[i]
    BY DEF NothingLost
  <2>1. Safe(i)
    BY <1>1 DEF LocalInv
  <2>2. PICK t \in Mine(i) : t.rev >= kept[i]
    BY <2>1 DEF Safe
  <2>3. QED
    BY <2>2 DEF Mine
<1>2. QED
  BY <1>1, LocalInvHolds, PTL

(* A memory whose forgetting was reported has neither file nor row again,   *)
(* through any later operation, death of the process or reindex: forget    *)
(* removes the file before the rows.                                       *)
THEOREM ForgottenForGood == Spec => []ForgottenStaysGone
<1>1. ASSUME LocalInv PROVE ForgottenStaysGone
  <2> SUFFICES ASSUME NEW i \in gone \ marred
               PROVE  rows[i] = None /\ \A t \in Present : t.id # i
    BY DEF ForgottenStaysGone
  <2>1. i \in Ids
    BY <1>1 DEF LocalInv, TypeOK
  <2>2. Safe(i)
    BY <1>1, <2>1 DEF LocalInv
  <2>3. rows[i] = None /\ Mine(i) = {}
    BY <2>2 DEF Safe
  <2>4. QED
    BY <2>3 DEF Mine
<1>2. QED
  BY <1>1, LocalInvHolds, PTL

(* A text that maintenance overwrote is among the kept ones for as long as  *)
(* the file does not have it back: applyMutation writes it before the file *)
(* and rollbackMutationFiles removes it after.                             *)
THEOREM OverwrittenIsKept == Spec => []OriginalsKept
<1>1. LocalInv => OriginalsKept
  BY DEF LocalInv
<1>2. QED
  BY <1>1, LocalInvHolds, PTL

(* A step that leaves no operation although one of rename was under way, and *)
(* is no restart, is the last of that rename.                              *)
LEMMA LastOfRename ==
    ASSUME LocalInv, Next, job.kind = "rename", job' = Idle, restarts' = restarts
    PROVE  FinishRename
<1>1. job.step \in {"write", "commit", "unlink", "refs", "hash"} /\ TypeOK /\ job \in Job
  BY RenameIs
<1>2. job # Idle
  BY IdleIs
<1>3. \A kind, step, changes, op : ~Start(kind, step, changes, op)
  BY <1>2 DEF Start
<1>4. ~\E i \in Ids, n \in Names, l \in LinkSets, d \in BOOLEAN : Save(i, n, l, d)
  BY <1>3 DEF Save
<1>5. ~\E i \in Ids : Edit(i) \/ Forget(i)
  BY <1>2, <1>3 DEF Edit, Update, Forget
<1>6. ~\E i \in Ids, n \in Names : LinkMemories(i, n) \/ Rename(i, n)
  BY <1>3 DEF LinkMemories, Update, Rename
<1>7. ~\E op \in Ops, i \in Ids : MutateOne(op, i)
  BY <1>3 DEF MutateOne
<1>8. ~\E op \in Ops, i, j \in Ids : Merge(op, i, j)
  BY <1>3 DEF Merge
<1>9. ~\E op \in Ops, i \in Ids, n \in Names, l \in LinkSets : Create(op, i, n, l)
  BY <1>3 DEF Create
<1>10. ~(Commit \/ CommitRefused \/ Undo \/ CommitForget \/ ForgetRevisions)
  BY <1>1 DEF Commit, CommitRefused, Undo, CommitForget, ForgetRevisions
<1>11. ~(Keep \/ Put \/ CommitMutation \/ MutationRefused \/ RollBack \/ Drop)
  BY <1>1 DEF Keep, Put, CommitMutation, MutationRefused, RollBack, Drop
<1>12. ~(Reindex \/ Restart)
  <2>1. restarts + 1 # restarts
    BY <1>1, BoundsAssumption DEF TypeOK
  <2>2. QED
    BY <1>2, <2>1 DEF Reindex, Restart
<1>13. \A step \in {"commit", "unlink", "refs"} : ~Goto(step)
  <2>1. ASSUME NEW step \in {"commit", "unlink", "refs"}, Goto(step) PROVE FALSE
    <3>1. job'.step = step
      BY <1>1, <2>1, GotoIs
    <3>2. QED
      BY <2>1, <3>1, IdleIs
  <2>2. QED
    BY <2>1
<1>14. ~Write /\ ~CommitRename /\ ~Unlink
  BY <1>13 DEF Write, CommitRename, Unlink
<1>15. ~RewriteReference
  <2>1. ASSUME NEW n, job' = [job EXCEPT !.step = "hash", !.at = n] PROVE FALSE
    <3>1. job'.step = "hash"
      BY <1>1, <2>1 DEF Job
    <3>2. QED
      BY <3>1, IdleIs
  <2>2. QED
    BY <2>1 DEF RewriteReference
<1>16. ~UpdateHash
  <2>1. ASSUME job' = [job EXCEPT !.step = "refs", !.at = 1] PROVE FALSE
    <3>1. job'.step = "refs"
      BY <1>1, <2>1 DEF Job
    <3>2. QED
      BY <3>1, IdleIs
  <2>2. QED
    BY <2>1 DEF UpdateHash
<1>17. QED
  BY <1>4, <1>5, <1>6, <1>7, <1>8, <1>9, <1>10, <1>11, <1>12, <1>14, <1>15, <1>16 DEF Next

(* When rename reports success, no other file lists the old name and no row *)
(* of the index does (renameReferenceRows, rewriteInboundReferences).      *)
THEOREM RenameIsFollowed == Spec => RenameFollowed
<1> DEFINE Followed == (job.kind = "rename" /\ job' = Idle /\ restarts' = restarts) =>
         /\ \A n \in Names \ {Now.name} : files'[n] # None => Was.name \notin files'[n].links
         /\ \A i \in Ids : rows'[i] # None => Was.name \notin rows'[i].links
<1>1. ASSUME LocalInv, [Next]_vars PROVE [Followed]_vars
  <2> SUFFICES ASSUME Next, job.kind = "rename", job' = Idle, restarts' = restarts
               PROVE  Followed
    BY <1>1
  <2>1. FinishRename
    BY <1>1, LastOfRename
  <2>2. job.step = "refs" /\ Referring = {} /\ files' = files /\ rows' = rows
    BY <2>1 DEF FinishRename, disk
  <2>3. \A i \in Ids : rows[i] # None => Was.name \notin rows[i].links
    BY <1>1, <2>2, RenamedIs
  <2>4. \A n \in Names \ {Now.name} : files[n] # None => Was.name \notin files[n].links
    BY <2>2 DEF Referring
  <2>5. QED
    BY <2>2, <2>3, <2>4
<1>2. QED
  BY <1>1, LocalInvHolds, PTL DEF Spec, RenameFollowed

=============================================================================
