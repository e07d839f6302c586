----------------------- MODULE MaintenanceRunner_proofs -----------------------
(***************************************************************************)
(* Proofs about MaintenanceRunner, for any projects, pages, sources and     *)
(* proposals, and whatever the server and the owners do: the summary of    *)
(* the job accounts for the changes it made.                               *)
(***************************************************************************)
EXTENDS MaintenanceRunner, TLAPS

(* The summary never runs ahead of the answers, and it falls behind only    *)
(* when it reports a failure, not just at the end of the job.              *)
AccountInv ==
    /\ done \in Nat /\ again \in Nat
    /\ summary \in [applied : Nat, skipped : Nat, failed : Nat]
    /\ summary.applied <= done + again
    /\ summary.failed = 0 => summary.applied = done + again

(* A step that changes one count of the summary, and what it may do to the  *)
(* server meanwhile.                                                       *)
LEMMA CountedStep ==
    ASSUME AccountInv, NEW field \in {"applied", "skipped", "failed"}, Count(field),
           done' = done \/ done' = done + 1, again' = again \/ again' = again + 1,
           field = "applied" => done' + again' = done + again + 1,
           field = "skipped" => done' + again' = done + again
    PROVE  AccountInv'
<1>1. /\ summary' \in [applied : Nat, skipped : Nat, failed : Nat]
      /\ summary'.applied = summary.applied + (IF field = "applied" THEN 1 ELSE 0)
      /\ summary'.failed = summary.failed + (IF field = "failed" THEN 1 ELSE 0)
  BY DEF Count, AccountInv
<1>2. /\ summary.applied \in Nat /\ summary.failed \in Nat /\ done \in Nat /\ again \in Nat
      /\ summary.applied <= done + again
      /\ (summary.failed = 0 => summary.applied = done + again)
  BY DEF AccountInv
<1>3. done' \in Nat /\ again' \in Nat /\ done' + again' >= done + again
  BY <1>2
<1>4. CASE field = "failed"
  <2>1. summary'.applied <= done' + again' /\ summary'.failed # 0
    BY <1>1, <1>2, <1>3, <1>4
  <2>2. QED
    BY <1>1, <1>3, <2>1 DEF AccountInv
<1>5. CASE field # "failed"
  <2> DEFINE n == IF field = "applied" THEN 1 ELSE 0
  <2>1. n \in Nat /\ done' + again' = done + again + n
    BY <1>2, <1>5
  <2>2. summary'.applied = summary.applied + n /\ summary'.failed = summary.failed
    BY <1>1, <1>2, <1>5
  <2> HIDE DEF n
  <2>3. \A a, t \in Nat : a <= t => a + n <= t + n
    BY <2>1
  <2>4. done + again \in Nat
    BY <1>2
  <2>5. summary.applied + n <= done + again + n
    BY <1>2, <2>3, <2>4
  <2>6. summary.failed = 0 => summary.applied + n = done + again + n
    BY <1>2
  <2>7. QED
    BY <1>1, <1>3, <2>1, <2>2, <2>5, <2>6 DEF AccountInv
<1>6. QED
  BY <1>4, <1>5

LEMMA ProjectFailsCounts == AccountInv /\ ProjectFails => AccountInv'
  BY CountedStep DEF ProjectFails, ledger

(* Nobody but the runner makes changes for it. *)
LEMMA QuietSteps ==
    ASSUME AccountInv, summary' = summary, done' = done, again' = again
    PROVE  AccountInv'
  BY DEF AccountInv

LEMMA AccountStep == AccountInv /\ [Next]_vars => AccountInv'
<1> SUFFICES ASSUME AccountInv, [Next]_vars PROVE AccountInv'
  OBVIOUS
<1>1. CASE \E p \in ProjectNumbers : OwnerChanges(p)
  BY <1>1, QuietSteps DEF OwnerChanges, run
<1>2. CASE List
  <2>1. CASE UNCHANGED summary
    BY <1>2, <2>1, QuietSteps DEF List, ledger
  <2>2. CASE Count("failed")
    BY <1>2, <2>2, CountedStep DEF List, ledger
  <2>3. QED
    BY <1>2, <2>1, <2>2 DEF List
<1>3. CASE \E next \in Cursors \cup {None}, n \in 0..MaxSources : Snapshot(next, n)
  BY <1>3, QuietSteps DEF Snapshot, server, ledger
<1>4. CASE SnapshotFails \/ SpawnFails \/ ProposalUnavailable \/ PageRepeats
  BY <1>4, ProjectFailsCounts DEF SnapshotFails, SpawnFails, ProposalUnavailable, PageRepeats
<1>5. CASE (\E url \in Urls : Fetch(url)) \/ (FetchStep /\ UNCHANGED <<run, server>>) \/ Keep
  BY <1>5, QuietSteps DEF Fetch, Keep, run, server, ledger
<1>6. CASE Spawn \/ ChildWrites \/ ChildTimer \/ \E n \in 0..MaxProposals : ChildProposes(n)
  BY <1>6, QuietSteps DEF Spawn, ChildWrites, ChildTimer, ChildProposes, server, ledger
<1>7. CASE NextPage \/ LastPage
  BY <1>7, QuietSteps DEF NextPage, LastPage, ledger
<1>8. ASSUME NEW c \in Citations, Skip(c) \/ Refused(c)
      PROVE  AccountInv'
  <2>1. Count("skipped") /\ done' = done /\ again' = again
    BY <1>8 DEF Skip, Refused, server, ledger
  <2>2. QED
    BY <2>1, CountedStep
<1>9. ASSUME NEW c \in Citations, Apply(c)
      PROVE  AccountInv'
  <2>1. /\ Count(IF Acceptable(c) \/ Before(c) THEN "applied" ELSE "skipped")
        /\ done' = IF Acceptable(c) THEN done + 1 ELSE done
        /\ again' = IF Before(c) THEN again + 1 ELSE again
    BY <1>9 DEF Apply, ServerApplies
  \* What is on record before is not applied anew.
  <2>2. ~(Acceptable(c) /\ Before(c))
    BY DEF Acceptable, Known, Before
  <2>3. done \in Nat /\ again \in Nat
    BY DEF AccountInv
  <2>4. CASE Acceptable(c) \/ Before(c)
    <3>1. done' + again' = done + again + 1 /\ (done' = done \/ done' = done + 1)
          /\ (again' = again \/ again' = again + 1)
      BY <2>1, <2>2, <2>3, <2>4
    <3>2. QED
      BY <2>1, <2>4, <3>1, CountedStep
  <2>5. CASE ~(Acceptable(c) \/ Before(c))
    <3>1. done' = done /\ again' = again /\ Count("skipped")
      BY <2>1, <2>5
    <3>2. QED
      BY <3>1, CountedStep
  <2>6. QED
    BY <2>4, <2>5
<1>10. ASSUME NEW c \in Citations, ApplyFails(c)
       PROVE  AccountInv'
  <2>1. Count("failed") /\ (done' = done \/ done' = done + 1) /\ again' = again
    BY <1>10 DEF ApplyFails, ErrorOfTheCall
  <2>2. QED
    BY <2>1, CountedStep
<1>11. CASE UNCHANGED vars
  BY <1>11, QuietSteps DEF vars, run, server, ledger
<1>12. QED
  BY <1>1, <1>2, <1>3, <1>4, <1>5, <1>6, <1>7, <1>8, <1>9, <1>10, <1>11 DEF Next

(* The summary of the nightly job counts as applied exactly the changes it  *)
(* made and the proposals it found applied before, if it reports no        *)
(* failure, and never more than those - also when the model repeats a      *)
(* proposal or an operation id, when calls fail after the server has       *)
(* applied a change, when the owner changes settings or memories under     *)
(* way, and when the child is stopped; changes answered as refused are     *)
(* excepted (run-maintenance.ts, runMaintenance).                          *)
THEOREM SummaryAccounts == Spec => []Accounted
<1>1. Init => AccountInv
  BY DEF Init, AccountInv
<1>2. AccountInv => Accounted
  BY DEF AccountInv, Accounted
<1>3. QED
  BY <1>1, <1>2, AccountStep, PTL DEF Spec

=============================================================================
