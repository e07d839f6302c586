------------------------------- MODULE Curation -------------------------------
(***************************************************************************)
(* Dated curation of one source project: runners read the memories saved   *)
(* since the project's cursor page by page, have some of them promoted to  *)
(* shared memories, record an outcome for every memory of every page, and  *)
(* let the server advance the cursor.  Covers CurationService, the         *)
(* Firestore curation store, the runner and the shared restore requests.   *)
(*                                                                         *)
(* The deployment serves one request at a time, so a tool call is one step *)
(* here; an instance that dies inside one leaves the first of its writes.  *)
(* A content hash is the version of a memory, counted for each; it never    *)
(* comes back, for a content has the time of its change in it.  What a      *)
(* proposal says is one of a few texts, and its operation id is all of it.  *)
(* Runs over dates chosen by hand never move the cursor and are left to    *)
(* CurationLedger.                                                         *)
(***************************************************************************)
EXTENDS Naturals, FiniteSets

CONSTANTS
    Mems,           \* ids of source memories, in their order
    Texts,          \* what a proposal may say: normalised bodies
    Requests,       \* ids of restore requests
    Runners,        \* those that the daily schedule starts
    PageSize,       \* PAGE_SIZE
    Cap,            \* SHARED_CAP
    MaxClock,       \* bound: time stamps
    MaxVersion,     \* bound: versions of a memory
    MaxOps,         \* bound: promotions that take effect
    Faults,
    None

FaultKinds == {
    "lost",         \* a tool call takes effect and its caller gets an error
    "crash",        \* the instance dies between the writes of a tool call
    "mutation" }    \* applyMutationAsync throws, with or without its effect

Time == 0..MaxClock
Memory == [at: Time, version: 1..MaxVersion, active: BOOLEAN]
Item == [id: Mems, version: 1..MaxVersion]

(* The id of a shared memory stands for the proposal that created it;       *)
(* by is history: what brought its text.                                  *)
SharedMemory == [id: [cited: SUBSET Item, text: Texts], version: Nat, text: Texts,
                 refs: SUBSET Mems, by: {"promotion", "restore"}]
RestoreRequest ==
    [expect: SharedMemory, from: SharedMemory, state: {"pending", "succeeded", "failed"}]

(* A position in a listing; stage deferred counts ids, stage window dates.  *)
Place == [stage: {"deferred", "window"}, at: Time, id: {0} \cup Mems]
Start(stage) == [stage |-> stage, at |-> 0, id |-> 0]

(* Nobody but its runner knows the id of a run: the documents of runs that  *)
(* were given up stay running and unread, and are left out.                *)
Run == [from: Time, to: Time, before: Time, pages: Nat, recorded: Nat, snapshot: BOOLEAN]

ASSUME IdsAssumption == Mems \subseteq Nat \ {0} /\ IsFiniteSet(Mems) /\ Requests \subseteq Nat
ASSUME BoundsAssumption ==
    {PageSize, MaxClock, MaxVersion} \subseteq Nat \ {0} /\ {Cap, MaxOps} \subseteq Nat
ASSUME FaultsAssumption == Faults \subseteq FaultKinds
ASSUME NoneAssumption == None \notin Memory \cup Place \cup Run \cup RestoreRequest

VARIABLES
    clock,
    mem,        \* the source project's memories
    shared,     \* the shared memories
    revs,       \* the revisions of the shared memories
    ops,        \* promotions that took effect: maintenanceOperations of __shared__
    cursor,     \* curationCursors; 0 is none
    deferred,   \* deferredCandidates of the project
    requests,   \* sharedRestoreRequests
    runner,     \* what each runner process knows, with the document of its run
    judged      \* history: memories with a decision

users == <<clock, mem>>
store == <<shared, revs, ops, cursor, deferred, requests>>
vars == <<users, store, runner, judged>>

Outcome == {"promoted", "no_op", "shared_cap", "apply_conflict"}
Runner == [pc: {"idle", "restores", "first", "page", "propose", "complete"},
           todo: SUBSET Requests, targets: SUBSET SharedMemory, items: SUBSET Item,
           next: Place \cup {None}, run: Run \cup {None}, outcomes: SUBSET [id: Mems, outcome: Outcome]]
Idle == [pc |-> "idle", todo |-> {}, targets |-> {}, items |-> {}, next |-> None,
         run |-> None, outcomes |-> {}]

(* A memory that was forgotten keeps its id, with no date. *)
Forgotten == [at |-> 0, version |-> 1, active |-> FALSE]
Exists(m) == mem[m] # None /\ mem[m].at # 0
Live(m) == Exists(m) /\ mem[m].active
ItemOf(m) == [id |-> m, version |-> mem[m].version]
IdsOf(items) == {i.id : i \in items}

Init ==
    /\ clock = 1
    /\ mem = [m \in Mems |-> None]
    /\ shared = {} /\ revs = {} /\ ops = {}
    /\ cursor = 0
    /\ deferred = {}
    /\ requests = [q \in Requests |-> None]
    /\ runner = [r \in Runners |-> Idle]
    /\ judged = {}

-----------------------------------------------------------------------------
(* Time and users.                                                         *)

Tick ==
    /\ clock < MaxClock
    /\ clock' = clock + 1
    /\ UNCHANGED <<mem, store, runner, judged>>

UserStep(m, new) ==
    /\ mem' = [mem EXCEPT ![m] = new]
    /\ UNCHANGED <<clock, store, runner, judged>>

Save(m) ==
    mem[m] = None /\ clock < MaxClock /\ UserStep(m, [at |-> clock, version |-> 1, active |-> TRUE])
Edit(m) ==
    Live(m) /\ mem[m].version < MaxVersion /\ UserStep(m, [mem[m] EXCEPT !.version = @ + 1])
Archive(m) == Live(m) /\ UserStep(m, [mem[m] EXCEPT !.active = FALSE])

Forget(m) == Exists(m) /\ UserStep(m, Forgotten)

RevisionsOf(s) == {v \in revs : v.id = s.id}

ForgetShared(s) ==
    /\ shared' = shared \ {s}
    /\ revs' = revs \ RevisionsOf(s)
    /\ UNCHANGED <<users, ops, cursor, deferred, requests, runner, judged>>

(* requestSharedRestore: back to one of its revisions, for a shared memory   *)
(* as the curator saw it.                                                  *)
RequestRestore(q, s) ==
    /\ requests[q] = None
    /\ \E v \in RevisionsOf(s) :
        requests' = [requests EXCEPT ![q] = [expect |-> s, from |-> v, state |-> "pending"]]
    /\ UNCHANGED <<users, shared, revs, ops, cursor, deferred, runner, judged>>

-----------------------------------------------------------------------------
(* The answer to a tool call: the runner goes on with it, or the call fails *)
(* after its effect and the runner gives the project up.                   *)

Goto(r, next) == runner' = [runner EXCEPT ![r] = next]
GiveUp(r) == Goto(r, Idle)

Answered(r, next) ==
    \/ Goto(r, next)
    \/ "lost" \in Faults /\ GiveUp(r)
Died(r) == "crash" \in Faults /\ GiveUp(r)

Fails(r) ==
    /\ runner[r].pc # "idle"
    /\ GiveUp(r)
    /\ UNCHANGED <<users, store, judged>>

-----------------------------------------------------------------------------
(* Restore requests, which come before the curation of any project.        *)

Fits(q) == requests[q].expect \in shared /\ requests[q].from \in revs
PendingThatFit ==                                     \* mutant: hopeless requests are not listed
    {q \in Requests : requests[q] # None /\ requests[q].state = "pending" /\ Fits(q)}
Pending == {q \in Requests : requests[q] # None /\ requests[q].state = "pending"}

ListRestoreRequests(r) ==
    /\ runner[r].pc = "idle"
    /\ Goto(r, [Idle EXCEPT !.pc = "restores", !.todo = Pending])
    /\ UNCHANGED <<users, store, judged>>

(* The contents of the revision are put back under the id and the name of   *)
(* now; nobody asks whether another shared memory has that text by now.    *)
Restored(s, v) ==
    [id |-> s.id, version |-> s.version + 1, text |-> v.text, refs |-> v.refs, by |-> "restore"]

(* applySharedRestore.  What throws leaves the request pending; a call that *)
(* fails ends the restores of this run, not its curation.                  *)
ApplyRestore(r, q) ==
    LET Mutate ==
            IF Fits(q)
            THEN /\ shared' = (shared \ {requests[q].expect})
                                \cup {Restored(requests[q].expect, requests[q].from)}
                 /\ revs' = revs \cup {requests[q].expect}
            ELSE UNCHANGED <<shared, revs>>
    IN
    /\ runner[r].pc = "restores" /\ q \in runner[r].todo
    /\ \/ /\ q \in Pending /\ Mutate
          /\ requests' = [requests EXCEPT ![q].state = IF Fits(q) THEN "succeeded" ELSE "failed"]
       \/ q \in Pending /\ Fits(q) /\ Faults \cap {"mutation", "crash"} # {} /\ Mutate /\ UNCHANGED requests
       \/ (q \notin Pending \/ "mutation" \in Faults) /\ UNCHANGED <<shared, revs, requests>>
    /\ \E todo \in {runner[r].todo \ {q}, {}} :
            Goto(r, [runner[r] EXCEPT !.todo = todo])
    /\ UNCHANGED <<users, ops, cursor, deferred, judged>>

CollectTargets(r) ==
    /\ runner[r].pc = "restores" /\ runner[r].todo = {}
    /\ Goto(r, [Idle EXCEPT !.pc = "first", !.targets = shared])
    /\ UNCHANGED <<users, store, judged>>

-----------------------------------------------------------------------------
(* Pages: sourceSnapshot and savePage.                                     *)

(* The records after a place, in the order of their listing.               *)
Before(m, k) == mem[m].at < mem[k].at \/ (mem[m].at = mem[k].at /\ m < k)
After(p) ==
    IF p.stage = "deferred" THEN {m \in deferred : m > p.id}
    ELSE {m \in Mems : Exists(m) /\ (mem[m].at > p.at \/ (mem[m].at = p.at /\ m > p.id))}
ListedAfterFrom(p, w) ==                              \* mutant: the first moment is left out
    IF p.stage = "deferred" THEN After(p)
    ELSE {m \in After(p) : w.from < mem[m].at /\ mem[m].at < w.to}
Listed(p, w) ==
    IF p.stage = "deferred" THEN After(p)
    ELSE {m \in After(p) : w.from <= mem[m].at /\ mem[m].at < w.to}
Precedes(p, m, k) == IF p.stage = "deferred" THEN m < k ELSE Before(m, k)
Selected(p, w) ==
    {k \in Listed(p, w) : Cardinality({m \in Listed(p, w) : Precedes(p, m, k)}) < PageSize}
Last(p, set) == {k \in set : \A m \in set : m = k \/ Precedes(p, m, k)}

(* The archived take a place in a window's page and are not shown; as       *)
(* deferred candidates they are dropped.                                   *)
PageItems(p, w) == {ItemOf(m) : m \in {m \in Selected(p, w) : Live(m)}}
Dropped(p, w) == IF p.stage = "deferred" THEN {m \in Selected(p, w) : ~Live(m)} ELSE {}

(* Where the next page starts: one place, or none. *)
NextPlaces(p, w) ==
    IF Selected(p, w) # Listed(p, w) THEN
        {[stage |-> p.stage, at |-> IF p.stage = "window" THEN mem[k].at ELSE 0, id |-> k] :
            k \in Last(p, Selected(p, w))}
    ELSE IF p.stage = "deferred" THEN {Start("window")}
    ELSE {None}

(* A page is saved and handed to the runner, which drafts proposals for it. *)
TakePage(r, p, w) ==
    /\ deferred' = deferred \ Dropped(p, w)
    /\ \/ \E next \in NextPlaces(p, w) :
            Answered(r, [runner[r] EXCEPT
                !.run = [w EXCEPT !.pages = @ + 1, !.snapshot = next = None],
                !.pc = "propose", !.items = PageItems(p, w), !.next = next,
                !.outcomes = {[id |-> m, outcome |-> "no_op"] : m \in IdsOf(PageItems(p, w))}])
       \/ Died(r)
    /\ UNCHANGED <<users, shared, revs, ops, cursor, requests, judged>>

(* begin, and the first page of the new run. *)
FirstPage(r) ==
    /\ runner[r].pc = "first"
    /\ cursor < clock
    /\ LET run == [from |-> cursor, to |-> clock, before |-> cursor, pages |-> 0,
                   recorded |-> 0, snapshot |-> FALSE]
       IN TakePage(r, Start(IF deferred # {} THEN "deferred" ELSE "window"), run)

(* begin throws: there is no time between the cursor and now. *)
EmptyWindow(r) ==
    /\ runner[r].pc = "first" /\ cursor >= clock
    /\ GiveUp(r)
    /\ UNCHANGED <<users, store, judged>>

NextPage(r) ==
    /\ runner[r].pc = "page"
    /\ TakePage(r, runner[r].next, runner[r].run)

-----------------------------------------------------------------------------
(* Promotion: applyProposal.                                               *)

Decide(r, cited, outcome) ==
    [runner[r] EXCEPT
        !.items = {i \in @ : i.id \notin cited},
        !.outcomes = {IF o.id \in cited THEN [o EXCEPT !.outcome = outcome] ELSE o : o \in @}]

(* What the handler makes of a proposal that cites some items of its page   *)
(* and may nominate a shared memory as the runner saw it.                  *)
Effect(outcome, new, op, kept) ==
    [outcome |-> outcome, shared |-> new, op |-> op, deferred |-> kept]
Refused == Effect("apply_conflict", shared, {}, deferred)

ExactUnchecked(text) == {}                            \* mutant: no look for an exact copy
Exact(text) == {s \in shared : s.text = text}

Rewritten(target, proposal) ==
    [id |-> target.id, version |-> target.version + 1, text |-> proposal.text,
     refs |-> target.refs \cup IdsOf(proposal.cited),
     by |-> IF target.text = proposal.text THEN target.by ELSE "promotion"]
Updated(target, proposal) ==
    LET cited == IdsOf(proposal.cited) IN
    IF target.text = proposal.text /\ cited \subseteq target.refs
    THEN Effect("no_op", shared, {}, deferred \ cited)
    ELSE IF proposal \in ops THEN Effect("promoted", shared, {}, deferred \ cited)
    ELSE Effect("promoted", (shared \ {target}) \cup {Rewritten(target, proposal)}, {proposal},
                deferred \ cited)

New(proposal) ==
    [id |-> [cited |-> proposal.cited, text |-> proposal.text], version |-> 1,
     text |-> proposal.text, refs |-> IdsOf(proposal.cited), by |-> "promotion"]
Created(proposal) ==
    LET cited == IdsOf(proposal.cited) IN
    IF Cardinality(shared) >= Cap THEN Effect("shared_cap", shared, {}, deferred \cup cited)
    ELSE IF proposal \in ops THEN Effect("promoted", shared, {}, deferred \ cited)
    ELSE Effect("promoted", shared \cup {New(proposal)}, {proposal}, deferred \ cited)

(* An exact copy is the target; of several nobody knows which. *)
Promotion(proposal) ==
    LET nominated == proposal.target
        exact == Exact(proposal.text)
    IN
    IF \/ \E i \in proposal.cited : ~Live(i.id) \/ i # ItemOf(i.id)
       \/ \E s, t \in exact : s # t
    THEN Refused
    ELSE IF exact # {} THEN
        LET s == CHOOSE s \in exact : TRUE IN
        IF nominated # None /\ nominated # s
        THEN IF nominated.id = s.id /\ IdsOf(proposal.cited) \subseteq s.refs
             THEN Effect("promoted", shared, {}, deferred) ELSE Refused
        ELSE Updated(s, proposal)
    ELSE IF nominated = None THEN Created(proposal)
    ELSE IF nominated \in shared THEN Updated(nominated, proposal)
    ELSE Refused

(* Memories that hold something that must not be shared are left alone; a   *)
(* proposal whose evidence is weak, or whose name another shared memory has *)
(* (asked before the record of operations), is refused.                    *)
Unsafe(proposal) == Effect("no_op", shared, {}, deferred \ IdsOf(proposal.cited))
Effects(proposal) == {Promotion(proposal), Unsafe(proposal), Refused}

Proposals(r) ==
    [cited: SUBSET runner[r].items \ {{}}, text: Texts, target: runner[r].targets \cup {None}]

Propose(r, proposal) ==
    LET cited == IdsOf(proposal.cited) IN
    /\ runner[r].pc = "propose"
    /\ \E e \in Effects(proposal) :
        /\ Cardinality(ops \cup e.op) <= MaxOps
        /\ shared' = e.shared
        /\ revs' = revs \cup (shared \ e.shared)
        /\ ops' = ops \cup e.op
        /\ judged' = IF e.outcome \in {"promoted", "no_op"} THEN judged \cup cited ELSE judged
        /\ \/ deferred' = e.deferred /\ Answered(r, Decide(r, cited, e.outcome))
           \/ deferred' = deferred /\ Died(r)
           \/ e.op # {} /\ "mutation" \in Faults /\ deferred' = deferred /\ GiveUp(r)
    /\ UNCHANGED <<users, cursor, requests>>

-----------------------------------------------------------------------------
(* Outcomes and the cursor.                                                *)

(* Each outcome that is not a cap settles its deferred candidate, or makes  *)
(* one of a memory that changed under its proposal.                        *)
SettledForgetting(set) ==                             \* mutant: a conflict is settled too
    deferred \ {o.id : o \in {o \in set : o.outcome # "shared_cap"}}
Settled(set) ==
    LET again == {o.id : o \in {o \in set : o.outcome = "apply_conflict" /\ Live(o.id)}}
        done == {o.id : o \in {o \in set : o.outcome # "shared_cap"}} \ again
    IN (deferred \ done) \cup again

Counted(doc) == [doc EXCEPT !.recorded = @ + 1]

RecordOutcomes(r) ==
    LET all == runner[r].outcomes
        onward == IF runner[r].next = None THEN "complete" ELSE "page"
    IN
    /\ runner[r].pc = "propose"
    /\ judged' = judged \cup {o.id : o \in {o \in all : o.outcome \in {"promoted", "no_op"}}}
    /\ \/ /\ deferred' = Settled(all)
          /\ Answered(r, [runner[r] EXCEPT !.pc = onward, !.run = Counted(@), !.items = {},
                                            !.outcomes = {}])
       \/ \E first \in SUBSET all : deferred' = Settled(first) /\ Died(r)
    /\ UNCHANGED <<users, shared, revs, ops, cursor, requests>>

ShouldAdvance(r) == cursor = runner[r].run.before

Finished(r) == runner[r].run.snapshot /\ runner[r].run.pages # 0 /\ runner[r].run.recorded = runner[r].run.pages

Complete(r) ==
    /\ runner[r].pc = "complete"
    /\ cursor' = IF Finished(r) /\ ShouldAdvance(r) THEN runner[r].run.to ELSE cursor
    /\ GiveUp(r)
    /\ UNCHANGED <<users, shared, revs, ops, deferred, requests, judged>>

-----------------------------------------------------------------------------
Users ==
    \/ \E m \in Mems : Save(m) \/ Edit(m) \/ Archive(m) \/ Forget(m)
    \/ \E s \in shared : ForgetShared(s) \/ \E q \in Requests : RequestRestore(q, s)

Calls(r) ==
    \/ ListRestoreRequests(r)
    \/ \E q \in Requests : ApplyRestore(r, q)
    \/ CollectTargets(r) \/ FirstPage(r) \/ EmptyWindow(r) \/ NextPage(r)
    \/ \E proposal \in Proposals(r) : Propose(r, proposal)
    \/ RecordOutcomes(r) \/ Complete(r)

Next == Tick \/ Users \/ \E r \in Runners : Calls(r) \/ Fails(r)

(* The schedule starts its runner again and again, and time goes on. *)
Spec == Init /\ [][Next]_vars /\ WF_vars(Tick) /\ \A r \in Runners : WF_vars(Calls(r))

-----------------------------------------------------------------------------
(* Every variable keeps its shape; no run has more outcomes than pages.      *)
TypeOK ==
    /\ clock \in Time /\ cursor \in Time
    /\ mem \in [Mems -> Memory \cup {None}]
    /\ shared \subseteq SharedMemory /\ revs \subseteq SharedMemory
    /\ requests \in [Requests -> RestoreRequest \cup {None}]
    /\ deferred \subseteq Mems /\ judged \subseteq Mems
    /\ runner \in [Runners -> Runner]
    /\ \A r \in Runners :
            runner[r].run # None => runner[r].run.recorded <= runner[r].run.pages

(* No memory falls between the runs: one that was saved before the cursor    *)
(* and is still active has been decided about, or waits as a deferred       *)
(* candidate.                                                              *)
NothingPassedOver ==
    \A m \in Mems : Live(m) /\ mem[m].at < cursor => m \in judged \cup deferred

(* No text is shared twice, however often a page is read and proposed again, *)
(* unless a restore brought one of the two back.                           *)
OneCopy == \A s, t \in shared : s.text = t.text => s = t \/ "restore" \in {s.by, t.by}

(* A call of this step failed: the runner gave up what it was doing, or a    *)
(* restore threw and its request stays pending.                            *)
GaveUp(r) ==
    /\ runner[r].pc \notin {"idle", "complete"} /\ runner'[r].pc = "idle"
    /\ ~(runner[r].pc = "first" /\ cursor >= clock)
Threw(r) ==
    \E q \in runner[r].todo \ runner'[r].todo : requests'[q].state = "pending"
FailedCall == \E r \in Runners : GaveUp(r) \/ Threw(r)

(* Unless calls fail for ever, every memory is decided about or deferred in  *)
(* the end, also after runs that broke off.                                 *)
EveryMemoryIsReached ==
    \/ []<><<FailedCall>>_vars
    \/ \A m \in Mems : (Live(m) ~> (~Live(m) \/ m \in judged \cup deferred))

(* Unless calls fail for ever, every restore request is settled.             *)
RequestsSettle ==
    \/ []<><<FailedCall>>_vars
    \/ \A q \in Requests :
            requests[q] # None ~> (requests[q] # None /\ requests[q].state # "pending")
=============================================================================
