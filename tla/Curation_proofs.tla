--------------------------- MODULE Curation_proofs ---------------------------
(***************************************************************************)
(* Proofs about Curation: no memory falls between the runs, and no text is *)
(* shared twice, for any number of memories, runners and restore requests, *)
(* whatever page size, and whatever calls are lost.                        *)
(***************************************************************************)
EXTENDS Curation, TLAPS, FiniteSetTheorems

-----------------------------------------------------------------------------
(* What a run has still before it.                                         *)

InWindow(m, run) == run.from <= mem[m].at /\ mem[m].at < run.to

(* A memory that a listing from place p shows, now or later.               *)
Ahead(p, m) ==
    \/ p.stage = "deferred"
    \/ mem[m].at > p.at
    \/ mem[m].at = p.at /\ m > p.id

CaredFor(m) == m \in judged \cup deferred

Reading(r) == runner[r].pc \in {"propose", "page", "complete"}

(* Every memory of a run's window has been decided about or deferred, is   *)
(* on the page in hand, or comes after it.                                 *)
Covers(r) ==
    \A m \in Mems :
        Live(m) /\ InWindow(m, runner[r].run) =>
            \/ CaredFor(m)
            \/ runner[r].pc = "propose" /\ \E o \in runner[r].outcomes : o.id = m
            \/ runner[r].next # None /\ Ahead(runner[r].next, m)

(* What the cap kept out of a run waits as a deferred candidate. *)
CapsWait(r) ==
    \A o \in runner[r].outcomes :
        o.outcome = "shared_cap" /\ Live(o.id) /\ InWindow(o.id, runner[r].run) => CaredFor(o.id)

RunsOn(r) ==
    /\ runner[r].run # None /\ runner[r].run.from = runner[r].run.before
    /\ runner[r].run.to <= clock
    /\ runner[r].pc = "propose" => runner[r].run.recorded < runner[r].run.pages
    /\ runner[r].pc = "page" => runner[r].next # None
    /\ runner[r].pc = "complete" => runner[r].next = None

CoverInv ==
    /\ cursor <= clock
    /\ \A m \in Mems : mem[m] # None => mem[m].at <= clock
    /\ NothingPassedOver
    /\ \A r \in Runners : Reading(r) => RunsOn(r) /\ Covers(r) /\ CapsWait(r)

-----------------------------------------------------------------------------
(* Runners.                                                                *)

LEMMA IdleTyped == Idle \in Runner /\ Idle.pc = "idle" /\ Idle.outcomes = {}
BY DEF Idle, Runner

LEMMA Goes ==
    ASSUME TypeOK, NEW r \in Runners, NEW next \in Runner, Goto(r, next)
    PROVE  /\ runner' \in [Runners -> Runner] /\ runner'[r] = next
           /\ \A q \in Runners \ {r} : runner'[q] = runner[q]
BY DEF TypeOK, Goto

(* A call ends with the next step of its runner, or the runner gives up. *)
LEMMA Ends ==
    ASSUME TypeOK, NEW r \in Runners, NEW next \in Runner, Answered(r, next) \/ Died(r) \/ GiveUp(r)
    PROVE  /\ runner' \in [Runners -> Runner] /\ runner'[r] \in {next, Idle}
           /\ \A q \in Runners \ {r} : runner'[q] = runner[q]
BY Goes, IdleTyped DEF Answered, Died, GiveUp

LEMMA RunnerFields ==
    ASSUME TypeOK, NEW r \in Runners
    PROVE  /\ runner[r] \in Runner
           /\ runner[r].todo \subseteq Requests /\ runner[r].targets \subseteq SharedMemory
           /\ runner[r].items \subseteq Item /\ runner[r].next \in Place \cup {None}
           /\ runner[r].run \in Run \cup {None}
           /\ runner[r].outcomes \subseteq [id: Mems, outcome: Outcome]
           /\ runner[r].run # None => /\ runner[r].run \in Run
                                      /\ runner[r].run.recorded <= runner[r].run.pages
BY DEF TypeOK, Runner

LEMMA Memories ==
    ASSUME TypeOK, NEW m \in Mems, Exists(m)
    PROVE  /\ mem[m] \in Memory /\ mem[m].at \in Time \ {0} /\ mem[m].at \in Nat
           /\ mem[m].version \in 1..MaxVersion /\ ItemOf(m) \in Item /\ m \in Nat \ {0}
BY BoundsAssumption, IdsAssumption DEF TypeOK, Exists, Memory, Time, ItemOf, Item

-----------------------------------------------------------------------------
(* Promotions.                                                             *)

(* A shared memory gets the text and the references of a proposal. *)
Rewrites(p, new) ==
    \E s \in shared :
        /\ s.text = p.text \/ Exact(p.text) = {}
        /\ new = (shared \ {s}) \cup {Rewritten(s, p)}

Adds(p, new) == Exact(p.text) = {} /\ new = shared \cup {New(p)}

Changes(p, e) ==
    LET cited == IdsOf(p.cited) IN
    /\ e.shared = shared \/ Rewrites(p, e.shared) \/ Adds(p, e.shared)
    /\ e.outcome \in Outcome
    /\ e.outcome \in {"promoted", "no_op"} => e.deferred \in {deferred, deferred \ cited}
    /\ e.outcome = "shared_cap" => e.deferred = deferred \cup cited
    /\ e.outcome = "apply_conflict" => e.deferred = deferred

LEMMA EffectFields ==
    ASSUME NEW outcome, NEW new, NEW op, NEW kept
    PROVE  /\ Effect(outcome, new, op, kept).outcome = outcome
           /\ Effect(outcome, new, op, kept).shared = new
           /\ Effect(outcome, new, op, kept).deferred = kept
BY DEF Effect

LEMMA EffectChanges ==
    ASSUME NEW p, NEW outcome \in Outcome, NEW new, NEW op, NEW kept,
           new = shared \/ Rewrites(p, new) \/ Adds(p, new),
           outcome \in {"promoted", "no_op"} => kept \in {deferred, deferred \ IdsOf(p.cited)},
           outcome = "shared_cap" => kept = deferred \cup IdsOf(p.cited),
           outcome = "apply_conflict" => kept = deferred
    PROVE  Changes(p, Effect(outcome, new, op, kept))
BY EffectFields DEF Changes

LEMMA UpdateChanges ==
    ASSUME NEW p, NEW s \in shared, s.text = p.text \/ Exact(p.text) = {}
    PROVE  Changes(p, Updated(s, p))
<1>1. Rewrites(p, (shared \ {s}) \cup {Rewritten(s, p)})
  BY DEF Rewrites
<1>2. \/ Updated(s, p) = Effect("no_op", shared, {}, deferred \ IdsOf(p.cited))
      \/ Updated(s, p) = Effect("promoted", shared, {}, deferred \ IdsOf(p.cited))
      \/ Updated(s, p) =
            Effect("promoted", (shared \ {s}) \cup {Rewritten(s, p)}, {p},
                   deferred \ IdsOf(p.cited))
  BY DEF Updated
<1>3. QED
  BY <1>1, <1>2, EffectChanges DEF Outcome

LEMMA CreateChanges ==
    ASSUME NEW p, Exact(p.text) = {}
    PROVE  Changes(p, Created(p))
<1>1. Adds(p, shared \cup {New(p)})
  BY DEF Adds
<1>2. \/ Created(p) = Effect("shared_cap", shared, {}, deferred \cup IdsOf(p.cited))
      \/ Created(p) = Effect("promoted", shared, {}, deferred \ IdsOf(p.cited))
      \/ Created(p) = Effect("promoted", shared \cup {New(p)}, {p}, deferred \ IdsOf(p.cited))
  BY DEF Created
<1>3. QED
  BY <1>1, <1>2, EffectChanges DEF Outcome

LEMMA PromotionChanges ==
    ASSUME NEW p, NEW e \in Effects(p)
    PROVE  Changes(p, e)
<1>1. Changes(p, Refused)
  BY EffectChanges DEF Refused, Outcome
<1>2. Changes(p, Unsafe(p))
  BY EffectChanges DEF Unsafe, Outcome
<1>3. Changes(p, Effect("promoted", shared, {}, deferred))
  BY EffectChanges DEF Outcome
<1>4. CASE Exact(p.text) # {}
  <2>1. (CHOOSE t \in Exact(p.text) : TRUE) \in Exact(p.text)
    BY <1>4
  <2>2. PICK s \in shared : s = (CHOOSE t \in Exact(p.text) : TRUE) /\ s.text = p.text
    BY <2>1 DEF Exact
  <2>3. \/ Promotion(p) = Refused
        \/ Promotion(p) = Effect("promoted", shared, {}, deferred)
        \/ Promotion(p) = Updated(s, p)
    BY <1>4, <2>2 DEF Promotion
  <2>4. QED
    BY <1>1, <1>2, <1>3, <2>2, <2>3, UpdateChanges DEF Effects
<1>5. CASE Exact(p.text) = {}
  <2>1. \/ Promotion(p) = Refused
        \/ Promotion(p) = Created(p)
        \/ p.target \in shared /\ Promotion(p) = Updated(p.target, p)
    BY <1>5 DEF Promotion
  <2>2. QED
    BY <1>1, <1>2, <1>5, <2>1, UpdateChanges, CreateChanges DEF Effects
<1>6. QED
  BY <1>4, <1>5

-----------------------------------------------------------------------------
(* Pages.                                                                  *)

LEMMA PageParts ==
    ASSUME TypeOK, NEW p \in Place, NEW w \in Run
    PROVE  /\ Selected(p, w) \subseteq Listed(p, w) /\ Listed(p, w) \subseteq After(p)
           /\ After(p) \subseteq Mems /\ Dropped(p, w) \subseteq Mems
           /\ p.stage # "deferred" => \A m \in After(p) : Exists(m)
BY DEF Selected, Listed, After, Dropped, TypeOK

LEMMA PlacesTyped ==
    ASSUME TypeOK, NEW p \in Place, NEW w \in Run
    PROVE  NextPlaces(p, w) \subseteq Place \cup {None}
<1>1. Start("window") \in Place
  BY BoundsAssumption DEF Start, Place, Time
<1>2. ASSUME NEW k \in Last(p, Selected(p, w))
      PROVE  [stage |-> p.stage, at |-> IF p.stage = "window" THEN mem[k].at ELSE 0, id |-> k] \in Place
  <2>1. k \in Mems /\ k \in After(p)
    BY PageParts DEF Last
  <2>2. p.stage \in {"deferred", "window"}
    BY DEF Place
  <2>3. p.stage = "window" => mem[k].at \in Time
    BY <2>1, <2>2, PageParts, Memories
  <2>4. 0 \in Time
    BY BoundsAssumption DEF Time
  <2>5. QED
    BY <2>1, <2>2, <2>3, <2>4 DEF Place
<1>3. QED
  BY <1>1, <1>2 DEF NextPlaces

LEMMA ItemsTyped ==
    ASSUME TypeOK, NEW p \in Place, NEW w \in Run
    PROVE  PageItems(p, w) \subseteq Item /\ IdsOf(PageItems(p, w)) \subseteq Mems
<1>1. PageItems(p, w) \subseteq Item
  BY PageParts, Memories DEF PageItems, Live
<1>2. QED
  BY <1>1 DEF IdsOf, Item

(* What a runner knows when it has been handed a page. *)
Handed(r, p, w, next) ==
    [runner[r] EXCEPT
        !.run = [w EXCEPT !.pages = @ + 1, !.snapshot = next = None],
        !.pc = "propose", !.items = PageItems(p, w), !.next = next,
        !.outcomes = {[id |-> m, outcome |-> "no_op"] : m \in IdsOf(PageItems(p, w))}]

LEMMA HandedTyped ==
    ASSUME TypeOK, NEW r \in Runners, NEW p \in Place, NEW w \in Run, w.recorded <= w.pages,
           NEW next \in NextPlaces(p, w)
    PROVE  /\ Handed(r, p, w, next) \in Runner
           /\ Handed(r, p, w, next).pc = "propose" /\ Handed(r, p, w, next).next = next
           /\ Handed(r, p, w, next).run \in Run
           /\ Handed(r, p, w, next).run.recorded < Handed(r, p, w, next).run.pages
           /\ Handed(r, p, w, next).run.from = w.from
           /\ Handed(r, p, w, next).run.to = w.to
           /\ Handed(r, p, w, next).run.before = w.before
           /\ Handed(r, p, w, next).outcomes =
                {[id |-> m, outcome |-> "no_op"] : m \in IdsOf(PageItems(p, w))}
<1> DEFINE s == (next = None)
           n == w.pages + 1
           run == [w EXCEPT !.pages = n, !.snapshot = s]
           outcomes == {[id |-> m, outcome |-> "no_op"] : m \in IdsOf(PageItems(p, w))}
           new == [runner[r] EXCEPT !.run = run, !.pc = "propose", !.items = PageItems(p, w),
                                    !.next = next, !.outcomes = outcomes]
<1>1. s \in BOOLEAN /\ n \in Nat /\ w.recorded \in Nat /\ w.recorded < n
  BY DEF Run
<1>2. new = Handed(r, p, w, next)
  BY DEF Handed
<1> HIDE DEF s, n
<1>3. /\ run \in Run /\ run.recorded < run.pages
      /\ run.from = w.from /\ run.to = w.to /\ run.before = w.before
  BY <1>1 DEF Run
<1>4. outcomes \subseteq [id: Mems, outcome: Outcome]
  BY ItemsTyped DEF Outcome
<1>5. next \in Place \cup {None} /\ PageItems(p, w) \subseteq Item
  BY PlacesTyped, ItemsTyped
<1> HIDE DEF run, outcomes
<1>6. /\ new \in Runner /\ new.pc = "propose" /\ new.next = next /\ new.run = run
      /\ new.outcomes = outcomes
  BY <1>3, <1>4, <1>5, RunnerFields DEF Runner
<1> HIDE DEF new
<1>7. QED
  BY <1>2, <1>3, <1>6 DEF outcomes

-----------------------------------------------------------------------------
(* Types.                                                                  *)

RunnersTyped ==
    /\ runner \in [Runners -> Runner]
    /\ \A r \in Runners :
            runner[r].run # None => runner[r].run.recorded <= runner[r].run.pages

StoreTyped ==
    /\ shared \subseteq SharedMemory /\ revs \subseteq SharedMemory /\ cursor \in Time
    /\ requests \in [Requests -> RestoreRequest \cup {None}]
    /\ deferred \subseteq Mems /\ judged \subseteq Mems

UsersTyped == clock \in Time /\ mem \in [Mems -> Memory \cup {None}]

LEMMA TypeParts == TypeOK <=> RunnersTyped /\ StoreTyped /\ UsersTyped
BY DEF TypeOK, RunnersTyped, StoreTyped, UsersTyped

LEMMA TypePartsNext == TypeOK' <=> RunnersTyped' /\ StoreTyped' /\ UsersTyped'
BY DEF TypeOK, RunnersTyped, StoreTyped, UsersTyped

LEMMA RunnerTyped ==
    ASSUME TypeOK, NEW r \in Runners, NEW next \in Runner,
           next.run # None => next.run.recorded <= next.run.pages,
           Answered(r, next) \/ Died(r) \/ GiveUp(r)
    PROVE  RunnersTyped'
<1>1. Idle.run = None
  BY DEF Idle
<1>2. QED
  BY <1>1, Ends, TypeParts DEF RunnersTyped

LEMMA InitTyped == Init => TypeOK
<1> SUFFICES ASSUME Init PROVE TypeOK
  OBVIOUS
<1>1. UsersTyped
  BY BoundsAssumption DEF Init, UsersTyped, Time
<1>2. StoreTyped
  BY BoundsAssumption DEF Init, StoreTyped, Time
<1>3. RunnersTyped
  <2>1. Idle.run = None
    BY DEF Idle
  <2>2. \A r \in Runners : runner[r] = Idle
    BY DEF Init
  <2>3. runner \in [Runners -> Runner]
    BY IdleTyped DEF Init
  <2>4. QED
    BY <2>1, <2>2, <2>3 DEF RunnersTyped
<1>4. QED
  BY <1>1, <1>2, <1>3, TypeParts

LEMMA UsersKeepTypes == TypeOK /\ (Tick \/ Users) => TypeOK'
<1> SUFFICES ASSUME TypeOK, Tick \/ Users PROVE TypeOK'
  OBVIOUS
<1>1. CASE Tick
  <2>1. UsersTyped'
    BY <1>1, TypeParts, BoundsAssumption DEF Tick, UsersTyped, Time
  <2>2. RunnersTyped' /\ StoreTyped'
    BY <1>1, TypeParts DEF Tick, store, RunnersTyped, StoreTyped
  <2>3. QED
    BY <2>1, <2>2, TypePartsNext
<1>2. ASSUME NEW m \in Mems, Save(m) \/ Edit(m) \/ Archive(m) \/ Forget(m)
      PROVE  TypeOK'
  <2>1. PICK new : UserStep(m, new) /\ new \in Memory
    <3>1. CASE Save(m)
      <4>1. [at |-> clock, version |-> 1, active |-> TRUE] \in Memory
        BY TypeParts, BoundsAssumption DEF UsersTyped, Memory
      <4>2. QED
        BY <3>1, <4>1 DEF Save
    <3>2. CASE Edit(m)
      <4>1. mem[m] \in Memory
        BY <3>2, Memories DEF Edit, Live
      <4>2. [mem[m] EXCEPT !.version = @ + 1] \in Memory
        BY <3>2, <4>1, BoundsAssumption DEF Edit, Memory
      <4>3. QED
        BY <3>2, <4>2 DEF Edit
    <3>3. CASE Archive(m)
      <4>1. mem[m] \in Memory
        BY <3>3, Memories DEF Archive, Live
      <4>2. [mem[m] EXCEPT !.active = FALSE] \in Memory
        BY <4>1 DEF Memory
      <4>3. QED
        BY <3>3, <4>2 DEF Archive
    <3>4. CASE Forget(m)
      <4>1. Forgotten \in Memory
        BY BoundsAssumption DEF Forgotten, Memory, Time
      <4>2. QED
        BY <3>4, <4>1 DEF Forget
    <3>5. QED
      BY <1>2, <3>1, <3>2, <3>3, <3>4
  <2>2. UsersTyped'
    BY <2>1, TypeParts DEF UserStep, UsersTyped
  <2>3. RunnersTyped' /\ StoreTyped'
    BY <2>1, TypeParts DEF UserStep, store, RunnersTyped, StoreTyped
  <2>4. QED
    BY <2>2, <2>3, TypePartsNext
<1>3. ASSUME NEW s \in shared, ForgetShared(s)
      PROVE  TypeOK'
  BY <1>3, TypeParts, TypePartsNext DEF ForgetShared, users, RunnersTyped, StoreTyped, UsersTyped
<1>4. ASSUME NEW s \in shared, NEW q \in Requests, RequestRestore(q, s)
      PROVE  TypeOK'
  <2>1. PICK v \in revs :
            requests' = [requests EXCEPT ![q] = [expect |-> s, from |-> v, state |-> "pending"]]
    BY <1>4 DEF RequestRestore, RevisionsOf
  <2>2. [expect |-> s, from |-> v, state |-> "pending"] \in RestoreRequest
    BY TypeParts DEF StoreTyped, RestoreRequest
  <2>5. StoreTyped'
    BY <1>4, <2>1, <2>2, TypeParts DEF RequestRestore, StoreTyped
  <2>3. RunnersTyped' /\ UsersTyped'
    BY <1>4, TypeParts DEF RequestRestore, users, RunnersTyped, UsersTyped
  <2>4. QED
    BY <2>3, <2>5, TypePartsNext
<1>5. QED
  BY <1>1, <1>2, <1>3, <1>4 DEF Users

LEMMA RestoresKeepTypes ==
    ASSUME TypeOK, NEW r \in Runners, NEW q \in Requests, ApplyRestore(r, q)
    PROVE  TypeOK'
<1>1. RunnersTyped'
  <2>1. PICK todo \in {runner[r].todo \ {q}, {}} : Goto(r, [runner[r] EXCEPT !.todo = todo])
    BY DEF ApplyRestore
  <2> DEFINE next == [runner[r] EXCEPT !.todo = todo]
  <2>2. next \in Runner /\ next.run = runner[r].run
    BY <2>1, RunnerFields DEF Runner
  <2>3. Answered(r, next)
    BY <2>1 DEF Answered
  <2> HIDE DEF next
  <2>4. QED
    BY <2>2, <2>3, RunnerTyped, RunnerFields
<1>2. shared' \subseteq SharedMemory /\ revs' \subseteq SharedMemory
  <2>1. CASE q \in Pending /\ Fits(q)
    <3>1. PICK s \in SharedMemory, v \in SharedMemory :
            s = requests[q].expect /\ v = requests[q].from
      BY <2>1, TypeParts DEF Fits, StoreTyped
    <3>2. Restored(s, v) \in SharedMemory
      BY DEF Restored, SharedMemory
    <3>3. shared' \subseteq shared \cup {Restored(s, v)} /\ revs' \subseteq revs \cup {s}
      BY <2>1, <3>1 DEF ApplyRestore
    <3>4. QED
      BY <3>2, <3>3, TypeParts DEF StoreTyped
  <2>2. CASE ~(q \in Pending /\ Fits(q))
    <3>1. shared' = shared /\ revs' = revs
      BY <2>2 DEF ApplyRestore
    <3>2. QED
      BY <3>1, TypeParts DEF StoreTyped
  <2>3. QED
    BY <2>1, <2>2
<1>3. requests' \in [Requests -> RestoreRequest \cup {None}]
  <2>1. CASE requests' = requests
    BY <2>1, TypeParts DEF StoreTyped
  <2>2. CASE requests' # requests
    <3>1. q \in Pending /\ requests[q] # None
      BY <2>2 DEF ApplyRestore, Pending
    <3>2. PICK state \in {"succeeded", "failed"} : requests' = [requests EXCEPT ![q].state = state]
      BY <2>2 DEF ApplyRestore
    <3>3. requests[q] \in RestoreRequest
      BY <3>1, TypeParts DEF StoreTyped
    <3>4. [requests[q] EXCEPT !.state = state] \in RestoreRequest
      BY <3>3 DEF RestoreRequest
    <3>5. QED
      BY <3>2, <3>4, TypeParts DEF StoreTyped
  <2>3. QED
    BY <2>1, <2>2
<1>4. StoreTyped' /\ UsersTyped'
  BY <1>2, <1>3, TypeParts DEF ApplyRestore, users, StoreTyped, UsersTyped
<1>5. QED
  BY <1>1, <1>4, TypePartsNext

LEMMA PagesKeepTypes ==
    ASSUME TypeOK, NEW r \in Runners, NEW p \in Place, NEW w \in Run, w.recorded <= w.pages,
           TakePage(r, p, w)
    PROVE  TypeOK'
<1>1. RunnersTyped'
  <2>1. CASE Died(r)
    BY <2>1, IdleTyped, RunnerTyped DEF Idle
  <2>2. CASE ~Died(r)
    <3>1. PICK next \in NextPlaces(p, w) : Answered(r, Handed(r, p, w, next))
      BY <2>2 DEF TakePage, Handed
    <3>2. Handed(r, p, w, next).run \in Run /\ Handed(r, p, w, next) \in Runner
          /\ Handed(r, p, w, next).run.recorded < Handed(r, p, w, next).run.pages
      BY HandedTyped
    <3>3. Handed(r, p, w, next).run.recorded <= Handed(r, p, w, next).run.pages
      BY <3>2 DEF Run
    <3>4. QED
      BY <3>1, <3>2, <3>3, RunnerTyped
  <2>3. QED
    BY <2>1, <2>2
<1>2. StoreTyped' /\ UsersTyped'
  BY PageParts, TypeParts DEF TakePage, users, StoreTyped, UsersTyped
<1>3. QED
  BY <1>1, <1>2, TypePartsNext

(* The places and the run that pages are taken from. *)
NewRun ==
    [from |-> cursor, to |-> clock, before |-> cursor, pages |-> 0, recorded |-> 0, snapshot |-> FALSE]
FirstPlace == Start(IF deferred # {} THEN "deferred" ELSE "window")

LEMMA FirstParts ==
    ASSUME TypeOK
    PROVE  /\ NewRun \in Run /\ FirstPlace \in Place
           /\ NewRun.from = cursor /\ NewRun.before = cursor /\ NewRun.to = clock
           /\ NewRun.recorded <= NewRun.pages
BY TypeParts, BoundsAssumption DEF NewRun, FirstPlace, Start, Run, Place, StoreTyped, UsersTyped, Time

LEMMA FirstPageTakes ==
    ASSUME NEW r, FirstPage(r)
    PROVE  TakePage(r, FirstPlace, NewRun) /\ runner[r].pc = "first" /\ cursor < clock
BY DEF FirstPage, FirstPlace, NewRun

-----------------------------------------------------------------------------
(* Proposals and outcomes.                                                 *)

(* A proposal has the effect e, all of it or not. *)
Proposed(r, p, e) ==
    LET cited == IdsOf(p.cited) IN
    /\ Changes(p, e)
    /\ shared' = e.shared /\ revs' \subseteq revs \cup shared
    /\ judged' = IF e.outcome \in {"promoted", "no_op"} THEN judged \cup cited ELSE judged
    /\ \/ deferred' = e.deferred /\ Answered(r, Decide(r, cited, e.outcome))
       \/ deferred' = deferred /\ GiveUp(r)
    /\ UNCHANGED <<users, cursor, requests>>

LEMMA ProposeEffect ==
    ASSUME NEW r, NEW p, Propose(r, p)
    PROVE  \E e : Proposed(r, p, e)
<1>1. PICK e \in Effects(p) :
        /\ shared' = e.shared /\ revs' = revs \cup (shared \ e.shared)
        /\ judged' = IF e.outcome \in {"promoted", "no_op"} THEN judged \cup IdsOf(p.cited)
                     ELSE judged
        /\ \/ deferred' = e.deferred /\ Answered(r, Decide(r, IdsOf(p.cited), e.outcome))
           \/ deferred' = deferred /\ Died(r)
           \/ e.op # {} /\ "mutation" \in Faults /\ deferred' = deferred /\ GiveUp(r)
  BY DEF Propose
<1>2. Changes(p, e)
  BY <1>1, PromotionChanges
<1>3. Died(r) => GiveUp(r)
  BY DEF Died
<1>4. UNCHANGED <<users, cursor, requests>>
  BY DEF Propose
<1>5. QED
  BY <1>1, <1>2, <1>3, <1>4 DEF Proposed

LEMMA CitedTyped ==
    ASSUME TypeOK, NEW r \in Runners, NEW p \in Proposals(r)
    PROVE  p.cited \subseteq Item /\ IdsOf(p.cited) \subseteq Mems /\ p.text \in Texts
BY RunnerFields DEF IdsOf, Item, Proposals

Decided(o, cited, outcome) == IF o.id \in cited THEN [o EXCEPT !.outcome = outcome] ELSE o

LEMMA DecidedFields ==
    ASSUME NEW o \in [id: Mems, outcome: Outcome], NEW cited, NEW outcome \in Outcome
    PROVE  /\ Decided(o, cited, outcome) \in [id: Mems, outcome: Outcome]
           /\ Decided(o, cited, outcome).id = o.id
           /\ Decided(o, cited, outcome).outcome = IF o.id \in cited THEN outcome ELSE o.outcome
BY DEF Decided

LEMMA DecideFields ==
    ASSUME TypeOK, NEW r \in Runners, NEW cited, NEW outcome \in Outcome
    PROVE  /\ Decide(r, cited, outcome) \in Runner
           /\ Decide(r, cited, outcome).pc = runner[r].pc
           /\ Decide(r, cited, outcome).run = runner[r].run
           /\ Decide(r, cited, outcome).next = runner[r].next
           /\ Decide(r, cited, outcome).outcomes =
                {Decided(o, cited, outcome) : o \in runner[r].outcomes}
<1> DEFINE items == {i \in runner[r].items : i.id \notin cited}
           outcomes == {Decided(o, cited, outcome) : o \in runner[r].outcomes}
           new == [runner[r] EXCEPT !.items = items, !.outcomes = outcomes]
<1>1. items \subseteq Item
  BY RunnerFields
<1>2. outcomes \subseteq [id: Mems, outcome: Outcome]
  BY RunnerFields, DecidedFields
<1>3. Decide(r, cited, outcome) = new
  BY DEF Decide, Decided
<1> HIDE DEF items, outcomes
<1>4. /\ new \in Runner /\ new.pc = runner[r].pc /\ new.run = runner[r].run
      /\ new.next = runner[r].next /\ new.outcomes = outcomes
  BY <1>1, <1>2, RunnerFields DEF Runner
<1> HIDE DEF new
<1>5. QED
  BY <1>3, <1>4 DEF outcomes

LEMMA ChangesTyped ==
    ASSUME TypeOK, NEW p, p.cited \subseteq Item, p.text \in Texts, NEW e, Changes(p, e)
    PROVE  e.shared \subseteq SharedMemory /\ e.deferred \subseteq Mems
<1>1. IdsOf(p.cited) \subseteq Mems
  BY DEF IdsOf, Item
<1>2. deferred \subseteq Mems /\ shared \subseteq SharedMemory
  BY TypeParts DEF StoreTyped
<1>3. e.deferred \subseteq Mems
  BY <1>1, <1>2 DEF Changes, Outcome
<1>4. CASE Rewrites(p, e.shared)
  <2>1. PICK s \in shared : e.shared = (shared \ {s}) \cup {Rewritten(s, p)}
    BY <1>4 DEF Rewrites
  <2>2. Rewritten(s, p) \in SharedMemory
    BY <1>1, <1>2 DEF SharedMemory, Rewritten
  <2>3. QED
    BY <1>2, <1>3, <2>1, <2>2
<1>5. CASE Adds(p, e.shared)
  <2>1. New(p) \in SharedMemory
    BY <1>1 DEF SharedMemory, New
  <2>2. QED
    BY <1>2, <1>3, <1>5, <2>1 DEF Adds
<1>6. QED
  BY <1>2, <1>3, <1>4, <1>5 DEF Changes

LEMMA ProposalsKeepTypes ==
    ASSUME TypeOK, NEW r \in Runners, NEW p \in Proposals(r), NEW e, Proposed(r, p, e)
    PROVE  TypeOK'
<1>1. p.cited \subseteq Item /\ IdsOf(p.cited) \subseteq Mems /\ p.text \in Texts
  BY CitedTyped
<1>2. e.outcome \in Outcome
  BY DEF Proposed, Changes
<1>3. RunnersTyped'
  <2>1. Answered(r, Decide(r, IdsOf(p.cited), e.outcome)) \/ GiveUp(r)
    BY DEF Proposed
  <2>2. QED
    BY <1>2, <2>1, DecideFields, RunnerTyped, RunnerFields
<1>4. e.shared \subseteq SharedMemory /\ e.deferred \subseteq Mems
  BY <1>1, ChangesTyped DEF Proposed
<1>5. StoreTyped' /\ UsersTyped'
  BY <1>1, <1>4, TypeParts DEF Proposed, users, StoreTyped, UsersTyped
<1>6. QED
  BY <1>3, <1>5, TypePartsNext

(* What a runner knows when it has recorded a page. *)
Onward(r) == IF runner[r].next = None THEN "complete" ELSE "page"
Recorded(r) ==
    [runner[r] EXCEPT !.pc = Onward(r), !.run = Counted(@), !.items = {}, !.outcomes = {}]

LEMMA RecordedFields ==
    ASSUME TypeOK, NEW r \in Runners, runner[r].run # None
    PROVE  /\ runner[r].run.recorded < runner[r].run.pages => Recorded(r) \in Runner
           /\ Recorded(r).pc = Onward(r) /\ Recorded(r).next = runner[r].next
           /\ Recorded(r).outcomes = {} /\ Recorded(r).run = Counted(runner[r].run)
           /\ Recorded(r).run # None
           /\ Recorded(r).run.from = runner[r].run.from
           /\ Recorded(r).run.before = runner[r].run.before
           /\ Recorded(r).run.to = runner[r].run.to
           /\ Recorded(r).run.recorded = runner[r].run.recorded + 1
           /\ Recorded(r).run.pages = runner[r].run.pages
<1> DEFINE run == Counted(runner[r].run)
           pc == Onward(r)
           new == [runner[r] EXCEPT !.pc = pc, !.run = run, !.items = {}, !.outcomes = {}]
<1>1. pc \in {"complete", "page"}
  BY DEF Onward
<1>2. /\ run \in Run /\ run.from = runner[r].run.from /\ run.before = runner[r].run.before
      /\ run.to = runner[r].run.to /\ run.recorded = runner[r].run.recorded + 1
      /\ run.pages = runner[r].run.pages
  BY RunnerFields DEF Counted, Run
<1>3. new = Recorded(r)
  BY DEF Recorded
<1> HIDE DEF run, pc
<1>4. /\ new \in Runner /\ new.pc = pc /\ new.run = run /\ new.next = runner[r].next
      /\ new.outcomes = {}
  BY <1>1, <1>2, RunnerFields DEF Runner
<1> HIDE DEF new
<1>5. run # None
  BY <1>2, NoneAssumption
<1>6. QED
  BY <1>2, <1>3, <1>4, <1>5 DEF run, pc

-----------------------------------------------------------------------------
(* No memory is passed over: what keeps the cover of every run.            *)

(* What was decided about or deferred stays so, unless it is gone. *)
Care == \A m \in Mems : Live(m) /\ CaredFor(m) => m \in judged' \cup deferred'

Kept(r) == Reading(r) => RunsOn(r) /\ Covers(r) /\ CapsWait(r)

LEMMA CoverParts ==
    CoverInv <=>
        /\ cursor <= clock
        /\ \A m \in Mems : mem[m] # None => mem[m].at <= clock
        /\ NothingPassedOver
        /\ \A r \in Runners : Kept(r)
BY DEF CoverInv, Kept

LEMMA CoverPartsNext ==
    CoverInv' <=>
        /\ cursor' <= clock'
        /\ \A m \in Mems : mem'[m] # None => mem'[m].at <= clock'
        /\ NothingPassedOver'
        /\ \A r \in Runners : Kept(r)'
BY DEF CoverInv, Kept

LEMMA OthersKept ==
    ASSUME TypeOK, UNCHANGED users, Care, NEW q \in Runners, runner'[q] = runner[q], Kept(q)
    PROVE  Kept(q)'
<1> SUFFICES ASSUME Reading(q)' PROVE RunsOn(q)' /\ Covers(q)' /\ CapsWait(q)'
  BY DEF Kept
<1>1. RunsOn(q) /\ Covers(q) /\ CapsWait(q)
  BY DEF Kept, Reading
<1>2. \A m \in Mems : Live(m)' <=> Live(m)
  BY DEF users, Live, Exists
<1>3. RunsOn(q)'
  BY <1>1 DEF RunsOn, users
<1>4. Covers(q)'
  BY <1>1, <1>2 DEF Covers, users, InWindow, Ahead, Care, CaredFor
<1>5. CapsWait(q)'
  <2> SUFFICES ASSUME NEW o \in runner[q].outcomes, o.outcome = "shared_cap", Live(o.id)',
                      InWindow(o.id, runner[q].run)'
               PROVE  CaredFor(o.id)'
    BY DEF CapsWait
  <2>1. Live(o.id) /\ o.id \in Mems /\ InWindow(o.id, runner[q].run)
    BY RunnerFields DEF users, Live, Exists, InWindow
  <2>2. CaredFor(o.id)
    BY <1>1, <2>1 DEF CapsWait
  <2>3. QED
    BY <2>1, <2>2 DEF Care, CaredFor
<1>6. QED
  BY <1>3, <1>4, <1>5

LEMMA CallKeepsCover ==
    ASSUME TypeOK, CoverInv, UNCHANGED <<users, cursor>>, Care, NEW r \in Runners,
           \A q \in Runners \ {r} : runner'[q] = runner[q], Kept(r)'
    PROVE  CoverInv'
<1>1. \A q \in Runners : Kept(q)'
  BY OthersKept, CoverParts
<1>2. cursor' <= clock' /\ \A m \in Mems : mem'[m] # None => mem'[m].at <= clock'
  BY CoverParts DEF users
<1>3. NothingPassedOver'
  <2> SUFFICES ASSUME NEW m \in Mems, Live(m)', mem'[m].at < cursor'
               PROVE  m \in judged' \cup deferred'
    BY DEF NothingPassedOver
  <2>1. Live(m) /\ mem[m].at < cursor
    BY DEF users, Live, Exists
  <2>2. CaredFor(m)
    BY <2>1, CoverParts DEF NothingPassedOver, CaredFor
  <2>3. QED
    BY <2>1, <2>2 DEF Care
<1>4. QED
  BY <1>1, <1>2, <1>3, CoverPartsNext

LEMMA InitCovers == Init => CoverInv
<1> SUFFICES ASSUME Init PROVE CoverInv
  OBVIOUS
<1>1. \A r \in Runners : runner[r].pc = "idle"
  BY IdleTyped DEF Init
<1>2. \A r \in Runners : Kept(r)
  BY <1>1 DEF Kept, Reading
<1>3. NothingPassedOver
  BY DEF Init, NothingPassedOver, Live, Exists
<1>4. QED
  BY <1>2, <1>3, CoverParts DEF Init

(* Time and users leave every memory where it was, or put it at the end. *)
LEMMA UsersAge ==
    ASSUME TypeOK, CoverInv, Tick \/ Users
    PROVE  /\ clock' \in Nat /\ clock <= clock'
           /\ \A m \in Mems : mem'[m] # None => mem'[m].at <= clock'
           /\ \A m \in Mems : Live(m)' => \/ Live(m) /\ mem'[m].at = mem[m].at
                                          \/ mem'[m].at = clock
           /\ UNCHANGED <<cursor, deferred, runner, judged>>
<1>1. clock \in Nat /\ \A m \in Mems : mem[m] # None => mem[m].at <= clock
  BY CoverParts, TypeParts DEF UsersTyped, Time
<1>2. CASE Tick
  <2>1. clock' = clock + 1 /\ mem' = mem /\ UNCHANGED <<cursor, deferred, runner, judged>>
    BY <1>2 DEF Tick, store
  <2>2. \A m \in Mems : mem[m] # None => mem[m].at \in Nat
    BY TypeParts DEF UsersTyped, Memory, Time
  <2>3. QED
    BY <1>1, <2>1, <2>2 DEF Live, Exists
<1>3. ASSUME NEW k \in Mems, Save(k) \/ Edit(k) \/ Archive(k) \/ Forget(k)
      PROVE  /\ clock' = clock /\ UNCHANGED <<cursor, deferred, runner, judged>>
             /\ \A m \in Mems \ {k} : mem'[m] = mem[m]
             /\ mem'[k].at <= clock
             /\ Live(k)' => \/ Live(k) /\ mem'[k].at = mem[k].at
                            \/ mem'[k].at = clock
  <2>1. PICK new : UserStep(k, new) /\ new.at <= clock
                /\ (new.at # 0 /\ new.active => (Live(k) /\ new.at = mem[k].at) \/ new.at = clock)
    <3>1. CASE Save(k)
      BY <1>1, <3>1 DEF Save
    <3>2. CASE Edit(k)
      <4> DEFINE new == [mem[k] EXCEPT !.version = @ + 1]
      <4>1. mem[k] \in Memory /\ mem[k] # None /\ Live(k)
        BY <3>2, Memories DEF Edit, Live, Exists
      <4>2. new.at = mem[k].at
        BY <4>1 DEF Memory
      <4>3. UserStep(k, new)
        BY <3>2 DEF Edit
      <4> HIDE DEF new
      <4>4. QED
        BY <1>1, <4>1, <4>2, <4>3
    <3>3. CASE Archive(k)
      <4> DEFINE new == [mem[k] EXCEPT !.active = FALSE]
      <4>1. mem[k] \in Memory /\ mem[k] # None /\ Live(k)
        BY <3>3, Memories DEF Archive, Live, Exists
      <4>2. new.at = mem[k].at
        BY <4>1 DEF Memory
      <4>3. UserStep(k, new)
        BY <3>3 DEF Archive
      <4> HIDE DEF new
      <4>4. QED
        BY <1>1, <4>1, <4>2, <4>3
    <3>4. CASE Forget(k)
      BY <1>1, <3>4 DEF Forget, Forgotten
    <3>5. QED
      BY <1>3, <3>1, <3>2, <3>3, <3>4
  <2>2. mem'[k] = new /\ \A m \in Mems \ {k} : mem'[m] = mem[m]
    BY <2>1, TypeParts DEF UserStep, UsersTyped
  <2>3. clock' = clock /\ UNCHANGED <<cursor, deferred, runner, judged>>
    BY <2>1 DEF UserStep, store
  <2>4. QED
    BY <2>1, <2>2, <2>3 DEF Live, Exists
<1>4. ASSUME NEW s, NEW q, ForgetShared(s) \/ RequestRestore(q, s)
      PROVE  UNCHANGED <<users, cursor, deferred, runner, judged>>
  BY <1>4 DEF ForgetShared, RequestRestore
<1>5. CASE UNCHANGED <<users, cursor, deferred, runner, judged>>
  BY <1>1, <1>5 DEF users, Live, Exists
<1>6. CASE \E k \in Mems : Save(k) \/ Edit(k) \/ Archive(k) \/ Forget(k)
  BY <1>1, <1>3, <1>6 DEF Live, Exists
<1>7. QED
  BY <1>2, <1>4, <1>5, <1>6 DEF Users

LEMMA UsersKeepCover ==
    ASSUME TypeOK, CoverInv, Tick \/ Users
    PROVE  CoverInv'
<1>1. /\ clock \in Nat /\ cursor \in Nat /\ cursor <= clock
      /\ \A m \in Mems : Live(m) => mem[m].at \in Nat
  BY CoverParts, TypeParts, Memories DEF UsersTyped, StoreTyped, Time, Live
<1>2. cursor' <= clock'
  BY <1>1, UsersAge
<1>3. NothingPassedOver'
  <2> SUFFICES ASSUME NEW m \in Mems, Live(m)', mem'[m].at < cursor'
               PROVE  m \in judged' \cup deferred'
    BY DEF NothingPassedOver
  <2>1. Live(m) /\ mem'[m].at = mem[m].at
    BY <1>1, UsersAge
  <2>2. QED
    BY <2>1, UsersAge, CoverParts DEF NothingPassedOver
<1>4. ASSUME NEW r \in Runners
      PROVE  Kept(r)'
  <2> SUFFICES ASSUME Reading(r)' PROVE RunsOn(r)' /\ Covers(r)' /\ CapsWait(r)'
    BY DEF Kept
  <2>1. runner'[r] = runner[r] /\ judged' = judged /\ deferred' = deferred
    BY UsersAge
  <2>2. RunsOn(r) /\ Covers(r) /\ CapsWait(r)
    BY <2>1, CoverParts DEF Kept, Reading
  <2>3. runner[r].run.to \in Nat /\ runner[r].run.to <= clock
    BY <2>2, RunnerFields DEF RunsOn, Run, Time
  <2>4. RunsOn(r)'
    BY <1>1, <2>1, <2>2, <2>3, UsersAge DEF RunsOn
  <2>5. Covers(r)'
    <3> SUFFICES ASSUME NEW m \in Mems, Live(m)', InWindow(m, runner[r].run)'
                 PROVE  \/ CaredFor(m)
                        \/ runner[r].pc = "propose" /\ \E o \in runner[r].outcomes : o.id = m
                        \/ runner[r].next # None /\ Ahead(runner[r].next, m)'
      BY <2>1 DEF Covers, CaredFor
    <3>1. mem'[m].at < runner[r].run.to /\ runner[r].run.from <= mem'[m].at
      BY <2>1 DEF InWindow
    <3>2. Live(m) /\ mem'[m].at = mem[m].at
      BY <1>1, <2>3, <3>1, UsersAge
    <3>3. InWindow(m, runner[r].run)
      BY <3>1, <3>2 DEF InWindow
    <3>4. Ahead(runner[r].next, m)' <=> Ahead(runner[r].next, m)
      BY <2>1, <3>2 DEF Ahead
    <3>5. QED
      BY <2>2, <3>2, <3>3, <3>4 DEF Covers
  <2>6. CapsWait(r)'
    <3> SUFFICES ASSUME NEW o \in runner[r].outcomes, o.outcome = "shared_cap", Live(o.id)',
                        InWindow(o.id, runner[r].run)'
                 PROVE  CaredFor(o.id)
      BY <2>1 DEF CapsWait, CaredFor
    <3>1. o.id \in Mems /\ mem'[o.id].at < runner[r].run.to
      BY <2>1, RunnerFields DEF InWindow
    <3>2. Live(o.id) /\ mem'[o.id].at = mem[o.id].at
      BY <1>1, <2>3, <3>1, UsersAge
    <3>3. InWindow(o.id, runner[r].run)
      BY <2>1, <3>2 DEF InWindow
    <3>4. QED
      BY <2>2, <3>2, <3>3 DEF CapsWait
  <2>7. QED
    BY <2>4, <2>5, <2>6
<1>5. QED
  BY <1>2, <1>3, <1>4, UsersAge, CoverPartsNext

(* A memory that a page leaves out comes after the last one on it. *)
LEMMA LeftOutComesAfter ==
    ASSUME TypeOK, NEW p \in Place, NEW w \in Run, p.stage = "window",
           NEW m \in Listed(p, w) \ Selected(p, w), NEW k \in Selected(p, w)
    PROVE  Before(k, m)
<1> DEFINE Prior(j) == {i \in Listed(p, w) : Precedes(p, i, j)}
<1>1. p.stage # "deferred"
  OBVIOUS
<1>2. /\ Listed(p, w) \subseteq Mems /\ m \in Listed(p, w) /\ k \in Listed(p, w)
      /\ \A i \in Listed(p, w) : mem[i].at \in Nat /\ i \in Nat
  BY <1>1, PageParts, Memories
<1>3. ~(Cardinality(Prior(m)) < PageSize) /\ Cardinality(Prior(k)) < PageSize
  BY DEF Selected
<1>4. \A j : IsFiniteSet(Prior(j)) /\ Cardinality(Prior(j)) \in Nat
  BY <1>2, IdsAssumption, FS_Subset, FS_CardinalityType
<1>5. SUFFICES ASSUME ~Before(k, m) PROVE FALSE
  OBVIOUS
<1>6. m # k
  BY <1>3
<1>7. Before(m, k)
  BY <1>2, <1>5, <1>6 DEF Before
<1>8. Prior(m) \subseteq Prior(k)
  BY <1>1, <1>2, <1>7 DEF Precedes, Before
<1>9. Cardinality(Prior(m)) <= Cardinality(Prior(k))
  BY <1>4, <1>8, FS_Subset
<1>10. PageSize \in Nat
  BY BoundsAssumption
<1> HIDE DEF Prior
<1>11. QED
  BY <1>3, <1>4, <1>9, <1>10

LEMMA PageCovers ==
    ASSUME TypeOK, NEW p \in Place, NEW w \in Run, NEW next \in NextPlaces(p, w),
           NEW m \in Mems, Live(m), InWindow(m, w), Ahead(p, m)
    PROVE  m \in IdsOf(PageItems(p, w)) \/ (next # None /\ Ahead(next, m))
<1>1. /\ mem[m].at \in Nat \ {0} /\ Exists(m) /\ m \in Nat
      /\ p.stage \in {"deferred", "window"}
  BY Memories DEF Live, Place
<1>2. next \in Place => next # None
  BY NoneAssumption
<1>3. CASE p.stage = "deferred"
  <2>1. Start("window") \in Place /\ Ahead(Start("window"), m)
    BY <1>1, BoundsAssumption DEF Start, Ahead, Place, Time
  <2>2. CASE next = Start("window")
    BY <1>2, <2>1, <2>2
  <2>3. CASE next # Start("window")
    <3>1. next.stage = "deferred" /\ Selected(p, w) # Listed(p, w)
      BY <1>3, <2>3 DEF NextPlaces
    <3>2. next \in Place
      <4>1. PICK k \in Last(p, Selected(p, w)) : next = [stage |-> "deferred", at |-> 0, id |-> k]
        BY <1>3, <2>3 DEF NextPlaces
      <4>2. k \in Mems
        BY PageParts DEF Last
      <4>3. QED
        BY <4>1, <4>2, BoundsAssumption DEF Place, Time
    <3>3. QED
      BY <1>2, <3>1, <3>2 DEF Ahead
  <2>4. QED
    BY <2>2, <2>3
<1>4. CASE p.stage = "window"
  <2>1. m \in Listed(p, w)
    BY <1>1, <1>4 DEF Ahead, InWindow, Listed, After
  <2>2. CASE m \in Selected(p, w)
    <3>1. ItemOf(m) \in PageItems(p, w) /\ ItemOf(m).id = m
      BY <2>2 DEF PageItems, ItemOf
    <3>2. QED
      BY <3>1 DEF IdsOf
  <2>3. CASE m \notin Selected(p, w)
    <3>1. PICK k \in Last(p, Selected(p, w)) : next = [stage |-> "window", at |-> mem[k].at, id |-> k]
      BY <1>4, <2>1, <2>3 DEF NextPlaces
    <3>2. k \in Selected(p, w)
      BY DEF Last
    <3>3. Before(k, m)
      BY <1>4, <2>1, <2>3, <3>2, LeftOutComesAfter
    <3>4. k \in Mems /\ mem[k].at \in Time
      BY <1>4, <3>2, PageParts, Memories
    <3>5. next \in Place
      BY <3>1, <3>4 DEF Place
    <3>6. Ahead(next, m)
      BY <3>1, <3>3 DEF Ahead, Before
    <3>7. QED
      BY <1>2, <3>5, <3>6
  <2>4. QED
    BY <2>2, <2>3
<1>5. QED
  BY <1>1, <1>3, <1>4

LEMMA PagesKeepCover ==
    ASSUME TypeOK, CoverInv, NEW r \in Runners, NEW p \in Place, NEW w \in Run,
           w.recorded <= w.pages, w.from = w.before, w.to <= clock,
           \A m \in Mems : Live(m) /\ InWindow(m, w) => CaredFor(m) \/ Ahead(p, m),
           TakePage(r, p, w)
    PROVE  CoverInv'
<1>1. /\ deferred' = deferred \ Dropped(p, w) /\ judged' = judged
      /\ UNCHANGED <<users, cursor>>
  BY DEF TakePage
<1>2. \A m \in Mems : Live(m)' <=> Live(m)
  BY <1>1 DEF users, Live, Exists
<1>3. Care
  BY <1>1 DEF Care, CaredFor, Dropped
<1>4. CASE GiveUp(r)
  <2>1. /\ runner'[r] = Idle
        /\ \A q \in Runners \ {r} : runner'[q] = runner[q]
    BY <1>4, IdleTyped, Goes DEF GiveUp
  <2>2. Kept(r)'
    BY <2>1, IdleTyped DEF Kept, Reading
  <2>3. QED
    BY <1>1, <1>3, <2>1, <2>2, CallKeepsCover
<1>5. CASE ~GiveUp(r)
  <2>1. PICK next \in NextPlaces(p, w) : Goto(r, Handed(r, p, w, next))
    BY <1>5 DEF TakePage, Handed, Answered, Died
  <2>2. PICK h :
        /\ h = Handed(r, p, w, next)
        /\ h \in Runner /\ h.pc = "propose" /\ h.next = next /\ h.run \in Run
        /\ h.run.recorded < h.run.pages
        /\ h.run.from = w.from /\ h.run.to = w.to /\ h.run.before = w.before
        /\ h.outcomes = {[id |-> m, outcome |-> "no_op"] : m \in IdsOf(PageItems(p, w))}
    BY HandedTyped
  <2>3. /\ runner'[r] = h
        /\ \A q \in Runners \ {r} : runner'[q] = runner[q]
    BY <2>1, <2>2, Goes
  <2>4. RunsOn(r)'
    BY <1>1, <2>2, <2>3, NoneAssumption DEF RunsOn, users
  <2>5. Covers(r)'
    <3> SUFFICES ASSUME NEW m \in Mems, Live(m)', InWindow(m, h.run)'
                 PROVE  \/ CaredFor(m)'
                        \/ \E o \in h.outcomes : o.id = m
                        \/ h.next # None /\ Ahead(h.next, m)'
      BY <2>2, <2>3 DEF Covers
    <3>1. Live(m) /\ InWindow(m, w)
      BY <1>1, <1>2, <2>2, <2>3 DEF InWindow, users
    <3>2. CASE CaredFor(m)
      BY <1>3, <3>1, <3>2 DEF Care, CaredFor
    <3>3. CASE Ahead(p, m)
      <4>1. m \in IdsOf(PageItems(p, w)) \/ (next # None /\ Ahead(next, m))
        BY <3>1, <3>3, PageCovers
      <4>2. Ahead(next, m) => Ahead(h.next, m)'
        BY <1>1, <2>2 DEF Ahead, users
      <4>3. m \in IdsOf(PageItems(p, w)) => [id |-> m, outcome |-> "no_op"] \in h.outcomes
        BY <2>2
      <4>4. QED
        BY <2>2, <4>1, <4>2, <4>3
    <3>4. QED
      BY <3>1, <3>2, <3>3
  <2>6. CapsWait(r)'
    BY <2>2, <2>3 DEF CapsWait
  <2>7. QED
    BY <1>1, <1>3, <2>3, <2>4, <2>5, <2>6, CallKeepsCover DEF Kept
<1>6. QED
  BY <1>4, <1>5

LEMMA ProposalsKeepCover ==
    ASSUME TypeOK, CoverInv, NEW r \in Runners, NEW p \in Proposals(r), NEW e,
           runner[r].pc = "propose", Proposed(r, p, e)
    PROVE  CoverInv'
<1>1. e.outcome \in Outcome /\ Changes(p, e) /\ UNCHANGED <<users, cursor>>
  BY DEF Proposed, Changes
<1>2. /\ RunsOn(r) /\ Covers(r) /\ CapsWait(r)
  BY CoverParts DEF Kept, Reading
<1>3. \A m \in Mems : Live(m)' <=> Live(m)
  BY <1>1 DEF users, Live, Exists
<1>4. CASE deferred' = deferred /\ GiveUp(r)
  <2>1. /\ runner'[r] = Idle
        /\ \A q \in Runners \ {r} : runner'[q] = runner[q]
    BY <1>4, IdleTyped, Goes DEF GiveUp
  <2>2. Kept(r)'
    BY <2>1, IdleTyped DEF Kept, Reading
  <2>3. judged \subseteq judged'
    BY DEF Proposed
  <2>4. Care
    BY <1>4, <2>3 DEF Care, CaredFor
  <2>5. QED
    BY <1>1, <2>1, <2>2, <2>4, CallKeepsCover
<1>5. CASE deferred' = e.deferred /\ Answered(r, Decide(r, IdsOf(p.cited), e.outcome))
  <2>1. Care
    <3>1. CASE e.outcome \in {"promoted", "no_op"}
      BY <1>1, <1>5, <3>1 DEF Care, CaredFor, Changes, Proposed
    <3>2. CASE e.outcome \notin {"promoted", "no_op"}
      BY <1>1, <1>5, <3>2 DEF Care, CaredFor, Changes, Proposed, Outcome
    <3>3. QED
      BY <3>1, <3>2
  <2>2. PICK d :
        /\ d = Decide(r, IdsOf(p.cited), e.outcome)
        /\ d \in Runner /\ d.pc = "propose" /\ d.run = runner[r].run /\ d.next = runner[r].next
        /\ d.outcomes = {Decided(o, IdsOf(p.cited), e.outcome) : o \in runner[r].outcomes}
    BY <1>1, DecideFields
  <2>3. /\ runner'[r] \in {d, Idle}
        /\ \A q \in Runners \ {r} : runner'[q] = runner[q]
    BY <1>5, <2>2, Ends
  <2>4. CASE runner'[r] = Idle
    <3>1. Kept(r)'
      BY <2>4, IdleTyped DEF Kept, Reading
    <3>2. QED
      BY <1>1, <2>1, <2>3, <3>1, CallKeepsCover
  <2>5. CASE runner'[r] = d
    <3>1. RunsOn(r)'
      BY <1>1, <1>2, <2>2, <2>5 DEF RunsOn, users
    <3>2. Covers(r)'
      <4> SUFFICES ASSUME NEW m \in Mems, Live(m)', InWindow(m, d.run)'
                   PROVE  \/ CaredFor(m)'
                          \/ \E o \in d.outcomes : o.id = m
                          \/ d.next # None /\ Ahead(d.next, m)'
        BY <2>2, <2>5 DEF Covers
      <4>1. Live(m) /\ InWindow(m, runner[r].run)
        BY <1>1, <1>3, <2>2 DEF InWindow, users
      <4>2. \/ CaredFor(m)
            \/ \E o \in runner[r].outcomes : o.id = m
            \/ d.next # None /\ Ahead(d.next, m)
        BY <1>2, <2>2, <4>1 DEF Covers
      <4>3. CaredFor(m) => CaredFor(m)'
        BY <2>1, <4>1 DEF Care, CaredFor
      <4>4. (\E o \in runner[r].outcomes : o.id = m) => \E o \in d.outcomes : o.id = m
        BY <1>1, <2>2, RunnerFields, DecidedFields
      <4>5. Ahead(d.next, m) => Ahead(d.next, m)'
        BY <1>1 DEF Ahead, users
      <4>6. QED
        BY <4>2, <4>3, <4>4, <4>5
    <3>3. CapsWait(r)'
      <4> SUFFICES ASSUME NEW n \in d.outcomes, n.outcome = "shared_cap", Live(n.id)',
                          InWindow(n.id, d.run)'
                   PROVE  CaredFor(n.id)'
        BY <2>5 DEF CapsWait
      <4>1. PICK o \in runner[r].outcomes : n = Decided(o, IdsOf(p.cited), e.outcome)
        BY <2>2
      <4>2. /\ o.id \in Mems /\ n.id = o.id
            /\ n.outcome = IF o.id \in IdsOf(p.cited) THEN e.outcome ELSE o.outcome
        BY <1>1, <4>1, RunnerFields, DecidedFields
      <4>3. Live(o.id) /\ InWindow(o.id, runner[r].run)
        BY <1>1, <1>3, <2>2, <4>2 DEF InWindow, users
      <4>4. CASE o.id \in IdsOf(p.cited)
        BY <1>1, <1>5, <4>2, <4>4 DEF Changes, CaredFor
      <4>5. CASE o.id \notin IdsOf(p.cited)
        <5>1. CaredFor(o.id)
          BY <1>2, <4>2, <4>3, <4>5 DEF CapsWait
        <5>2. QED
          BY <2>1, <4>2, <4>3, <5>1 DEF Care, CaredFor
      <4>6. QED
        BY <4>4, <4>5
    <3>4. QED
      BY <1>1, <2>1, <2>3, <3>1, <3>2, <3>3, CallKeepsCover DEF Kept
  <2>6. QED
    BY <2>3, <2>4, <2>5
<1>6. QED
  BY <1>4, <1>5 DEF Proposed

(* Outcomes, all of a page or the first of them, leave nothing out. *)
LEMMA SettledCares ==
    ASSUME NEW all, NEW some \in SUBSET all, all \subseteq [id: Mems, outcome: Outcome],
           deferred' = Settled(some),
           judged' = judged \cup {o.id : o \in {o \in all : o.outcome \in {"promoted", "no_op"}}}
    PROVE  /\ Care
           /\ \A o \in some : o.outcome # "shared_cap" /\ Live(o.id) => o.id \in judged' \cup deferred'
<1> DEFINE again == {o.id : o \in {o \in some : o.outcome = "apply_conflict" /\ Live(o.id)}}
           done == {o.id : o \in {o \in some : o.outcome # "shared_cap"}} \ again
<1>1. deferred' = (deferred \ done) \cup again
  BY DEF Settled
<1>2. ASSUME NEW o \in some, o.outcome # "shared_cap", Live(o.id)
      PROVE  o.id \in judged' \cup again
  <2>1. o.outcome \in {"promoted", "no_op"} \/ o.outcome = "apply_conflict"
    BY <1>2 DEF Outcome
  <2>2. QED
    BY <1>2, <2>1
<1>3. Care
  <2> SUFFICES ASSUME NEW m \in Mems, Live(m), CaredFor(m) PROVE m \in judged' \cup deferred'
    BY DEF Care
  <2>1. CASE m \in done
    <3>1. PICK o \in some : o.outcome # "shared_cap" /\ o.id = m
      BY <2>1
    <3>2. QED
      BY <1>1, <1>2, <3>1
  <2>2. CASE m \notin done
    BY <1>1, <2>2 DEF CaredFor
  <2>3. QED
    BY <2>1, <2>2
<1> HIDE DEF again, done
<1>4. QED
  BY <1>1, <1>2, <1>3

LEMMA OutcomesKeepCover ==
    ASSUME TypeOK, CoverInv, NEW r \in Runners, RecordOutcomes(r)
    PROVE  CoverInv' /\ TypeOK'
<1> DEFINE all == runner[r].outcomes
<1>1. /\ runner[r].pc = "propose" /\ UNCHANGED <<users, shared, revs, cursor, requests>>
      /\ judged' = judged \cup {o.id : o \in {o \in all : o.outcome \in {"promoted", "no_op"}}}
  BY DEF RecordOutcomes
<1>2. all \subseteq [id: Mems, outcome: Outcome]
  BY RunnerFields
<1>3. RunsOn(r) /\ Covers(r) /\ CapsWait(r)
  BY <1>1, CoverParts DEF Kept, Reading
<1>4. runner[r].run # None /\ runner[r].run.recorded < runner[r].run.pages
  BY <1>1, <1>3 DEF RunsOn
<1>5. \A m \in Mems : Live(m)' <=> Live(m)
  BY <1>1 DEF users, Live, Exists
<1>6. StoreTyped' /\ UsersTyped'
  <2>1. PICK some \in SUBSET all : deferred' = Settled(some)
    BY DEF RecordOutcomes
  <2>2. deferred' \subseteq Mems /\ judged' \subseteq Mems
    BY <1>1, <1>2, <2>1, TypeParts DEF Settled, StoreTyped
  <2>3. QED
    BY <1>1, <2>2, TypeParts DEF StoreTyped, UsersTyped, users
<1>7. CASE GiveUp(r)
  <2>1. /\ runner'[r] = Idle
        /\ \A q \in Runners \ {r} : runner'[q] = runner[q]
    BY <1>7, IdleTyped, Goes DEF GiveUp
  <2>2. Kept(r)'
    BY <2>1, IdleTyped DEF Kept, Reading
  <2>3. PICK some \in SUBSET all : deferred' = Settled(some)
    BY DEF RecordOutcomes
  <2>4. Care
    BY <1>1, <1>2, <2>3, SettledCares
  <2>5. CoverInv'
    BY <1>1, <2>1, <2>2, <2>4, CallKeepsCover
  <2>6. RunnersTyped'
    BY <1>7, IdleTyped, RunnerTyped DEF Idle
  <2>7. QED
    BY <1>6, <2>5, <2>6, TypePartsNext
<1>8. CASE ~GiveUp(r)
  <2>1. deferred' = Settled(all) /\ Goto(r, Recorded(r))
    BY <1>8 DEF RecordOutcomes, Answered, Died, Recorded, Onward
  <2>2. PICK n :
        /\ n = Recorded(r) /\ n \in Runner /\ n.pc = Onward(r) /\ n.next = runner[r].next
        /\ n.outcomes = {} /\ n.run # None
        /\ n.run.from = runner[r].run.from /\ n.run.before = runner[r].run.before
        /\ n.run.to = runner[r].run.to
        /\ n.run.recorded = runner[r].run.recorded + 1 /\ n.run.pages = runner[r].run.pages
    BY <1>4, RecordedFields
  <2>3. /\ runner'[r] = n
        /\ \A q \in Runners \ {r} : runner'[q] = runner[q]
    BY <2>1, <2>2, Goes
  <2>4. /\ Care
        /\ \A o \in all : o.outcome # "shared_cap" /\ Live(o.id) => o.id \in judged' \cup deferred'
    BY <1>1, <1>2, <2>1, SettledCares
  <2>5. RunsOn(r)'
    BY <1>1, <1>3, <2>2, <2>3 DEF RunsOn, Onward, users
  <2>6. Covers(r)'
    <3> SUFFICES ASSUME NEW m \in Mems, Live(m)', InWindow(m, n.run)'
                 PROVE  CaredFor(m)' \/ (n.next # None /\ Ahead(n.next, m)')
      BY <2>3 DEF Covers
    <3>1. Live(m) /\ InWindow(m, runner[r].run)
      BY <1>1, <1>5, <2>2 DEF InWindow, users
    <3>2. \/ CaredFor(m)
          \/ \E o \in all : o.id = m
          \/ n.next # None /\ Ahead(n.next, m)
      BY <1>3, <2>2, <3>1 DEF Covers
    <3>3. CaredFor(m) => CaredFor(m)'
      BY <2>4, <3>1 DEF Care, CaredFor
    <3>4. ASSUME NEW o \in all, o.id = m
          PROVE  CaredFor(m)'
      <4>1. CASE o.outcome = "shared_cap"
        BY <1>3, <3>1, <3>3, <3>4, <4>1 DEF CapsWait
      <4>2. CASE o.outcome # "shared_cap"
        BY <2>4, <3>1, <3>4, <4>2 DEF CaredFor
      <4>3. QED
        BY <4>1, <4>2
    <3>5. Ahead(n.next, m) => Ahead(n.next, m)'
      BY <1>1 DEF Ahead, users
    <3>6. QED
      BY <3>2, <3>3, <3>4, <3>5
  <2>7. CapsWait(r)'
    BY <2>2, <2>3 DEF CapsWait
  <2>8. CoverInv'
    BY <1>1, <2>3, <2>4, <2>5, <2>6, <2>7, CallKeepsCover DEF Kept
  <2>9. RunnersTyped'
    <3>1. Answered(r, n)
      BY <2>1, <2>2 DEF Answered
    <3>2. n.run.recorded <= n.run.pages
      BY <1>4, <2>2, RunnerFields DEF Run
    <3>3. QED
      BY <2>2, <3>1, <3>2, RunnerTyped
  <2>10. QED
    BY <1>6, <2>8, <2>9, TypePartsNext
<1>9. QED
  BY <1>7, <1>8

LEMMA CompleteKeepsCover ==
    ASSUME TypeOK, CoverInv, NEW r \in Runners, Complete(r)
    PROVE  CoverInv' /\ TypeOK'
<1>1. /\ runner[r].pc = "complete" /\ GiveUp(r)
      /\ UNCHANGED <<users, shared, revs, deferred, requests, judged>>
      /\ cursor' \in {cursor, runner[r].run.to}
      /\ cursor' = runner[r].run.to => cursor = runner[r].run.before \/ cursor' = cursor
  BY DEF Complete, ShouldAdvance
<1>2. RunsOn(r) /\ Covers(r)
  BY <1>1, CoverParts DEF Kept, Reading
<1>3. runner[r].run \in Run /\ runner[r].run.to <= clock /\ runner[r].run.from = runner[r].run.before
  BY <1>2, RunnerFields DEF RunsOn
<1>4. /\ runner'[r] = Idle
      /\ \A q \in Runners \ {r} : runner'[q] = runner[q]
  BY <1>1, IdleTyped, Goes DEF GiveUp
<1>5. Care
  BY <1>1 DEF Care, CaredFor
<1>6. \A q \in Runners : Kept(q)'
  <2>1. Kept(r)'
    BY <1>4, IdleTyped DEF Kept, Reading
  <2>2. QED
    BY <1>1, <1>4, <1>5, <2>1, OthersKept, CoverParts
<1>7. NothingPassedOver'
  <2> SUFFICES ASSUME NEW m \in Mems, Live(m)', mem'[m].at < cursor'
               PROVE  m \in judged' \cup deferred'
    BY DEF NothingPassedOver
  <2>1. Live(m) /\ mem[m].at < cursor'
    BY <1>1 DEF users, Live, Exists
  <2>2. CASE mem[m].at < cursor
    BY <1>1, <2>1, <2>2, CoverParts DEF NothingPassedOver
  <2>3. CASE ~(mem[m].at < cursor)
    <3>1. cursor' = runner[r].run.to /\ cursor = runner[r].run.from
      BY <1>1, <1>3, <2>1, <2>3
    <3>2. cursor \in Nat /\ mem[m].at \in Nat
      BY <2>1, TypeParts, Memories DEF StoreTyped, Time, Live
    <3>3. InWindow(m, runner[r].run)
      BY <2>1, <2>3, <3>1, <3>2 DEF InWindow
    <3>4. CaredFor(m)
      BY <1>1, <1>2, <2>1, <3>3 DEF Covers, RunsOn
    <3>5. QED
      BY <1>1, <3>4 DEF CaredFor
  <2>4. QED
    BY <2>2, <2>3
<1>8. cursor' <= clock' /\ \A m \in Mems : mem'[m] # None => mem'[m].at <= clock'
  BY <1>1, <1>3, CoverParts DEF users
<1>9. CoverInv'
  BY <1>6, <1>7, <1>8, CoverPartsNext
<1>10. RunnersTyped'
  BY <1>1, IdleTyped, RunnerTyped DEF Idle
<1>11. StoreTyped' /\ UsersTyped'
  BY <1>1, <1>3, TypeParts DEF StoreTyped, UsersTyped, users, Run
<1>12. QED
  BY <1>9, <1>10, <1>11, TypePartsNext

(* Calls before the first page, and calls that fail. *)
LEMMA OtherCallsKeepCover ==
    ASSUME TypeOK, CoverInv, NEW r \in Runners, NEW next \in Runner, Goto(r, next),
           next.pc \notin {"propose", "page", "complete"},
           UNCHANGED <<users, cursor, deferred, judged>>
    PROVE  CoverInv'
<1>1. /\ runner'[r] = next
      /\ \A q \in Runners \ {r} : runner'[q] = runner[q]
  BY Goes
<1>2. Kept(r)'
  BY <1>1 DEF Kept, Reading
<1>3. Care
  BY DEF Care, CaredFor
<1>4. QED
  BY <1>1, <1>2, <1>3, CallKeepsCover

LEMMA GoesOnTyped ==
    ASSUME TypeOK, NEW r \in Runners, NEW next \in Runner, Goto(r, next), next.run = None,
           UNCHANGED <<users, store, judged>>
    PROVE  TypeOK'
<1>1. RunnersTyped'
  BY RunnerTyped DEF Answered
<1>2. StoreTyped' /\ UsersTyped'
  BY TypeParts DEF StoreTyped, UsersTyped, users, store
<1>3. QED
  BY <1>1, <1>2, TypePartsNext

BaseInv == TypeOK /\ CoverInv

LEMMA StartsKeepBase ==
    ASSUME BaseInv, NEW r \in Runners,
           ListRestoreRequests(r) \/ CollectTargets(r) \/ EmptyWindow(r) \/ Fails(r)
    PROVE  BaseInv'
<1>1. PICK next \in Runner :
        Goto(r, next) /\ next.run = None /\ next.pc \notin {"propose", "page", "complete"}
  <2>1. CASE ListRestoreRequests(r)
    <3> DEFINE next == [Idle EXCEPT !.pc = "restores", !.todo = Pending]
    <3>1. Pending \subseteq Requests
      BY DEF Pending
    <3>2. next \in Runner /\ next.run = None /\ next.pc = "restores"
      BY <3>1 DEF Idle, Runner
    <3>3. QED
      BY <2>1, <3>2 DEF ListRestoreRequests
  <2>2. CASE CollectTargets(r)
    <3> DEFINE next == [Idle EXCEPT !.pc = "first", !.targets = shared]
    <3>1. shared \subseteq SharedMemory
      BY TypeParts DEF BaseInv, StoreTyped
    <3>2. next \in Runner /\ next.run = None /\ next.pc = "first"
      BY <3>1 DEF Idle, Runner
    <3>3. QED
      BY <2>2, <3>2 DEF CollectTargets
  <2>3. CASE EmptyWindow(r) \/ Fails(r)
    <3>1. Idle.run = None
      BY DEF Idle
    <3>2. QED
      BY <2>3, <3>1, IdleTyped DEF EmptyWindow, Fails, GiveUp
  <2>4. QED
    BY <2>1, <2>2, <2>3
<1>2. UNCHANGED <<users, store, judged>>
  BY DEF ListRestoreRequests, CollectTargets, EmptyWindow, Fails
<1>3. TypeOK'
  BY <1>1, <1>2, GoesOnTyped DEF BaseInv
<1>4. CoverInv'
  BY <1>1, <1>2, OtherCallsKeepCover DEF BaseInv, store
<1>5. QED
  BY <1>3, <1>4 DEF BaseInv

LEMMA RestoresKeepBase ==
    ASSUME BaseInv, NEW r \in Runners, NEW q \in Requests, ApplyRestore(r, q)
    PROVE  BaseInv'
<1>1. PICK todo \in {runner[r].todo \ {q}, {}} : Goto(r, [runner[r] EXCEPT !.todo = todo])
  BY DEF ApplyRestore
<1>2. PICK next : next = [runner[r] EXCEPT !.todo = todo] /\ next \in Runner /\ next.pc = "restores"
  <2>1. runner[r].pc = "restores"
    BY DEF ApplyRestore
  <2>2. QED
    BY <1>1, <2>1, RunnerFields DEF BaseInv, Runner
<1>3. UNCHANGED <<users, cursor, deferred, judged>>
  BY DEF ApplyRestore
<1>4. CoverInv'
  BY <1>1, <1>2, <1>3, OtherCallsKeepCover DEF BaseInv
<1>5. QED
  BY <1>4, RestoresKeepTypes DEF BaseInv

LEMMA PagesKeepBase ==
    ASSUME BaseInv, NEW r \in Runners, FirstPage(r) \/ NextPage(r)
    PROVE  BaseInv'
<1>1. CASE FirstPage(r)
  <2>1. \A m \in Mems : Live(m) => Ahead(FirstPlace, m)
    BY Memories DEF BaseInv, Live, Ahead, FirstPlace, Start
  <2>2. /\ NewRun \in Run /\ FirstPlace \in Place /\ NewRun.recorded <= NewRun.pages
        /\ NewRun.from = NewRun.before /\ NewRun.to <= clock
    BY FirstParts, TypeParts DEF BaseInv, UsersTyped, Time
  <2>3. TakePage(r, FirstPlace, NewRun)
    BY <1>1, FirstPageTakes
  <2>4. QED
    <3>1. PICK p \in Place, w \in Run : p = FirstPlace /\ w = NewRun
      BY <2>2
    <3>2. QED
      BY <2>1, <2>2, <2>3, <3>1, PagesKeepTypes, PagesKeepCover DEF BaseInv
<1>2. CASE NextPage(r)
  <2>1. runner[r].pc = "page" /\ TakePage(r, runner[r].next, runner[r].run)
    BY <1>2 DEF NextPage
  <2>2. RunsOn(r) /\ Covers(r) /\ runner[r].next # None
    BY <2>1, CoverParts DEF BaseInv, Kept, Reading, RunsOn
  <2>3. PICK p \in Place, w \in Run : p = runner[r].next /\ w = runner[r].run
    BY <2>2, RunnerFields DEF BaseInv, RunsOn
  <2>4. /\ w.recorded <= w.pages /\ w.from = w.before /\ w.to <= clock
    BY <2>2, <2>3, RunnerFields DEF BaseInv, RunsOn
  <2>5. \A m \in Mems : Live(m) /\ InWindow(m, w) => CaredFor(m) \/ Ahead(p, m)
    BY <2>1, <2>2, <2>3 DEF Covers
  <2>6. QED
    BY <2>1, <2>3, <2>4, <2>5, PagesKeepTypes, PagesKeepCover DEF BaseInv
<1>3. QED
  BY <1>1, <1>2

LEMMA StepsKeepBase == BaseInv /\ [Next]_vars => BaseInv'
<1> SUFFICES ASSUME BaseInv, [Next]_vars PROVE BaseInv'
  OBVIOUS
<1>1. CASE Tick \/ Users
  BY <1>1, UsersKeepTypes, UsersKeepCover DEF BaseInv
<1>2. ASSUME NEW r \in Runners, Calls(r) \/ Fails(r)
      PROVE  BaseInv'
  <2>1. CASE ListRestoreRequests(r) \/ CollectTargets(r) \/ EmptyWindow(r) \/ Fails(r)
    BY <2>1, StartsKeepBase
  <2>2. ASSUME NEW q \in Requests, ApplyRestore(r, q)
        PROVE  BaseInv'
    BY <2>2, RestoresKeepBase
  <2>3. CASE FirstPage(r) \/ NextPage(r)
    BY <2>3, PagesKeepBase
  <2>4. ASSUME NEW p \in Proposals(r), Propose(r, p)
        PROVE  BaseInv'
    <3>1. PICK e : Proposed(r, p, e)
      BY <2>4, ProposeEffect
    <3>2. runner[r].pc = "propose"
      BY <2>4 DEF Propose
    <3>3. QED
      BY <3>1, <3>2, ProposalsKeepTypes, ProposalsKeepCover DEF BaseInv
  <2>5. CASE RecordOutcomes(r)
    BY <2>5, OutcomesKeepCover DEF BaseInv
  <2>6. CASE Complete(r)
    BY <2>6, CompleteKeepsCover DEF BaseInv
  <2>7. QED
    BY <1>2, <2>1, <2>2, <2>3, <2>4, <2>5, <2>6 DEF Calls
<1>3. CASE UNCHANGED vars
  <2>1. UNCHANGED <<clock, mem, shared, revs, cursor, deferred, requests, runner, judged>>
    BY <1>3 DEF vars, users, store
  <2>2. TypeOK'
    BY <2>1 DEF BaseInv, TypeOK
  <2>3. CoverInv'
    BY <2>1 DEF BaseInv, CoverInv, NothingPassedOver, Live, Exists, Reading, RunsOn, Covers,
                CapsWait, CaredFor, InWindow, Ahead
  <2>4. QED
    BY <2>2, <2>3 DEF BaseInv
<1>4. QED
  BY <1>1, <1>2, <1>3 DEF Next

(* The shapes of all state, and the cover of every run, are kept by every    *)
(* call, whatever is lost and whichever runners overlap.                   *)
THEOREM BaseStays == Spec => []BaseInv
<1>1. Init => BaseInv
  BY InitTyped, InitCovers DEF BaseInv
<1>2. QED
  BY <1>1, StepsKeepBase, PTL DEF Spec

(* Every variable of the runners and of the curation store keeps its shape,  *)
(* and no run has more outcomes than pages: TypeOK.                        *)
THEOREM CurationTypes == Spec => []TypeOK
<1>1. BaseInv => TypeOK
  BY DEF BaseInv
<1>2. QED
  BY <1>1, BaseStays, PTL

(* No memory falls between the runs: one that was saved before the project's *)
(* cursor and is still active has been decided about or waits as a deferred *)
(* candidate, for any page size, any cap, any number of runners at once.    *)
THEOREM NothingIsPassedOver == Spec => []NothingPassedOver
<1>1. BaseInv => NothingPassedOver
  BY DEF BaseInv, CoverInv
<1>2. QED
  BY <1>1, BaseStays, PTL

-----------------------------------------------------------------------------
(* One copy of every text.                                                 *)

LEMMA ProposalsKeepCopies ==
    ASSUME TypeOK, OneCopy, NEW r \in Runners, NEW p \in Proposals(r), NEW e, Proposed(r, p, e)
    PROVE  OneCopy'
<1>1. shared \subseteq SharedMemory /\ shared' = e.shared
  BY TypeParts DEF StoreTyped, Proposed
<1>2. CASE e.shared = shared
  BY <1>1, <1>2 DEF OneCopy
<1>3. CASE Rewrites(p, e.shared)
  <2>1. PICK s \in shared : /\ s.text = p.text \/ Exact(p.text) = {}
                            /\ e.shared = (shared \ {s}) \cup {Rewritten(s, p)}
    BY <1>3 DEF Rewrites
  <2> DEFINE new == Rewritten(s, p)
  <2>2. new.text = p.text /\ (s.text = p.text => new.by = s.by)
    BY DEF Rewritten
  <2> HIDE DEF new
  <2>3. ASSUME NEW t \in shared, t # s, t.text = p.text
        PROVE  "restore" \in {new.by, t.by}
    BY <2>1, <2>2, <2>3 DEF OneCopy, Exact
  <2>4. shared' = (shared \ {s}) \cup {new}
    BY <1>1, <2>1 DEF new
  <2>5. QED
    BY <2>2, <2>3, <2>4 DEF OneCopy
<1>4. CASE Adds(p, e.shared)
  <2>1. New(p).text = p.text
    BY DEF New
  <2>2. shared' = shared \cup {New(p)} /\ \A t \in shared : t.text # p.text
    BY <1>1, <1>4 DEF Adds, Exact
  <2>3. QED
    BY <2>1, <2>2 DEF OneCopy
<1>5. QED
  BY <1>2, <1>3, <1>4 DEF Changes, Proposed

LEMMA RestoresKeepCopies ==
    ASSUME TypeOK, OneCopy, NEW r \in Runners, NEW q \in Requests, ApplyRestore(r, q)
    PROVE  OneCopy'
<1>1. CASE shared' = shared
  BY <1>1 DEF OneCopy
<1>2. CASE shared' # shared
  <2>1. PICK s \in SharedMemory, v \in SharedMemory :
            s = requests[q].expect /\ v = requests[q].from
    BY <1>2, TypeParts DEF ApplyRestore, Fits, Pending, StoreTyped, RestoreRequest
  <2> DEFINE new == Restored(s, v)
  <2>2. new.by = "restore"
    BY DEF Restored
  <2>3. shared' = (shared \ {s}) \cup {new}
    BY <1>2, <2>1 DEF ApplyRestore
  <2> HIDE DEF new
  <2>4. QED
    BY <2>2, <2>3 DEF OneCopy
<1>3. QED
  BY <1>1, <1>2

LEMMA StepsKeepCopies == TypeOK /\ OneCopy /\ [Next]_vars => OneCopy'
<1> SUFFICES ASSUME TypeOK, OneCopy, [Next]_vars PROVE OneCopy'
  OBVIOUS
<1>1. CASE shared' \subseteq shared
  BY <1>1 DEF OneCopy
<1>2. CASE Tick \/ Users \/ UNCHANGED vars
  <2>1. shared' \subseteq shared
    BY <1>2 DEF Tick, Users, Save, Edit, Archive, Forget, UserStep, ForgetShared, RequestRestore,
                store, vars
  <2>2. QED
    BY <1>1, <2>1
<1>3. ASSUME NEW r \in Runners, Calls(r) \/ Fails(r)
      PROVE  OneCopy'
  <2>1. ASSUME NEW q \in Requests, ApplyRestore(r, q)
        PROVE  OneCopy'
    BY <2>1, RestoresKeepCopies
  <2>2. ASSUME NEW p \in Proposals(r), Propose(r, p)
        PROVE  OneCopy'
    BY <2>2, ProposeEffect, ProposalsKeepCopies
  <2>3. CASE \/ ListRestoreRequests(r) \/ CollectTargets(r) \/ FirstPage(r) \/ EmptyWindow(r)
             \/ NextPage(r) \/ RecordOutcomes(r) \/ Complete(r) \/ Fails(r)
    <3>1. shared' = shared
      BY <2>3 DEF ListRestoreRequests, CollectTargets, FirstPage, EmptyWindow, NextPage, TakePage,
                  RecordOutcomes, Complete, Fails, store
    <3>2. QED
      BY <1>1, <3>1
  <2>4. QED
    BY <1>3, <2>1, <2>2, <2>3 DEF Calls
<1>4. QED
  BY <1>2, <1>3 DEF Next

(* No text is shared twice but by a restore: however often pages are read    *)
(* again, proposals are repeated after their answers were lost, and         *)
(* restores come between them.                                             *)
THEOREM OneCopyAlways == Spec => []OneCopy
<1>1. Init => OneCopy
  BY DEF Init, OneCopy
<1>2. QED
  BY <1>1, CurationTypes, StepsKeepCopies, PTL DEF Spec

=============================================================================
