------------------------- MODULE Maintenance_proofs -------------------------
(***************************************************************************)
(* Proofs about Maintenance: what automation may do to the memories of a   *)
(* project beside its users, for any number of memories, request handlers, *)
(* requests and repetitions.                                               *)
(***************************************************************************)
EXTENDS Maintenance, TLAPS

OnePerId(bodies) == \A k, l \in bodies : k.id = l.id => k = l

(* What clients send: a create names no memory, a merge two, every other    *)
(* kind one, and a restore a revision of the memory it names.              *)
Sound(r) ==
    /\ r.kind = "create" => r.expect = {} /\ r.name \in Names
    /\ r.kind = "merge" => \E k, l \in r.expect : r.expect = {k, l}
    /\ r.kind \notin {"create", "merge"} => \E k \in r.expect : r.expect = {k}
    /\ r.kind = "restore" => /\ r.from \in Revision
                             /\ \A k \in r.expect : k.id = r.from.body.id

(* The mutex: who holds it works on the job.                               *)
Held ==
    /\ job = NoJob <=> job.pc = "idle"
    /\ job # NoJob <=> \E h \in Handlers : hs[h].stage = "hold"
    /\ \A g, h \in Handlers : hs[g].stage = "hold" /\ hs[h].stage = "hold" => g = h
    /\ \A h \in Handlers : hs[h].stage # "idle" => hs[h].req \in sent /\ ~hs[h].success
    /\ \A r \in sent : Sound(r)

-----------------------------------------------------------------------------
(* Handlers and the mutex.                                                 *)

LEMMA Holding ==
    ASSUME Held, TypeOK, job # NoJob
    PROVE  /\ Holder \in Handlers /\ hs[Holder].stage = "hold"
           /\ \A h \in Handlers : hs[h].stage = "hold" => h = Holder
           /\ Req = hs[Holder].req /\ Req \in sent /\ Req \in Request /\ Sound(Req)
<1>1. \E h \in Handlers : hs[h].stage = "hold"
  BY DEF Held
<1>2. Holder \in Handlers /\ hs[Holder].stage = "hold"
  BY <1>1 DEF Holder
<1>3. QED
  BY <1>2 DEF Held, Req, TypeOK

(* Whoever else acts, the mutex stays with its holder. *)
LEMMA SameHolder ==
    ASSUME Held, TypeOK, job # NoJob, NEW g, hs[g].stage # "hold", hs'[g].stage # "hold",
           \A h \in Handlers \ {g} : hs'[h] = hs[h]
    PROVE  Holder' = Holder /\ Req' = Req
<1>1. /\ Holder \in Handlers /\ hs[Holder].stage = "hold"
      /\ \A h \in Handlers : hs[h].stage = "hold" => h = Holder
  BY Holding
<1>2. hs'[Holder].stage = "hold" /\ hs'[Holder] = hs[Holder]
  BY <1>1
<1>3. \A h \in Handlers : hs'[h].stage = "hold" => h = Holder
  BY <1>1
<1>4. \A h : h \in Handlers /\ hs'[h].stage = "hold" <=> h = Holder
  BY <1>1, <1>2, <1>3
<1>5. Holder' = Holder
  <2>1. PICK e : e = Holder
    OBVIOUS
  <2>2. \A h : h \in Handlers /\ hs'[h].stage = "hold" <=> h = e
    BY <1>4, <2>1
  <2>3. (CHOOSE h \in Handlers : hs'[h].stage = "hold") = e
    BY <2>2
  <2>4. QED
    BY <2>1, <2>3 DEF Holder
<1>6. QED
  BY <1>2, <1>5 DEF Req

Stages == {"idle", "screen", "queue", "hold", "clear"}

LEMMA Moved ==
    ASSUME TypeOK, NEW h \in Handlers, NEW stage \in Stages, Move(h, stage)
    PROVE  /\ hs' \in [Handlers -> Handler]
           /\ hs'[h].stage = stage /\ hs'[h].req = hs[h].req
           /\ hs'[h].success = hs[h].success
           /\ \A g \in Handlers \ {h} : hs'[g] = hs[g]
<1>1. hs[h] \in Handler /\ hs \in [Handlers -> Handler]
  BY DEF TypeOK
<1>2. hs' = [hs EXCEPT ![h] = [hs[h] EXCEPT !.stage = stage]]
  BY DEF Move
<1>3. [hs[h] EXCEPT !.stage = stage] \in Handler
  BY <1>1 DEF Handler, Stages
<1>4. QED
  BY <1>1, <1>2, <1>3 DEF Handler

LEMMA Answered ==
    ASSUME TypeOK, NEW h \in Handlers, NEW out, Answer(h, out)
    PROVE  /\ hs' \in [Handlers -> Handler]
           /\ hs'[h].stage = "idle"
           /\ hs'[h].success <=> out \in Successes
           /\ \A g \in Handlers \ {h} : hs'[g] = hs[g]
<1>1. hs \in [Handlers -> Handler]
  BY DEF TypeOK
<1> DEFINE s == out \in Successes
<1>2. hs' = [hs EXCEPT ![h] = [NoHandler EXCEPT !.success = s]]
  BY DEF Answer
<1>3. s \in BOOLEAN /\ (s <=> out \in Successes)
  OBVIOUS
<1> HIDE DEF s
<1>4. /\ [NoHandler EXCEPT !.success = s] \in Handler
      /\ [NoHandler EXCEPT !.success = s].stage = "idle"
      /\ [NoHandler EXCEPT !.success = s].success = s
  BY <1>3 DEF NoHandler, Handler
<1> DEFINE new == [NoHandler EXCEPT !.success = s]
<1>5. /\ hs' = [hs EXCEPT ![h] = new]
      /\ new \in Handler /\ new.stage = "idle" /\ new.success = s
  BY <1>2, <1>4
<1> HIDE DEF new
<1>6. QED
  BY <1>1, <1>3, <1>5

(* The end of a job frees the mutex. *)
LEMMA Finished ==
    ASSUME TypeOK, Held, job # NoJob, NEW out, Finish(out)
    PROVE  /\ job' = NoJob /\ hs' \in [Handlers -> Handler]
           /\ hs'[Holder].stage \in {"idle", "clear"}
           /\ hs'[Holder].stage = "clear" => /\ hs'[Holder].req = hs[Holder].req
                                             /\ hs'[Holder].success = hs[Holder].success
           /\ hs'[Holder].stage = "clear" => out = "applied"
           /\ hs'[Holder].stage = "idle" => (hs'[Holder].success <=> out \in Successes)
           /\ \A g \in Handlers \ {Holder} : hs'[g] = hs[g]
<1>1. Holder \in Handlers
  BY Holding
<1>2. CASE Move(Holder, "clear") /\ out = "applied"
  BY <1>1, <1>2, Moved DEF Finish, Stages
<1>3. CASE Answer(Holder, out)
  BY <1>1, <1>3, Answered DEF Finish
<1>4. QED
  BY <1>2, <1>3 DEF Finish

LEMMA OtherHeld ==
    ASSUME Held, TypeOK, job' = job, NEW g \in Handlers,
           hs[g].stage # "hold", hs'[g].stage # "hold",
           \A h \in Handlers \ {g} : hs'[h] = hs[h],
           hs'[g].stage # "idle" => hs'[g].req \in sent' /\ ~hs'[g].success,
           sent \subseteq sent', \A r \in sent' : Sound(r)
    PROVE  Held'
BY DEF Held

LEMMA WorkingHeld ==
    ASSUME Held, hs' = hs, sent' = sent, job # NoJob, job' # NoJob, job'.pc # "idle"
    PROVE  Held'
BY DEF Held

LEMMA FreedHeld ==
    ASSUME Held, TypeOK, job # NoJob, job' = NoJob, sent' = sent,
           hs'[Holder].stage \in {"idle", "clear"},
           hs'[Holder].stage = "clear" => /\ hs'[Holder].req = hs[Holder].req
                                          /\ hs'[Holder].success = hs[Holder].success,
           \A g \in Handlers \ {Holder} : hs'[g] = hs[g]
    PROVE  Held'
<1>1. /\ Holder \in Handlers /\ hs[Holder].stage = "hold"
      /\ \A h \in Handlers : hs[h].stage = "hold" => h = Holder
  BY Holding
<1>2. \A h \in Handlers : hs'[h].stage # "hold"
  BY <1>1
<1>3. \A h \in Handlers : hs'[h].stage # "idle" => hs'[h].req \in sent' /\ ~hs'[h].success
  BY <1>1 DEF Held
<1>4. job'.pc = "idle"
  BY DEF NoJob
<1>5. QED
  BY <1>2, <1>3, <1>4 DEF Held

-----------------------------------------------------------------------------
(* Requests.                                                               *)

LEMMA ProposalsSound ==
    ASSUME TypeOK, NEW o \in Ops, NEW r \in Proposals(o), Wellformed(r)
    PROVE  r \in Request /\ Sound(r)
<1> DEFINE version == IF shared THEN 0 ELSE settings.version
<1>1. version \in 0..MaxVersion /\ 0 \in 0..MaxVersion
  BY BoundsAssumption DEF TypeOK
<1>2. \A k \in Active(mem) : k \in Body /\ k \in mem /\ k.link \in Names \cup {None}
  BY DEF Active, TypeOK, Body
<1> HIDE DEF version
<1>3. CASE r \in Patches(o) \cup Archives(o)
  <2>1. PICK k \in Active(mem), kind \in {"patch", "archive"} :
            r = [op |-> o, kind |-> kind, expect |-> {k}, version |-> version,
                 name |-> None, from |-> None]
    BY <1>3 DEF Patches, Archives, Ask, version
  <2>2. QED
    BY <1>1, <1>2, <2>1 DEF Request, Kinds, Sound
<1>4. CASE r \in Restores(o)
  <2>1. PICK k \in mem, v \in revs :
            r = [op |-> o, kind |-> "restore", expect |-> {k}, version |-> 0,
                 name |-> None, from |-> v]
    <3>1. PICK w \in mem \X revs : r = [Ask(o, "restore", {w[1]}) EXCEPT !.version = 0, !.from = w[2]]
      BY <1>4 DEF Restores
    <3>2. w[1] \in mem /\ w[2] \in revs
      OBVIOUS
    <3>3. r = [op |-> o, kind |-> "restore", expect |-> {w[1]}, version |-> 0,
               name |-> None, from |-> w[2]]
      BY <3>1 DEF Ask
    <3>4. QED
      BY <3>2, <3>3
  <2>2. k \in Body /\ v \in Revision
    BY DEF TypeOK
  <2>3. QED
    BY <1>1, <2>1, <2>2 DEF Request, Kinds, Sound, Wellformed
<1>5. CASE r \in Creates(o)
  <2>1. PICK n \in Names :
            r = [op |-> o, kind |-> "create", expect |-> {}, version |-> version,
                 name |-> n, from |-> None]
    BY <1>5 DEF Creates, Ask, version
  <2>2. QED
    BY <1>1, <2>1 DEF Request, Kinds, Sound
<1>6. CASE r \in Merges(o)
  <2>1. PICK k \in Active(mem), l \in Active(mem) :
            r = [op |-> o, kind |-> "merge", expect |-> {k, l}, version |-> version,
                 name |-> None, from |-> None]
    BY <1>6 DEF Merges, Ask, version
  <2>2. QED
    BY <1>1, <1>2, <2>1 DEF Request, Kinds, Sound
<1>7. CASE r \in Prunes(o)
  <2>1. PICK k \in Active(mem) :
            r = [op |-> o, kind |-> "prune", expect |-> {k}, version |-> version,
                 name |-> k.link, from |-> None]
    BY <1>7 DEF Prunes, Ask, version
  <2>2. QED
    BY <1>1, <1>2, <2>1 DEF Request, Kinds, Sound
<1>8. QED
  BY <1>3, <1>4, <1>5, <1>6, <1>7 DEF Proposals

(* prepareMutation: a body for each memory of the request, or a new one,   *)
(* all stamped now.                                                        *)
LEMMA TargetIn ==
    ASSUME NEW k \in Body, NEW l \in Body
    PROVE  Target({k, l}) \in {k, l}
<1>1. k.id \in Nat /\ l.id \in Nat
  BY DEF Body, Stamps
<1>2. \E e \in {k, l} : \A f \in {k, l} : e.id <= f.id
  BY <1>1
<1>3. QED
  BY <1>2 DEF Target

LEMMA PreparedBodies ==
    ASSUME NEW r \in Request, Sound(r), NEW now \in Stamps
    PROVE  /\ Prepared(r, now) \subseteq Body
           /\ \A k \in Prepared(r, now) : k.stamp = now
           /\ IdsIn(r.expect) \subseteq IdsIn(Prepared(r, now))
           /\ IdsIn(Prepared(r, now)) \subseteq IdsIn(r.expect) \cup {now}
           /\ OnePerId(r.expect) => OnePerId(Prepared(r, now))
<1>0. r.kind \in Kinds /\ r.expect \subseteq Body
  BY DEF Request
<1>1. CASE r.kind = "create"
  <2>1. r.expect = {} /\ r.name \in Names
    BY <1>1 DEF Sound
  <2> DEFINE e == [id |-> now, name |-> r.name, stamp |-> now, active |-> TRUE, link |-> None]
  <2>2. Prepared(r, now) = {e}
    BY <1>1 DEF Prepared
  <2>3. e \in Body /\ e.stamp = now /\ e.id = now
    BY <2>1 DEF Body
  <2> HIDE DEF e
  <2>4. QED
    BY <2>1, <2>2, <2>3 DEF IdsIn, OnePerId
<1>2. CASE r.kind = "merge"
  <2>1. PICK k, l \in r.expect : r.expect = {k, l}
    BY <1>2 DEF Sound
  <2> DEFINE t == Target(r.expect)
             new(m) == IF m = t THEN [m EXCEPT !.stamp = now]
                       ELSE [m EXCEPT !.stamp = now, !.active = FALSE]
  <2>2. Prepared(r, now) = {new(m) : m \in r.expect}
    BY <1>2 DEF Prepared
  <2>3. \A m \in r.expect : new(m) \in Body /\ new(m).stamp = now /\ new(m).id = m.id
    BY <1>0 DEF Body
  <2> HIDE DEF new
  <2>4. QED
    BY <2>2, <2>3 DEF IdsIn, OnePerId
<1>3. CASE r.kind \in {"patch", "archive", "prune", "restore"}
  <2>1. PICK k \in r.expect : r.expect = {k}
    BY <1>3 DEF Sound
  <2>2. Target(r.expect) = k /\ k \in Body
    BY <1>0, <2>1, TargetIn
  <2>3. \E e \in Body : Prepared(r, now) = {e} /\ e.stamp = now /\ e.id = k.id
    <3>1. CASE r.kind = "patch"
      <4>1. Prepared(r, now) = {[k EXCEPT !.stamp = now]}
        BY <2>2, <3>1 DEF Prepared
      <4>2. [k EXCEPT !.stamp = now] \in Body
        BY <2>2 DEF Body
      <4>3. QED
        BY <2>2, <4>1, <4>2 DEF Body
    <3>2. CASE r.kind = "archive"
      <4>1. Prepared(r, now) = {[k EXCEPT !.stamp = now, !.active = FALSE]}
        BY <2>2, <3>2 DEF Prepared
      <4>2. [k EXCEPT !.stamp = now, !.active = FALSE] \in Body
        BY <2>2 DEF Body
      <4>3. QED
        BY <2>2, <4>1, <4>2 DEF Body
    <3>3. CASE r.kind = "prune"
      <4>1. Prepared(r, now) = {[k EXCEPT !.stamp = now, !.link = None]}
        BY <2>2, <3>3 DEF Prepared
      <4>2. [k EXCEPT !.stamp = now, !.link = None] \in Body
        BY <2>2 DEF Body
      <4>3. QED
        BY <2>2, <4>1, <4>2 DEF Body
    <3>4. CASE r.kind = "restore"
      <4>1. Prepared(r, now) = {[r.from.body EXCEPT !.name = k.name, !.stamp = now, !.active = TRUE]}
        BY <2>2, <3>4 DEF Prepared
      <4>2. r.from.body \in Body /\ r.from.body.id = k.id
        BY <2>1, <3>4 DEF Sound, Revision
      <4>3. [r.from.body EXCEPT !.name = k.name, !.stamp = now, !.active = TRUE] \in Body
        BY <2>2, <4>2 DEF Body
      <4>4. QED
        BY <2>2, <4>1, <4>2, <4>3 DEF Body
    <3>5. QED
      BY <1>3, <3>1, <3>2, <3>3, <3>4
  <2>4. PICK e \in Body : Prepared(r, now) = {e} /\ e.stamp = now /\ e.id = k.id
    BY <2>3
  <2>5. QED
    BY <2>1, <2>4 DEF IdsIn, OnePerId
<1>4. QED
  BY <1>0, <1>1, <1>2, <1>3 DEF Kinds

-----------------------------------------------------------------------------
(* Every variable keeps its shape, and the mutex its holder.               *)

(* An operation that took effect is on record. *)
Counted ==
    \A o \in Ops : commits[o] = 0 \/ (commits[o] = 1 /\ \E q \in ops : q.op = o)

BaseInv == TypeOK /\ Held /\ Counted

LEMMA BaseInit == Init => BaseInv
<1> SUFFICES ASSUME Init
             PROVE  BaseInv
  OBVIOUS
<1>1. TypeOK
  <2>1. hs \in [Handlers -> Handler] /\ job \in Job
    BY DEF Init, Handler, NoHandler, Job, NoJob
  <2>2. settings \in [version: 1..MaxVersion, enabled: BOOLEAN]
    BY BoundsAssumption DEF Init
  <2>3. commits \in [Ops -> Nat] /\ clock \in 0..MaxClock
    BY CatalogueAssumption DEF Init
  <2>4. QED
    BY <2>1, <2>2, <2>3, CatalogueAssumption DEF Init, TypeOK
<1>2. Held
  BY DEF Init, Held, NoJob, NoHandler
<1>3. Counted
  BY DEF Init, Counted
<1>4. QED
  BY <1>1, <1>2, <1>3 DEF BaseInv

LEMMA SetIdsTyped ==
    ASSUME NEW bodies, bodies \subseteq Body, NEW new, new \subseteq Body
    PROVE  SetIds(bodies, new) \subseteq Body
BY DEF SetIds

LEMMA UsersTyped ==
    ASSUME TypeOK, Users
    PROVE  TypeOK' /\ UNCHANGED <<hs, job, sent, ops, commits, replaced>>
<1>0. clock \in 0..MaxClock /\ MaxClock \in Nat /\ MaxVersion \in Nat
  BY BoundsAssumption DEF TypeOK
<1>1. ASSUME NEW n \in Names, UserSave(n)
      PROVE  TypeOK' /\ UNCHANGED <<hs, job, sent, ops, commits, replaced>>
  <2> DEFINE k == [id |-> clock + 1, name |-> n, stamp |-> clock + 1, active |-> TRUE,
                   link |-> None]
  <2>1. k \in Body
    BY <1>0, <1>1 DEF UserSave, UserStep, Body, Stamps
  <2>2. /\ mem' = mem \cup {k} /\ objs' = objs \cup {k} /\ idx' = idx \cup {k}
        /\ clock' \in 0..MaxClock
        /\ UNCHANGED <<shared, ops, settings, observed, sent, hs, job, commits, replaced, revs,
                       revObjs>>
    BY <1>0, <1>1 DEF UserSave, UserStep
  <2> HIDE DEF k
  <2>3. QED
    BY <2>1, <2>2 DEF TypeOK
<1>2. ASSUME NEW k \in idx, NEW n \in Names, UserEdit(k, n)
      PROVE  TypeOK' /\ UNCHANGED <<hs, job, sent, ops, commits, replaced>>
  <2> DEFINE new == [k EXCEPT !.name = n, !.stamp = clock + 1]
  <2>1. new \in Body
    <3>1. k \in Body /\ clock + 1 \in Stamps
      BY <1>0, <1>2 DEF UserEdit, UserStep, Stamps, TypeOK
    <3>2. QED
      BY <3>1 DEF Body
  <2>2. /\ mem' = SetIds(mem, {new}) /\ idx' = SetIds(idx, {new})
        /\ objs' = (objs \ {k}) \cup {new}
        /\ clock' \in 0..MaxClock
        /\ UNCHANGED <<shared, ops, settings, observed, sent, hs, job, commits, replaced, revs,
                       revObjs>>
    BY <1>0, <1>2 DEF UserEdit, UserStep
  <2> HIDE DEF new
  <2>3. mem' \subseteq Body /\ idx' \subseteq Body
    BY <2>1, <2>2, SetIdsTyped DEF TypeOK
  <2>4. QED
    BY <2>1, <2>2, <2>3 DEF TypeOK
<1>3. ASSUME NEW k \in idx, UserForget(k)
      PROVE  TypeOK' /\ UNCHANGED <<hs, job, sent, ops, commits, replaced>>
  <2>1. /\ mem' \subseteq mem /\ objs' \subseteq objs /\ idx' \subseteq idx
        /\ revs' \subseteq revs /\ revObjs' \subseteq revObjs
        /\ clock' \in 0..MaxClock
        /\ UNCHANGED <<shared, ops, settings, observed, sent, hs, job, commits, replaced>>
    BY <1>0, <1>3 DEF UserForget, UserStep, DeleteRevisions
  <2>2. QED
    BY <2>1 DEF TypeOK
<1>4. ASSUME NEW enabled \in BOOLEAN, SaveSettings(enabled)
      PROVE  TypeOK' /\ UNCHANGED <<hs, job, sent, ops, commits, replaced>>
  <2>1. settings' \in [version: 1..MaxVersion, enabled: BOOLEAN]
    BY <1>0, <1>4 DEF SaveSettings, TypeOK
  <2>2. QED
    BY <1>4, <2>1 DEF SaveSettings, docs, TypeOK
<1>5. ASSUME GracePasses
      PROVE  TypeOK' /\ UNCHANGED <<hs, job, sent, ops, commits, replaced>>
  <2>1. observed' \subseteq Observation
    <3>1. \A v \in Observation : [v EXCEPT !.aged = TRUE] \in Observation
      BY DEF Observation
    <3>2. QED
      BY <1>5, <3>1 DEF GracePasses, TypeOK
  <2>2. QED
    BY <1>5, <2>1 DEF GracePasses, docs, TypeOK
<1>6. QED
  BY <1>1, <1>2, <1>3, <1>4, <1>5 DEF Users

LEMMA BaseUsers ==
    ASSUME BaseInv, Users
    PROVE  BaseInv'
<1>1. TypeOK' /\ UNCHANGED <<hs, job, sent, ops, commits, replaced>>
  BY UsersTyped DEF BaseInv
<1>2. Held' /\ Counted'
  BY <1>1 DEF BaseInv, Held, Counted
<1>3. QED
  BY <1>1, <1>2 DEF BaseInv

LEMMA BaseRunner ==
    ASSUME BaseInv, Runner
    PROVE  BaseInv' /\ UNCHANGED <<shared, mem, revs, ops, objs, idx, revObjs, settings, job,
                                   clock, commits, replaced>>
<1> USE DEF BaseInv
<1>1. ASSUME NEW k \in mem, Snapshot(k)
      PROVE  BaseInv' /\ UNCHANGED <<shared, mem, revs, ops, objs, idx, revObjs, settings, job,
                                     clock, commits, replaced>>
  <2>1. k \in Body /\ k.link \in Names
    BY <1>1 DEF Snapshot, TypeOK, Body
  <2>2. [id |-> k.id, name |-> k.link, aged |-> FALSE] \in Observation
    BY <2>1 DEF Observation, Body
  <2>3. observed' \subseteq Observation
    BY <1>1, <2>2 DEF Snapshot, Seen, ObserveIfAbsent, TypeOK
  <2>4. UNCHANGED <<shared, docs, objs, idx, revObjs, settings, sent, hs, job, clock, commits,
                    replaced>>
    BY <1>1 DEF Snapshot
  <2>5. TypeOK' /\ Held' /\ Counted'
    BY <2>3, <2>4 DEF docs, TypeOK, Held, Counted
  <2>6. QED
    BY <2>4, <2>5 DEF docs
<1>2. ASSUME NEW h \in Handlers, NEW r, Arrive(h, r), r \in Request, Sound(r),
             sent' = sent \cup {r}
      PROVE  BaseInv' /\ UNCHANGED <<shared, mem, revs, ops, objs, idx, revObjs, settings, job,
                                     clock, commits, replaced>>
  <2> DEFINE new == [stage |-> "screen", req |-> r, success |-> FALSE]
  <2>1. new \in Handler /\ new.stage = "screen" /\ new.req = r /\ ~new.success
    BY <1>2 DEF Handler
  <2>2. /\ hs' = [hs EXCEPT ![h] = new] /\ hs[h].stage = "idle"
        /\ UNCHANGED <<shared, docs, objs, idx, revObjs, settings, observed, job, clock, commits,
                       replaced>>
    BY <1>2 DEF Arrive
  <2> HIDE DEF new
  <2>3. /\ hs' \in [Handlers -> Handler] /\ hs'[h] = new
        /\ \A g \in Handlers \ {h} : hs'[g] = hs[g]
    BY <2>1, <2>2 DEF TypeOK
  <2>4. TypeOK'
    BY <1>2, <2>2, <2>3 DEF docs, TypeOK
  <2>5. Held'
    BY <1>2, <2>1, <2>2, <2>3, OtherHeld DEF Held
  <2>6. QED
    BY <2>2, <2>4, <2>5 DEF docs, Counted
<1>3. ASSUME NEW h \in Handlers, NEW o \in Ops, Propose(h, o)
      PROVE  \E r \in Request : Sound(r) /\ Arrive(h, r) /\ sent' = sent \cup {r}
  BY <1>3, ProposalsSound DEF Propose
<1>4. ASSUME NEW h \in Handlers, NEW r \in sent, Repeat(h, r)
      PROVE  Arrive(h, r) /\ r \in Request /\ Sound(r) /\ sent' = sent \cup {r}
  BY <1>4 DEF Repeat, TypeOK, Held
<1>5. QED
  BY <1>1, <1>2, <1>3, <1>4 DEF Runner

(* A handler that is not the holder moves on. *)
LEMMA BaseHandlers ==
    ASSUME BaseInv, NEW h \in Handlers, Screen(h) \/ ClearObservation(h)
    PROVE  BaseInv' /\ UNCHANGED <<shared, mem, revs, ops, objs, idx, revObjs, settings, job,
                                   clock, commits, replaced, sent>>
<1> USE DEF BaseInv
<1>1. /\ UNCHANGED <<shared, docs, objs, idx, revObjs, settings, sent, job, clock, commits,
                     replaced>>
      /\ observed' \subseteq observed
      /\ hs[h].stage \in {"screen", "clear"}
  BY DEF Screen, ClearObservation
<1>2. (\E out : Answer(h, out)) \/ Move(h, "queue")
  BY DEF Screen, ClearObservation
<1>3. /\ hs' \in [Handlers -> Handler] /\ hs'[h].stage \in {"idle", "queue"}
      /\ hs'[h].stage # "idle" => hs'[h].req = hs[h].req /\ hs'[h].success = hs[h].success
      /\ \A g \in Handlers \ {h} : hs'[g] = hs[g]
  BY <1>2, Answered, Moved DEF Stages
<1>4. TypeOK'
  BY <1>1, <1>3 DEF docs, TypeOK
<1>5. Held'
  BY <1>1, <1>3, OtherHeld DEF Held
<1>6. QED
  BY <1>1, <1>4, <1>5 DEF docs, Counted

(* The request gets the mutex: it is refused, or was applied, or becomes   *)
(* the job.                                                                *)
Starts(h) ==
    LET r == hs[h].req
        now == clock + 1
        back == {[body |-> k, op |-> r.op, at |-> now] : k \in r.expect}
    IN
    /\ CheckOperation(r) = "none" /\ Applicable(r)
    /\ Move(h, "hold")
    /\ job' = [pc |-> "write", next |-> Prepared(r, now), back |-> back,
               todo |-> Prepared(r, now) \cup back]
    /\ clock' = now /\ idx' = idx

LEMMA BeginCases ==
    ASSUME NEW h \in Handlers, Begin(h)
    PROVE  /\ job = NoJob /\ hs[h].stage = "queue" /\ clock < MaxClock
           /\ UNCHANGED <<shared, mem, revs, ops, objs, revObjs, settings, observed, sent, commits,
                          replaced>>
           /\ \/ /\ CheckOperation(hs[h].req) = "already_applied"
                 /\ Reindexed(h, "already_applied") /\ UNCHANGED <<job, clock>>
              \/ /\ \E out : out \notin Successes /\ Answer(h, out)
                 /\ UNCHANGED <<job, clock, idx>>
              \/ Starts(h)
<1>1. /\ job = NoJob /\ hs[h].stage = "queue" /\ clock < MaxClock
      /\ UNCHANGED <<shared, mem, revs, ops, objs, revObjs, settings, observed, sent, commits,
                     replaced>>
  BY DEF Begin, docs
<1>2. CheckOperation(hs[h].req) \in {"none", "already_applied", "conflict"}
  BY DEF CheckOperation
<1>3. "conflict" \notin Successes /\ "error" \notin Successes
  BY DEF Successes
<1>4. CASE CheckOperation(hs[h].req) = "already_applied"
  BY <1>1, <1>4 DEF Begin
<1>5. CASE /\ CheckOperation(hs[h].req) # "already_applied"
           /\ CheckOperation(hs[h].req) = "conflict" \/ ~Applicable(hs[h].req)
  BY <1>1, <1>3, <1>5 DEF Begin
<1>6. CASE /\ CheckOperation(hs[h].req) = "none" /\ Applicable(hs[h].req)
           /\ hs[h].req.kind = "restore" /\ hs[h].req.from \notin revs \cap revObjs
  BY <1>1, <1>3, <1>6 DEF Begin
<1>7. CASE /\ CheckOperation(hs[h].req) = "none" /\ Applicable(hs[h].req)
           /\ ~(hs[h].req.kind = "restore" /\ hs[h].req.from \notin revs \cap revObjs)
  <2>1. Starts(h)
    BY <1>7 DEF Begin, Starts
  <2>2. QED
    BY <1>1, <2>1
<1>8. QED
  BY <1>2, <1>4, <1>5, <1>6, <1>7

LEMMA BaseBegin ==
    ASSUME BaseInv, NEW h \in Handlers, Begin(h)
    PROVE  BaseInv'
<1> USE DEF BaseInv
<1>0. /\ job = NoJob /\ hs[h].stage = "queue" /\ clock < MaxClock
      /\ UNCHANGED <<shared, mem, revs, ops, objs, revObjs, settings, observed, sent, commits,
                     replaced>>
  BY BeginCases
<1>1. Counted'
  BY <1>0 DEF Counted
<1>2. CASE \/ Reindexed(h, "already_applied") /\ UNCHANGED <<job, clock>>
           \/ (\E out : out \notin Successes /\ Answer(h, out)) /\ UNCHANGED <<job, clock, idx>>
  <2>1. (\E out : Answer(h, out)) /\ idx' \subseteq idx \cup mem /\ job' = job /\ clock' = clock
    BY <1>2 DEF Reindexed, Rebuild
  <2>2. /\ hs' \in [Handlers -> Handler] /\ hs'[h].stage = "idle"
        /\ \A g \in Handlers \ {h} : hs'[g] = hs[g]
    BY <2>1, Answered
  <2>3. TypeOK'
    BY <1>0, <2>1, <2>2 DEF TypeOK
  <2>4. Held'
    BY <1>0, <2>1, <2>2, OtherHeld DEF Held
  <2>5. QED
    BY <1>1, <2>3, <2>4
<1>3. CASE Starts(h)
  <2> DEFINE r == hs[h].req
             now == clock + 1
             next == Prepared(r, now)
             back == {[body |-> k, op |-> r.op, at |-> now] : k \in r.expect}
  <2>1. r \in Request /\ Sound(r) /\ r \in sent
    BY <1>0 DEF Held, TypeOK
  <2>2. now \in Stamps /\ now \in 0..MaxClock
    BY <1>0, BoundsAssumption DEF TypeOK, Stamps
  <2>3. next \subseteq Body
    BY <2>1, <2>2, PreparedBodies
  <2>4. back \subseteq Revision
    BY <2>1, <2>2 DEF Request, Revision
  <2>5. /\ Move(h, "hold") /\ clock' = now /\ idx' = idx
        /\ job' = [pc |-> "write", next |-> next, back |-> back, todo |-> next \cup back]
    BY <1>3 DEF Starts
  <2> HIDE DEF next, back, now
  <2>6. job' \in Job /\ job'.pc = "write"
    BY <2>3, <2>4, <2>5 DEF Job
  <2>7. /\ hs' \in [Handlers -> Handler] /\ hs'[h].stage = "hold" /\ hs'[h].req = r
        /\ hs'[h].success = hs[h].success
        /\ \A g \in Handlers \ {h} : hs'[g] = hs[g]
    BY <2>5, Moved DEF Stages
  <2>8. TypeOK'
    BY <1>0, <2>2, <2>5, <2>6, <2>7 DEF TypeOK
  <2>9. job' # NoJob /\ \A g \in Handlers : hs[g].stage # "hold"
    BY <1>0, <2>6 DEF NoJob, Held
  <2>10. Held'
    BY <1>0, <2>1, <2>6, <2>7, <2>9 DEF Held
  <2>11. QED
    BY <1>1, <2>8, <2>10
<1>4. QED
  BY <1>2, <1>3, BeginCases

-----------------------------------------------------------------------------
(* The steps of the job.                                                   *)

LEMMA JobTyped ==
    ASSUME TypeOK
    PROVE  /\ job.next \subseteq Body /\ job.back \subseteq Revision
           /\ job.todo \subseteq Body \cup Revision
           /\ job.pc \in {"idle", "write", "commit", "cache", "recheck"}
BY DEF TypeOK, Job

LEMMA Gone ==
    ASSUME TypeOK, NEW pc \in {"write", "commit", "cache", "recheck"}, Goto(pc)
    PROVE  /\ job' \in Job /\ job'.pc = pc /\ job' # NoJob
           /\ job'.next = job.next /\ job'.back = job.back /\ job'.todo = job.todo
           /\ hs' = hs
BY DEF Goto, TypeOK, Job, NoJob

LEMMA Uploaded ==
    ASSUME TypeOK, NEW k \in job.todo, Upload(k)
    PROVE  /\ job' \in Job /\ job' # NoJob
           /\ job'.next = job.next /\ job'.back = job.back /\ job'.todo = job.todo \ {k}
           /\ job.pc = "write"
           /\ job'.pc = IF job.todo = {k} THEN "commit" ELSE "write"
           /\ objs' = IF k \in job.next THEN objs \cup {k} ELSE objs
           /\ revObjs' = IF k \in job.back THEN revObjs \cup {k} ELSE revObjs
           /\ UNCHANGED <<shared, mem, revs, ops, idx, settings, observed, sent, hs, clock, commits,
                          replaced>>
<1> DEFINE pc == IF job.todo = {k} THEN "commit" ELSE "write"
<1>1. /\ job' = [job EXCEPT !.todo = @ \ {k}, !.pc = pc]
      /\ job.pc = "write"
      /\ objs' = IF k \in job.next THEN objs \cup {k} ELSE objs
      /\ revObjs' = IF k \in job.back THEN revObjs \cup {k} ELSE revObjs
      /\ UNCHANGED <<shared, docs, idx, settings, observed, sent, hs, clock, commits, replaced>>
  BY DEF Upload
<1>2. pc \in {"commit", "write"} /\ pc = IF job.todo = {k} THEN "commit" ELSE "write"
  OBVIOUS
<1> HIDE DEF pc
<1>3. /\ job' \in Job /\ job'.pc = pc
      /\ job'.next = job.next /\ job'.back = job.back /\ job'.todo = job.todo \ {k}
  BY <1>1, <1>2 DEF TypeOK, Job
<1>4. job' # NoJob
  BY <1>2, <1>3 DEF NoJob
<1>5. QED
  BY <1>1, <1>2, <1>3, <1>4 DEF docs

(* A transaction that commits finds none of its operation, the very bodies *)
(* that were judged, and for a prune a link that is still dead.            *)
LEMMA CommitApplies ==
    ASSUME NEW r, CommitOutcome(r) = "applied"
    PROVE  /\ CheckOperation(r) = "none" /\ \A q \in ops : q.op # r.op
           /\ r.expect \subseteq mem
           /\ r.kind = "prune" => \A k \in r.expect : r.name \notin NamesIn(mem)
<1>0. CheckOperation(r) # "applied"
  BY DEF CheckOperation
<1>1. /\ CheckOperation(r) = "none" /\ HashesCurrent(r)
      /\ r.kind = "prune" => Prunable(r)
  BY <1>0 DEF CommitOutcome
<1>2. QED
  BY <1>1 DEF CheckOperation, HashesCurrent, Prunable

LEMMA WrittenTyped ==
    ASSUME BaseInv, job # NoJob, CommitOutcome(Req) = "applied", Written
    PROVE  /\ mem' \subseteq Body /\ revs' \subseteq Revision /\ ops' \subseteq sent
           /\ commits' \in [Ops -> Nat] /\ replaced' \subseteq Body
           /\ Counted'
<1> USE DEF BaseInv
<1>1. Req \in Request /\ Req \in sent
  BY Holding
<1>2. /\ mem' = SetIds(mem, job.next) /\ revs' = revs \cup job.back /\ ops' = ops \cup {Req}
      /\ commits' = [commits EXCEPT ![Req.op] = @ + 1] /\ replaced' = replaced \cup Req.expect
  BY DEF Written, RevisionsSet
<1>3. Req.op \in Ops /\ Req.expect \subseteq Body
  BY <1>1 DEF Request
<1>4. commits[Req.op] = 0 /\ commits \in [Ops -> Nat]
  BY <1>3, CommitApplies DEF Counted, TypeOK
<1>5. /\ commits' \in [Ops -> Nat] /\ commits'[Req.op] = 1
      /\ \A o \in Ops \ {Req.op} : commits'[o] = commits[o]
  BY <1>2, <1>3, <1>4
<1>6. Counted'
  BY <1>2, <1>5 DEF Counted
<1>7. mem' \subseteq Body
  BY <1>2, JobTyped, SetIdsTyped DEF TypeOK
<1>8. QED
  BY <1>1, <1>2, <1>3, <1>5, <1>6, <1>7, JobTyped DEF TypeOK

(* What becomes of the documents, the handlers and the job. *)
LEMMA JobCases ==
    ASSUME BaseInv, Commit \/ CommitFails \/ UploadFails \/ WriteCache \/ CacheFails \/ Recheck
    PROVE  /\ job # NoJob
           /\ \/ UNCHANGED <<mem, revs, ops, commits, replaced>>
              \/ job.pc = "commit" /\ CommitOutcome(Req) = "applied" /\ Written
           /\ \/ \E pc \in {"cache", "recheck"} : Goto(pc)
              \/ \E out : Finish(out)
              \/ job' = NoJob /\ \E out : Answer(Holder, out)
           /\ objs' \subseteq objs /\ revObjs' \subseteq revObjs
           /\ Rebuild \/ idx' = idx \/ idx' = SetIds(idx, job.next)
           /\ UNCHANGED <<shared, settings, observed, sent, clock>>
<1>0. job.pc = "idle" <=> job = NoJob
  BY DEF BaseInv, Held
<1>1. CASE Commit
  BY <1>0, <1>1 DEF Commit, CleanUp, docs
<1>2. CASE CommitFails
  BY <1>0, <1>2 DEF CommitFails, CleanUp, docs
<1>3. CASE UploadFails \/ WriteCache \/ CacheFails
  BY <1>0, <1>3 DEF UploadFails, WriteCache, CacheFails, CleanUp, docs
<1>4. CASE Recheck
  BY <1>0, <1>4 DEF Recheck, CleanUp, Reindexed, docs
<1>5. QED
  BY <1>1, <1>2, <1>3, <1>4

LEMMA BaseJob ==
    ASSUME BaseInv, \/ Commit \/ CommitFails \/ UploadFails \/ WriteCache \/ CacheFails \/ Recheck
                    \/ \E k \in job.todo : Upload(k)
    PROVE  BaseInv'
<1> USE DEF BaseInv
<1>1. CASE \E k \in job.todo : Upload(k)
  <2>1. PICK k \in job.todo : Upload(k)
    BY <1>1
  <2>2. /\ job' \in Job /\ job' # NoJob /\ job'.pc \in {"commit", "write"} /\ job.pc = "write"
        /\ objs' \subseteq objs \cup (job.next \cap {k})
        /\ revObjs' \subseteq revObjs \cup (job.back \cap {k})
        /\ UNCHANGED <<shared, mem, revs, ops, idx, settings, observed, sent, hs, clock, commits,
                       replaced>>
    BY <2>1, Uploaded
  <2>3. TypeOK'
    BY <2>2, JobTyped DEF TypeOK
  <2>4. Held'
    BY <2>2, WorkingHeld DEF NoJob
  <2>5. QED
    BY <2>2, <2>3, <2>4 DEF Counted
<1>2. CASE Commit \/ CommitFails \/ UploadFails \/ WriteCache \/ CacheFails \/ Recheck
  <2>1. /\ job # NoJob
        /\ \/ UNCHANGED <<mem, revs, ops, commits, replaced>>
           \/ job.pc = "commit" /\ CommitOutcome(Req) = "applied" /\ Written
        /\ \/ \E pc \in {"cache", "recheck"} : Goto(pc)
           \/ \E out : Finish(out)
           \/ job' = NoJob /\ \E out : Answer(Holder, out)
        /\ objs' \subseteq objs /\ revObjs' \subseteq revObjs
        /\ Rebuild \/ idx' = idx \/ idx' = SetIds(idx, job.next)
        /\ UNCHANGED <<shared, settings, observed, sent, clock>>
    BY <1>2, JobCases
  <2>2. /\ mem' \subseteq Body /\ revs' \subseteq Revision /\ ops' \subseteq sent
        /\ commits' \in [Ops -> Nat] /\ replaced' \subseteq Body
        /\ Counted'
    BY <2>1, WrittenTyped DEF TypeOK, Counted
  <2>3. idx' \subseteq Body
    BY <2>1, JobTyped, SetIdsTyped DEF TypeOK, Rebuild
  <2>4. hs' \in [Handlers -> Handler] /\ job' \in Job /\ Held'
    <3>1. CASE \E pc \in {"cache", "recheck"} : Goto(pc)
      BY <2>1, <3>1, Gone, WorkingHeld DEF TypeOK
    <3>2. CASE \E out : Finish(out)
      BY <2>1, <3>2, Finished, FreedHeld DEF Job, NoJob
    <3>3. CASE job' = NoJob /\ \E out : Answer(Holder, out)
      BY <2>1, <3>3, Holding, Answered, FreedHeld DEF Job, NoJob
    <3>4. QED
      BY <2>1, <3>1, <3>2, <3>3
  <2>5. TypeOK'
    BY <2>1, <2>2, <2>3, <2>4 DEF TypeOK
  <2>6. QED
    BY <2>2, <2>4, <2>5
<1>3. QED
  BY <1>1, <1>2

LEMMA BaseCrash ==
    ASSUME BaseInv, Crash
    PROVE  BaseInv'
<1> USE DEF BaseInv
<1>1. /\ hs' = [h \in Handlers |-> NoHandler] /\ job' = NoJob /\ idx' \subseteq mem
      /\ UNCHANGED <<shared, mem, revs, ops, objs, revObjs, settings, observed, sent, clock,
                     commits, replaced>>
  BY DEF Crash, Rebuild, docs
<1>2. NoHandler \in Handler /\ NoJob \in Job /\ NoHandler.stage = "idle" /\ NoJob.pc = "idle"
  BY DEF NoHandler, Handler, NoJob, Job
<1>3. TypeOK'
  BY <1>1, <1>2 DEF TypeOK
<1>4. Held'
  BY <1>1, <1>2 DEF Held
<1>5. QED
  BY <1>1, <1>3, <1>4 DEF Counted

(* Whatever fails, one handler at most holds the mutex, and just then a     *)
(* mutation is in flight, for a request that was sent (cloud-service.ts,    *)
(* applyMutation); and an operation id commits once at most, and then is on *)
(* record (firestore-metadata.ts, commitMemoryMutation).                    *)
THEOREM BaseStays == Spec => []BaseInv
<1>1. BaseInv /\ [Next]_vars => BaseInv'
  <2> SUFFICES ASSUME BaseInv, [Next]_vars
               PROVE  BaseInv'
    OBVIOUS
  <2>1. CASE Users \/ Runner
    BY <2>1, BaseUsers, BaseRunner
  <2>2. CASE \E h \in Handlers : Screen(h) \/ Begin(h) \/ ClearObservation(h)
    BY <2>2, BaseHandlers, BaseBegin
  <2>3. CASE \/ \E k \in job.todo : Upload(k)
             \/ UploadFails \/ Commit \/ CommitFails \/ WriteCache \/ CacheFails \/ Recheck
    BY <2>3, BaseJob
  <2>4. CASE Crash
    BY <2>4, BaseCrash
  <2>5. CASE UNCHANGED vars
    BY <2>5 DEF vars, docs, BaseInv, TypeOK, Held, Counted
  <2>6. QED
    BY <2>1, <2>2, <2>3, <2>4, <2>5 DEF Next, Service
<1>2. QED
  BY <1>1, BaseInit, PTL DEF Spec

(* Every variable keeps its shape. *)
THEOREM MaintenanceTypes == Spec => []TypeOK
<1>1. BaseInv => TypeOK
  BY DEF BaseInv
<1>2. QED
  BY <1>1, BaseStays, PTL

(* Whatever fails, and however often a request is sent, an operation takes *)
(* effect once.                                                            *)
THEOREM AppliesOnce == Spec => []AppliedOnce
<1>1. BaseInv => AppliedOnce
  BY DEF BaseInv, TypeOK, Counted, AppliedOnce
<1>2. QED
  BY <1>1, BaseStays, PTL

-----------------------------------------------------------------------------
(* What takes effect, whatever fails.                                      *)

LEMMA EffectIsCommit ==
    ASSUME BaseInv, [Next]_vars, ops' # ops
    PROVE  job # NoJob /\ CommitOutcome(Req) = "applied" /\ ops' = ops \cup {Req}
<1>1. CASE Users \/ Runner
  BY <1>1, UsersTyped, BaseRunner DEF BaseInv
<1>2. CASE \E h \in Handlers : Screen(h) \/ Begin(h) \/ ClearObservation(h)
  BY <1>2, BaseHandlers, BeginCases
<1>3. CASE \E k \in job.todo : Upload(k)
  BY <1>3, Uploaded DEF BaseInv
<1>4. CASE UploadFails \/ Commit \/ CommitFails \/ WriteCache \/ CacheFails \/ Recheck
  BY <1>4, JobCases DEF Written
<1>5. CASE Crash \/ UNCHANGED vars
  BY <1>5 DEF Crash, vars, docs
<1>6. QED
  BY <1>1, <1>2, <1>3, <1>4, <1>5 DEF Next, Service

(* An edit by a user wins over a proposal about the older body.            *)
THEOREM UserEditsWin == Spec => UserEditWins
<1>1. BaseInv /\ [Next]_vars => [\A r \in sent : Effect(r) => r.expect \subseteq mem]_vars
  <2> SUFFICES ASSUME BaseInv, [Next]_vars, NEW r \in sent, Effect(r)
               PROVE  r.expect \subseteq mem
    OBVIOUS
  <2>1. job # NoJob /\ CommitOutcome(Req) = "applied" /\ ops' = ops \cup {Req}
    BY EffectIsCommit DEF Effect
  <2>2. r = Req
    BY <2>1 DEF Effect
  <2>3. QED
    BY <2>1, <2>2, CommitApplies
<1>2. QED
  BY <1>1, BaseStays, PTL DEF Spec, UserEditWins

(* No live link is pruned: a memory that has come back meanwhile, also one *)
(* that is archived, keeps what links to it.                               *)
THEOREM PrunesKeepLiveLinks == Spec => PruneKeepsLiveLinks
<1>1. BaseInv /\ [Next]_vars =>
          [\A r \in sent : Effect(r) /\ r.kind = "prune" => r.name \notin NamesIn(mem)]_vars
  <2> SUFFICES ASSUME BaseInv, [Next]_vars, NEW r \in sent, Effect(r), r.kind = "prune"
               PROVE  r.name \notin NamesIn(mem)
    OBVIOUS
  <2>1. job # NoJob /\ CommitOutcome(Req) = "applied" /\ ops' = ops \cup {Req}
    BY EffectIsCommit DEF Effect
  <2>2. r = Req
    BY <2>1 DEF Effect
  <2>3. \E k \in r.expect : TRUE
    BY DEF BaseInv, Held, Sound
  <2>4. QED
    BY <2>1, <2>2, <2>3, CommitApplies
<1>2. QED
  BY <1>1, BaseStays, PTL DEF Spec, PruneKeepsLiveLinks

-----------------------------------------------------------------------------
(* What the mutex protects, as long as the service learns in the end which *)
(* of its transactions committed.                                          *)

(* Ids and stamps come from the clock and are not given twice. *)
Clocked(now) ==
    /\ \A k \in mem \cup idx \cup replaced : k.id <= now
    /\ \A k \in mem : k.stamp <= now
    /\ \A v \in revs : v.at <= now

(* Every memory is one body that exists, and every row is of a memory. *)
Whole ==
    /\ OnePerId(mem) /\ OnePerId(idx)
    /\ IdsIn(idx) \subseteq IdsIn(mem)
    /\ mem \subseteq objs

(* The job prepares what its request asks for. *)
Prepares ==
    /\ OnePerId(job.next)
    /\ \A k \in job.next : k.stamp = clock
    /\ \A v \in job.back : v.at = clock
    /\ \A k \in Req.expect : \E v \in job.back : v.body = k
    /\ IdsIn(Req.expect) \subseteq IdsIn(job.next)
    /\ IdsIn(job.next) \subseteq IdsIn(Req.expect) \cup {clock}

(* Its bodies and revisions are its own until its transaction commits. *)
Progress ==
    /\ job.pc = "write" => /\ job.next \ job.todo \subseteq objs
                           /\ job.back \ job.todo \subseteq revObjs
    /\ job.pc = "commit" => job.next \subseteq objs /\ job.back \subseteq revObjs
    /\ job.pc \in {"write", "commit"} => Req \notin ops
    /\ job.pc = "cache" => Req \in ops
    /\ Req \in ops => job.next \subseteq mem
    /\ Req \notin ops => Clocked(clock - 1)

KeptInv ==
    /\ Clocked(clock) /\ Whole /\ ReplacedKept
    /\ job # NoJob => Prepares /\ Progress

LEMMA KeptInit == Init => KeptInv
<1> SUFFICES ASSUME Init
             PROVE  KeptInv
  OBVIOUS
<1>1. /\ mem = Catalogue /\ idx = Catalogue /\ objs = Catalogue /\ revs = {} /\ replaced = {}
      /\ job = NoJob /\ clock = Cardinality(Catalogue)
  BY DEF Init
<1>2. \A k \in Catalogue : k.id <= Cardinality(Catalogue) /\ k.stamp <= Cardinality(Catalogue)
  BY CatalogueAssumption
<1>3. \A k, l \in Catalogue : k.id = l.id => k = l
  BY CatalogueAssumption
<1>4. QED
  BY <1>1, <1>2, <1>3 DEF KeptInv, Clocked, Whole, OnePerId, ReplacedKept

LEMMA KeptSame ==
    ASSUME KeptInv, UNCHANGED <<mem, revs, ops, objs, idx, revObjs, job, clock, replaced>>,
           job # NoJob => Req' = Req
    PROVE  KeptInv'
<1>1. Clocked(clock)' /\ Whole' /\ ReplacedKept'
  BY DEF KeptInv, Clocked, Whole, OnePerId, ReplacedKept, IdsIn
<1>2. ASSUME job # NoJob
      PROVE  Prepares' /\ Progress'
  <2>1. Prepares /\ Progress /\ Req' = Req
    BY <1>2 DEF KeptInv
  <2>2. Clocked(clock - 1)' = Clocked(clock - 1)
    BY DEF Clocked
  <2>3. Prepares'
    BY <2>1 DEF Prepares, OnePerId, IdsIn
  <2>4. Progress'
    BY <2>1, <2>2 DEF Progress
  <2>5. QED
    BY <2>3, <2>4
<1>3. QED
  BY <1>1, <1>2 DEF KeptInv

LEMMA KeptUsers ==
    ASSUME BaseInv, KeptInv, Users
    PROVE  KeptInv'
<1> USE DEF BaseInv
<1>0. /\ clock \in Nat /\ TypeOK /\ clock + 1 \in Nat
      /\ \A k \in mem \cup idx \cup replaced : k.id \in Nat /\ k.stamp \in Nat
      /\ \A v \in revs : v.at \in Nat
  BY BoundsAssumption DEF TypeOK, Body, Revision, Stamps
<1>1. Clocked(clock) /\ Whole /\ ReplacedKept
  BY DEF KeptInv
<1>2. ASSUME NEW n \in Names, UserSave(n)
      PROVE  KeptInv'
  <2> DEFINE k == [id |-> clock + 1, name |-> n, stamp |-> clock + 1, active |-> TRUE,
                   link |-> None]
  <2>1. /\ job = NoJob /\ job' = job /\ clock' = clock + 1
        /\ mem' = mem \cup {k} /\ objs' = objs \cup {k} /\ idx' = idx \cup {k}
        /\ revs' = revs /\ revObjs' = revObjs /\ replaced' = replaced
    BY <1>2 DEF UserSave, UserStep
  <2>2. k.id = clock + 1 /\ k.stamp = clock + 1
    OBVIOUS
  <2> HIDE DEF k
  <2>3. Clocked(clock)'
    BY <1>0, <1>1, <2>1, <2>2 DEF Clocked
  <2>4. \A l \in mem \cup idx \cup replaced : l.id # k.id
    BY <1>0, <1>1, <2>2 DEF Clocked
  <2>5. Whole'
    BY <1>1, <2>1, <2>4 DEF Whole, OnePerId, IdsIn
  <2>6. ReplacedKept'
    BY <1>1, <2>1, <2>4 DEF ReplacedKept, IdsIn
  <2>7. QED
    BY <2>1, <2>3, <2>5, <2>6 DEF KeptInv
<1>3. ASSUME NEW k \in idx, NEW n \in Names, UserEdit(k, n)
      PROVE  KeptInv'
  <2> DEFINE new == [k EXCEPT !.name = n, !.stamp = clock + 1]
  <2>1. /\ job = NoJob /\ job' = job /\ clock' = clock + 1
        /\ mem' = SetIds(mem, {new}) /\ idx' = SetIds(idx, {new})
        /\ objs' = (objs \ {k}) \cup {new}
        /\ revs' = revs /\ revObjs' = revObjs /\ replaced' = replaced
    BY <1>3 DEF UserEdit, UserStep
  <2>2. new.id = k.id /\ new.stamp = clock + 1
    BY DEF TypeOK, Body
  <2> HIDE DEF new
  <2>3. /\ mem' = {l \in mem : l.id # k.id} \cup {new}
        /\ idx' = {l \in idx : l.id # k.id} \cup {new}
    BY <2>1, <2>2 DEF SetIds, IdsIn
  <2>4. Clocked(clock)'
    BY SMTT(30), <1>0, <1>1, <2>1, <2>2, <2>3 DEF Clocked
  <2>5. Whole'
    <3>1. OnePerId(mem') /\ OnePerId(idx')
      BY <1>1, <2>2, <2>3 DEF Whole, OnePerId
    <3>2. IdsIn(idx') \subseteq IdsIn(mem')
      BY <1>1, <2>2, <2>3 DEF Whole, IdsIn
    <3>3. mem' \subseteq objs'
      BY <1>1, <2>1, <2>3 DEF Whole
    <3>4. QED
      BY <3>1, <3>2, <3>3 DEF Whole
  <2>6. IdsIn(mem') \subseteq IdsIn(mem)
    BY <1>1, <2>2, <2>3 DEF Whole, IdsIn
  <2>7. ReplacedKept'
    BY <1>1, <2>1, <2>6 DEF ReplacedKept
  <2>8. QED
    BY <2>1, <2>4, <2>5, <2>7 DEF KeptInv
<1>4. ASSUME NEW k \in idx, UserForget(k)
      PROVE  KeptInv'
  <2>1. /\ job = NoJob /\ job' = job /\ clock' = clock + 1
        /\ mem' = {l \in mem : l.id # k.id}
        /\ idx' = idx \ {k} /\ objs' = objs \ {k}
        /\ replaced' = replaced
        /\ \/ revs' = revs \ RevisionsOf(k.id) /\ revObjs' = revObjs \ RevisionsOf(k.id)
           \/ revs' = revs /\ revObjs' = revObjs
    BY <1>4 DEF UserForget, UserStep, DeleteRevisions
  <2>2. Clocked(clock)'
    <3>1. /\ mem' \cup idx' \cup replaced' \subseteq mem \cup idx \cup replaced
          /\ mem' \subseteq mem /\ revs' \subseteq revs
      BY <2>1
    <3>2. QED
      BY <1>0, <1>1, <2>1, <3>1 DEF Clocked
  <2>3. Whole'
    BY <1>1, <2>1 DEF Whole, OnePerId, IdsIn
  <2>4. ReplacedKept'
    <3>1. ASSUME NEW e \in replaced, e.id \in IdsIn(mem')
          PROVE  \E v \in revs' \cap revObjs' : v.body = e
      <4>1. e.id # k.id /\ e.id \in IdsIn(mem)
        BY <2>1, <3>1 DEF IdsIn
      <4>2. PICK v \in revs \cap revObjs : v.body = e
        BY <1>1, <4>1 DEF ReplacedKept
      <4>3. v \notin RevisionsOf(k.id)
        BY <4>1, <4>2 DEF RevisionsOf
      <4>4. QED
        BY <2>1, <4>2, <4>3
    <3>2. QED
      BY <2>1, <3>1 DEF ReplacedKept
  <2>5. QED
    BY <2>1, <2>2, <2>3, <2>4 DEF KeptInv
<1>5. CASE (\E enabled \in BOOLEAN : SaveSettings(enabled)) \/ GracePasses
  <2>1. UNCHANGED <<mem, revs, ops, objs, idx, revObjs, job, clock, replaced, hs>>
    BY <1>5 DEF SaveSettings, GracePasses, docs
  <2>2. Req' = Req
    BY <2>1 DEF Req, Holder
  <2>3. QED
    BY <2>1, <2>2, KeptSame
<1>6. QED
  BY <1>2, <1>3, <1>4, <1>5 DEF Users

(* Beside the job handlers only come and go. *)
LEMMA KeptHandlers ==
    ASSUME BaseInv, KeptInv, Runner \/ \E h \in Handlers : Screen(h) \/ ClearObservation(h)
    PROVE  KeptInv'
<1>1. UNCHANGED <<mem, revs, ops, objs, idx, revObjs, job, clock, replaced>>
  BY BaseRunner, BaseHandlers
<1>2. ASSUME job # NoJob
      PROVE  Req' = Req
  <2>1. CASE \E k \in mem : Snapshot(k)
    BY <2>1 DEF Snapshot, Req, Holder
  <2>2. CASE \E h \in Handlers : \E r : Arrive(h, r)
    <3>1. PICK h \in Handlers : \E r : Arrive(h, r)
      BY <2>2
    <3>2. /\ hs[h].stage = "idle" /\ hs'[h].stage = "screen"
          /\ \A g \in Handlers \ {h} : hs'[g] = hs[g]
      BY <3>1 DEF Arrive, BaseInv, TypeOK
    <3>3. QED
      BY <1>2, <3>2, SameHolder DEF BaseInv
  <2>3. CASE \E h \in Handlers : Screen(h) \/ ClearObservation(h)
    <3>1. PICK h \in Handlers : Screen(h) \/ ClearObservation(h)
      BY <2>3
    <3>2. hs[h].stage # "hold" /\ ((\E out : Answer(h, out)) \/ Move(h, "queue"))
      BY <3>1 DEF Screen, ClearObservation
    <3>3. hs'[h].stage # "hold" /\ \A g \in Handlers \ {h} : hs'[g] = hs[g]
      BY <3>2, Answered, Moved DEF Stages, BaseInv
    <3>4. QED
      BY <1>2, <3>2, <3>3, SameHolder DEF BaseInv
  <2>4. QED
    BY <2>1, <2>2, <2>3 DEF Runner, Propose, Repeat
<1>3. QED
  BY <1>1, <1>2, KeptSame

(* The index is rebuilt from the documents whose bodies are there: from all, *)
(* but for the bodies that cannot be read.                                 *)
LEMMA RebuiltAll ==
    ASSUME Whole, Rebuild
    PROVE  /\ idx' \subseteq mem
           /\ "read" \notin Faults => idx' = mem
BY DEF Whole, Rebuild

LEMMA KeptBegin ==
    ASSUME BaseInv, KeptInv, NEW h \in Handlers, Begin(h)
    PROVE  KeptInv'
<1> USE DEF BaseInv
<1>0. /\ clock \in Nat /\ clock + 1 \in Stamps /\ (clock + 1) - 1 = clock
      /\ \A k \in mem \cup idx \cup replaced : k.id \in Nat /\ k.stamp \in Nat
      /\ \A v \in revs : v.at \in Nat
  BY BeginCases, BoundsAssumption DEF TypeOK, Body, Revision, Stamps
<1>1. /\ job = NoJob /\ hs[h].stage = "queue"
      /\ UNCHANGED <<shared, mem, revs, ops, objs, revObjs, settings, observed, sent, commits,
                     replaced>>
  BY BeginCases
<1>2. Clocked(clock) /\ Whole /\ ReplacedKept
  BY DEF KeptInv
<1>3. ReplacedKept'
  BY <1>1, <1>2 DEF ReplacedKept, IdsIn
<1>4. CASE (Rebuild \/ idx' = idx) /\ job' = NoJob /\ clock' = clock
  <2>0. idx' \subseteq mem \/ idx' = idx
    BY <1>2, <1>4, RebuiltAll
  <2>1. Clocked(clock)' /\ Whole'
    BY <1>1, <1>2, <1>4, <2>0 DEF Clocked, Whole, OnePerId, IdsIn
  <2>2. QED
    BY <1>3, <1>4, <2>1 DEF KeptInv
<1>5. CASE Starts(h)
  <2> DEFINE r == hs[h].req
             now == clock + 1
             next == Prepared(r, now)
             back == {[body |-> k, op |-> r.op, at |-> now] : k \in r.expect}
  <2>1. r \in Request /\ Sound(r) /\ OnePerId(r.expect) /\ r \notin ops
    BY <1>1, <1>2, <1>5 DEF Held, TypeOK, Starts, Applicable, HashesCurrent, Whole, OnePerId,
                            CheckOperation
  <2>2. /\ \A k \in next : k.stamp = now
        /\ IdsIn(r.expect) \subseteq IdsIn(next)
        /\ IdsIn(next) \subseteq IdsIn(r.expect) \cup {now}
        /\ OnePerId(next)
    BY <1>0, <2>1, PreparedBodies
  <2>3. /\ \A v \in back : v.at = now
        /\ \A k \in r.expect : \E v \in back : v.body = k
    <3>1. \A v \in back : v.at = now
      OBVIOUS
    <3>2. ASSUME NEW k \in r.expect
          PROVE  \E v \in back : v.body = k
      <4> DEFINE v == [body |-> k, op |-> r.op, at |-> now]
      <4>1. v \in back /\ v.body = k
        OBVIOUS
      <4> HIDE DEF v, back
      <4>2. QED
        BY <4>1
    <3>3. QED
      BY <3>1, <3>2
  <2>4. /\ Move(h, "hold") /\ clock' = now /\ idx' = idx
        /\ job' = [pc |-> "write", next |-> next, back |-> back, todo |-> next \cup back]
    BY <1>5 DEF Starts
  <2> HIDE DEF next, back
  <2>5. /\ job'.pc = "write" /\ job'.next = next /\ job'.back = back
        /\ job'.todo = next \cup back
    BY <2>4
  <2>6. /\ hs'[h].stage = "hold" /\ hs'[h].req = r
        /\ \A g \in Handlers \ {h} : hs'[g].stage # "hold"
    BY <1>1, <2>4, Moved DEF Stages, Held
  <2>7. Req' = r
    <3>1. PICK e : e = h
      OBVIOUS
    <3>2. \A g : g \in Handlers /\ hs'[g].stage = "hold" <=> g = e
      BY <2>6, <3>1
    <3>3. (CHOOSE g \in Handlers : hs'[g].stage = "hold") = e
      BY <3>2
    <3>4. QED
      BY <2>6, <3>1, <3>3 DEF Req, Holder
  <2>8. Prepares'
    BY <2>2, <2>3, <2>4, <2>5, <2>7 DEF Prepares
  <2>9. Clocked(clock - 1)'
    BY <1>0, <1>1, <1>2, <2>4 DEF Clocked
  <2>10. Progress'
    BY <1>1, <2>1, <2>5, <2>7, <2>9 DEF Progress
  <2>11. Clocked(clock)'
    BY <1>0, <1>1, <1>2, <2>4 DEF Clocked
  <2>12. Whole'
    BY <1>1, <1>2, <2>4 DEF Whole, OnePerId, IdsIn
  <2>13. QED
    BY <1>3, <2>8, <2>10, <2>11, <2>12 DEF KeptInv
<1>6. QED
  BY <1>1, <1>4, <1>5, BeginCases DEF Reindexed

-----------------------------------------------------------------------------
(* The job, and the end of it.                                             *)

(* A job that keeps the mutex keeps its request. *)
LEMMA SameReq ==
    ASSUME hs' = hs
    PROVE  Req' = Req
BY DEF Req, Holder

LEMMA KeptUpload ==
    ASSUME BaseInv, KeptInv, NEW k \in job.todo, Upload(k)
    PROVE  KeptInv'
<1>1. /\ job' # NoJob /\ job'.next = job.next /\ job'.back = job.back
      /\ job'.todo = job.todo \ {k}
      /\ job.pc = "write"
      /\ job'.pc = IF job.todo = {k} THEN "commit" ELSE "write"
      /\ objs' = IF k \in job.next THEN objs \cup {k} ELSE objs
      /\ revObjs' = IF k \in job.back THEN revObjs \cup {k} ELSE revObjs
      /\ UNCHANGED <<mem, revs, ops, idx, hs, clock, replaced>>
  BY Uploaded DEF BaseInv
<1>2. Req' = Req /\ job # NoJob
  BY <1>1, SameReq DEF NoJob
<1>3. Clocked(clock) /\ Whole /\ ReplacedKept /\ Prepares /\ Progress
  BY <1>2 DEF KeptInv
<1>4. Clocked(clock)' /\ Clocked(clock - 1)' = Clocked(clock - 1)
  BY <1>1, <1>3 DEF Clocked
<1>5. Whole'
  BY <1>1, <1>3 DEF Whole, OnePerId, IdsIn
<1>6. ReplacedKept'
  BY <1>1, <1>3 DEF ReplacedKept, IdsIn
<1>7. Prepares'
  BY <1>1, <1>2, <1>3 DEF Prepares, OnePerId, IdsIn
<1>8. Req \notin ops /\ job.next \ job.todo \subseteq objs /\ job.back \ job.todo \subseteq revObjs
  BY <1>1, <1>3 DEF Progress
<1>9. job'.next \ job'.todo \subseteq objs' /\ job'.back \ job'.todo \subseteq revObjs'
  BY <1>1, <1>8
<1>10. job'.pc = "commit" => job'.todo = {}
  BY <1>1
<1>11. Progress'
  BY <1>1, <1>2, <1>3, <1>4, <1>8, <1>9, <1>10 DEF Progress
<1>12. QED
  BY <1>4, <1>5, <1>6, <1>7, <1>11 DEF KeptInv

(* The transaction commits, and the job goes on. *)
LEMMA KeptWritten ==
    ASSUME BaseInv, KeptInv, job.pc = "commit", CommitOutcome(Req) = "applied", Written,
           NEW pc \in {"cache", "recheck"}, Goto(pc),
           UNCHANGED <<objs, revObjs, idx, clock>>
    PROVE  KeptInv'
<1> USE DEF BaseInv
<1>0. /\ clock \in Nat /\ TypeOK
      /\ \A k \in mem \cup idx \cup replaced \cup job.next : k.id \in Nat /\ k.stamp \in Nat
      /\ \A v \in revs \cup job.back : v.at \in Nat
  BY BoundsAssumption, JobTyped DEF TypeOK, Body, Revision, Stamps
<1>1. /\ job' # NoJob /\ job'.pc = pc /\ job'.next = job.next /\ job'.back = job.back /\ hs' = hs
  BY Gone
<1>2. Req' = Req /\ job # NoJob
  BY <1>1, SameReq DEF NoJob
<1>3. Clocked(clock) /\ Whole /\ ReplacedKept /\ Prepares /\ Progress
  BY <1>2 DEF KeptInv
<1>4. Clocked(clock - 1) /\ job.next \subseteq objs /\ job.back \subseteq revObjs
  BY <1>3 DEF Progress
<1>5. /\ mem' = SetIds(mem, job.next) /\ revs' = revs \cup job.back /\ ops' = ops \cup {Req}
      /\ replaced' = replaced \cup Req.expect
  BY DEF Written, RevisionsSet
<1>6. Req.expect \subseteq mem
  BY CommitApplies
<1>7. /\ mem' = {k \in mem : k.id \notin IdsIn(job.next)} \cup job.next
      /\ \A k \in job.next : k.id \in IdsIn(mem) \cup {clock} /\ k.stamp = clock
  <2>1. \A k \in job.next : k.id \in IdsIn(job.next)
    BY DEF IdsIn
  <2>2. IdsIn(Req.expect) \subseteq IdsIn(mem)
    BY <1>6 DEF IdsIn
  <2>3. QED
    BY <1>3, <1>5, <2>1, <2>2 DEF Prepares, SetIds
<1>8. \A k \in job.next : k.id <= clock
  BY <1>0, <1>3, <1>7 DEF Clocked, IdsIn
<1>9. Clocked(clock)'
  <2>1. \A k \in mem' \cup idx' \cup replaced' : k.id <= clock
    BY <1>3, <1>5, <1>6, <1>7, <1>8 DEF Clocked
  <2>2. \A k \in mem' : k.stamp <= clock
    BY <1>0, <1>3, <1>7 DEF Clocked
  <2>3. \A v \in revs' : v.at <= clock
    BY <1>0, <1>3, <1>5 DEF Clocked, Prepares
  <2>4. QED
    BY <2>1, <2>2, <2>3 DEF Clocked
<1>10. Whole'
  <2>1. OnePerId(mem')
    BY <1>3, <1>7 DEF Whole, OnePerId, Prepares, IdsIn
  <2>2. IdsIn(mem) \subseteq IdsIn(mem')
    BY <1>7 DEF IdsIn
  <2>3. OnePerId(idx') /\ IdsIn(idx') \subseteq IdsIn(mem')
    BY <1>3, <2>2 DEF Whole, OnePerId, IdsIn
  <2>4. mem' \subseteq objs'
    BY <1>3, <1>4, <1>7 DEF Whole
  <2>5. QED
    BY <2>1, <2>3, <2>4 DEF Whole
<1>11. ReplacedKept'
  <2>1. ASSUME NEW k \in replaced', k.id \in IdsIn(mem')
        PROVE  \E v \in revs' \cap revObjs' : v.body = k
    <3>1. CASE k \in Req.expect
      BY <1>3, <1>4, <1>5, <3>1 DEF Prepares
    <3>2. CASE k \in replaced
      <4>1. k.id # clock
        BY <1>0, <1>4, <3>2 DEF Clocked
      <4>2. k.id \in IdsIn(mem)
        BY <1>7, <2>1, <4>1 DEF IdsIn
      <4>3. QED
        BY <1>3, <1>5, <3>2, <4>2 DEF ReplacedKept
    <3>3. QED
      BY <1>5, <2>1, <3>1, <3>2
  <2>2. QED
    BY <2>1 DEF ReplacedKept
<1>12. Prepares'
  BY <1>1, <1>2, <1>3 DEF Prepares, OnePerId, IdsIn
<1>13. Progress'
  BY <1>1, <1>2, <1>5, <1>7 DEF Progress
<1>14. QED
  BY <1>9, <1>10, <1>11, <1>12, <1>13 DEF KeptInv

(* What is cleaned up after a failure led nowhere. *)
LEMMA KeptCleanUp ==
    ASSUME BaseInv, KeptInv, job # NoJob, Req \notin ops, CleanUp, job' = NoJob,
           UNCHANGED <<mem, revs, idx, clock, replaced>>
    PROVE  KeptInv'
<1>0. /\ clock \in Nat
      /\ \A k \in mem : k.stamp \in Nat
      /\ \A v \in revs : v.at \in Nat
  BY BoundsAssumption DEF BaseInv, TypeOK, Body, Revision, Stamps
<1>1. Clocked(clock) /\ Whole /\ ReplacedKept /\ Prepares /\ Clocked(clock - 1)
  BY DEF KeptInv, Progress
<1>2. /\ \A k \in mem : k \notin job.next
      /\ \A v \in revs : v \notin job.back
  BY <1>0, <1>1 DEF Clocked, Prepares
<1>3. objs' = objs \ (job.next \ job.todo) /\ revObjs' = revObjs \ (job.back \ job.todo)
  BY DEF CleanUp
<1>4. Whole'
  BY <1>1, <1>2, <1>3 DEF Whole, OnePerId, IdsIn
<1>5. ReplacedKept'
  BY <1>1, <1>2, <1>3 DEF ReplacedKept, IdsIn
<1>6. Clocked(clock)'
  BY <1>1 DEF Clocked
<1>7. QED
  BY <1>4, <1>5, <1>6 DEF KeptInv

(* The index takes what was committed, or is rebuilt, or stays. *)
LEMMA KeptIndexed ==
    ASSUME BaseInv, KeptInv, job' = NoJob,
           UNCHANGED <<mem, revs, objs, revObjs, clock, replaced>>,
           \/ Rebuild \/ idx' = idx
           \/ idx' = SetIds(idx, job.next) /\ job # NoJob /\ Req \in ops
    PROVE  KeptInv'
<1>1. Clocked(clock) /\ Whole /\ ReplacedKept
  BY DEF KeptInv
<1>2. OnePerId(idx') /\ IdsIn(idx') \subseteq IdsIn(mem)
  <2>1. CASE Rebuild \/ idx' = idx
    <3>1. CASE Rebuild
      <4>1. idx' \subseteq mem /\ OnePerId(mem)
        BY <1>1, <3>1, RebuiltAll DEF Whole
      <4>2. QED
        BY <4>1 DEF OnePerId, IdsIn
    <3>2. QED
      BY <1>1, <2>1, <3>1 DEF Whole
  <2>2. CASE idx' = SetIds(idx, job.next) /\ job # NoJob /\ Req \in ops
    <3>1. job.next \subseteq mem
      BY <2>2 DEF KeptInv, Progress
    <3>2. QED
      BY <1>1, <2>2, <3>1 DEF Whole, OnePerId, SetIds, IdsIn
  <2>3. QED
    BY <2>1, <2>2
<1>3. Whole'
  BY <1>1, <1>2 DEF Whole, OnePerId, IdsIn
<1>4. \A k \in idx' : k.id <= clock
  BY <1>1, <1>2 DEF Clocked, IdsIn
<1>5. Clocked(clock)'
  BY <1>1, <1>4 DEF Clocked
<1>6. ReplacedKept'
  BY <1>1 DEF ReplacedKept, IdsIn
<1>7. QED
  BY <1>3, <1>5, <1>6 DEF KeptInv

(* Nothing happens to the job but that it goes on. *)
LEMMA KeptGoto ==
    ASSUME BaseInv, KeptInv, job.pc \in {"commit", "cache"}, Goto("recheck"),
           UNCHANGED <<mem, revs, ops, objs, idx, revObjs, clock, replaced>>
    PROVE  KeptInv'
<1>1. /\ job' # NoJob /\ job'.pc = "recheck" /\ job'.next = job.next /\ job'.back = job.back
      /\ hs' = hs
  BY Gone DEF BaseInv
<1>2. Req' = Req /\ job # NoJob
  BY <1>1, SameReq DEF NoJob
<1>3. Clocked(clock) /\ Whole /\ ReplacedKept /\ Prepares /\ Progress
  BY <1>2 DEF KeptInv
<1>4. Clocked(clock)' /\ Clocked(clock - 1)' = Clocked(clock - 1)
  BY <1>3 DEF Clocked
<1>5. Whole' /\ ReplacedKept'
  BY <1>3 DEF Whole, OnePerId, IdsIn, ReplacedKept
<1>6. Prepares'
  BY <1>1, <1>2, <1>3 DEF Prepares, OnePerId, IdsIn
<1>7. Progress'
  BY <1>1, <1>2, <1>3, <1>4 DEF Progress
<1>8. QED
  BY <1>4, <1>5, <1>6, <1>7 DEF KeptInv

(* Asked whether its operation is on record, the transaction tells. *)
LEMMA OnRecord ==
    ASSUME NEW r
    PROVE  CheckOperation(r) = "already_applied" <=> r \in ops
BY DEF CheckOperation

(* The ways a job ends, when every answer that is lost is asked for. *)
Ends ==
    \/ /\ Req \notin ops /\ CleanUp
       /\ \E out : out \notin Successes /\ Finish(out)
       /\ UNCHANGED <<mem, revs, idx>>
    \/ /\ job.pc = "cache" /\ (Rebuild \/ idx' = SetIds(idx, job.next)) /\ Finish("applied")
       /\ UNCHANGED <<mem, revs, objs, revObjs>>
    \/ /\ Reindexed(Holder, "already_applied") /\ job' = NoJob
       /\ UNCHANGED <<mem, revs, objs, revObjs>>

LEMMA JobGoesOn ==
    ASSUME BaseInv, KeptInv, Faults \cap {"retry", "check"} = {},
           Commit \/ CommitFails \/ UploadFails \/ WriteCache \/ CacheFails \/ Recheck
    PROVE  /\ job # NoJob /\ UNCHANGED clock
           /\ \/ Ends /\ replaced' = replaced
              \/ /\ job.pc = "commit" /\ CommitOutcome(Req) = "applied" /\ Written
                 /\ \E pc \in {"cache", "recheck"} : Goto(pc)
                 /\ UNCHANGED <<objs, revObjs, idx>>
              \/ /\ job.pc \in {"commit", "cache"} /\ Goto("recheck")
                 /\ UNCHANGED <<mem, revs, ops, objs, idx, revObjs, replaced>>
<1>0. job # NoJob /\ UNCHANGED clock
  BY JobCases
<1>1. Progress
  BY <1>0 DEF KeptInv
<1>2. "error" \notin Successes /\ "conflict" \notin Successes
  BY DEF Successes
<1>3. CASE Commit
  <2>1. CASE CommitOutcome(Req) = "applied"
    BY <1>0, <1>3, <2>1 DEF Commit
  <2>2. CASE CommitOutcome(Req) # "applied"
    <3>1. Req \notin ops /\ CleanUp /\ Finish(CommitOutcome(Req))
          /\ UNCHANGED <<mem, revs, idx, replaced>>
      BY <1>1, <1>3, <2>2 DEF Commit, Progress, docs
    <3>2. CheckOperation(Req) # "already_applied"
      BY <3>1, OnRecord
    <3>3. CommitOutcome(Req) = "conflict"
      BY <2>2, <3>2 DEF CommitOutcome, CheckOperation
    <3>4. QED
      BY <1>0, <1>2, <3>1, <3>3 DEF Ends
  <2>3. QED
    BY <2>1, <2>2
<1>4. CASE CommitFails
  BY <1>0, <1>4 DEF CommitFails, docs
<1>5. CASE UploadFails
  <2>1. Req \notin ops
    BY <1>1, <1>5 DEF UploadFails, Progress
  <2>2. QED
    BY <1>0, <1>2, <1>5, <2>1 DEF UploadFails, Ends, docs
<1>6. CASE WriteCache \/ CacheFails
  BY <1>0, <1>6 DEF WriteCache, CacheFails, Ends, docs
<1>7. CASE Recheck
  <2>1. /\ \/ Reindexed(Holder, "already_applied") /\ job' = NoJob /\ UNCHANGED <<objs, revObjs>>
           \/ /\ CheckOperation(Req) # "already_applied"
              /\ CleanUp /\ idx' = idx /\ Finish("error")
        /\ UNCHANGED <<mem, revs, replaced>>
    BY <1>7 DEF Recheck, docs
  <2>2. QED
    BY <1>0, <1>2, <2>1, OnRecord DEF Ends
<1>8. QED
  BY <1>3, <1>4, <1>5, <1>6, <1>7

LEMMA KeptJob ==
    ASSUME BaseInv, KeptInv, Faults \cap {"retry", "check"} = {},
           Commit \/ CommitFails \/ UploadFails \/ WriteCache \/ CacheFails \/ Recheck
    PROVE  KeptInv'
<1>0. /\ job # NoJob /\ UNCHANGED clock
      /\ \/ Ends /\ replaced' = replaced
         \/ /\ job.pc = "commit" /\ CommitOutcome(Req) = "applied" /\ Written
            /\ \E pc \in {"cache", "recheck"} : Goto(pc)
            /\ UNCHANGED <<objs, revObjs, idx>>
         \/ /\ job.pc \in {"commit", "cache"} /\ Goto("recheck")
            /\ UNCHANGED <<mem, revs, ops, objs, idx, revObjs, replaced>>
  BY JobGoesOn
<1>1. CASE Ends /\ replaced' = replaced
  <2>1. job' = NoJob
    BY <1>1 DEF Ends, Finish
  <2>2. CASE Req \notin ops /\ CleanUp /\ UNCHANGED <<mem, revs, idx>>
    BY <1>0, <1>1, <2>1, <2>2, KeptCleanUp
  <2>3. CASE /\ job.pc = "cache" /\ (Rebuild \/ idx' = SetIds(idx, job.next))
             /\ UNCHANGED <<mem, revs, objs, revObjs>>
    <3>1. Req \in ops
      BY <1>0, <2>3 DEF KeptInv, Progress
    <3>2. QED
      BY <1>0, <1>1, <2>1, <2>3, <3>1, KeptIndexed
  <2>4. CASE Reindexed(Holder, "already_applied") /\ UNCHANGED <<mem, revs, objs, revObjs>>
    <3>1. Rebuild \/ idx' = idx
      BY <2>4 DEF Reindexed
    <3>2. QED
      BY <1>0, <1>1, <2>1, <2>4, <3>1, KeptIndexed
  <2>5. QED
    BY <1>1, <2>2, <2>3, <2>4 DEF Ends
<1>2. CASE /\ job.pc = "commit" /\ CommitOutcome(Req) = "applied" /\ Written
           /\ \E pc \in {"cache", "recheck"} : Goto(pc)
           /\ UNCHANGED <<objs, revObjs, idx>>
  BY <1>0, <1>2, KeptWritten
<1>3. CASE /\ job.pc \in {"commit", "cache"} /\ Goto("recheck")
           /\ UNCHANGED <<mem, revs, ops, objs, idx, revObjs, replaced>>
  BY <1>0, <1>3, KeptGoto
<1>4. QED
  BY <1>0, <1>1, <1>2, <1>3

LEMMA KeptCrash ==
    ASSUME BaseInv, KeptInv, Crash
    PROVE  KeptInv'
<1>1. /\ job' = NoJob /\ Rebuild
      /\ UNCHANGED <<mem, revs, objs, revObjs, clock, replaced>>
  BY DEF Crash, docs
<1>2. QED
  BY <1>1, KeptIndexed

(* Unless a transaction is repeated after it committed, or the question     *)
(* after a failed commit fails too (cloud-service.ts:1129, 1146), every     *)
(* memory has its body, what a mutation replaced stays kept, and what the   *)
(* mutation in flight has uploaded is still there when it commits.          *)
THEOREM KeptStays ==
    ASSUME Faults \cap {"retry", "check"} = {}
    PROVE  Spec => []KeptInv
<1>1. BaseInv /\ KeptInv /\ [Next]_vars => KeptInv'
  <2> SUFFICES ASSUME BaseInv, KeptInv, [Next]_vars
               PROVE  KeptInv'
    OBVIOUS
  <2>1. CASE Users
    BY <2>1, KeptUsers
  <2>2. CASE Runner \/ \E h \in Handlers : Screen(h) \/ ClearObservation(h)
    BY <2>2, KeptHandlers
  <2>3. CASE \E h \in Handlers : Begin(h)
    BY <2>3, KeptBegin
  <2>4. CASE \E k \in job.todo : Upload(k)
    BY <2>4, KeptUpload
  <2>5. CASE UploadFails \/ Commit \/ CommitFails \/ WriteCache \/ CacheFails \/ Recheck
    BY <2>5, KeptJob
  <2>6. CASE Crash
    BY <2>6, KeptCrash
  <2>7. CASE UNCHANGED vars
    BY <2>7, SameReq, KeptSame DEF vars, docs
  <2>8. QED
    BY <2>1, <2>2, <2>3, <2>4, <2>5, <2>6, <2>7 DEF Next, Service
<1>2. QED
  BY <1>1, KeptInit, BaseStays, PTL DEF Spec

(* What automation replaced can be restored, as long as its memory exists, *)
(* through edits, forgotten memories, failures and crashes, if no answer   *)
(* of a transaction is lost for good.                                      *)
THEOREM ReplacedStaysKept ==
    ASSUME Faults \cap {"retry", "check"} = {}
    PROVE  Spec => []ReplacedKept
<1>1. KeptInv => ReplacedKept
  BY DEF KeptInv
<1>2. QED
  BY <1>1, KeptStays, PTL

-----------------------------------------------------------------------------
(* Success is visible.                                                     *)

(* The handler h is told of success, or goes on to clear its observation.  *)
Succeeds(h) ==
    /\ hs[h].stage \in {"queue", "hold"}
    /\ hs'[h].stage = "clear" \/ hs'[h].success

(* No handler is told of success but by the end of a job, and by a start   *)
(* that finds its operation on record.                                     *)
LEMMA SuccessComes ==
    ASSUME BaseInv, KeptInv, Faults \cap {"retry", "check"} = {}, [Next]_vars,
           NEW h \in Handlers, Succeeds(h)
    PROVE  \/ job = NoJob /\ mem' = mem /\ Reindexed(h, "already_applied")
           \/ job # NoJob /\ h = Holder /\ Ends
<1> USE DEF BaseInv
<1>0. hs'[h] # hs[h] /\ ~hs[h].success /\ hs[h].stage # "clear"
  BY DEF Succeeds, Held
<1>1. CASE Users
  BY <1>0, <1>1, UsersTyped
<1>2. CASE Runner
  <2>1. CASE \E k \in mem : Snapshot(k)
    BY <1>0, <2>1 DEF Snapshot
  <2>2. CASE \E g \in Handlers : \E r : Arrive(g, r)
    <3>1. PICK g \in Handlers : \E r : Arrive(g, r)
      BY <2>2
    <3>2. g # h /\ \A i \in Handlers \ {g} : hs'[i] = hs[i]
      BY <3>1 DEF Arrive, TypeOK, Succeeds
    <3>3. QED
      BY <1>0, <3>2
  <2>3. QED
    BY <1>2, <2>1, <2>2 DEF Runner, Propose, Repeat
<1>3. CASE \E g \in Handlers : Screen(g) \/ ClearObservation(g)
  <2>1. PICK g \in Handlers : Screen(g) \/ ClearObservation(g)
    BY <1>3
  <2>2. g # h /\ ((\E out : Answer(g, out)) \/ Move(g, "queue"))
    BY <2>1 DEF Screen, ClearObservation, Succeeds
  <2>3. hs'[h] = hs[h]
    BY <2>2, Answered, Moved DEF Stages
  <2>4. QED
    BY <1>0, <2>3
<1>4. CASE \E g \in Handlers : Begin(g)
  <2>1. PICK g \in Handlers : Begin(g)
    BY <1>4
  <2>2. /\ job = NoJob /\ mem' = mem
        /\ \/ Reindexed(g, "already_applied")
           \/ \E out : out \notin Successes /\ Answer(g, out)
           \/ Starts(g)
    BY <2>1, BeginCases
  <2>3. (\E out : Answer(g, out)) \/ Move(g, "hold")
    BY <2>2 DEF Reindexed, Starts
  <2>4. g = h
    BY <1>0, <2>3, Answered, Moved DEF Stages
  <2>5. ~\E out : out \notin Successes /\ Answer(h, out)
    BY Answered DEF Succeeds
  <2>6. ~Move(h, "hold")
    BY <1>0, Moved DEF Stages, Succeeds
  <2>7. QED
    BY <2>2, <2>4, <2>5, <2>6 DEF Starts
<1>5. CASE \E k \in job.todo : Upload(k)
  BY <1>0, <1>5, Uploaded
<1>6. CASE UploadFails \/ Commit \/ CommitFails \/ WriteCache \/ CacheFails \/ Recheck
  <2>1. /\ job # NoJob
        /\ Ends \/ \E pc \in {"cache", "recheck"} : Goto(pc)
    BY <1>6, JobGoesOn
  <2>2. Ends
    BY <1>0, <2>1, Gone
  <2>3. (\E out : Finish(out)) \/ \E out : Answer(Holder, out)
    BY <2>2 DEF Ends, Reindexed
  <2>4. h = Holder
    BY <1>0, <2>1, <2>3, Finished, Answered, Holding
  <2>5. QED
    BY <2>1, <2>2, <2>4
<1>7. CASE Crash
  BY <1>7 DEF Crash, NoHandler, Succeeds
<1>8. CASE UNCHANGED vars
  BY <1>0, <1>8 DEF vars
<1>9. QED
  BY <1>1, <1>2, <1>3, <1>4, <1>5, <1>6, <1>7, <1>8 DEF Next, Service

(* Who is told that a change was made finds it in the index: each memory   *)
(* of the request has there the body that the metadata point to, or, where *)
(* a rebuild could not read that body, no row; no older row is left.       *)
THEOREM SuccessAlwaysVisible ==
    ASSUME Faults \cap {"retry", "check"} = {}
    PROVE  Spec => SuccessIsVisible
<1> DEFINE Visible(k) == k \in idx' \/ ("read" \in Faults /\ k.id \notin IdsIn(idx'))
<1>0. ASSUME Whole, Rebuild, NEW k \in mem
      PROVE  Visible(k)
  <2>1. /\ \A l \in idx' : l \in mem
        /\ "read" \notin Faults => idx' = mem
        /\ \A l \in mem : l.id = k.id => l = k
    BY <1>0, RebuiltAll DEF Whole, OnePerId
  <2>2. QED
    BY <1>0, <2>1 DEF IdsIn
<1>1. ASSUME BaseInv, KeptInv, [Next]_vars, NEW h \in Handlers, Succeeds(h),
             NEW k \in mem', k.id \in IdsIn(hs[h].req.expect \cup job.next)
      PROVE  Visible(k)
  <2>1. Whole
    BY <1>1 DEF KeptInv
  <2>2. ASSUME NEW g \in Handlers, Reindexed(g, "already_applied"), mem' = mem, g = h
        PROVE  Visible(k)
    <3>1. Rebuild \/ Answer(h, "error")
      BY <2>2 DEF Reindexed
    <3>2. ~Answer(h, "error")
      <4>1. "error" \notin Successes
        BY DEF Successes
      <4>2. QED
        BY <1>1, <4>1, Answered DEF BaseInv, Succeeds
    <3>3. QED
      BY <1>0, <1>1, <2>1, <2>2, <3>1, <3>2
  <2>3. CASE job = NoJob /\ mem' = mem /\ Reindexed(h, "already_applied")
    BY <2>2, <2>3
  <2>4. CASE job # NoJob /\ h = Holder /\ Ends
    <3>1. Prepares /\ Progress
      BY <1>1, <2>4 DEF KeptInv
    <3>2. CASE Reindexed(Holder, "already_applied") /\ mem' = mem
      BY <2>2, <2>4, <3>2
    <3>3. CASE \E out : out \notin Successes /\ Finish(out)
      <4>1. "applied" \in Successes
        BY DEF Successes
      <4>2. QED
        BY <1>1, <2>4, <3>3, <4>1, Finished DEF BaseInv, Succeeds
    <3>4. CASE job.pc = "cache" /\ (Rebuild \/ idx' = SetIds(idx, job.next)) /\ mem' = mem
      <4>1. job.next \subseteq mem
        BY <3>1, <3>4 DEF Progress
      <4>2. hs[h].req = Req
        BY <2>4 DEF Req
      <4>3. k.id \in IdsIn(job.next)
        BY <1>1, <3>1, <4>2 DEF Prepares, IdsIn
      <4>4. k \in job.next
        BY <1>1, <2>1, <3>4, <4>1, <4>3 DEF Whole, OnePerId, IdsIn
      <4>5. QED
        BY <1>0, <1>1, <2>1, <3>4, <4>4 DEF SetIds
    <3>5. QED
      BY <2>4, <3>2, <3>3, <3>4 DEF Ends
  <2>5. QED
    BY <1>1, <2>3, <2>4, SuccessComes
<1>2. BaseInv /\ KeptInv /\ [Next]_vars =>
          [\A h \in Handlers :
              /\ hs[h].stage \in {"queue", "hold"}
              /\ hs'[h].stage = "clear" \/ hs'[h].success
              => \A k \in mem' :
                    k.id \in IdsIn(hs[h].req.expect \cup job.next) =>
                        \/ k \in idx'
                        \/ "read" \in Faults /\ k.id \notin IdsIn(idx')]_vars
  BY <1>1 DEF Succeeds
<1>3. QED
  BY <1>2, BaseStays, KeptStays, PTL DEF Spec, SuccessIsVisible

=============================================================================
