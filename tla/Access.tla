------------------------------- MODULE Access -------------------------------
(***************************************************************************)
(* Who may do what: the members of one project, the personal access tokens *)
(* (PATs) of its users, and the web handlers that change them.  A handler  *)
(* is a sequence of store calls without a transaction around them, and     *)
(* handlers of several requests interleave between the calls: those of a   *)
(* local server, and those of two revisions while one replaces the other.  *)
(*                                                                         *)
(* McpRequests adds the requests that MCP clients make with the tokens.    *)
(***************************************************************************)
EXTENDS Integers, FiniteSets, Sequences

CONSTANTS
    Users,
    Founders,       \* users who may have founded the project already
    Curator,        \* LTM_CURATOR_USER_ID
    Workloads,      \* numbered sets of requests; those of one set meet in a behaviour
    MaxRequests,    \* bound: requests in a behaviour
    None

ASSUME UsersAssumption == Curator \in Users /\ Founders \subseteq Users
ASSUME BoundAssumption == MaxRequests \in Nat

Requests == 1..MaxRequests      \* in the order of their arrival
Stores == {"sqlite", "firestore"}
Roles == {"owner", "member"}

(* Signing in, and who signed in, is Firebase's: a web request carries its  *)
(* user.  A tool call is on behalf of a PAT, an OAuth token (see OAuth) or  *)
(* the automation credential; keyed: it has LTM_MAINTENANCE_TOKEN.          *)
WebAsk == [op: {"create", "newpat", "revokepat"}, by: Users]
    \cup [op: {"add", "role"}, by: Users, whom: Users, role: Roles]
    \cup [op: {"remove"}, by: Users, whom: Users]
ToolCall == [op: {"tool"}, by: Users, cred: {"pat", "oauth", "automation"},
             on: {"project", "shared"}, need: {"read", "write", "maintain"},
             keyed: BOOLEAN, curation: BOOLEAN]

(* The expiry of a token is left out: it only makes fewer tokens usable. *)
Pat == [used: BOOLEAN, revoked: BOOLEAN]

(* What a request is answered: a status, the JSON-RPC error 32000, or what  *)
(* the tool of a request says.                                             *)
Status(code) == <<"status", code>>
TimedOut == <<"error", 32000>>
Said(n) == <<"tool", n>>
Answers == {Status(code) : code \in 200..500} \cup {TimedOut} \cup {Said(n) : n \in Requests}

ASSUME WorkloadsAssumption ==
    \A w \in DOMAIN Workloads : Workloads[w] \subseteq WebAsk \cup ToolCall
ASSUME NoneAssumption ==
    None \notin Users \cup Roles \cup WebAsk \cup ToolCall \cup Pat \cup Requests \cup Answers

VARIABLES
    store,
    project,    \* owner_user_id of the project, None before it is created
    members,    \* its member documents: a role, or None
    pats,       \* one token a user, or None
    workload,
    ask,        \* requests that have arrived
    stage,      \* how far each has come
    answer,     \* what it was answered
    seen,       \* history: what has been true since the request arrived
    acted,      \* history: requests that changed what they were to change
    overlap     \* history: two changes of the members overlapped

directory == <<project, members, pats>>
requests == <<ask, stage, answer>>
history == <<seen, acted, overlap>>

NewPat == [used |-> FALSE, revoked |-> FALSE]

Owners == {u \in Users : members[u] = "owner"}

(* No project and no tokens; or founded by one user, who is still an owner, *)
(* with others in it or not, and a token for each.                         *)
AccessInit ==
    /\ store \in Stores
    /\ project \in Founders \cup {None}
    /\ members \in [Users -> Roles \cup {None}]
    /\ IF project = None THEN \A u \in Users : members[u] = None
                         ELSE members[project] = "owner"
    /\ pats = [u \in Users |-> IF project = None THEN None ELSE NewPat]
    /\ workload \in DOMAIN Workloads
    /\ ask = [n \in Requests |-> None]
    /\ stage = [n \in Requests |-> "none"]
    /\ answer = [n \in Requests |-> None]
    /\ seen = [n \in Requests |-> {}]
    /\ acted = {} /\ overlap = FALSE

-----------------------------------------------------------------------------
(* History.  What entitles a request is said once, apart from the guards   *)
(* the code has: its credential was good, and its user had the role.       *)

Usable(p) == p # None /\ ~p.revoked

Authentic(a) == a.op = "tool" /\ a.cred = "pat" => Usable(pats[a.by])

Entitled(a) ==
    \/ a.op \in {"create", "newpat", "revokepat"}
    \/ a.op \in {"add", "role", "remove"} /\ members[a.by] = "owner"
    \/ a.op = "tool" /\ \/ a.cred = "automation" /\ a.on = "project" /\ a.need = "maintain"
                        \/ a.cred # "automation" /\ a.on = "shared"
                           /\ (a.need = "read" \/ (a.keyed /\ a.cred = "pat" /\ a.by = Curator))
                        \/ a.cred # "automation" /\ a.on = "project"
                           /\ members[a.by] \in IF a.need = "maintain" THEN {"owner"} ELSE Roles

Truths(a) == (IF Authentic(a) THEN {"authentic"} ELSE {})
                \cup (IF Entitled(a) THEN {"entitled"} ELSE {})

MemberOps == {"add", "role", "remove"}
InHand(n) == stage[n] \notin {"none", "done"}
Changing(n) == InHand(n) /\ ask[n].op \in MemberOps

(* An answer ends a request, except that a tool outlives its time-out. *)
Watched(n) ==
    ask[n] # None /\ n \notin acted /\ (stage[n] = "done" => answer[n] = TimedOut)

(* Part of every step that changes the directory or lets a request in. *)
Witnessed ==
    /\ seen' = [n \in Requests |->
                    seen[n] \cup IF (Watched(n))' THEN (Truths(ask[n]))' ELSE {}]
    /\ overlap' = (overlap \/ \E m, n \in Requests :
                        m # n /\ (Changing(m) /\ Changing(n))')

-----------------------------------------------------------------------------
(* The two stores, call by call.  A member is a row of project_members in   *)
(* one, a document in the other.                                           *)

Create(u) ==
    /\ project' = u
    /\ members' = [members EXCEPT ![u] = "owner"]

(* INSERT and its primary key; set of a document. *)
AddAccepts(u) == store = "sqlite" => members[u] = None
Add(u, role) == members' = [members EXCEPT ![u] = role]

(* UPDATE of no row does nothing; update of no document throws. *)
SetRoleAccepts(u) == store = "firestore" => members[u] # None
SetRole(u, role) ==
    members' = [members EXCEPT ![u] = IF @ = None THEN None ELSE role]

RemoveMember(u) == members' = [members EXCEPT ![u] = None]

(* Mutant: touchToken writes the record back that was found usable. *)
TouchedWhole(p) == [p EXCEPT !.used = TRUE, !.revoked = FALSE]

Touched(p) == [p EXCEPT !.used = TRUE]
MarkedRevoked(p) == [p EXCEPT !.revoked = TRUE]

-----------------------------------------------------------------------------
(* Web handlers.                                                           *)

Arrive(n, a, first) ==
    /\ stage[n] = "none"
    /\ \A m \in 1..(n - 1) : stage[m] # "none"
    /\ a \in Workloads[workload]
    /\ ask' = [ask EXCEPT ![n] = a]
    /\ stage' = [stage EXCEPT ![n] = first]

Go(n, next) == stage' = [stage EXCEPT ![n] = next] /\ UNCHANGED <<ask, answer>>

Answer(n, what) ==
    /\ stage' = [stage EXCEPT ![n] = "done"]
    /\ answer' = [answer EXCEPT ![n] = what]
    /\ UNCHANGED ask

Acts(n) == acted' = acted \cup {n}

WebArrive(n, a) ==
    /\ a \in WebAsk
    /\ Arrive(n, a, IF a.op \in MemberOps THEN "owner?" ELSE a.op)
    /\ UNCHANGED <<store, directory, workload, answer, acted>> /\ Witnessed

(* requireOwner.  It reads the membership twice, for assertProjectAccess    *)
(* and for the role; the second read decides.                              *)
AfterOwner(a) ==
    CASE a.op = "add" -> "existing?"
      [] a.op = "role" /\ a.role = "owner" -> "change"
      [] OTHER -> "owner whom?"

RequireOwner(n) ==
    /\ stage[n] = "owner?"
    /\ IF members[ask[n].by] = "owner" THEN Go(n, AfterOwner(ask[n]))
                                       ELSE Answer(n, Status(403))
    /\ UNCHANGED <<store, directory, workload, acted>> /\ Witnessed

(* The check before addMember: nothing to do for one who has the role. *)
LookForExisting(n) ==
    LET now == members[ask[n].whom] IN
    /\ stage[n] = "existing?"
    /\ CASE now = None -> Go(n, "change")
         [] now = ask[n].role -> Answer(n, Status(201))
         [] OTHER -> Answer(n, Status(409))
    /\ UNCHANGED <<store, directory, workload, acted>> /\ Witnessed

(* assertOwnerRemains: the role of the one who is to lose it, then the list *)
(* of the owners.                                                          *)
OwnerRemains1(n) ==
    /\ stage[n] = "owner whom?"
    /\ Go(n, IF members[ask[n].whom] = "owner" THEN "owners?" ELSE "change")
    /\ UNCHANGED <<store, directory, workload, acted>> /\ Witnessed

(* Mutant: the members are counted. *)
EnoughMembers == Cardinality({u \in Users : members[u] # None}) > 1

EnoughOwners == Cardinality(Owners) > 1

OwnerRemains2(n) ==
    /\ stage[n] = "owners?"
    /\ IF EnoughOwners THEN Go(n, "change") ELSE Answer(n, Status(409))
    /\ UNCHANGED <<store, directory, workload, acted>> /\ Witnessed

AddMember(n) ==
    /\ stage[n] = "change" /\ ask[n].op = "add"
    /\ IF AddAccepts(ask[n].whom)
       THEN Add(ask[n].whom, ask[n].role) /\ Acts(n) /\ Answer(n, Status(201))
       ELSE UNCHANGED <<members, acted>> /\ Answer(n, Status(400))
    /\ UNCHANGED <<store, project, pats, workload>> /\ Witnessed

SetMemberRole(n) ==
    /\ stage[n] = "change" /\ ask[n].op = "role"
    /\ IF SetRoleAccepts(ask[n].whom)
       THEN SetRole(ask[n].whom, ask[n].role) /\ Acts(n) /\ Answer(n, Status(200))
       ELSE UNCHANGED <<members, acted>> /\ Answer(n, Status(400))
    /\ UNCHANGED <<store, project, pats, workload>> /\ Witnessed

RemoveTheMember(n) ==
    /\ stage[n] = "change" /\ ask[n].op = "remove"
    /\ RemoveMember(ask[n].whom) /\ Acts(n) /\ Answer(n, Status(204))
    /\ UNCHANGED <<store, project, pats, workload>> /\ Witnessed

(* POST /api/projects: getProject, then the transaction, which looks again. *)
LookForProject(n) ==
    /\ stage[n] = "create"
    /\ IF project = None THEN Go(n, "found") ELSE Answer(n, Status(409))
    /\ UNCHANGED <<store, directory, workload, acted>> /\ Witnessed

CreateAccepts == project = None

CreateProject(n) ==
    /\ stage[n] = "found"
    /\ IF CreateAccepts
       THEN Create(ask[n].by) /\ Acts(n) /\ Answer(n, Status(201))
       ELSE UNCHANGED <<project, members, acted>> /\ Answer(n, Status(400))
    /\ UNCHANGED <<store, pats, workload>> /\ Witnessed

(* A user may have several tokens; they do not touch each other, and one   *)
(* stands for all.                                                         *)
CreatePat(n) ==
    /\ stage[n] = "newpat"
    /\ pats' = [pats EXCEPT ![ask[n].by] = IF @ = None THEN NewPat ELSE @]
    /\ Answer(n, Status(201)) /\ Acts(n)
    /\ UNCHANGED <<store, project, members, workload>> /\ Witnessed

FindPat(n) ==
    /\ stage[n] = "revokepat"
    /\ IF pats[ask[n].by] = None THEN Answer(n, Status(404)) ELSE Go(n, "revoke")
    /\ UNCHANGED <<store, directory, workload, acted>> /\ Witnessed

RevokePat(n) ==
    /\ stage[n] = "revoke"
    /\ pats' = [pats EXCEPT ![ask[n].by] = MarkedRevoked(@)]
    /\ Answer(n, Status(204)) /\ Acts(n)
    /\ UNCHANGED <<store, project, members, workload>> /\ Witnessed

WebStep(n) ==
    \/ RequireOwner(n) \/ LookForExisting(n)
    \/ OwnerRemains1(n) \/ OwnerRemains2(n)
    \/ AddMember(n) \/ SetMemberRole(n) \/ RemoveTheMember(n)
    \/ LookForProject(n) \/ CreateProject(n)
    \/ CreatePat(n) \/ FindPat(n) \/ RevokePat(n)

-----------------------------------------------------------------------------
(* The guards of MCP tools.                                                *)

(* Mutant: to maintain is not kept for owners. *)
MemberHasAccess(u, need) == members[u] \in Roles

(* assertProjectAccess. *)
HasAccess(u, need) ==
    /\ members[u] \in Roles
    /\ need = "maintain" => members[u] = "owner"

(* createProjectAccessGuard for the context of request c: what it lets a    *)
(* call do on a scope.                                                     *)
Guard(c, on, need) ==
    IF c.cred = "automation" THEN on = "project" /\ need = "maintain"
    ELSE IF on = "shared"
    THEN need = "read" \/ (c.keyed /\ c.cred = "pat" /\ c.by = Curator)
    ELSE HasAccess(c.by, need)

=============================================================================
