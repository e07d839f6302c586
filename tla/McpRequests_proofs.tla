-------------------------- MODULE McpRequests_proofs --------------------------
(***************************************************************************)
(* Proofs about McpRequests, and the web handlers of Access within it, for *)
(* any users, requests, stores and modes: who acts had the right to, an    *)
(* answer goes to its own request, revoked tokens stay revoked, and a      *)
(* project keeps an owner while no two changes of its members overlap.     *)
(***************************************************************************)
EXTENDS McpRequests, FiniteSetTheorems, TLAPS

-----------------------------------------------------------------------------
(* The inductive invariants.                                               *)

MemberStages == {"owner?", "existing?", "owner whom?", "owners?", "change"}
McpStages == {"known", "waiting", "sent"}
Stages == MemberStages \cup McpStages
            \cup {"none", "done", "create", "found", "newpat", "revokepat", "revoke"}

(* How far a request can have come, by what it asks. *)
Fits(s, a) ==
    /\ s # "none" => a # None
    /\ s \in MemberStages => a.op \in MemberOps
    /\ s = "existing?" => a.op = "add"
    /\ s \in {"owner whom?", "owners?"} => a.op \in {"role", "remove"}
    /\ s \in {"create", "found"} => a.op = "create"
    /\ s = "newpat" => a.op = "newpat"
    /\ s \in {"revokepat", "revoke"} => a.op = "revokepat"
    /\ s \in McpStages => a.op = "tool"

StageFits(n) ==
    /\ Fits(stage[n], ask[n])
    /\ stage[n] = "revoke" => pats[ask[n].by] # None
    /\ stage[n] = "known" /\ ask[n].cred = "pat" => pats[ask[n].by] # None

(* Tools that have not answered yet. *)
Running(n) == tool[n] \in {"called", "cleared", "acted", "refused"}

(* A request that waits is in the line of its session, and the one that was *)
(* sent is its head: the session is open, has its context, and would give  *)
(* it the next answer.  A tool that outlives its request finds the context *)
(* as it was, because the session is closed and serves no other.           *)
SessionHolds(n) ==
    /\ stage[n] \in {"waiting", "sent"} =>
          /\ session[n] \in Requests
          /\ \E i \in 1..Len(line[session[n]]) : line[session[n]][i] = n
    /\ stage[n] = "sent" =>
          /\ session[n] \notin closed
          /\ line[session[n]][1] = n
          /\ pending[session[n]] = n
          /\ context[session[n]] = n
    /\ Running(n) =>
          /\ session[n] \in Requests
          /\ context[session[n]] = n
          /\ \/ stage[n] = "sent"
             \/ session[n] \in closed /\ stage[n] = "done" /\ answer[n] = TimedOut

SessionInv ==
    /\ TypeOK
    /\ stage \in [Requests -> Stages]
    /\ \A n \in Requests : StageFits(n)
    /\ \A n \in Requests : SessionHolds(n)

(* What has been true of a request that can still act is in seen, and what  *)
(* it has come past is there already.                                      *)
RightsSeen(n) ==
    /\ Watched(n) => Truths(ask[n]) \subseteq seen[n]
    /\ stage[n] \notin {"none", "done"} \/ Running(n) => "authentic" \in seen[n]
    /\ stage[n] \notin McpStages \cup {"none", "done", "owner?"} => "entitled" \in seen[n]
    /\ Running(n) => ask[n].op = "tool"
    /\ tool[n] = "cleared" => "entitled" \in seen[n]
    /\ n \in acted => /\ stage[n] \in {"sent", "done"} /\ tool[n] # "called"
                      /\ {"authentic", "entitled"} \subseteq seen[n]

RightsInv ==
    /\ seen \in [Requests -> SUBSET {"authentic", "entitled"}]
    /\ \A n \in Requests : RightsSeen(n)

(* A change that takes the role of an owner, with its checks behind it.     *)
Takes(n) ==
    /\ stage[n] = "change"
    /\ ask[n].op = "remove" \/ (ask[n].op = "role" /\ ask[n].role # "owner")

(* Alone, it leaves another owner; and a member that is added is not one yet. *)
Prepared(n) ==
    /\ Takes(n) /\ members[ask[n].whom] = "owner" =>
          \E u \in Users : u # ask[n].whom /\ members[u] = "owner"
    /\ stage[n] = "change" /\ ask[n].op = "add" => members[ask[n].whom] # "owner"

ChangesAlone == \A m, n \in Requests : Changing(m) /\ Changing(n) => m = n

OwnersInv ==
    /\ overlap \in BOOLEAN
    /\ project = None =>
          /\ \A u \in Users : members[u] = None
          /\ \A n \in Requests : stage[n] \notin MemberStages \ {"owner?"}
    /\ ~overlap => ChangesAlone /\ \A n \in Requests : Prepared(n)
    /\ OwnerRemains

-----------------------------------------------------------------------------
(* Lines of waiting requests.                                              *)

(* Who joins a line is in it, and nobody else's place changes. *)
LEMMA Joined ==
    ASSUME NEW q \in Seq(Requests), NEW n \in Requests
    PROVE  /\ Append(q, n) \in Seq(Requests)
           /\ Len(Append(q, n)) = Len(q) + 1 /\ Len(q) \in Nat
           /\ Append(q, n)[Len(q) + 1] = n
           /\ \A i \in 1..Len(q) : Append(q, n)[i] = q[i]
  OBVIOUS

(* When the head leaves a line, the others stay in it. *)
LEMMA Left ==
    ASSUME NEW q \in Seq(Requests), NEW n \in Requests, NEW m \in Requests, m # n,
           q[1] = n, NEW i \in 1..Len(q), q[i] = m
    PROVE  \E j \in 1..Len(Tail(q)) : Tail(q)[j] = m
<1>1. i - 1 \in 1..Len(Tail(q))
  OBVIOUS
<1>2. Tail(q)[i - 1] = m
  OBVIOUS
<1>3. QED
  BY <1>1, <1>2

LEMMA TailType ==
    ASSUME NEW q \in Seq(Requests), NEW i \in 1..Len(q)
    PROVE  Tail(q) \in Seq(Requests)
  OBVIOUS

-----------------------------------------------------------------------------
(* What requests ask.                                                      *)

LEMMA AskType ==
    ASSUME TypeOK, NEW n \in Requests, ask[n] # None
    PROVE  /\ ask[n] \in WebAsk \cup ToolCall
           /\ ask[n].by \in Users
           /\ ask[n].op \in MemberOps => ask[n].whom \in Users
           /\ ask[n].op \in {"add", "role"} => ask[n].role \in Roles
           /\ ask[n].op = "tool" => ask[n] \in ToolCall
<1>1. ask[n] \in WebAsk \cup ToolCall
  BY WorkloadsAssumption DEF TypeOK
<1>2. QED
  BY <1>1 DEF WebAsk, ToolCall, MemberOps

(* A request keeps what it asks, and the tokens looked up stay. *)
PatsKept == \A u \in Users : pats[u] # None => pats'[u] # None

LEMMA FitsOn ==
    ASSUME TypeOK, NEW n \in Requests, StageFits(n),
           stage'[n] = stage[n], ask'[n] = ask[n], PatsKept
    PROVE  StageFits(n)'
<1>1. stage[n] \in {"revoke", "known"} => ask[n].by \in Users
  BY AskType DEF StageFits, Fits
<1>2. Fits(stage[n], ask[n])'
  BY DEF StageFits
<1>3. QED
  BY <1>1, <1>2 DEF StageFits, PatsKept

(* A request whose stage, session and tool stay is as well off as before,  *)
(* while nothing changes in the sessions.                                  *)
LEMMA HoldsOn ==
    ASSUME NEW n \in Requests, SessionHolds(n), UNCHANGED mcp,
           stage'[n] = stage[n], answer'[n] = answer[n]
    PROVE  SessionHolds(n)'
  BY DEF SessionHolds, mcp, Running

(* A web handler leaves the sessions alone; it is enough to look at what it *)
(* does to the directory, to its request and to the answer.                *)
LEMMA DirectoryType ==
    ASSUME TypeOK, UNCHANGED mcp, UNCHANGED <<store, workload, ask>>,
           project' \in Users \cup {None}, members' \in [Users -> Roles \cup {None}],
           pats' \in [Users -> Pat \cup {None}],
           answer' \in [Requests -> Answers \cup {None}], acted' \subseteq Requests
    PROVE  TypeOK'
  BY DEF TypeOK, mcp

WebStages == Stages \ (McpStages \cup {"none", "done"})

(* To go on, or to answer, changes the one request.                        *)
LEMMA GoType ==
    ASSUME SessionInv, NEW n \in Requests, NEW next \in Stages, Go(n, next)
    PROVE  /\ stage' = [stage EXCEPT ![n] = next] /\ stage'[n] = next
           /\ stage' \in [Requests -> Stages]
           /\ ask' = ask /\ answer' \in [Requests -> Answers \cup {None}]
           /\ answer' = answer
  BY DEF Go, SessionInv, TypeOK

LEMMA AnswerType ==
    ASSUME SessionInv, NEW n \in Requests, NEW what \in Answers, Answer(n, what)
    PROVE  /\ stage' = [stage EXCEPT ![n] = "done"] /\ stage'[n] = "done"
           /\ stage' \in [Requests -> Stages]
           /\ ask' = ask /\ answer' \in [Requests -> Answers \cup {None}]
           /\ answer' = [answer EXCEPT ![n] = what] /\ answer'[n] = what
           /\ \A m \in Requests \ {n} : answer'[m] = answer[m]
  BY DEF Answer, SessionInv, TypeOK, Stages

(* The answers that are a status are not what a tool says. *)
Statuses == {Status(code) : code \in 200..500}

LEMMA StatusType ==
    /\ Status(200) \in Statuses /\ Status(201) \in Statuses /\ Status(204) \in Statuses
    /\ Status(400) \in Statuses /\ Status(401) \in Statuses /\ Status(403) \in Statuses
    /\ Status(404) \in Statuses /\ Status(409) \in Statuses /\ Status(500) \in Statuses
  BY DEF Statuses

LEMMA AnswerKinds ==
    /\ Statuses \subseteq Answers /\ TimedOut \in Answers
    /\ \A n \in Requests : Said(n) \in Answers
    /\ \A what \in Statuses : \A n \in Requests : what # Said(n) /\ what # TimedOut
    /\ \A m, n \in Requests : Said(m) # TimedOut /\ (Said(m) = Said(n) => m = n)
  BY DEF Answers, Statuses, Status, Said, TimedOut

LEMMA PatType ==
    /\ None \notin Pat
    /\ NewPat \in Pat
    /\ \A p \in Pat : Touched(p) \in Pat /\ MarkedRevoked(p) \in Pat
<1>1. None \notin Pat
  BY NoneAssumption
<1>2. QED
  BY <1>1 DEF NewPat, Pat, Touched, MarkedRevoked

(* What every step of a web handler comes to. *)
WebFrame(n) ==
    /\ stage[n] \in WebStages
    /\ \E next \in WebStages \cup {"done"} : stage' = [stage EXCEPT ![n] = next]
    /\ \A m \in Requests \ {n} : answer'[m] = answer[m]
    /\ answer'[n] = answer[n] \/ answer'[n] \in Statuses
    /\ TypeOK' /\ PatsKept /\ StageFits(n)'
    /\ UNCHANGED <<ask, store, workload>>

DirectoryOK ==
    /\ project' \in Users \cup {None} /\ members' \in [Users -> Roles \cup {None}]
    /\ pats' \in [Users -> Pat \cup {None}] /\ acted' \subseteq Requests
    /\ PatsKept /\ UNCHANGED <<store, workload>>

LEMMA WebGoes ==
    ASSUME SessionInv, NEW n \in Requests, UNCHANGED mcp, DirectoryOK,
           stage[n] \in WebStages, NEW next \in WebStages, Go(n, next),
           Fits(next, ask[n]), next = "revoke" => pats'[ask[n].by] # None
    PROVE  WebFrame(n)
<1>1. /\ stage' = [stage EXCEPT ![n] = next] /\ stage'[n] = next
      /\ ask' = ask /\ answer' \in [Requests -> Answers \cup {None}]
      /\ answer' = answer
  BY GoType DEF WebStages
<1>2. TypeOK'
  BY <1>1, DirectoryType DEF DirectoryOK, SessionInv
<1>3. StageFits(n)'
  <2>1. next # "known"
    BY DEF WebStages, McpStages
  <2>2. Fits(stage[n], ask[n])'
    BY <1>1
  <2>3. QED
    BY <2>1, <2>2, <1>1 DEF StageFits
<1>4. QED
  BY <1>1, <1>2, <1>3 DEF WebFrame, DirectoryOK

LEMMA WebAnswers ==
    ASSUME SessionInv, NEW n \in Requests, UNCHANGED mcp, DirectoryOK,
           stage[n] \in WebStages, NEW what \in Statuses, Answer(n, what)
    PROVE  WebFrame(n)
<1>1. /\ stage' = [stage EXCEPT ![n] = "done"] /\ stage'[n] = "done"
      /\ ask' = ask /\ answer' \in [Requests -> Answers \cup {None}]
      /\ answer'[n] = what /\ \A m \in Requests \ {n} : answer'[m] = answer[m]
  BY AnswerType, AnswerKinds
<1>2. TypeOK'
  BY <1>1, DirectoryType DEF DirectoryOK, SessionInv
<1>3. StageFits(n)'
  <2>1. ask[n] # None
    BY DEF SessionInv, StageFits, Fits, WebStages
  <2>2. QED
    BY <2>1, <1>1 DEF StageFits, Fits, MemberStages, McpStages
<1>4. QED
  BY <1>1, <1>2, <1>3 DEF WebFrame, DirectoryOK

LEMMA WebStepFrame ==
    ASSUME SessionInv, NEW n \in Requests, WebStep(n), UNCHANGED mcp
    PROVE  WebFrame(n)
<1> DEFINE a == ask[n]
<1>0. /\ TypeOK /\ Fits(stage[n], a) /\ stage \in [Requests -> Stages]
      /\ members \in [Users -> Roles \cup {None}] /\ project \in Users \cup {None}
      /\ pats \in [Users -> Pat \cup {None}] /\ acted \subseteq Requests
      /\ stage[n] = "revoke" => pats[a.by] # None
  BY DEF SessionInv, TypeOK, StageFits
<1>1. stage[n] # "none" => /\ a \in WebAsk \cup ToolCall /\ a.by \in Users
                           /\ a.op \in MemberOps => a.whom \in Users
                           /\ a.op \in {"add", "role"} => a.role \in Roles
  BY <1>0, AskType DEF Fits
<1>2. UNCHANGED <<store, directory, workload, acted>> => DirectoryOK
  BY <1>0 DEF directory, DirectoryOK, PatsKept
<1> USE DEF WebStages, Stages, MemberStages, McpStages, Fits, MemberOps
<1>3. CASE RequireOwner(n)
  <2>1. CASE Answer(n, Status(403))
    BY <2>1, <1>3, <1>2, WebAnswers, StatusType DEF RequireOwner
  <2>2. CASE Go(n, AfterOwner(a))
    BY <2>2, <1>0, <1>1, <1>3, <1>2, WebGoes DEF RequireOwner, AfterOwner, Roles
  <2>3. QED
    BY <1>3, <2>1, <2>2 DEF RequireOwner
<1>4. CASE LookForExisting(n)
  <2>1. CASE Answer(n, Status(201)) \/ Answer(n, Status(409))
    BY <2>1, <1>4, <1>2, WebAnswers, StatusType DEF LookForExisting
  <2>2. CASE Go(n, "change")
    BY <2>2, <1>0, <1>1, <1>4, <1>2, WebGoes DEF LookForExisting
  <2>3. QED
    BY <1>4, <2>1, <2>2 DEF LookForExisting
<1>5. CASE OwnerRemains1(n)
  <2>1. CASE Go(n, "owners?")
    BY <2>1, <1>0, <1>1, <1>5, <1>2, WebGoes DEF OwnerRemains1
  <2>2. CASE Go(n, "change")
    BY <2>2, <1>0, <1>1, <1>5, <1>2, WebGoes DEF OwnerRemains1
  <2>3. QED
    BY <1>5, <2>1, <2>2 DEF OwnerRemains1
<1>6. CASE OwnerRemains2(n)
  <2>1. CASE Answer(n, Status(409))
    BY <2>1, <1>6, <1>2, WebAnswers, StatusType DEF OwnerRemains2
  <2>2. CASE Go(n, "change")
    BY <2>2, <1>0, <1>1, <1>6, <1>2, WebGoes DEF OwnerRemains2
  <2>3. QED
    BY <1>6, <2>1, <2>2 DEF OwnerRemains2
<1>7. CASE AddMember(n)
  <2>1. DirectoryOK
    BY <1>7, <1>0, <1>1 DEF AddMember, DirectoryOK, PatsKept, Add, Acts
  <2>2. QED
    BY <2>1, <1>7, WebAnswers, StatusType DEF AddMember
<1>8. CASE SetMemberRole(n)
  <2>1. DirectoryOK
    BY <1>8, <1>0, <1>1 DEF SetMemberRole, DirectoryOK, PatsKept, SetRole, Acts
  <2>2. QED
    BY <2>1, <1>8, WebAnswers, StatusType DEF SetMemberRole
<1>9. CASE RemoveTheMember(n)
  <2>1. DirectoryOK
    BY <1>9, <1>0, <1>1 DEF RemoveTheMember, DirectoryOK, PatsKept, RemoveMember, Acts
  <2>2. QED
    BY <2>1, <1>9, WebAnswers, StatusType DEF RemoveTheMember
<1>10. CASE LookForProject(n)
  <2>1. CASE Answer(n, Status(409))
    BY <2>1, <1>10, <1>2, WebAnswers, StatusType DEF LookForProject
  <2>2. CASE Go(n, "found")
    BY <2>2, <1>0, <1>1, <1>10, <1>2, WebGoes DEF LookForProject
  <2>3. QED
    BY <1>10, <2>1, <2>2 DEF LookForProject
<1>11. CASE CreateProject(n)
  <2>1. DirectoryOK
    BY <1>11, <1>0, <1>1 DEF CreateProject, DirectoryOK, PatsKept, Create, Acts, Roles
  <2>2. QED
    BY <2>1, <1>11, WebAnswers, StatusType DEF CreateProject
<1>12. CASE CreatePat(n)
  <2>1. NewPat \in Pat /\ NewPat # None
    BY PatType
  <2>2. DirectoryOK
    BY <1>12, <1>0, <1>1, <2>1 DEF CreatePat, DirectoryOK, PatsKept, Acts
  <2>3. QED
    BY <2>2, <1>12, WebAnswers, StatusType DEF CreatePat
<1>13. CASE FindPat(n)
  <2>1. CASE Answer(n, Status(404))
    BY <2>1, <1>13, <1>2, WebAnswers, StatusType DEF FindPat
  <2>2. CASE Go(n, "revoke") /\ pats[a.by] # None
    <3>1. pats' = pats
      BY <1>13 DEF FindPat, directory
    <3>2. QED
      BY <2>2, <3>1, <1>0, <1>1, <1>13, <1>2, WebGoes DEF FindPat
  <2>3. QED
    BY <1>13, <2>1, <2>2 DEF FindPat
<1>14. CASE RevokePat(n)
  <2>1. pats[a.by] \in Pat
    BY <1>14, <1>0, <1>1 DEF RevokePat
  <2>2. MarkedRevoked(pats[a.by]) \in Pat /\ MarkedRevoked(pats[a.by]) # None
    BY <2>1, PatType
  <2>3. DirectoryOK
    BY <1>14, <1>0, <1>1, <2>2 DEF RevokePat, DirectoryOK, PatsKept, Acts
  <2>4. QED
    BY <2>3, <1>14, WebAnswers, StatusType DEF RevokePat
<1>15. QED
  BY <1>3, <1>4, <1>5, <1>6, <1>7, <1>8, <1>9, <1>10, <1>11, <1>12, <1>13, <1>14 DEF WebStep

-----------------------------------------------------------------------------
(* The sessions of the other requests, when one request moves.             *)

(* Nothing of the line, the pending request or the context is lost when    *)
(* another joins.                                                          *)
LEMMA OtherJoins ==
    ASSUME SessionInv, NEW n \in Requests, NEW m \in Requests, m # n,
           NEW s \in Requests, line' = [line EXCEPT ![s] = Append(@, n)],
           session' = [session EXCEPT ![n] = s],
           UNCHANGED <<closed, context, pending, tool, answer>>, stage'[m] = stage[m]
    PROVE  SessionHolds(m)'
<1>1. SessionHolds(m) /\ line \in [Requests -> Seq(Requests)] /\ session'[m] = session[m]
  BY DEF SessionInv, TypeOK
<1>2. ASSUME stage[m] \in {"waiting", "sent"}
      PROVE  /\ session[m] \in Requests
             /\ \E i \in 1..Len(line'[session[m]]) : line'[session[m]][i] = m
             /\ line[session[m]][1] = m => line'[session[m]][1] = m
  <2>1. session[m] \in Requests
    BY <1>1, <1>2 DEF SessionHolds
  <2>2. PICK i \in 1..Len(line[session[m]]) : line[session[m]][i] = m
    BY <1>1, <1>2 DEF SessionHolds
  <2>3. CASE session[m] # s
    BY <2>1, <2>2, <2>3, <1>1
  <2>4. CASE session[m] = s
    <3>1. line'[s] = Append(line[s], n) /\ line[s] \in Seq(Requests)
      BY <1>1
    <3>2. 1 \in 1..Len(line[s]) /\ i \in 1..Len(line'[s])
      BY <2>2, <2>4, <3>1, Joined
    <3>3. line'[s][1] = line[s][1] /\ line'[s][i] = line[s][i]
      BY <2>2, <2>4, <3>1, <3>2, Joined
    <3>4. QED
      BY <2>1, <2>2, <2>4, <3>2, <3>3
  <2>5. QED
    BY <2>3, <2>4
<1>3. QED
  BY SMTT(30), <1>1, <1>2 DEF SessionHolds, Running

(* When the head of a line leaves it, and the session is closed or not, the *)
(* others stay as they are: none of them was the head.                     *)
LEMMA HeadLeaves ==
    ASSUME SessionInv, NEW n \in Requests, NEW m \in Requests, m # n,
           NEW s \in Requests, line[s][1] = n, line' = Released(s),
           UNCHANGED <<session, context>>, tool'[m] = tool[m],
           stage'[m] = stage[m], answer'[m] = answer[m],
           \A r \in Requests \ {s} : pending'[r] = pending[r],
           closed \subseteq closed', closed' \subseteq closed \cup {s}
    PROVE  SessionHolds(m)'
<1>1. SessionHolds(m) /\ line \in [Requests -> Seq(Requests)]
  BY DEF SessionInv, TypeOK
<1>2. stage[m] = "sent" => session[m] # s
  BY <1>1 DEF SessionHolds
<1>3. ASSUME stage[m] \in {"waiting", "sent"}
      PROVE  /\ session[m] \in Requests
             /\ \E i \in 1..Len(line'[session[m]]) : line'[session[m]][i] = m
  <2>1. session[m] \in Requests
    BY <1>1, <1>3 DEF SessionHolds
  <2>2. PICK i \in 1..Len(line[session[m]]) : line[session[m]][i] = m
    BY <1>1, <1>3 DEF SessionHolds
  <2>3. CASE session[m] # s
    BY <2>1, <2>2, <2>3, <1>1 DEF Released
  <2>4. CASE session[m] = s
    <3>1. line'[s] = Tail(line[s]) /\ line[s] \in Seq(Requests)
      BY <1>1 DEF Released
    <3>2. QED
      BY <2>1, <2>2, <2>4, <3>1, Left
  <2>5. QED
    BY <2>3, <2>4
<1>4. stage[m] = "sent" => line'[session[m]] = line[session[m]]
  BY <1>1, <1>2 DEF SessionHolds, Released
<1>5. QED
  BY <1>1, <1>2, <1>3, <1>4 DEF SessionHolds, Running

(* A request that runs in no session of its own has no tool. *)
LEMMA Idle ==
    ASSUME SessionInv, NEW n \in Requests, stage[n] \notin {"sent", "done"}
    PROVE  ~Running(n)
  BY DEF SessionInv, SessionHolds

-----------------------------------------------------------------------------
(* SessionInv is inductive.                                                *)

LEMMA SessionInit == Init => SessionInv
<1> SUFFICES ASSUME Init PROVE SessionInv
  OBVIOUS
<1>1. TypeOK
  <2>1. pats \in [Users -> Pat \cup {None}]
    BY PatType DEF Init, AccessInit
  <2>2. project \in Users \cup {None}
    BY UsersAssumption DEF Init, AccessInit
  <2>3. mode \in Modes
    BY DEF Init
  <2>4. QED
    BY <2>1, <2>2, <2>3 DEF Init, AccessInit, TypeOK
<1>2. stage \in [Requests -> Stages]
  BY DEF Init, AccessInit, Stages
<1>3. ASSUME NEW n \in Requests PROVE StageFits(n) /\ SessionHolds(n)
  BY DEF Init, AccessInit, StageFits, Fits, SessionHolds, Running, MemberStages, McpStages
<1>4. QED
  BY <1>1, <1>2, <1>3 DEF SessionInv

LEMMA WebArriveHolds ==
    ASSUME SessionInv, NEW n \in Requests, NEW a \in Workloads[workload],
           WebArrive(n, a), UNCHANGED mcp
    PROVE  SessionInv'
<1> DEFINE first == IF a.op \in MemberOps THEN "owner?" ELSE a.op
<1>1. /\ TypeOK /\ stage \in [Requests -> Stages]
      /\ \A m \in Requests : StageFits(m) /\ SessionHolds(m)
  BY DEF SessionInv
<1>2. /\ ask' = [ask EXCEPT ![n] = a] /\ stage' = [stage EXCEPT ![n] = first]
      /\ stage[n] = "none" /\ a \in WebAsk
      /\ UNCHANGED <<store, directory, workload, answer, acted>>
  BY DEF WebArrive, Arrive
<1>3. /\ a.op \in {"create", "newpat", "revokepat"} \cup MemberOps
      /\ a # None /\ first \in Stages /\ Fits(first, a)
      /\ first \notin {"revoke", "known", "waiting", "sent"}
  BY <1>2, NoneAssumption DEF WebAsk, MemberOps, Stages, MemberStages, McpStages, Fits
<1>4. TypeOK'
  BY <1>1, <1>2 DEF TypeOK, directory, mcp
<1>5. PatsKept
  BY <1>2 DEF PatsKept, directory
<1>6. ASSUME NEW m \in Requests PROVE StageFits(m)' /\ SessionHolds(m)'
  <2>1. CASE m # n
    BY <2>1, <1>1, <1>2, <1>5, FitsOn, HoldsOn DEF TypeOK
  <2>2. CASE m = n
    <3>1. stage'[n] = first /\ ask'[n] = a
      BY <1>1, <1>2 DEF TypeOK
    <3>2. ~Running(n)
      BY <1>2, Idle
    <3>3. ~Running(n)'
      BY <3>2 DEF Running, mcp
    <3>4. StageFits(n)'
      <4>1. Fits(stage[n], ask[n])'
        BY <3>1, <1>3
      <4>2. QED
        BY <3>1, <1>3, <4>1 DEF StageFits
    <3>5. SessionHolds(n)'
      BY <3>1, <3>3, <1>3 DEF SessionHolds
    <3>6. QED
      BY <2>2, <3>4, <3>5
  <2>3. QED
    BY <2>1, <2>2
<1>7. QED
  BY <1>1, <1>2, <1>3, <1>4, <1>6 DEF SessionInv

LEMMA McpArriveHolds ==
    ASSUME SessionInv, NEW n \in Requests, NEW a \in Workloads[workload], McpArrive(n, a)
    PROVE  SessionInv'
<1> DEFINE first == IF Admitted(a) THEN "known" ELSE "done"
<1>1. /\ TypeOK /\ stage \in [Requests -> Stages]
      /\ \A m \in Requests : StageFits(m) /\ SessionHolds(m)
  BY DEF SessionInv
<1>2. /\ ask' = [ask EXCEPT ![n] = a] /\ stage' = [stage EXCEPT ![n] = first]
      /\ stage[n] = "none" /\ a \in ToolCall
      /\ UNCHANGED <<store, directory, workload, acted, mcp>>
  BY DEF McpArrive, Arrive
<1>3. a.op = "tool" /\ a # None /\ first \in Stages /\ Fits(first, a)
  BY <1>2, NoneAssumption DEF ToolCall, Stages, MemberStages, McpStages, Fits
<1>4. answer' \in [Requests -> Answers \cup {None}] /\ \A m \in Requests \ {n} : answer'[m] = answer[m]
  <2>1. Status(IF Authentic(a) THEN 403 ELSE 401) \in Answers
    BY StatusType, AnswerKinds
  <2>2. QED
    BY <2>1, <1>1 DEF McpArrive, TypeOK
<1>5. TypeOK'
  BY <1>1, <1>2, <1>4 DEF TypeOK, directory, mcp
<1>6. PatsKept
  BY <1>2 DEF PatsKept, directory
<1>7. ASSUME NEW m \in Requests PROVE StageFits(m)' /\ SessionHolds(m)'
  <2>1. CASE m # n
    BY <2>1, <1>1, <1>2, <1>4, <1>6, FitsOn, HoldsOn DEF TypeOK
  <2>2. CASE m = n
    <3>1. stage'[n] = first /\ ask'[n] = a
      BY <1>1, <1>2 DEF TypeOK
    <3>2. ~Running(n)
      BY <1>2, Idle
    <3>3. ~Running(n)'
      BY <3>2, <1>2 DEF Running, mcp
    <3>4. StageFits(n)'
      <4>1. Fits(stage[n], ask[n])'
        BY <3>1, <1>3
      <4>2. first = "known" /\ a.cred = "pat" => pats'[a.by] # None
        BY <1>2 DEF Admitted, Usable, directory
      <4>3. QED
        BY <3>1, <4>1, <4>2 DEF StageFits
    <3>5. SessionHolds(n)'
      BY <3>1, <3>3 DEF SessionHolds
    <3>6. QED
      BY <2>2, <3>4, <3>5
  <2>3. QED
    BY <2>1, <2>2
<1>8. QED
  BY <1>1, <1>2, <1>3, <1>5, <1>7 DEF SessionInv

LEMMA WebStepHolds ==
    ASSUME SessionInv, NEW n \in Requests, WebStep(n), UNCHANGED mcp
    PROVE  SessionInv'
<1>1. /\ TypeOK /\ stage \in [Requests -> Stages]
      /\ \A m \in Requests : StageFits(m) /\ SessionHolds(m)
  BY DEF SessionInv
<1>2. WebFrame(n)
  BY WebStepFrame
<1>3. PICK next \in WebStages \cup {"done"} : stage' = [stage EXCEPT ![n] = next]
  BY <1>2 DEF WebFrame
<1>4. /\ stage[n] \notin {"sent", "done"}
      /\ next \notin {"waiting", "sent"} /\ next \in Stages
  BY <1>2 DEF WebFrame, WebStages, McpStages, Stages
<1>5. ASSUME NEW m \in Requests PROVE StageFits(m)' /\ SessionHolds(m)'
  <2>1. CASE m # n
    BY <2>1, <1>1, <1>2, <1>3, FitsOn, HoldsOn DEF WebFrame
  <2>2. CASE m = n
    <3>1. ~Running(n) /\ stage'[n] = next
      BY <1>1, <1>3, <1>4, Idle
    <3>2. ~Running(n)'
      BY <3>1 DEF Running, mcp
    <3>3. QED
      BY <2>2, <3>1, <3>2, <1>2, <1>4 DEF WebFrame, SessionHolds
  <2>3. QED
    BY <2>1, <2>2
<1>6. QED
  BY <1>1, <1>2, <1>3, <1>4, <1>5 DEF SessionInv, WebFrame

(* A session is one of the requests', and one in use is in the cache. *)
LEMMA SessionForType ==
    ASSUME TypeOK, NEW n \in Requests
    PROVE  SessionFor(n) \in Requests
<1> DEFINE found == IF mode = "stateless" THEN {} ELSE Fitting(ask[n])
<1>1. found \subseteq Requests
  BY DEF TypeOK, Fitting
<1>2. found # {} => (CHOOSE s \in found : TRUE) \in found
  OBVIOUS
<1>3. QED
  BY <1>1, <1>2 DEF SessionFor

LEMMA EnterHolds ==
    ASSUME SessionInv, NEW n \in Requests, Enter(n)
    PROVE  SessionInv'
<1> DEFINE s == SessionFor(n)
<1>1. /\ TypeOK /\ stage \in [Requests -> Stages]
      /\ \A m \in Requests : StageFits(m) /\ SessionHolds(m)
  BY DEF SessionInv
<1>2. s \in Requests
  BY <1>1, SessionForType
<1> HIDE DEF s
<1>3. /\ stage[n] = "known" /\ stage' = [stage EXCEPT ![n] = "waiting"]
      /\ session' = [session EXCEPT ![n] = s]
      /\ line' = [line EXCEPT ![s] = Append(@, n)]
      /\ cached' = IF mode = "stateless" THEN cached ELSE cached \cup {s}
      /\ pats' = IF ask[n].cred = "pat" THEN [pats EXCEPT ![ask[n].by] = Touched(@)] ELSE pats
      /\ UNCHANGED <<ask, answer, store, project, members, workload, acted, mode, closed,
                     context, pending, tool>>
  BY DEF Enter, Go, s
<1>4. pats' \in [Users -> Pat \cup {None}] /\ PatsKept
  <2>1. ask[n].cred = "pat" => ask[n].by \in Users /\ pats[ask[n].by] \in Pat
    BY <1>1, <1>3, AskType DEF StageFits, Fits, McpStages, TypeOK
  <2>2. QED
    BY <2>1, <1>1, <1>3, PatType DEF TypeOK, PatsKept
<1>5. TypeOK'
  <2>1. line' \in [Requests -> Seq(Requests)]
    BY <1>1, <1>2, <1>3, Joined DEF TypeOK
  <2>2. cached' \subseteq Requests
    BY <1>1, <1>2, <1>3 DEF TypeOK
  <2>3. QED
    BY <2>1, <2>2, <1>1, <1>2, <1>3, <1>4 DEF TypeOK
<1>6. ASSUME NEW m \in Requests PROVE StageFits(m)' /\ SessionHolds(m)'
  <2>1. CASE m # n
    BY <2>1, <1>1, <1>2, <1>3, <1>4, FitsOn, OtherJoins
  <2>2. CASE m = n
    <3>1. stage'[n] = "waiting" /\ session'[n] = s
      BY <1>1, <1>3 DEF TypeOK
    <3>2. ~Running(n)
      BY <1>3, Idle
    <3>3. ~Running(n)'
      BY <3>2, <1>3 DEF Running
    <3>4. StageFits(n)'
      <4>1. ask[n].op = "tool" /\ ask[n] # None
        BY <1>1, <1>3 DEF StageFits, Fits, McpStages
      <4>2. QED
        BY <3>1, <4>1, <1>3 DEF StageFits, Fits, MemberStages, McpStages
    <3>5. SessionHolds(n)'
      <4>1. line[s] \in Seq(Requests) /\ line'[s] = Append(line[s], n)
        BY <1>1, <1>2, <1>3 DEF TypeOK
      <4>2. Len(line[s]) + 1 \in 1..Len(line'[s]) /\ line'[s][Len(line[s]) + 1] = n
        BY <4>1, Joined
      <4>3. QED
        BY <3>1, <3>3, <4>2, <1>2 DEF SessionHolds
    <3>6. QED
      BY <2>2, <3>4, <3>5
  <2>3. QED
    BY <2>1, <2>2
<1>7. QED
  BY <1>1, <1>3, <1>5, <1>6 DEF SessionInv, Stages, McpStages

(* The line of the session of n, when n is its head, and without it.       *)
LEMMA ReleasedType ==
    ASSUME TypeOK, NEW s \in Requests, NEW i \in 1..Len(line[s])
    PROVE  Released(s) \in [Requests -> Seq(Requests)]
  BY TailType DEF TypeOK, Released

(* What a step in the sessions may change. *)
LEMMA SessionsType ==
    ASSUME TypeOK, UNCHANGED <<store, directory, workload, ask, history, mode, session>>,
           cached' \subseteq Requests, closed' \subseteq Requests,
           line' \in [Requests -> Seq(Requests)],
           context' \in [Requests -> Requests \cup {None}],
           pending' \in [Requests -> Requests \cup {None}],
           answer' \in [Requests -> Answers \cup {None}],
           tool' \in [Requests -> {"none", "called", "cleared", "acted", "refused", "gone"}]
    PROVE  TypeOK'
  BY DEF TypeOK, directory, history

LEMMA SendHolds ==
    ASSUME SessionInv, NEW n \in Requests, Send(n)
    PROVE  SessionInv'
<1> DEFINE s == session[n]
<1>1. /\ TypeOK /\ stage \in [Requests -> Stages]
      /\ \A m \in Requests : StageFits(m) /\ SessionHolds(m)
  BY DEF SessionInv
<1>2. /\ stage[n] = "waiting" /\ Turn(n) /\ s \in Requests
      /\ UNCHANGED <<store, directory, workload, history, mode, session, cached, closed>>
  BY <1>1 DEF Send, SessionHolds
<1>3. PICK i \in 1..Len(line[s]) : line[s][i] = n
  BY <1>1, <1>2 DEF SessionHolds
<1>4. line[s][1] = n /\ line[s] \in Seq(Requests) /\ 1 \in 1..Len(line[s])
  BY <1>1, <1>2, <1>3 DEF TypeOK, Turn
<1>5. PatsKept /\ ask' = ask
  BY <1>2 DEF PatsKept, directory, Send, Go, Answer
<1>6. ask[n].op = "tool" /\ ask[n] # None
  BY <1>1, <1>2 DEF StageFits, Fits, McpStages
<1>7. ~Running(n)
  BY <1>2, Idle
<1>8. CASE s \in closed
  <2>1. /\ Answer(n, Status(500)) /\ line' = Released(s)
        /\ UNCHANGED <<context, pending, tool>>
    BY <1>8 DEF Send
  <2>2. /\ stage' = [stage EXCEPT ![n] = "done"] /\ stage'[n] = "done"
        /\ stage' \in [Requests -> Stages]
        /\ answer' \in [Requests -> Answers \cup {None}]
        /\ \A m \in Requests \ {n} : answer'[m] = answer[m]
    BY <2>1, AnswerType, StatusType, AnswerKinds
  <2>3. TypeOK'
    BY <1>1, <1>2, <1>4, <1>5, <2>1, <2>2, ReleasedType DEF TypeOK, directory, history
  <2>4. ASSUME NEW m \in Requests PROVE StageFits(m)' /\ SessionHolds(m)'
    <3>1. CASE m # n
      <4>1. stage'[m] = stage[m]
        BY <3>1, <1>1, <2>2
      <4>2. StageFits(m)'
        BY <4>1, <1>1, <1>5, FitsOn
      <4>3. SessionHolds(m)'
        BY <3>1, <4>1, <1>2, <1>4, <2>1, <2>2, HeadLeaves
      <4>4. QED
        BY <4>2, <4>3
    <3>2. CASE m = n
      <4>1. ~Running(n)'
        BY <1>7, <2>1 DEF Running
      <4>2. QED
        BY <3>2, <4>1, <2>2, <1>5, <1>6
        DEF StageFits, Fits, MemberStages, McpStages, SessionHolds
    <3>3. QED
      BY <3>1, <3>2
  <2>5. QED
    BY <2>2, <2>3, <2>4 DEF SessionInv
<1>9. CASE s \notin closed
  <2>1. /\ context' = [context EXCEPT ![s] = n] /\ pending' = [pending EXCEPT ![s] = n]
        /\ tool' = [tool EXCEPT ![n] = "called"]
        /\ stage' = [stage EXCEPT ![n] = "sent"]
        /\ line' = line /\ answer' = answer
    BY <1>9 DEF Send, Go
  <2>2. TypeOK'
    BY <1>1, <1>2, <1>5, <2>1 DEF TypeOK, directory, history
  <2>3. ASSUME NEW m \in Requests PROVE StageFits(m)' /\ SessionHolds(m)'
    <3>1. CASE m # n
      <4>1. stage'[m] = stage[m] /\ tool'[m] = tool[m]
        BY <3>1, <1>1, <2>1 DEF TypeOK
      <4>2. StageFits(m)'
        BY <4>1, <1>1, <1>5, FitsOn
      <4>3. stage[m] = "sent" \/ Running(m) => session[m] # s
        BY <3>1, <1>1, <1>4, <1>9 DEF SessionHolds
      <4>4. SessionHolds(m)'
        <5>1. /\ \A r \in Requests \ {s} : context'[r] = context[r] /\ pending'[r] = pending[r]
              /\ UNCHANGED <<session, closed, line, answer>>
          BY <1>1, <1>2, <2>1 DEF TypeOK
        <5>2. SessionHolds(m) /\ (Running(m)' <=> Running(m))
          BY <4>1, <1>1 DEF Running
        <5>3. CASE stage[m] = "sent" \/ Running(m)
          BY <4>1, <4>3, <5>1, <5>2, <5>3 DEF SessionHolds
        <5>4. CASE stage[m] # "sent" /\ ~Running(m)
          BY <4>1, <5>1, <5>2, <5>4 DEF SessionHolds
        <5>5. QED
          BY <5>3, <5>4
      <4>5. QED
        BY <4>2, <4>4
    <3>2. CASE m = n
      <4>1. stage'[n] = "sent" /\ context'[s] = n /\ pending'[s] = n
        BY <1>1, <1>2, <2>1 DEF TypeOK
      <4>2. StageFits(n)'
        BY <4>1, <1>5, <1>6 DEF StageFits, Fits, MemberStages, McpStages
      <4>3. SessionHolds(n)'
        BY <4>1, <1>2, <1>3, <1>4, <1>9, <2>1 DEF SessionHolds, Running
      <4>4. QED
        BY <3>2, <4>2, <4>3
    <3>3. QED
      BY <3>1, <3>2
  <2>4. QED
    BY <1>1, <2>1, <2>2, <2>3 DEF SessionInv, Stages, McpStages
<1>10. QED
  BY <1>8, <1>9

LEMMA TimeoutHolds ==
    ASSUME SessionInv, NEW n \in Requests, Timeout(n)
    PROVE  SessionInv'
<1> DEFINE s == session[n]
<1>1. /\ TypeOK /\ stage \in [Requests -> Stages]
      /\ \A m \in Requests : StageFits(m) /\ SessionHolds(m)
  BY DEF SessionInv
<1>2. /\ stage[n] = "sent" /\ s \in Requests /\ line[s][1] = n /\ context[s] = n
      /\ UNCHANGED <<store, directory, workload, history, mode, session, context, tool>>
  BY <1>1 DEF Timeout, SessionHolds
<1>3. 1 \in 1..Len(line[s])
  <2>1. PICK i \in 1..Len(line[s]) : line[s][i] = n
    BY <1>1, <1>2 DEF SessionHolds
  <2>2. QED
    BY <2>1, <1>1, <1>2 DEF TypeOK
<1>4. /\ cached' = cached \ {s} /\ closed' = closed \cup {s}
      /\ pending' = [pending EXCEPT ![s] = None] /\ line' = Released(s)
      /\ Answer(n, TimedOut)
  BY DEF Timeout, Retired, ClosedNow
<1>5. /\ stage' = [stage EXCEPT ![n] = "done"] /\ stage'[n] = "done"
      /\ stage' \in [Requests -> Stages] /\ ask' = ask
      /\ answer' \in [Requests -> Answers \cup {None}]
      /\ answer' = [answer EXCEPT ![n] = TimedOut]
  <2>1. TimedOut \in Answers
    BY AnswerKinds
  <2>2. QED
    BY <2>1, <1>4, AnswerType
<1>6. TypeOK'
  <2>1. closed' \subseteq Requests /\ cached' \subseteq Requests
    BY <1>1, <1>2, <1>4 DEF TypeOK
  <2>2. line' \in [Requests -> Seq(Requests)]
    BY <1>1, <1>2, <1>3, <1>4, ReleasedType
  <2>3. pending' \in [Requests -> Requests \cup {None}]
    BY <1>1, <1>4 DEF TypeOK
  <2>4. /\ context' \in [Requests -> Requests \cup {None}]
        /\ tool' \in [Requests -> {"none", "called", "cleared", "acted", "refused", "gone"}]
    BY <1>1, <1>2 DEF TypeOK
  <2>5. QED
    BY <1>1, <1>2, <1>5, <2>1, <2>2, <2>3, <2>4, SessionsType
<1>7. PatsKept
  BY <1>2 DEF PatsKept, directory
<1>8. ASSUME NEW m \in Requests PROVE StageFits(m)' /\ SessionHolds(m)'
  <2>1. CASE m # n
    <3>1. stage'[m] = stage[m] /\ answer'[m] = answer[m]
      BY <2>1, <1>1, <1>5 DEF TypeOK
    <3>2. \A r \in Requests \ {s} : pending'[r] = pending[r]
      BY <1>1, <1>4 DEF TypeOK
    <3>3. SessionHolds(m)'
      <4>1. closed \subseteq closed' /\ closed' \subseteq closed \cup {s}
        BY <1>4
      <4>2. tool'[m] = tool[m] /\ UNCHANGED <<session, context>>
        BY <1>2
      <4>3. QED
        BY <2>1, <3>1, <3>2, <4>1, <4>2, <1>2, <1>4, HeadLeaves
    <3>4. QED
      BY <3>1, <3>3, <1>1, <1>5, <1>7, FitsOn
  <2>2. CASE m = n
    <3>1. ask[n] # None /\ answer'[n] = TimedOut
      BY <1>1, <1>2, <1>5 DEF StageFits, Fits, TypeOK
    <3>2. StageFits(n)'
      BY <3>1, <1>5 DEF StageFits, Fits, MemberStages, McpStages
    <3>3. SessionHolds(n)'
      BY <3>1, <1>2, <1>4, <1>5 DEF SessionHolds
    <3>4. QED
      BY <2>2, <3>2, <3>3
  <2>3. QED
    BY <2>1, <2>2
<1>9. QED
  BY <1>5, <1>6, <1>8 DEF SessionInv

(* Check and Serve move a tool that runs, and nothing of its session.      *)
LEMMA ToolRunsOn ==
    ASSUME SessionInv, NEW n \in Requests, Running(n),
           NEW next \in {"cleared", "acted", "refused"}, tool' = [tool EXCEPT ![n] = next],
           UNCHANGED <<store, directory, workload, requests, mode, session,
                       cached, closed, line, context, pending>>, acted' \subseteq Requests
    PROVE  SessionInv'
<1>1. /\ TypeOK /\ stage \in [Requests -> Stages]
      /\ \A m \in Requests : StageFits(m) /\ SessionHolds(m)
  BY DEF SessionInv
<1>2. TypeOK'
  <2>1. tool' \in [Requests -> {"none", "called", "cleared", "acted", "refused", "gone"}]
    BY <1>1 DEF TypeOK
  <2>2. QED
    BY <2>1, <1>1 DEF TypeOK, directory, requests
<1>3. PatsKept
  BY DEF PatsKept, directory
<1>4. ASSUME NEW m \in Requests PROVE StageFits(m)' /\ SessionHolds(m)'
  <2>1. Running(m)' => Running(m)
    BY <1>1 DEF Running, TypeOK
  <2>2. SessionHolds(m)'
    BY <2>1, <1>1 DEF SessionHolds, requests
  <2>3. QED
    BY <2>2, <1>1, <1>3, FitsOn DEF requests
<1>5. QED
  BY <1>1, <1>2, <1>4 DEF SessionInv, requests

LEMMA CheckHolds ==
    ASSUME SessionInv, NEW n \in Requests, Check(n)
    PROVE  SessionInv'
<1>1. PICK next \in {"cleared", "refused"} : tool' = [tool EXCEPT ![n] = next]
  BY DEF Check
<1>2. /\ Running(n) /\ acted' \subseteq Requests
      /\ UNCHANGED <<store, directory, workload, requests, mode, session,
                     cached, closed, line, context, pending>>
  BY DEF Check, Running, history, SessionInv, TypeOK
<1>3. QED
  BY <1>1, <1>2, ToolRunsOn

LEMMA ServeHolds ==
    ASSUME SessionInv, NEW n \in Requests, Serve(n)
    PROVE  SessionInv'
<1>1. acted' \subseteq Requests
  BY DEF Serve, Acts, SessionInv, TypeOK
<1>2. Running(n)
  BY DEF Serve, Running
<1>3. QED
  BY <1>1, <1>2, ToolRunsOn DEF Serve

(* Who is heard is the request itself: it is still sent, and pending.      *)
LEMMA HeardIsSent ==
    ASSUME SessionInv, NEW n \in Requests, Running(n), Heard(session[n])
    PROVE  stage[n] = "sent" /\ pending[session[n]] = n
  BY DEF SessionInv, SessionHolds, Heard

LEMMA ReplyHolds ==
    ASSUME SessionInv, NEW n \in Requests, Reply(n)
    PROVE  SessionInv'
<1> DEFINE s == session[n]
<1>1. /\ TypeOK /\ stage \in [Requests -> Stages]
      /\ \A m \in Requests : StageFits(m) /\ SessionHolds(m)
  BY DEF SessionInv
<1>2. /\ Running(n) /\ s \in Requests /\ tool' = [tool EXCEPT ![n] = "gone"]
      /\ UNCHANGED <<store, directory, workload, history, mode, session, cached, context>>
  BY <1>1 DEF Reply, Running, SessionHolds
<1>3. tool' \in [Requests -> {"none", "called", "cleared", "acted", "refused", "gone"}]
  BY <1>1, <1>2 DEF TypeOK
<1>4. PatsKept
  BY <1>2 DEF PatsKept, directory
<1>5. ~Running(n)'
  BY <1>1, <1>2 DEF Running, TypeOK
<1>6. CASE ~Heard(s)
  <2>1. UNCHANGED <<requests, pending, line, closed>>
    BY <1>6 DEF Reply
  <2>2. TypeOK'
    BY <1>1, <1>2, <1>3, <2>1 DEF TypeOK, directory, requests, history
  <2>3. ASSUME NEW m \in Requests PROVE StageFits(m)' /\ SessionHolds(m)'
    <3>1. Running(m)' => Running(m)
      BY <1>1, <1>2 DEF Running, TypeOK
    <3>2. SessionHolds(m)'
      BY <3>1, <2>1, <1>1, <1>2 DEF SessionHolds, requests
    <3>3. QED
      BY <3>2, <2>1, <1>1, <1>4, FitsOn DEF requests
  <2>4. QED
    BY <1>1, <2>1, <2>2, <2>3 DEF SessionInv, requests
<1>7. CASE Heard(s)
  <2>1. stage[n] = "sent" /\ pending[s] = n
    BY <1>2, <1>7, HeardIsSent
  <2>2. /\ Answer(n, Said(n)) /\ pending' = [pending EXCEPT ![s] = None]
        /\ line' = Released(s) /\ closed' = ClosedAfter(s)
    BY <1>7, <2>1 DEF Reply
  <2>3. /\ stage' = [stage EXCEPT ![n] = "done"] /\ stage'[n] = "done"
        /\ stage' \in [Requests -> Stages] /\ ask' = ask
        /\ answer' \in [Requests -> Answers \cup {None}]
        /\ \A m \in Requests \ {n} : answer'[m] = answer[m]
    <3>1. Said(n) \in Answers
      BY AnswerKinds
    <3>2. QED
      BY <3>1, <2>2, AnswerType
  <2>4. line[s][1] = n /\ 1 \in 1..Len(line[s])
    <3>1. PICK i \in 1..Len(line[s]) : line[s][i] = n
      BY <1>1, <2>1 DEF SessionHolds
    <3>2. QED
      BY <3>1, <2>1, <1>1, <1>2 DEF TypeOK, SessionHolds
  <2>5. closed \subseteq closed' /\ closed' \subseteq closed \cup {s}
    BY <2>2 DEF ClosedAfter
  <2>6. TypeOK'
    <3>1. closed' \subseteq Requests
      BY <2>5, <1>1, <1>2 DEF TypeOK
    <3>2. line' \in [Requests -> Seq(Requests)]
      BY <1>1, <1>2, <2>2, <2>4, ReleasedType
    <3>3. pending' \in [Requests -> Requests \cup {None}]
      BY <1>1, <2>2 DEF TypeOK
    <3>4. context' \in [Requests -> Requests \cup {None}] /\ cached' \subseteq Requests
      BY <1>1, <1>2 DEF TypeOK
    <3>5. QED
      BY <1>1, <1>2, <1>3, <2>3, <3>1, <3>2, <3>3, <3>4, SessionsType
  <2>7. ASSUME NEW m \in Requests PROVE StageFits(m)' /\ SessionHolds(m)'
    <3>1. CASE m # n
      <4>1. /\ stage'[m] = stage[m] /\ answer'[m] = answer[m] /\ tool'[m] = tool[m]
            /\ UNCHANGED <<session, context>>
        BY <3>1, <1>1, <1>2, <2>3 DEF TypeOK
      <4>2. \A r \in Requests \ {s} : pending'[r] = pending[r]
        BY <1>1, <2>2 DEF TypeOK
      <4>3. SessionHolds(m)'
        BY <3>1, <4>1, <4>2, <1>2, <2>2, <2>4, <2>5, HeadLeaves
      <4>4. QED
        BY <4>1, <4>3, <1>1, <1>4, <2>3, FitsOn
    <3>2. CASE m = n
      <4>1. ask[n] # None
        BY <1>1, <2>1 DEF StageFits, Fits
      <4>2. StageFits(n)'
        BY <4>1, <2>3 DEF StageFits, Fits, MemberStages, McpStages
      <4>3. SessionHolds(n)'
        BY <1>5, <2>3 DEF SessionHolds
      <4>4. QED
        BY <3>2, <4>2, <4>3
    <3>3. QED
      BY <3>1, <3>2
  <2>8. QED
    BY <2>3, <2>6, <2>7 DEF SessionInv
<1>8. QED
  BY <1>6, <1>7

LEMMA SessionStutter == SessionInv /\ UNCHANGED vars => SessionInv'
<1> SUFFICES ASSUME SessionInv, UNCHANGED vars PROVE SessionInv'
  OBVIOUS
<1> USE DEF vars, requests, history, directory, mcp
<1>1. TypeOK' /\ stage' \in [Requests -> Stages] /\ PatsKept
  BY DEF SessionInv, TypeOK, PatsKept
<1>2. ASSUME NEW n \in Requests PROVE StageFits(n)' /\ SessionHolds(n)'
  BY <1>1, FitsOn, HoldsOn DEF SessionInv
<1>3. QED
  BY <1>1, <1>2 DEF SessionInv

LEMMA SessionStep == SessionInv /\ [Next]_vars => SessionInv'
<1> SUFFICES ASSUME SessionInv, [Next]_vars PROVE SessionInv'
  OBVIOUS
<1>1. CASE \E n \in Requests, a \in Workloads[workload] : WebArrive(n, a) /\ UNCHANGED mcp
  BY <1>1, WebArriveHolds
<1>2. CASE \E n \in Requests, a \in Workloads[workload] : McpArrive(n, a)
  BY <1>2, McpArriveHolds
<1>3. CASE \E n \in Requests : WebStep(n) /\ UNCHANGED mcp
  BY <1>3, WebStepHolds
<1>4. CASE \E n \in Requests : McpStep(n)
  BY <1>4, EnterHolds, SendHolds DEF McpStep
<1>5. CASE \E n \in Requests : ToolStep(n)
  BY <1>5, CheckHolds, ServeHolds, ReplyHolds DEF ToolStep
<1>6. CASE \E n \in Requests : Timeout(n)
  BY <1>6, TimeoutHolds
<1>7. QED
  BY <1>1, <1>2, <1>3, <1>4, <1>5, <1>6, SessionStutter DEF Next

LEMMA SessionCorrect == Spec => []SessionInv
<1>1. Init => SessionInv
  BY SessionInit
<1>2. QED
  BY <1>1, SessionStep, PTL DEF Spec

(* The types of McpRequests hold for every workload, store and mode: what   *)
(* the stores, the sessions and the lines can hold.                         *)
THEOREM RequestTypes == Spec => []TypeOK
<1>1. SessionInv => TypeOK
  BY DEF SessionInv
<1>2. QED
  BY <1>1, SessionCorrect, PTL

-----------------------------------------------------------------------------
(* Answers.                                                                *)

LEMMA OwnAnswerStep == SessionInv /\ OwnAnswer /\ [Next]_vars => OwnAnswer'
<1> SUFFICES ASSUME SessionInv, OwnAnswer, [Next]_vars,
                    NEW m \in Requests, NEW n \in Requests, answer'[n] = Said(m)
             PROVE  m = n
  BY DEF OwnAnswer
<1> USE DEF OwnAnswer
<1>0. answer \in [Requests -> Answers \cup {None}]
  BY DEF SessionInv, TypeOK
<1>1. CASE answer' = answer
  BY <1>1
<1>2. CASE \E k \in Requests, a \in Workloads[workload] : WebArrive(k, a) /\ UNCHANGED mcp
  BY <1>1, <1>2 DEF WebArrive
<1>3. ASSUME NEW k \in Requests, NEW a \in Workloads[workload], McpArrive(k, a)
      PROVE  m = n
  <2>1. Status(IF Authentic(a) THEN 403 ELSE 401) \in Statuses
    BY StatusType
  <2>2. answer'[n] = answer[n] \/ answer'[n] \in Statuses
    BY <1>0, <1>3, <2>1 DEF McpArrive
  <2>3. QED
    BY <2>2, AnswerKinds
<1>4. ASSUME NEW k \in Requests, WebStep(k), UNCHANGED mcp
      PROVE  m = n
  <2>1. answer'[n] = answer[n] \/ answer'[n] \in Statuses
    BY <1>4, WebStepFrame DEF WebFrame
  <2>2. QED
    BY <2>1, AnswerKinds
<1>5. ASSUME NEW k \in Requests, Enter(k)
      PROVE  m = n
  BY <1>1, <1>5 DEF Enter, Go
<1>6. ASSUME NEW k \in Requests, Send(k)
      PROVE  m = n
  <2>1. answer'[n] = answer[n] \/ answer'[n] \in Statuses
    BY <1>0, <1>6, StatusType DEF Send, Go, Answer
  <2>2. QED
    BY <2>1, AnswerKinds
<1>7. ASSUME NEW k \in Requests, Check(k) \/ Serve(k)
      PROVE  m = n
  BY <1>1, <1>7 DEF Check, Serve, requests
<1>8. ASSUME NEW k \in Requests, Reply(k)
      PROVE  m = n
  <2>1. CASE ~Heard(session[k])
    BY <1>1, <1>8, <2>1 DEF Reply, requests
  <2>2. CASE Heard(session[k])
    <3>1. pending[session[k]] = k
      BY <1>8, <2>2, HeardIsSent DEF Reply, Running
    <3>2. answer' = [answer EXCEPT ![k] = Said(k)]
      BY <1>8, <2>2, <3>1 DEF Reply, Answer
    <3>3. QED
      BY <1>0, <3>2, AnswerKinds
  <2>3. QED
    BY <2>1, <2>2
<1>9. ASSUME NEW k \in Requests, Timeout(k)
      PROVE  m = n
  BY <1>0, <1>9, AnswerKinds DEF Timeout, Answer
<1>10. CASE UNCHANGED vars
  BY <1>1, <1>10 DEF vars, requests
<1>11. QED
  BY <1>2, <1>3, <1>4, <1>5, <1>6, <1>7, <1>8, <1>9, <1>10 DEF Next, McpStep, ToolStep

(* What a tool says is answered to the request that called it, for any     *)
(* number of requests, sessions and time-outs.                             *)
THEOREM AnswersAreOwn == Spec => []OwnAnswer
<1>1. Init => OwnAnswer
  <2> SUFFICES ASSUME Init, NEW m \in Requests, NEW n \in Requests, answer[n] = Said(m)
               PROVE  FALSE
    BY DEF OwnAnswer
  <2>1. Said(m) = None
    BY DEF Init, AccessInit
  <2>2. QED
    BY <2>1, NoneAssumption, AnswerKinds
<1>2. QED
  BY <1>1, SessionCorrect, OwnAnswerStep, PTL DEF Spec

-----------------------------------------------------------------------------
(* Tokens.                                                                 *)

StillRevoked ==
    \A u \in Users : pats[u] # None /\ pats[u].revoked => pats'[u] # None /\ pats'[u].revoked

LEMMA RevokedStays == SessionInv /\ [Next]_vars => StillRevoked
<1> SUFFICES ASSUME SessionInv, [Next]_vars PROVE StillRevoked
  OBVIOUS
<1> USE DEF StillRevoked
<1>0. /\ TypeOK /\ pats \in [Users -> Pat \cup {None}]
      /\ \A n \in Requests : StageFits(n)
  BY DEF SessionInv, TypeOK
<1>1. CASE pats' = pats
  BY <1>1
<1>2. ASSUME NEW n \in Requests, CreatePat(n)
      PROVE  StillRevoked
  BY <1>0, <1>2 DEF CreatePat
<1>3. ASSUME NEW n \in Requests, RevokePat(n)
      PROVE  StillRevoked
  <2>1. ask[n].by \in Users /\ pats[ask[n].by] # None
    BY <1>0, <1>3, AskType DEF RevokePat, StageFits, Fits
  <2>2. pats[ask[n].by] \in Pat
    BY <1>0, <2>1
  <2>3. /\ MarkedRevoked(pats[ask[n].by]) # None
        /\ MarkedRevoked(pats[ask[n].by]).revoked
    BY <2>2, PatType DEF MarkedRevoked, Pat
  <2>4. QED
    BY <1>0, <1>3, <2>1, <2>3 DEF RevokePat
<1>4. ASSUME NEW n \in Requests, Enter(n)
      PROVE  StillRevoked
  <2>1. ask[n].cred = "pat" => ask[n].by \in Users /\ pats[ask[n].by] \in Pat
    BY <1>0, <1>4, AskType DEF StageFits, Fits, McpStages, Enter
  <2>2. ask[n].cred = "pat" =>
           /\ Touched(pats[ask[n].by]) # None
           /\ Touched(pats[ask[n].by]).revoked = pats[ask[n].by].revoked
    BY <2>1, PatType DEF Touched, Pat
  <2>3. QED
    BY <1>0, <1>4, <2>1, <2>2 DEF Enter
<1>5. ASSUME NEW n \in Requests, WebStep(n), ~CreatePat(n), ~RevokePat(n)
      PROVE  pats' = pats
  BY <1>5 DEF WebStep, RequireOwner, LookForExisting, OwnerRemains1, OwnerRemains2,
       AddMember, SetMemberRole, RemoveTheMember, LookForProject, CreateProject, FindPat,
       directory
<1>6. CASE UNCHANGED vars
  BY <1>1, <1>6 DEF vars, directory
<1>7. QED
  BY <1>1, <1>2, <1>3, <1>4, <1>5, <1>6
  DEF Next, McpStep, ToolStep, WebArrive, McpArrive, Send, Check, Serve, Reply, Timeout, directory

(* No request brings a revoked token back, though it may have found the    *)
(* token usable and touches it after the revocation.                       *)
THEOREM TokensStayRevoked == Spec => RevokedStaysRevoked
<1>1. SessionInv /\ [Next]_vars => [StillRevoked]_vars
  BY RevokedStays
<1>2. QED
  BY <1>1, SessionCorrect, PTL DEF Spec, RevokedStaysRevoked, StillRevoked

-----------------------------------------------------------------------------
(* Rights.                                                                 *)

Truth == {"authentic", "entitled"}

(* What Witnessed adds to the history: what is true now of the requests    *)
(* that can still act.                                                     *)
LEMMA WitnessedSeen ==
    ASSUME seen \in [Requests -> SUBSET Truth], Witnessed
    PROVE  /\ seen' \in [Requests -> SUBSET Truth]
           /\ \A m \in Requests : seen[m] \subseteq seen'[m]
           /\ \A m \in Requests : (Watched(m))' => (Truths(ask[m]))' \subseteq seen'[m]
<1>1. \A m \in Requests :
         seen'[m] = seen[m] \cup IF (Watched(m))' THEN (Truths(ask[m]))' ELSE {}
  BY DEF Witnessed
<1>2. \A m \in Requests : (Truths(ask[m]))' \subseteq Truth
  BY DEF Truths, Truth
<1>3. seen' \in [Requests -> SUBSET Truth]
  <2>1. \A m \in Requests : seen'[m] \subseteq Truth
    BY <1>1, <1>2
  <2>2. DOMAIN seen' = Requests /\ seen' = [m \in Requests |-> seen'[m]]
    BY DEF Witnessed
  <2>3. QED
    BY <2>1, <2>2
<1>4. QED
  BY <1>1, <1>3

(* A request that stays where it is keeps what has been seen of it.        *)
LEMMA SeenStays ==
    ASSUME NEW m \in Requests, RightsSeen(m), seen[m] \subseteq seen'[m],
           (Watched(m))' => (Truths(ask[m]))' \subseteq seen'[m],
           stage'[m] = stage[m], tool'[m] = tool[m], ask'[m] = ask[m],
           m \in acted' => m \in acted
    PROVE  RightsSeen(m)'
  BY DEF RightsSeen, Running

(* A step that changes nothing of the directory, and answers no request    *)
(* that is done, shows nothing new.                                        *)
LEMMA NothingNew ==
    ASSUME NEW m \in Requests, UNCHANGED <<directory, ask, seen>>, acted \subseteq acted',
           Watched(m) => Truths(ask[m]) \subseteq seen[m],
           stage[m] = "done" => stage'[m] = "done" /\ answer'[m] = answer[m]
    PROVE  (Watched(m))' => (Truths(ask[m]))' \subseteq seen'[m]
<1>1. (Truths(ask[m]))' = Truths(ask[m])
  BY DEF Truths, Authentic, Entitled, Usable, directory
<1>2. (Watched(m))' => Watched(m)
  BY DEF Watched
<1>3. QED
  BY <1>1, <1>2

LEMMA RightsInit == Init => RightsInv
  BY DEF Init, AccessInit, RightsInv, RightsSeen, Watched, Running, McpStages

LEMMA WebArriveRights ==
    ASSUME SessionInv, RightsInv, NEW n \in Requests, NEW a \in Workloads[workload],
           WebArrive(n, a), UNCHANGED mcp
    PROVE  RightsInv'
<1> DEFINE first == IF a.op \in MemberOps THEN "owner?" ELSE a.op
<1>1. /\ seen \in [Requests -> SUBSET Truth] /\ Witnessed
      /\ \A m \in Requests : RightsSeen(m)
      /\ ask \in [Requests -> Workloads[workload] \cup {None}]
      /\ stage \in [Requests -> Stages]
  BY DEF SessionInv, TypeOK, RightsInv, WebArrive, Truth
<1>2. /\ ask' = [ask EXCEPT ![n] = a] /\ stage' = [stage EXCEPT ![n] = first]
      /\ stage[n] = "none" /\ a \in WebAsk /\ acted' = acted
  BY DEF WebArrive, Arrive
<1>3. /\ a.op \in {"create", "newpat", "revokepat"} \cup MemberOps /\ a # None
  BY <1>2, NoneAssumption DEF WebAsk, MemberOps
<1>4. ASSUME NEW m \in Requests PROVE RightsSeen(m)'
  <2>1. CASE m # n
    BY <2>1, <1>1, <1>2, WitnessedSeen, SeenStays DEF mcp
  <2>2. CASE m = n
    <3>1. stage'[n] = first /\ ask'[n] = a /\ n \notin acted' /\ ~Running(n)
      BY <1>1, <1>2, Idle DEF RightsSeen
    <3>2. (Watched(n))'
      BY <3>1, <1>3 DEF Watched, MemberOps
    <3>3. "authentic" \in (Truths(ask[n]))'
      BY <3>1, <1>3 DEF Truths, Authentic, MemberOps
    <3>4. ASSUME a.op \notin MemberOps PROVE "entitled" \in (Truths(ask[n]))'
      <4>1. a.op \in {"create", "newpat", "revokepat"}
        BY <3>4, <1>3
      <4>2. Entitled(ask[n])'
        BY <3>1, <4>1 DEF Entitled
      <4>3. QED
        BY <4>2 DEF Truths
    <3>5. (Truths(ask[n]))' \subseteq seen'[n]
      BY <1>1, <3>2, WitnessedSeen
    <3>6. ~Running(n)' /\ tool'[n] # "cleared"
      BY <3>1 DEF Running, mcp
    <3>7. QED
      BY <2>2, <3>1, <3>3, <3>4, <3>5, <3>6, <1>3 DEF RightsSeen, MemberOps
  <2>3. QED
    BY <2>1, <2>2
<1>5. QED
  BY <1>1, <1>4, WitnessedSeen DEF RightsInv, Truth

LEMMA McpArriveRights ==
    ASSUME SessionInv, RightsInv, NEW n \in Requests, NEW a \in Workloads[workload],
           McpArrive(n, a)
    PROVE  RightsInv'
<1> DEFINE first == IF Admitted(a) THEN "known" ELSE "done"
<1>1. /\ seen \in [Requests -> SUBSET Truth] /\ Witnessed
      /\ \A m \in Requests : RightsSeen(m)
      /\ ask \in [Requests -> Workloads[workload] \cup {None}]
      /\ stage \in [Requests -> Stages]
  BY DEF SessionInv, TypeOK, RightsInv, McpArrive, Truth
<1>2. /\ ask' = [ask EXCEPT ![n] = a] /\ stage' = [stage EXCEPT ![n] = first]
      /\ stage[n] = "none" /\ a \in ToolCall /\ UNCHANGED <<acted, tool, directory>>
  BY DEF McpArrive, Arrive, mcp
<1>3. /\ a.op = "tool" /\ a # None
  BY <1>2, NoneAssumption DEF ToolCall
<1>4. ASSUME NEW m \in Requests PROVE RightsSeen(m)'
  <2>1. CASE m # n
    BY <2>1, <1>1, <1>2, WitnessedSeen, SeenStays
  <2>2. CASE m = n
    <3>1. stage'[n] = first /\ ask'[n] = a /\ n \notin acted' /\ ~Running(n)
      BY <1>1, <1>2, Idle DEF RightsSeen
    <3>2. (Watched(n))' => (Truths(ask[n]))' \subseteq seen'[n]
      BY <1>1, WitnessedSeen
    <3>3. ASSUME Admitted(a) PROVE "authentic" \in seen'[n]
      <4>1. (Watched(n))'
        BY <3>1, <3>3, <1>3 DEF Watched
      <4>2. Authentic(ask[n])'
        BY <3>1, <3>3, <1>2 DEF Admitted, Authentic, Usable, directory
      <4>3. QED
        BY <3>2, <4>1, <4>2 DEF Truths
    <3>4. ~Running(n)' /\ tool'[n] # "cleared"
      BY <3>1, <1>2 DEF Running
    <3>5. QED
      BY <2>2, <3>1, <3>2, <3>3, <3>4 DEF RightsSeen, McpStages
  <2>3. QED
    BY <2>1, <2>2
<1>5. QED
  BY <1>1, <1>4, WitnessedSeen DEF RightsInv, Truth

(* What a web step does to acted: only its own request, at the last stage  *)
(* of its handler.                                                         *)
LEMMA WebActs ==
    ASSUME SessionInv, NEW n \in Requests, WebStep(n)
    PROVE  /\ acted' = acted
           \/ /\ acted' = acted \cup {n}
              /\ stage[n] # "owner?" /\ stage' = [stage EXCEPT ![n] = "done"]
  BY DEF WebStep, RequireOwner, LookForExisting, OwnerRemains1, OwnerRemains2,
     AddMember, SetMemberRole, RemoveTheMember, LookForProject, CreateProject,
     CreatePat, FindPat, RevokePat, Acts, Answer

LEMMA WebStepRights ==
    ASSUME SessionInv, RightsInv, NEW n \in Requests, WebStep(n), UNCHANGED mcp
    PROVE  RightsInv'
<1>1. Witnessed
  BY DEF WebStep, RequireOwner, LookForExisting, OwnerRemains1, OwnerRemains2,
     AddMember, SetMemberRole, RemoveTheMember, LookForProject, CreateProject,
     CreatePat, FindPat, RevokePat
<1>2. /\ seen \in [Requests -> SUBSET Truth] /\ \A m \in Requests : RightsSeen(m)
      /\ stage \in [Requests -> Stages] /\ StageFits(n) /\ acted \subseteq Requests
  BY DEF SessionInv, RightsInv, Truth, TypeOK
<1>3. WebFrame(n) /\ ask' = ask /\ tool' = tool
  BY WebStepFrame DEF WebFrame, mcp
<1>4. PICK next \in WebStages \cup {"done"} : stage' = [stage EXCEPT ![n] = next]
  BY <1>3 DEF WebFrame
<1>5. /\ stage[n] \in WebStages /\ stage'[n] = next /\ ~Running(n) /\ ask[n] # None
      /\ stage[n] \notin McpStages \cup {"none", "done"}
      /\ next \notin McpStages \cup {"none"}
  BY <1>2, <1>3, <1>4, Idle DEF WebFrame, WebStages, McpStages, StageFits, Fits
<1>6. ~Running(n)' /\ tool'[n] # "cleared"
  BY <1>3, <1>5 DEF Running
<1>7. n \notin acted /\ "authentic" \in seen[n]
  BY <1>2, <1>5 DEF RightsSeen, McpStages
<1>8. stage[n] = "owner?" /\ next # "done" => "entitled" \in seen'[n]
  <2> SUFFICES ASSUME stage[n] = "owner?", next # "done" PROVE "entitled" \in seen'[n]
    OBVIOUS
  <2>1. members[ask[n].by] = "owner" /\ UNCHANGED <<directory, acted>>
    <3>1. RequireOwner(n)
      BY DEF WebStep, LookForExisting, OwnerRemains1, OwnerRemains2,
         AddMember, SetMemberRole, RemoveTheMember, LookForProject, CreateProject,
         CreatePat, FindPat, RevokePat
    <3>2. ~Answer(n, Status(403))
      BY <1>2, <1>4, <1>5 DEF Answer
    <3>3. QED
      BY <3>1, <3>2 DEF RequireOwner
  <2>2. Entitled(ask[n])'
    BY <2>1, <1>2, <1>3 DEF Entitled, StageFits, Fits, MemberStages, MemberOps, directory
  <2>3. (Watched(n))'
    BY <2>1, <1>3, <1>5, <1>7 DEF Watched
  <2>4. QED
    BY <1>1, <1>2, <2>2, <2>3, WitnessedSeen DEF Truths
<1>9. stage[n] # "owner?" => "entitled" \in seen[n]
  BY <1>2, <1>5 DEF RightsSeen
<1>10. ASSUME NEW m \in Requests PROVE RightsSeen(m)'
  <2>1. CASE m # n
    <3>1. stage'[m] = stage[m] /\ (m \in acted' => m \in acted)
      BY <2>1, <1>2, <1>4, WebActs
    <3>2. QED
      BY <3>1, <1>1, <1>2, <1>3, WitnessedSeen, SeenStays
  <2>2. CASE m = n
    <3>1. seen[n] \subseteq seen'[n] /\ ((Watched(n))' => (Truths(ask[n]))' \subseteq seen'[n])
      BY <1>1, <1>2, WitnessedSeen
    <3>2. next \notin {"done", "owner?"} => "entitled" \in seen'[n]
      BY <3>1, <1>8, <1>9
    <3>3. n \in acted' => next = "done" /\ {"authentic", "entitled"} \subseteq seen'[n]
      BY <3>1, <1>2, <1>4, <1>5, <1>7, <1>9, WebActs
    <3>4. tool'[n] # "called"
      BY <1>6 DEF Running
    <3>5. QED
      BY <2>2, <3>1, <3>2, <3>3, <3>4, <1>3, <1>5, <1>6, <1>7 DEF RightsSeen
  <2>3. QED
    BY <2>1, <2>2
<1>11. QED
  BY <1>1, <1>2, <1>10, WitnessedSeen DEF RightsInv, Truth

LEMMA EnterRights ==
    ASSUME SessionInv, RightsInv, NEW n \in Requests, Enter(n)
    PROVE  RightsInv'
<1>1. /\ seen \in [Requests -> SUBSET Truth] /\ \A m \in Requests : RightsSeen(m)
      /\ stage \in [Requests -> Stages]
  BY DEF SessionInv, RightsInv, Truth
<1>2. /\ Witnessed /\ stage[n] = "known" /\ stage' = [stage EXCEPT ![n] = "waiting"]
      /\ UNCHANGED <<ask, acted, tool>>
  BY DEF Enter, Go
<1>3. ASSUME NEW m \in Requests PROVE RightsSeen(m)'
  <2>1. /\ seen[m] \subseteq seen'[m]
        /\ (Watched(m))' => (Truths(ask[m]))' \subseteq seen'[m]
    BY <1>1, <1>2, WitnessedSeen
  <2>2. CASE m # n
    BY <2>1, <2>2, <1>1, <1>2, SeenStays
  <2>3. CASE m = n
    <3>1. stage'[n] = "waiting" /\ ~Running(n) /\ n \notin acted /\ "authentic" \in seen[n]
      BY <1>1, <1>2, Idle DEF RightsSeen
    <3>2. ~Running(n)'
      BY <3>1, <1>2 DEF Running
    <3>3. QED
      BY <2>1, <2>3, <3>1, <3>2, <1>2 DEF RightsSeen, McpStages, Running
  <2>4. QED
    BY <2>2, <2>3
<1>4. QED
  BY <1>1, <1>2, <1>3, WitnessedSeen DEF RightsInv, Truth

(* The steps in the sessions show nothing new; what is to be seen there is *)
(* what the request of the step itself may rely on.                        *)
LEMMA QuietRights ==
    ASSUME RightsInv, NEW n \in Requests, UNCHANGED <<directory, ask, seen>>,
           acted' \subseteq acted \cup {n}, acted \subseteq acted',
           \A m \in Requests \ {n} :
              stage'[m] = stage[m] /\ answer'[m] = answer[m] /\ tool'[m] = tool[m],
           RightsSeen(n)'
    PROVE  RightsInv'
<1>1. ASSUME NEW m \in Requests, m # n PROVE RightsSeen(m)'
  <2>1. RightsSeen(m)
    BY DEF RightsInv
  <2>2. (Watched(m))' => (Truths(ask[m]))' \subseteq seen'[m]
    BY <1>1, <2>1, NothingNew DEF RightsSeen
  <2>3. QED
    BY <1>1, <2>1, <2>2, SeenStays
<1>2. QED
  BY <1>1 DEF RightsInv

LEMMA SendRights ==
    ASSUME SessionInv, RightsInv, NEW n \in Requests, Send(n)
    PROVE  RightsInv'
<1>1. /\ RightsSeen(n) /\ StageFits(n) /\ ~Running(n) /\ stage[n] = "waiting"
      /\ UNCHANGED <<directory, ask, seen, acted>>
      /\ stage \in [Requests -> Stages] /\ answer \in [Requests -> Answers \cup {None}]
      /\ tool \in [Requests -> {"none", "called", "cleared", "acted", "refused", "gone"}]
  BY Idle DEF SessionInv, TypeOK, RightsInv, Send, Go, Answer, history
<1>2. \/ /\ stage' = [stage EXCEPT ![n] = "done"] /\ answer' = [answer EXCEPT ![n] = Status(500)]
         /\ tool' = tool
      \/ /\ stage' = [stage EXCEPT ![n] = "sent"] /\ answer' = answer
         /\ tool' = [tool EXCEPT ![n] = "called"]
  BY DEF Send, Go, Answer
<1>3. n \notin acted /\ "authentic" \in seen[n] /\ ask[n].op = "tool"
  BY <1>1 DEF RightsSeen, StageFits, Fits, McpStages
<1>4. (Watched(n))' => (Truths(ask[n]))' \subseteq seen'[n]
  BY <1>1, NothingNew DEF RightsSeen
<1>5. RightsSeen(n)'
  BY <1>1, <1>2, <1>3, <1>4 DEF RightsSeen, Running, McpStages
<1>6. QED
  BY <1>1, <1>2, <1>5, QuietRights

LEMMA TimeoutRights ==
    ASSUME SessionInv, RightsInv, NEW n \in Requests, Timeout(n)
    PROVE  RightsInv'
<1>1. /\ RightsSeen(n) /\ stage[n] = "sent"
      /\ UNCHANGED <<directory, ask, seen, acted, tool>>
      /\ stage \in [Requests -> Stages] /\ answer \in [Requests -> Answers \cup {None}]
  BY DEF SessionInv, TypeOK, RightsInv, Timeout, Answer, history
<1>2. stage' = [stage EXCEPT ![n] = "done"] /\ answer' = [answer EXCEPT ![n] = TimedOut]
  BY DEF Timeout, Answer
<1>3. (Watched(n))' => (Truths(ask[n]))' \subseteq seen'[n]
  BY <1>1, NothingNew DEF RightsSeen
<1>4. RightsSeen(n)'
  BY <1>1, <1>2, <1>3 DEF RightsSeen, Running, McpStages
<1>5. QED
  BY <1>1, <1>2, <1>4, QuietRights

(* What the guard of the tools lets through is the request's right: the    *)
(* session has the context of the request itself, and the request can      *)
(* still act, so its right has been seen.                                  *)
LEMMA CheckRights ==
    ASSUME SessionInv, RightsInv, NEW n \in Requests, Check(n)
    PROVE  RightsInv'
<1> DEFINE a == ask[n]
<1>1. /\ RightsSeen(n) /\ SessionHolds(n) /\ Running(n) /\ tool[n] = "called"
      /\ UNCHANGED <<directory, ask, seen, acted, stage, answer>>
      /\ tool \in [Requests -> {"none", "called", "cleared", "acted", "refused", "gone"}]
  BY DEF SessionInv, TypeOK, RightsInv, Check, Running, history, requests
<1>2. context[session[n]] = n /\ n \notin acted /\ a.op = "tool"
  BY <1>1 DEF SessionHolds, RightsSeen
<1>3. a \in ToolCall /\ a # None
  <2>1. a # None
    BY <1>1, <1>2 DEF SessionInv, StageFits, Fits, SessionHolds
  <2>2. QED
    BY <1>2, <2>1, AskType DEF SessionInv
<1>4. ASSUME Guard(a, a.on, a.need) PROVE Entitled(a)
  <2>1. a.on \in {"project", "shared"}
    BY <1>3 DEF ToolCall
  <2>2. CASE a.cred = "automation"
    BY <1>2, <1>4, <2>2 DEF Guard, Entitled
  <2>3. CASE a.cred # "automation" /\ a.on = "shared"
    BY <1>2, <1>4, <2>3 DEF Guard, Entitled
  <2>4. CASE a.cred # "automation" /\ a.on = "project"
    BY <1>2, <1>4, <2>4 DEF Guard, Entitled, HasAccess
  <2>5. QED
    BY <2>1, <2>2, <2>3, <2>4
<1>5. Watched(n)
  BY <1>1, <1>2, <1>3 DEF Watched, SessionHolds
<1>6. Guard(a, a.on, a.need) => "entitled" \in seen[n]
  BY <1>1, <1>4, <1>5 DEF RightsSeen, Truths
<1>7. tool' = [tool EXCEPT ![n] = IF Guard(a, a.on, a.need) THEN "cleared" ELSE "refused"]
  BY <1>2 DEF Check
<1>8. (Watched(n))' => (Truths(ask[n]))' \subseteq seen'[n]
  BY <1>1, NothingNew DEF RightsSeen
<1>9. RightsSeen(n)'
  BY <1>1, <1>2, <1>6, <1>7, <1>8 DEF RightsSeen, Running
<1>10. QED
  BY <1>1, <1>7, <1>9, QuietRights

LEMMA ServeRights ==
    ASSUME SessionInv, RightsInv, NEW n \in Requests, Serve(n)
    PROVE  RightsInv'
<1>1. /\ RightsSeen(n) /\ SessionHolds(n) /\ Running(n) /\ tool[n] = "cleared"
      /\ UNCHANGED <<directory, ask, seen, stage, answer>> /\ acted' = acted \cup {n}
      /\ tool \in [Requests -> {"none", "called", "cleared", "acted", "refused", "gone"}]
      /\ tool' = [tool EXCEPT ![n] = "acted"]
  BY DEF SessionInv, TypeOK, RightsInv, Serve, Acts, Running, requests
<1>2. stage[n] \in {"sent", "done"}
  BY <1>1 DEF SessionHolds
<1>3. (Watched(n))' => (Truths(ask[n]))' \subseteq seen'[n]
  BY <1>1, NothingNew DEF RightsSeen
<1>4. RightsSeen(n)'
  BY <1>1, <1>2, <1>3 DEF RightsSeen, Running
<1>5. QED
  BY <1>1, <1>4, QuietRights

LEMMA ReplyRights ==
    ASSUME SessionInv, RightsInv, NEW n \in Requests, Reply(n)
    PROVE  RightsInv'
<1>1. /\ RightsSeen(n) /\ SessionHolds(n) /\ Running(n)
      /\ UNCHANGED <<directory, ask, seen, acted>>
      /\ stage \in [Requests -> Stages] /\ answer \in [Requests -> Answers \cup {None}]
      /\ tool \in [Requests -> {"none", "called", "cleared", "acted", "refused", "gone"}]
      /\ tool' = [tool EXCEPT ![n] = "gone"]
  BY DEF SessionInv, TypeOK, RightsInv, Reply, Running, Answer, history, requests
<1>2. \/ UNCHANGED <<stage, answer>>
      \/ /\ stage[n] = "sent"
         /\ stage' = [stage EXCEPT ![n] = "done"] /\ answer' = [answer EXCEPT ![n] = Said(n)]
  <2>1. CASE Heard(session[n])
    <3>1. stage[n] = "sent" /\ pending[session[n]] = n
      BY <2>1, <1>1, HeardIsSent
    <3>2. QED
      BY <2>1, <3>1 DEF Reply, Answer
  <2>2. CASE ~Heard(session[n])
    BY <2>2 DEF Reply, requests
  <2>3. QED
    BY <2>1, <2>2
<1>3. (Watched(n))' => (Truths(ask[n]))' \subseteq seen'[n]
  BY <1>1, <1>2, NothingNew DEF RightsSeen
<1>4. RightsSeen(n)'
  BY <1>1, <1>2, <1>3 DEF RightsSeen, Running, McpStages
<1>5. QED
  BY <1>1, <1>2, <1>4, QuietRights

LEMMA RightsStep == SessionInv /\ RightsInv /\ [Next]_vars => RightsInv'
<1> SUFFICES ASSUME SessionInv, RightsInv, [Next]_vars PROVE RightsInv'
  OBVIOUS
<1>1. CASE \E n \in Requests, a \in Workloads[workload] : WebArrive(n, a) /\ UNCHANGED mcp
  BY <1>1, WebArriveRights
<1>2. CASE \E n \in Requests, a \in Workloads[workload] : McpArrive(n, a)
  BY <1>2, McpArriveRights
<1>3. CASE \E n \in Requests : WebStep(n) /\ UNCHANGED mcp
  BY <1>3, WebStepRights
<1>4. CASE \E n \in Requests : McpStep(n)
  BY <1>4, EnterRights, SendRights DEF McpStep
<1>5. CASE \E n \in Requests : ToolStep(n)
  BY <1>5, CheckRights, ServeRights, ReplyRights DEF ToolStep
<1>6. CASE \E n \in Requests : Timeout(n)
  BY <1>6, TimeoutRights
<1>7. CASE UNCHANGED vars
  <2>1. ASSUME NEW m \in Requests PROVE RightsSeen(m)'
    BY <1>7, NothingNew, SeenStays DEF RightsInv, RightsSeen, vars, requests, history, mcp
  <2>2. QED
    BY <1>7, <2>1 DEF RightsInv, vars, history
<1>8. QED
  BY <1>1, <1>2, <1>3, <1>4, <1>5, <1>6, <1>7 DEF Next

(* Whatever a request did, its credential had been good and its user had    *)
(* had the right since it arrived, for any users, workloads and sessions:   *)
(* the context its tool checks is its own, and what a check or a look let   *)
(* past was true when it was made.                                          *)
THEOREM RightsCorrect == Spec => []ActsOnRights
<1>1. Init => RightsInv
  BY RightsInit
<1>2. RightsInv /\ SessionInv => ActsOnRights
  BY DEF RightsInv, RightsSeen, ActsOnRights, SessionInv, TypeOK
<1>3. QED
  BY <1>1, <1>2, SessionCorrect, RightsStep, PTL DEF Spec

-----------------------------------------------------------------------------
(* Owners.                                                                 *)

LEMMA WitnessedOverlap ==
    ASSUME overlap \in BOOLEAN, Witnessed
    PROVE  overlap' \in BOOLEAN /\ (~overlap' => ~overlap /\ ChangesAlone')
  BY DEF Witnessed, ChangesAlone

LEMMA OwnersInit == Init => OwnersInv
<1> SUFFICES ASSUME Init PROVE OwnersInv
  OBVIOUS
<1>1. ASSUME project # None PROVE Owners # {}
  BY <1>1, UsersAssumption DEF Init, AccessInit, Owners
<1>2. QED
  BY <1>1 DEF Init, AccessInit, OwnersInv, OwnerRemains, ChangesAlone, Changing, InHand,
              Prepared, Takes, MemberStages

(* A step that leaves the directory alone, and moves its request to a stage *)
(* where it is prepared or not a change.                                   *)
LEMMA OwnersStay ==
    ASSUME SessionInv, OwnersInv, NEW n \in Requests, UNCHANGED <<project, members>>,
           overlap' \in BOOLEAN, ~overlap' => ~overlap /\ ChangesAlone',
           \A m \in Requests \ {n} : stage'[m] = stage[m] /\ ask'[m] = ask[m],
           stage'[n] \in MemberStages \ {"owner?"} => project # None,
           ~overlap => Prepared(n)'
    PROVE  OwnersInv'
<1>1. \A m \in Requests \ {n} : ~overlap => Prepared(m)'
  BY DEF OwnersInv, Prepared, Takes
<1>2. Owners' = Owners
  BY DEF Owners
<1>3. OwnerRemains'
  BY <1>2 DEF OwnersInv, OwnerRemains
<1>4. \A m \in Requests : project = None => stage'[m] \notin MemberStages \ {"owner?"}
  BY DEF OwnersInv
<1>5. QED
  BY <1>1, <1>3, <1>4 DEF OwnersInv

(* A step that changes the members is alone with them: nobody else is on    *)
(* the way to a change, and it leaves an owner.                            *)
LEMMA OwnersChange ==
    ASSUME SessionInv, OwnersInv, NEW n \in Requests, project # None, project' = project,
           stage[n] = "change", Witnessed, ask' = ask,
           stage' = [stage EXCEPT ![n] = "done"], ~overlap => Owners' # {}
    PROVE  OwnersInv'
<1>0. /\ overlap \in BOOLEAN /\ stage \in [Requests -> Stages] /\ StageFits(n)
      /\ \A m \in Requests : StageFits(m)
  BY DEF OwnersInv, SessionInv
<1>1. overlap' \in BOOLEAN /\ (~overlap' => ~overlap /\ ChangesAlone')
  BY <1>0, WitnessedOverlap
<1>2. Changing(n)
  BY <1>0 DEF Changing, InHand, StageFits, Fits, MemberStages
<1>3. ASSUME NEW m \in Requests, ~overlap PROVE Prepared(m)'
  <2>1. CASE m # n
    <3>1. ~Changing(m)
      BY <1>2, <1>3, <2>1 DEF OwnersInv, ChangesAlone
    <3>2. stage[m] # "change"
      BY <3>1, <1>0 DEF Changing, InHand, StageFits, Fits, MemberStages
    <3>3. QED
      BY <3>2, <2>1, <1>0 DEF Prepared, Takes
  <2>2. CASE m = n
    BY <2>2, <1>0 DEF Prepared, Takes
  <2>3. QED
    BY <2>1, <2>2
<1>4. OwnerRemains'
  BY <1>1 DEF OwnerRemains
<1>5. QED
  BY <1>1, <1>3, <1>4 DEF OwnersInv

LEMMA TwoOwners ==
    ASSUME NEW u, EnoughOwners
    PROVE  \E v \in Users : v # u /\ members[v] = "owner"
<1> SUFFICES ASSUME \A v \in Users : members[v] = "owner" => v = u PROVE FALSE
  OBVIOUS
<1>1. Owners = {} \/ Owners = {u}
  BY DEF Owners
<1>2. Cardinality(Owners) \in {0, 1}
  BY <1>1, FS_EmptySet, FS_Singleton
<1>3. QED
  BY <1>2 DEF EnoughOwners

LEMMA WebStepOwners ==
    ASSUME SessionInv, OwnersInv, NEW n \in Requests, WebStep(n), UNCHANGED mcp
    PROVE  OwnersInv'
<1> DEFINE a == ask[n]
<1>0. /\ stage \in [Requests -> Stages] /\ overlap \in BOOLEAN /\ Fits(stage[n], a)
      /\ members \in [Users -> Roles \cup {None}] /\ None \notin Roles
  BY NoneAssumption DEF SessionInv, OwnersInv, TypeOK, StageFits
<1>1. Witnessed
  BY DEF WebStep, RequireOwner, LookForExisting, OwnerRemains1, OwnerRemains2,
     AddMember, SetMemberRole, RemoveTheMember, LookForProject, CreateProject,
     CreatePat, FindPat, RevokePat
<1>2. overlap' \in BOOLEAN /\ (~overlap' => ~overlap /\ ChangesAlone')
  BY <1>0, <1>1, WitnessedOverlap
<1>3. ask' = ask /\ \E next \in Stages : stage' = [stage EXCEPT ![n] = next]
  BY WebStepFrame DEF WebFrame, WebStages, Stages
<1>4. \A m \in Requests \ {n} : stage'[m] = stage[m] /\ ask'[m] = ask[m]
  BY <1>0, <1>3
<1>5. stage[n] # "none" => /\ a.by \in Users
                           /\ a.op \in MemberOps => a.whom \in Users
                           /\ a.op \in {"add", "role"} => a.role \in Roles
  BY <1>0, AskType DEF SessionInv, Fits
<1>6. stage[n] \in MemberStages \ {"owner?"} => project # None
  BY DEF OwnersInv
<1>7. ASSUME UNCHANGED <<project, members>>, stage'[n] \notin MemberStages \ {"owner?"}
      PROVE  OwnersInv'
  <2>1. Prepared(n)'
    BY <1>7 DEF Prepared, Takes, MemberStages
  <2>2. QED
    BY <2>1, <1>2, <1>4, <1>7, OwnersStay
<1>8. ASSUME UNCHANGED <<project, members>>, project # None, ~overlap => Prepared(n)'
      PROVE  OwnersInv'
  BY <1>2, <1>4, <1>8, OwnersStay
<1>9. ASSUME NEW what, Answer(n, what), UNCHANGED <<project, members>>
      PROVE  OwnersInv'
  BY <1>0, <1>7, <1>9 DEF Answer, MemberStages
<1>10. CASE RequireOwner(n)
  <2>1. UNCHANGED <<project, members>>
    BY <1>10 DEF RequireOwner, directory
  <2>2. CASE members[a.by] = "owner"
    <3>1. project # None
      BY <1>0, <1>5, <1>10, <2>2 DEF OwnersInv, RequireOwner, Roles
    <3>2. stage'[n] = AfterOwner(a)
      BY <1>0, <1>10, <2>2 DEF RequireOwner, Go
    <3>3. Prepared(n)'
      BY <1>3, <3>2 DEF Prepared, Takes, AfterOwner
    <3>4. QED
      BY <2>1, <3>1, <3>3, <1>8
  <2>3. CASE members[a.by] # "owner"
    BY <2>1, <2>3, <1>9, <1>10 DEF RequireOwner
  <2>4. QED
    BY <2>2, <2>3
<1>11. CASE LookForExisting(n)
  <2>1. UNCHANGED <<project, members>> /\ a.op = "add" /\ project # None
    BY <1>0, <1>6, <1>11 DEF LookForExisting, directory, Fits, MemberStages
  <2>2. CASE members[a.whom] = None
    <3>1. Prepared(n)'
      BY <1>0, <1>3, <2>1, <2>2 DEF Prepared, Takes, Roles
    <3>2. QED
      BY <2>1, <3>1, <1>8
  <2>3. CASE members[a.whom] # None
    BY <2>1, <2>3, <1>9, <1>11 DEF LookForExisting
  <2>4. QED
    BY <2>2, <2>3
<1>12. CASE OwnerRemains1(n)
  <2>1. UNCHANGED <<project, members>> /\ a.op \in {"role", "remove"} /\ project # None
    BY <1>0, <1>6, <1>12 DEF OwnerRemains1, directory, Fits, MemberStages
  <2>2. stage'[n] = IF members[a.whom] = "owner" THEN "owners?" ELSE "change"
    BY <1>0, <1>12 DEF OwnerRemains1, Go
  <2>3. Prepared(n)'
    BY <1>3, <2>1, <2>2 DEF Prepared, Takes
  <2>4. QED
    BY <2>1, <2>3, <1>8
<1>13. CASE OwnerRemains2(n)
  <2>1. UNCHANGED <<project, members>> /\ a.op \in {"role", "remove"} /\ project # None
    BY <1>0, <1>6, <1>13 DEF OwnerRemains2, directory, Fits, MemberStages
  <2>2. CASE EnoughOwners
    <3>1. \E u \in Users : u # a.whom /\ members[u] = "owner"
      BY <2>2, TwoOwners
    <3>2. Prepared(n)'
      BY <1>3, <2>1, <3>1 DEF Prepared, Takes
    <3>3. QED
      BY <2>1, <3>2, <1>8
  <2>3. CASE ~EnoughOwners
    BY <2>1, <2>3, <1>9, <1>13 DEF OwnerRemains2
  <2>4. QED
    BY <2>2, <2>3
<1>14. CASE AddMember(n)
  <2>1. stage' = [stage EXCEPT ![n] = "done"] /\ project' = project /\ project # None
    BY <1>6, <1>14 DEF AddMember, Answer, MemberStages
  <2>2. ~overlap => Owners' # {}
    <3>1. SUFFICES ASSUME ~overlap PROVE Owners' # {}
      OBVIOUS
    <3>2. PICK u \in Users : members[u] = "owner"
      BY <2>1, <3>1 DEF OwnersInv, OwnerRemains, Owners
    <3>3. u # a.whom
      BY <3>1, <3>2, <1>14 DEF AddMember, OwnersInv, Prepared
    <3>4. members'[u] = "owner"
      BY <3>2, <3>3, <1>0, <1>14 DEF AddMember, Add
    <3>5. QED
      BY <3>4 DEF Owners
  <2>3. QED
    BY <1>1, <1>3, <1>14, <2>1, <2>2, OwnersChange DEF AddMember
<1>15. CASE SetMemberRole(n)
  <2>1. /\ stage' = [stage EXCEPT ![n] = "done"] /\ project' = project /\ project # None
        /\ stage[n] = "change" /\ a.op = "role"
    BY <1>6, <1>15 DEF SetMemberRole, Answer, MemberStages
  <2>2. \A u \in Users : u # a.whom => members'[u] = members[u]
    BY <1>0, <1>15 DEF SetMemberRole, SetRole
  <2>3. members'[a.whom] = members[a.whom] \/ members'[a.whom] = a.role
    BY <1>0, <1>5, <1>15, <2>1 DEF SetMemberRole, SetRole, MemberOps
  <2>4. ~overlap => Owners' # {}
    <3>1. SUFFICES ASSUME ~overlap PROVE Owners' # {}
      OBVIOUS
    <3>2. PICK u \in Users : members[u] = "owner"
      BY <2>1, <3>1 DEF OwnersInv, OwnerRemains, Owners
    <3>3. CASE u # a.whom \/ a.role = "owner"
      BY <3>2, <3>3, <2>2, <2>3 DEF Owners
    <3>4. CASE u = a.whom /\ a.role # "owner"
      <4>1. \E v \in Users : v # a.whom /\ members[v] = "owner"
        BY <2>1, <3>1, <3>2, <3>4 DEF OwnersInv, Prepared, Takes
      <4>2. QED
        BY <4>1, <2>2 DEF Owners
    <3>5. QED
      BY <3>3, <3>4
  <2>5. QED
    BY <1>1, <1>3, <2>1, <2>4, OwnersChange
<1>16. CASE RemoveTheMember(n)
  <2>1. /\ stage' = [stage EXCEPT ![n] = "done"] /\ project' = project /\ project # None
        /\ stage[n] = "change" /\ a.op = "remove"
    BY <1>6, <1>16 DEF RemoveTheMember, Answer, MemberStages
  <2>2. \A u \in Users : u # a.whom => members'[u] = members[u]
    BY <1>0, <1>16 DEF RemoveTheMember, RemoveMember
  <2>3. ~overlap => Owners' # {}
    <3>1. SUFFICES ASSUME ~overlap PROVE Owners' # {}
      OBVIOUS
    <3>2. PICK u \in Users : members[u] = "owner"
      BY <2>1, <3>1 DEF OwnersInv, OwnerRemains, Owners
    <3>3. CASE u # a.whom
      BY <3>2, <3>3, <2>2 DEF Owners
    <3>4. CASE u = a.whom
      <4>1. \E v \in Users : v # a.whom /\ members[v] = "owner"
        BY <2>1, <3>1, <3>2, <3>4 DEF OwnersInv, Prepared, Takes
      <4>2. QED
        BY <4>1, <2>2 DEF Owners
    <3>5. QED
      BY <3>3, <3>4
  <2>4. QED
    BY <1>1, <1>3, <2>1, <2>3, OwnersChange
<1>17. CASE LookForProject(n)
  <2>1. UNCHANGED <<project, members>> /\ stage'[n] \in {"found", "done"}
    BY <1>0, <1>17 DEF LookForProject, Go, Answer, directory
  <2>2. QED
    BY <2>1, <1>7 DEF MemberStages
<1>18. CASE CreateProject(n)
  <2>1. CASE ~CreateAccepts
    BY <2>1, <1>9, <1>18 DEF CreateProject
  <2>2. CASE CreateAccepts
    <3>1. /\ project = None /\ project' = a.by /\ members' = [members EXCEPT ![a.by] = "owner"]
          /\ stage' = [stage EXCEPT ![n] = "done"] /\ stage[n] = "found"
      BY <2>2, <1>18 DEF CreateProject, CreateAccepts, Create, Answer
    <3>2. a.by \in Users /\ a.by # None
      BY <3>1, <1>5, NoneAssumption
    <3>3. \A m \in Requests : stage'[m] # "change"
      BY <3>1, <1>0 DEF OwnersInv, MemberStages
    <3>4. \A m \in Requests : Prepared(m)'
      BY <3>3 DEF Prepared, Takes
    <3>5. Owners' # {}
      BY <3>1, <3>2, <1>0 DEF Owners
    <3>6. QED
      BY <3>1, <3>2, <3>4, <3>5, <1>2 DEF OwnersInv, OwnerRemains
  <2>3. QED
    BY <2>1, <2>2
<1>19. CASE CreatePat(n) \/ RevokePat(n)
  BY <1>9, <1>19 DEF CreatePat, RevokePat
<1>20. CASE FindPat(n)
  <2>1. UNCHANGED <<project, members>> /\ stage'[n] \in {"revoke", "done"}
    BY <1>0, <1>20 DEF FindPat, Go, Answer, directory
  <2>2. QED
    BY <2>1, <1>7 DEF MemberStages
<1>21. QED
  BY <1>10, <1>11, <1>12, <1>13, <1>14, <1>15, <1>16, <1>17, <1>18, <1>19, <1>20 DEF WebStep

(* Requests of MCP clients change no members.                              *)
LEMMA ToolOwners ==
    ASSUME SessionInv, OwnersInv, NEW n \in Requests,
           UNCHANGED <<project, members, overlap, ask>>,
           \A m \in Requests \ {n} : stage'[m] = stage[m],
           stage'[n] = stage[n] \/ (ask[n].op = "tool" /\ stage'[n] \in McpStages \cup {"done"})
    PROVE  OwnersInv'
<1>1. CASE stage'[n] = stage[n]
  <2>1. \A m \in Requests : stage'[m] = stage[m]
    BY <1>1
  <2>2. ChangesAlone => ChangesAlone'
    BY <2>1 DEF ChangesAlone, Changing, InHand
  <2>3. \A m \in Requests : Prepared(m) => Prepared(m)'
    BY <2>1 DEF Prepared, Takes
  <2>4. OwnerRemains'
    BY DEF OwnersInv, OwnerRemains, Owners
  <2>5. QED
    BY <2>1, <2>2, <2>3, <2>4 DEF OwnersInv
<1>2. CASE ask[n].op = "tool" /\ stage'[n] \in McpStages \cup {"done"}
  <2>1. ChangesAlone => ChangesAlone'
    BY <1>2 DEF ChangesAlone, Changing, InHand, MemberOps
  <2>2. Prepared(n)'
    BY <1>2 DEF Prepared, Takes, McpStages
  <2>3. stage'[n] \notin MemberStages
    BY <1>2 DEF MemberStages, McpStages
  <2>4. overlap' \in BOOLEAN /\ (~overlap' => ~overlap /\ ChangesAlone')
    BY <2>1 DEF OwnersInv
  <2>5. QED
    BY <2>2, <2>3, <2>4, OwnersStay
<1>3. QED
  BY <1>1, <1>2

LEMMA ArriveOwners ==
    ASSUME SessionInv, OwnersInv, NEW n \in Requests, NEW a, NEW first,
           Arrive(n, a, first), UNCHANGED directory, Witnessed,
           first \notin MemberStages \ {"owner?"}
    PROVE  OwnersInv'
<1>1. /\ stage \in [Requests -> Stages] /\ DOMAIN ask = Requests
      /\ stage' = [stage EXCEPT ![n] = first] /\ ask' = [ask EXCEPT ![n] = a]
  BY DEF SessionInv, TypeOK, Arrive
<1>2. overlap' \in BOOLEAN /\ (~overlap' => ~overlap /\ ChangesAlone')
  BY WitnessedOverlap DEF OwnersInv
<1>3. Prepared(n)'
  BY <1>1 DEF Prepared, Takes, MemberStages
<1>4. QED
  BY <1>1, <1>2, <1>3, OwnersStay DEF directory

LEMMA OwnersStep == SessionInv /\ OwnersInv /\ [Next]_vars => OwnersInv'
<1> SUFFICES ASSUME SessionInv, OwnersInv, [Next]_vars PROVE OwnersInv'
  OBVIOUS
<1>0. stage \in [Requests -> Stages] /\ \A n \in Requests : StageFits(n)
  BY DEF SessionInv
<1>1. ASSUME NEW n \in Requests, NEW a \in Workloads[workload], WebArrive(n, a)
      PROVE  OwnersInv'
  <2>1. (IF a.op \in MemberOps THEN "owner?" ELSE a.op) \notin MemberStages \ {"owner?"}
    BY <1>1 DEF WebArrive, WebAsk, MemberOps, MemberStages
  <2>2. QED
    BY <1>1, <2>1, ArriveOwners DEF WebArrive
<1>2. ASSUME NEW n \in Requests, NEW a \in Workloads[workload], McpArrive(n, a)
      PROVE  OwnersInv'
  <2>1. (IF Admitted(a) THEN "known" ELSE "done") \notin MemberStages \ {"owner?"}
    BY DEF MemberStages
  <2>2. QED
    BY <1>2, <2>1, ArriveOwners DEF McpArrive
<1>3. CASE \E n \in Requests : WebStep(n) /\ UNCHANGED mcp
  BY <1>3, WebStepOwners
<1>4. ASSUME NEW n \in Requests, Enter(n)
      PROVE  OwnersInv'
  <2>1. /\ stage' = [stage EXCEPT ![n] = "waiting"] /\ Witnessed
        /\ UNCHANGED <<project, members, ask>>
    BY <1>4 DEF Enter, Go
  <2>2. overlap' \in BOOLEAN /\ (~overlap' => ~overlap /\ ChangesAlone')
    BY <2>1, WitnessedOverlap DEF OwnersInv
  <2>3. Prepared(n)' /\ stage'[n] \notin MemberStages
    BY <1>0, <2>1 DEF Prepared, Takes, MemberStages
  <2>4. QED
    BY <1>0, <2>1, <2>2, <2>3, OwnersStay
<1>5. ASSUME NEW n \in Requests, Send(n) \/ Timeout(n)
      PROVE  OwnersInv'
  <2>1. ask[n].op = "tool"
    BY <1>0, <1>5 DEF Send, Timeout, StageFits, Fits, McpStages
  <2>2. /\ UNCHANGED <<project, members, overlap, ask>>
        /\ \E next \in McpStages \cup {"done"} : stage' = [stage EXCEPT ![n] = next]
    BY <1>5 DEF Send, Timeout, Go, Answer, McpStages, directory, history
  <2>3. QED
    BY <1>0, <2>1, <2>2, ToolOwners
<1>6. ASSUME NEW n \in Requests, Check(n) \/ Serve(n)
      PROVE  OwnersInv'
  BY <1>6, ToolOwners DEF Check, Serve, requests, history, directory
<1>7. ASSUME NEW n \in Requests, Reply(n)
      PROVE  OwnersInv'
  <2>1. CASE ~Heard(session[n])
    BY <1>7, <2>1, ToolOwners DEF Reply, requests, history, directory
  <2>2. CASE Heard(session[n])
    <3>1. stage[n] = "sent" /\ pending[session[n]] = n
      BY <1>7, <2>2, HeardIsSent DEF Reply, Running
    <3>2. ask[n].op = "tool"
      BY <1>0, <3>1 DEF StageFits, Fits, McpStages
    <3>3. /\ UNCHANGED <<project, members, overlap, ask>>
          /\ stage' = [stage EXCEPT ![n] = "done"]
      BY <1>7, <2>2, <3>1 DEF Reply, Answer, directory, history
    <3>4. QED
      BY <1>0, <3>2, <3>3, ToolOwners
  <2>3. QED
    BY <2>1, <2>2
<1>8. CASE UNCHANGED vars
  <2>1. ChangesAlone => ChangesAlone'
    BY <1>8 DEF ChangesAlone, Changing, InHand, vars, requests
  <2>2. \A m \in Requests : Prepared(m) => Prepared(m)'
    BY <1>8 DEF Prepared, Takes, vars, requests, directory
  <2>3. OwnerRemains'
    BY <1>8 DEF OwnersInv, OwnerRemains, Owners, vars, directory, history
  <2>4. QED
    BY <1>8, <2>1, <2>2, <2>3 DEF OwnersInv, vars, requests, directory, history
<1>9. QED
  BY <1>1, <1>2, <1>3, <1>4, <1>5, <1>6, <1>7, <1>8 DEF Next, McpStep, ToolStep

(* A project keeps an owner, for any users and any changes of its members,  *)
(* as long as no two of these changes overlap.                             *)
THEOREM OwnersCorrect == Spec => []OwnerRemains
<1>1. Init => OwnersInv
  BY OwnersInit
<1>2. OwnersInv => OwnerRemains
  BY DEF OwnersInv
<1>3. QED
  BY <1>1, <1>2, SessionCorrect, OwnersStep, PTL DEF Spec

=============================================================================
