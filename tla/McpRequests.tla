----------------------------- MODULE McpRequests -----------------------------
(***************************************************************************)
(* A request of an MCP client: its token is looked up and touched, a       *)
(* session with a server of its own is made for it (mode "stateless") or   *)
(* taken from the cache (mode "local-session"), the requests of a session  *)
(* wait for one another, the tool runs, and the answer is matched to the   *)
(* request by the JSON-RPC id.  Every client counts its ids from one, so   *)
(* here all have the same id.  A request waits 30 s for the tool; the tool *)
(* goes on after that.                                                     *)
(*                                                                         *)
(* The web handlers of Access change the rights meanwhile.                 *)
(***************************************************************************)
EXTENDS Access

CONSTANTS Deployments       \* a store and a mode of handleMcpRequest, each

Modes == {"stateless", "local-session"}

ASSUME DeploymentsAssumption == Deployments \subseteq Stores \X Modes

(* A session has the number of the request that it was made for. *)
VARIABLES
    mode,
    session,    \* of each request
    cached,     \* sessions in the cache
    closed,
    line,       \* per session: the requests that wait for their turn, and the
                \* one that has it, first
    context,    \* per session: the request whose context sessionContext holds
    pending,    \* per session: the request an answer would be given to
    tool        \* the tool of each request

mcp == <<mode, session, cached, closed, line, context, pending, tool>>
vars == <<store, directory, workload, requests, history, mcp>>

TypeOK ==
    /\ store \in Stores /\ mode \in Modes /\ workload \in DOMAIN Workloads
    /\ project \in Users \cup {None}
    /\ members \in [Users -> Roles \cup {None}]
    /\ pats \in [Users -> Pat \cup {None}]
    /\ ask \in [Requests -> Workloads[workload] \cup {None}]
    /\ answer \in [Requests -> Answers \cup {None}]
    /\ session \in [Requests -> Requests \cup {None}]
    /\ {cached, closed, acted} \subseteq SUBSET Requests
    /\ line \in [Requests -> Seq(Requests)]
    /\ \A f \in {context, pending} : f \in [Requests -> Requests \cup {None}]
    /\ tool \in [Requests -> {"none", "called", "cleared", "acted", "refused", "gone"}]

Init ==
    /\ AccessInit
    /\ mode \in {m \in Modes : <<store, m>> \in Deployments}
    /\ session = [n \in Requests |-> None]
    /\ cached = {} /\ closed = {}
    /\ line = [n \in Requests |-> <<>>]
    /\ context = [n \in Requests |-> None]
    /\ pending = [n \in Requests |-> None]
    /\ tool = [n \in Requests |-> "none"]

-----------------------------------------------------------------------------
(* Who is it.                                                              *)

(* canWriteShared. *)
WritesShared(a) == a.keyed /\ a.cred = "pat" /\ a.by = Curator

Admitted(a) ==
    /\ a.cred = "pat" => Usable(pats[a.by])
    /\ a.curation => WritesShared(a)

(* handleMcpRequest up to the look at the token. *)
McpArrive(n, a) ==
    /\ a \in ToolCall
    /\ Arrive(n, a, IF Admitted(a) THEN "known" ELSE "done")
    /\ answer' = IF Admitted(a) THEN answer
                 ELSE [answer EXCEPT ![n] = Status(IF Authentic(a) THEN 403 ELSE 401)]
    /\ UNCHANGED <<store, directory, workload, acted, mcp>> /\ Witnessed

-----------------------------------------------------------------------------
(* Sessions.                                                               *)

(* sessionKey. *)
Key(a) == [by |-> IF a.cred = "automation" THEN None ELSE a.by, cred |-> a.cred,
           sharedWrite |-> WritesShared(a), curation |-> a.curation]

Fitting(a) == {s \in cached : Key(ask[s]) = Key(a)}

(* createMcpSession, or getOrCreateSession. *)
SessionFor(n) ==
    LET found == IF mode = "stateless" THEN {} ELSE Fitting(ask[n])
    IN  IF found = {} THEN n ELSE CHOOSE s \in found : TRUE

(* touchToken, which writes last_used_at and nothing else of the record;    *)
(* then the request has its session, and runWithContext puts it at the end *)
(* of the line.                                                            *)
Enter(n) ==
    LET s == SessionFor(n) IN
    /\ stage[n] = "known"
    /\ pats' = IF ask[n].cred = "pat" THEN [pats EXCEPT ![ask[n].by] = Touched(@)]
                                      ELSE pats
    /\ session' = [session EXCEPT ![n] = s]
    /\ cached' = IF mode = "stateless" THEN cached ELSE cached \cup {s}
    /\ line' = [line EXCEPT ![s] = Append(@, n)]
    /\ Go(n, "waiting")
    /\ UNCHANGED <<store, project, members, workload, acted, mode, closed,
                   context, pending, tool>> /\ Witnessed

Turn(n) == Head(line[session[n]]) = n

(* Mutant: the release stands outside the finally. *)
ReleasedIfOpen(s) == IF s \in closed THEN line ELSE [line EXCEPT ![s] = Tail(@)]

Released(s) == [line EXCEPT ![s] = Tail(@)]

(* Its turn has come.  A session closed meanwhile throws; another gets the *)
(* context, is initialized when it is new, and is sent the request.        *)
Send(n) ==
    LET s == session[n] IN
    /\ stage[n] = "waiting" /\ Turn(n)
    /\ IF s \in closed
       THEN Answer(n, Status(500)) /\ line' = Released(s) /\ UNCHANGED <<context, pending, tool>>
       ELSE /\ context' = [context EXCEPT ![s] = n]
            /\ pending' = [pending EXCEPT ![s] = n]
            /\ tool' = [tool EXCEPT ![n] = "called"]
            /\ Go(n, "sent") /\ UNCHANGED line
    /\ UNCHANGED <<store, directory, workload, history, mode, session, cached, closed>>

(* close, in stateless mode when the answer is there. *)
ClosedAfter(s) == IF mode = "stateless" THEN closed \cup {s} ELSE closed

(* retireSession and close.                                                *)
Retired(s) == cached \ {s}

(* Mutant: the session is taken out of the cache and not closed. *)
StillOpen(s) == closed

ClosedNow(s) == closed \cup {s}

(* McpRequestTimeoutError, in initialize or in send. *)
Timeout(n) ==
    LET s == session[n] IN
    /\ stage[n] = "sent"
    /\ cached' = Retired(s)
    /\ closed' = ClosedNow(s)
    /\ pending' = [pending EXCEPT ![s] = None]
    /\ line' = Released(s)
    /\ Answer(n, TimedOut)
    /\ UNCHANGED <<store, directory, workload, history, mode, session, context, tool>>

-----------------------------------------------------------------------------
(* The tool of request n, in the server of its session.                    *)

(* requireProjectAccess of the session's context, with the arguments of    *)
(* the call.                                                               *)
Check(n) ==
    LET c == ask[context[session[n]]] IN
    /\ tool[n] = "called"
    /\ tool' = [tool EXCEPT ![n] =
                    IF Guard(c, ask[n].on, ask[n].need) THEN "cleared" ELSE "refused"]
    /\ UNCHANGED <<store, directory, workload, requests, history, mode, session,
                   cached, closed, line, context, pending>>

(* The call of the memory service.                                         *)
Serve(n) ==
    /\ tool[n] = "cleared"
    /\ tool' = [tool EXCEPT ![n] = "acted"]
    /\ Acts(n)
    /\ UNCHANGED <<store, directory, workload, requests, seen, overlap, mode,
                   session, cached, closed, line, context, pending>>

(* The call is recorded and answered.                                      *)
(* onmessage: the answer goes to the request pending under its id.  It is  *)
(* lost when the session is closed or nobody waits.                        *)
Heard(s) == s \notin closed /\ pending[s] # None

Reply(n) ==
    LET s == session[n] IN
    /\ tool[n] \in {"acted", "refused"}
    /\ tool' = [tool EXCEPT ![n] = "gone"]
    /\ IF Heard(s)
       THEN /\ Answer(pending[s], Said(n))
            /\ pending' = [pending EXCEPT ![s] = None]
            /\ line' = Released(s)
            /\ closed' = ClosedAfter(s)
       ELSE UNCHANGED <<requests, pending, line, closed>>
    /\ UNCHANGED <<store, directory, workload, history, mode, session, cached, context>>

ToolStep(n) == Check(n) \/ Serve(n) \/ Reply(n)
McpStep(n) == Enter(n) \/ Send(n)

Next ==
    \/ \E n \in Requests, a \in Workloads[workload] : WebArrive(n, a) /\ UNCHANGED mcp
    \/ \E n \in Requests, a \in Workloads[workload] : McpArrive(n, a)
    \/ \E n \in Requests : WebStep(n) /\ UNCHANGED mcp
    \/ \E n \in Requests : McpStep(n)
    \/ \E n \in Requests : ToolStep(n)
    \/ \E n \in Requests : Timeout(n)

(* The store answers a lookup and a touch, and the SDK's timers go off. A  *)
(* tool may hang for ever: nothing is assumed of ToolStep.                 *)
Fairness == \A n \in Requests : WF_vars(McpStep(n)) /\ WF_vars(Timeout(n))

Spec == Init /\ [][Next]_vars
FairSpec == Spec /\ Fairness

-----------------------------------------------------------------------------
(* Properties.                                                             *)

(* A project keeps an owner, whatever its owners do to one another and to  *)
(* themselves (assertOwnerRemains), as long as no two changes of its       *)
(* members overlap: nothing holds the list of owners between the check and *)
(* the change.                                                             *)
OwnerRemains == project # None /\ ~overlap => Owners # {}

(* A revoked token stays revoked: a request that found it usable before,   *)
(* and touches it after, does not bring it back (touchToken).              *)
RevokedStaysRevoked ==
    [][\A u \in Users :
          pats[u] # None /\ pats[u].revoked => pats'[u] # None /\ pats'[u].revoked]_vars

(* Whatever a request did, by web or by tool, its credential was good and  *)
(* its user had the right to it at some moment since it arrived: through   *)
(* shared sessions, changes of role, revocations and tools that outlive    *)
(* their request.                                                          *)
ActsOnRights == \A n \in acted : seen[n] = {"authentic", "entitled"}

(* The answer of a tool goes to the request that called it, though all     *)
(* requests have the same id: an answer that comes after the time-out      *)
(* cannot be taken for the answer to the next request of the session.      *)
OwnAnswer == \A m, n \in Requests : answer[n] = Said(m) => m = n

(* Every tool call is answered, at the latest by its time-out, also when   *)
(* it waits behind one whose tool hangs.                                   *)
EveryCallAnswered ==
    \A n \in Requests : stage[n] = "known" ~> stage[n] = "done"

=============================================================================
