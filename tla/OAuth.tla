-------------------------------- MODULE OAuth --------------------------------
(***************************************************************************)
(* The OAuth login of one client by one user: consent, authorization code, *)
(* token pairs, rotation of refresh tokens, and the three ways to revoke.  *)
(* Every request handler of OAuthService is a sequence of store calls, and *)
(* handlers of different requests interleave between them: the counters    *)
(* and transactions are kept in Firestore because several processes may    *)
(* serve at once.  A transaction of a store is one step.                    *)
(*                                                                         *)
(* There are two stores.  They differ in what a revocation reaches.         *)
(***************************************************************************)
EXTENDS Naturals, FiniteSets

CONSTANTS
    Handlers,       \* request handlers that may run at once
    Stores,         \* the stores to consider: "sqlite" (local), "firestore" (cloud)
    Limit,          \* calls per window of the rate limit, by bucket
    MaxConsents,    \* bound: authorizations begun
    MaxWindows,     \* bound: windows of the rate limit
    Faults

(* "stop": a handler gets no further, because a store call rejects or the   *)
(* instance dies.  "retry": the SDK repeats the callback of a Firestore     *)
(* transaction that had committed.  A commit whose answer is lost leaves    *)
(* the stores as an answer that never reaches the client does.             *)
FaultKinds == {"stop", "retry"}

ASSUME StoresAssumption == Stores \subseteq {"sqlite", "firestore"}
ASSUME FaultsAssumption == Faults \subseteq FaultKinds
Buckets == {"token", "revoke"}

ASSUME BoundsAssumption == {MaxConsents, MaxWindows} \subseteq Nat
ASSUME LimitAssumption == Limit \in [Buckets -> Nat]

VARIABLES
    store,
    consents,   \* authorization transactions
    codes,      \* authorization codes; the id of a code is the id of its grant
    pairs,      \* token pairs, access and refresh, in one record
    grants,
    taken,      \* rate limit counters of the present window
    window,
    hs,         \* request handlers
    presented,  \* history: refresh tokens sent to the token endpoint
    cause       \* history: grants somebody or something gave a reason to revoke

tables == <<consents, codes, pairs, grants>>
rates == <<taken, window>>
vars == <<store, tables, rates, hs, presented, cause>>

Consents == 1..MaxConsents
Grants == 1..MaxConsents
Pairs == 1..(Limit["token"] * MaxWindows)        \* each takes a call to the token endpoint

(* gone and closed: used, or expired. *)
Code == [id: Grants, consent: Consents, state: {"new", "gone"}]

(* spent: replaced_at and revoked_at are set.  The expiry of an access token *)
(* is left out: it only makes fewer tokens usable, and revocation ignores it. *)
Pair == [id: Pairs, grant: Grants, access: {"live", "revoked"},
         refresh: {"live", "expired", "spent", "revoked"}]

(* of: the consent, code, pair or grant the request is about. *)
Handler == [pc: {"idle", "consent", "code", "exchange", "issue", "rotate", "family",
                 "look", "mark", "grant"}, of: Nat]
NoHandler == [pc |-> "idle", of |-> 0]

(* verifyAccessToken takes no notice of the grant. *)
Usable(p) == p.access = "live"

Of(k) == {p \in pairs : p.grant = k}
PairOf(i) == CHOOSE p \in pairs : p.id = i
CodeOf(i) == CHOOSE c \in codes : c.id = i

Init ==
    /\ store \in Stores
    /\ consents = [c \in Consents |-> "none"]
    /\ codes = {} /\ pairs = {}
    /\ grants = [g \in Grants |-> "none"]
    /\ taken = [b \in Buckets |-> 0] /\ window = 1
    /\ hs = [h \in Handlers |-> NoHandler]
    /\ presented = {} /\ cause = {}

-----------------------------------------------------------------------------
(* Requests.                                                               *)

Arrive(h, pc, of) ==
    /\ hs[h] = NoHandler
    /\ hs' = [hs EXCEPT ![h] = [pc |-> pc, of |-> of]]

(* takeRateLimit; a request beyond the limit gets 429 and does nothing. *)
TakeRateLimit(bucket) ==
    /\ taken[bucket] < Limit[bucket]
    /\ taken' = [taken EXCEPT ![bucket] = @ + 1]
    /\ UNCHANGED window

NextWindow ==
    /\ window < MaxWindows
    /\ window' = window + 1
    /\ taken' = [b \in Buckets |-> 0]
    /\ UNCHANGED <<store, tables, hs, presented, cause>>

BeginAuthorization(c) ==
    /\ consents[c] = "none"
    /\ \A d \in 1..(c - 1) : consents[d] # "none"
    /\ consents' = [consents EXCEPT ![c] = "open"]
    /\ UNCHANGED <<store, codes, pairs, grants, rates, hs, presented, cause>>

(* The consent form, sent once or more. *)
Submit(h, c) ==
    /\ consents[c] # "none"
    /\ Arrive(h, "consent", c)
    /\ UNCHANGED <<store, tables, rates, presented, cause>>

Exchange(h, c) ==
    /\ TakeRateLimit("token")
    /\ Arrive(h, "exchange", c.id)
    /\ UNCHANGED <<store, tables, presented, cause>>

(* A refresh token that comes again is a reason to revoke, whether its     *)
(* client lost the answer or sent it twice.                                *)
Refresh(h, p) ==
    /\ TakeRateLimit("token")
    /\ Arrive(h, "rotate", p.id)
    /\ presented' = presented \cup {p.id}
    /\ cause' = IF p.id \in presented THEN cause \cup {p.grant} ELSE cause
    /\ UNCHANGED <<store, tables>>

(* POST /oauth/revoke with either token of a pair: revokeToken looks for an *)
(* access token first.                                                     *)
RevokeAccess(h, p) ==
    /\ TakeRateLimit("revoke")
    /\ Arrive(h, "look", p.id)
    /\ UNCHANGED <<store, tables, presented, cause>>

RevokeRefresh(h, p) ==
    /\ TakeRateLimit("revoke")
    /\ Arrive(h, "family", p.id)
    /\ cause' = cause \cup {p.grant}
    /\ UNCHANGED <<store, tables, presented>>

(* DELETE of a grant on the settings page. *)
Settings(h, g) ==
    /\ grants[g] # "none"
    /\ Arrive(h, "grant", g)
    /\ cause' = cause \cup {g}
    /\ UNCHANGED <<store, tables, rates, presented>>

-----------------------------------------------------------------------------
(* Time.                                                                    *)

ExpireConsent(c) ==
    /\ consents[c] = "open"
    /\ consents' = [consents EXCEPT ![c] = "closed"]
    /\ UNCHANGED <<store, codes, pairs, grants, rates, hs, presented, cause>>

ExpireCode(c) ==
    /\ c.state = "new"
    /\ codes' = (codes \ {c}) \cup {[c EXCEPT !.state = "gone"]}
    /\ UNCHANGED <<store, consents, pairs, grants, rates, hs, presented, cause>>

ExpireRefresh(p) ==
    /\ p.refresh = "live"
    /\ pairs' = (pairs \ {p}) \cup {[p EXCEPT !.refresh = "expired"]}
    /\ cause' = cause \cup {p.grant}
    /\ UNCHANGED <<store, consents, codes, grants, rates, hs, presented>>

-----------------------------------------------------------------------------
(* Steps of the handlers.                                                   *)

Answer(h) == hs' = [hs EXCEPT ![h] = NoHandler]
Goto(h, pc, of) == hs' = [hs EXCEPT ![h] = [pc |-> pc, of |-> of]]

ConsentRepeated(c) == consents[c] # "none"     \* mutant: consumed_at is not read
ConsentValid(c) == consents[c] = "open"

(* consumeAuthorizationTransaction.  The user may also have refused; and a  *)
(* repeated callback finds the transaction consumed and answers null.      *)
ConsumeConsent(h) ==
    LET c == hs[h].of IN
    /\ hs[h].pc = "consent"
    /\ IF ConsentValid(c)
       THEN /\ consents' = [consents EXCEPT ![c] = "closed"]
            /\ Goto(h, "code", c) \/ Answer(h)
       ELSE Answer(h) /\ UNCHANGED consents
    /\ UNCHANGED <<store, codes, pairs, grants, rates, presented, cause>>

CreateAuthorizationCode(c) ==
    codes' = codes \cup {[id |-> Cardinality(codes) + 1, consent |-> c, state |-> "new"]}

CreateCode(h) ==
    /\ hs[h].pc = "code"
    /\ CreateAuthorizationCode(hs[h].of)
    /\ Answer(h)
    /\ UNCHANGED <<store, consents, pairs, grants, rates, presented, cause>>

CodeValid(c) == c.state = "new"

(* consumeAuthorizationCode.  A wrong verifier is noticed afterwards: the   *)
(* code is gone then, as it is when the answer was lost.                    *)
ConsumeCode(h) ==
    LET c == CodeOf(hs[h].of) IN
    /\ hs[h].pc = "exchange"
    /\ IF CodeValid(c)
       THEN /\ codes' = (codes \ {c}) \cup {[c EXCEPT !.state = "gone"]}
            /\ Goto(h, "issue", c.id) \/ Answer(h)
       ELSE Answer(h) /\ UNCHANGED codes
    /\ UNCHANGED <<store, consents, pairs, grants, rates, presented, cause>>

NewPair(g) == [id |-> Cardinality(pairs) + 1, grant |-> g, access |-> "live", refresh |-> "live"]

CreateTokenSet(g) ==
    /\ pairs' = pairs \cup {NewPair(g)}
    /\ grants' = [grants EXCEPT ![g] = "active"]

(* issueTokenSet, for the grant of the code just consumed. *)
IssueTokenSet(h) ==
    /\ hs[h].pc = "issue"
    /\ CreateTokenSet(hs[h].of)
    /\ Answer(h)
    /\ UNCHANGED <<store, consents, codes, rates, presented, cause>>

RotationUnchecked(p) == p.refresh \in {"live", "revoked"}   \* mutant: revoked_at is not read
RotationAccepts(p) == p.refresh = "live"

RotatedAll(p) ==                                   \* mutant: the new token is marked as well
    {IF q = p THEN [q EXCEPT !.refresh = "spent"] ELSE q : q \in pairs}
    \cup {[NewPair(p.grant) EXCEPT !.refresh = "spent"]}
RotatedBeside(p) == pairs \cup {NewPair(p.grant)}  \* mutant: the old token is not marked
Rotated(p) == (pairs \ {p}) \cup {[p EXCEPT !.refresh = "spent"], NewPair(p.grant)}

(* rotateRefreshToken.  The repeated callback of a committed rotation finds *)
(* the token replaced, and the service takes that for reuse.               *)
Rotate(h) ==
    LET p == PairOf(hs[h].of) IN
    /\ hs[h].pc = "rotate"
    /\ IF RotationAccepts(p)
       THEN /\ pairs' = Rotated(p)
            /\ \/ Answer(h) /\ UNCHANGED cause
               \/ "retry" \in Faults /\ store = "firestore"
                  /\ Goto(h, "family", p.id) /\ cause' = cause \cup {p.grant}
       ELSE Goto(h, "family", p.id) /\ UNCHANGED <<pairs, cause>>
    /\ UNCHANGED <<store, consents, codes, grants, rates, presented>>

(* revokeAccessTokenByHash: read, then written without a transaction. *)
Look(h) ==
    /\ hs[h].pc = "look"
    /\ IF PairOf(hs[h].of).access = "live" THEN Goto(h, "mark", hs[h].of) ELSE Answer(h)
    /\ UNCHANGED <<store, tables, rates, presented, cause>>

Mark(h) ==
    LET p == PairOf(hs[h].of) IN
    /\ hs[h].pc = "mark"
    /\ pairs' = (pairs \ {p}) \cup {[p EXCEPT !.access = "revoked"]}
    /\ Answer(h)
    /\ UNCHANGED <<store, consents, codes, grants, rates, presented, cause>>

Revoked(p, access) ==
    [p EXCEPT !.access = IF access THEN "revoked" ELSE @,
              !.refresh = IF @ \in {"live", "expired"} THEN "revoked" ELSE @]

(* Both tokens of every pair of the grant.  Its code has been used, or the  *)
(* grant would not exist, so no code is left to revoke.                     *)
RevokedInGrant(g) == {IF p.grant = g THEN Revoked(p, TRUE) ELSE p : p \in pairs}

(* revokeIndexedCredentials in a Firestore transaction, where a read after  *)
(* a write throws.  It reads the credentials in the order of their hashes   *)
(* and writes each that is not revoked: so it gets through with none to     *)
(* write, or with one that happens to come last (the used code of the grant *)
(* is always among those it reads).  Within a family it passes over access *)
(* tokens, whose index entries carry no family.                            *)
RevokeIndexed(g, access) ==
    LET unrevoked == {<<p.id, "refresh">> : p \in {p \in Of(g) : p.refresh \in {"live", "expired"}}}
                \cup {<<p.id, "access">> : p \in {p \in Of(g) : access /\ p.access = "live"}}
        committed ==
            /\ Cardinality(unrevoked) <= 1
            /\ pairs' = {IF p.grant = g THEN Revoked(p, access) ELSE p : p \in pairs}
            /\ grants' = [grants EXCEPT ![g] = "revoked"]
        thrown == unrevoked # {} /\ UNCHANGED <<pairs, grants>>
    IN committed \/ thrown

RevokeAll(g, access) ==
    IF store = "firestore" THEN RevokeIndexed(g, access)
    ELSE /\ pairs' = RevokedInGrant(g)
         /\ grants' = [grants EXCEPT ![g] = "revoked"]

(* revokeRefreshTokenFamilyByHash, after a refused rotation or on request. *)
RevokeFamily(h) ==
    /\ hs[h].pc = "family"
    /\ RevokeAll(PairOf(hs[h].of).grant, FALSE)
    /\ Answer(h)
    /\ UNCHANGED <<store, consents, codes, rates, presented, cause>>

(* revokeGrant *)
RevokeGrant(h) ==
    /\ hs[h].pc = "grant"
    /\ RevokeAll(hs[h].of, TRUE)
    /\ Answer(h)
    /\ UNCHANGED <<store, consents, codes, rates, presented, cause>>

Stop(h) ==
    /\ "stop" \in Faults /\ hs[h] # NoHandler
    /\ Answer(h)
    /\ UNCHANGED <<store, tables, rates, presented, cause>>

-----------------------------------------------------------------------------
Requests(h) ==
    \/ \E c \in Consents : Submit(h, c)
    \/ \E c \in codes : Exchange(h, c)
    \/ \E p \in pairs : Refresh(h, p) \/ RevokeAccess(h, p) \/ RevokeRefresh(h, p)
    \/ \E g \in Grants : Settings(h, g)

Steps(h) ==
    \/ ConsumeConsent(h) \/ CreateCode(h) \/ ConsumeCode(h) \/ IssueTokenSet(h)
    \/ Rotate(h) \/ Look(h) \/ Mark(h) \/ RevokeFamily(h) \/ RevokeGrant(h) \/ Stop(h)

Time ==
    \/ NextWindow
    \/ \E c \in Consents : BeginAuthorization(c) \/ ExpireConsent(c)
    \/ \E c \in codes : ExpireCode(c)
    \/ \E p \in pairs : ExpireRefresh(p)

Next == Time \/ \E h \in Handlers : Requests(h) \/ Steps(h)

Spec == Init /\ [][Next]_vars

-----------------------------------------------------------------------------
(* Every variable keeps its shape, and every credential belongs to a grant. *)
TypeOK ==
    /\ store \in Stores
    /\ consents \in [Consents -> {"none", "open", "closed"}]
    /\ codes \subseteq Code /\ pairs \subseteq Pair
    /\ grants \in [Grants -> {"none", "active", "revoked"}]
    /\ \A p \in pairs : grants[p.grant] # "none"
    /\ taken \in [Buckets -> Nat] /\ \A b \in Buckets : taken[b] <= Limit[b] /\ window \in 1..MaxWindows
    /\ hs \in [Handlers -> Handler]
    /\ presented \subseteq Pairs /\ cause \subseteq Grants

(* A consent is turned into one code at most, however often its form is    *)
(* sent and wherever a handler stops.                                      *)
OneConsentOneCode == \A c, d \in codes : c.consent = d.consent => c = d

(* A grant never has two refresh tokens to go on with: neither a code that  *)
(* is exchanged twice nor a token that is rotated twice forks it.          *)
OneLiveRefresh == \A p, q \in pairs :
    p.grant = q.grant /\ p.refresh = "live" /\ q.refresh = "live" => p = q

(* What was revoked stays revoked, whatever handlers were under way: in the *)
(* local store a revoked grant has no usable token, now or later.           *)
EndedForGood ==
    store = "sqlite" =>
        \A p \in pairs : grants[p.grant] = "revoked" => ~Usable(p) /\ p.refresh # "live"

(* A grant is revoked only if a user or client asked for it, a token that   *)
(* was already sent came again, the token to go on with expired, or the SDK *)
(* repeated a rotation: a client that refreshes in turn keeps its login.    *)
RevokedForCause == \A g \in Grants : grants[g] = "revoked" => g \in cause

(* A revocation that reaches the store leaves no token of its grant usable. *)
RevocationRevokes ==
    [][\A h \in Handlers :
          LET g == IF hs[h].pc = "grant" THEN hs[h].of ELSE PairOf(hs[h].of).grant IN
          RevokeFamily(h) \/ RevokeGrant(h) =>
              \A p \in pairs' : p.grant = g => ~Usable(p) /\ p.refresh # "live"]_vars

=============================================================================
