---------------------------- MODULE OAuth_proofs ----------------------------
(***************************************************************************)
(* Proofs about OAuth for any handlers, limits, windows and consents, both *)
(* stores and every fault: a consent gives one code, a grant has one       *)
(* refresh token to go on with, what was revoked stays revoked in the      *)
(* local store, and nothing is revoked without a cause.                    *)
(***************************************************************************)
EXTENDS OAuth, FiniteSetTheorems, TLAPS

-----------------------------------------------------------------------------
(* The inductive invariants.                                               *)

(* The tables number their rows from one: the next row has a new number.   *)
Ids(S) == {r.id : r \in S}
Unique(S) == \A r, s \in S : r.id = s.id => r = s
Numbered(S) == Unique(S) /\ Cardinality(S) \in Nat /\ Ids(S) = 1..Cardinality(S)

(* A pair without the bound on the number of pairs, which is counted by TLC. *)
PairType == [id: Nat, grant: Grants, access: {"live", "revoked"},
             refresh: {"live", "expired", "spent", "revoked"}]

At(h, pc) == hs[h].pc = pc

(* A consent that a code comes from is closed; so is that of a handler      *)
(* about to make the code, which is the only one and finds none.           *)
ConsentInv ==
    /\ consents \in [Consents -> {"none", "open", "closed"}]
    /\ codes \subseteq Code /\ Numbered(codes)
    /\ hs \in [Handlers -> Handler]
    /\ OneConsentOneCode
    /\ \A c \in codes : consents[c.consent] = "closed"
    /\ \A h \in Handlers :
          /\ At(h, "consent") => hs[h].of \in Consents
          /\ At(h, "code") => /\ hs[h].of \in Consents /\ consents[hs[h].of] = "closed"
                              /\ \A c \in codes : c.consent # hs[h].of
          /\ hs[h].pc \in {"exchange", "issue"} => hs[h].of \in Ids(codes)
    /\ \A h, k \in Handlers :
          At(h, "code") /\ At(k, "code") /\ hs[h].of = hs[k].of => h = k

(* A grant begins with its first pair, for a code that is gone; until then  *)
(* at most one handler is about to issue it.                               *)
IssueInv ==
    /\ \A g \in Grants : grants[g] # "none" => g \in Ids(codes)
    /\ \A c \in codes : c.state = "new" => grants[c.id] = "none"
    /\ \A h \in Handlers :
          /\ At(h, "issue") => /\ grants[hs[h].of] = "none"
                               /\ \A c \in codes : c.id = hs[h].of => c.state # "new"
          /\ At(h, "grant") => hs[h].of \in Grants /\ grants[hs[h].of] # "none"
          /\ hs[h].pc \in {"rotate", "family", "look", "mark"} => hs[h].of \in Ids(pairs)
    /\ \A h, k \in Handlers :
          At(h, "issue") /\ At(k, "issue") /\ hs[h].of = hs[k].of => h = k

PairInv ==
    /\ store \in Stores
    /\ grants \in [Grants -> {"none", "active", "revoked"}]
    /\ pairs \subseteq PairType /\ Numbered(pairs)
    /\ \A p \in pairs : grants[p.grant] # "none"
    /\ OneLiveRefresh /\ EndedForGood

GrantInv == IssueInv /\ PairInv

(* Why a token is no more live, and why a handler is about to revoke: it    *)
(* expired, it was presented before, or somebody asked for it.             *)
CauseInv ==
    /\ \A p \in pairs :
          /\ p.refresh \in {"expired", "revoked"} => p.grant \in cause
          /\ p.refresh = "spent" => p.id \in presented
    /\ \A h \in Handlers, p \in pairs : hs[h].of = p.id =>
          /\ At(h, "family") => p.grant \in cause
          /\ At(h, "rotate") => p.id \in presented /\ (p.refresh = "spent" => p.grant \in cause)
    /\ \A h \in Handlers : At(h, "grant") => hs[h].of \in cause
    /\ \A h, k \in Handlers, p \in pairs :
          At(h, "rotate") /\ At(k, "rotate") /\ hs[h].of = p.id /\ hs[k].of = p.id
              => h = k \/ p.grant \in cause
    /\ RevokedForCause

-----------------------------------------------------------------------------
(* Numbered tables.                                                        *)

(* As many rows as numbers. *)
LEMMA Counted ==
    ASSUME NEW S, Unique(S), NEW N \in Nat, Ids(S) = 1..N
    PROVE  Numbered(S) /\ Cardinality(S) = N
<1> DEFINE f == [r \in S |-> r.id]
<1>1. f \in Injection(S, 1..N) /\ f \in Surjection(S, 1..N)
  BY DEF Unique, Ids, Injection, Surjection, IsInjective
<1>2. IsFiniteSet(1..N) /\ Cardinality(1..N) = N
  BY FS_Interval
<1>3. Cardinality(S) = N
  BY <1>1, <1>2, FS_Injection
<1>4. QED
  BY <1>3 DEF Numbered

(* A row is rewritten under its number. *)
LEMMA Rewritten ==
    ASSUME NEW S, Numbered(S), NEW r \in S, NEW s, s.id = r.id
    PROVE  /\ Numbered((S \ {r}) \cup {s})
           /\ Ids((S \ {r}) \cup {s}) = Ids(S)
           /\ Cardinality((S \ {r}) \cup {s}) = Cardinality(S)
<1> DEFINE T == (S \ {r}) \cup {s}
<1>1. Unique(T)
  BY DEF Numbered, Unique
<1>2. Ids(T) = Ids(S)
  BY DEF Ids
<1>3. QED
  BY <1>1, <1>2, Counted DEF Numbered

(* A new row gets the next number. *)
LEMMA Extended ==
    ASSUME NEW S, Numbered(S), NEW s, s.id = Cardinality(S) + 1
    PROVE  /\ Numbered(S \cup {s})
           /\ Ids(S \cup {s}) = Ids(S) \cup {s.id}
           /\ \A r \in S : r.id # s.id
<1> DEFINE T == S \cup {s}
<1>1. \A r \in S : r.id \in 1..Cardinality(S)
  BY DEF Numbered, Ids
<1>2. \A r \in S : r.id # s.id
  BY <1>1 DEF Numbered
<1>3. Unique(T)
  BY <1>2 DEF Numbered, Unique
<1>4. Ids(T) = Ids(S) \cup {s.id}
  BY DEF Ids
<1>5. PICK N \in Nat : N = Cardinality(S) /\ Ids(S) = 1..N /\ s.id = N + 1
  BY DEF Numbered
<1>6. (1..N) \cup {N + 1} = 1..(N + 1)
  OBVIOUS
<1>7. Ids(T) = 1..(N + 1) /\ N + 1 \in Nat
  <2>1. Ids(T) = (1..N) \cup {N + 1}
    BY <1>4, <1>5
  <2>2. Ids(T) = 1..(N + 1)
    BY <2>1, <1>6, Zenon
  <2>3. QED
    BY <2>2
<1>8. Numbered(T)
  BY <1>3, <1>7, Counted
<1>9. QED
  BY <1>2, <1>4, <1>8

(* Rows that are rewritten all at once keep their numbers. *)
LEMMA RewrittenAll ==
    ASSUME NEW S, Numbered(S), NEW T,
           \A t \in T : \E r \in S : r.id = t.id,
           \A r \in S : \E t \in T : t.id = r.id,
           Unique(T)
    PROVE  Numbered(T) /\ Ids(T) = Ids(S) /\ Cardinality(T) = Cardinality(S)
<1>1. Ids(T) = Ids(S)
  BY DEF Ids
<1>2. QED
  BY <1>1, Counted DEF Numbered

(* The row of a number. *)
LEMMA CodeOfIs ==
    ASSUME Unique(codes), NEW i \in Ids(codes)
    PROVE  CodeOf(i) \in codes /\ CodeOf(i).id = i /\ \A c \in codes : c.id = i => c = CodeOf(i)
<1>1. \E c \in codes : c.id = i
  BY DEF Ids
<1>2. CodeOf(i) \in codes /\ CodeOf(i).id = i
  BY <1>1 DEF CodeOf
<1>3. QED
  BY <1>2 DEF Unique

LEMMA PairOfIs ==
    ASSUME Unique(pairs), NEW i \in Ids(pairs)
    PROVE  PairOf(i) \in pairs /\ PairOf(i).id = i /\ \A p \in pairs : p.id = i => p = PairOf(i)
<1>1. \E p \in pairs : p.id = i
  BY DEF Ids
<1>2. PairOf(i) \in pairs /\ PairOf(i).id = i
  BY <1>1 DEF PairOf
<1>3. QED
  BY <1>2 DEF Unique

(* A code for every consent at most: as long as one has none, there is a    *)
(* number left for it.                                                     *)
LEMMA CodesFit ==
    ASSUME ConsentInv, NEW k \in Consents, \A c \in codes : c.consent # k
    PROVE  Cardinality(codes) + 1 \in Grants
<1> DEFINE f == [c \in codes |-> c.consent]
<1>1. f \in Injection(codes, Consents \ {k})
  BY DEF ConsentInv, OneConsentOneCode, Code, Injection, IsInjective
<1>2. MaxConsents \in Nat
  BY BoundsAssumption
<1>3. IsFiniteSet(Consents) /\ Cardinality(Consents) = MaxConsents
  BY <1>2, FS_Interval DEF Consents
<1>4. /\ IsFiniteSet(Consents \ {k})
      /\ Cardinality(Consents \ {k}) = MaxConsents - 1
  BY <1>3, FS_RemoveElement
<1>5. Cardinality(codes) <= MaxConsents - 1
  BY <1>1, <1>4, FS_Injection
<1>6. QED
  BY <1>2, <1>5 DEF ConsentInv, Numbered, Grants

-----------------------------------------------------------------------------
(* Handlers.                                                               *)

(* One handler moves, or none. *)
Moves(h, x) == hs' = [hs EXCEPT ![h] = x]

LEMMA MovesOne ==
    ASSUME hs \in [Handlers -> Handler], NEW h \in Handlers, NEW x \in Handler, Moves(h, x)
    PROVE  /\ hs' \in [Handlers -> Handler] /\ hs'[h] = x
           /\ \A k \in Handlers : k # h => hs'[k] = hs[k]
  BY DEF Moves

Pcs == {"idle", "consent", "code", "exchange", "issue", "rotate", "family", "look", "mark",
        "grant"}

LEMMA HandlerType ==
    /\ NoHandler \in Handler /\ NoHandler.pc = "idle"
    /\ \A pc \in Pcs : \A of \in Nat :
          [pc |-> pc, of |-> of] \in Handler
  BY DEF NoHandler, Handler, Pcs

LEMMA ArriveGoes == \A h, pc, of : Arrive(h, pc, of) => Goto(h, pc, of)
  BY DEF Arrive, Goto

-----------------------------------------------------------------------------
(* Consents and codes.                                                     *)

(* A request that arrives, and a step that touches neither consents nor     *)
(* codes.                                                                  *)
LEMMA ConsentQuiet ==
    ASSUME ConsentInv, UNCHANGED <<consents, codes>>,
           \/ hs' = hs
           \/ \E h \in Handlers, x \in Handler :
                 /\ Moves(h, x) /\ x.pc # "code"
                 /\ x.pc = "consent" => x.of \in Consents
                 /\ x.pc \in {"exchange", "issue"} => x.of \in Ids(codes)
    PROVE  ConsentInv'
<1>1. CASE hs' = hs
  BY <1>1 DEF ConsentInv, OneConsentOneCode, At
<1>2. ASSUME NEW h \in Handlers, NEW x \in Handler, Moves(h, x), x.pc # "code",
             x.pc = "consent" => x.of \in Consents,
             x.pc \in {"exchange", "issue"} => x.of \in Ids(codes)
      PROVE  ConsentInv'
  <2>1. /\ hs' \in [Handlers -> Handler] /\ hs'[h] = x
        /\ \A k \in Handlers : k # h => hs'[k] = hs[k]
    BY <1>2, MovesOne DEF ConsentInv
  <2>2. QED
    BY <2>1, <1>2 DEF ConsentInv, OneConsentOneCode, At
<1>3. QED
  BY <1>1, <1>2

(* A code that is rewritten keeps its consent and its number. *)
LEMMA CodeSpent ==
    ASSUME ConsentInv, NEW c \in codes, UNCHANGED consents,
           codes' = (codes \ {c}) \cup {[c EXCEPT !.state = "gone"]},
           \/ hs' = hs
           \/ \E h \in Handlers, x \in Handler :
                 /\ Moves(h, x) /\ x.pc \in {"issue", "idle"}
                 /\ x.pc = "issue" => x.of \in Ids(codes)
    PROVE  /\ ConsentInv' /\ Ids(codes') = Ids(codes)
           /\ \A e \in codes' : (e \in codes /\ e # c) \/ (e.id = c.id /\ e.state = "gone")
<1> DEFINE d == [c EXCEPT !.state = "gone"]
<1>1. d \in Code /\ d.id = c.id /\ d.consent = c.consent /\ d.state = "gone"
  BY DEF ConsentInv, Code
<1>0. codes' = (codes \ {c}) \cup {d}
  OBVIOUS
<1> HIDE DEF d
<1>2. codes' \subseteq Code /\ Numbered(codes') /\ Ids(codes') = Ids(codes)
  BY <1>0, <1>1, Rewritten DEF ConsentInv
<1>3. \A e \in codes' : \E f \in codes : e.consent = f.consent
  BY <1>0, <1>1
<1>4. OneConsentOneCode'
  BY <1>0, <1>1 DEF OneConsentOneCode, ConsentInv
<1>5. ASSUME hs' = hs PROVE ConsentInv'
  <2>1. \A h \in Handlers : At(h, "code") => \A e \in codes' : e.consent # hs[h].of
    BY <1>3 DEF ConsentInv
  <2>2. \A e \in codes' : consents'[e.consent] = "closed"
    BY <1>3 DEF ConsentInv
  <2>3. QED
    BY <1>2, <1>4, <1>5, <2>1, <2>2 DEF ConsentInv, At
<1>6. ASSUME NEW h \in Handlers, NEW x \in Handler, Moves(h, x), x.pc \in {"issue", "idle"},
             x.pc = "issue" => x.of \in Ids(codes)
      PROVE  ConsentInv'
  <2>1. /\ hs' \in [Handlers -> Handler] /\ hs'[h] = x
        /\ \A k \in Handlers : k # h => hs'[k] = hs[k]
    BY <1>6, MovesOne DEF ConsentInv
  <2>2. ASSUME NEW j \in Handlers
        PROVE  /\ At(j, "consent")' => hs'[j].of \in Consents
               /\ At(j, "code")' => /\ hs'[j].of \in Consents /\ consents'[hs'[j].of] = "closed"
                                    /\ \A e \in codes' : e.consent # hs'[j].of
               /\ hs'[j].pc \in {"exchange", "issue"} => hs'[j].of \in Ids(codes')
    <3>1. CASE j = h
      BY <3>1, <2>1, <1>2, <1>6 DEF At
    <3>2. CASE j # h
      BY <3>2, <2>1, <1>2, <1>3 DEF At, ConsentInv
    <3>3. QED
      BY <3>1, <3>2
  <2>3. \A i, j \in Handlers :
           At(i, "code")' /\ At(j, "code")' /\ hs'[i].of = hs'[j].of => i = j
    BY <2>1, <1>6 DEF At, ConsentInv
  <2>4. \A e \in codes' : consents'[e.consent] = "closed"
    BY <1>3 DEF ConsentInv
  <2>5. consents' \in [Consents -> {"none", "open", "closed"}]
    BY DEF ConsentInv
  <2>6. QED
    BY <2>1, <2>2, <2>3, <2>4, <2>5, <1>2, <1>4 DEF ConsentInv
<1>7. QED
  <2>1. ConsentInv'
    BY <1>5, <1>6
  <2>2. \A e \in codes' : (e \in codes /\ e # c) \/ (e.id = c.id /\ e.state = "gone")
    BY <1>0, <1>1
  <2>3. QED
    BY <1>2, <2>1, <2>2

(* A consent that is not closed has no code, and no handler that makes one. *)
LEMMA ConsentMoves ==
    ASSUME ConsentInv, NEW c \in Consents, NEW state \in {"open", "closed"},
           consents[c] # "closed", consents' = [consents EXCEPT ![c] = state],
           UNCHANGED <<codes, hs>>
    PROVE  ConsentInv'
<1>1. consents' \in [Consents -> {"none", "open", "closed"}]
  BY DEF ConsentInv
<1>2. \A d \in codes : consents'[d.consent] = "closed"
  BY DEF ConsentInv, Code
<1>3. \A h \in Handlers : At(h, "code") => consents'[hs[h].of] = "closed"
  BY DEF ConsentInv
<1>4. OneConsentOneCode' /\ Numbered(codes)' /\ (codes \subseteq Code)'
  BY DEF ConsentInv, OneConsentOneCode
<1>5. \A h \in Handlers : At(h, "code")' <=> At(h, "code")
  BY DEF At
<1>6. QED
  BY <1>1, <1>2, <1>3, <1>4, <1>5 DEF ConsentInv, At

LEMMA ConsumeConsentHolds ==
    ASSUME ConsentInv, NEW h \in Handlers, ConsumeConsent(h)
    PROVE  ConsentInv'
<1> DEFINE c == hs[h].of
<1>1. c \in Consents /\ codes' = codes
  BY DEF ConsentInv, ConsumeConsent, At
<1>2. CASE consents' = consents /\ Answer(h)
  BY <1>1, <1>2, ConsentQuiet, HandlerType DEF Answer, Moves
<1>3. CASE ConsentValid(c)
  <2>1. /\ consents[c] = "open" /\ consents' = [consents EXCEPT ![c] = "closed"]
        /\ \E x \in Handler : Moves(h, x) /\ (x = [pc |-> "code", of |-> c] \/ x = NoHandler)
    BY <1>1, <1>3, HandlerType DEF ConsumeConsent, ConsentValid, Goto, Answer, Moves, Consents, Pcs
  <2>2. PICK x \in Handler : Moves(h, x) /\ (x = [pc |-> "code", of |-> c] \/ x = NoHandler)
    BY <2>1
  <2>3. /\ hs' \in [Handlers -> Handler] /\ hs'[h] = x
        /\ \A k \in Handlers : k # h => hs'[k] = hs[k]
    BY <2>2, MovesOne DEF ConsentInv
  <2>4. /\ consents' \in [Consents -> {"none", "open", "closed"}]
        /\ \A d \in codes : d.consent # c
        /\ \A k \in Handlers : At(k, "code") => hs[k].of # c
    BY <1>1, <2>1 DEF ConsentInv
  <2>5. (x.pc = "code" /\ x.of = c) \/ x.pc = "idle"
    BY <2>2, HandlerType
  <2>6. \A d \in codes : consents'[d.consent] = "closed"
    BY <2>1, <2>4 DEF ConsentInv, Code
  <2>7. \A k \in Handlers : At(k, "code") => consents'[hs[k].of] = "closed"
    BY <2>1, <2>4 DEF ConsentInv
  <2>8. consents'[c] = "closed"
    BY <1>1, <2>1 DEF ConsentInv
  <2>9. QED
    BY <1>1, <2>3, <2>4, <2>5, <2>6, <2>7, <2>8 DEF ConsentInv, OneConsentOneCode, At
<1>4. QED
  BY <1>2, <1>3 DEF ConsumeConsent

LEMMA CreateCodeHolds ==
    ASSUME ConsentInv, NEW h \in Handlers, CreateCode(h)
    PROVE  ConsentInv' /\ codes \subseteq codes' /\ Ids(codes) \subseteq Ids(codes')
<1> DEFINE k == hs[h].of
           d == [id |-> Cardinality(codes) + 1, consent |-> k, state |-> "new"]
<1>1. /\ k \in Consents /\ consents[k] = "closed" /\ \A c \in codes : c.consent # k
      /\ codes' = codes \cup {d} /\ consents' = consents /\ Moves(h, NoHandler)
      /\ \A j \in Handlers : At(j, "code") /\ j # h => hs[j].of # k
  BY DEF ConsentInv, CreateCode, At, CreateAuthorizationCode, Answer, Moves
<1>2. d \in Code
  BY <1>1, CodesFit DEF Code
<1>3. d.consent = k /\ d.id = Cardinality(codes) + 1
  OBVIOUS
<1> HIDE DEF d
<1>4. Numbered(codes') /\ Ids(codes) \subseteq Ids(codes') /\ codes' \subseteq Code
  BY <1>1, <1>2, <1>3, Extended DEF ConsentInv
<1>5. OneConsentOneCode'
  BY <1>1, <1>3 DEF OneConsentOneCode, ConsentInv
<1>6. /\ hs' \in [Handlers -> Handler] /\ hs'[h] = NoHandler
      /\ \A j \in Handlers : j # h => hs'[j] = hs[j]
  BY <1>1, MovesOne, HandlerType DEF ConsentInv
<1>7. \A c \in codes' : consents'[c.consent] = "closed"
  BY <1>1, <1>3 DEF ConsentInv
<1>8. ASSUME NEW j \in Handlers
      PROVE  /\ At(j, "consent")' => hs'[j].of \in Consents
             /\ At(j, "code")' => /\ hs'[j].of \in Consents /\ consents'[hs'[j].of] = "closed"
                                  /\ \A c \in codes' : c.consent # hs'[j].of
             /\ hs'[j].pc \in {"exchange", "issue"} => hs'[j].of \in Ids(codes')
  <2>1. CASE j = h
    BY <2>1, <1>6, HandlerType DEF At
  <2>2. CASE j # h
    BY ZenonT(60), <2>2, <1>1, <1>3, <1>4, <1>6 DEF At, ConsentInv
  <2>3. QED
    BY <2>1, <2>2
<1>9. \A i, j \in Handlers :
         At(i, "code")' /\ At(j, "code")' /\ hs'[i].of = hs'[j].of => i = j
  BY <1>6, HandlerType DEF At, ConsentInv
<1>10. consents' \in [Consents -> {"none", "open", "closed"}]
  BY <1>1 DEF ConsentInv
<1>11. ConsentInv'
  BY <1>4, <1>5, <1>6, <1>7, <1>8, <1>9, <1>10 DEF ConsentInv
<1>12. QED
  BY <1>1, <1>4, <1>11

(* What a step does to the codes and consents it leaves alone. *)
LEMMA ConsentStep == ConsentInv /\ GrantInv /\ [Next]_vars => ConsentInv' /\ Ids(codes) \subseteq Ids(codes')
<1> SUFFICES ASSUME ConsentInv, GrantInv, [Next]_vars
             PROVE  ConsentInv' /\ Ids(codes) \subseteq Ids(codes')
  OBVIOUS
<1>1. ASSUME UNCHANGED <<consents, codes>>,
             \/ hs' = hs
             \/ \E h \in Handlers, x \in Handler :
                   /\ Moves(h, x) /\ x.pc # "code"
                   /\ x.pc = "consent" => x.of \in Consents
                   /\ x.pc \in {"exchange", "issue"} => x.of \in Ids(codes)
      PROVE  ConsentInv' /\ Ids(codes) \subseteq Ids(codes')
  BY <1>1, ConsentQuiet
<1>2. ASSUME UNCHANGED <<consents, codes>>, NEW h \in Handlers, NEW of \in Nat,
             NEW pc \in Pcs \ {"code"}, Goto(h, pc, of),
             pc = "consent" => of \in Consents,
             pc \in {"exchange", "issue"} => of \in Ids(codes)
      PROVE  ConsentInv' /\ Ids(codes) \subseteq Ids(codes')
  <2>1. [pc |-> pc, of |-> of] \in Handler
    BY HandlerType
  <2>2. /\ [pc |-> pc, of |-> of].pc = pc /\ [pc |-> pc, of |-> of].of = of
        /\ Moves(h, [pc |-> pc, of |-> of])
    BY <1>2 DEF Goto, Moves
  <2>3. QED
    BY <1>1, <1>2, <2>1, <2>2
<1>3. ASSUME UNCHANGED <<consents, codes>>, NEW h \in Handlers, Answer(h)
      PROVE  ConsentInv' /\ Ids(codes) \subseteq Ids(codes')
  BY <1>1, <1>3, HandlerType DEF Answer, Moves
<1>4. ASSUME NEW c \in codes PROVE c.id \in Nat /\ c.id \in Ids(codes)
  BY DEF ConsentInv, Code, Grants, Ids
<1>5. ASSUME NEW p \in pairs PROVE p.id \in Nat
  BY DEF GrantInv, PairInv, PairType
<1>6. ASSUME Time PROVE ConsentInv' /\ Ids(codes) \subseteq Ids(codes')
  <2>1. CASE NextWindow
    BY <2>1, <1>1 DEF NextWindow, tables
  <2>2. ASSUME NEW c \in Consents, BeginAuthorization(c) \/ ExpireConsent(c)
        PROVE  ConsentInv' /\ Ids(codes) \subseteq Ids(codes')
    <3>1. ConsentInv' /\ codes' = codes
      BY <2>2, ConsentMoves DEF BeginAuthorization, ExpireConsent
    <3>2. QED
      BY <3>1
  <2>3. ASSUME NEW c \in codes, ExpireCode(c)
        PROVE  ConsentInv' /\ Ids(codes) \subseteq Ids(codes')
    BY <2>3, CodeSpent DEF ExpireCode
  <2>4. ASSUME NEW p \in pairs, ExpireRefresh(p)
        PROVE  ConsentInv' /\ Ids(codes) \subseteq Ids(codes')
    BY <2>4, <1>1 DEF ExpireRefresh
  <2>5. QED
    BY <1>6, <2>1, <2>2, <2>3, <2>4 DEF Time
<1>7. ASSUME NEW h \in Handlers, Requests(h)
      PROVE  ConsentInv' /\ Ids(codes) \subseteq Ids(codes')
  <2> USE ArriveGoes DEF tables, Pcs
  <2>1. ASSUME NEW c \in Consents, Submit(h, c)
        PROVE  ConsentInv' /\ Ids(codes) \subseteq Ids(codes')
    BY <2>1, <1>2 DEF Submit, Consents
  <2>2. ASSUME NEW c \in codes, Exchange(h, c)
        PROVE  ConsentInv' /\ Ids(codes) \subseteq Ids(codes')
    BY <2>2, <1>2, <1>4 DEF Exchange
  <2>3. ASSUME NEW p \in pairs, Refresh(h, p)
        PROVE  ConsentInv' /\ Ids(codes) \subseteq Ids(codes')
    BY <2>3, <1>2, <1>5 DEF Refresh
  <2>4. ASSUME NEW p \in pairs, RevokeAccess(h, p)
        PROVE  ConsentInv' /\ Ids(codes) \subseteq Ids(codes')
    BY <2>4, <1>2, <1>5 DEF RevokeAccess
  <2>5. ASSUME NEW p \in pairs, RevokeRefresh(h, p)
        PROVE  ConsentInv' /\ Ids(codes) \subseteq Ids(codes')
    BY <2>5, <1>2, <1>5 DEF RevokeRefresh
  <2>6. ASSUME NEW g \in Grants, Settings(h, g)
        PROVE  ConsentInv' /\ Ids(codes) \subseteq Ids(codes')
    BY <2>6, <1>2 DEF Settings, Grants
  <2>7. QED
    BY <1>7, <2>1, <2>2, <2>3, <2>4, <2>5, <2>6 DEF Requests
<1>8. ASSUME NEW h \in Handlers, Steps(h)
      PROVE  ConsentInv' /\ Ids(codes) \subseteq Ids(codes')
  <2>1. CASE ConsumeConsent(h)
    <3>1. codes' = codes
      BY <2>1 DEF ConsumeConsent
    <3>2. QED
      BY <2>1, <3>1, ConsumeConsentHolds
  <2>2. CASE CreateCode(h)
    BY <2>2, CreateCodeHolds
  <2>3. CASE ConsumeCode(h)
    <3> DEFINE c == CodeOf(hs[h].of)
    <3>1. c \in codes
      BY <2>3, CodeOfIs DEF ConsumeCode, ConsentInv, Numbered
    <3>2. CASE CodeValid(c)
      <4>1. /\ codes' = (codes \ {c}) \cup {[c EXCEPT !.state = "gone"]}
            /\ consents' = consents
            /\ Moves(h, [pc |-> "issue", of |-> c.id]) \/ Moves(h, NoHandler)
        BY <2>3, <3>2 DEF ConsumeCode, Goto, Answer, Moves
      <4>2. [pc |-> "issue", of |-> c.id] \in Handler
        BY <3>1, <1>4, HandlerType DEF Pcs
      <4>3. QED
        BY <3>1, <4>1, <4>2, <1>4, CodeSpent, HandlerType
    <3>3. CASE ~CodeValid(c)
      BY <2>3, <3>3, <1>3 DEF ConsumeCode
    <3>4. QED
      BY <3>2, <3>3
  <2>4. CASE IssueTokenSet(h)
    BY <2>4, <1>3 DEF IssueTokenSet
  <2>5. CASE Rotate(h)
    <3>1. PairOf(hs[h].of) \in pairs
      BY <2>5, PairOfIs DEF Rotate, GrantInv, IssueInv, PairInv, Numbered, At
    <3>2. CASE Answer(h)
      BY <2>5, <3>2, <1>3 DEF Rotate
    <3>3. CASE Goto(h, "family", PairOf(hs[h].of).id)
      BY <2>5, <3>1, <3>3, <1>2, <1>5 DEF Rotate, Pcs
    <3>4. QED
      BY <2>5, <3>2, <3>3 DEF Rotate
  <2>6. CASE Look(h)
    <3>1. CASE Answer(h)
      BY <2>6, <3>1, <1>3 DEF Look, tables
    <3>2. CASE Goto(h, "mark", hs[h].of)
      <4>1. hs[h].of \in Nat
        BY DEF ConsentInv, Handler
      <4>2. QED
        BY <2>6, <3>2, <4>1, <1>2 DEF Look, tables, Pcs
    <3>3. QED
      BY <2>6, <3>1, <3>2 DEF Look
  <2>7. CASE Mark(h)
    BY <2>7, <1>3 DEF Mark
  <2>8. CASE RevokeFamily(h) \/ RevokeGrant(h)
    BY <2>8, <1>3 DEF RevokeFamily, RevokeGrant
  <2>9. CASE Stop(h)
    BY <2>9, <1>3 DEF Stop, tables
  <2>10. QED
    BY <1>8, <2>1, <2>2, <2>3, <2>4, <2>5, <2>6, <2>7, <2>8, <2>9 DEF Steps
<1>9. CASE UNCHANGED vars
  BY <1>1, <1>9 DEF vars, tables
<1>10. QED
  BY <1>6, <1>7, <1>8, <1>9 DEF Next

-----------------------------------------------------------------------------
(* Grants and the handlers that issue them.                                *)

(* A step that begins no grant, makes no code and sends no handler to issue. *)
LEMMA IssueQuiet ==
    ASSUME ConsentInv, IssueInv,
           \A g \in Grants : grants'[g] = "none" <=> grants[g] = "none",
           Ids(pairs) \subseteq Ids(pairs'), Ids(codes) \subseteq Ids(codes'),
           \A c \in codes' : c.id \in Grants
                             /\ \E d \in codes : d.id = c.id /\ (c.state = "new" => d.state = "new"),
           \/ hs' = hs
           \/ \E h \in Handlers, x \in Handler :
                 /\ Moves(h, x) /\ x.pc # "issue"
                 /\ x.pc = "grant" => x.of \in Grants /\ grants[x.of] # "none"
                 /\ x.pc \in {"rotate", "family", "look", "mark"} => x.of \in Ids(pairs)
    PROVE  IssueInv'
<1>1. /\ \A g \in Grants : grants'[g] # "none" => g \in Ids(codes')
      /\ \A c \in codes' : c.state = "new" => grants'[c.id] = "none"
  BY DEF IssueInv
<1>2. ASSUME NEW h \in Handlers, hs'[h] = hs[h]
      PROVE  /\ At(h, "issue")' => /\ grants'[hs'[h].of] = "none"
                                   /\ \A c \in codes' : c.id = hs'[h].of => c.state # "new"
             /\ At(h, "grant")' => hs'[h].of \in Grants /\ grants'[hs'[h].of] # "none"
             /\ hs'[h].pc \in {"rotate", "family", "look", "mark"} => hs'[h].of \in Ids(pairs')
  <2>1. At(h, "issue") => hs[h].of \in Grants
    BY DEF ConsentInv, Ids, Code, At
  <2>2. QED
    BY <1>2, <2>1 DEF IssueInv, At
<1>3. CASE hs' = hs
  BY <1>1, <1>2, <1>3 DEF IssueInv, At
<1>4. ASSUME NEW h \in Handlers, NEW x \in Handler, Moves(h, x), x.pc # "issue",
             x.pc = "grant" => x.of \in Grants /\ grants[x.of] # "none",
             x.pc \in {"rotate", "family", "look", "mark"} => x.of \in Ids(pairs)
      PROVE  IssueInv'
  <2>1. hs'[h] = x /\ \A k \in Handlers : k # h => hs'[k] = hs[k]
    BY <1>4, MovesOne DEF ConsentInv
  <2>2. \A i, j \in Handlers :
           At(i, "issue")' /\ At(j, "issue")' /\ hs'[i].of = hs'[j].of => i = j
    BY <1>4, <2>1 DEF At, IssueInv
  <2>3. /\ At(h, "issue")' => FALSE
        /\ At(h, "grant")' => hs'[h].of \in Grants /\ grants'[hs'[h].of] # "none"
        /\ hs'[h].pc \in {"rotate", "family", "look", "mark"} => hs'[h].of \in Ids(pairs')
    BY <1>4, <2>1 DEF At
  <2>4. QED
    BY <1>1, <1>2, <2>1, <2>2, <2>3 DEF IssueInv
<1>5. QED
  BY <1>3, <1>4

(* The codes of a step that leaves them alone or marks one gone.           *)
LEMMA SameCodes ==
    ASSUME ConsentInv, codes' = codes
    PROVE  \A c \in codes' : c.id \in Grants
                             /\ \E d \in codes : d.id = c.id /\ (c.state = "new" => d.state = "new")
  BY DEF ConsentInv, Code

LEMMA IssueAnswer ==
    ASSUME ConsentInv, IssueInv, NEW h \in Handlers, Answer(h), codes' = codes,
           \A g \in Grants : grants'[g] = "none" <=> grants[g] = "none",
           Ids(pairs) \subseteq Ids(pairs')
    PROVE  IssueInv'
<1>1. \E k \in Handlers, x \in Handler :
         /\ Moves(k, x) /\ x.pc # "issue"
         /\ x.pc = "grant" => x.of \in Grants /\ grants[x.of] # "none"
         /\ x.pc \in {"rotate", "family", "look", "mark"} => x.of \in Ids(pairs)
  BY HandlerType DEF Answer, Moves
<1>2. QED
  BY <1>1, SameCodes, IssueQuiet

LEMMA IssueGoto ==
    ASSUME ConsentInv, IssueInv, NEW h \in Handlers, NEW pc \in Pcs \ {"issue"}, NEW of \in Nat,
           Goto(h, pc, of), codes' = codes, grants' = grants,
           Ids(pairs) \subseteq Ids(pairs'),
           pc = "grant" => of \in Grants /\ grants[of] # "none",
           pc \in {"rotate", "family", "look", "mark"} => of \in Ids(pairs)
    PROVE  IssueInv'
<1> DEFINE x == [pc |-> pc, of |-> of]
<1>1. x \in Handler /\ x.pc = pc /\ x.of = of /\ Moves(h, x)
  BY HandlerType DEF Goto, Moves
<1> HIDE DEF x
<1>2. \E k \in Handlers, y \in Handler :
         /\ Moves(k, y) /\ y.pc # "issue"
         /\ y.pc = "grant" => y.of \in Grants /\ grants[y.of] # "none"
         /\ y.pc \in {"rotate", "family", "look", "mark"} => y.of \in Ids(pairs)
  BY <1>1
<1>3. QED
  BY <1>2, SameCodes, IssueQuiet

(* A new code has the number of a grant that has not begun. *)
LEMMA CreateCodeIssue ==
    ASSUME ConsentInv, GrantInv, NEW h \in Handlers, CreateCode(h)
    PROVE  IssueInv'
<1> DEFINE d == [id |-> Cardinality(codes) + 1, consent |-> hs[h].of, state |-> "new"]
<1>1. /\ codes' = codes \cup {d} /\ Moves(h, NoHandler) /\ UNCHANGED <<grants, pairs>>
  BY DEF CreateCode, CreateAuthorizationCode, Answer, Moves
<1>2. d.id \in Grants /\ d.id = Cardinality(codes) + 1
  BY CodesFit DEF CreateCode, ConsentInv, At
<1> HIDE DEF d
<1>3. Ids(codes') = Ids(codes) \cup {d.id} /\ \A c \in codes : c.id # d.id
  BY <1>1, <1>2, Extended DEF ConsentInv
<1>4. d.id \notin Ids(codes)
  BY <1>3 DEF Ids
<1>5. grants[d.id] = "none"
  BY <1>2, <1>4 DEF GrantInv, IssueInv
<1>6. hs'[h] = NoHandler /\ \A k \in Handlers : k # h => hs'[k] = hs[k]
  BY <1>1, MovesOne, HandlerType DEF ConsentInv
<1>7. \A k \in Handlers : At(k, "issue") => hs[k].of # d.id
  BY <1>4 DEF ConsentInv, At
<1>8. /\ \A g \in Grants : grants'[g] # "none" => g \in Ids(codes')
      /\ \A c \in codes' : c.state = "new" => grants'[c.id] = "none"
  BY <1>1, <1>3, <1>5 DEF GrantInv, IssueInv
<1>9. ASSUME NEW k \in Handlers
      PROVE  /\ At(k, "issue")' => /\ grants'[hs'[k].of] = "none"
                                   /\ \A c \in codes' : c.id = hs'[k].of => c.state # "new"
             /\ At(k, "grant")' => hs'[k].of \in Grants /\ grants'[hs'[k].of] # "none"
             /\ hs'[k].pc \in {"rotate", "family", "look", "mark"} => hs'[k].of \in Ids(pairs')
  <2>1. CASE k = h
    BY <2>1, <1>6, HandlerType DEF At
  <2>2. CASE k # h
    BY <2>2, <1>1, <1>6, <1>7 DEF At, GrantInv, IssueInv
  <2>3. QED
    BY <2>1, <2>2
<1>10. \A i, j \in Handlers :
         At(i, "issue")' /\ At(j, "issue")' /\ hs'[i].of = hs'[j].of => i = j
  BY <1>6, HandlerType DEF At, GrantInv, IssueInv
<1>11. QED
  BY <1>8, <1>9, <1>10 DEF IssueInv

(* The handler that consumes a code is the only one to issue its grant. *)
LEMMA ConsumeCodeIssue ==
    ASSUME ConsentInv, GrantInv, NEW h \in Handlers, ConsumeCode(h)
    PROVE  IssueInv'
<1> DEFINE c == CodeOf(hs[h].of)
           d == [c EXCEPT !.state = "gone"]
<1>1. /\ c \in codes /\ c.id = hs[h].of /\ c.id \in Grants /\ c.id \in Nat
      /\ UNCHANGED <<grants, pairs>> /\ Unique(codes)
  BY CodeOfIs DEF ConsumeCode, ConsentInv, Numbered, Code, Grants
<1>2. CASE ~CodeValid(c)
  BY <1>1, <1>2, IssueAnswer DEF ConsumeCode, GrantInv
<1>3. CASE CodeValid(c)
  <2>1. /\ codes' = (codes \ {c}) \cup {d} /\ c.state = "new"
        /\ Moves(h, [pc |-> "issue", of |-> c.id]) \/ Moves(h, NoHandler)
    BY <1>3 DEF ConsumeCode, Goto, Answer, Moves, CodeValid
  <2>2. d.id = c.id /\ d.state = "gone"
    BY <1>1 DEF ConsentInv, Code
  <2>3. PICK x \in Handler : Moves(h, x) /\ ((x.pc = "issue" /\ x.of = c.id) \/ x.pc = "idle")
    <3>1. [pc |-> "issue", of |-> c.id] \in Handler
      BY <1>1, HandlerType DEF Pcs
    <3>2. QED
      BY <2>1, <3>1, HandlerType
  <2> HIDE DEF d
  <2>4. hs'[h] = x /\ \A k \in Handlers : k # h => hs'[k] = hs[k]
    BY <2>3, MovesOne DEF ConsentInv
  <2>5. grants[c.id] = "none" /\ \A k \in Handlers : At(k, "issue") => hs[k].of # c.id
    BY <1>1, <2>1 DEF GrantInv, IssueInv
  <2>6. \A e \in codes' : (e \in codes \/ e = d) /\ (e.id = c.id => e.state # "new")
    BY <1>1, <2>1, <2>2 DEF Unique
  <2>7. Ids(codes') = Ids(codes)
    BY <1>1, <2>1, <2>2, Rewritten DEF ConsentInv
  <2>8. /\ \A g \in Grants : grants'[g] # "none" => g \in Ids(codes')
        /\ \A e \in codes' : e.state = "new" => grants'[e.id] = "none"
    BY <1>1, <2>2, <2>6, <2>7 DEF GrantInv, IssueInv
  <2>9. ASSUME NEW k \in Handlers
        PROVE  /\ At(k, "issue")' => /\ grants'[hs'[k].of] = "none"
                                     /\ \A e \in codes' : e.id = hs'[k].of => e.state # "new"
               /\ At(k, "grant")' => hs'[k].of \in Grants /\ grants'[hs'[k].of] # "none"
               /\ hs'[k].pc \in {"rotate", "family", "look", "mark"} => hs'[k].of \in Ids(pairs')
    <3>1. CASE k = h
      BY <3>1, <1>1, <2>3, <2>4, <2>5, <2>6 DEF At
    <3>2. CASE k # h
      BY <3>2, <1>1, <2>2, <2>4, <2>6 DEF At, GrantInv, IssueInv
    <3>3. QED
      BY <3>1, <3>2
  <2>10. \A i, j \in Handlers :
           At(i, "issue")' /\ At(j, "issue")' /\ hs'[i].of = hs'[j].of => i = j
    BY <2>3, <2>4, <2>5 DEF At, GrantInv, IssueInv
  <2>11. QED
    BY <2>8, <2>9, <2>10 DEF IssueInv
<1>4. QED
  BY <1>2, <1>3

(* A grant begins: nobody else is about to issue it, and it has no pair.    *)
LEMMA IssueTokenSetHolds ==
    ASSUME ConsentInv, GrantInv, NEW h \in Handlers, IssueTokenSet(h)
    PROVE  GrantInv'
<1> DEFINE g == hs[h].of
           n == NewPair(g)
<1>1. /\ g \in Grants /\ g \in Ids(codes) /\ grants[g] = "none" /\ At(h, "issue")
      /\ \A c \in codes : c.id = g => c.state # "new"
  BY DEF IssueTokenSet, ConsentInv, GrantInv, IssueInv, At, Ids, Code
<1>2. /\ pairs' = pairs \cup {n} /\ grants' = [grants EXCEPT ![g] = "active"]
      /\ Moves(h, NoHandler) /\ UNCHANGED <<store, codes>>
  BY DEF IssueTokenSet, CreateTokenSet, Answer, Moves
<1>3. n \in PairType /\ n.id = Cardinality(pairs) + 1 /\ n.grant = g
  BY <1>1 DEF NewPair, PairType, GrantInv, PairInv, Numbered
<1> HIDE DEF n
<1>4. /\ Numbered(pairs') /\ Ids(pairs) \subseteq Ids(pairs')
  BY <1>2, <1>3, Extended DEF GrantInv, PairInv
<1>5. \A p \in pairs : p.grant \in Grants /\ p.grant # g
  BY <1>1 DEF GrantInv, PairInv, PairType
<1>6. grants' \in [Grants -> {"none", "active", "revoked"}] /\ grants'[g] = "active"
      /\ \A f \in Grants : f # g => grants'[f] = grants[f]
  BY <1>1, <1>2 DEF GrantInv, PairInv
<1>7. OneLiveRefresh'
  BY <1>2, <1>3, <1>5 DEF OneLiveRefresh, GrantInv, PairInv
<1>8. EndedForGood'
  BY <1>2, <1>3, <1>5, <1>6 DEF EndedForGood, Usable, GrantInv, PairInv
<1>9. \A p \in pairs' : grants'[p.grant] # "none"
  BY <1>2, <1>3, <1>5, <1>6 DEF GrantInv, PairInv
<1>10. PairInv'
  BY <1>2, <1>3, <1>4, <1>6, <1>7, <1>8, <1>9 DEF PairInv, GrantInv
<1>11. hs'[h] = NoHandler /\ \A k \in Handlers : k # h => hs'[k] = hs[k]
  BY <1>2, MovesOne, HandlerType DEF ConsentInv
<1>12. /\ \A f \in Grants : grants'[f] # "none" => f \in Ids(codes')
       /\ \A c \in codes' : c.state = "new" => grants'[c.id] = "none"
  BY <1>1, <1>2, <1>6 DEF GrantInv, IssueInv, ConsentInv, Code
<1>13. ASSUME NEW k \in Handlers
       PROVE  /\ At(k, "issue")' => /\ grants'[hs'[k].of] = "none"
                                    /\ \A c \in codes' : c.id = hs'[k].of => c.state # "new"
              /\ At(k, "grant")' => hs'[k].of \in Grants /\ grants'[hs'[k].of] # "none"
              /\ hs'[k].pc \in {"rotate", "family", "look", "mark"} => hs'[k].of \in Ids(pairs')
  <2>1. CASE k = h
    BY <2>1, <1>11, HandlerType DEF At
  <2>2. CASE k # h
    <3>1. At(k, "issue") => hs[k].of # g /\ hs[k].of \in Grants
      BY <2>2, <1>1 DEF GrantInv, IssueInv, At, ConsentInv, Ids, Code
    <3>2. At(k, "grant") => hs[k].of # g
      BY <1>1 DEF GrantInv, IssueInv
    <3>3. hs'[k] = hs[k]
      BY <2>2, <1>11
    <3>4. At(k, "issue")' => /\ grants'[hs'[k].of] = "none"
                             /\ \A c \in codes' : c.id = hs'[k].of => c.state # "new"
      BY <3>1, <3>3, <1>2, <1>6 DEF At, GrantInv, IssueInv
    <3>5. At(k, "grant")' => hs'[k].of \in Grants /\ grants'[hs'[k].of] # "none"
      BY <3>2, <3>3, <1>6 DEF At, GrantInv, IssueInv
    <3>6. hs'[k].pc \in {"rotate", "family", "look", "mark"} => hs'[k].of \in Ids(pairs')
      BY <3>3, <1>4 DEF GrantInv, IssueInv
    <3>7. QED
      BY <3>4, <3>5, <3>6
  <2>3. QED
    BY <2>1, <2>2
<1>14. \A i, j \in Handlers :
         At(i, "issue")' /\ At(j, "issue")' /\ hs'[i].of = hs'[j].of => i = j
  BY <1>11, HandlerType DEF At, GrantInv, IssueInv
<1>15. IssueInv'
  BY <1>12, <1>13, <1>14 DEF IssueInv
<1>16. QED
  BY <1>10, <1>15 DEF GrantInv

-----------------------------------------------------------------------------
(* Pairs.                                                                  *)

(* Tokens fade: pairs keep their numbers and grants, and none gets usable   *)
(* or live that was not.                                                   *)
Fades ==
    /\ pairs' \subseteq PairType /\ Numbered(pairs') /\ Ids(pairs') = Ids(pairs)
    /\ \A q \in pairs' : \E p \in pairs :
          /\ p.id = q.id /\ p.grant = q.grant
          /\ q.refresh = "live" => p.refresh = "live"
          /\ q.access = "live" => p.access = "live"

LEMMA FadeOne ==
    ASSUME PairInv, NEW p \in pairs, NEW q \in PairType, q.id = p.id, q.grant = p.grant,
           q.refresh = "live" => p.refresh = "live", q.access = "live" => p.access = "live",
           pairs' = (pairs \ {p}) \cup {q}
    PROVE  Fades
  BY Rewritten DEF Fades, PairInv

(* Faded pairs of active or revoked grants; a grant that is revoked has     *)
(* none left that is usable, in the local store.                           *)
LEMMA PairFades ==
    ASSUME PairInv, Fades, store' = store,
           \/ grants' = grants
           \/ \E g \in Grants :
                 /\ grants' = [grants EXCEPT ![g] = "revoked"]
                 /\ store = "sqlite" => \A q \in pairs' :
                        q.grant = g => ~Usable(q) /\ q.refresh # "live"
    PROVE  PairInv'
<1>1. OneLiveRefresh'
  <2> SUFFICES ASSUME NEW q \in pairs', NEW r \in pairs', q.grant = r.grant,
                      q.refresh = "live", r.refresh = "live"
               PROVE  q = r
    BY DEF OneLiveRefresh
  <2>1. PICK p \in pairs : p.id = q.id /\ p.grant = q.grant /\ p.refresh = "live"
    BY DEF Fades
  <2>2. PICK s \in pairs : s.id = r.id /\ s.grant = r.grant /\ s.refresh = "live"
    BY DEF Fades
  <2>3. p = s
    BY <2>1, <2>2 DEF PairInv, OneLiveRefresh
  <2>4. QED
    BY <2>1, <2>2, <2>3 DEF Fades, Numbered, Unique
<1>2. ASSUME grants' = grants PROVE PairInv'
  <2>1. EndedForGood'
    BY <1>2 DEF PairInv, EndedForGood, Fades, Usable
  <2>2. QED
    BY <1>1, <1>2, <2>1 DEF PairInv, Fades
<1>3. ASSUME NEW g \in Grants, grants' = [grants EXCEPT ![g] = "revoked"],
             store = "sqlite" => \A q \in pairs' : q.grant = g => ~Usable(q) /\ q.refresh # "live"
      PROVE  PairInv'
  <2>1. grants' \in [Grants -> {"none", "active", "revoked"}]
    BY <1>3 DEF PairInv
  <2>2. \A q \in pairs' : q.grant \in Grants /\ grants[q.grant] # "none"
    BY DEF PairInv, Fades, PairType
  <2>3. \A q \in pairs' : grants'[q.grant] # "none"
    BY <1>3, <2>2 DEF PairInv
  <2>4. EndedForGood'
    <3> SUFFICES ASSUME store = "sqlite", NEW q \in pairs', grants'[q.grant] = "revoked"
                 PROVE  ~Usable(q) /\ q.refresh # "live"
      BY DEF EndedForGood, Usable
    <3>1. CASE q.grant = g
      BY <1>3, <3>1
    <3>2. CASE q.grant # g
      <4>1. grants[q.grant] = "revoked"
        BY <1>3, <2>2, <3>2 DEF PairInv
      <4>2. QED
        BY <4>1 DEF PairInv, EndedForGood, Fades, Usable
    <3>3. QED
      BY <3>1, <3>2
  <2>5. QED
    BY <1>1, <2>1, <2>3, <2>4 DEF PairInv, Fades
<1>4. QED
  BY <1>2, <1>3

LEMMA PairQuiet ==
    ASSUME PairInv, UNCHANGED <<store, grants, pairs>>
    PROVE  PairInv'
  BY DEF PairInv, OneLiveRefresh, EndedForGood, Usable

(* A rotation hands the place of the live token of a grant to a new one.    *)
LEMMA RotatedPairs ==
    ASSUME PairInv, NEW p \in pairs, p.refresh = "live", pairs' = Rotated(p),
           UNCHANGED <<store, grants>>
    PROVE  PairInv' /\ Ids(pairs) \subseteq Ids(pairs')
<1> DEFINE q == [p EXCEPT !.refresh = "spent"]
           n == NewPair(p.grant)
           S == (pairs \ {p}) \cup {q}
<1>1. /\ q \in PairType /\ q.id = p.id /\ q.grant = p.grant /\ q.access = p.access
      /\ q.refresh = "spent"
  BY DEF PairInv, PairType
<1>2. /\ n \in PairType /\ n.id = Cardinality(pairs) + 1 /\ n.grant = p.grant
  BY DEF PairInv, PairType, NewPair, Numbered
<1>3. pairs' = S \cup {n}
  BY DEF Rotated
<1> HIDE DEF q, n
<1>4. Numbered(S) /\ Ids(S) = Ids(pairs) /\ Cardinality(S) = Cardinality(pairs)
  BY <1>1, Rewritten DEF PairInv
<1>5. S \subseteq PairType
  BY <1>1 DEF PairInv
<1>6. \A r \in S : r = q \/ (r \in pairs /\ r # p)
  OBVIOUS
<1> HIDE DEF S
<1>7. Numbered(pairs') /\ Ids(pairs) \subseteq Ids(pairs')
  BY <1>2, <1>3, <1>4, Extended
<1>8. \A r \in pairs' : r.refresh = "live" /\ r.grant = p.grant => r = n
  BY <1>1, <1>3, <1>6 DEF PairInv, OneLiveRefresh
<1>9. OneLiveRefresh'
  BY <1>1, <1>2, <1>3, <1>6, <1>8 DEF PairInv, OneLiveRefresh
<1>10. store = "sqlite" => grants[p.grant] # "revoked"
  BY DEF PairInv, EndedForGood
<1>11. EndedForGood'
  BY <1>1, <1>2, <1>3, <1>6, <1>10 DEF PairInv, EndedForGood, Usable
<1>12. \A r \in pairs' : grants[r.grant] # "none"
  BY <1>1, <1>2, <1>3, <1>6 DEF PairInv
<1>13. QED
  BY <1>2, <1>3, <1>5, <1>7, <1>9, <1>11, <1>12 DEF PairInv

LEMMA RevokedType ==
    ASSUME NEW p \in PairType, NEW access \in BOOLEAN
    PROVE  /\ Revoked(p, access) \in PairType
           /\ Revoked(p, access).id = p.id /\ Revoked(p, access).grant = p.grant
           /\ Revoked(p, access).refresh # "live"
           /\ Revoked(p, access).refresh = p.refresh
                 \/ (Revoked(p, access).refresh = "revoked" /\ p.refresh \in {"live", "expired"})
           /\ Revoked(p, access).access = IF access THEN "revoked" ELSE p.access
  BY DEF Revoked, PairType

(* The pairs after a revocation that reaches those of grant g. *)
RevokedIn(g, access) == {IF p.grant = g THEN Revoked(p, access) ELSE p : p \in pairs}

LEMMA RevokedFades ==
    ASSUME PairInv, NEW g \in Grants, NEW access \in BOOLEAN, pairs' = RevokedIn(g, access)
    PROVE  /\ Fades
           /\ \A q \in pairs' : q.grant = g =>
                 q.refresh # "live" /\ (access => ~Usable(q))
           /\ \A q \in pairs' : \E p \in pairs : p.id = q.id /\ p.grant = q.grant
                 /\ (q.refresh = p.refresh \/ q.refresh = "revoked")
                 /\ (q.refresh # p.refresh => q.grant = g)
<1> DEFINE new(p) == IF p.grant = g THEN Revoked(p, access) ELSE p
<1>1. \A p \in pairs : /\ new(p) \in PairType /\ new(p).id = p.id /\ new(p).grant = p.grant
                       /\ new(p).refresh = "live" => p.refresh = "live"
                       /\ new(p).access = "live" => p.access = "live"
                       /\ p.grant = g => new(p).refresh # "live" /\ (access => new(p).access # "live")
                       /\ new(p).refresh = p.refresh \/ new(p).refresh = "revoked"
                       /\ new(p).refresh # p.refresh => p.grant = g
  BY RevokedType DEF PairInv
<1>2. \A q \in pairs' : \E p \in pairs : q = new(p)
  BY DEF RevokedIn
<1>3. \A p \in pairs : new(p) \in pairs'
  BY DEF RevokedIn
<1> HIDE DEF new
<1>4. pairs' \subseteq PairType
  BY <1>1, <1>2
<1>5. Unique(pairs')
  BY <1>1, <1>2 DEF PairInv, Numbered, Unique
<1>6. /\ \A q \in pairs' : \E p \in pairs : p.id = q.id
      /\ \A p \in pairs : \E q \in pairs' : q.id = p.id
  BY <1>1, <1>2, <1>3
<1>7. Numbered(pairs') /\ Ids(pairs') = Ids(pairs)
  BY <1>5, <1>6, RewrittenAll DEF PairInv
<1>8. Fades
  BY <1>1, <1>2, <1>4, <1>7 DEF Fades
<1>9. \A q \in pairs' : q.grant = g => q.refresh # "live" /\ (access => ~Usable(q))
  BY <1>1, <1>2 DEF Usable
<1>10. QED
  BY <1>1, <1>2, <1>8, <1>9

(* revokeGrant and revokeRefreshTokenFamilyByHash, in either store: all of  *)
(* a grant, or nothing when the transaction throws.                        *)
LEMMA RevokeAllHolds ==
    ASSUME PairInv, NEW g \in Grants, grants[g] # "none", NEW access \in BOOLEAN,
           RevokeAll(g, access), store' = store
    PROVE  /\ PairInv' /\ Ids(pairs') = Ids(pairs)
           /\ \A f \in Grants : grants'[f] = "none" <=> grants[f] = "none"
           /\ \A f \in Grants : grants'[f] = grants[f] \/ f = g
           /\ \A q \in pairs' : \E p \in pairs : p.id = q.id /\ p.grant = q.grant
                 /\ (q.refresh = p.refresh \/ q.refresh = "revoked")
                 /\ (q.refresh # p.refresh => q.grant = g)
<1>1. \/ UNCHANGED <<pairs, grants>>
      \/ /\ grants' = [grants EXCEPT ![g] = "revoked"]
         /\ \/ pairs' = RevokedIn(g, access) /\ store = "firestore"
            \/ pairs' = RevokedIn(g, TRUE)
  BY DEF RevokeAll, RevokeIndexed, RevokedInGrant, RevokedIn
<1>2. CASE UNCHANGED <<pairs, grants>>
  BY <1>2, PairQuiet
<1>3. ASSUME grants' = [grants EXCEPT ![g] = "revoked"], NEW a \in BOOLEAN,
             pairs' = RevokedIn(g, a), store = "firestore" \/ a = TRUE
      PROVE  /\ PairInv' /\ Ids(pairs') = Ids(pairs)
             /\ \A f \in Grants : grants'[f] = "none" <=> grants[f] = "none"
             /\ \A f \in Grants : grants'[f] = grants[f] \/ f = g
             /\ \A q \in pairs' : \E p \in pairs : p.id = q.id /\ p.grant = q.grant
                   /\ (q.refresh = p.refresh \/ q.refresh = "revoked")
                   /\ (q.refresh # p.refresh => q.grant = g)
  <2>1. /\ Fades
        /\ \A q \in pairs' : q.grant = g => q.refresh # "live" /\ (a => ~Usable(q))
        /\ \A q \in pairs' : \E p \in pairs : p.id = q.id /\ p.grant = q.grant
              /\ (q.refresh = p.refresh \/ q.refresh = "revoked")
              /\ (q.refresh # p.refresh => q.grant = g)
    BY <1>3, RevokedFades
  <2>2. store = "sqlite" => \A q \in pairs' : q.grant = g => ~Usable(q) /\ q.refresh # "live"
    BY <1>3, <2>1
  <2>3. PairInv'
    BY <1>3, <2>1, <2>2, PairFades
  <2>4. \A f \in Grants : (grants'[f] = "none" <=> grants[f] = "none")
                          /\ (grants'[f] = grants[f] \/ f = g)
    BY <1>3 DEF PairInv
  <2>5. QED
    BY <2>1, <2>3, <2>4 DEF Fades
<1>4. QED
  BY <1>1, <1>2, <1>3

(* A grant has one refresh token to go on with before and after every step. *)
LEMMA GrantStep == ConsentInv /\ GrantInv /\ [Next]_vars => GrantInv'
<1> SUFFICES ASSUME ConsentInv, GrantInv, [Next]_vars PROVE GrantInv'
  OBVIOUS
<1> USE DEF GrantInv
<1>1. ASSUME NEW p \in pairs
      PROVE  /\ p \in PairType /\ p.id \in Nat /\ p.id \in Ids(pairs)
             /\ p.grant \in Grants /\ grants[p.grant] # "none"
  BY DEF PairInv, PairType, Ids
<1>2. ASSUME UNCHANGED <<store, codes, grants, pairs>>, hs' = hs PROVE GrantInv'
  BY <1>2, PairQuiet, SameCodes, IssueQuiet
<1>3. ASSUME UNCHANGED <<store, codes, grants, pairs>>, NEW h \in Handlers, Answer(h)
      PROVE  GrantInv'
  BY <1>3, PairQuiet, IssueAnswer
<1>4. ASSUME UNCHANGED <<store, codes, grants, pairs>>, NEW h \in Handlers,
             NEW pc \in Pcs \ {"issue"}, NEW of \in Nat, Goto(h, pc, of),
             pc = "grant" => of \in Grants /\ grants[of] # "none",
             pc \in {"rotate", "family", "look", "mark"} => of \in Ids(pairs)
      PROVE  GrantInv'
  BY <1>4, PairQuiet, IssueGoto
<1>5. ASSUME Time PROVE GrantInv'
  <2>1. CASE NextWindow
    BY <2>1, <1>2 DEF NextWindow, tables
  <2>2. ASSUME NEW c \in Consents, BeginAuthorization(c) \/ ExpireConsent(c) PROVE GrantInv'
    BY <2>2, <1>2 DEF BeginAuthorization, ExpireConsent
  <2>3. ASSUME NEW c \in codes, ExpireCode(c) PROVE GrantInv'
    <3>1. /\ ConsentInv' /\ Ids(codes') = Ids(codes)
          /\ \A e \in codes' : (e \in codes /\ e # c) \/ (e.id = c.id /\ e.state = "gone")
      BY <2>3, CodeSpent DEF ExpireCode
    <3>2. \A e \in codes' : e.id \in Grants
                            /\ \E d \in codes : d.id = e.id /\ (e.state = "new" => d.state = "new")
      BY <3>1 DEF ConsentInv, Code
    <3>3. UNCHANGED <<store, grants, pairs, hs>>
      BY <2>3 DEF ExpireCode
    <3>4. IssueInv'
      BY <3>1, <3>2, <3>3, IssueQuiet
    <3>5. QED
      BY <3>3, <3>4, PairQuiet
  <2>4. ASSUME NEW p \in pairs, ExpireRefresh(p) PROVE GrantInv'
    <3> DEFINE q == [p EXCEPT !.refresh = "expired"]
    <3>1. /\ q \in PairType /\ q.id = p.id /\ q.grant = p.grant
          /\ q.refresh = "expired" /\ q.access = p.access
      BY <1>1 DEF PairType
    <3>2. pairs' = (pairs \ {p}) \cup {q} /\ UNCHANGED <<store, codes, grants, hs>>
      BY <2>4 DEF ExpireRefresh
    <3> HIDE DEF q
    <3>3. Fades
      BY <3>1, <3>2, FadeOne
    <3>4. PairInv' /\ Ids(pairs') = Ids(pairs)
      BY <3>2, <3>3, PairFades DEF Fades
    <3>5. QED
      BY <3>2, <3>4, SameCodes, IssueQuiet
  <2>5. QED
    BY <1>5, <2>1, <2>2, <2>3, <2>4 DEF Time
<1>6. ASSUME NEW h \in Handlers, Requests(h) PROVE GrantInv'
  <2> USE ArriveGoes DEF tables, Pcs
  <2>1. ASSUME NEW c \in Consents, Submit(h, c) PROVE GrantInv'
    BY <2>1, <1>4 DEF Submit, Consents
  <2>2. ASSUME NEW c \in codes, Exchange(h, c) PROVE GrantInv'
    <3>1. c.id \in Nat
      BY DEF ConsentInv, Code, Grants
    <3>2. QED
      BY <2>2, <3>1, <1>4 DEF Exchange
  <2>3. ASSUME NEW p \in pairs, Refresh(h, p) PROVE GrantInv'
    BY <2>3, <1>1, <1>4 DEF Refresh
  <2>4. ASSUME NEW p \in pairs, RevokeAccess(h, p) PROVE GrantInv'
    BY <2>4, <1>1, <1>4 DEF RevokeAccess
  <2>5. ASSUME NEW p \in pairs, RevokeRefresh(h, p) PROVE GrantInv'
    BY <2>5, <1>1, <1>4 DEF RevokeRefresh
  <2>6. ASSUME NEW g \in Grants, Settings(h, g) PROVE GrantInv'
    BY <2>6, <1>4 DEF Settings, Grants
  <2>7. QED
    BY <1>6, <2>1, <2>2, <2>3, <2>4, <2>5, <2>6 DEF Requests
<1>7. ASSUME NEW h \in Handlers, Steps(h) PROVE GrantInv'
  <2> DEFINE i == hs[h].of
             p == PairOf(i)
  <2>0. /\ i \in Nat
        /\ hs[h].pc \in {"rotate", "family", "look", "mark"} => i \in Ids(pairs) /\ p \in pairs /\ p.id = i
    BY PairOfIs DEF ConsentInv, Handler, IssueInv, PairInv, Numbered
  <2>1. CASE ConsumeConsent(h)
    <3>1. CASE Answer(h)
      BY <2>1, <3>1, <1>3 DEF ConsumeConsent
    <3>2. CASE Goto(h, "code", i)
      BY <2>0, <2>1, <3>2, <1>4 DEF ConsumeConsent, Pcs
    <3>3. QED
      BY <2>1, <3>1, <3>2 DEF ConsumeConsent
  <2>2. CASE CreateCode(h)
    BY <2>2, CreateCodeIssue, PairQuiet DEF CreateCode
  <2>3. CASE ConsumeCode(h)
    BY <2>3, ConsumeCodeIssue, PairQuiet DEF ConsumeCode
  <2>4. CASE IssueTokenSet(h)
    BY <2>4, IssueTokenSetHolds
  <2>5. CASE Rotate(h)
    <3>1. p \in pairs /\ p.id = i /\ i \in Ids(pairs) /\ UNCHANGED <<store, codes, grants>>
      BY <2>0, <2>5 DEF Rotate
    <3>2. PairInv' /\ Ids(pairs) \subseteq Ids(pairs')
      <4>1. CASE p.refresh = "live" /\ pairs' = Rotated(p)
        BY <3>1, <4>1, RotatedPairs
      <4>2. CASE pairs' = pairs
        BY <3>1, <4>2, PairQuiet
      <4>3. QED
        BY <2>5, <4>1, <4>2 DEF Rotate, RotationAccepts
    <3>3. CASE Answer(h)
      BY <3>1, <3>2, <3>3, IssueAnswer
    <3>4. CASE Goto(h, "family", p.id)
      BY <2>0, <3>1, <3>2, <3>4, IssueGoto DEF Pcs
    <3>5. QED
      BY <2>5, <3>3, <3>4 DEF Rotate
  <2>6. CASE Look(h)
    <3>1. CASE Answer(h)
      BY <2>6, <3>1, <1>3 DEF Look, tables
    <3>2. CASE Goto(h, "mark", i)
      BY <2>0, <2>6, <3>2, <1>4 DEF Look, tables, Pcs
    <3>3. QED
      BY <2>6, <3>1, <3>2 DEF Look
  <2>7. CASE Mark(h)
    <3> DEFINE q == [p EXCEPT !.access = "revoked"]
    <3>1. p \in pairs /\ p \in PairType
      BY <2>0, <2>7, <1>1 DEF Mark
    <3>2. /\ q \in PairType /\ q.id = p.id /\ q.grant = p.grant
          /\ q.refresh = p.refresh /\ q.access = "revoked"
      BY <3>1 DEF PairType
    <3>3. pairs' = (pairs \ {p}) \cup {q} /\ UNCHANGED <<store, codes, grants>> /\ Answer(h)
      BY <2>7 DEF Mark
    <3> HIDE DEF q, p
    <3>4. Fades
      BY <3>1, <3>2, <3>3, FadeOne
    <3>5. PairInv' /\ Ids(pairs') = Ids(pairs)
      BY <3>3, <3>4, PairFades DEF Fades
    <3>6. QED
      BY <3>3, <3>5, IssueAnswer
  <2>8. CASE RevokeFamily(h)
    <3>1. p.grant \in Grants /\ grants[p.grant] # "none"
      BY <2>0, <2>8, <1>1 DEF RevokeFamily
    <3>2. RevokeAll(p.grant, FALSE) /\ Answer(h) /\ UNCHANGED <<store, codes>>
      BY <2>8 DEF RevokeFamily
    <3>3. /\ PairInv' /\ Ids(pairs') = Ids(pairs)
          /\ \A f \in Grants : grants'[f] = "none" <=> grants[f] = "none"
      BY <3>1, <3>2, RevokeAllHolds
    <3>4. QED
      BY <3>2, <3>3, IssueAnswer
  <2>9. CASE RevokeGrant(h)
    <3>1. i \in Grants /\ grants[i] # "none"
      BY <2>9 DEF RevokeGrant, IssueInv, At
    <3>2. RevokeAll(i, TRUE) /\ Answer(h) /\ UNCHANGED <<store, codes>>
      BY <2>9 DEF RevokeGrant
    <3>3. /\ PairInv' /\ Ids(pairs') = Ids(pairs)
          /\ \A f \in Grants : grants'[f] = "none" <=> grants[f] = "none"
      BY <3>1, <3>2, RevokeAllHolds
    <3>4. QED
      BY <3>2, <3>3, IssueAnswer
  <2>10. CASE Stop(h)
    BY <2>10, <1>3 DEF Stop, tables
  <2>11. QED
    BY <1>7, <2>1, <2>2, <2>3, <2>4, <2>5, <2>6, <2>7, <2>8, <2>9, <2>10 DEF Steps
<1>8. CASE UNCHANGED vars
  BY <1>2, <1>8 DEF vars, tables
<1>9. QED
  BY <1>5, <1>6, <1>7, <1>8 DEF Next

-----------------------------------------------------------------------------
(* Causes.                                                                 *)

(* How the tokens of a step may change: a new pair is live; an old one      *)
(* expires or is revoked for a cause, or is spent by the only handler that *)
(* presented it, or by one of several, which is a cause.                    *)
PairsExplained ==
    \A q \in pairs' :
        \/ q.id \notin Ids(pairs) /\ q.refresh = "live"
        \/ \E p \in pairs :
              /\ p.id = q.id /\ p.grant = q.grant
              /\ \/ q.refresh = p.refresh
                 \/ q.refresh \in {"expired", "revoked"} /\ q.grant \in cause'
                 \/ /\ q.refresh = "spent" /\ q.id \in presented'
                    /\ \A k \in Handlers : At(k, "rotate")' /\ hs'[k].of = q.id => q.grant \in cause'

(* What a handler that moves to x must have found out. *)
MoveExplained(h, x) ==
    /\ x.pc = "grant" => x.of \in cause'
    /\ \A q \in pairs' : x.of = q.id =>
          /\ x.pc = "family" => q.grant \in cause'
          /\ x.pc = "rotate" =>
                /\ q.id \in presented'
                /\ q.refresh = "spent" => q.grant \in cause'
                /\ \A k \in Handlers \ {h} :
                      At(k, "rotate") /\ hs[k].of = q.id => q.grant \in cause'

LEMMA CauseHolds ==
    ASSUME ConsentInv, GrantInv, CauseInv,
           presented \subseteq presented', cause \subseteq cause',
           \A g \in Grants : grants'[g] = "revoked" => g \in cause',
           PairsExplained,
           \/ hs' = hs
           \/ \E h \in Handlers, x \in Handler : Moves(h, x) /\ MoveExplained(h, x)
    PROVE  CauseInv'
<1>1. \A q \in pairs' :
         /\ q.refresh \in {"expired", "revoked"} => q.grant \in cause'
         /\ q.refresh = "spent" => q.id \in presented'
  BY DEF PairsExplained, CauseInv
<1>2. ASSUME NEW k \in Handlers, hs'[k] = hs[k], NEW q \in pairs', hs[k].of = q.id
      PROVE  /\ At(k, "family") => q.grant \in cause'
             /\ At(k, "rotate") => q.id \in presented' /\ (q.refresh = "spent" => q.grant \in cause')
  <2> SUFFICES ASSUME At(k, "family") \/ At(k, "rotate")
               PROVE  /\ At(k, "family") => q.grant \in cause'
                      /\ At(k, "rotate") => /\ q.id \in presented'
                                            /\ q.refresh = "spent" => q.grant \in cause'
    OBVIOUS
  <2>1. q.id \in Ids(pairs)
    BY <1>2 DEF GrantInv, IssueInv, At
  <2>2. PICK p \in pairs :
              /\ p.id = q.id /\ p.grant = q.grant
              /\ \/ q.refresh = p.refresh
                 \/ q.refresh \in {"expired", "revoked"} /\ q.grant \in cause'
                 \/ /\ q.refresh = "spent" /\ q.id \in presented'
                    /\ \A j \in Handlers : At(j, "rotate")' /\ hs'[j].of = q.id => q.grant \in cause'
    BY <2>1 DEF PairsExplained
  <2>3. At(k, "rotate") => At(k, "rotate")' /\ hs'[k].of = q.id
    BY <1>2 DEF At
  <2>4. /\ At(k, "family") => p.grant \in cause
        /\ At(k, "rotate") => p.id \in presented /\ (p.refresh = "spent" => p.grant \in cause)
    BY <1>2, <2>2 DEF CauseInv
  <2>5. QED
    BY <2>2, <2>3, <2>4
<1>3. ASSUME NEW j \in Handlers, NEW k \in Handlers, hs'[j] = hs[j], hs'[k] = hs[k],
             NEW q \in pairs', At(j, "rotate"), At(k, "rotate"), hs[j].of = q.id, hs[k].of = q.id
      PROVE  j = k \/ q.grant \in cause'
  <2>1. q.id \in Ids(pairs)
    BY <1>3 DEF GrantInv, IssueInv, At
  <2>2. PICK p \in pairs : p.id = q.id /\ p.grant = q.grant
    BY <2>1 DEF PairsExplained
  <2>3. QED
    BY <1>3, <2>2 DEF CauseInv
<1>4. RevokedForCause'
  BY DEF RevokedForCause
<1>5. CASE hs' = hs
  <2>1. \A h \in Handlers : At(h, "grant")' => hs'[h].of \in cause'
    BY <1>5 DEF CauseInv, At
  <2>2. \A h \in Handlers, q \in pairs' : hs'[h].of = q.id =>
           /\ At(h, "family")' => q.grant \in cause'
           /\ At(h, "rotate")' => q.id \in presented' /\ (q.refresh = "spent" => q.grant \in cause')
    BY <1>2, <1>5 DEF At
  <2>3. \A j, k \in Handlers, q \in pairs' :
           At(j, "rotate")' /\ At(k, "rotate")' /\ hs'[j].of = q.id /\ hs'[k].of = q.id
               => j = k \/ q.grant \in cause'
    BY <1>3, <1>5 DEF At
  <2>4. QED
    BY <1>1, <1>4, <2>1, <2>2, <2>3 DEF CauseInv
<1>6. ASSUME NEW h \in Handlers, NEW x \in Handler, Moves(h, x), MoveExplained(h, x)
      PROVE  CauseInv'
  <2>1. hs'[h] = x /\ \A k \in Handlers : k # h => hs'[k] = hs[k]
    BY <1>6, MovesOne DEF ConsentInv
  <2>2. \A k \in Handlers : At(k, "grant")' => hs'[k].of \in cause'
    BY <1>6, <2>1 DEF CauseInv, At, MoveExplained
  <2>3. ASSUME NEW k \in Handlers, NEW q \in pairs', hs'[k].of = q.id
        PROVE  /\ At(k, "family")' => q.grant \in cause'
               /\ At(k, "rotate")' => /\ q.id \in presented'
                                      /\ q.refresh = "spent" => q.grant \in cause'
    <3>1. CASE k = h
      BY <1>6, <2>1, <2>3, <3>1 DEF At, MoveExplained
    <3>2. CASE k # h
      BY <1>2, <2>1, <2>3, <3>2 DEF At
    <3>3. QED
      BY <3>1, <3>2
  <2>4. ASSUME NEW j \in Handlers, NEW k \in Handlers, NEW q \in pairs',
               At(j, "rotate")', At(k, "rotate")', hs'[j].of = q.id, hs'[k].of = q.id
        PROVE  j = k \/ q.grant \in cause'
    <3>1. CASE j # h /\ k # h
      BY <1>3, <2>1, <2>4, <3>1 DEF At
    <3>2. CASE j # k /\ (j = h \/ k = h)
      BY <1>6, <2>1, <2>4, <3>2 DEF At, MoveExplained
    <3>3. QED
      BY <3>1, <3>2
  <2>5. QED
    BY <1>1, <1>4, <2>2, <2>3, <2>4 DEF CauseInv
<1>7. QED
  BY <1>5, <1>6

(* Every step that ends a token, or is about to end one, has its cause. *)
LEMMA CauseStep == ConsentInv /\ GrantInv /\ CauseInv /\ [Next]_vars => CauseInv'
<1> SUFFICES ASSUME ConsentInv, GrantInv, CauseInv, [Next]_vars PROVE CauseInv'
  OBVIOUS
<1> DEFINE Same == UNCHANGED <<pairs, grants>>
           Kept == presented \subseteq presented' /\ cause \subseteq cause'
           Active == \A g \in Grants : grants'[g] = "revoked" => g \in cause'
           Idle(h) == Moves(h, NoHandler) /\ MoveExplained(h, NoHandler)
<1>0. \A h \in Handlers : Answer(h) => Idle(h)
  BY HandlerType DEF Answer, Moves, MoveExplained
<1>1. ASSUME Same, Kept PROVE Active /\ PairsExplained
  BY <1>1 DEF CauseInv, RevokedForCause, PairsExplained
<1>2. ASSUME Same, Kept, hs' = hs PROVE CauseInv'
  BY <1>1, <1>2, CauseHolds
<1>3. ASSUME Kept, Active, PairsExplained, NEW h \in Handlers, Answer(h) PROVE CauseInv'
  BY <1>0, <1>3, CauseHolds, HandlerType
<1>4. ASSUME Kept, Active, PairsExplained, NEW h \in Handlers,
             NEW pc \in Pcs, NEW of \in Nat, Goto(h, pc, of),
             pc = "grant" => of \in cause',
             \A q \in pairs' : of = q.id =>
                /\ pc = "family" => q.grant \in cause'
                /\ pc = "rotate" =>
                      /\ q.id \in presented'
                      /\ q.refresh = "spent" => q.grant \in cause'
                      /\ \A k \in Handlers \ {h} :
                            At(k, "rotate") /\ hs[k].of = q.id => q.grant \in cause'
      PROVE  CauseInv'
  <2> DEFINE x == [pc |-> pc, of |-> of]
  <2>1. x \in Handler /\ x.pc = pc /\ x.of = of /\ Moves(h, x)
    BY <1>4, HandlerType DEF Goto, Moves
  <2> HIDE DEF x
  <2>2. MoveExplained(h, x)
    BY <1>4, <2>1 DEF MoveExplained
  <2>3. QED
    BY <1>4, <2>1, <2>2, CauseHolds
<1>5. \A p \in pairs : /\ p \in PairType /\ p.id \in Nat /\ p.id \in Ids(pairs)
                       /\ \A q \in pairs : q.id = p.id => q = p
  BY DEF GrantInv, PairInv, PairType, Numbered, Unique, Ids
<1> HIDE DEF Idle
<1>6. ASSUME Time PROVE CauseInv'
  <2>1. CASE NextWindow
    BY <2>1, <1>2 DEF NextWindow, tables
  <2>2. ASSUME NEW c \in Consents, BeginAuthorization(c) \/ ExpireConsent(c) PROVE CauseInv'
    BY <2>2, <1>2 DEF BeginAuthorization, ExpireConsent
  <2>3. ASSUME NEW c \in codes, ExpireCode(c) PROVE CauseInv'
    BY <2>3, <1>2 DEF ExpireCode
  <2>4. ASSUME NEW p \in pairs, ExpireRefresh(p) PROVE CauseInv'
    <3> DEFINE q == [p EXCEPT !.refresh = "expired"]
    <3>1. /\ pairs' = (pairs \ {p}) \cup {q} /\ cause' = cause \cup {p.grant}
          /\ UNCHANGED <<grants, presented, hs>>
      BY <2>4 DEF ExpireRefresh
    <3>2. q.id = p.id /\ q.grant = p.grant /\ q.refresh = "expired"
      BY <1>5 DEF PairType
    <3> HIDE DEF q
    <3>3. PairsExplained
      BY <3>1, <3>2 DEF PairsExplained
    <3>4. Kept /\ Active
      BY <3>1 DEF CauseInv, RevokedForCause
    <3>5. QED
      BY <3>1, <3>3, <3>4, CauseHolds
  <2>5. QED
    BY <1>6, <2>1, <2>2, <2>3, <2>4 DEF Time
<1>7. ASSUME NEW h \in Handlers, Requests(h) PROVE CauseInv'
  <2> USE ArriveGoes DEF tables, Pcs
  <2>1. ASSUME NEW c \in Consents, Submit(h, c) PROVE CauseInv'
    <3>1. Same /\ Kept /\ Goto(h, "consent", c) /\ c \in Nat
      BY <2>1 DEF Submit, Consents
    <3>2. QED
      BY <3>1, <1>1, <1>4
  <2>2. ASSUME NEW c \in codes, Exchange(h, c) PROVE CauseInv'
    <3>1. Same /\ Kept /\ Goto(h, "exchange", c.id) /\ c.id \in Nat
      BY <2>2 DEF Exchange, ConsentInv, Code, Grants
    <3>2. QED
      BY <3>1, <1>1, <1>4
  <2>3. ASSUME NEW p \in pairs, Refresh(h, p) PROVE CauseInv'
    <3>1. /\ Same /\ Goto(h, "rotate", p.id)
          /\ presented' = presented \cup {p.id}
          /\ cause' = IF p.id \in presented THEN cause \cup {p.grant} ELSE cause
      BY <2>3 DEF Refresh
    <3>2. Kept
      BY <3>1
    <3>3. ASSUME NEW q \in pairs', p.id = q.id
          PROVE  /\ q.id \in presented'
                 /\ q.refresh = "spent" => q.grant \in cause'
                 /\ \A k \in Handlers \ {h} :
                       At(k, "rotate") /\ hs[k].of = q.id => q.grant \in cause'
      <4>1. q = p
        BY <3>1, <3>3, <1>5
      <4>2. q.refresh = "spent" => p.id \in presented
        BY <4>1 DEF CauseInv
      <4>3. \A k \in Handlers : At(k, "rotate") /\ hs[k].of = q.id => p.id \in presented
        BY <4>1 DEF CauseInv
      <4>4. QED
        BY <3>1, <4>1, <4>2, <4>3
    <3>4. QED
      BY <3>1, <3>2, <3>3, <1>1, <1>4, <1>5
  <2>4. ASSUME NEW p \in pairs, RevokeAccess(h, p) PROVE CauseInv'
    <3>1. Same /\ Kept /\ Goto(h, "look", p.id) /\ p.id \in Nat
      BY <2>4, <1>5 DEF RevokeAccess
    <3>2. QED
      BY <3>1, <1>1, <1>4
  <2>5. ASSUME NEW p \in pairs, RevokeRefresh(h, p) PROVE CauseInv'
    <3>1. Same /\ Kept /\ Goto(h, "family", p.id) /\ p.id \in Nat /\ p.grant \in cause'
      BY <2>5, <1>5 DEF RevokeRefresh
    <3>2. \A q \in pairs' : p.id = q.id => q.grant \in cause'
      BY <3>1, <1>5
    <3>3. QED
      BY <3>1, <3>2, <1>1, <1>4
  <2>6. ASSUME NEW g \in Grants, Settings(h, g) PROVE CauseInv'
    <3>1. Same /\ Kept /\ Goto(h, "grant", g) /\ g \in Nat /\ g \in cause'
      BY <2>6 DEF Settings, Grants
    <3>2. QED
      BY <3>1, <1>1, <1>4
  <2>7. QED
    BY <1>7, <2>1, <2>2, <2>3, <2>4, <2>5, <2>6 DEF Requests
<1>8. ASSUME NEW h \in Handlers, Steps(h) PROVE CauseInv'
  <2> DEFINE i == hs[h].of
             p == PairOf(i)
  <2>0. /\ i \in Nat
        /\ hs[h].pc \in {"rotate", "family", "look", "mark"} => p \in pairs /\ p.id = i
    BY PairOfIs DEF ConsentInv, Handler, GrantInv, IssueInv, PairInv, Numbered
  <2>1. CASE ConsumeConsent(h)
    <3>1. Same /\ Kept /\ (Answer(h) \/ Goto(h, "code", i))
      BY <2>1 DEF ConsumeConsent
    <3>2. QED
      BY <3>1, <2>0, <1>1, <1>3, <1>4 DEF Pcs
  <2>2. CASE CreateCode(h)
    BY <2>2, <1>1, <1>3 DEF CreateCode
  <2>3. CASE ConsumeCode(h)
    <3>1. CodeOf(i) \in codes /\ CodeOf(i).id = i
      BY <2>3, CodeOfIs DEF ConsumeCode, ConsentInv, Numbered
    <3>2. Same /\ Kept /\ (Answer(h) \/ Goto(h, "issue", i))
      BY <2>3, <3>1 DEF ConsumeCode
    <3>3. QED
      BY <3>2, <2>0, <1>1, <1>3, <1>4 DEF Pcs
  <2>4. CASE IssueTokenSet(h)
    <3>1. /\ pairs' = pairs \cup {NewPair(i)} /\ grants' = [grants EXCEPT ![i] = "active"]
          /\ UNCHANGED <<presented, cause>> /\ Answer(h)
      BY <2>4 DEF IssueTokenSet, CreateTokenSet
    <3>2. NewPair(i).id = Cardinality(pairs) + 1 /\ NewPair(i).refresh = "live"
      BY DEF NewPair
    <3>3. NewPair(i).id \notin Ids(pairs)
      BY <3>2, Extended DEF GrantInv, PairInv, Ids
    <3>4. PairsExplained
      BY <3>1, <3>2, <3>3 DEF PairsExplained
    <3>5. \A g \in Grants : grants'[g] = "revoked" => grants[g] = "revoked"
      BY <3>1 DEF GrantInv, PairInv
    <3>6. Active
      BY <3>1, <3>5 DEF CauseInv, RevokedForCause
    <3>7. QED
      BY <3>1, <3>4, <3>6, <1>3
  <2>5. CASE Rotate(h)
    <3>1. p \in pairs /\ p.id = i /\ At(h, "rotate") /\ UNCHANGED <<grants, presented>> /\ Kept
      BY <2>0, <2>5 DEF Rotate, At
    <3>2. Active
      BY <3>1 DEF CauseInv, RevokedForCause
    <3>3. CASE RotationAccepts(p)
      <4> DEFINE q == [p EXCEPT !.refresh = "spent"]
                 n == NewPair(p.grant)
      <4>1. pairs' = (pairs \ {p}) \cup {q, n} /\ p.refresh = "live"
        BY <2>5, <3>3 DEF Rotate, Rotated, RotationAccepts
      <4>2. /\ q.id = p.id /\ q.grant = p.grant /\ q.refresh = "spent"
            /\ n.id = Cardinality(pairs) + 1 /\ n.refresh = "live"
        BY <1>5, <3>1 DEF PairType, NewPair
      <4> HIDE DEF q, n
      <4>3. n.id \notin Ids(pairs)
        BY <4>2, Extended DEF GrantInv, PairInv, Ids
      <4>4. p.id \in presented
        BY <3>1 DEF CauseInv, At
      <4>5. \A k \in Handlers \ {h} : At(k, "rotate") /\ hs[k].of = q.id => q.grant \in cause'
        BY <3>1, <4>2 DEF CauseInv
      <4>6. CASE Answer(h)
        <5>1. hs'[h] = NoHandler /\ \A k \in Handlers : k # h => hs'[k] = hs[k]
          BY <4>6, MovesOne, HandlerType DEF Answer, Moves, ConsentInv
        <5>2. \A k \in Handlers : At(k, "rotate")' /\ hs'[k].of = q.id => q.grant \in cause'
          BY <4>5, <5>1, HandlerType DEF At
        <5>3. PairsExplained
          BY <3>1, <4>1, <4>2, <4>3, <4>4, <5>2 DEF PairsExplained
        <5>4. QED
          BY <3>1, <3>2, <4>6, <5>3, <1>3
      <4>7. CASE Goto(h, "family", p.id) /\ cause' = cause \cup {p.grant}
        <5>1. PairsExplained
          BY <3>1, <4>1, <4>2, <4>3, <4>4, <4>7 DEF PairsExplained
        <5>2. \A r \in pairs' : r.id = p.id => r.grant \in cause'
          BY <3>1, <4>1, <4>2, <4>3, <4>7, <1>5
        <5>3. QED
          BY <2>0, <3>1, <3>2, <4>7, <5>1, <5>2, <1>4 DEF Pcs
      <4>8. QED
        BY <2>5, <3>3, <4>6, <4>7 DEF Rotate
    <3>4. CASE ~RotationAccepts(p)
      <4>1. Same /\ Goto(h, "family", p.id) /\ cause' = cause
        BY <2>5, <3>1, <3>4 DEF Rotate
      <4>2. p.refresh \in {"expired", "spent", "revoked"}
        BY <1>5, <3>1, <3>4 DEF PairType, RotationAccepts
      <4>3. p.grant \in cause
        BY <3>1, <4>2 DEF CauseInv
      <4>4. \A r \in pairs' : r.id = p.id => r.grant \in cause'
        BY <3>1, <4>1, <4>3, <1>5
      <4>5. QED
        BY <2>0, <3>1, <3>2, <4>1, <4>4, <1>1, <1>4 DEF Pcs
    <3>5. QED
      BY <3>3, <3>4
  <2>6. CASE Look(h)
    <3>1. Same /\ Kept /\ (Answer(h) \/ Goto(h, "mark", i))
      BY <2>6 DEF Look, tables
    <3>2. QED
      BY <3>1, <2>0, <1>1, <1>3, <1>4 DEF Pcs
  <2>7. CASE Mark(h)
    <3> DEFINE q == [p EXCEPT !.access = "revoked"]
    <3>1. p \in pairs /\ p \in PairType
      BY <2>0, <2>7, <1>5 DEF Mark
    <3>2. q.id = p.id /\ q.grant = p.grant /\ q.refresh = p.refresh
      BY <3>1 DEF PairType
    <3>3. /\ pairs' = (pairs \ {p}) \cup {q} /\ UNCHANGED <<grants, presented, cause>>
          /\ Answer(h)
      BY <2>7 DEF Mark
    <3> HIDE DEF q, p
    <3>4. PairsExplained
      BY <3>1, <3>2, <3>3 DEF PairsExplained
    <3>5. QED
      BY <3>3, <3>4, <1>3 DEF CauseInv, RevokedForCause
  <2>8. ASSUME NEW g \in Grants, grants[g] # "none", NEW access \in BOOLEAN,
               RevokeAll(g, access), g \in cause,
               Answer(h), UNCHANGED <<store, presented, cause>>
        PROVE  CauseInv'
    <3>1. /\ \A f \in Grants : grants'[f] = grants[f] \/ f = g
          /\ \A q \in pairs' : \E r \in pairs : r.id = q.id /\ r.grant = q.grant
                /\ (q.refresh = r.refresh \/ q.refresh = "revoked")
                /\ (q.refresh # r.refresh => q.grant = g)
      BY <2>8, RevokeAllHolds DEF GrantInv
    <3>2. PairsExplained
      BY <2>8, <3>1 DEF PairsExplained
    <3>3. Active
      BY <2>8, <3>1 DEF CauseInv, RevokedForCause
    <3>4. QED
      BY <2>8, <3>2, <3>3, <1>3
  <2>9. CASE RevokeFamily(h)
    <3>1. /\ p.grant \in Grants /\ grants[p.grant] # "none" /\ p.grant \in cause
      BY <2>0, <2>9 DEF RevokeFamily, GrantInv, PairInv, PairType, CauseInv, At
    <3>2. /\ RevokeAll(p.grant, FALSE) /\ Answer(h) /\ UNCHANGED <<store, presented, cause>>
      BY <2>9 DEF RevokeFamily
    <3>3. QED
      BY <3>1, <3>2, <2>8
  <2>10. CASE RevokeGrant(h)
    <3>1. i \in Grants /\ grants[i] # "none" /\ i \in cause
      BY <2>10 DEF RevokeGrant, GrantInv, IssueInv, CauseInv, At
    <3>2. /\ RevokeAll(i, TRUE) /\ Answer(h) /\ UNCHANGED <<store, presented, cause>>
      BY <2>10 DEF RevokeGrant
    <3>3. QED
      BY <3>1, <3>2, <2>8
  <2>11. CASE Stop(h)
    BY <2>11, <1>1, <1>3 DEF Stop, tables
  <2>12. QED
    BY <1>8, <2>1, <2>2, <2>3, <2>4, <2>5, <2>6, <2>7, <2>9, <2>10, <2>11 DEF Steps
<1>9. CASE UNCHANGED vars
  BY <1>2, <1>9 DEF vars, tables
<1>10. QED
  BY <1>6, <1>7, <1>8, <1>9 DEF Next

-----------------------------------------------------------------------------
(* The theorems.                                                           *)

LEMMA Begins == Init => ConsentInv /\ GrantInv /\ CauseInv
<1> SUFFICES ASSUME Init PROVE ConsentInv /\ GrantInv /\ CauseInv
  OBVIOUS
<1>1. Numbered({})
  <2>1. Cardinality({}) = 0
    BY FS_EmptySet
  <2>2. QED
    BY <2>1 DEF Numbered, Unique, Ids
<1>2. ConsentInv
  BY <1>1, HandlerType DEF Init, ConsentInv, OneConsentOneCode, At
<1>3. GrantInv
  BY <1>1, HandlerType DEF Init, GrantInv, IssueInv, PairInv, OneLiveRefresh, EndedForGood, At
<1>4. CauseInv
  BY HandlerType DEF Init, CauseInv, RevokedForCause, At
<1>5. QED
  BY <1>2, <1>3, <1>4

LEMMA Invariant == Spec => [](ConsentInv /\ GrantInv /\ CauseInv)
<1>1. ConsentInv /\ GrantInv /\ CauseInv /\ [Next]_vars => (ConsentInv /\ GrantInv /\ CauseInv)'
  BY ConsentStep, GrantStep, CauseStep
<1>2. QED
  BY <1>1, Begins, PTL DEF Spec

(* A consent is turned into one code at most, however often its form is    *)
(* sent, however many handlers consume it at once, and wherever one stops: *)
(* consumeAuthorizationTransaction and createAuthorizationCode.            *)
THEOREM ConsentGivesOneCode == Spec => []OneConsentOneCode
<1>1. ConsentInv => OneConsentOneCode
  BY DEF ConsentInv
<1>2. QED
  BY <1>1, Invariant, PTL

(* No interleaving of exchanges and rotations leaves a grant two refresh    *)
(* tokens to go on with: consumeAuthorizationCode, rotateRefreshToken.     *)
THEOREM GrantsNeverFork == Spec => []OneLiveRefresh
<1>1. GrantInv => OneLiveRefresh
  BY DEF GrantInv, PairInv
<1>2. QED
  BY <1>1, Invariant, PTL

(* In the local store a revoked grant has no usable token and none that     *)
(* could be rotated, whatever handlers were under way when it was revoked. *)
THEOREM RevocationIsFinal == Spec => []EndedForGood
<1>1. GrantInv => EndedForGood
  BY DEF GrantInv, PairInv
<1>2. QED
  BY <1>1, Invariant, PTL

(* No grant is revoked without a cause: revokeRefreshTokenFamilyByHash is   *)
(* called after a refused rotation only for a token that was presented     *)
(* before, had expired or was revoked, or on request.                      *)
THEOREM RevocationsHaveCauses == Spec => []RevokedForCause
<1>1. CauseInv => RevokedForCause
  BY DEF CauseInv
<1>2. QED
  BY <1>1, Invariant, PTL

=============================================================================
