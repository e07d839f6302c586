-------------------------- MODULE MaintenanceRunner --------------------------
(***************************************************************************)
(* The nightly maintenance job: for each project with maintenance on it    *)
(* reads page after page, fetches the web sources of what is due, has the  *)
(* model propose changes in a child process, and sends those that match    *)
(* the page to the server.  A call may be refused by the tool, fail, or    *)
(* take effect while its answer is lost; the owner changes settings and    *)
(* memories meanwhile.  The server's side of a change is Maintenance.      *)
(***************************************************************************)
EXTENDS SourceFetcher, Sequences

CONSTANTS
    Projects,       \* a sequence: the order of maintenance_list_projects
    Cursors,        \* cursors the server may hand out: ids of memories, which are finite
    MaxSources,     \* bound: web sources due on a page
    PageLimit,      \* pageLimit of fetchPageSources, in chunks
    OutputLimit,    \* bytes of the child's output, in chunks
    Operations,     \* operation ids the model may give its proposals
    MaxProposals,   \* bound: proposals in the run
    MaxOwner,       \* bound: changes by owners during the run
    None

ASSUME RunnerLimits ==
    {MaxSources, PageLimit, OutputLimit, MaxProposals, MaxOwner} \subseteq Nat

VARIABLES
    pc, turn,           \* where runMaintenance is; the project it is at
    dryRun,
    after, seen,        \* cursor of the next page; cursors met
    page,               \* the page in hand
    texts,              \* sourceResults: chunks of text, or Failed, by index
    usedBytes,
    child,              \* the child process, and its output in chunks
    proposed,           \* how many proposals of the child are still to be looked at
    summary,
    asListed,           \* the server: projects whose settings are still as listed
    changed,            \* the memory of the page in hand has been changed since
    recorded,           \* the server: proposals on record in the project in hand
    owner,              \* changes made by owners
    done,               \* history: changes made for this run and not answered as refused
    again               \* history: answers that a proposal had been applied before

run == <<pc, turn, dryRun, after, seen, page, texts, usedBytes, child, proposed, summary>>
ledger == <<owner, done, again>>
server == <<asListed, changed, recorded, ledger>>
vars == <<fetching, run, server>>

ProjectNumbers == DOMAIN Projects

Cursor == Cursors \cup {None}

(* A page, of one memory, by the cursor it was asked for. *)
Pages == [cursor: Cursor, next: Cursor, sources: 0..MaxSources]

(* A proposal has an operation id, which the model chooses, and cites a     *)
(* memory, by its page; a hash, the one on the page or not; and a web       *)
(* source or none.  The model may cite what it was not shown, and may say   *)
(* the same thing twice.                                                   *)
Citations == [op: Operations, cursor: Cursor, hash: BOOLEAN, source: 0..MaxSources]

Init ==
    /\ FetchInit
    /\ pc = "list" /\ turn = 0 /\ dryRun \in BOOLEAN
    /\ after = None /\ seen = {} /\ page = None
    /\ texts = <<>> /\ usedBytes = 0
    /\ child = [state |-> "none", size |-> 0]
    /\ proposed = 0
    /\ summary = [applied |-> 0, skipped |-> 0, failed |-> 0]
    /\ asListed = ProjectNumbers /\ changed = FALSE
    /\ recorded = {}
    /\ owner = 0 /\ done = 0 /\ again = 0

-----------------------------------------------------------------------------
(* The owners.                                                             *)

OwnerChanges(p) ==
    /\ pc # "end" /\ owner < MaxOwner
    /\ owner' = owner + 1
    /\ \/ asListed' = asListed \ {p} /\ UNCHANGED changed
       \/ p = turn /\ page # None /\ changed' = TRUE /\ UNCHANGED asListed
    /\ UNCHANGED <<fetching, run, recorded, done, again>>

-----------------------------------------------------------------------------
(* The run.                                                                *)

Count(field) == summary' = [summary EXCEPT ![field] = @ + 1]

(* The loop over the projects goes on, whatever became of this one; each   *)
(* project has its own operations.                                         *)
NextProject ==
    /\ turn' = turn + 1
    /\ pc' = IF turn + 1 > Len(Projects) THEN "end" ELSE "snapshot"
    /\ after' = None /\ seen' = {} /\ page' = None
    /\ texts' = <<>> /\ usedBytes' = 0 /\ proposed' = 0
    /\ recorded' = {} /\ changed' = FALSE

ProjectFails ==
    /\ Count("failed") /\ NextProject
    /\ child' = [state |-> "none", size |-> 0]
    /\ UNCHANGED <<dryRun, asListed, ledger, fetching>>

List ==
    /\ pc = "list"
    /\ \/ NextProject /\ UNCHANGED summary
       \/ /\ Count("failed") /\ pc' = "end"
          /\ UNCHANGED <<turn, after, seen, page, texts, usedBytes, proposed, recorded, changed>>
    /\ UNCHANGED <<dryRun, child, fetching, asListed, ledger>>

(* maintenance_snapshot.  Whatever cursor the server hands out. *)
Snapshot(next, sources) ==
    /\ pc = "snapshot" /\ turn \in asListed
    /\ page' = [cursor |-> after, next |-> next, sources |-> sources]
    /\ pc' = "sources"
    /\ UNCHANGED <<turn, dryRun, after, seen, texts, usedBytes, child, proposed, summary,
                   server, fetching>>

(* The call fails, or the page is of other settings than were listed.      *)
SnapshotFails == pc = "snapshot" /\ ProjectFails

(* fetchPageSources, one source after the other. *)
Fetch(url) ==
    /\ pc = "sources" /\ Len(texts) < page.sources
    /\ BeginFetch(url)
    /\ pc' = "fetching"
    /\ UNCHANGED <<turn, dryRun, after, seen, page, texts, usedBytes, child, proposed,
                   summary, server>>

FitsPage(used, bytes) == used + bytes <= PageLimit

Keep ==
    /\ pc = "fetching" /\ phase = "idle"
    /\ LET kept == IF text # Failed /\ FitsPage(usedBytes, text) THEN text ELSE Failed
       IN  /\ texts' = Append(texts, kept)
           /\ usedBytes' = IF kept = Failed THEN usedBytes ELSE usedBytes + kept
    /\ pc' = "sources"
    /\ UNCHANGED <<turn, dryRun, after, seen, page, child, proposed, summary, server, fetching>>

(* runClaudeProposal: the child, its timer, its output.  Both only send it  *)
(* SIGTERM; what settles is the child's own "close" or "error".             *)
Spawn ==
    /\ pc = "sources" /\ Len(texts) = page.sources
    /\ child' = [state |-> "runs", size |-> 0]
    /\ pc' = "propose"
    /\ UNCHANGED <<turn, dryRun, after, seen, page, texts, usedBytes, proposed, summary,
                   server, fetching>>

(* The page is too big for the child, or its directory cannot be made.      *)
SpawnFails == pc = "sources" /\ Len(texts) = page.sources /\ ProjectFails

ChildWrites ==
    /\ child.state # "none" /\ child.size <= OutputLimit
    /\ child' = [state |-> IF child.size + 1 > OutputLimit THEN "told" ELSE child.state,
                 size |-> child.size + 1]
    /\ UNCHANGED <<pc, turn, dryRun, after, seen, page, texts, usedBytes, proposed, summary,
                   server, fetching>>

(* Mutant: the timer is set when the first output arrives.                 *)
TimerOfOutput ==
    /\ child.state = "runs" /\ child.size > 0
    /\ child' = [child EXCEPT !.state = "told"]
    /\ UNCHANGED <<pc, turn, dryRun, after, seen, page, texts, usedBytes, proposed, summary,
                   server, fetching>>

ChildTimer ==
    /\ child.state = "runs"
    /\ child' = [child EXCEPT !.state = "told"]
    /\ UNCHANGED <<pc, turn, dryRun, after, seen, page, texts, usedBytes, proposed, summary,
                   server, fetching>>

(* It closes with code 0, its output within the limit and an array; one    *)
(* told to stop may still do that.                                         *)
ChildProposes(count) ==
    /\ pc = "propose" /\ child.state # "none" /\ child.size \in 1..OutputLimit
    /\ summary.applied + summary.skipped + count <= MaxProposals
    /\ proposed' = count
    /\ child' = [state |-> "none", size |-> 0]
    /\ pc' = "apply"
    /\ UNCHANGED <<turn, dryRun, after, seen, page, texts, usedBytes, summary, server, fetching>>

(* It cannot be started, or closes with another code or output.            *)
ProposalUnavailable == pc = "propose" /\ child.state # "none" /\ ProjectFails

(* proposalMatchesPage: one memory of this page, its present hash, and, if *)
(* it cites a source, one whose text was read for this page.               *)
MatchesPage(c) ==
    /\ c.cursor = page.cursor
    /\ c.hash
    /\ c.source = 0 \/ (c.source \in DOMAIN texts /\ texts[c.source] # Failed)

(* One after the other.  What a proposal says is settled when it is looked  *)
(* at, which is the first time it matters.                                 *)
Skip(c) ==
    /\ pc = "apply" /\ proposed > 0
    /\ ~MatchesPage(c) \/ dryRun
    /\ proposed' = proposed - 1
    /\ Count("skipped")
    /\ UNCHANGED <<pc, turn, dryRun, after, seen, page, texts, usedBytes, child, server, fetching>>

Sendable(c) == pc = "apply" /\ proposed > 0 /\ MatchesPage(c) /\ ~dryRun

(* maintenance_apply on the server.  An operation id on record is answered  *)
(* from the record: applied before if the proposal is the same, a conflict  *)
(* if not.  Otherwise the settings and the hash must still hold.            *)
Before(c) == c \in recorded
Known(c) == \E r \in recorded : r.op = c.op
Acceptable(c) == ~Known(c) /\ turn \in asListed /\ ~changed

Recorded(c) == recorded' = recorded \cup {c} /\ changed' = TRUE

ServerApplies(c) ==
    IF Acceptable(c)
    THEN Recorded(c) /\ done' = done + 1
    ELSE UNCHANGED <<recorded, done, changed>>

(* The outcome arrives; a conflict is a tool error as well.                *)
Apply(c) ==
    /\ Sendable(c)
    /\ ServerApplies(c)
    /\ again' = IF Before(c) THEN again + 1 ELSE again
    /\ proposed' = proposed - 1
    /\ Count(IF Acceptable(c) \/ Before(c) THEN "applied" ELSE "skipped")
    /\ UNCHANGED <<pc, turn, dryRun, after, seen, page, texts, usedBytes, child,
                   asListed, owner, fetching>>

(* Any exception is a tool error, and so counted as a proposal refused: also *)
(* the one thrown when the change is committed and neither the index nor   *)
(* its rebuilding succeeds.                                                *)
Refused(c) ==
    /\ Sendable(c)
    /\ (Acceptable(c) /\ Recorded(c)) \/ UNCHANGED <<recorded, changed>>
    /\ proposed' = proposed - 1
    /\ Count("skipped")
    /\ UNCHANGED <<pc, turn, dryRun, after, seen, page, texts, usedBytes, child,
                   asListed, ledger, fetching>>

(* Mutant: any error is taken for a refusal by the tool.                   *)
AnyErrorSkips ==
    /\ Count("skipped") /\ proposed' = proposed - 1
    /\ UNCHANGED <<pc, turn, dryRun, after, seen, page, texts, usedBytes, recorded, changed, child, fetching>>

ErrorOfTheCall ==
    /\ Count("failed") /\ NextProject
    /\ UNCHANGED <<dryRun, child, fetching>>

(* No answer in time, or none that can be read: nobody knows if it was      *)
(* applied, and the project is given up.                                   *)
ApplyFails(c) ==
    /\ Sendable(c)
    /\ done' \in {done, IF Acceptable(c) THEN done + 1 ELSE done}
    /\ ErrorOfTheCall
    /\ UNCHANGED <<asListed, owner, again>>

(* Mutant: only the cursor just used is compared.                          *)
SameCursorAgain(next) == next = after

CursorRepeats(next) == next = after \/ next \in seen

NextPage ==
    /\ pc = "apply" /\ proposed = 0 /\ page.next # None /\ ~CursorRepeats(page.next)
    /\ after' = page.next /\ seen' = seen \cup {page.next}
    /\ page' = None /\ texts' = <<>> /\ usedBytes' = 0 /\ changed' = FALSE
    /\ pc' = "snapshot"
    /\ UNCHANGED <<turn, dryRun, child, proposed, summary, asListed, recorded, ledger, fetching>>

PageRepeats ==
    /\ pc = "apply" /\ proposed = 0 /\ page.next # None /\ CursorRepeats(page.next)
    /\ ProjectFails

LastPage ==
    /\ pc = "apply" /\ proposed = 0 /\ page.next = None
    /\ NextProject
    /\ UNCHANGED <<dryRun, child, summary, asListed, ledger, fetching>>

Next ==
    \/ \E p \in ProjectNumbers : OwnerChanges(p)
    \/ List
    \/ \E next \in Cursors \cup {None}, n \in 0..MaxSources : Snapshot(next, n)
    \/ SnapshotFails
    \/ \E url \in Urls : Fetch(url)
    \/ FetchStep /\ UNCHANGED <<run, server>>
    \/ Keep
    \/ Spawn
    \/ SpawnFails
    \/ ChildWrites
    \/ ChildTimer
    \/ \E n \in 0..MaxProposals : ChildProposes(n)
    \/ ProposalUnavailable
    \/ \E c \in Citations : Skip(c)
    \/ \E c \in Citations : Apply(c)
    \/ \E c \in Citations : Refused(c)
    \/ \E c \in Citations : ApplyFails(c)
    \/ NextPage
    \/ PageRepeats
    \/ LastPage

(* Every call of the client has an abort timer, a fetch its deadline, the   *)
(* child its timer.  A child left alone need not end.                      *)
RunStep ==
    \/ List \/ SnapshotFails \/ \E url \in Urls : Fetch(url)
    \/ (FetchTimer \/ Tick) /\ UNCHANGED <<run, server>>
    \/ Keep \/ Spawn \/ ChildTimer
    \/ \E c \in Citations : Skip(c) \/ Apply(c) \/ ApplyFails(c)
    \/ NextPage \/ PageRepeats \/ LastPage

(* Assumed of the child, and not in the code, which sends nothing stronger: *)
(* told to stop, it ends.                                                  *)
ToldEnds == child.state = "told" /\ ProposalUnavailable

Spec == Init /\ [][Next]_vars
FairSpec == Spec /\ WF_vars(RunStep) /\ WF_vars(ToldEnds)

-----------------------------------------------------------------------------
(* Properties.                                                             *)

(* The job ends, in whatever order cursors of the server come and come      *)
(* again, with every call unanswered, every source slow, and the child     *)
(* silent or writing for ever until it is told to stop (seenCursors, the   *)
(* timers, SIGTERM).                                                       *)
RunEnds == <>(pc = "end")

(* The summary accounts for what the job did.  What it counts as applied    *)
(* are the changes made and the proposals that were found applied before;  *)
(* and when no failure is reported all changes are counted, however many   *)
(* proposals were repeated, except those the server answered as refused    *)
(* (Refused).                                                              *)
Accounted ==
    /\ summary.applied <= done + again
    /\ pc = "end" /\ summary.failed = 0 => summary.applied = done + again

=============================================================================
