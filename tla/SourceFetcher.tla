---------------------------- MODULE SourceFetcher ----------------------------
(***************************************************************************)
(* fetchPublicSource reads the text behind the URL of a memory's source:   *)
(* it resolves the host, refuses it unless all its addresses are public,   *)
(* connects to one of those it has checked, follows redirects through the  *)
(* same checks, and puts one deadline over all of it.  Timers, errors,     *)
(* responses, data and their end race; the first of them to settle a       *)
(* request counts.                                                         *)
(*                                                                         *)
(* One fetch at a time: the maintenance runner awaits each.                *)
(***************************************************************************)
EXTENDS Integers, FiniteSets

CONSTANTS
    MaxRedirects,   \* MAX_REDIRECTS
    Deadline,       \* TOTAL_TIMEOUT_MS, in ticks
    MaxDecoded      \* MAX_DECODED_BYTES, in chunks

ASSUME FetchLimits == {MaxRedirects, Deadline, MaxDecoded} \subseteq Nat

VARIABLES
    phase,      \* of the fetch: "idle", "resolve", "request", "body"
    hop,        \* redirects followed
    clock,      \* ticks since the fetch began
    size,       \* chunks decoded
    text        \* the result: chunks of text, or Failed

fetching == <<phase, hop, clock, size, text>>

Failed == -1
Kinds == {"public", "blocked"}      \* isPublicAddress

(* What parseUrl makes of a URL: also a public IP literal is refused.      *)
Urls == {"name", "refused"}

FetchInit ==
    /\ phase = "idle" /\ hop = 0 /\ clock = 0 /\ size = 0
    /\ text = Failed

(* The fetch has answered. *)
Settle(result) ==
    /\ phase' = "idle" /\ text' = result
    /\ hop' = 0 /\ size' = 0 /\ clock' = 0

(* parseUrl, for the first URL and for the target of a redirect. *)
Visit(url, count) ==
    IF url = "name"
    THEN phase' = "resolve" /\ hop' = count /\ size' = 0
         /\ UNCHANGED <<clock, text>>
    ELSE Settle(Failed)

(* fetchPublicSource. *)
BeginFetch(url) ==
    /\ phase = "idle"
    /\ Visit(url, 0)

Late == clock >= Deadline

(* assertAddressSet. *)
AllPublic(addresses) == addresses # {} /\ addresses \subseteq {"public"}

(* The resolver's answer, when it comes before the timer of deadlineRace;  *)
(* requestOnce asks how much time is left.                                 *)
Resolved(addresses) ==
    /\ phase = "resolve"
    /\ IF AllPublic(addresses) /\ ~Late
       THEN /\ phase' = "request"
            /\ UNCHANGED <<hop, size, clock, text>>
       ELSE Settle(Failed)

(* Errors of the resolver, the request, the response and the decoders, and *)
(* the timers: abort.                                                      *)
Break ==
    /\ phase \in {"resolve", "request", "body"}
    /\ Settle(Failed)

FetchTimer == Late /\ Break

(* The head of a response, as far as it is looked at.  A redirect without a *)
(* location counts as another status; one with a location is Redirect.     *)
Heads == [status: {"ok", "other"}, type: {"text", "other"}, encoding: {"known", "other"}]

(* decodeContentType and decompressor refuse what they do not know. *)
Typed(head) == head.type = "text"
Decodable(head) == head.encoding = "known"
Readable(head) == head.status = "ok" /\ Typed(head) /\ Decodable(head)

Redirect(url) ==
    /\ phase = "request"
    /\ IF hop >= MaxRedirects THEN Settle(Failed) ELSE Visit(url, hop + 1)

Response(head) ==
    /\ phase = "request"
    /\ IF Readable(head)
       THEN phase' = "body" /\ UNCHANGED <<hop, clock, size, text>>
       ELSE Settle(Failed)

Data ==
    /\ phase = "body"
    /\ IF size + 1 > MaxDecoded
       THEN Settle(Failed)
       ELSE size' = size + 1 /\ UNCHANGED <<phase, hop, clock, text>>

(* The end of the body.  fetchPublicSource looks at the clock once more.   *)
End ==
    /\ phase = "body"
    /\ Settle(IF Late THEN Failed ELSE size)

Tick ==
    /\ phase # "idle" /\ ~Late
    /\ clock' = clock + 1
    /\ UNCHANGED <<phase, hop, size, text>>

FetchStep ==
    \/ \E addresses \in SUBSET Kinds : Resolved(addresses)
    \/ Break
    \/ \E url \in Urls : Redirect(url)
    \/ \E head \in Heads : Response(head)
    \/ Data
    \/ End
    \/ Tick

=============================================================================
