--------------------------- MODULE ConnectorPlans ---------------------------
(***************************************************************************)
(* The vocabulary the models of the source connectors are written in.      *)
(*                                                                         *)
(* Every connector of internal/connector/<name>/ has the same operations   *)
(* (Validate, Connect, ListNamespaces, ListDocuments and its iterator,     *)
(* FetchDocument, DeltaSync) and writes its own control flow for each:     *)
(* which requests it makes, in which order, when it stops, what it does    *)
(* with a reply that is not the one it hoped for, and which cursor it      *)
(* hands back.  One operation of one connector is a PLAN: a record that    *)
(* says those things, read off that connector's function.  The machines    *)
(* that execute plans are ConnectorCalls, Backfill and DeltaPoll.          *)
(***************************************************************************)
EXTENDS Naturals, Sequences, FiniteSets

-----------------------------------------------------------------------------
(* What an upstream can answer to one HTTP request.                         *)
(*   throttled  429                                                         *)
(*   busy       503                                                         *)
(*   denied     any other refused status, or no answer at all               *)
(*   quota      a refusal whose body names a rate limit (Slack's            *)
(*              "ratelimited", Google's 403 quota reasons, GraphQL codes)   *)
(*   soft       a 200 whose body reports a failure                          *)
(*   garbled    a 200 whose body does not decode                            *)
Refusals == {"throttled", "busy", "denied", "quota", "soft", "garbled"}
Replies == Refusals \cup {"ok"}

(* How a function treats the refusals: the ones it wraps in ErrRateLimited, *)
(* the ones it takes for an empty answer; every other one is an error.      *)
Wraps(limited) == [limited |-> limited, blank |-> {}]
Plain == Wraps({})
Wraps429 == Wraps({"throttled"})
WrapsQuota == Wraps({"throttled", "quota"})
WrapsBusy == Wraps({"throttled", "busy"})
Takes(blank, reply) == [reply EXCEPT !.blank = blank]

Outcome(reply, r) ==
  CASE r = "ok"            -> "ok"
    [] r \in reply.limited -> "limited"
    [] r \in reply.blank   -> "blank"
    [] OTHER               -> "error"

-----------------------------------------------------------------------------
(* Validate and Connect.  "needs" holds the alternatives Validate accepts,  *)
(* each the set of credential fields that must be there; "probes" is the    *)
(* number of authenticated requests Connect can make; the reply to the      *)
(* second one, where there is one, only counts when the first is denied.    *)
Probe(needs, reply) == [needs |-> needs, probes |-> 1, reply |-> reply]
ProbeAgain(needs, reply) == [needs |-> needs, probes |-> 2, reply |-> reply]
NoProbe(needs) == [needs |-> needs, probes |-> 0, reply |-> Plain]

(* A probe whose body is never looked at accepts a 200 of any content.      *)
Ignoring(reply) == Takes({"soft", "garbled"}, reply)

-----------------------------------------------------------------------------
(* ListNamespaces.  "walk" says what is asked of the upstream: nothing (the *)
(* namespaces are configured or constant), one answer that holds them all,  *)
(* the first page of several, or all pages; "inner" is how the second-level *)
(* replies are treated when each entry is expanded by a request of its own. *)
Walking(walk, reply) == [walk |-> walk, reply |-> reply, nested |-> FALSE, inner |-> reply]
Configured == Walking("configured", Plain)
OneAnswer(reply) == Walking("whole", reply)
FirstPage(reply) == Walking("first", reply)
AllPages(reply) == Walking("pages", reply)
Expanding(ns, inner) == [ns EXCEPT !.nested = TRUE, !.inner = inner]

-----------------------------------------------------------------------------
(* ListDocuments and its iterator.                                          *)
(*   walk   how the next page is named: by a token, link or key of the last *)
(*          one ("token"), or by a position in the upstream's list          *)
(*          ("offset")                                                      *)
(*   ends   which page is the last: the upstream says so ("told"), it is    *)
(*          not full ("short"), either of the two ("toldOrShort"), it is    *)
(*          empty ("empty"), or always the first ("first")                  *)
(*   eager  Next gives up as soon as the last page was fetched, whatever    *)
(*          that page still holds                                           *)
(*   hides  entries of a page can be left out by the connector              *)
Listing(walk, ends) ==
  [walk |-> walk, ends |-> ends, eager |-> FALSE, hides |-> FALSE, reply |-> Wraps429]
TokenPages == Listing("token", "told")
OffsetPages(ends) == Listing("offset", ends)
WholeAnswer == Listing("token", "told")
OnlyFirstPage == Listing("token", "first")
Eager(list) == [list EXCEPT !.eager = TRUE]
Hiding(list) == [list EXCEPT !.hides = TRUE]
Treating(plan, reply) == [plan EXCEPT !.reply = reply]
NothingListed == Listing("none", "first")

-----------------------------------------------------------------------------
(* FetchDocument: the number of requests, what becomes of the body's read   *)
(* error ("checked", "ignored", or "stream" when the body is handed to the  *)
(* caller unread), and whether a body that does not decode is an error.     *)
Fetching(requests, body, decode, reply) ==
  [requests |-> requests, body |-> body, decode |-> decode, reply |-> reply]
Strict(reply) == Fetching(1, "checked", TRUE, reply)
Lenient(reply) == Fetching(1, "checked", FALSE, reply)
Careless(reply) == Fetching(1, "ignored", FALSE, reply)
Streams(requests, reply) == Fetching(requests, "stream", requests = 2, reply)
NoFetch == Fetching(0, "checked", TRUE, Plain)

-----------------------------------------------------------------------------
(* DeltaSync.                                                               *)
(*   boot    what an empty cursor yields: the current time ("now"), the     *)
(*           newest change the upstream knows or else the time ("newest"),  *)
(*           the same but "" when there is none ("newestOrNone"), the       *)
(*           upstream's current token ("head"), or the changes from the     *)
(*           beginning ("all")                                              *)
(*   feed    what orders the changes: the upstream's change log ("log"),    *)
(*           each document's time of change ("time"), or a key that an edit *)
(*           does not move ("key")                                          *)
(*   strict  a change at the cursor itself is not shown again               *)
(*   order   the order pages are read in: "asc", "desc" or "any"            *)
(*   reach   "one" page a call, or "all" of them                            *)
(*   walk    "token" or "offset", as for listings                           *)
(*   after   the next cursor: the newest change read ("max"), the time at   *)
(*           the end of the call ("now"), the time before the first request *)
(*           less an overlap ("before"), or the log's end ("head")          *)
(*   capped  a call that needs more pages than a fixed cap fails            *)
Delta(boot, feed, order, reach) ==
  [boot |-> boot, feed |-> feed, strict |-> TRUE, order |-> order, reach |-> reach,
   walk |-> "token", after |-> "max", capped |-> FALSE, reply |-> Wraps429]
LogPage(boot) == Delta(boot, "log", "asc", "one")
LogPages(boot) == Delta(boot, "log", "asc", "all")
TimePage(boot, order) == Delta(boot, "time", order, "one")
TimePages(boot, order) == Delta(boot, "time", order, "all")
ByOffset(delta) == [delta EXCEPT !.walk = "offset"]
Inclusive(delta) == [delta EXCEPT !.strict = FALSE]
Stamping(delta, after) == [delta EXCEPT !.after = after]
Capped(delta) == [delta EXCEPT !.capped = TRUE]
=============================================================================
