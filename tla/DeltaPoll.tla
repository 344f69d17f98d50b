------------------------------ MODULE DeltaPoll -----------------------------
(***************************************************************************)
(* DeltaSync of any connector, called over and over by a poller that keeps *)
(* the cursor of the last call that succeeded (the poller is external: the *)
(* contract of optional_interfaces.go is all the code says of it).  The    *)
(* upstream edits documents between any two requests.                      *)
(*                                                                         *)
(* mark[d] is where the last change of d stands in the feed: its place in  *)
(* the change log, the time it was made (several changes may share one),   *)
(* or d itself when the feed is ordered by a key an edit does not move.    *)
(***************************************************************************)
EXTENDS ConnectorPlans, SequencesExt

CONSTANTS DeltaPlans,      \* the connectors' plans
          Records,         \* documents of the namespace, numbers from 1
          FeedPage,        \* changes of a full page
          MaxPages,        \* the cap of the capped connectors
          MaxEdits,        \* bound on the edits
          MaxFaults        \* bound on refused requests

None == 0                  \* the empty cursor; times start at 1
MaxTime == MaxEdits + 1

VARIABLES
  feed,      \* the connector's plan
  clock,     \* the upstream's time, or the length of its log
  mark,      \* where each document's last change stands, None before the first
  cursor,    \* the cursor the poller holds
  call,      \* the call under way
  owed,      \* documents changed since the cursor was first taken, not yet reported
  edits, faults,
  tied,      \* an edit shares its time with another edit or with a cursor
  raced      \* an edit fell between two requests, or between the last one and its stamp

deltaVars == <<feed, clock, mark, cursor, call, owed, edits, faults, tied, raced>>

NoCall == [on |-> FALSE, read |-> <<>>, began |-> None, pages |-> 0]

Newest == IF \A d \in Records : mark[d] = None THEN None ELSE Max({mark[d] : d \in Records})
Later(a, b) == IF a > b THEN a ELSE b

-----------------------------------------------------------------------------
(* The changes a query from the cursor shows.                               *)
Visible(d) ==
  mark[d] # None /\ (mark[d] > cursor \/ (~feed.strict /\ mark[d] = cursor))

Before(d, e) ==
  CASE feed.order = "asc"  -> mark[d] < mark[e] \/ (mark[d] = mark[e] /\ d < e)
    [] feed.order = "desc" -> mark[d] > mark[e] \/ (mark[d] = mark[e] /\ d < e)
    [] feed.order = "any"  -> d < e

Shows == SetToSortSeq({d \in Records : Visible(d)}, Before)

(* What is still to come at the call's position: an offset stands for the   *)
(* number of changes already read, a token for the place of the last one.   *)
Beyond(d, last) ==
  CASE feed.order = "asc"  -> mark[d] > last[2] \/ (mark[d] = last[2] /\ d > last[1])
    [] feed.order = "desc" -> mark[d] < last[2] \/ (mark[d] = last[2] /\ d > last[1])
    [] feed.order = "any"  -> d > last[1]

StillToCome ==
  IF call.read = <<>> THEN Shows
  ELSE IF feed.walk = "offset" THEN SubSeq(Shows, Len(call.read) + 1, Len(Shows))
  ELSE SelectSeq(Shows, LAMBDA d : Beyond(d, Last(call.read)))

PageOf(s) == SubSeq(s, 1, IF Len(s) < FeedPage THEN Len(s) ELSE FeedPage)

\* Mutant: every connector hands back the time at which its call returns.
CursorAfterReturn(read) == clock

\* Mutant: the cursor of the call is handed back.
CursorAfterSame(read) == cursor

(* The cursor a call that read these changes hands back.                    *)
CursorAfter(read) ==
  CASE feed.after = "max"    -> FoldSeq(LAMBDA c, high : Later(c[2], high), cursor, read)
    [] feed.after = "now"    -> clock
    [] feed.after = "before" -> call.began
    [] feed.after = "head"   -> clock

-----------------------------------------------------------------------------
DeltaIdle ==
  /\ feed = LogPage("head") /\ clock = 1 /\ mark = [d \in Records |-> None] /\ cursor = None
  /\ call = NoCall /\ owed = {} /\ edits = MaxEdits /\ faults = MaxFaults
  /\ tied = FALSE /\ raced = FALSE

DeltaInit ==
  /\ feed \in DeltaPlans
  /\ clock = 1 /\ cursor = None /\ call = NoCall /\ owed = {}
  /\ mark \in [Records -> {None}]
  /\ edits = 0 /\ faults = 0 /\ tied = FALSE /\ raced = FALSE

Faulted(r) ==
  /\ r # "ok" => faults < MaxFaults
  /\ faults' = IF r = "ok" THEN faults ELSE faults + 1

(* The first call: an empty cursor is answered with the present, however    *)
(* the connector finds it, and with no changes.  (Connectors that send the  *)
(* empty cursor on are polled from the start: see CallBegins.)              *)
Bootstrap(r) ==
  /\ ~call.on /\ cursor = None /\ feed.boot # "all"
  /\ Faulted(r)
  /\ cursor' = CASE Outcome(feed.reply, r) # "ok" -> None
                 [] feed.boot = "now"             -> clock
                 [] feed.boot = "before"          -> clock - 1
                 [] feed.boot = "head"            -> clock
                 [] feed.boot = "newest"          -> IF Newest = None THEN clock ELSE Newest
                 [] feed.boot = "newestOrNone"    -> Newest
  /\ UNCHANGED <<feed, clock, mark, call, owed, edits, tied, raced>>

(* A later call.  The only connector that needs the time of its beginning   *)
(* takes it, less an overlap, before its first request.                     *)
CallBegins ==
  /\ ~call.on /\ (cursor # None \/ feed.boot = "all")
  /\ call' = [NoCall EXCEPT !.on = TRUE, !.began = IF feed.after = "before" THEN clock - 1 ELSE None]
  /\ UNCHANGED <<feed, clock, mark, cursor, owed, edits, faults, tied, raced>>

(* One request of a call; a refusal ends the call, and so does the cap: in  *)
(* both cases nothing is reported and the poller keeps its cursor.          *)
Page(r) ==
  LET page == PageOf(StillToCome) IN
  /\ call.on /\ (call.pages = 0 \/ feed.reach = "all")
  /\ call.pages > 0 => Len(call.read) = call.pages * FeedPage
  /\ Faulted(r)
  /\ call' = IF Outcome(feed.reply, r) # "ok" \/ (feed.capped /\ call.pages = MaxPages)
             THEN NoCall
             ELSE [call EXCEPT !.read = @ \o [i \in DOMAIN page |-> <<page[i], mark[page[i]]>>],
                               !.pages = @ + 1]
  /\ UNCHANGED <<feed, clock, mark, cursor, owed, edits, tied, raced>>

(* The call returns: its changes are applied and its cursor kept.           *)
CallReturns ==
  /\ call.on /\ call.pages > 0
  /\ feed.reach = "all" => Len(call.read) < call.pages * FeedPage
  /\ cursor' = CursorAfter(call.read)
  /\ owed' = {d \in owed : <<d, mark[d]>> \notin ToSet(call.read)}
  /\ call' = NoCall
  /\ UNCHANGED <<feed, clock, mark, edits, faults, tied, raced>>

(* A document changes.  A log gives the change a place of its own; a time   *)
(* can be that of the edit or the cursor before it.                         *)
Edit(d, later) ==
  /\ edits < MaxEdits
  /\ feed.feed = "log" => later
  /\ edits' = edits + 1
  /\ clock' = IF later THEN clock + 1 ELSE clock
  /\ mark' = [mark EXCEPT ![d] = IF feed.feed = "key" THEN d ELSE clock']
  /\ owed' = IF cursor # None \/ feed.boot = "all" THEN owed \cup {d} ELSE owed
  /\ tied' = (tied \/ ~later)
  /\ raced' = (raced \/ call.pages > 0)
  /\ UNCHANGED <<feed, cursor, call, faults>>

DeltaStep ==
  \/ \E r \in Replies : Bootstrap(r) \/ Page(r)
  \/ CallBegins
  \/ CallReturns

DeltaNext ==
  \/ DeltaStep
  \/ \E d \in Records, later \in BOOLEAN : Edit(d, later)

-----------------------------------------------------------------------------
(* What a plan must be like for its cursor to stand for what was read.      *)
(* Enough is read: all pages, or the oldest of them.                        *)
ReadsEnough(p) ==
  p.feed # "key" /\ p.after # "head" /\ (p.reach = "all" \/ p.order = "asc")
(* The cursor is taken from before the first request, or from what was read *)
(* in an order that an edit only leaves towards the newest end: then it     *)
(* cannot move a change behind the walk and in front of the cursor, unless  *)
(* it shifts the unread ones below an offset.                               *)
ToleratesEdits(p) ==
  \/ p.after = "before"
  \/ p.after = "max" /\ (p.order = "desc" \/ (p.order = "asc" /\ p.walk = "token"))
(* A change that shares its time with the cursor is shown again, or the     *)
(* cursor stays clear of it.                                                *)
ToleratesTies(p) == p.feed = "log" \/ p.after = "before" \/ (~p.strict /\ ~raced)

(* No change is skipped: a change made since the first call that has not    *)
(* been reported is still ahead of the cursor, where a later call finds it. *)
(* Under any interleaving of edits with the requests of a call for the      *)
(* plans that tolerate it, with no edit inside a call for the others.       *)
NothingSkipped ==
  (/\ ReadsEnough(feed)
   /\ raced => ToleratesEdits(feed)
   /\ tied => ToleratesTies(feed))
    => \A d \in owed : Visible(d)

(* A page of the oldest changes must hold one the poller has not seen: the  *)
(* changes at an inclusive cursor can fill it, and then no call gets past   *)
(* them; and a backlog beyond the page cap fails every call.                *)
Advances(p) == (p.strict \/ p.reach = "all") /\ ~p.capped

(* Once the edits stop, every change is reported: the polls catch up.       *)
CatchesUp ==
  (ReadsEnough(feed) /\ Advances(feed))
    ~> [](owed # {} => tied \/ (raced /\ ~ToleratesEdits(feed)))
=============================================================================
