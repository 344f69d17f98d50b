------------------------------ MODULE Backfill ------------------------------
(***************************************************************************)
(* pipeline/backfill.go over any connector: Run lists the namespaces, and  *)
(* for each one the scopes admit drains the connector's document iterator  *)
(* into the producer.                                                      *)
(*                                                                         *)
(* The upstream changes while the run walks it.  A namespace's documents   *)
(* are numbered in the order the upstream lists them; a page named by a    *)
(* token goes on after the last document of the page before, a page named  *)
(* by a position skips that many documents of whatever is there by then.   *)
(***************************************************************************)
EXTENDS ConnectorPlans, SequencesExt

CONSTANTS BackfillWalks,   \* pairs <<namespace plan, listing plan>> of the connectors
          Namespaces,      \* the upstream's namespaces, numbers from 1
          Scoped,          \* the namespaces the source's scopes admit
          MaxDocs,         \* documents a namespace starts with
          PageSize,        \* documents of a full page
          Folders,         \* documents a connector that hides entries leaves out
          MaxRemovals,     \* documents the upstream may lose during the run
          MaxRefusals      \* replies other than ok during the run

VARIABLES
  walk,       \* the connector's plans
  stage,      \* "idle", "namespaces", "documents", "done", "failed"
  error,      \* what a failed run returned
  named,      \* namespaces ListNamespaces has returned so far
  asked,      \* namespaces the upstream has been asked about so far
  todo,       \* admitted namespaces still to drain, in order
  it,         \* the current iterator
  closed,     \* how each finished iterator ended: Err() of it
  live,       \* the documents each namespace has
  lost,       \* documents removed during the run, per namespace
  emitted,    \* documents emitted, per namespace
  refusals    \* refused requests so far

backfillVars ==
  <<walk, stage, error, named, asked, todo, it, closed, live, lost, emitted, refusals>>

Docs == 1 .. MaxDocs
NsPlan == walk[1]
ListPlan == walk[2]
NewIterator == [page |-> <<>>, pos |-> 0, done |-> FALSE, err |-> "none"]

-----------------------------------------------------------------------------
(* The upstream's answers.                                                  *)

(* The page a request at position pos is answered with.                     *)
PageAt(ns, pos) ==
  LET here == SetToSortSeq(live[ns], <)
      rest == IF ListPlan.walk = "offset"
              THEN SubSeq(here, pos + 1, Len(here))
              ELSE SelectSeq(here, LAMBDA d : d > pos)
  IN SubSeq(rest, 1, IF Len(rest) < PageSize THEN Len(rest) ELSE PageSize)

NextPos(pos, page) ==
  IF ListPlan.walk = "offset" THEN pos + Len(page)
  ELSE IF page = <<>> THEN pos ELSE Last(page)

(* The upstream says that nothing follows the page.                         *)
Told(ns, pos) ==
  IF ListPlan.walk = "offset" THEN pos >= Cardinality(live[ns])
  ELSE \A d \in live[ns] : d <= pos

LastPage(ns, page, pos) ==
  CASE ListPlan.ends = "first"       -> TRUE
    [] ListPlan.ends = "told"        -> Told(ns, pos) \/ page = <<>>
    [] ListPlan.ends = "short"       -> Len(page) < PageSize
    [] ListPlan.ends = "toldOrShort" -> Told(ns, pos) \/ Len(page) < PageSize
    [] ListPlan.ends = "empty"       -> page = <<>>

-----------------------------------------------------------------------------
(* The iterator.                                                            *)

\* Mutant: the position is not advanced.
FetchPageAgain(ns, r) ==
  LET outcome == Outcome(ListPlan.reply, r)
      page == IF outcome = "blank" \/ ListPlan.walk = "none" THEN <<>> ELSE PageAt(ns, it.pos)
  IN IF outcome \in {"limited", "error"}
     THEN [it EXCEPT !.err = outcome]
     ELSE [it EXCEPT !.page = page, !.done = outcome = "blank" \/ LastPage(ns, page, it.pos)]

(* fetchPage: a page that was refused stops the iterator for good, a page   *)
(* taken for empty ends the listing.                                        *)
FetchPage(ns, r) ==
  LET outcome == Outcome(ListPlan.reply, r)
      page == IF outcome = "blank" \/ ListPlan.walk = "none" THEN <<>> ELSE PageAt(ns, it.pos)
      pos == NextPos(it.pos, page)
      shown == IF ListPlan.hides THEN SelectSeq(page, LAMBDA d : d \notin Folders) ELSE page
  IN IF outcome \in {"limited", "error"}
     THEN [it EXCEPT !.err = outcome]
     ELSE [it EXCEPT !.page = shown, !.pos = pos,
                     !.done = outcome = "blank" \/ LastPage(ns, page, pos)]

(* Next asks for a page when the one at hand is used up and was not the     *)
(* last; an eager Next returns false before it looks at the page.           *)
GivesUp == it.err # "none" \/ (it.done /\ (ListPlan.eager \/ it.page = <<>>))
NeedsPage == ~GivesUp /\ it.page = <<>>

\* Mutant: the recorded error is forgotten.
ErrOfDropsError(i) == IF i.err # "none" \/ i.done THEN "endOfPage" ELSE "nil"

(* Err: a recorded error, else ErrEndOfPage once the last page was fetched. *)
ErrOf(i) == IF i.err # "none" THEN i.err ELSE IF i.done THEN "endOfPage" ELSE "nil"

-----------------------------------------------------------------------------
BackfillIdle ==
  /\ walk = <<Configured, NothingListed>> /\ stage = "idle" /\ error = "none"
  /\ named = {} /\ asked = {} /\ todo = <<>> /\ it = NewIterator
  /\ closed = <<>> /\ refusals = 0
  /\ live = [ns \in Namespaces |-> {}]
  /\ lost = [ns \in Namespaces |-> {}]
  /\ emitted = [ns \in Namespaces |-> {}]

BackfillInit ==
  /\ walk \in BackfillWalks /\ stage = "namespaces" /\ error = "none"
  /\ named = {} /\ asked = {} /\ todo = <<>> /\ it = NewIterator
  /\ closed = <<>> /\ refusals = 0
  /\ \E size \in [Scoped -> 0 .. MaxDocs] :
       live = [ns \in Namespaces |-> IF ns \in Scoped THEN 1 .. size[ns] ELSE Docs]
  /\ lost = [ns \in Namespaces |-> {}]
  /\ emitted = [ns \in Namespaces |-> {}]

Reply(r) ==
  /\ r # "ok" => refusals < MaxRefusals
  /\ refusals' = IF r = "ok" THEN refusals ELSE refusals + 1

Fail(e) == stage' = "failed" /\ error' = e

(* Run goes on to the admitted namespaces, in the order they were named.    *)
StartDraining(names) ==
  /\ todo' = SetToSortSeq(names \cap Scoped, <)
  /\ stage' = IF names \cap Scoped = {} THEN "done" ELSE "documents"

(* ListNamespaces without a request.                                        *)
NamespacesConfigured ==
  /\ stage = "namespaces" /\ NsPlan.walk = "configured"
  /\ named' = Namespaces /\ asked' = Namespaces
  /\ StartDraining(Namespaces)
  /\ UNCHANGED <<walk, error, it, closed, live, lost, emitted, refusals>>

(* One request of ListNamespaces.  A page holds one namespace, and so does  *)
(* each second-level reply of a nested walk: the inner request for a        *)
(* namespace follows the outer page that led to it.                         *)
NamespacesRequest(r, inner) ==
  LET first == Min(Namespaces \ asked)
      reached == IF NsPlan.walk = "whole" THEN Namespaces ELSE {first}
      outer == Outcome(NsPlan.reply, r)
      nested == IF NsPlan.nested THEN Outcome(NsPlan.inner, inner) ELSE "ok"
      got == IF outer = "blank" \/ nested = "blank" THEN {} ELSE reached
  IN
  /\ stage = "namespaces" /\ NsPlan.walk # "configured"
  /\ ~NsPlan.nested => inner = "ok"
  /\ outer # "ok" => inner = "ok"
  /\ Reply(IF r = "ok" THEN inner ELSE r)
  /\ UNCHANGED <<walk, it, closed, live, lost, emitted>>
  /\ \/ /\ outer \in {"limited", "error"} /\ Fail(outer)
        /\ UNCHANGED <<named, asked, todo>>
     \/ /\ outer \in {"ok", "blank"} /\ nested \in {"limited", "error"} /\ Fail(nested)
        /\ UNCHANGED <<named, asked, todo>>
     \/ /\ outer \in {"ok", "blank"} /\ nested \in {"ok", "blank"}
        /\ named' = named \cup got
        /\ asked' = asked \cup reached
        /\ IF outer = "blank" \/ NsPlan.walk \in {"first", "whole"} \/ asked' = Namespaces
           THEN StartDraining(named \cup got)
           ELSE UNCHANGED <<stage, todo>>
        /\ UNCHANGED error

(* Next returns true: Rate.Wait, then EmitEvent, which may fail.            *)
NextTrue(r) ==
  LET ns == Head(todo)
      fetched == IF NeedsPage THEN FetchPage(ns, r) ELSE it
  IN
  /\ stage = "documents"
  /\ ~GivesUp /\ fetched.err = "none" /\ fetched.page # <<>>
  /\ IF NeedsPage THEN Reply(r) ELSE r = "ok" /\ UNCHANGED refusals
  /\ it' = [fetched EXCEPT !.page = Tail(@)]
  /\ \/ /\ emitted' = [emitted EXCEPT ![ns] = @ \cup {Head(fetched.page)}]
        /\ UNCHANGED <<stage, error>>
     \/ /\ Fail("emit") /\ UNCHANGED emitted
  /\ UNCHANGED <<walk, named, asked, todo, closed, live, lost>>

(* Next returns false: any Err but ErrEndOfPage fails the run, the next     *)
(* namespace follows otherwise.                                             *)
NextFalse(r) ==
  LET ns == Head(todo)
      fetched == IF NeedsPage THEN FetchPage(ns, r) ELSE it
  IN
  /\ stage = "documents"
  /\ GivesUp \/ fetched.err # "none" \/ fetched.page = <<>>
  /\ IF NeedsPage THEN Reply(r) ELSE r = "ok" /\ UNCHANGED refusals
  /\ closed' = Append(closed, <<ns, ErrOf(fetched)>>)
  /\ UNCHANGED <<walk, named, asked, live, lost, emitted>>
  /\ \/ /\ ErrOf(fetched) \in {"limited", "error"}
        /\ Fail(ErrOf(fetched)) /\ it' = fetched /\ UNCHANGED todo
     \/ /\ ErrOf(fetched) \in {"nil", "endOfPage"}
        /\ todo' = Tail(todo) /\ it' = NewIterator
        /\ stage' = IF Tail(todo) = <<>> THEN "done" ELSE stage
        /\ UNCHANGED error

(* The upstream loses a document while the run is under way.                *)
Removal(ns, d) ==
  /\ stage \in {"namespaces", "documents"}
  /\ d \in live[ns]
  /\ FoldFunction(+, 0, [n \in Namespaces |-> Cardinality(lost[n])]) < MaxRemovals
  /\ live' = [live EXCEPT ![ns] = @ \ {d}]
  /\ lost' = [lost EXCEPT ![ns] = @ \cup {d}]
  /\ UNCHANGED <<walk, stage, error, named, asked, todo, it, closed, emitted, refusals>>

BackfillStep ==
  \/ NamespacesConfigured
  \/ \E r, inner \in Replies : NamespacesRequest(r, inner)
  \/ \E r \in Replies : NextTrue(r) \/ NextFalse(r)

BackfillNext ==
  \/ BackfillStep
  \/ \E ns \in Scoped, d \in Docs : Removal(ns, d)

-----------------------------------------------------------------------------
Shown(ns) == IF ListPlan.hides THEN live[ns] \ Folders ELSE live[ns]

(* What a listing plan must be like for its last page to mean the end: it   *)
(* uses the last page up, asks for more than the first, and takes no        *)
(* refusal for an empty page.                                               *)
ReadsToTheEnd(list) == ~list.eager /\ list.ends # "first" /\ list.reply.blank = {}
NamesThemAll(ns) == ns.walk # "first" /\ ns.reply.blank = {} /\ ns.inner.blank = {}

(* source_connector.go says it of every connector: "the iterator returns    *)
(* ErrEndOfPage once all pages are exhausted".                              *)
ErrEndOfPageOnceAllPagesExhausted ==
  \A i \in DOMAIN closed :
    closed[i][2] = "endOfPage" => Shown(closed[i][1]) \subseteq emitted[closed[i][1]]

(* A run that reports success has emitted every document of every admitted  *)
(* namespace that was there throughout, whatever was refused or removed on  *)
(* the way, for each connector that names all namespaces, reads listings to *)
(* the end and hides nothing.                                               *)
BackfillComplete ==
  (/\ stage = "done" /\ NamesThemAll(NsPlan) /\ ReadsToTheEnd(ListPlan) /\ ~ListPlan.hides
   /\ ListPlan.walk = "offset" => \A ns \in Namespaces : lost[ns] = {})
    => \A ns \in Scoped : live[ns] \subseteq emitted[ns]

(* Every run ends, done or failed: no plan's paging can go in circles.      *)
BackfillEnds == stage \in {"namespaces", "documents"} ~> stage \in {"done", "failed"}
=============================================================================
