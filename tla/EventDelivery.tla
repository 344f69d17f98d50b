--------------------------- MODULE EventDelivery ----------------------------
(***************************************************************************)
(* What the pipeline promises the consumer that submits to it: an accepted *)
(* event is settled once, through OnSuccess or OnDLQ, and until the        *)
(* pipeline is told to stop none is dropped and every one is settled.      *)
(***************************************************************************)
CONSTANT Events

VARIABLES status,    \* event -> new, pending, done or dropped
          stopping   \* ctx is cancelled

delivery == <<status, stopping>>

Init == status = [e \in Events |-> "new"] /\ stopping = FALSE

Moves(e, from, to) == status[e] = from /\ status' = [status EXCEPT ![e] = to] /\ UNCHANGED stopping

Accept(e) == Moves(e, "new", "pending")
Settle(e) == Moves(e, "pending", "done")
Drop(e) == stopping /\ Moves(e, "pending", "dropped")
Stop == ~stopping /\ stopping' = TRUE /\ UNCHANGED status

Next == Stop \/ \E e \in Events : Accept(e) \/ Settle(e) \/ Drop(e)

Spec == Init /\ [][Next]_delivery

(* The other half of the promise: until the pipeline is told to stop, no    *)
(* event stays pending (each is accepted at most once, so a time comes when *)
(* none is).                                                                *)
Settles == []<>(stopping \/ \A e \in Events : status[e] # "pending")
=============================================================================
