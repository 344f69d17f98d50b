------------------------- MODULE CoordinatorProofs -------------------------
(***************************************************************************)
(* Proofs about Coordinator, for any events, workers and channel sizes:    *)
(* types, no send on a closed channel, the two halves of conservation, and *)
(* the refinement of EventDelivery.                                        *)
(*                                                                         *)
(* NoSendOnClosed is inductive given the types, because a worker that has  *)
(* left never comes back.  Exclusive is not: an event might be submitted   *)
(* while a copy of it is already inside.  Fresh excludes that.             *)
(***************************************************************************)
EXTENDS Coordinator, TLAPS

\* An event that was not submitted is nowhere.
Fresh ==
  \A e \in Events \ submitted : reported[e] = 0 /\ ~InHand(e) /\ ~InQueue(e)

Inv == TypeOK /\ NoSendOnClosed /\ Exclusive /\ Fresh /\ NothingLost

USE DeletionsAssumption, StageOfAssumption, QueueSizeAssumption, NoEventAssumption DEF Stages

\* The stage of a worker, and the one it sends to.
LEMMA StageRange ==
  \A w \in Workers : StageOf[w] \in Stages /\ (StageOf[w] # 4 => StageOf[w] < 4 /\ StageOf[w] + 1 \in Stages)
  BY StageOfAssumption

LEMMA InitInv == Init => Inv
<1> SUFFICES ASSUME Init PROVE Inv
  OBVIOUS
<1>1. TypeOK
  <2>1. closed \in [Stages -> BOOLEAN] /\ cancelled \in BOOLEAN
    BY Zenon DEF Init
  <2>2. queue \in [Stages -> Seq(Events)] /\ \A s \in Stages : Len(queue[s]) <= QueueSize
    BY DEF Init
  <2> QED BY <2>1, <2>2 DEF Init, TypeOK
<1>2. NoSendOnClosed
  BY DEF Init, NoSendOnClosed
<1>3. Exclusive /\ Fresh /\ NothingLost
  BY DEF Init, Exclusive, OneHolder, Distinct, Fresh, NothingLost, InHand, InQueue
<1> QED BY <1>1, <1>2, <1>3 DEF Inv

LEMMA TypeStep == TypeOK /\ [Next]_vars => TypeOK'
<1> SUFFICES ASSUME TypeOK, [Next]_vars PROVE TypeOK'
  OBVIOUS
<1> USE DEF TypeOK
<1>1. CASE CloseInputs
  BY <1>1 DEF CloseInputs
<1>2. CASE Cancel
  BY <1>2 DEF Cancel
<1>3. ASSUME NEW e \in Events, Submit(e) PROVE TypeOK'
  BY <1>3 DEF Submit
<1>4. ASSUME NEW w \in Workers, Step(w) PROVE TypeOK'
  <2>1. CASE Receive(w)
    <3>1. closed' \in [Stages -> BOOLEAN] /\ cancelled' \in BOOLEAN
      BY <2>1, Zenon DEF Receive
    <3>2. /\ StageOf[w] \in Stages
          /\ Head(queue[StageOf[w]]) \in Events
          /\ Tail(queue[StageOf[w]]) \in Seq(Events)
          /\ Len(Tail(queue[StageOf[w]])) <= QueueSize
      BY <2>1, StageRange DEF Receive
    <3>3. queue' \in [Stages -> Seq(Events)] /\ \A s \in Stages : Len(queue'[s]) <= QueueSize
      BY <2>1, <3>2, SMTT(30) DEF Receive
    <3> QED BY <2>1, <3>1, <3>2, <3>3, SMTT(30) DEF Receive
  <2>2. CASE ExitClosed(w) \/ ExitCancelled(w)
    <3>1. Exit(w)
      BY <2>2 DEF ExitClosed, ExitCancelled
    <3>2. closed' \in [Stages -> BOOLEAN] /\ cancelled' \in BOOLEAN
      BY <3>1, Zenon DEF Exit
    <3> QED BY <3>1, <3>2 DEF Exit
  <2>r. ASSUME pc[w] = "work", Report(w), UNCHANGED <<queue, closed, cancelled, submitted>>
        PROVE  TypeOK'
    <3>1. hand[w] \in Events
      BY <2>r
    <3>2. reported' \in [Events -> 0..2]
      BY <2>r, <3>1 DEF Report
    <3>3. closed' \in [Stages -> BOOLEAN] /\ cancelled' \in BOOLEAN
      BY <2>r
    <3> QED BY <2>r, <3>2, <3>3 DEF Report
  <2>3. CASE Skip(w) \/ Fail(w)
    BY <2>3, <2>r DEF Skip, Fail
  <2>4. CASE Succeed(w)
    <3>1. CASE StageOf[w] = 4
      BY <2>4, <2>r, <3>1 DEF Succeed
    <3>2. CASE StageOf[w] # 4
      <4>1. closed' \in [Stages -> BOOLEAN] /\ cancelled' \in BOOLEAN
        BY <2>4, Zenon DEF Succeed
      <4>2. StageOf[w] < 4
        BY <3>2, StageRange
      <4> QED BY <2>4, <3>2, <4>1, <4>2, Zenon DEF Succeed
    <3> QED BY <3>1, <3>2
  <2>5. CASE Send(w)
    <3>1. closed' \in [Stages -> BOOLEAN] /\ cancelled' \in BOOLEAN
      BY <2>5, Zenon DEF Send
    <3>2. StageOf[w] + 1 \in Stages /\ hand[w] \in Events
      BY <2>5, StageRange DEF Send
    <3>3. queue' \in [Stages -> Seq(Events)] /\ \A s \in Stages : Len(queue'[s]) <= QueueSize
      BY <2>5, <3>2 DEF Send
    <3> QED BY <2>5, <3>1, <3>3 DEF Send
  <2> QED BY <1>4, <2>1, <2>2, <2>3, <2>4, <2>5 DEF Step
<1>5. ASSUME NEW s \in 1..3, CloseDownstream(s) PROVE TypeOK'
  BY <1>5 DEF CloseDownstream
<1>6. CASE UNCHANGED vars
  BY <1>6 DEF vars
<1> QED BY <1>1, <1>2, <1>3, <1>4, <1>5, <1>6, SMTT(30) DEF Next

\* Only a closer closes the channel a worker sends to, and it waits for all
\* of them to leave; nobody comes back.
LEMMA NoSendOnClosedStep == TypeOK /\ NoSendOnClosed /\ [Next]_vars => NoSendOnClosed'
<1> SUFFICES ASSUME TypeOK, NoSendOnClosed, [Next]_vars PROVE NoSendOnClosed'
  OBVIOUS
<1> USE DEF NoSendOnClosed
<1>1. CASE CloseInputs
  <2>1. \A s \in Stages \ {1} : closed'[s] = closed[s]
    BY <1>1, Zenon DEF CloseInputs, TypeOK
  <2>2. \A w \in Workers : StageOf[w] # 4 => StageOf[w] + 1 \in Stages \ {1}
    BY StageRange
  <2> QED BY <1>1, <2>1, <2>2, Zenon DEF CloseInputs
<1>2. ASSUME NEW w \in Workers, Step(w) PROVE NoSendOnClosed'
  <2>1. closed' = closed /\ pc[w] # "exited" /\ \A v \in Workers \ {w} : pc'[v] = pc[v]
    BY <1>2 DEF Step, Receive, ExitClosed, ExitCancelled, Exit, Skip, Fail, Succeed, Report, Send, TypeOK
  <2> QED BY <2>1
<1>3. ASSUME NEW s \in 1..3, CloseDownstream(s) PROVE NoSendOnClosed'
  <2> SUFFICES ASSUME NEW w \in Workers, pc'[w] # "exited"
               PROVE  StageOf[w] = 4 \/ ~closed'[StageOf[w] + 1]
    OBVIOUS
  <2>1. StageOf[w] # s
    BY <1>3 DEF CloseDownstream, Exited, Team
  <2>2. StageOf[w] # 4 => StageOf[w] + 1 \in Stages \ {s + 1}
    BY <2>1, StageRange
  <2>3. \A t \in Stages \ {s + 1} : closed'[t] = closed[t]
    BY <1>3, Zenon DEF CloseDownstream, TypeOK
  <2> QED BY <1>3, <2>2, <2>3, Zenon DEF CloseDownstream
<1>4. CASE Cancel \/ UNCHANGED vars \/ \E e \in Events : Submit(e)
  BY <1>4 DEF Cancel, vars, Submit
<1> QED BY <1>1, <1>2, <1>3, <1>4 DEF Next

-----------------------------------------------------------------------------
(* Conservation: how the steps move events *)

HIDE DEF Stages

\* Steps that move no event.
Still == UNCHANGED <<queue, hand, submitted, reported>>

\* A worker lets go of what it holds.
Drops(w) == hand' = [hand EXCEPT ![w] = NoEvent] /\ UNCHANGED <<queue, submitted>>

\* Every step is one of these moves.
LEMMA Moves ==
  ASSUME TypeOK, [Next]_vars
  PROVE  \/ Still
         \/ \E e \in Events : Submit(e)
         \/ \E w \in Workers : Receive(w) \/ Send(w) \/ (Report(w) /\ pc[w] = "work" /\ Drops(w))
         \/ \E w \in Workers : Drops(w) /\ UNCHANGED reported /\ (cancelled \/ hand[w] = NoEvent)
<1>1. CASE CloseInputs \/ Cancel \/ UNCHANGED vars \/ \E s \in 1..3 : CloseDownstream(s)
  BY <1>1 DEF CloseInputs, Cancel, CloseDownstream, vars, Still
<1>2. ASSUME NEW w \in Workers, ExitClosed(w) \/ ExitCancelled(w)
      PROVE  Drops(w) /\ UNCHANGED reported /\ (cancelled \/ hand[w] = NoEvent)
  BY <1>2 DEF ExitClosed, ExitCancelled, Exit, Drops, TypeOK
<1>3. ASSUME NEW w \in Workers, Skip(w) \/ Fail(w) \/ Succeed(w)
      PROVE  Still \/ (Report(w) /\ pc[w] = "work" /\ Drops(w))
  BY <1>3 DEF Skip, Fail, Succeed, Report, Drops, Still
<1> QED BY <1>1, <1>2, <1>3 DEF Next, Step

\* Append and Tail, place by place.
Appends(s, e) ==
  /\ \A t \in Stages : t # s => queue'[t] = queue[t]
  /\ Len(queue[s]) \in Nat
  /\ Len(queue'[s]) = Len(queue[s]) + 1
  /\ \A i \in 1..Len(queue[s]) : queue'[s][i] = queue[s][i]
  /\ queue'[s][Len(queue[s]) + 1] = e

Removes(s, e) ==
  /\ \A t \in Stages : t # s => queue'[t] = queue[t]
  /\ Len(queue[s]) \in Nat \ {0}
  /\ Len(queue'[s]) = Len(queue[s]) - 1
  /\ \A i \in 1..(Len(queue[s]) - 1) : queue'[s][i] = queue[s][i + 1]
  /\ e = queue[s][1]

\* What Submit and Send do to the channels.
LEMMA Appended ==
  ASSUME Distinct, NEW s \in Stages, NEW e \in Events, ~InQueue(e), Appends(s, e)
  PROVE  Distinct' /\ \A f \in Events : InQueue(f)' <=> InQueue(f) \/ f = e
<1>d. \A v, w \in Stages : \A k \in 1..Len(queue[v]), l \in 1..Len(queue[w]) :
        queue[v][k] = queue[w][l] => v = w /\ k = l
  BY DEF Distinct
<1>1. /\ \A t \in Stages : t # s => queue'[t] = queue[t]
      /\ Len(queue[s]) \in Nat
      /\ Len(queue'[s]) = Len(queue[s]) + 1
      /\ \A i \in 1..Len(queue[s]) : queue'[s][i] = queue[s][i]
      /\ queue'[s][Len(queue[s]) + 1] = e
  BY DEF Appends
<1>2. \A t \in Stages : \A i \in 1..Len(queue'[t]) :
        \/ i \in 1..Len(queue[t]) /\ queue'[t][i] = queue[t][i]
        \/ t = s /\ i = Len(queue[s]) + 1 /\ queue'[t][i] = e
  <2> TAKE t \in Stages
  <2>1. CASE t = s
    BY <1>1, <2>1
  <2>2. CASE t # s
    BY <1>1, <2>2
  <2> QED BY <2>1, <2>2
<1>3. Distinct'
  <2> SUFFICES ASSUME NEW t \in Stages, NEW u \in Stages,
                      NEW i \in 1..Len(queue'[t]), NEW j \in 1..Len(queue'[u]),
                      queue'[t][i] = queue'[u][j]
               PROVE  t = u /\ i = j
    BY DEF Distinct
  <2>1. \A v \in Stages : \A k \in 1..Len(queue[v]) : queue[v][k] # e
    BY DEF InQueue
  <2>2. CASE queue'[t][i] = e
    <3>1. t = s /\ u = s /\ i = Len(queue[s]) + 1 /\ j = Len(queue[s]) + 1
      BY <1>2, <2>1, <2>2, Zenon
    <3> QED BY <3>1
  <2>3. CASE queue'[t][i] # e
    <3>1. i \in 1..Len(queue[t]) /\ j \in 1..Len(queue[u]) /\ queue[t][i] = queue[u][j]
      BY <1>2, <2>3
    <3>2. \A k \in 1..Len(queue[t]), l \in 1..Len(queue[u]) : queue[t][k] = queue[u][l] => t = u /\ k = l
      BY <1>d, SMTT(30)
    <3> QED BY <3>1, <3>2
  <2> QED BY <2>2, <2>3
<1>4. \A f \in Events : InQueue(f)' => InQueue(f) \/ f = e
  BY <1>2 DEF InQueue
<1>5. \A t \in Stages : \A i \in 1..Len(queue[t]) : i \in 1..Len(queue'[t]) /\ queue'[t][i] = queue[t][i]
  <2> TAKE t \in Stages
  <2>1. CASE t = s
    BY <1>1, <2>1
  <2>2. CASE t # s
    BY <1>1, <2>2
  <2> QED BY <2>1, <2>2
<1>6. \A f \in Events : InQueue(f) \/ f = e => InQueue(f)'
  <2>1. Len(queue[s]) + 1 \in 1..Len(queue'[s])
    BY <1>1
  <2>2. InQueue(e)'
    BY <1>1, <2>1, Zenon DEF InQueue
  <2>3. \A f \in Events : InQueue(f) => InQueue(f)'
    BY <1>5, Zenon DEF InQueue
  <2> QED BY <2>2, <2>3
<1> QED BY <1>3, <1>4, <1>6

\* What Receive does to the channels.
LEMMA Removed ==
  ASSUME Distinct, NEW s \in Stages, NEW e \in Events, Removes(s, e)
  PROVE  /\ InQueue(e)
         /\ Distinct'
         /\ \A f \in Events : InQueue(f)' <=> InQueue(f) /\ f # e
<1>d. \A v, w \in Stages : \A k \in 1..Len(queue[v]), l \in 1..Len(queue[w]) :
        queue[v][k] = queue[w][l] => v = w /\ k = l
  BY DEF Distinct
<1>1. /\ \A t \in Stages : t # s => queue'[t] = queue[t]
      /\ Len(queue[s]) \in Nat \ {0}
      /\ Len(queue'[s]) = Len(queue[s]) - 1
      /\ \A i \in 1..(Len(queue[s]) - 1) : queue'[s][i] = queue[s][i + 1]
      /\ e = queue[s][1]
  BY DEF Removes
<1>2. InQueue(e)
  BY <1>1 DEF InQueue
<1>3. \A t \in Stages : \A i \in 1..Len(queue'[t]) : \E k \in 1..Len(queue[t]) :
        /\ queue[t][k] = queue'[t][i]
        /\ t = s => k = i + 1 /\ k # 1
        /\ t # s => k = i
  <2> TAKE t \in Stages
  <2>1. CASE t = s
    <3> SUFFICES ASSUME NEW i \in 1..Len(queue'[s])
                 PROVE  i + 1 \in 1..Len(queue[s]) /\ queue[s][i + 1] = queue'[s][i] /\ i + 1 # 1
      BY <2>1
    <3> QED BY <1>1
  <2>2. CASE t # s
    BY <1>1, <2>2
  <2> QED BY <2>1, <2>2
<1>4. Distinct'
  <2> SUFFICES ASSUME NEW t \in Stages, NEW u \in Stages,
                      NEW i \in 1..Len(queue'[t]), NEW j \in 1..Len(queue'[u]),
                      queue'[t][i] = queue'[u][j]
               PROVE  t = u /\ i = j
    BY DEF Distinct
  <2>1. PICK m \in 1..Len(queue[t]) : /\ queue[t][m] = queue'[t][i]
                                      /\ t = s => m = i + 1
                                      /\ t # s => m = i
    BY <1>3, Zenon
  <2>2. PICK n \in 1..Len(queue[u]) : /\ queue[u][n] = queue'[u][j]
                                      /\ u = s => n = j + 1
                                      /\ u # s => n = j
    BY <1>3
  <2>3. t = u /\ m = n
    <3>1. m \in 1..Len(queue[t]) /\ n \in 1..Len(queue[u]) /\ queue[t][m] = queue[u][n]
      BY <2>1, <2>2
    <3>2. \A k \in 1..Len(queue[t]), l \in 1..Len(queue[u]) : queue[t][k] = queue[u][l] => t = u /\ k = l
      BY <1>d, Zenon
    <3> QED BY <3>1, <3>2
  <2> QED BY <2>1, <2>2, <2>3
<1>5. \A f \in Events : InQueue(f)' => InQueue(f) /\ f # e
  <2> SUFFICES ASSUME NEW f \in Events, NEW t \in Stages, NEW i \in 1..Len(queue'[t]), queue'[t][i] = f
               PROVE  (\E j \in 1..Len(queue[t]) : queue[t][j] = f) /\ f # e
    BY DEF InQueue
  <2>1. PICK k \in 1..Len(queue[t]) : queue[t][k] = f /\ (t = s => k # 1)
    BY <1>3
  <2>2. 1 \in 1..Len(queue[s]) /\ queue[s][1] = e
    BY <1>1
  <2>3. f # e
    <3> SUFFICES ASSUME f = e PROVE FALSE
      OBVIOUS
    <3>1. queue[t][k] = queue[s][1]
      BY <2>1, <2>2
    <3>2. \A m \in 1..Len(queue[t]), n \in 1..Len(queue[s]) : queue[t][m] = queue[s][n] => t = s /\ m = n
      BY <1>d
    <3>3. t = s /\ k = 1
      BY <2>1, <2>2, <3>1, <3>2
    <3> QED BY <2>1, <3>3
  <2> QED BY <2>1, <2>3
<1>6. \A f \in Events : InQueue(f) /\ f # e => InQueue(f)'
  <2> SUFFICES ASSUME NEW f \in Events, f # e, NEW t \in Stages, NEW i \in 1..Len(queue[t]), queue[t][i] = f
               PROVE  \E j \in 1..Len(queue'[t]) : queue'[t][j] = f
    BY Zenon DEF InQueue
  <2>1. CASE t = s
    <3>1. i - 1 \in 1..Len(queue'[s]) /\ i - 1 \in 1..(Len(queue[s]) - 1)
      BY <1>1, <2>1
    <3>2. queue'[s][i - 1] = queue[s][i]
      BY <1>1, <3>1, <2>1
    <3> QED BY <2>1, <3>1, <3>2
  <2>2. CASE t # s
    BY <1>1, <2>2
  <2> QED BY <2>1, <2>2
<1> QED BY <1>1, <1>2, <1>4, <1>5, <1>6

\* Receive, Submit and Send do what Removes and Appends say.
LEMMA ReceiveRemoves ==
  ASSUME TypeOK, NEW w \in Workers, Receive(w)
  PROVE  hand'[w] \in Events /\ Removes(StageOf[w], hand'[w])
<1> DEFINE s == StageOf[w]
<1>1. s \in Stages /\ queue[s] \in Seq(Events) /\ queue[s] # <<>>
  BY StageRange DEF Receive, TypeOK
<1>2. queue' = [queue EXCEPT ![s] = Tail(@)] /\ hand'[w] = Head(queue[s])
  BY DEF Receive, TypeOK
<1> HIDE DEF s
<1>3. queue'[s] = Tail(queue[s]) /\ \A t \in Stages : t # s => queue'[t] = queue[t]
  BY <1>1, <1>2 DEF TypeOK
<1>4. hand'[w] \in Events /\ hand'[w] = queue[s][1] /\ Len(queue[s]) \in Nat \ {0}
  BY <1>1, <1>2
<1>5. /\ Len(queue'[s]) = Len(queue[s]) - 1
      /\ \A i \in 1..(Len(queue[s]) - 1) : queue'[s][i] = queue[s][i + 1]
  BY <1>1, <1>3
<1>6. Removes(s, hand'[w])
  BY <1>3, <1>4, <1>5 DEF Removes
<1> QED BY <1>4, <1>6 DEF s

LEMMA AppendAppends ==
  ASSUME TypeOK, NEW s \in Stages, NEW e \in Events, queue' = [queue EXCEPT ![s] = Append(@, e)]
  PROVE  Appends(s, e)
<1>1. queue[s] \in Seq(Events)
  BY DEF TypeOK
<1>2. queue'[s] = Append(queue[s], e) /\ \A t \in Stages : t # s => queue'[t] = queue[t]
  BY DEF TypeOK
<1> QED BY <1>1, <1>2 DEF Appends

\* A worker's hand is filled and emptied.
LEMMA HandFilled ==
  ASSUME TypeOK, OneHolder, NEW w \in Workers, NEW e \in Events, ~InHand(e), hand[w] = NoEvent,
         hand' = [hand EXCEPT ![w] = e]
  PROVE  OneHolder' /\ \A f \in Events : InHand(f)' <=> InHand(f) \/ f = e
  BY DEF TypeOK, OneHolder, InHand

LEMMA HandEmptied ==
  ASSUME TypeOK, OneHolder, NEW w \in Workers, hand' = [hand EXCEPT ![w] = NoEvent]
  PROVE  OneHolder' /\ \A f \in Events : InHand(f)' <=> InHand(f) /\ f # hand[w]
  BY DEF TypeOK, OneHolder, InHand

LEMMA CancelSticks == [Next]_vars /\ cancelled => cancelled'
  BY Zenon DEF Next, vars, CloseInputs, Cancel, Submit, CloseDownstream, Step, Receive, ExitClosed,
         ExitCancelled, Exit, Skip, Fail, Succeed, Report, Send

\* How each move changes which events are in a channel and in a hand.
LEMMA StillFlow ==
  ASSUME TypeOK, OneHolder, Distinct, Still
  PROVE  /\ OneHolder' /\ Distinct'
         /\ \A f \in Events : (InHand(f)' <=> InHand(f)) /\ (InQueue(f)' <=> InQueue(f))
  BY DEF Still, OneHolder, Distinct, InHand, InQueue

LEMMA SubmitFlow ==
  ASSUME Inv, NEW e \in Events, Submit(e)
  PROVE  /\ reported[e] = 0 /\ ~InHand(e) /\ ~InQueue(e)
         /\ OneHolder' /\ Distinct'
         /\ \A f \in Events : (InHand(f)' <=> InHand(f)) /\ (InQueue(f)' <=> InQueue(f) \/ f = e)
<1>0. TypeOK /\ Fresh /\ OneHolder /\ Distinct
  BY DEF Inv, Exclusive
<1>1. reported[e] = 0 /\ ~InHand(e) /\ ~InQueue(e)
  BY <1>0 DEF Submit, Fresh
<1>2. 1 \in Stages
  BY DEF Stages
<1>3. Appends(1, e)
  BY <1>0, <1>2, AppendAppends, Zenon DEF Submit
<1>4. Distinct' /\ \A f \in Events : InQueue(f)' <=> InQueue(f) \/ f = e
  BY <1>0, <1>1, <1>2, <1>3, Appended
<1>5. OneHolder' /\ \A f \in Events : InHand(f)' <=> InHand(f)
  BY <1>0 DEF Submit, OneHolder, InHand
<1> QED BY <1>1, <1>4, <1>5

LEMMA ReceiveFlow ==
  ASSUME Inv, NEW w \in Workers, Receive(w)
  PROVE  \E e \in Events :
           /\ InQueue(e) /\ ~InHand(e) /\ OneHolder' /\ Distinct'
           /\ \A f \in Events : (InHand(f)' <=> InHand(f) \/ f = e) /\ (InQueue(f)' <=> InQueue(f) /\ f # e)
<1> DEFINE e == hand'[w]
<1>0. TypeOK /\ Exclusive /\ OneHolder /\ Distinct
  BY DEF Inv, Exclusive
<1>1. e \in Events /\ StageOf[w] \in Stages /\ Removes(StageOf[w], e)
  BY <1>0, ReceiveRemoves, StageRange
<1>2. hand[w] = NoEvent /\ hand' = [hand EXCEPT ![w] = e]
  BY <1>0, Zenon DEF Receive, TypeOK
<1> HIDE DEF e
<1>3. InQueue(e) /\ Distinct' /\ \A f \in Events : InQueue(f)' <=> InQueue(f) /\ f # e
  BY <1>0, <1>1, Removed
<1>4. ~InHand(e)
  BY <1>0, <1>1, <1>3 DEF Exclusive
<1>5. OneHolder' /\ \A f \in Events : InHand(f)' <=> InHand(f) \/ f = e
  BY <1>0, <1>1, <1>2, <1>4, HandFilled, Zenon
<1> QED BY <1>1, <1>3, <1>4, <1>5

LEMMA SendFlow ==
  ASSUME Inv, NEW w \in Workers, Send(w)
  PROVE  \E e \in Events :
           /\ InHand(e) /\ ~InQueue(e) /\ OneHolder' /\ Distinct'
           /\ \A f \in Events : (InHand(f)' <=> InHand(f) /\ f # e) /\ (InQueue(f)' <=> InQueue(f) \/ f = e)
<1> DEFINE e == hand[w]
           s == StageOf[w] + 1
<1>0. TypeOK /\ Exclusive /\ OneHolder /\ Distinct
  BY DEF Inv, Exclusive
<1>1. e \in Events /\ s \in Stages
  BY <1>0, StageRange DEF Send, TypeOK
<1>2. queue' = [queue EXCEPT ![s] = Append(@, e)] /\ hand' = [hand EXCEPT ![w] = NoEvent]
  BY DEF Send
<1>3. InHand(e)
  BY DEF InHand
<1> HIDE DEF e, s
<1>4. ~InQueue(e)
  BY <1>0, <1>1, <1>3 DEF Exclusive
<1>5. Distinct' /\ \A f \in Events : InQueue(f)' <=> InQueue(f) \/ f = e
  BY <1>0, <1>1, <1>2, <1>4, AppendAppends, Appended, Zenon
<1>6. OneHolder' /\ \A f \in Events : InHand(f)' <=> InHand(f) /\ f # e
  BY <1>0, <1>2, HandEmptied, Zenon DEF e
<1> QED BY <1>1, <1>3, <1>4, <1>5, <1>6

LEMMA DropFlow ==
  ASSUME Inv, NEW w \in Workers, Drops(w)
  PROVE  /\ OneHolder' /\ Distinct'
         /\ \A f \in Events : (InHand(f)' <=> InHand(f) /\ f # hand[w]) /\ (InQueue(f)' <=> InQueue(f))
<1>0. TypeOK /\ OneHolder /\ Distinct
  BY DEF Inv, Exclusive
<1>1. OneHolder' /\ \A f \in Events : InHand(f)' <=> InHand(f) /\ f # hand[w]
  BY <1>0, HandEmptied, Zenon DEF Drops
<1>2. Distinct' /\ \A f \in Events : InQueue(f)' <=> InQueue(f)
  BY <1>0 DEF Drops, Distinct, InQueue
<1> QED BY <1>1, <1>2

\* What a worker holds was submitted, is in no channel and was not reported.
LEMMA HeldOnce ==
  ASSUME Inv, NEW w \in Workers, hand[w] # NoEvent
  PROVE  /\ hand[w] \in Events /\ hand[w] \in submitted /\ InHand(hand[w])
         /\ ~InQueue(hand[w]) /\ reported[hand[w]] = 0
<1> DEFINE e == hand[w]
<1>0. TypeOK /\ Exclusive /\ Fresh
  BY DEF Inv
<1>1. e \in Events /\ InHand(e)
  BY <1>0 DEF TypeOK, InHand
<1> HIDE DEF e
<1>2. reported[e] \in 0..2
  BY <1>0, <1>1 DEF TypeOK
<1>3. ~(reported[e] > 0) /\ ~InQueue(e)
  BY <1>0, <1>1 DEF Exclusive
<1>4. e \in submitted
  BY <1>0, <1>1 DEF Fresh
<1> QED BY <1>1, <1>2, <1>3, <1>4 DEF e

\* Report counts the event the worker lets go, for the first time.
LEMMA ReportCounts ==
  ASSUME Inv, NEW w \in Workers, Report(w), pc[w] = "work"
  PROVE  hand[w] # NoEvent /\ reported' = [reported EXCEPT ![hand[w]] = 1]
<1>1. hand[w] # NoEvent
  BY DEF Inv, TypeOK
<1>2. reported[hand[w]] = 0
  BY <1>1, HeldOnce, SMTT(30)
<1> QED BY <1>1, <1>2 DEF Report

LEMMA ConservationStep == Inv /\ [Next]_vars => Exclusive' /\ Fresh' /\ NothingLost'
<1> SUFFICES ASSUME Inv, [Next]_vars PROVE Exclusive' /\ Fresh' /\ NothingLost'
  OBVIOUS
<1> DEFINE Goal == Exclusive' /\ Fresh' /\ NothingLost'
<1>0. TypeOK /\ Exclusive /\ Fresh /\ NothingLost /\ OneHolder /\ Distinct
  BY DEF Inv, Exclusive
<1>c. ~cancelled' => ~cancelled
  BY CancelSticks
<1>1. CASE Still
  BY <1>0, <1>1, <1>c, StillFlow DEF Still, Exclusive, Fresh, NothingLost, TypeOK
<1>2. ASSUME NEW e \in Events, Submit(e) PROVE Goal
  <2>1. reported' = reported /\ submitted' = submitted \union {e}
    BY <1>2 DEF Submit
  <2> QED BY <1>0, <1>2, <1>c, <2>1, SubmitFlow DEF Exclusive, Fresh, NothingLost, TypeOK
<1>3. ASSUME NEW w \in Workers, Receive(w) PROVE Goal
  <2>1. reported' = reported /\ submitted' = submitted
    BY <1>3 DEF Receive
  <2> QED BY <1>0, <1>3, <1>c, <2>1, ReceiveFlow DEF Exclusive, Fresh, NothingLost, TypeOK
<1>4. ASSUME NEW w \in Workers, Send(w) PROVE Goal
  <2>1. reported' = reported /\ submitted' = submitted
    BY <1>4 DEF Send
  <2> QED BY <1>0, <1>4, <1>c, <2>1, SendFlow DEF Exclusive, Fresh, NothingLost, TypeOK
<1>5. ASSUME NEW w \in Workers, Drops(w),
             \/ Report(w) /\ pc[w] = "work"
             \/ UNCHANGED reported /\ (cancelled \/ hand[w] = NoEvent)
      PROVE  Goal
  <2>1. submitted' = submitted
    BY <1>5 DEF Drops
  <2>2. CASE Report(w) /\ pc[w] = "work"
    <3>1. hand[w] # NoEvent /\ reported' = [reported EXCEPT ![hand[w]] = 1]
      BY <2>2, ReportCounts
    <3>2. /\ hand[w] \in Events /\ hand[w] \in submitted
          /\ ~InQueue(hand[w]) /\ reported[hand[w]] = 0
      BY <3>1, HeldOnce
    <3> QED BY <1>0, <1>5, <1>c, <2>1, <3>1, <3>2, DropFlow DEF Exclusive, Fresh, NothingLost, TypeOK
  <2>3. CASE UNCHANGED reported /\ (cancelled \/ hand[w] = NoEvent)
    BY <1>0, <1>5, <1>c, <2>1, <2>3, DropFlow DEF Exclusive, Fresh, NothingLost, TypeOK
  <2> QED BY <1>5, <2>2, <2>3
<1> QED BY <1>0, <1>1, <1>2, <1>3, <1>4, <1>5, Moves

-----------------------------------------------------------------------------
(* Refinement: each move is a step of EventDelivery, or none *)

\* Only Cancel touches cancelled, and it moves no event.
LEMMA CancelStep == [Next]_vars => UNCHANGED cancelled \/ (Still /\ ~cancelled /\ cancelled' = TRUE)
  BY Zenon DEF Next, vars, CloseInputs, Cancel, Still, Submit, CloseDownstream, Step, Receive, ExitClosed,
         ExitCancelled, Exit, Skip, Fail, Succeed, Report, Send

\* The step of EventDelivery for an event that moves.
LEMMA DeliveryMoves ==
  ASSUME NEW e \in Events, NEW from, NEW to, UNCHANGED cancelled,
         Whereabouts(e) = from, Whereabouts(e)' = to,
         \A f \in Events : f # e => Whereabouts(f)' = Whereabouts(f)
  PROVE  Delivery!Moves(e, from, to)
  BY Zenon DEF Delivery!Moves

LEMMA DeliveryStays ==
  ASSUME UNCHANGED cancelled, \A f \in Events : Whereabouts(f)' = Whereabouts(f)
  PROVE  UNCHANGED Delivery!delivery
  BY DEF Delivery!delivery

LEMMA DeliveryInit == Init => Delivery!Init
  BY SMTT(30) DEF Init, Delivery!Init, Whereabouts

LEMMA DeliveryStep == Inv /\ [Next]_vars => [Delivery!Next]_(Delivery!delivery)
<1> SUFFICES ASSUME Inv, [Next]_vars PROVE [Delivery!Next]_(Delivery!delivery)
  OBVIOUS
<1> DEFINE Goal == [Delivery!Next]_(Delivery!delivery)
<1>0. TypeOK /\ OneHolder /\ Distinct
  BY DEF Inv, Exclusive
<1>1. CASE Still
  <2>1. \A f \in Events : Whereabouts(f)' = Whereabouts(f)
    BY <1>0, <1>1, StillFlow DEF Still, Whereabouts
  <2>2. CASE UNCHANGED cancelled
    BY <2>1, <2>2, DeliveryStays
  <2>3. CASE ~cancelled /\ cancelled' = TRUE
    BY <2>1, <2>3 DEF Delivery!Next, Delivery!Stop
  <2> QED BY <2>2, <2>3, CancelStep, Zenon
<1>2. ASSUME NEW e \in Events, Submit(e) PROVE Goal
  <2>1. reported' = reported /\ submitted' = submitted \union {e} /\ e \notin submitted /\ UNCHANGED cancelled
    BY <1>2 DEF Submit
  <2>2. /\ Whereabouts(e) = "new" /\ Whereabouts(e)' = "pending"
        /\ \A f \in Events : f # e => Whereabouts(f)' = Whereabouts(f)
    BY <1>0, <1>2, <2>1, SubmitFlow DEF Whereabouts, TypeOK
  <2>3. Delivery!Accept(e)
    BY <2>1, <2>2, DeliveryMoves DEF Delivery!Accept
  <2> QED BY <2>3 DEF Delivery!Next
<1>3. ASSUME NEW w \in Workers, Receive(w) PROVE Goal
  <2>1. reported' = reported /\ submitted' = submitted /\ UNCHANGED cancelled
    BY <1>3 DEF Receive
  <2>2. \A f \in Events : Whereabouts(f)' = Whereabouts(f)
    BY <1>0, <1>3, <2>1, ReceiveFlow DEF Whereabouts, TypeOK
  <2> QED BY <2>1, <2>2, DeliveryStays
<1>4. ASSUME NEW w \in Workers, Send(w) PROVE Goal
  <2>1. reported' = reported /\ submitted' = submitted /\ UNCHANGED cancelled
    BY <1>4 DEF Send
  <2>2. \A f \in Events : Whereabouts(f)' = Whereabouts(f)
    BY <1>0, <1>4, <2>1, SendFlow DEF Whereabouts, TypeOK
  <2> QED BY <2>1, <2>2, DeliveryStays
<1>5. ASSUME NEW w \in Workers, Drops(w),
             \/ Report(w) /\ pc[w] = "work"
             \/ UNCHANGED reported /\ (cancelled \/ hand[w] = NoEvent)
      PROVE  Goal
  <2>1. submitted' = submitted
    BY <1>5 DEF Drops
  <2>2. CASE Still
    BY <1>1, <2>2
  <2>3. CASE ~Still
    <3>0. UNCHANGED cancelled
      BY <2>3, CancelStep
    <3>1. CASE hand[w] = NoEvent
      <4>1. UNCHANGED reported /\ \A f \in Events : f # hand[w]
        BY <1>5, <3>1, ReportCounts, SMTT(30)
      <4>2. \A f \in Events : Whereabouts(f)' = Whereabouts(f)
        BY <1>5, <2>1, <4>1, DropFlow, SMTT(30) DEF Whereabouts
      <4> QED BY <3>0, <4>2, DeliveryStays
    <3>2. CASE hand[w] # NoEvent
      <4>0. PICK e \in Events : e = hand[w]
        BY <3>2, HeldOnce
      <4>1. e \in submitted /\ InHand(e) /\ ~InQueue(e) /\ reported[e] = 0
        BY <3>2, <4>0, HeldOnce, SMTT(30)
      <4>2. \A f \in Events : (InHand(f)' <=> InHand(f) /\ f # e) /\ (InQueue(f)' <=> InQueue(f))
        BY <1>5, <4>0, DropFlow
      <4>3. CASE Report(w) /\ pc[w] = "work"
        <5>1. reported' = [reported EXCEPT ![e] = 1]
          BY <4>0, <4>3, ReportCounts, SMTT(30)
        <5>2. /\ Whereabouts(e) = "pending" /\ Whereabouts(e)' = "done"
              /\ \A f \in Events : f # e => Whereabouts(f)' = Whereabouts(f)
          BY <1>0, <2>1, <4>1, <4>2, <5>1, SMTT(60) DEF Whereabouts, TypeOK
        <5>3. Delivery!Settle(e)
          BY <3>0, <4>1, <5>2, DeliveryMoves DEF Delivery!Settle
        <5> QED BY <4>1, <5>3 DEF Delivery!Next
      <4>4. CASE UNCHANGED reported /\ cancelled
        <5>1. /\ Whereabouts(e) = "pending" /\ Whereabouts(e)' = "dropped"
              /\ \A f \in Events : f # e => Whereabouts(f)' = Whereabouts(f)
          BY <1>0, <2>1, <4>1, <4>2, <4>4, SMTT(60) DEF Whereabouts, TypeOK
        <5>2. Delivery!Drop(e)
          BY <3>0, <4>1, <4>4, <5>1, DeliveryMoves DEF Delivery!Drop
        <5> QED BY <4>1, <5>2, SMTT(30) DEF Delivery!Next
      <4> QED BY <1>5, <3>2, <4>3, <4>4, SMTT(30)
    <3> QED BY <3>1, <3>2
  <2> QED BY <2>2, <2>3
<1> QED BY <1>0, <1>1, <1>2, <1>3, <1>4, <1>5, Moves

-----------------------------------------------------------------------------
(* The theorems *)

THEOREM CoordinatorInvariant == Spec => []Inv
<1>1. Inv /\ [Next]_vars => Inv'
  BY TypeStep, NoSendOnClosedStep, ConservationStep DEF Inv
<1> QED BY <1>1, InitInv, PTL DEF Spec

\* For any number of events and workers: types, channel capacities, and a
\* worker holds an event exactly while it works or sends (Coordinator.Run).
THEOREM CoordinatorTypeCorrect == Spec => []TypeOK
  BY CoordinatorInvariant, PTL DEF Inv

\* For any number of workers per stage: no worker can meet a closed channel
\* downstream, so Run never panics in a send (the stage helper of Run).
THEOREM ClosersAreLate == Spec => []NoSendOnClosed
  BY CoordinatorInvariant, PTL DEF Inv

\* For any number of events and workers: no event is in two places and none
\* is reported twice (OnSuccess and OnDLQ of Run and routeDLQ).
THEOREM EventsAreExclusive == Spec => []Exclusive
  BY CoordinatorInvariant, PTL DEF Inv

\* For any number of events and workers: without a cancellation no accepted
\* event is lost between Submit and the hooks.
THEOREM EventsAreKept == Spec => []NothingLost
  BY CoordinatorInvariant, PTL DEF Inv

\* For any number of events and workers, and any sizes: the pipeline is an
\* EventDelivery.  Every accepted event is settled at most once, and dropped
\* only after a cancellation (Submit, Run, routeDLQ).
THEOREM CoordinatorDelivers == Spec => ImplementsDelivery
<1>1. Spec => []Inv
  BY CoordinatorInvariant
<1>2. Inv /\ [Next]_vars => [Delivery!Next]_(Delivery!delivery)
  BY DeliveryStep
<1> QED BY <1>1, <1>2, DeliveryInit, PTL DEF Spec, ImplementsDelivery, Delivery!Spec
=============================================================================
