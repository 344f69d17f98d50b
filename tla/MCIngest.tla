------------------------------ MODULE MCIngest ------------------------------
(***************************************************************************)
(* Model-checking instance of three machines of the ingest process: the    *)
(* breaker of a stage, the buffer in front of Stage 1, and Stage 4 with    *)
(* the retention sweep on its stores.  They share no state, so a behaviour *)
(* runs one of them: the state spaces add up and do not multiply.          *)
(***************************************************************************)
EXTENDS StageBreaker, PriorityBuffer, Retention

VARIABLE machine

MCVars == <<machine, vars, bufferVars, retentionVars>>

\* One version of the document has two blocks, the other one of them.
MCBlocksOf == [h1 |-> {"b1", "b2"}, h2 |-> {"b2"}]

MCInit == machine \in {"breaker", "buffer", "stores"} /\ Init /\ BufferInit /\ SweepInit

Keep(m, v) == IF machine = m THEN TRUE ELSE UNCHANGED v

Run(m, action) ==
  /\ machine = m /\ action /\ UNCHANGED machine
  /\ Keep("breaker", vars) /\ Keep("buffer", bufferVars) /\ Keep("stores", retentionVars)

MCNext == Run("breaker", Next) \/ Run("buffer", BufferNext) \/ Run("stores", SweepNext)

\* Every attempt ends: runWithRetry bounds it by the stage timeout, and a
\* backoff ends by its timer or by ctx.  The clock runs.  Allow is fair only as
\* a whole: events keep reaching the stage, which worker receives the next one
\* is up to the scheduler.
BreakerFairness ==
  /\ WF_MCVars(Run("breaker", Tick))
  /\ \A w \in Workers : WF_MCVars(Run("breaker", Working(w)))
  /\ WF_MCVars(Run("breaker", \E w \in Workers : Allow(w)))

\* The drain goroutine runs, stage1 keeps accepting (its workers consume), and
\* Close, once begun, completes.  Nothing is assumed about the pushers.
BufferFairness == WF_MCVars(Run("buffer", Drain)) /\ WF_MCVars(Run("buffer", CloseDone))

MCSpec == MCInit /\ [][MCNext]_MCVars /\ BreakerFairness /\ BufferFairness
=============================================================================
