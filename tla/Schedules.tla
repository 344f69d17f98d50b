------------------------------ MODULE Schedules ------------------------------
(***************************************************************************)
(* internal/admin/scheduler.go and cron.go: the schedule of one source,    *)
(* which the admin API replaces and the schedulers of the ingest replicas  *)
(* fire and move to the next time of its cron expression.  Time counts     *)
(* minutes of a small calendar; an expression is the sets its five fields  *)
(* parse to, with the two flags that say a day field is not "*", or the    *)
(* duration of an @every.                                                  *)
(***************************************************************************)
EXTENDS Naturals, FiniteSetsExt

CONSTANTS Expressions,  \* cron expressions an operator may give
          Schedulers,   \* replicas running Scheduler.Tick
          Hours, Minutes, DaysPerMonth, Months, Weekdays, \* the calendar
          LimitYears,   \* how far Next looks ahead
          MaxEdits,     \* times the schedule is replaced
          MaxTime       \* the clock's bound

VARIABLES
  schedule,  \* the sync_schedules row
  edits,
  ticking,   \* locals of each Tick
  now,
  overwrote  \* a Tick moved a schedule that had been replaced under it

scheduleVars == <<schedule, edits, ticking, now, overwrote>>

-----------------------------------------------------------------------------
MinuteOf(t) == t % Minutes
HourOf(t) == (t \div Minutes) % Hours
DayLength == Hours * Minutes
DayOf(t) == ((t \div DayLength) % DaysPerMonth) + 1
MonthOf(t) == ((t \div (DayLength * DaysPerMonth)) % Months) + 1
WeekdayOf(t) == (t \div DayLength) % Weekdays
Year == DayLength * DaysPerMonth * Months

(* The first minute of the hour, day or month after t's.                    *)
NextUnit(t, length) == (t \div length + 1) * length

matchDay(cs, t) ==
  LET domHit == DayOf(t) \in cs.doms
      dowHit == WeekdayOf(t) \in cs.dows
  IN IF cs.hasDOM /\ cs.hasDOW THEN domHit \/ dowHit
     ELSE (cs.hasDOM => domHit) /\ (cs.hasDOW => dowHit)

(* Mutant: a month is skipped from the same day, not from its first.        *)
CronNextUntruncated(cs, from) ==
  LET limit == from + LimitYears * Year
      search[t \in 0 .. limit + Year] ==
        IF t > limit THEN 0
        ELSE IF MonthOf(t) \notin cs.months THEN search[t + DayLength * DaysPerMonth]
        ELSE IF ~matchDay(cs, t) THEN search[NextUnit(t, DayLength)]
        ELSE IF HourOf(t) \notin cs.hours THEN search[NextUnit(t, Minutes)]
        ELSE IF MinuteOf(t) \notin cs.minutes THEN search[t + 1]
        ELSE t
  IN IF cs.every > 0 THEN from + cs.every ELSE search[from + 1]

(* CronSchedule.Next: skip whole months, days and hours that cannot match.  *)
(* 0 stands for the zero time.                                              *)
CronNext(cs, from) ==
  LET limit == from + LimitYears * Year
      search[t \in 0 .. limit + Year] ==
        IF t > limit THEN 0
        ELSE IF MonthOf(t) \notin cs.months THEN search[NextUnit(t, DayLength * DaysPerMonth)]
        ELSE IF ~matchDay(cs, t) THEN search[NextUnit(t, DayLength)]
        ELSE IF HourOf(t) \notin cs.hours THEN search[NextUnit(t, Minutes)]
        ELSE IF MinuteOf(t) \notin cs.minutes THEN search[t + 1]
        ELSE t
  IN IF cs.every > 0 THEN from + cs.every ELSE search[from + 1]

-----------------------------------------------------------------------------
NoSchedule == [expr |-> "none", next |-> 0, from |-> 0, enabled |-> FALSE]
NotTicking == [pc |-> "idle", expr |-> "none", at |-> 0]

ScheduleInit ==
  /\ schedule = NoSchedule /\ edits = 0 /\ now = 0 /\ overwrote = FALSE
  /\ ticking = [r \in Schedulers |-> NotTicking]

TimePasses == now < MaxTime /\ now' = now + 1 /\ UNCHANGED <<schedule, edits, ticking, overwrote>>

(* UpsertSchedule; an expression that never fires is refused.               *)
UpsertSchedule(name, enabled) ==
  LET next == CronNext(Expressions[name], now)
  IN /\ next # 0
     /\ edits < MaxEdits /\ edits' = edits + 1
     /\ schedule' = [expr |-> name, next |-> next, from |-> now, enabled |-> enabled]
     /\ UNCHANGED <<ticking, now, overwrote>>

(* Tick reads the enabled rows that are due.                                *)
FindDue(r) ==
  /\ ticking[r].pc = "idle"
  /\ schedule.enabled /\ schedule.next <= now
  /\ ticking' = [ticking EXCEPT ![r] = [pc |-> "due", expr |-> schedule.expr, at |-> now]]
  /\ UNCHANGED <<schedule, edits, now, overwrote>>

(* EmitSync; when it fails the row stays due (last_error is left out).      *)
EmitSync(r) ==
  /\ ticking[r].pc = "due"
  /\ \/ ticking' = [ticking EXCEPT ![r].pc = "emitted"]
     \/ ticking' = [ticking EXCEPT ![r] = NotTicking]
  /\ UNCHANGED <<schedule, edits, now, overwrote>>

(* next_run_at from the expression and the clock Tick read, whatever the    *)
(* row holds by now; or the UPDATE fails and the row fires again.           *)
Advance(r) ==
  LET t == ticking[r]
      next == CronNext(Expressions[t.expr], t.at)
  IN /\ t.pc = "emitted"
     /\ \/ /\ next # 0
           /\ schedule' = [schedule EXCEPT !.next = next, !.from = t.at]
           /\ overwrote' = (overwrote \/ t.expr # schedule.expr)
        \/ UNCHANGED <<schedule, overwrote>>
     /\ ticking' = [ticking EXCEPT ![r] = NotTicking]
     /\ UNCHANGED <<edits, now>>

ScheduleNext ==
  \/ TimePasses
  \/ \E name \in DOMAIN Expressions, enabled \in BOOLEAN : UpsertSchedule(name, enabled)
  \/ \E r \in Schedulers : FindDue(r) \/ EmitSync(r) \/ Advance(r)

-----------------------------------------------------------------------------
(* The least minute after t that all five fields admit, read off the fields.*)
Fires(cs, t) ==
  /\ MinuteOf(t) \in cs.minutes /\ HourOf(t) \in cs.hours
  /\ MonthOf(t) \in cs.months /\ matchDay(cs, t)
FirstAfter(cs, from) ==
  IF cs.every > 0 THEN from + cs.every
  ELSE Min({t \in from + 1 .. from + LimitYears * Year : Fires(cs, t)})

(* The next run of a schedule is the first minute of its expression after   *)
(* the moment it was computed at: Next's jumps over months, days and hours  *)
(* never jump over one, and the replicas only ever move the schedule they   *)
(* read, unless it was replaced while a Tick was firing it.                 *)
NextRunIsFirst ==
  (schedule.expr # "none" /\ ~overwrote)
    => schedule.next = FirstAfter(Expressions[schedule.expr], schedule.from)
=============================================================================
