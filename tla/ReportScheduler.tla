-------------------------- MODULE ReportScheduler --------------------------
(***************************************************************************)
(* One report schedule and the runners of the replicas that serve it       *)
(* (internal/http/handlers/report_scheduler.go, report_schedules.go,       *)
(* internal/metadata/report_schedules.go).  Every runner wakes up, lists   *)
(* the schedule, sends the digest to its recipients if a slot has passed   *)
(* since the last run, and then records the run.  Nothing keeps two        *)
(* runners apart.                                                          *)
(*                                                                         *)
(* Time is counted in hours from the start of a day.  The lengths of days, *)
(* weeks and months are constants, so that a few hours span several slots. *)
(***************************************************************************)
EXTENDS Integers, FiniteSetsExt

CONSTANTS
    Runners,      \* replicas
    Recipients,   \* of the digest
    Timings,      \* cadences a user may choose
    DayLength,    \* hours in a day
    WeekLength,   \* days in a week
    MonthStarts,  \* days on which a month starts
    LastHour,     \* bound on the clock
    MaxFaults,    \* bound on the faults
    MaxEdits      \* bound on the users' changes

\* Requests are validated (an hour of the day, a day of the week, a day that
\* every month has), and the clock starts after two months have begun.
ASSUME SchedAssumption ==
    /\ LastHour \in Nat /\ MaxFaults \in Nat /\ MaxEdits \in Nat
    /\ DayLength \in Nat \ {0} /\ WeekLength \in Nat \ {0}
    /\ MonthStarts \subseteq Int
    /\ \E m, next \in MonthStarts : m < next /\ next <= 0
    /\ \A timing \in Timings :
         /\ timing.hour \in 0..(DayLength - 1)
         /\ timing.weekday \in 0..(WeekLength - 1)
         /\ timing.day \in Nat \ {0}
         /\ \A m, next \in MonthStarts : m < next => m + timing.day <= next

VARIABLES
    hour,         \* the clock
    sched,        \* the row (absent, kept, deleted): is_active, timing, last_run_at or created_at
    runner,       \* replica -> where it is, the tick's time, the slot and who is left
    sent,         \* <<slot, recipient>> pairs sent
    resent,       \* the pairs sent again
    overlap,      \* two runs overlapped
    faults,       \* crashes and failed records so far
    edits

schedVars == <<hour, sched, runner, sent, resent, overlap, faults, edits>>

Asleep == [pc |-> "asleep", at |-> 0, slot |-> 0, left |-> {}]

SchedInit ==
    /\ hour = 0
    /\ sched = [row |-> "absent", active |-> FALSE, timing |-> {}, last |-> 0]
    /\ runner = [n \in Runners |-> Asleep]
    /\ sent = {} /\ resent = {}
    /\ overlap = FALSE
    /\ faults = 0 /\ edits = 0

----------------------------------------------------------------------------
\* Mutant: a slot that lies ahead is not moved back.
LatestOrNext(slot, before, t) == slot

\* reportSlotAt: today's, this week's or this month's slot, or the one before
\* when that lies ahead.
Latest(slot, before, t) == IF slot > t THEN before ELSE slot

MonthStart(day) == Max({m \in MonthStarts : m <= day})

DailySlot(timing, t) ==
    LET slot == DayLength * (t \div DayLength) + timing.hour IN
    Latest(slot, slot - DayLength, t)

WeeklySlot(timing, t) ==
    LET day == t \div DayLength
        offset == ((day % WeekLength) - timing.weekday + WeekLength) % WeekLength
        slot == DayLength * (day - offset) + timing.hour
    IN Latest(slot, slot - DayLength * WeekLength, t)

MonthlySlot(timing, t) ==
    LET start == MonthStart(t \div DayLength)
        In(m) == DayLength * (m + timing.day - 1) + timing.hour
    IN Latest(In(start), In(MonthStart(start - 1)), t)

reportSlotAt(timing, t) ==
    CASE timing.cadence = "weekly" -> WeeklySlot(timing, t)
      [] timing.cadence = "monthly" -> MonthlySlot(timing, t)
      [] OTHER -> DailySlot(timing, t)

\* reportScheduleDue.
reportScheduleDue(row, t) ==
    \E timing \in row.timing :
        reportSlotAt(timing, t) <= t /\ row.last < reportSlotAt(timing, t)

----------------------------------------------------------------------------
\* CreateReportSchedule; created_at stands for the last run.
CreateSchedule(timing) ==
    /\ sched.row = "absent"
    /\ edits < MaxEdits
    /\ sched' = [row |-> "kept", active |-> TRUE, timing |-> {timing}, last |-> hour]
    /\ edits' = edits + 1
    /\ UNCHANGED <<hour, runner, sent, resent, overlap, faults>>

\* UpdateReportSchedule: the last run is kept.
UpdateSchedule(timing, active) ==
    /\ sched.row = "kept"
    /\ edits < MaxEdits
    /\ sched' = [sched EXCEPT !.timing = {timing}, !.active = active]
    /\ edits' = edits + 1
    /\ UNCHANGED <<hour, runner, sent, resent, overlap, faults>>

\* DeleteReportSchedule.
DeleteSchedule ==
    /\ sched.row = "kept"
    /\ edits < MaxEdits
    /\ sched' = [row |-> "deleted", active |-> FALSE, timing |-> {}, last |-> 0]
    /\ edits' = edits + 1
    /\ UNCHANGED <<hour, runner, sent, resent, overlap, faults>>

\* RunDue on a tick: the active rows are listed; runSchedule if it is due.
RunDue(n) ==
    /\ runner[n] = Asleep
    /\ sched.active
    /\ reportScheduleDue(sched, hour)
    /\ \E timing \in sched.timing :
         runner' = [runner EXCEPT ![n] =
           [pc |-> "sending", at |-> hour, slot |-> reportSlotAt(timing, hour), left |-> Recipients]]
    /\ overlap' = (overlap \/ \E m \in Runners : runner[m] # Asleep)
    /\ UNCHANGED <<hour, sched, sent, resent, faults, edits>>

\* SendReportDigest to one recipient; a failure is noted and not retried.
SendReportDigest(n, rcpt) ==
    /\ runner[n].pc = "sending"
    /\ rcpt \in runner[n].left
    /\ runner' = [runner EXCEPT ![n].left = @ \ {rcpt}]
    /\ \/ LET mail == {<<runner[n].slot, rcpt>>} IN
          sent' = sent \cup mail /\ resent' = resent \cup (sent \cap mail)
       \/ UNCHANGED <<sent, resent>>
    /\ UNCHANGED <<hour, sched, overlap, faults, edits>>

\* Mutant: the run is not recorded.
MarkNothing(n) ==
    /\ runner[n].pc = "sending"
    /\ runner[n].left = {}
    /\ runner' = [runner EXCEPT ![n] = Asleep]
    /\ UNCHANGED <<hour, sched, sent, resent, overlap, faults, edits>>

\* MarkReportScheduleRun: last_run_at becomes the tick's time, whatever it is.
MarkReportScheduleRun(n) ==
    /\ runner[n].pc = "sending"
    /\ runner[n].left = {}
    /\ sched' = IF sched.row = "kept" THEN [sched EXCEPT !.last = runner[n].at] ELSE sched
    /\ runner' = [runner EXCEPT ![n] = Asleep]
    /\ UNCHANGED <<hour, sent, resent, overlap, faults, edits>>

\* The record fails, or the replica stops before it.
RunLost(n) ==
    /\ runner[n] # Asleep
    /\ faults < MaxFaults
    /\ faults' = faults + 1
    /\ runner' = [runner EXCEPT ![n] = Asleep]
    /\ UNCHANGED <<hour, sched, sent, resent, overlap, edits>>

HourPasses ==
    /\ hour < LastHour
    /\ hour' = hour + 1
    /\ UNCHANGED <<sched, runner, sent, resent, overlap, faults, edits>>

RunStep(n) ==
    \/ RunDue(n)
    \/ \E rcpt \in Recipients : SendReportDigest(n, rcpt)
    \/ MarkReportScheduleRun(n)

SchedNext ==
    \/ \E timing \in Timings :
         CreateSchedule(timing) \/ \E b \in BOOLEAN : UpdateSchedule(timing, b)
    \/ DeleteSchedule
    \/ \E n \in Runners : RunStep(n) \/ RunLost(n)
    \/ HourPasses

\* A ticker keeps waking every runner, and a tick under way goes on.
SchedFairness == \A n \in Runners : WF_schedVars(RunStep(n))

SchedSpec == SchedInit /\ [][SchedNext]_schedVars /\ SchedFairness

----------------------------------------------------------------------------
SchedTypeOK ==
    /\ hour \in 0..LastHour
    /\ sched \in [row : {"absent", "kept", "deleted"}, active : BOOLEAN,
                 timing : SUBSET Timings, last : 0..LastHour]
    /\ runner \in [Runners -> [pc : {"asleep", "sending"}, at : 0..LastHour, slot : 0..LastHour,
                               left : SUBSET Recipients]]
    /\ sent \in SUBSET ((0..LastHour) \X Recipients)
    /\ resent \in SUBSET ((0..LastHour) \X Recipients)
    /\ overlap \in BOOLEAN
    /\ faults \in 0..MaxFaults
    /\ edits \in 0..MaxEdits

\* The hours a timing names, said without reference to the present.
Names(timing, t) ==
    /\ t % DayLength = timing.hour
    /\ timing.cadence = "weekly" => (t \div DayLength) % WeekLength = timing.weekday
    /\ timing.cadence = "monthly" =>
         (t \div DayLength) - MonthStart(t \div DayLength) = timing.day - 1

\* reportSlotAt returns the newest hour at or before now that the timing names.
SlotIsLatest ==
    \A timing \in Timings :
        LET slot == reportSlotAt(timing, hour) IN
        /\ slot <= hour
        /\ Names(timing, slot)
        /\ \A t \in (slot + 1)..hour : ~Names(timing, t)

\* A recipient gets one digest of a slot, however the schedule is edited
\* or paused meanwhile, unless two runs overlapped or a run was lost
\* between its mails and its record.
DigestOncePerSlot == resent # {} => overlap \/ faults > 0

\* A slot that has passed is run: the schedule does not stay due.
DueIsRun ==
    (sched.active /\ reportScheduleDue(sched, hour))
        ~> ~(sched.active /\ reportScheduleDue(sched, hour))

\* The scheduler runs the right slot, and no slot twice for a recipient.
ReportsOnce == SchedTypeOK /\ SlotIsLatest /\ DigestOncePerSlot
=============================================================================
