------------------------------ MODULE Attendance ------------------------------
(***************************************************************************)
(* Clocking in and out: the clock log endpoints of attendance/views.py and *)
(* attendance/face_views.py, the decisions of managers on unrostered       *)
(* sessions, the finalization of a roster period, and the two commands     *)
(* that warn about long sessions and end them.  Whether somebody has a     *)
(* shift now may be either.                                                *)
(*                                                                         *)
(* No endpoint locks or opens a transaction.  A request reads, decides on  *)
(* what it has read, saves a log and then the duty status of its owner.    *)
(* Clocking out and breaks save every column of the log as it was read;    *)
(* managers and commands save the columns they change.  Each read and each *)
(* write is a step.                                                        *)
(***************************************************************************)
EXTENDS Naturals, FiniteSets

CONSTANTS
  Staff,
  Workers,        \* requests over HTTP
  Alerts, Closer, \* check_attendance_alerts, auto_clock_out_excessive
  LastDay,        \* bound: days
  MaxLogs,        \* bound: clock logs
  Periods,        \* roster periods,
  DaysOf,         \* the days of each
  Idle, NoLog

VARIABLES
  log,     \* the ClockLog rows, in the order of time_in
  long,    \* logs whose time_in is hard_limit_hours ago
  duty,    \* Staff.duty_status
  today,
  final,   \* RosterPeriod.is_finalized, and whether it was validated, without
           \* force, after its last day (history)
  desk,    \* what each request and command is about to write
  nights,  \* staff who clocked in with a session of an earlier day open (history)
  stale,   \* a row was saved whole over what others had written (history)
  clean    \* every request found what it had read, was not cut off, and wrote
           \* while no other was half way about the same staff (history)

vars == <<log, long, duty, today, final, desk, nights, stale, clean>>

Logs == 1..MaxLogs
Days == 1..LastDay
Actors == Workers \cup {Alerts, Closer}

Verdicts == {"pending", "approved", "rejected"}
Duties == {"off_duty", "on_duty", "on_break"}

Rows == [staff : Staff, day : Days, open : BOOLEAN, on_break : BOOLEAN, unrostered : BOOLEAN,
         verdict : Verdicts, warned : BOOLEAN, hours : BOOLEAN]

Requests ==
  [does : {"creates"}, staff : Staff, unrostered : BOOLEAN, fresh : BOOLEAN]
    \cup [does : {"saves"}, staff : Staff, log : Logs, row : Rows, then : Duties, fresh : BOOLEAN]
    \cup [does : {"decides"}, staff : Staff, log : Logs, verdict : Verdicts, open : BOOLEAN, fresh : BOOLEAN]
    \cup [does : {"closes", "warns"}, staff : Staff, log : Logs, fresh : BOOLEAN]
    \cup [does : {"duty"}, staff : Staff, then : Duties, fresh : BOOLEAN]
    \cup [does : {"finalizes"}, period : Periods, as : {"sound", "unsound"}, fresh : BOOLEAN]

ASSUME DaysOfAssumption == DaysOf \in [Periods -> SUBSET Days]
ASSUME BoundsAreNumbers == LastDay \in Nat \ {0} /\ MaxLogs \in Nat
ASSUME ActorsDiffer == Alerts # Closer /\ {Alerts, Closer} \cap Workers = {}
ASSUME NoneAreNone == Idle \notin Requests /\ NoLog \notin Rows

-----------------------------------------------------------------------------
(* What requests look up *)

Exists(l) == log[l] # NoLog
IsOpen(l) == Exists(l) /\ log[l].open

\* Mutant: an unapproved session is not found.
ApprovedToday(s) == {l \in Logs : IsOpen(l) /\ log[l].staff = s /\ log[l].day = today /\ log[l].verdict = "approved"}
OpenToday(s) == {l \in Logs : IsOpen(l) /\ log[l].staff = s /\ log[l].day = today}

\* The newest of them.
IsFirst(l, s) == l \in OpenToday(s) /\ \A m \in OpenToday(s) : m <= l

\* Mutant: only sessions that have ended are looked at.
UnresolvedAndClosed(p) ==
  \E l \in Logs : Exists(l) /\ log[l].day \in DaysOf[p] /\ log[l].unrostered /\ log[l].verdict = "pending" /\ ~log[l].open
\* validate_period_finalization
Unresolved(p) == \E l \in Logs : Exists(l) /\ log[l].day \in DaysOf[p] /\ log[l].unrostered /\ log[l].verdict = "pending"

\* Mutant: a period is locked only once it is over.
IsLockedLater(l) == \E p \in Periods : final[p] # "open" /\ log[l].day \in DaysOf[p] /\ today \notin DaysOf[p]
\* is_period_or_log_locked
IsLocked(l) == \E p \in Periods : final[p] # "open" /\ log[l].day \in DaysOf[p]

\* Mutant: the date of a place where it is tomorrow.
DateElsewhere == today + 1
\* timezone.now().date() of time_in
Date == today

IsOver(p) == \A d \in DaysOf[p] : d < today

-----------------------------------------------------------------------------
(* Requests *)

\* Whose logs a request has read: to finalize a period, everybody's.
About(request) == IF request.does = "finalizes" THEN Staff ELSE {request.staff}

HalfWay(v) == desk[v] # Idle /\ desk[v].does = "duty"

\* Who has read logs of these staff is out of date.
Outdated(v, whose) ==
  IF desk[v] # Idle /\ About(desk[v]) \cap whose # {} THEN [desk[v] EXCEPT !.fresh = FALSE] ELSE desk[v]

\* The request of w writes, and goes on as next.
Writes(w, next) ==
  LET whose == About(desk[w])
  IN  /\ desk' = [v \in Actors |-> IF v = w THEN next ELSE Outdated(v, whose)]
      /\ clean' = (clean /\ desk[w].fresh
                    /\ \A v \in Actors \ {w} : HalfWay(v) => desk[v].staff \notin whose)

Begins(w, request) ==
  /\ desk[w] = Idle
  /\ desk' = [desk EXCEPT ![w] = request]
  /\ UNCHANGED <<log, long, duty, today, final, nights, stale, clean>>

Is(w, step) == desk[w] # Idle /\ desk[w].does = step

ThenDuty(s, to) == [does |-> "duty", staff |-> s, then |-> to, fresh |-> TRUE]

\* A request that has written something is cut off by an error or a crash.
CutOff(w) ==
  /\ HalfWay(w)
  /\ desk' = [desk EXCEPT ![w] = Idle]
  /\ clean' = FALSE
  /\ UNCHANGED <<log, long, duty, today, final, nights, stale>>

SaveDuty(w) ==
  /\ Is(w, "duty")
  /\ duty' = [duty EXCEPT ![desk[w].staff] = desk[w].then]
  /\ Writes(w, Idle)
  /\ UNCHANGED <<log, long, today, final, nights, stale>>

-----------------------------------------------------------------------------
(* Clocking in, breaks and clocking out *)

Creates(w, s, unrostered) ==
  /\ OpenToday(s) = {}
  /\ Begins(w, [does |-> "creates", staff |-> s, unrostered |-> unrostered, fresh |-> TRUE])

\* face_clock_in, of staff who have a shift now; the others are asked to confirm.
FaceClockIn(w, s) == Creates(w, s, FALSE)

\* unrostered_confirm and force_clock_in_unrostered do not look for a shift.
ConfirmUnrostered(w, s) == Creates(w, s, TRUE)

CreateLog(w, l) ==
  /\ Is(w, "creates") /\ ~Exists(l) /\ \A m \in 1..(l - 1) : Exists(m)
  /\ LET s == desk[w].staff
         unrostered == desk[w].unrostered
     IN  /\ log' = [log EXCEPT ![l] = [staff |-> s, day |-> Date, open |-> TRUE, on_break |-> FALSE,
                                       unrostered |-> unrostered,
                                       verdict |-> IF unrostered THEN "pending" ELSE "approved",
                                       warned |-> FALSE, hours |-> FALSE]]
         /\ nights' = IF \E m \in Logs : IsOpen(m) /\ log[m].staff = s /\ log[m].day < today
                      THEN nights \cup {s} ELSE nights
         /\ Writes(w, ThenDuty(s, "on_duty"))
  /\ UNCHANGED <<long, duty, today, final, stale>>

SavesOff(w, s, l, row) ==
  Begins(w, [does |-> "saves", staff |-> s, log |-> l, row |-> row, then |-> "off_duty", fresh |-> TRUE])

\* The same face again: a break is left as it is.
FaceClockOut(w, s) ==
  \E l \in Logs : IsFirst(l, s) /\ SavesOff(w, s, l, [log[l] EXCEPT !.open = FALSE])

\* confirm_clock_out_view ends a break.
ConfirmClockOut(w, s) ==
  \E l \in Logs : IsFirst(l, s) /\ SavesOff(w, s, l, [log[l] EXCEPT !.open = FALSE, !.on_break = FALSE])

ToggleBreak(w, s) ==
  \E l \in Logs :
    /\ IsFirst(l, s)
    /\ Begins(w, [does |-> "saves", staff |-> s, log |-> l, fresh |-> TRUE,
                  then |-> IF log[l].on_break THEN "on_duty" ELSE "on_break",
                  row |-> [log[l] EXCEPT !.on_break = ~log[l].on_break]])

\* ClockLog.save computes the hours of a log that has ended.
SaveRow(w) ==
  /\ Is(w, "saves")
  /\ LET row == desk[w].row
     IN  log' = [log EXCEPT ![desk[w].log] = [row EXCEPT !.hours = row.hours \/ ~row.open]]
  /\ stale' = (stale \/ ~desk[w].fresh)
  /\ Writes(w, ThenDuty(desk[w].staff, desk[w].then))
  /\ UNCHANGED <<long, duty, today, final, nights>>

-----------------------------------------------------------------------------
(* Managers *)

Decides(w, l, verdict) ==
  /\ Exists(l) /\ ~IsLocked(l)
  /\ Begins(w, [does |-> "decides", staff |-> log[l].staff, log |-> l, verdict |-> verdict,
                open |-> log[l].open, fresh |-> TRUE])

Approve(w, l) == Decides(w, l, "approved")
Reject(w, l) == Decides(w, l, "rejected")

\* Mutant: a session that is rejected goes on.
SaveVerdictOnly(w) ==
  /\ Is(w, "decides")
  /\ log' = [log EXCEPT ![desk[w].log].verdict = desk[w].verdict]
  /\ Writes(w, IF desk[w].verdict = "rejected" /\ desk[w].open THEN ThenDuty(desk[w].staff, "off_duty") ELSE Idle)
  /\ UNCHANGED <<long, duty, today, final, nights, stale>>
\* A session that was open when it was read and is rejected ends.
SaveVerdict(w) ==
  /\ Is(w, "decides")
  /\ log' = [log EXCEPT ![desk[w].log].verdict = desk[w].verdict]
  /\ Writes(w, IF desk[w].verdict = "rejected" /\ desk[w].open
               THEN [does |-> "closes", staff |-> desk[w].staff, log |-> desk[w].log, fresh |-> TRUE]
               ELSE Idle)
  /\ UNCHANGED <<long, duty, today, final, nights, stale>>

\* force_clock_out; stay_clocked_in writes an acknowledgement nothing reads.
ForceClockOut(w, l) ==
  /\ IsOpen(l)
  /\ Begins(w, [does |-> "closes", staff |-> log[l].staff, log |-> l, fresh |-> TRUE])

\* Saving time_out alone leaves out the hours that ClockLog.save has computed.
SaveTimeOut(w) ==
  /\ Is(w, "closes")
  /\ log' = [log EXCEPT ![desk[w].log].open = FALSE]
  /\ Writes(w, ThenDuty(desk[w].staff, "off_duty"))
  /\ UNCHANGED <<long, duty, today, final, nights, stale>>

\* finalize_period: only an administrator may force what is unresolved.
Finalize(w, p) ==
  /\ final[p] = "open"
  /\ \E force \in BOOLEAN :
       /\ ~force => ~Unresolved(p)
       /\ Begins(w, [does |-> "finalizes", period |-> p, fresh |-> TRUE,
                     as |-> IF ~force /\ IsOver(p) THEN "sound" ELSE "unsound"])

SaveFinal(w) ==
  /\ Is(w, "finalizes")
  /\ final' = [final EXCEPT ![desk[w].period] = desk[w].as]
  /\ Writes(w, Idle)
  /\ UNCHANGED <<log, long, duty, today, nights, stale>>

Unfinalize(p) ==
  /\ final[p] # "open"
  /\ final' = [final EXCEPT ![p] = "open"]
  /\ UNCHANGED <<log, long, duty, today, desk, nights, stale, clean>>

-----------------------------------------------------------------------------
(* Long sessions *)

BecomesLong(l) ==
  /\ IsOpen(l) /\ l \notin long
  /\ long' = long \cup {l}
  /\ UNCHANGED <<log, duty, today, final, desk, nights, stale, clean>>

NextDay ==
  /\ today < LastDay
  /\ today' = today + 1
  /\ UNCHANGED <<log, long, duty, final, desk, nights, stale, clean>>

\* check_open_log_alerts_for_hotel, with enforce_limits.
Alert(l) ==
  /\ IsOpen(l) /\ l \in long /\ log[l].verdict = "approved" /\ ~log[l].warned
  /\ Begins(Alerts, [does |-> "warns", staff |-> log[l].staff, log |-> l, fresh |-> TRUE])

SaveWarning ==
  /\ Is(Alerts, "warns")
  /\ log' = [log EXCEPT ![desk[Alerts].log].warned = TRUE]
  /\ Writes(Alerts, Idle)
  /\ UNCHANGED <<long, duty, today, final, nights, stale>>

\* Mutant: who was warned and whose break has begun is spared.
AutoClockOutUnlessOnBreak(l) ==
  /\ IsOpen(l) /\ l \in long /\ log[l].verdict # "rejected" /\ log[l].warned /\ ~log[l].on_break
  /\ Begins(Closer, [does |-> "closes", staff |-> log[l].staff, log |-> l, fresh |-> TRUE])
\* auto_clock_out_excessive, without --force.
AutoClockOut(l) ==
  /\ IsOpen(l) /\ l \in long /\ log[l].verdict # "rejected" /\ log[l].warned
  /\ Begins(Closer, [does |-> "closes", staff |-> log[l].staff, log |-> l, fresh |-> TRUE])

AlertJob == SaveWarning \/ \E l \in Logs : Alert(l)

CloserJob == SaveTimeOut(Closer) \/ SaveDuty(Closer) \/ \E l \in Logs : AutoClockOut(l)

-----------------------------------------------------------------------------
Init ==
  /\ log = [l \in Logs |-> NoLog]
  /\ long = {}
  /\ duty = [s \in Staff |-> "off_duty"]
  /\ today = 1
  /\ final = [p \in Periods |-> "open"]
  /\ desk = [w \in Actors |-> Idle]
  /\ nights = {}
  /\ stale = FALSE
  /\ clean = TRUE

Next ==
  \/ \E w \in Workers, s \in Staff :
       \/ FaceClockIn(w, s) \/ ConfirmUnrostered(w, s)
       \/ FaceClockOut(w, s) \/ ConfirmClockOut(w, s) \/ ToggleBreak(w, s)
  \/ \E w \in Workers, l \in Logs : CreateLog(w, l) \/ Approve(w, l) \/ Reject(w, l) \/ ForceClockOut(w, l)
  \/ \E w \in Workers : SaveRow(w) \/ SaveVerdict(w) \/ SaveTimeOut(w) \/ SaveFinal(w) \/ SaveDuty(w)
  \/ \E w \in Workers, p \in Periods : Finalize(w, p)
  \/ \E p \in Periods : Unfinalize(p)
  \/ \E w \in Actors : CutOff(w)
  \/ \E l \in Logs : BecomesLong(l)
  \/ NextDay
  \/ AlertJob
  \/ CloserJob

\* A scheduler keeps running the two commands.
Fairness == WF_vars(AlertJob) /\ WF_vars(CloserJob)

Spec == Init /\ [][Next]_vars /\ Fairness

-----------------------------------------------------------------------------
\* Every variable has its type.
TypeOK ==
  /\ log \in [Logs -> Rows \cup {NoLog}]
  /\ long \in SUBSET Logs
  /\ duty \in [Staff -> Duties]
  /\ today \in Days
  /\ final \in [Periods -> {"open", "sound", "unsound"}]
  /\ desk \in [Actors -> Requests \cup {Idle}]
  /\ nights \in SUBSET Staff
  /\ stale \in BOOLEAN
  /\ clean \in BOOLEAN

\* Nobody has two open sessions of one day, as long as requests about them do
\* not race: nothing but the look-up before clocking in, which sees the sessions
\* of the day only, keeps a second one from starting.
OneSessionADay ==
  clean => \A l, m \in Logs :
             IsOpen(l) /\ IsOpen(m) /\ log[l].staff = log[m].staff /\ log[l].day = log[m].day => l = m

\* The duty status tells whether there is an open session and a break in it:
\* logs and staff are saved apart, by clocks, managers and commands.  It need
\* not for those who clocked in past an open session of an earlier day.
DutyFollowsTheLogs ==
  clean => \A s \in Staff :
    s \notin nights /\ (\A w \in Actors : HalfWay(w) => desk[w].staff # s)
      => LET open == {l \in Logs : IsOpen(l) /\ log[l].staff = s}
         IN  /\ duty[s] = "off_duty" <=> open = {}
             /\ duty[s] = "on_break" <=> \E l \in open : log[l].on_break

\* A period that was validated after its last day, and not forced, has no
\* unresolved session, however clocks, decisions and other finalizations race,
\* unless a stale row brings back a session that was decided.
FinalPeriodsAreResolved ==
  ~stale => \A p \in Periods, l \in Logs :
              final[p] = "sound" /\ Exists(l) /\ log[l].day \in DaysOf[p] => log[l].verdict # "pending"

\* The decisions on the sessions of a finalized period stay as they are, unless
\* a decision races the finalization.
FinalVerdictsStay ==
  [][clean' => \A p \in Periods, l \in Logs :
       final[p] # "open" /\ Exists(l) /\ log[l].day \in DaysOf[p] => log'[l].verdict = log[l].verdict]_vars

\* An approved session of too many hours comes to an end, while the commands
\* run: the warning that lets the second one end it may get lost with a stale row.
LongSessionsEnd ==
  \A l \in Logs :
    (IsOpen(l) /\ l \in long /\ log[l].verdict = "approved")
      ~> (stale \/ ~IsOpen(l) \/ log[l].verdict # "approved")

=============================================================================
