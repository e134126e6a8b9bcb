-------------------------- MODULE AttendanceProofs --------------------------
(***************************************************************************)
(* What Attendance promises for any staff, days, logs, periods and number  *)
(* of requests, proved.                                                    *)
(*                                                                         *)
(* No row is locked, so what a request may rely on is what it has read, as *)
(* long as nobody has written about the same staff since: the invariant    *)
(* says so of every request that is still fresh.                           *)
(***************************************************************************)
EXTENDS Attendance, TLAPS

OpenOf(s) == {l \in Logs : IsOpen(l) /\ log[l].staff = s}

\* x is the duty that the logs of s call for.
Agrees(s, x) ==
  /\ x = "off_duty" <=> OpenOf(s) = {}
  /\ x = "on_break" <=> \E l \in OpenOf(s) : log[l].on_break

Resolved(p) ==
  \A l \in Logs : Exists(l) /\ log[l].day \in DaysOf[p] => log[l].verdict # "pending"

-----------------------------------------------------------------------------
(* The invariant *)

\* A log is of a day that has come; only unrostered sessions wait for a verdict.
LogFacts ==
  \A l \in Logs : Exists(l) =>
    log[l].day <= today /\ (log[l].verdict = "pending" => log[l].unrostered)

FinalFacts ==
  \A p \in Periods : final[p] = "sound" => IsOver(p) /\ (~stale => Resolved(p))

\* What request d knows.
Fact(d) ==
  /\ d.does \in {"saves", "decides", "closes", "warns"} =>
       Exists(d.log) /\ log[d.log].staff = d.staff
  /\ d.does = "creates" /\ d.fresh => OpenToday(d.staff) = {}
  /\ d.does = "saves" =>
       /\ d.row.staff = d.staff /\ d.row.day = log[d.log].day
       /\ d.row.verdict = "pending" => d.row.unrostered
       /\ d.fresh =>
            /\ log[d.log].open /\ d.row.verdict = log[d.log].verdict
            /\ \/ ~d.row.open /\ d.then = "off_duty"
               \/ d.row.open /\ d.row.on_break /\ d.then = "on_break"
               \/ d.row.open /\ ~d.row.on_break /\ d.then = "on_duty"
  /\ d.does = "decides" =>
       /\ d.verdict # "pending"
       /\ d.fresh => ~IsLocked(d.log) /\ d.open = log[d.log].open
  /\ d.does = "closes" /\ d.fresh /\ clean => log[d.log].open
  /\ d.does = "finalizes" /\ d.as = "sound" =>
       IsOver(d.period) /\ (~stale => Resolved(d.period))

DeskFacts == \A v \in Actors, d \in Requests : desk[v] = d => Fact(d)

HalfWayAlone ==
  clean => \A v, w \in Actors :
             HalfWay(v) /\ HalfWay(w) /\ desk[v].staff = desk[w].staff => v = w

OneOpen ==
  clean => \A s \in Staff \ nights : \A l, m \in OpenOf(s) : l = m

\* The duty of s, or the one that is about to be saved, follows the logs.
DutyFact(s) ==
  /\ \A v \in Actors, d \in Requests :
       desk[v] = d /\ d.does = "duty" /\ d.staff = s => Agrees(s, d.then)
  /\ (\A v \in Actors : HalfWay(v) => desk[v].staff # s)
       => \A x \in Duties : duty[s] = x => Agrees(s, x)

DutyFacts == clean => \A s \in Staff \ nights : DutyFact(s)

IInv ==
  /\ TypeOK
  /\ LogFacts /\ FinalFacts /\ DeskFacts
  /\ HalfWayAlone /\ OneOpen /\ DutyFacts
  /\ OneSessionADay

-----------------------------------------------------------------------------
(* Requests *)

\* The columns of each kind of request.
LEMMA Kinds ==
  ASSUME NEW d \in Requests
  PROVE  /\ d.does \in {"creates", "saves", "decides", "closes", "warns", "duty", "finalizes"}
         /\ d.fresh \in BOOLEAN /\ d # Idle
         /\ d.does # "finalizes" => d.staff \in Staff
         /\ d.does = "creates" => d.unrostered \in BOOLEAN
         /\ d.does \in {"saves", "decides", "closes", "warns"} => d.log \in Logs
         /\ d.does = "saves" => d.row \in Rows /\ d.then \in Duties
         /\ d.does = "decides" => d.verdict \in Verdicts /\ d.open \in BOOLEAN
         /\ d.does = "duty" => d.then \in Duties
         /\ d.does = "finalizes" => d.period \in Periods /\ d.as \in {"sound", "unsound"}
  BY NoneAreNone DEF Requests

\* A request that is out of date is otherwise the same.
LEMMA OutOfDate ==
  ASSUME NEW d \in Requests, NEW e, e = [d EXCEPT !.fresh = FALSE]
  PROVE  /\ e \in Requests /\ e.does = d.does /\ ~e.fresh
         /\ d.does # "finalizes" => e.staff = d.staff
         /\ d.does \in {"saves", "decides", "closes", "warns"} => e.log = d.log
         /\ d.does = "saves" => e.row = d.row /\ e.then = d.then
         /\ d.does = "decides" => e.verdict = d.verdict
         /\ d.does = "duty" => e.then = d.then
         /\ d.does = "finalizes" => e.period = d.period /\ e.as = d.as
  <1>1. CASE d \in [does : {"creates"}, staff : Staff, unrostered : BOOLEAN, fresh : BOOLEAN]
    BY <1>1 DEF Requests
  <1>2. CASE d \in [does : {"saves"}, staff : Staff, log : Logs, row : Rows, then : Duties, fresh : BOOLEAN]
    BY <1>2 DEF Requests
  <1>3. CASE d \in [does : {"decides"}, staff : Staff, log : Logs, verdict : Verdicts, open : BOOLEAN, fresh : BOOLEAN]
    BY <1>3 DEF Requests
  <1>4. CASE d \in [does : {"closes", "warns"}, staff : Staff, log : Logs, fresh : BOOLEAN]
    BY <1>4 DEF Requests
  <1>5. CASE d \in [does : {"duty"}, staff : Staff, then : Duties, fresh : BOOLEAN]
    BY <1>5 DEF Requests
  <1>6. CASE d \in [does : {"finalizes"}, period : Periods, as : {"sound", "unsound"}, fresh : BOOLEAN]
    BY <1>6 DEF Requests
  <1> QED
    BY <1>1, <1>2, <1>3, <1>4, <1>5, <1>6 DEF Requests

\* A request is a request as long as what it knows stays as it is.
LEMMA SameFact ==
  ASSUME NEW d, Fact(d), UNCHANGED <<log, today, final, stale, clean>>
  PROVE  Fact(d)'
  BY DEF Fact, Exists, OpenToday, IsOpen, IsLocked, IsOver, Resolved

\* Who begins has changed nothing yet.
LEMMA BeginKeeps ==
  ASSUME IInv, NEW w \in Actors, NEW d \in Requests, d.does # "duty", Fact(d), Begins(w, d)
  PROVE  IInv'
  <1> USE DEF IInv
  <1>1. /\ UNCHANGED <<log, long, duty, today, final, nights, stale, clean>>
        /\ desk[w] = Idle /\ desk' = [desk EXCEPT ![w] = d] /\ d # Idle
        /\ desk \in [Actors -> Requests \cup {Idle}]
    BY Kinds DEF Begins, TypeOK
  <1>2. TypeOK'
    BY <1>1 DEF TypeOK
  <1>3. LogFacts' /\ FinalFacts' /\ OneOpen' /\ OneSessionADay'
    BY <1>1 DEF LogFacts, FinalFacts, OneOpen, OneSessionADay, OpenOf, Exists, IsOpen, IsOver, Resolved
  <1>4. DeskFacts'
    <2> SUFFICES ASSUME NEW v \in Actors, NEW e \in Requests, desk'[v] = e PROVE Fact(e)'
      BY DEF DeskFacts
    <2>1. Fact(e)
      BY <1>1 DEF DeskFacts
    <2> QED
      BY <1>1, <2>1, SameFact
  <1>5. \A v \in Actors : HalfWay(v)' => HalfWay(v) /\ desk'[v] = desk[v]
    BY <1>1 DEF HalfWay
  <1>6. HalfWayAlone'
    BY <1>1, <1>5 DEF HalfWayAlone
  <1>7. DutyFacts'
    <2> SUFFICES ASSUME clean, NEW s \in Staff \ nights PROVE DutyFact(s)'
      BY <1>1 DEF DutyFacts
    <2>1. DutyFact(s)
      BY DEF DutyFacts
    <2>2. \A x : Agrees(s, x) => Agrees(s, x)'
      BY <1>1 DEF Agrees, OpenOf, IsOpen, Exists
    <2>3. ASSUME NEW v \in Actors, NEW e \in Requests, desk'[v] = e, e.does = "duty", e.staff = s
          PROVE  Agrees(s, e.then)'
      <3>1. desk[v] = e
        BY <1>1, <2>3
      <3> QED
        BY <2>1, <2>2, <2>3, <3>1 DEF DutyFact
    <2>4. ASSUME \A v \in Actors : HalfWay(v)' => desk'[v].staff # s,
                 NEW x \in Duties, duty'[s] = x
          PROVE  Agrees(s, x)'
      <3>1. \A v \in Actors : HalfWay(v) => desk[v].staff # s
        BY <1>1, <2>4 DEF HalfWay
      <3> QED
        BY <1>1, <2>1, <2>2, <2>4, <3>1 DEF DutyFact
    <2> QED
      BY <2>3, <2>4 DEF DutyFact
  <1> QED
    BY <1>2, <1>3, <1>4, <1>6, <1>7

-----------------------------------------------------------------------------
(* Who writes *)

\* What becomes of the other requests when d of w writes, and of cleanness.
LEMMA AfterWrites ==
  ASSUME TypeOK, NEW w \in Actors, NEW d \in Requests, desk[w] = d,
         NEW next \in Requests \cup {Idle}, Writes(w, next)
  PROVE  /\ desk' \in [Actors -> Requests \cup {Idle}] /\ desk'[w] = next
         /\ \A v \in Actors \ {w} : desk[v] = Idle => desk'[v] = Idle
         /\ \A v \in Actors \ {w}, e \in Requests : desk[v] = e =>
              \/ desk'[v] = e /\ About(e) \cap About(d) = {}
              \/ desk'[v] = [e EXCEPT !.fresh = FALSE]
         /\ clean' \in BOOLEAN
         /\ clean' => clean /\ d.fresh
                      /\ \A v \in Actors \ {w} : HalfWay(v) => desk[v].staff \notin About(d)
  <1>1. desk \in [Actors -> Requests \cup {Idle}] /\ clean \in BOOLEAN /\ d.fresh \in BOOLEAN
    BY Kinds DEF TypeOK
  <1>2. desk' = [v \in Actors |-> IF v = w THEN next ELSE Outdated(v, About(d))]
    BY DEF Writes
  <1>3. ASSUME NEW v \in Actors \ {w}
        PROVE  /\ desk[v] = Idle => desk'[v] = Idle
               /\ \A e \in Requests : desk[v] = e =>
                    \/ desk'[v] = e /\ About(e) \cap About(d) = {}
                    \/ desk'[v] = [e EXCEPT !.fresh = FALSE]
               /\ desk'[v] \in Requests \cup {Idle}
    <2>1. desk'[v] = Outdated(v, About(d))
      BY <1>2
    <2>2. ASSUME NEW e \in Requests, desk[v] = e
          PROVE  \/ desk'[v] = e /\ About(e) \cap About(d) = {}
                 \/ desk'[v] = [e EXCEPT !.fresh = FALSE]
      BY <2>1, <2>2, Kinds DEF Outdated
    <2>3. desk[v] = Idle => desk'[v] = Idle
      BY <2>1 DEF Outdated
    <2>4. \A e \in Requests : desk[v] = e => desk'[v] \in Requests
      BY <2>2, OutOfDate
    <2> QED
      BY <1>1, <2>2, <2>3, <2>4
  <1>4. clean' = (clean /\ d.fresh /\ \A v \in Actors \ {w} : HalfWay(v) => desk[v].staff \notin About(d))
    BY DEF Writes
  <1>5. desk' \in [Actors -> Requests \cup {Idle}] /\ desk'[w] = next
    BY <1>2, <1>3
  <1> QED
    BY <1>1, <1>3, <1>4, <1>5

\* Nobody becomes half way but who writes, and about the same staff.
LEMMA AloneAfterWrites ==
  ASSUME IInv, NEW w \in Actors, NEW d \in Requests, desk[w] = d, d.does # "finalizes",
         NEW next \in Requests \cup {Idle}, Writes(w, next),
         next \in Requests => next.does # "finalizes" /\ next.staff = d.staff
  PROVE  /\ HalfWayAlone'
         /\ \A v \in Actors \ {w}, e \in Requests : desk'[v] = e /\ e.does = "duty" =>
              \E f \in Requests : desk[v] = f /\ f.does = "duty" /\ f.staff = e.staff /\ f.then = e.then
         /\ clean' => \A v \in Actors \ {w}, e \in Requests :
                        desk'[v] = e /\ e.does = "duty" => e.staff # d.staff
         /\ \A v \in Actors \ {w} : HalfWay(v) => HalfWay(v)' /\ desk'[v].staff = desk[v].staff
  <1> DEFINE A == desk' \in [Actors -> Requests \cup {Idle}] /\ desk'[w] = next
             B == \A v \in Actors \ {w} : desk[v] = Idle => desk'[v] = Idle
             C == \A v \in Actors \ {w}, e \in Requests : desk[v] = e =>
                    \/ desk'[v] = e /\ About(e) \cap About(d) = {}
                    \/ desk'[v] = [e EXCEPT !.fresh = FALSE]
             D == clean' => clean /\ d.fresh
                    /\ \A v \in Actors \ {w} : HalfWay(v) => desk[v].staff \notin About(d)
  <1>1. A /\ B /\ C /\ D
    BY AfterWrites DEF IInv
  <1>t. desk \in [Actors -> Requests \cup {Idle}] /\ About(d) = {d.staff}
    BY DEF IInv, TypeOK, About
  <1>2. ASSUME NEW v \in Actors \ {w}, NEW e \in Requests, desk'[v] = e, e.does = "duty"
        PROVE  \E f \in Requests : desk[v] = f /\ f.does = "duty" /\ f.staff = e.staff /\ f.then = e.then
    <2>1. PICK f \in Requests : desk[v] = f
      BY <1>1, <1>t, <1>2, NoneAreNone
    <2>2. e = f \/ e = [f EXCEPT !.fresh = FALSE]
      BY <1>1, <1>2, <2>1
    <2>3. f.does = "duty" /\ f.staff = e.staff /\ f.then = e.then
      BY <1>2, <2>2, OutOfDate
    <2> QED
      BY <2>1, <2>3
  <1>3. ASSUME NEW v \in Actors \ {w}, HalfWay(v)
        PROVE  HalfWay(v)' /\ desk'[v].staff = desk[v].staff
    <2>1. PICK f \in Requests : desk[v] = f
      BY <1>t, <1>3 DEF HalfWay
    <2>2. f.does = "duty"
      BY <1>3, <2>1 DEF HalfWay
    <2>3. PICK e \in Requests : desk'[v] = e /\ (e = f \/ e = [f EXCEPT !.fresh = FALSE])
      BY <1>1, <2>1, OutOfDate
    <2>4. e.does = "duty" /\ e.staff = f.staff
      BY <2>2, <2>3, OutOfDate
    <2> QED
      BY <2>1, <2>3, <2>4, NoneAreNone DEF HalfWay
  <1>4. ASSUME clean', NEW v \in Actors \ {w}, NEW e \in Requests, desk'[v] = e, e.does = "duty"
        PROVE  e.staff # d.staff
    <2>1. PICK f \in Requests : desk[v] = f /\ f.does = "duty" /\ f.staff = e.staff
      BY <1>2, <1>4
    <2>2. HalfWay(v)
      BY <2>1, NoneAreNone DEF HalfWay
    <2> QED
      BY <1>1, <1>t, <1>4, <2>1, <2>2
  <1>5. HalfWayAlone'
    <2> SUFFICES ASSUME clean', NEW u \in Actors, NEW v \in Actors,
                        HalfWay(u)', HalfWay(v)', desk'[u].staff = desk'[v].staff
                 PROVE  u = v
      BY DEF HalfWayAlone
    <2>1. PICK e \in Requests, f \in Requests :
            desk'[u] = e /\ desk'[v] = f /\ e.does = "duty" /\ f.does = "duty" /\ e.staff = f.staff
      BY <1>1 DEF HalfWay
    <2>2. CASE u = w \/ v = w
      BY <1>1, <1>4, <2>1, <2>2
    <2>3. CASE u # w /\ v # w
      <3>1. HalfWay(u) /\ HalfWay(v) /\ desk[u].staff = desk[v].staff
        BY <1>2, <2>1, <2>3, NoneAreNone DEF HalfWay
      <3> QED
        BY <1>1, <3>1 DEF IInv, HalfWayAlone
    <2> QED
      BY <2>2, <2>3
  <1> HIDE DEF A, B, C, D
  <1> QED
    BY <1>2, <1>3, <1>4, <1>5

\* What everybody else knows, and what is known of logs and periods, survives
\* that a log of the same staff is created or saved.
LEMMA OthersKeep ==
  ASSUME IInv, NEW w \in Actors, NEW d \in Requests, desk[w] = d, d.does # "finalizes",
         NEW next \in Requests \cup {Idle}, Writes(w, next),
         NEW l \in Logs, NEW row \in Rows, log' = [log EXCEPT ![l] = row],
         row.staff = d.staff, row.verdict = "pending" => row.unrostered,
         Exists(l) => log[l].staff = d.staff /\ row.day = log[l].day,
         ~Exists(l) => row.day = today,
         ~stale' => ~stale /\ (Exists(l) /\ row.verdict = "pending" => log[l].verdict = "pending"),
         UNCHANGED <<today, final>>
  PROVE  /\ log' \in [Logs -> Rows \cup {NoLog}]
         /\ LogFacts' /\ FinalFacts'
         /\ \A v \in Actors \ {w}, e \in Requests : desk'[v] = e => Fact(e)'
  <1>1. /\ log' \in [Logs -> Rows \cup {NoLog}] /\ log'[l] = row /\ row # NoLog
        /\ \A m \in Logs \ {l} : log'[m] = log[m]
        /\ today \in Nat /\ LastDay \in Nat
    BY NoneAreNone, BoundsAreNumbers DEF IInv, TypeOK, Days
  <1>2. LogFacts'
    <2>1. row.day <= today
      BY <1>1 DEF IInv, LogFacts, Exists, Rows, Days
    <2> QED
      BY <1>1, <2>1 DEF IInv, LogFacts, Exists
  <1>3. ASSUME NEW p \in Periods, IsOver(p), ~stale => Resolved(p)
        PROVE  IsOver(p)' /\ (~stale' => Resolved(p)')
    <2>1. today \notin DaysOf[p]
      BY <1>1, <1>3 DEF IsOver
    <2> QED
      BY <1>1, <1>3, <2>1 DEF IsOver, Resolved, Exists
  <1>4. FinalFacts'
    BY <1>3 DEF IInv, FinalFacts
  <1>5. ASSUME NEW v \in Actors \ {w}, NEW e \in Requests, desk'[v] = e
        PROVE  Fact(e)'
    <2>1. PICK f \in Requests :
            /\ desk[v] = f
            /\ (e = f /\ About(f) \cap About(d) = {}) \/ e = [f EXCEPT !.fresh = FALSE]
      <3>1. desk[v] \in Requests \cup {Idle}
        BY DEF IInv, TypeOK
      <3>2. desk[v] # Idle
        BY <1>5, AfterWrites, NoneAreNone DEF IInv
      <3>3. PICK f \in Requests : desk[v] = f
        BY <3>1, <3>2
      <3>4. (desk'[v] = f /\ About(f) \cap About(d) = {}) \/ desk'[v] = [f EXCEPT !.fresh = FALSE]
        BY <3>3, AfterWrites DEF IInv
      <3> QED
        BY <1>5, <3>3, <3>4
    <2>2. Fact(f)
      BY <2>1 DEF IInv, DeskFacts
    <2>3. /\ e.does = f.does
          /\ e.does # "finalizes" => e.staff = f.staff
          /\ e.does \in {"saves", "decides", "closes", "warns"} => e.log = f.log /\ e.log \in Logs
          /\ e.does = "saves" => e.row = f.row
          /\ e.does = "decides" => e.verdict = f.verdict
          /\ e.does = "finalizes" => e.period = f.period /\ e.as = f.as /\ e.period \in Periods
      BY <2>1, OutOfDate, Kinds
    <2>4. /\ e.does \in {"saves", "decides", "closes", "warns"} =>
               Exists(e.log)' /\ log'[e.log].staff = e.staff
          /\ e.does = "saves" => log'[e.log].day = log[e.log].day
      BY <1>1, <2>2, <2>3 DEF Fact, Exists
    <2>5. e.does = "finalizes" /\ e.as = "sound" => IsOver(e.period)' /\ (~stale' => Resolved(e.period)')
      BY <1>3, <2>2, <2>3 DEF Fact
    <2>6. CASE ~e.fresh
      BY <2>2, <2>3, <2>4, <2>5, <2>6 DEF Fact
    <2>7. CASE e.fresh
      <3>1. e = f /\ About(e) \cap About(d) = {}
        BY <2>1, <2>7, OutOfDate
      <3>2. e.does # "finalizes" /\ e.staff # d.staff
        BY <3>1, Kinds DEF About
      <3>3. OpenToday(e.staff)' = OpenToday(e.staff)
        BY <1>1, <3>2 DEF OpenToday, IsOpen, Exists
      <3>4. e.does \in {"saves", "decides", "closes", "warns"} => e.log # l
        BY <2>2, <3>1, <3>2 DEF Fact
      <3>5. e.does \in {"saves", "decides", "closes", "warns"} =>
              log'[e.log] = log[e.log] /\ IsLocked(e.log)' = IsLocked(e.log)
        BY <1>1, <2>3, <3>4 DEF IsLocked
      <3>6. clean' => clean
        BY AfterWrites DEF IInv
      <3>7. e.does # "closes" => Fact(e)'
        BY <2>2, <2>4, <3>1, <3>2, <3>3, <3>5 DEF Fact
      <3>8. e.does = "closes" => Fact(e)'
        BY <2>2, <2>4, <3>1, <3>5, <3>6 DEF Fact
      <3> QED
        BY <3>7, <3>8
    <2> QED
      BY <2>1, <2>6, <2>7, Kinds
  <1> QED
    BY <1>1, <1>2, <1>4, <1>5

\* The duties of other staff are not touched by what is written about d.staff.
LEMMA DutyElsewhere ==
  ASSUME IInv, NEW w \in Actors, NEW d \in Requests, desk[w] = d, d.does # "finalizes",
         NEW next \in Requests \cup {Idle}, Writes(w, next), clean',
         next \in Requests => next.does # "finalizes" /\ next.staff = d.staff,
         NEW s \in Staff \ nights, s # d.staff, OpenOf(s)' = OpenOf(s),
         \A l \in OpenOf(s) : log'[l] = log[l],
         duty'[s] = duty[s]
  PROVE  DutyFact(s)'
  <1>1. DutyFact(s)
    BY AfterWrites DEF IInv, DutyFacts
  <1>2. \A x : Agrees(s, x) => Agrees(s, x)'
    BY DEF Agrees
  <1>3. ASSUME NEW v \in Actors, NEW e \in Requests, desk'[v] = e, e.does = "duty", e.staff = s
        PROVE  Agrees(s, e.then)'
    <2>1. v # w
      BY <1>3, AfterWrites, NoneAreNone DEF IInv
    <2>2. PICK f \in Requests : desk[v] = f /\ f.does = "duty" /\ f.staff = e.staff /\ f.then = e.then
      BY <1>3, <2>1, AloneAfterWrites
    <2> QED
      BY <1>1, <1>2, <1>3, <2>2 DEF DutyFact
  <1>4. ASSUME \A v \in Actors : HalfWay(v)' => desk'[v].staff # s,
               NEW x \in Duties, duty'[s] = x
        PROVE  Agrees(s, x)'
    <2>1. ASSUME NEW v \in Actors, HalfWay(v) PROVE desk[v].staff # s
      <3>1. CASE v = w
        BY <3>1
      <3>2. CASE v # w
        BY <1>4, <2>1, <3>2, AloneAfterWrites
      <3> QED
        BY <3>1, <3>2
    <2> QED
      BY <1>1, <1>2, <1>4, <2>1 DEF DutyFact
  <1> QED
    BY <1>3, <1>4 DEF DutyFact

\* When a log of d.staff is saved and nothing is half way about them, their
\* duty follows if it did or is about to be saved.
LEMMA DutyHere ==
  ASSUME IInv, NEW w \in Actors, NEW d \in Requests, desk[w] = d,
         d.does \notin {"finalizes", "duty"},
         NEW next \in Requests \cup {Idle}, Writes(w, next), clean',
         next \in Requests => next.does # "finalizes" /\ next.staff = d.staff,
         UNCHANGED duty, d.staff \notin nights,
         \/ next \in Requests /\ next.does = "duty" /\ Agrees(d.staff, next.then)'
         \/ (next \in Requests => next.does # "duty")
            /\ OpenOf(d.staff)' = OpenOf(d.staff)
            /\ \A l \in OpenOf(d.staff) : log'[l].on_break = log[l].on_break
  PROVE  DutyFact(d.staff)'
  <1>s. PICK s \in Staff : s = d.staff
    BY Kinds
  <1>1. DutyFact(s)
    BY <1>s, AfterWrites DEF IInv, DutyFacts
  <1>2. desk'[w] = next
    BY AfterWrites DEF IInv
  <1>3. \A v \in Actors \ {w}, e \in Requests : desk'[v] = e /\ e.does = "duty" => e.staff # s
    BY <1>s, AloneAfterWrites
  <1>4. CASE next \in Requests /\ next.does = "duty" /\ Agrees(d.staff, next.then)'
    <2>1. HalfWay(w)' /\ desk'[w].staff = s
      BY <1>2, <1>4, <1>s, NoneAreNone DEF HalfWay
    <2>2. PICK x : x = next.then
      OBVIOUS
    <2>3. Agrees(s, x)'
      BY <1>4, <1>s, <2>2
    <2>4. ASSUME NEW v \in Actors, NEW e \in Requests, desk'[v] = e, e.does = "duty", e.staff = s
          PROVE  Agrees(s, e.then)'
      BY <1>2, <1>3, <2>2, <2>3, <2>4
    <2>5. DutyFact(s)'
      BY <2>1, <2>4 DEF DutyFact
    <2> QED
      BY <1>s, <2>5
  <1>5. CASE /\ next \in Requests => next.does # "duty"
             /\ OpenOf(d.staff)' = OpenOf(d.staff)
             /\ \A l \in OpenOf(d.staff) : log'[l].on_break = log[l].on_break
    <2>1. \A x : Agrees(s, x) => Agrees(s, x)'
      BY <1>5, <1>s DEF Agrees
    <2>2. \A v \in Actors, e \in Requests : desk'[v] = e /\ e.does = "duty" => e.staff # s
      BY <1>2, <1>3, <1>5
    <2>3. ASSUME NEW v \in Actors, HalfWay(v) PROVE desk[v].staff # s
      <3>1. desk[v] \in Requests \cup {Idle} /\ desk[v] # Idle
        BY <2>3 DEF IInv, TypeOK, HalfWay
      <3>2. CASE v = w
        BY <2>3, <3>2 DEF HalfWay
      <3>3. CASE v # w
        <4>1. About(d) = {d.staff}
          BY DEF About
        <4> QED
          BY <1>s, <2>3, <3>3, <4>1, AfterWrites DEF IInv
      <3> QED
        BY <3>2, <3>3
    <2>4. \A x \in Duties : duty[s] = x => Agrees(s, x)
      BY <1>1, <2>3 DEF DutyFact
    <2>5. DutyFact(s)'
      BY <2>1, <2>2, <2>4 DEF DutyFact
    <2> QED
      BY <1>s, <2>5
  <1> QED
    BY <1>4, <1>5

\* Sessions stay apart when an existing log is saved and none is opened again.
LEMMA SessionsStayApart ==
  ASSUME IInv, NEW l \in Logs, NEW row \in Rows, Exists(l), log' = [log EXCEPT ![l] = row],
         row.staff = log[l].staff, row.day = log[l].day,
         clean' => clean /\ (row.open => log[l].open), UNCHANGED nights
  PROVE  OneSessionADay' /\ OneOpen'
  <1>1. /\ log'[l] = row /\ row # NoLog /\ \A m \in Logs \ {l} : log'[m] = log[m]
    BY NoneAreNone DEF IInv, TypeOK
  <1>2. clean' => \A m \in Logs : IsOpen(m)' => IsOpen(m) /\ log'[m].staff = log[m].staff
                                               /\ log'[m].day = log[m].day
    BY <1>1 DEF IsOpen, Exists
  <1>3. OneSessionADay'
    BY <1>2 DEF IInv, OneSessionADay
  <1>4. OneOpen'
    BY <1>2 DEF IInv, OneOpen, OpenOf
  <1> QED
    BY <1>3, <1>4

\* What it takes for a step that saves or creates a log to keep the invariant.
LEMMA LogStepKeeps ==
  ASSUME IInv, NEW w \in Actors, NEW d \in Requests, desk[w] = d,
         d.does \notin {"finalizes", "duty"},
         NEW next \in Requests \cup {Idle}, Writes(w, next),
         next \in Requests => next.does # "finalizes" /\ next.staff = d.staff /\ Fact(next)',
         NEW l \in Logs, NEW row \in Rows, log' = [log EXCEPT ![l] = row],
         row.staff = d.staff, row.verdict = "pending" => row.unrostered,
         Exists(l) => log[l].staff = d.staff /\ row.day = log[l].day,
         ~Exists(l) => row.day = today,
         stale' \in BOOLEAN,
         ~stale' => ~stale /\ (Exists(l) /\ row.verdict = "pending" => log[l].verdict = "pending"),
         UNCHANGED <<long, duty, today, final>>,
         nights \subseteq nights', nights' \subseteq nights \cup {d.staff},
         OneSessionADay', OneOpen',
         clean' /\ d.staff \notin nights' =>
           \/ next \in Requests /\ next.does = "duty" /\ Agrees(d.staff, next.then)'
           \/ (next \in Requests => next.does # "duty")
              /\ OpenOf(d.staff)' = OpenOf(d.staff)
              /\ \A m \in OpenOf(d.staff) : log'[m].on_break = log[m].on_break
  PROVE  IInv'
  <1>1. /\ log' \in [Logs -> Rows \cup {NoLog}] /\ LogFacts' /\ FinalFacts'
        /\ \A v \in Actors \ {w}, e \in Requests : desk'[v] = e => Fact(e)'
    BY OthersKeep
  <1>2. desk' \in [Actors -> Requests \cup {Idle}] /\ desk'[w] = next /\ clean' \in BOOLEAN
    BY AfterWrites DEF IInv
  <1>3. nights' \in SUBSET Staff
    BY Kinds DEF IInv, TypeOK
  <1>4. TypeOK'
    BY <1>1, <1>2, <1>3 DEF IInv, TypeOK
  <1>5. DeskFacts'
    BY <1>1, <1>2 DEF DeskFacts
  <1>6. HalfWayAlone'
    BY AloneAfterWrites
  <1>7. DutyFacts'
    <2> SUFFICES ASSUME clean', NEW s \in Staff \ nights' PROVE DutyFact(s)'
      BY DEF DutyFacts
    <2>1. CASE s = d.staff
      BY <2>1, DutyHere
    <2>2. CASE s # d.staff
      <3>1. /\ log'[l] = row /\ row # NoLog /\ \A m \in Logs \ {l} : log'[m] = log[m]
        BY NoneAreNone DEF IInv, TypeOK
      <3>2. OpenOf(s)' = OpenOf(s) /\ l \notin OpenOf(s)
        BY <2>2, <3>1 DEF OpenOf, IsOpen, Exists
      <3>3. \A m \in OpenOf(s) : log'[m] = log[m]
        BY <3>1, <3>2 DEF OpenOf
      <3> QED
        BY <2>2, <3>2, <3>3, DutyElsewhere
    <2> QED
      BY <2>1, <2>2
  <1> QED
    BY <1>1, <1>4, <1>5, <1>6, <1>7 DEF IInv

-----------------------------------------------------------------------------
(* The steps *)

\* The log that a request works on.
LEMMA LogOfRequest ==
  ASSUME IInv, NEW w \in Actors, NEW d \in Requests, desk[w] = d,
         d.does \in {"saves", "decides", "closes", "warns"}
  PROVE  /\ Fact(d) /\ d.staff \in Staff /\ d.log \in Logs
         /\ Exists(d.log) /\ log[d.log] \in Rows /\ log[d.log].staff = d.staff
         /\ log[d.log].verdict = "pending" => log[d.log].unrostered
  <1>1. Fact(d)
    BY DEF IInv, DeskFacts
  <1>2. d.log \in Logs /\ d.staff \in Staff
    BY Kinds
  <1>3. Exists(d.log) /\ log[d.log].staff = d.staff
    BY <1>1 DEF Fact
  <1>4. log[d.log] \in Rows
    BY <1>2, <1>3 DEF IInv, TypeOK, Exists
  <1> QED
    BY <1>1, <1>2, <1>3, <1>4 DEF IInv, LogFacts

\* A request to save a duty knows nothing.
LEMMA ThenDutyIsARequest ==
  ASSUME NEW s \in Staff, NEW to \in Duties, NEW next, next = ThenDuty(s, to)
  PROVE  /\ next \in Requests /\ next.does = "duty" /\ next.staff = s /\ next.then = to
         /\ Fact(next)'
  <1>1. next \in Requests /\ next.does = "duty" /\ next.staff = s /\ next.then = to
    BY DEF ThenDuty, Requests
  <1> QED
    BY <1>1 DEF Fact

\* No session of the day was open, and none of an earlier day but at night.
LEMMA CreateLogKeeps ==
  ASSUME IInv, NEW w \in Actors, NEW l \in Logs, CreateLog(w, l)
  PROVE  IInv'
  <1>1. PICK d \in Requests : desk[w] = d /\ d.does = "creates"
    BY DEF CreateLog, Is, IInv, TypeOK
  <1>2. d.staff \in Staff /\ d.unrostered \in BOOLEAN /\ Fact(d)
    BY <1>1, Kinds DEF IInv, DeskFacts
  <1> DEFINE new == [staff |-> d.staff, day |-> Date, open |-> TRUE, on_break |-> FALSE,
                     unrostered |-> d.unrostered,
                     verdict |-> IF d.unrostered THEN "pending" ELSE "approved",
                     warned |-> FALSE, hours |-> FALSE]
  <1>3. new \in Rows
    BY <1>2 DEF Rows, Date, Verdicts, IInv, TypeOK
  <1>4. PICK row \in Rows : row = new
    BY <1>3
  <1>5. /\ row.staff = d.staff /\ row.day = today /\ row.open /\ ~row.on_break
        /\ row.verdict = "pending" => row.unrostered
    BY <1>4 DEF Date
  <1>6. log' = [log EXCEPT ![l] = row]
    BY <1>1, <1>4 DEF CreateLog
  <1> HIDE DEF new
  <1>7. PICK next \in Requests :
          /\ next = ThenDuty(d.staff, "on_duty")
          /\ next.does = "duty" /\ next.staff = d.staff /\ next.then = "on_duty" /\ Fact(next)'
    BY <1>2, ThenDutyIsARequest DEF Duties
  <1>8. Writes(w, next)
    BY <1>1, <1>7 DEF CreateLog
  <1>9. /\ ~Exists(l) /\ UNCHANGED <<long, duty, today, final, stale>>
        /\ nights \subseteq nights' /\ nights' \subseteq nights \cup {d.staff}
        /\ d.staff \notin nights' =>
             \A m \in Logs : IsOpen(m) /\ log[m].staff = d.staff => ~(log[m].day < today)
    BY <1>1 DEF CreateLog
  <1>10. clean' => clean /\ OpenToday(d.staff) = {}
    <2>1. clean' => clean /\ d.fresh
      BY <1>1, <1>8, AfterWrites DEF IInv
    <2> QED
      BY <1>1, <1>2, <2>1 DEF Fact
  <1>11. /\ log'[l] = row /\ row # NoLog /\ \A m \in Logs \ {l} : log'[m] = log[m]
    BY <1>6, NoneAreNone DEF IInv, TypeOK
  <1>12. \A m \in Logs : /\ m # l /\ IsOpen(m)' => IsOpen(m)
                         /\ m = l \/ (Exists(m)' <=> Exists(m))
    BY <1>11 DEF IsOpen, Exists
  <1>13. OneSessionADay'
    <2> SUFFICES ASSUME clean', NEW m \in Logs, NEW n \in Logs, IsOpen(m)', IsOpen(n)',
                        log'[m].staff = log'[n].staff, log'[m].day = log'[n].day
                 PROVE  m = n
      BY DEF OneSessionADay
    <2>1. \A k \in Logs : k # l /\ IsOpen(k)' => ~(log[k].staff = d.staff /\ log[k].day = today)
      BY <1>10, <1>12 DEF OpenToday
    <2>2. CASE m = l \/ n = l
      BY <1>5, <1>11, <2>1, <2>2
    <2>3. CASE m # l /\ n # l
      BY <1>10, <1>11, <1>12, <2>3 DEF IInv, OneSessionADay
    <2> QED
      BY <2>2, <2>3
  <1>14. clean' /\ d.staff \notin nights' => OpenOf(d.staff) = {}
    <2> SUFFICES ASSUME clean', d.staff \notin nights', NEW m \in Logs, IsOpen(m), log[m].staff = d.staff
                 PROVE  FALSE
      BY DEF OpenOf
    <2>1. log[m].day <= today /\ ~(log[m].day < today)
      BY <1>9 DEF IInv, LogFacts, IsOpen
    <2>2. log[m].day \in Nat /\ today \in Nat
      BY BoundsAreNumbers DEF IInv, TypeOK, IsOpen, Exists, Rows, Days
    <2>3. log[m].day = today
      BY <2>1, <2>2
    <2> QED
      BY <1>10, <2>3 DEF OpenToday
  <1>15. clean' /\ d.staff \notin nights' => OpenOf(d.staff)' = {l}
    BY <1>5, <1>11, <1>12, <1>14 DEF OpenOf, IsOpen, Exists
  <1>16. OneOpen'
    <2> SUFFICES ASSUME clean', NEW s \in Staff \ nights' PROVE \A m, n \in OpenOf(s)' : m = n
      BY DEF OneOpen
    <2>1. CASE s = d.staff
      BY <1>15, <2>1
    <2>2. CASE s # d.staff
      <3>1. OpenOf(s)' \subseteq OpenOf(s)
        BY <1>5, <1>11, <1>12, <2>2 DEF OpenOf
      <3>2. clean /\ s \notin nights
        BY <1>9, <1>10
      <3> QED
        BY <3>1, <3>2 DEF IInv, OneOpen
    <2> QED
      BY <2>1, <2>2
  <1>17. clean' /\ d.staff \notin nights' => Agrees(d.staff, next.then)'
    <2>1. clean' /\ d.staff \notin nights' => ~\E m \in OpenOf(d.staff)' : log'[m].on_break
      BY <1>5, <1>11, <1>15
    <2> QED
      BY <1>7, <1>15, <2>1 DEF Agrees
  <1>18. stale' \in BOOLEAN /\ (~stale' => ~stale)
    BY <1>9 DEF IInv, TypeOK
  <1> QED
    BY <1>1, <1>5, <1>6, <1>7, <1>8, <1>9, <1>13, <1>16, <1>17, <1>18, LogStepKeeps

\* A row that is still fresh was the only open session, and is saved with the
\* duty that goes with it.
LEMMA SaveRowKeeps ==
  ASSUME IInv, NEW w \in Actors, SaveRow(w)
  PROVE  IInv'
  <1>1. PICK d \in Requests : desk[w] = d /\ d.does = "saves"
    BY DEF SaveRow, Is, IInv, TypeOK
  <1>2. /\ Fact(d) /\ d.staff \in Staff /\ d.log \in Logs
        /\ Exists(d.log) /\ log[d.log] \in Rows /\ log[d.log].staff = d.staff
    BY <1>1, LogOfRequest
  <1>3. d.row \in Rows /\ d.then \in Duties /\ d.fresh \in BOOLEAN
    BY <1>1, Kinds
  <1>4. PICK l \in Logs : l = d.log
    BY <1>2
  <1>5. PICK row \in Rows : row = [d.row EXCEPT !.hours = d.row.hours \/ ~d.row.open]
    BY <1>3 DEF Rows
  <1>6. /\ row.staff = d.row.staff /\ row.day = d.row.day /\ row.open = d.row.open
        /\ row.on_break = d.row.on_break /\ row.unrostered = d.row.unrostered
        /\ row.verdict = d.row.verdict
    BY <1>3, <1>5 DEF Rows
  <1>7. log' = [log EXCEPT ![l] = row]
    BY <1>1, <1>4, <1>5 DEF SaveRow
  <1>8. /\ row.staff = d.staff /\ row.day = log[l].day
        /\ row.verdict = "pending" => row.unrostered
    BY <1>1, <1>2, <1>4, <1>6 DEF Fact
  <1>9. d.fresh => /\ log[l].open /\ row.verdict = log[l].verdict
                   /\ \/ ~row.open /\ d.then = "off_duty"
                      \/ row.open /\ row.on_break /\ d.then = "on_break"
                      \/ row.open /\ ~row.on_break /\ d.then = "on_duty"
    BY <1>1, <1>2, <1>4, <1>6 DEF Fact
  <1>10. PICK next \in Requests :
           /\ next = ThenDuty(d.staff, d.then)
           /\ next.does = "duty" /\ next.staff = d.staff /\ next.then = d.then /\ Fact(next)'
    BY <1>2, <1>3, ThenDutyIsARequest
  <1>11. Writes(w, next)
    BY <1>1, <1>10 DEF SaveRow
  <1>12. clean' => clean /\ d.fresh
    BY <1>1, <1>11, AfterWrites DEF IInv
  <1>13. stale' = (stale \/ ~d.fresh) /\ UNCHANGED <<long, duty, today, final, nights>>
    BY <1>1 DEF SaveRow
  <1>14. OneSessionADay' /\ OneOpen'
    BY <1>2, <1>4, <1>7, <1>8, <1>9, <1>12, <1>13, SessionsStayApart
  <1>15. clean' /\ d.staff \notin nights' => Agrees(d.staff, d.then)'
    <2> SUFFICES ASSUME clean', d.staff \notin nights PROVE Agrees(d.staff, d.then)'
      BY <1>13
    <2>1. l \in OpenOf(d.staff)
      BY <1>2, <1>4, <1>9, <1>12 DEF OpenOf, IsOpen
    <2>2. OpenOf(d.staff) = {l}
      BY <1>2, <1>12, <2>1 DEF IInv, OneOpen
    <2>3. log'[l] = row /\ row # NoLog /\ \A m \in Logs \ {l} : log'[m] = log[m]
      BY <1>7, NoneAreNone DEF IInv, TypeOK
    <2>4. OpenOf(d.staff)' = IF row.open THEN {l} ELSE {}
      BY <1>8, <2>2, <2>3 DEF OpenOf, IsOpen, Exists
    <2>5. (\E m \in OpenOf(d.staff)' : log'[m].on_break) <=> row.open /\ row.on_break
      BY <2>3, <2>4
    <2> QED
      BY <1>9, <1>12, <2>4, <2>5 DEF Agrees
  <1>16. stale' \in BOOLEAN /\ (~stale' => ~stale /\ d.fresh)
    BY <1>3, <1>13 DEF IInv, TypeOK
  <1>17. /\ Exists(l) /\ log[l].staff = d.staff
         /\ ~stale' => ~stale /\ row.verdict = log[l].verdict
         /\ clean' /\ d.staff \notin nights' => Agrees(d.staff, next.then)'
    BY <1>2, <1>4, <1>9, <1>10, <1>15, <1>16
  <1>18. d.does \notin {"finalizes", "duty"} /\ next.does \notin {"finalizes"}
         /\ nights \subseteq nights' /\ nights' \subseteq nights \cup {d.staff}
    BY <1>1, <1>10, <1>13
  <1> QED
    BY <1>1, <1>7, <1>8, <1>10, <1>11, <1>13, <1>14, <1>16, <1>17, <1>18, LogStepKeeps

\* A verdict opens no session; who rejects one that is open ends it next.
LEMMA SaveVerdictKeeps ==
  ASSUME IInv, NEW w \in Actors, SaveVerdict(w)
  PROVE  IInv'
  <1>1. PICK d \in Requests : desk[w] = d /\ d.does = "decides"
    BY DEF SaveVerdict, Is, IInv, TypeOK
  <1>2. /\ Fact(d) /\ d.staff \in Staff /\ d.log \in Logs
        /\ Exists(d.log) /\ log[d.log] \in Rows /\ log[d.log].staff = d.staff
    BY <1>1, LogOfRequest
  <1>3. d.verdict \in Verdicts /\ d.verdict # "pending" /\ d.fresh \in BOOLEAN
        /\ (d.fresh => d.open = log[d.log].open)
    BY <1>1, <1>2, Kinds DEF Fact
  <1>4. PICK l \in Logs : l = d.log
    BY <1>2
  <1>5. PICK row \in Rows : row = [log[l] EXCEPT !.verdict = d.verdict]
    BY <1>2, <1>3, <1>4 DEF Rows
  <1>6. /\ row.staff = d.staff /\ row.day = log[l].day /\ row.open = log[l].open
        /\ row.on_break = log[l].on_break /\ row.verdict = d.verdict
    BY <1>2, <1>4, <1>5 DEF Rows
  <1>7. log' = [log EXCEPT ![l] = row]
    BY <1>1, <1>4, <1>5 DEF SaveVerdict
  <1>8. log'[l] = row /\ row # NoLog /\ \A m \in Logs \ {l} : log'[m] = log[m]
    BY <1>7, NoneAreNone DEF IInv, TypeOK
  <1> DEFINE closing == [does |-> "closes", staff |-> d.staff, log |-> d.log, fresh |-> TRUE]
  <1>9. closing \in Requests /\ closing.does = "closes" /\ closing.staff = d.staff /\ closing.log = l
    BY <1>2, <1>4 DEF Requests
  <1>10. PICK next \in Requests \cup {Idle} :
           next = IF d.verdict = "rejected" /\ d.open THEN closing ELSE Idle
    BY <1>9
  <1>11. Writes(w, next)
    BY <1>1, <1>10 DEF SaveVerdict
  <1>12. clean' => clean /\ d.fresh
    BY <1>1, <1>11, AfterWrites DEF IInv
  <1>13. UNCHANGED <<long, duty, today, final, nights, stale>>
    BY DEF SaveVerdict
  <1>14. next \in Requests => next = closing /\ d.open
    BY <1>10, NoneAreNone
  <1> HIDE DEF closing
  <1>15. next \in Requests => /\ next.does = "closes" /\ next.staff = d.staff /\ next.log = l
                              /\ Fact(next)'
    <2> SUFFICES ASSUME next \in Requests
                 PROVE  /\ next.does = "closes" /\ next.staff = d.staff /\ next.log = l
                        /\ Fact(next)'
      OBVIOUS
    <2>1. next.does = "closes" /\ next.staff = d.staff /\ next.log = l
      BY <1>9, <1>14
    <2>2. clean' => log'[l].open
      BY <1>3, <1>4, <1>6, <1>8, <1>12, <1>14
    <2> QED
      BY <1>6, <1>8, <2>1, <2>2 DEF Fact, Exists
  <1>16. OneSessionADay' /\ OneOpen'
    BY <1>2, <1>4, <1>6, <1>7, <1>12, <1>13, SessionsStayApart
  <1>17. OpenOf(d.staff)' = OpenOf(d.staff)
         /\ \A m \in OpenOf(d.staff) : log'[m].on_break = log[m].on_break
    BY <1>2, <1>4, <1>6, <1>8 DEF OpenOf, IsOpen, Exists
  <1>18. /\ d.does \notin {"finalizes", "duty"} /\ row.verdict # "pending"
         /\ next \in Requests => next.does # "duty" /\ next.does # "finalizes"
         /\ nights \subseteq nights' /\ nights' \subseteq nights \cup {d.staff}
         /\ stale' \in BOOLEAN /\ (~stale' => ~stale)
         /\ Exists(l) /\ log[l].staff = d.staff
    BY <1>1, <1>2, <1>3, <1>4, <1>6, <1>13, <1>15 DEF IInv, TypeOK
  <1> QED
    BY <1>1, <1>6, <1>7, <1>11, <1>13, <1>15, <1>16, <1>17, <1>18, LogStepKeeps

\* The session that ends was the only one that was open.
LEMMA SaveTimeOutKeeps ==
  ASSUME IInv, NEW w \in Actors, SaveTimeOut(w)
  PROVE  IInv'
  <1>1. PICK d \in Requests : desk[w] = d /\ d.does = "closes"
    BY DEF SaveTimeOut, Is, IInv, TypeOK
  <1>2. /\ Fact(d) /\ d.staff \in Staff /\ d.log \in Logs
        /\ Exists(d.log) /\ log[d.log] \in Rows /\ log[d.log].staff = d.staff
        /\ log[d.log].verdict = "pending" => log[d.log].unrostered
    BY <1>1, LogOfRequest
  <1>3. d.fresh /\ clean => log[d.log].open
    BY <1>1, <1>2 DEF Fact
  <1>4. PICK l \in Logs : l = d.log
    BY <1>2
  <1>5. PICK row \in Rows : row = [log[l] EXCEPT !.open = FALSE]
    BY <1>2, <1>4 DEF Rows
  <1>6. /\ row.staff = d.staff /\ row.day = log[l].day /\ ~row.open
        /\ row.verdict = log[l].verdict /\ row.unrostered = log[l].unrostered
    BY <1>2, <1>4, <1>5 DEF Rows
  <1>7. log' = [log EXCEPT ![l] = row]
    BY <1>1, <1>4, <1>5 DEF SaveTimeOut
  <1>8. log'[l] = row /\ row # NoLog /\ \A m \in Logs \ {l} : log'[m] = log[m]
    BY <1>7, NoneAreNone DEF IInv, TypeOK
  <1>9. PICK next \in Requests :
          /\ next = ThenDuty(d.staff, "off_duty")
          /\ next.does = "duty" /\ next.staff = d.staff /\ next.then = "off_duty" /\ Fact(next)'
    BY <1>2, ThenDutyIsARequest DEF Duties
  <1>10. Writes(w, next)
    BY <1>1, <1>9 DEF SaveTimeOut
  <1>11. clean' => clean /\ d.fresh
    BY <1>1, <1>10, AfterWrites DEF IInv
  <1>12. UNCHANGED <<long, duty, today, final, nights, stale>>
    BY DEF SaveTimeOut
  <1>13. OneSessionADay' /\ OneOpen'
    BY <1>2, <1>4, <1>6, <1>7, <1>11, <1>12, SessionsStayApart
  <1>14. clean' /\ d.staff \notin nights' => Agrees(d.staff, next.then)'
    <2> SUFFICES ASSUME clean', d.staff \notin nights PROVE Agrees(d.staff, next.then)'
      BY <1>12
    <2>1. l \in OpenOf(d.staff)
      BY <1>2, <1>3, <1>4, <1>11 DEF OpenOf, IsOpen
    <2>2. OpenOf(d.staff) = {l}
      BY <1>2, <1>11, <2>1 DEF IInv, OneOpen
    <2>3. OpenOf(d.staff)' = {}
      BY <1>6, <1>8, <2>2 DEF OpenOf, IsOpen, Exists
    <2> QED
      BY <1>9, <2>3 DEF Agrees
  <1>15. /\ d.does \notin {"finalizes", "duty"} /\ next.does # "finalizes"
         /\ nights \subseteq nights' /\ nights' \subseteq nights \cup {d.staff}
         /\ stale' \in BOOLEAN /\ (~stale' => ~stale)
         /\ Exists(l) /\ log[l].staff = d.staff /\ (row.verdict = "pending" => row.unrostered)
    BY <1>1, <1>2, <1>4, <1>6, <1>9, <1>12 DEF IInv, TypeOK
  <1> QED
    BY <1>1, <1>6, <1>7, <1>9, <1>10, <1>12, <1>13, <1>14, <1>15, LogStepKeeps

\* A warning changes nothing that anybody relies on.
LEMMA SaveWarningKeeps ==
  ASSUME IInv, SaveWarning
  PROVE  IInv'
  <1>w. PICK w \in Actors : w = Alerts
    BY DEF Actors
  <1>1. PICK d \in Requests : desk[w] = d /\ d.does = "warns"
    BY <1>w DEF SaveWarning, Is, IInv, TypeOK
  <1>2. /\ Fact(d) /\ d.staff \in Staff /\ d.log \in Logs
        /\ Exists(d.log) /\ log[d.log] \in Rows /\ log[d.log].staff = d.staff
        /\ log[d.log].verdict = "pending" => log[d.log].unrostered
    BY <1>1, LogOfRequest
  <1>4. PICK l \in Logs : l = d.log
    BY <1>2
  <1>5. PICK row \in Rows : row = [log[l] EXCEPT !.warned = TRUE]
    BY <1>2, <1>4 DEF Rows
  <1>6. /\ row.staff = d.staff /\ row.day = log[l].day /\ row.open = log[l].open
        /\ row.on_break = log[l].on_break
        /\ row.verdict = log[l].verdict /\ row.unrostered = log[l].unrostered
    BY <1>2, <1>4, <1>5 DEF Rows
  <1>7. log' = [log EXCEPT ![l] = row]
    BY <1>1, <1>4, <1>5, <1>w DEF SaveWarning
  <1>8. log'[l] = row /\ row # NoLog /\ \A m \in Logs \ {l} : log'[m] = log[m]
    BY <1>7, NoneAreNone DEF IInv, TypeOK
  <1>9. PICK next \in Requests \cup {Idle} : next = Idle
    OBVIOUS
  <1>10. Writes(w, next)
    BY <1>1, <1>9, <1>w DEF SaveWarning
  <1>11. clean' => clean /\ d.fresh
    BY <1>1, <1>10, AfterWrites DEF IInv
  <1>12. UNCHANGED <<long, duty, today, final, nights, stale>>
    BY DEF SaveWarning
  <1>13. OneSessionADay' /\ OneOpen'
    BY <1>2, <1>4, <1>6, <1>7, <1>11, <1>12, SessionsStayApart
  <1>14. OpenOf(d.staff)' = OpenOf(d.staff)
         /\ \A m \in OpenOf(d.staff) : log'[m].on_break = log[m].on_break
    BY <1>2, <1>4, <1>6, <1>8 DEF OpenOf, IsOpen, Exists
  <1>15. /\ d.does \notin {"finalizes", "duty"} /\ next \notin Requests
         /\ nights \subseteq nights' /\ nights' \subseteq nights \cup {d.staff}
         /\ stale' \in BOOLEAN /\ (~stale' => ~stale)
         /\ Exists(l) /\ log[l].staff = d.staff /\ (row.verdict = "pending" => row.unrostered)
    BY <1>1, <1>2, <1>4, <1>6, <1>9, <1>12, NoneAreNone DEF IInv, TypeOK
  <1> QED
    BY <1>1, <1>6, <1>7, <1>10, <1>12, <1>13, <1>14, <1>15, LogStepKeeps

\* The duty that is saved is the one that the logs call for.
LEMMA SaveDutyKeeps ==
  ASSUME IInv, NEW w \in Actors, SaveDuty(w)
  PROVE  IInv'
  <1>1. PICK d \in Requests : desk[w] = d /\ d.does = "duty"
    BY DEF SaveDuty, Is, IInv, TypeOK
  <1>2. d.staff \in Staff /\ d.then \in Duties
    BY <1>1, Kinds
  <1>3. PICK next \in Requests \cup {Idle} : next = Idle /\ next \notin Requests
    BY NoneAreNone
  <1>4. Writes(w, next) /\ duty' = [duty EXCEPT ![d.staff] = d.then]
        /\ UNCHANGED <<log, long, today, final, nights, stale>>
    BY <1>1, <1>3 DEF SaveDuty
  <1>5. /\ desk' \in [Actors -> Requests \cup {Idle}] /\ desk'[w] = next /\ clean' \in BOOLEAN
        /\ clean' => clean
    BY <1>1, <1>4, AfterWrites DEF IInv
  <1>a. \A v \in Actors \ {w}, e \in Requests : desk[v] = e =>
          \/ desk'[v] = e /\ About(e) \cap About(d) = {}
          \/ desk'[v] = [e EXCEPT !.fresh = FALSE]
    BY <1>1, <1>4, AfterWrites DEF IInv
  <1>6. TypeOK'
    BY <1>2, <1>4, <1>5 DEF IInv, TypeOK
  <1>7. LogFacts' /\ FinalFacts' /\ OneOpen' /\ OneSessionADay'
    BY <1>4, <1>5
    DEF IInv, LogFacts, FinalFacts, OneOpen, OneSessionADay, OpenOf, Exists, IsOpen, IsOver, Resolved
  <1>8. DeskFacts'
    <2> SUFFICES ASSUME NEW v \in Actors, NEW e \in Requests, desk'[v] = e PROVE Fact(e)'
      BY DEF DeskFacts
    <2>1. v # w
      BY <1>3, <1>5
    <2>2. desk[v] # Idle /\ desk[v] \in Requests \cup {Idle}
      BY <1>1, <1>4, <2>1, AfterWrites, NoneAreNone DEF IInv, TypeOK
    <2>3. PICK f \in Requests : desk[v] = f
      BY <2>2
    <2>4. e = f \/ e = [f EXCEPT !.fresh = FALSE]
      <3>1. v \in Actors \ {w} /\ TypeOK
        BY <2>1 DEF IInv
      <3>2. desk'[v] = f \/ desk'[v] = [f EXCEPT !.fresh = FALSE]
        BY <1>a, <2>3, <3>1
      <3> QED
        BY <3>2
    <2>5. Fact(f)
      BY <2>3 DEF IInv, DeskFacts
    <2>6. Fact(e)
      <3>1. CASE e = f
        BY <2>5, <3>1
      <3>2. CASE e = [f EXCEPT !.fresh = FALSE]
        <4>1. /\ ~e.fresh /\ e.does = f.does
              /\ e.does # "finalizes" => e.staff = f.staff
              /\ e.does \in {"saves", "decides", "closes", "warns"} => e.log = f.log
              /\ e.does = "saves" => e.row = f.row
              /\ e.does = "decides" => e.verdict = f.verdict
              /\ e.does = "finalizes" => e.period = f.period /\ e.as = f.as
          BY <3>2, OutOfDate
        <4> QED
          BY <2>5, <4>1 DEF Fact
      <3> QED
        BY <2>4, <3>1, <3>2
    <2> QED
      BY <1>4, <1>5, <2>6 DEF Fact, Exists, OpenToday, IsOpen, IsLocked, IsOver, Resolved
  <1>9. HalfWayAlone'
    BY <1>1, <1>3, <1>4, AloneAfterWrites
  <1>10. DutyFacts'
    <2> SUFFICES ASSUME clean', NEW s \in Staff \ nights PROVE DutyFact(s)'
      BY <1>4 DEF DutyFacts
    <2>0. OpenOf(s)' = OpenOf(s) /\ \A l \in OpenOf(s) : log'[l] = log[l]
      BY <1>4 DEF OpenOf, IsOpen, Exists
    <2>1. CASE s = d.staff
      <3>1. DutyFact(s)
        BY <1>5 DEF IInv, DutyFacts
      <3>2. Agrees(s, d.then)
        BY <1>1, <2>1, <3>1 DEF DutyFact
      <3>3. \A x : Agrees(s, x) => Agrees(s, x)'
        BY <2>0 DEF Agrees
      <3>4. \A x \in Duties : duty'[s] = x => Agrees(s, x)'
        <4>1. duty'[s] = d.then
          BY <1>4, <2>1 DEF IInv, TypeOK
        <4> QED
          BY <3>2, <3>3, <4>1
      <3>5. \A v \in Actors, e \in Requests : desk'[v] = e /\ e.does = "duty" => e.staff # s
        <4>1. \A v \in Actors \ {w}, e \in Requests : desk'[v] = e /\ e.does = "duty" => e.staff # s
          BY <1>1, <1>3, <1>4, <2>1, AloneAfterWrites
        <4> QED
          BY <1>3, <1>5, <4>1
      <3> QED
        BY <3>4, <3>5 DEF DutyFact
    <2>2. CASE s # d.staff
      <3>1. duty'[s] = duty[s]
        BY <1>4, <2>2 DEF IInv, TypeOK
      <3> QED
        BY <1>1, <1>3, <1>4, <2>0, <2>2, <3>1, DutyElsewhere
    <2> QED
      BY <2>1, <2>2
  <1> QED
    BY <1>6, <1>7, <1>8, <1>9, <1>10 DEF IInv

\* A period is finalized as it was validated, and everybody is out of date.
LEMMA SaveFinalKeeps ==
  ASSUME IInv, NEW w \in Actors, SaveFinal(w)
  PROVE  IInv'
  <1>1. PICK d \in Requests : desk[w] = d /\ d.does = "finalizes"
    BY DEF SaveFinal, Is, IInv, TypeOK
  <1>2. d.period \in Periods /\ d.as \in {"sound", "unsound"} /\ About(d) = Staff
    BY <1>1, Kinds DEF About
  <1>3. PICK next \in Requests \cup {Idle} : next = Idle /\ next \notin Requests
    BY NoneAreNone
  <1>4. Writes(w, next) /\ final' = [final EXCEPT ![d.period] = d.as]
        /\ UNCHANGED <<log, long, duty, today, nights, stale>>
    BY <1>1, <1>3 DEF SaveFinal
  <1>5. /\ desk' \in [Actors -> Requests \cup {Idle}] /\ desk'[w] = next /\ clean' \in BOOLEAN
        /\ clean' => clean /\ \A v \in Actors \ {w} : HalfWay(v) => desk[v].staff \notin Staff
    BY <1>1, <1>2, <1>4, AfterWrites DEF IInv
  <1>a. \A v \in Actors \ {w}, e \in Requests : desk[v] = e =>
          \/ desk'[v] = e /\ About(e) \cap About(d) = {}
          \/ desk'[v] = [e EXCEPT !.fresh = FALSE]
    BY <1>1, <1>4, AfterWrites DEF IInv
  <1>6. TypeOK'
    BY <1>2, <1>4, <1>5 DEF IInv, TypeOK
  <1>7. LogFacts' /\ OneOpen' /\ OneSessionADay'
    BY <1>4, <1>5 DEF IInv, LogFacts, OneOpen, OneSessionADay, OpenOf, Exists, IsOpen
  <1>8. FinalFacts'
    <2>1. Fact(d)
      BY <1>1 DEF IInv, DeskFacts
    <2>2. d.as = "sound" => IsOver(d.period) /\ (~stale => Resolved(d.period))
      BY <1>1, <2>1 DEF Fact
    <2>3. \A p \in Periods : final'[p] = IF p = d.period THEN d.as ELSE final[p]
      BY <1>4 DEF IInv, TypeOK
    <2> QED
      BY <1>4, <2>2, <2>3 DEF IInv, FinalFacts, IsOver, Resolved, Exists
  <1>9. DeskFacts'
    <2> SUFFICES ASSUME NEW v \in Actors, NEW e \in Requests, desk'[v] = e PROVE Fact(e)'
      BY DEF DeskFacts
    <2>1. v # w
      BY <1>3, <1>5
    <2>2. desk[v] # Idle /\ desk[v] \in Requests \cup {Idle}
      BY <1>1, <1>4, <2>1, AfterWrites, NoneAreNone DEF IInv, TypeOK
    <2>3. PICK f \in Requests : desk[v] = f
      BY <2>2
    <2>4. (e = f /\ About(f) \cap About(d) = {}) \/ e = [f EXCEPT !.fresh = FALSE]
      <3>1. v \in Actors \ {w} /\ TypeOK
        BY <2>1 DEF IInv
      <3>2. (desk'[v] = f /\ About(f) \cap About(d) = {}) \/ desk'[v] = [f EXCEPT !.fresh = FALSE]
        BY <1>a, <2>3, <3>1
      <3> QED
        BY <3>2
    <2>5. Fact(f)
      BY <2>3 DEF IInv, DeskFacts
    <2>6. /\ e.does = f.does
          /\ e.does # "finalizes" => e.staff = f.staff
          /\ e.does \in {"saves", "decides", "closes", "warns"} => e.log = f.log
          /\ e.does = "saves" => e.row = f.row
          /\ e.does = "decides" => e.verdict = f.verdict
          /\ e.does = "finalizes" => e.period = f.period /\ e.as = f.as
      BY <2>4, OutOfDate
    <2>7. e.does # "finalizes" => ~e.fresh
      <3>1. f.does # "finalizes" => About(f) = {f.staff} /\ f.staff \in Staff
        BY Kinds DEF About
      <3> QED
        BY <1>2, <2>4, <2>6, <3>1, OutOfDate
    <2> QED
      BY <1>4, <2>5, <2>6, <2>7, Kinds DEF Fact, Exists, IsOver, Resolved
  <1>10. clean' => \A v \in Actors : ~HalfWay(v) /\ ~HalfWay(v)'
    <2> SUFFICES ASSUME clean', NEW v \in Actors PROVE ~HalfWay(v) /\ ~HalfWay(v)'
      OBVIOUS
    <2>1. CASE v = w
      BY <1>1, <1>3, <1>5, <2>1 DEF HalfWay
    <2>2. CASE v # w
      <3>1. ~HalfWay(v)
        <4> SUFFICES ASSUME HalfWay(v) PROVE FALSE
          OBVIOUS
        <4>1. PICK f \in Requests : desk[v] = f /\ f.does = "duty"
          BY DEF IInv, TypeOK, HalfWay
        <4> QED
          BY <1>5, <2>2, <4>1, Kinds
      <3>2. desk[v] = Idle => desk'[v] = Idle
        BY <1>1, <1>4, <2>2, AfterWrites DEF IInv
      <3>3. \A f \in Requests : desk[v] = f => desk'[v] = f \/ desk'[v] = [f EXCEPT !.fresh = FALSE]
        BY <1>1, <1>4, <2>2, AfterWrites DEF IInv
      <3>4. \A f \in Requests : desk[v] = f => f.does # "duty" /\ desk'[v].does # "duty"
        <4> SUFFICES ASSUME NEW f \in Requests, desk[v] = f
                     PROVE  f.does # "duty" /\ desk'[v].does # "duty"
          OBVIOUS
        <4>1. f.does # "duty"
          BY <3>1, NoneAreNone DEF HalfWay
        <4>2. \A e : e = [f EXCEPT !.fresh = FALSE] => e.does = f.does
          BY OutOfDate
        <4>3. desk'[v] = f \/ desk'[v] = [f EXCEPT !.fresh = FALSE]
          BY <3>3
        <4> QED
          BY <4>1, <4>2, <4>3
      <3> QED
        BY <3>1, <3>2, <3>4 DEF IInv, TypeOK, HalfWay
    <2> QED
      BY <2>1, <2>2
  <1>11. HalfWayAlone'
    BY <1>10 DEF HalfWayAlone
  <1>12. DutyFacts'
    <2> SUFFICES ASSUME clean', NEW s \in Staff \ nights PROVE DutyFact(s)'
      BY <1>4 DEF DutyFacts
    <2>1. \A x \in Duties : duty[s] = x => Agrees(s, x)
      BY <1>5, <1>10 DEF IInv, DutyFacts, DutyFact
    <2>2. \A x : Agrees(s, x) => Agrees(s, x)'
      BY <1>4 DEF Agrees, OpenOf, IsOpen, Exists
    <2>3. \A x \in Duties : duty'[s] = x => Agrees(s, x)'
      BY <1>4, <2>1, <2>2
    <2>4. \A v \in Actors, e \in Requests : desk'[v] = e => e.does # "duty"
      BY <1>10, NoneAreNone DEF HalfWay
    <2> QED
      BY <2>3, <2>4 DEF DutyFact
  <1> QED
    BY <1>6, <1>7, <1>8, <1>9, <1>11, <1>12 DEF IInv

\* After a request was cut off nothing is promised of duties.
LEMMA CutOffKeeps ==
  ASSUME IInv, NEW w \in Actors, CutOff(w)
  PROVE  IInv'
  <1>1. /\ desk' = [desk EXCEPT ![w] = Idle] /\ clean' = FALSE
        /\ UNCHANGED <<log, long, duty, today, final, nights, stale>>
    BY DEF CutOff
  <1>2. TypeOK'
    BY <1>1 DEF IInv, TypeOK
  <1>3. LogFacts' /\ FinalFacts'
    BY <1>1 DEF IInv, LogFacts, FinalFacts, Exists, IsOver, Resolved
  <1>4. DeskFacts'
    <2> SUFFICES ASSUME NEW v \in Actors, NEW e \in Requests, desk'[v] = e PROVE Fact(e)'
      BY DEF DeskFacts
    <2>1. desk[v] = e
      BY <1>1, NoneAreNone DEF IInv, TypeOK
    <2>2. Fact(e)
      BY <2>1 DEF IInv, DeskFacts
    <2> QED
      BY <1>1, <2>2 DEF Fact, Exists, OpenToday, IsOpen, IsLocked, IsOver, Resolved
  <1>5. HalfWayAlone' /\ OneOpen' /\ DutyFacts' /\ OneSessionADay'
    BY <1>1 DEF HalfWayAlone, OneOpen, DutyFacts, OneSessionADay
  <1> QED
    BY <1>2, <1>3, <1>4, <1>5 DEF IInv

\* Of a new day there is no session yet, and what is over stays over; a period
\* that is opened again locks nothing.
LEMMA WorldKeeps ==
  ASSUME IInv, NextDay \/ (\E p \in Periods : Unfinalize(p)) \/ (\E l \in Logs : BecomesLong(l))
  PROVE  IInv'
  <1>1. UNCHANGED <<log, duty, desk, nights, stale, clean>>
    BY DEF NextDay, Unfinalize, BecomesLong
  <1>2. today \in Nat /\ today' \in Days /\ (today' = today \/ today' = today + 1)
    BY BoundsAreNumbers DEF IInv, TypeOK, NextDay, Unfinalize, BecomesLong, Days
  <1>3. /\ final' \in [Periods -> {"open", "sound", "unsound"}]
        /\ \A p \in Periods : final'[p] = final[p] \/ final'[p] = "open"
    BY DEF IInv, TypeOK, NextDay, Unfinalize, BecomesLong
  <1>4. long' \in SUBSET Logs
    BY DEF IInv, TypeOK, NextDay, Unfinalize, BecomesLong
  <1>5. TypeOK'
    BY <1>1, <1>2, <1>3, <1>4 DEF IInv, TypeOK
  <1>6. \A l \in Logs : Exists(l) => log[l].day \in Nat /\ log[l].day <= today
    BY DEF IInv, TypeOK, LogFacts, Exists, Rows, Days
  <1>7. LogFacts'
    BY <1>1, <1>2, <1>6 DEF IInv, LogFacts, Exists
  <1>8. \A p \in Periods : IsOver(p) => IsOver(p)'
    BY <1>2, DaysOfAssumption, BoundsAreNumbers DEF IsOver, Days
  <1>9. \A p : Resolved(p) => Resolved(p)'
    BY <1>1 DEF Resolved, Exists
  <1>10. FinalFacts'
    BY <1>1, <1>3, <1>8, <1>9 DEF IInv, FinalFacts
  <1>11. OneOpen' /\ OneSessionADay' /\ HalfWayAlone'
    BY <1>1 DEF IInv, OneOpen, OneSessionADay, HalfWayAlone, OpenOf, Exists, IsOpen, HalfWay
  <1>12. DutyFacts'
    BY <1>1 DEF IInv, DutyFacts, DutyFact, HalfWay, Agrees, OpenOf, IsOpen, Exists
  <1>13. DeskFacts'
    <2> SUFFICES ASSUME NEW v \in Actors, NEW e \in Requests, desk'[v] = e PROVE Fact(e)'
      BY DEF DeskFacts
    <2>1. Fact(e)
      BY <1>1 DEF IInv, DeskFacts
    <2>2. \A l \in Logs : ~IsLocked(l) => ~IsLocked(l)'
      BY <1>1, <1>3 DEF IsLocked
    <2>3. \A s : OpenToday(s) = {} => OpenToday(s)' = {}
      <3> SUFFICES ASSUME NEW s, OpenToday(s) = {}, NEW l \in OpenToday(s)' PROVE FALSE
        OBVIOUS
      <3>1. l \in Logs /\ IsOpen(l) /\ log[l].staff = s /\ log[l].day = today'
        BY <1>1 DEF OpenToday, IsOpen, Exists
      <3>2. today' = today
        BY <1>2, <1>6, <3>1 DEF IsOpen
      <3> QED
        BY <3>1, <3>2 DEF OpenToday
    <2> QED
      BY <1>1, <1>8, <1>9, <2>1, <2>2, <2>3, Kinds DEF Fact, Exists
  <1> QED
    BY <1>5, <1>7, <1>10, <1>11, <1>12, <1>13 DEF IInv

\* Every request is known by what it has read when it begins.
LEMMA LookUpKeeps ==
  ASSUME IInv, NEW w \in Actors, NEW s \in Staff,
         \/ FaceClockIn(w, s) \/ ConfirmUnrostered(w, s)
         \/ FaceClockOut(w, s) \/ ConfirmClockOut(w, s) \/ ToggleBreak(w, s)
  PROVE  IInv'
  <1>1. ASSUME NEW unrostered \in BOOLEAN, Creates(w, s, unrostered) PROVE IInv'
    <2>1. PICK d \in Requests :
            d = [does |-> "creates", staff |-> s, unrostered |-> unrostered, fresh |-> TRUE]
      BY DEF Requests
    <2>2. d.does = "creates" /\ d.staff = s /\ OpenToday(s) = {} /\ Begins(w, d)
      BY <1>1, <2>1 DEF Creates
    <2>3. Fact(d)
      BY <2>2 DEF Fact
    <2> QED
      BY <2>2, <2>3, BeginKeeps
  <1>2. ASSUME NEW l \in Logs, IsFirst(l, s), NEW row \in Rows, NEW then \in Duties,
               row.staff = log[l].staff, row.day = log[l].day, row.verdict = log[l].verdict,
               row.unrostered = log[l].unrostered,
               \/ ~row.open /\ then = "off_duty"
               \/ row.open /\ row.on_break /\ then = "on_break"
               \/ row.open /\ ~row.on_break /\ then = "on_duty",
               Begins(w, [does |-> "saves", staff |-> s, log |-> l, row |-> row, then |-> then,
                          fresh |-> TRUE])
        PROVE  IInv'
    <2>1. PICK d \in Requests :
            d = [does |-> "saves", staff |-> s, log |-> l, row |-> row, then |-> then, fresh |-> TRUE]
      BY DEF Requests
    <2>2. d.does = "saves" /\ d.staff = s /\ d.log = l /\ d.row = row /\ d.then = then
      BY <2>1
    <2>3. Exists(l) /\ log[l].open /\ log[l].staff = s
      BY <1>2 DEF IsFirst, OpenToday, IsOpen
    <2>4. row.verdict = "pending" => row.unrostered
      BY <1>2, <2>3 DEF IInv, LogFacts
    <2>5. Fact(d)
      BY <1>2, <2>2, <2>3, <2>4 DEF Fact
    <2> QED
      BY <1>2, <2>1, <2>2, <2>5, BeginKeeps
  <1>3. \A l \in Logs : IsFirst(l, s) => log[l] \in Rows /\ log[l].open
    BY DEF IInv, TypeOK, IsFirst, OpenToday, IsOpen, Exists
  <1>4. CASE FaceClockIn(w, s) \/ ConfirmUnrostered(w, s)
    BY <1>1, <1>4 DEF FaceClockIn, ConfirmUnrostered
  <1>5. CASE FaceClockOut(w, s)
    <2>1. PICK l \in Logs : IsFirst(l, s) /\ SavesOff(w, s, l, [log[l] EXCEPT !.open = FALSE])
      BY <1>5 DEF FaceClockOut
    <2>2. PICK row \in Rows : row = [log[l] EXCEPT !.open = FALSE]
      BY <1>3, <2>1 DEF Rows
    <2>3. /\ row.staff = log[l].staff /\ row.day = log[l].day /\ row.verdict = log[l].verdict
          /\ row.unrostered = log[l].unrostered /\ ~row.open
      BY <1>3, <2>1, <2>2 DEF Rows
    <2>4. Begins(w, [does |-> "saves", staff |-> s, log |-> l, row |-> row, then |-> "off_duty", fresh |-> TRUE])
      BY <2>1, <2>2 DEF SavesOff
    <2> QED
      BY <1>2, <2>1, <2>3, <2>4 DEF Duties
  <1>6. CASE ConfirmClockOut(w, s)
    <2>1. PICK l \in Logs :
            IsFirst(l, s) /\ SavesOff(w, s, l, [log[l] EXCEPT !.open = FALSE, !.on_break = FALSE])
      BY <1>6 DEF ConfirmClockOut
    <2>2. PICK row \in Rows : row = [log[l] EXCEPT !.open = FALSE, !.on_break = FALSE]
      BY <1>3, <2>1 DEF Rows
    <2>3. /\ row.staff = log[l].staff /\ row.day = log[l].day /\ row.verdict = log[l].verdict
          /\ row.unrostered = log[l].unrostered /\ ~row.open
      BY <1>3, <2>1, <2>2 DEF Rows
    <2>4. Begins(w, [does |-> "saves", staff |-> s, log |-> l, row |-> row, then |-> "off_duty", fresh |-> TRUE])
      BY <2>1, <2>2 DEF SavesOff
    <2> QED
      BY <1>2, <2>1, <2>3, <2>4 DEF Duties
  <1>7. CASE ToggleBreak(w, s)
    <2>1. PICK l \in Logs :
            /\ IsFirst(l, s)
            /\ Begins(w, [does |-> "saves", staff |-> s, log |-> l, fresh |-> TRUE,
                          then |-> IF log[l].on_break THEN "on_duty" ELSE "on_break",
                          row |-> [log[l] EXCEPT !.on_break = ~log[l].on_break]])
      BY <1>7 DEF ToggleBreak
    <2>2. PICK row \in Rows : row = [log[l] EXCEPT !.on_break = ~log[l].on_break]
      BY <1>3, <2>1 DEF Rows
    <2>3. /\ row.staff = log[l].staff /\ row.day = log[l].day /\ row.verdict = log[l].verdict
          /\ row.unrostered = log[l].unrostered /\ row.open /\ row.on_break = ~log[l].on_break
      BY <1>3, <2>1, <2>2 DEF Rows
    <2>4. PICK then \in Duties : then = IF log[l].on_break THEN "on_duty" ELSE "on_break"
      BY DEF Duties
    <2>5. Begins(w, [does |-> "saves", staff |-> s, log |-> l, row |-> row, then |-> then, fresh |-> TRUE])
      BY <2>1, <2>2, <2>4
    <2>6. \/ row.open /\ row.on_break /\ then = "on_break"
          \/ row.open /\ ~row.on_break /\ then = "on_duty"
      BY <1>3, <2>1, <2>3, <2>4 DEF Rows
    <2> QED
      BY <1>2, <2>1, <2>3, <2>5, <2>6
  <1> QED
    BY <1>4, <1>5, <1>6, <1>7

\* Managers and commands likewise.
LEMMA DecisionKeeps ==
  ASSUME IInv, NEW w \in Actors, NEW l \in Logs,
         \/ Approve(w, l) \/ Reject(w, l) \/ ForceClockOut(w, l)
         \/ (w = Alerts /\ Alert(l)) \/ (w = Closer /\ AutoClockOut(l))
  PROVE  IInv'
  <1>1. Exists(l) /\ log[l] \in Rows /\ log[l].staff \in Staff
    BY DEF IInv, TypeOK, Exists, Rows, Approve, Reject, Decides, ForceClockOut, Alert, AutoClockOut, IsOpen
  <1>2. ASSUME NEW verdict \in {"approved", "rejected"}, Decides(w, l, verdict) PROVE IInv'
    <2>1. PICK d \in Requests :
            d = [does |-> "decides", staff |-> log[l].staff, log |-> l, verdict |-> verdict,
                 open |-> log[l].open, fresh |-> TRUE]
      BY <1>1 DEF Requests, Verdicts, Rows
    <2>2. /\ d.does = "decides" /\ d.staff = log[l].staff /\ d.log = l /\ d.verdict = verdict
          /\ d.open = log[l].open /\ ~IsLocked(l) /\ Begins(w, d)
      BY <1>2, <2>1 DEF Decides
    <2>3. Fact(d)
      BY <1>1, <2>2 DEF Fact
    <2> QED
      BY <2>2, <2>3, BeginKeeps
  <1>3. ASSUME NEW does \in {"closes", "warns"}, IsOpen(l),
               Begins(w, [does |-> does, staff |-> log[l].staff, log |-> l, fresh |-> TRUE])
        PROVE  IInv'
    <2>1. PICK d \in Requests : d = [does |-> does, staff |-> log[l].staff, log |-> l, fresh |-> TRUE]
      BY <1>1 DEF Requests
    <2>2. d.does = does /\ d.staff = log[l].staff /\ d.log = l /\ Begins(w, d)
      BY <1>3, <2>1
    <2>3. Fact(d)
      BY <1>1, <1>3, <2>2 DEF Fact, IsOpen
    <2> QED
      BY <2>2, <2>3, BeginKeeps
  <1> QED
    BY <1>2, <1>3 DEF Approve, Reject, ForceClockOut, Alert, AutoClockOut

\* Who finalizes without force has found nothing that is unresolved.
LEMMA FinalizeKeeps ==
  ASSUME IInv, NEW w \in Actors, NEW p \in Periods, Finalize(w, p)
  PROVE  IInv'
  <1>1. PICK force \in BOOLEAN :
          /\ ~force => ~Unresolved(p)
          /\ Begins(w, [does |-> "finalizes", period |-> p, fresh |-> TRUE,
                        as |-> IF ~force /\ IsOver(p) THEN "sound" ELSE "unsound"])
    BY DEF Finalize
  <1>a. PICK as \in {"sound", "unsound"} : as = IF ~force /\ IsOver(p) THEN "sound" ELSE "unsound"
    OBVIOUS
  <1>2. PICK d \in Requests :
          d = [does |-> "finalizes", period |-> p, fresh |-> TRUE, as |-> as]
    BY DEF Requests
  <1>3. d.does = "finalizes" /\ d.period = p /\ Begins(w, d) /\ (d.as = "sound" => ~force /\ IsOver(p))
    BY <1>1, <1>a, <1>2
  <1>4. d.as = "sound" => Resolved(p)
    BY <1>1, <1>3 DEF Unresolved, Resolved, IInv, LogFacts
  <1>5. Fact(d)
    BY <1>3, <1>4 DEF Fact
  <1> QED
    BY <1>3, <1>5, BeginKeeps

-----------------------------------------------------------------------------
(* Theorems *)

LEMMA InitIInv == Init => IInv
  <1> SUFFICES ASSUME Init PROVE IInv
    OBVIOUS
  <1>1. TypeOK
    <2>1. today \in Days
      BY BoundsAreNumbers DEF Init, Days
    <2>2. log \in [Logs -> Rows \cup {NoLog}] /\ desk \in [Actors -> Requests \cup {Idle}]
      BY DEF Init
    <2>3. duty \in [Staff -> Duties] /\ final \in [Periods -> {"open", "sound", "unsound"}]
      BY DEF Init, Duties
    <2> QED
      BY <2>1, <2>2, <2>3 DEF Init, TypeOK
  <1>2. LogFacts /\ FinalFacts /\ OneSessionADay
    BY DEF Init, LogFacts, FinalFacts, OneSessionADay, IsOpen, Exists
  <1>3. DeskFacts /\ HalfWayAlone
    BY NoneAreNone DEF Init, DeskFacts, HalfWayAlone, HalfWay
  <1>4. \A s : OpenOf(s) = {}
    BY DEF Init, OpenOf, IsOpen, Exists
  <1>5. OneOpen
    BY <1>4 DEF OneOpen
  <1>6. DutyFacts
    BY <1>4, NoneAreNone DEF Init, DutyFacts, DutyFact, Agrees
  <1> QED
    BY <1>1, <1>2, <1>3, <1>5, <1>6 DEF IInv

LEMMA NextIInv == IInv /\ [Next]_vars => IInv'
  <1> SUFFICES ASSUME IInv, [Next]_vars PROVE IInv'
    OBVIOUS
  <1>0. Workers \subseteq Actors /\ Alerts \in Actors /\ Closer \in Actors
    BY DEF Actors
  <1>1. ASSUME NEW w \in Workers, NEW s \in Staff,
               \/ FaceClockIn(w, s) \/ ConfirmUnrostered(w, s)
               \/ FaceClockOut(w, s) \/ ConfirmClockOut(w, s) \/ ToggleBreak(w, s)
        PROVE  IInv'
    BY <1>0, <1>1, LookUpKeeps
  <1>2. ASSUME NEW w \in Workers, NEW l \in Logs,
               CreateLog(w, l) \/ Approve(w, l) \/ Reject(w, l) \/ ForceClockOut(w, l)
        PROVE  IInv'
    BY <1>0, <1>2, CreateLogKeeps, DecisionKeeps
  <1>3. ASSUME NEW w \in Workers,
               SaveRow(w) \/ SaveVerdict(w) \/ SaveTimeOut(w) \/ SaveFinal(w) \/ SaveDuty(w)
        PROVE  IInv'
    BY <1>0, <1>3, SaveRowKeeps, SaveVerdictKeeps, SaveTimeOutKeeps, SaveFinalKeeps, SaveDutyKeeps
  <1>4. ASSUME NEW w \in Workers, NEW p \in Periods, Finalize(w, p) PROVE IInv'
    BY <1>0, <1>4, FinalizeKeeps
  <1>5. CASE NextDay \/ (\E p \in Periods : Unfinalize(p)) \/ (\E l \in Logs : BecomesLong(l))
    BY <1>5, WorldKeeps
  <1>6. ASSUME NEW w \in Actors, CutOff(w) PROVE IInv'
    BY <1>6, CutOffKeeps
  <1>7. CASE AlertJob
    BY <1>0, <1>7, SaveWarningKeeps, DecisionKeeps DEF AlertJob
  <1>8. CASE CloserJob
    BY <1>0, <1>8, SaveTimeOutKeeps, SaveDutyKeeps, DecisionKeeps DEF CloserJob
  <1>9. CASE UNCHANGED vars
    <2>1. TypeOK' /\ LogFacts' /\ FinalFacts' /\ OneOpen' /\ OneSessionADay'
      BY <1>9 DEF vars, IInv, TypeOK, LogFacts, FinalFacts, OneOpen, OneSessionADay,
                  OpenOf, IsOpen, Exists, IsOver, Resolved
    <2>2. DeskFacts'
      BY <1>9, SameFact DEF vars, IInv, DeskFacts
    <2>3. HalfWayAlone' /\ DutyFacts'
      BY <1>9 DEF vars, IInv, HalfWayAlone, DutyFacts, DutyFact, HalfWay, Agrees, OpenOf, IsOpen, Exists
    <2> QED
      BY <2>1, <2>2, <2>3 DEF IInv
  <1> QED
    BY <1>1, <1>2, <1>3, <1>4, <1>5, <1>6, <1>7, <1>8, <1>9 DEF Next

\* The inductive invariant: what requests that are still fresh know of logs,
\* periods and duties.
THEOREM AttendanceInvariant == Spec => []IInv
  BY InitIInv, NextIInv, PTL DEF Spec

\* Logs, duties, periods and what requests are about to write keep their types.
THEOREM TypeCorrect == Spec => []TypeOK
  <1>1. IInv => TypeOK
    BY DEF IInv
  <1> QED
    BY <1>1, AttendanceInvariant, PTL

\* As long as requests about the same staff do not race, nobody has two open
\* sessions of one day, whatever commands, managers and midnights do.
THEOREM SessionsAreSingle == Spec => []OneSessionADay
  <1>1. IInv => OneSessionADay
    BY DEF IInv
  <1> QED
    BY <1>1, AttendanceInvariant, PTL

\* As long as requests about the same staff do not race, the duty status that
\* is saved apart follows the clock logs.
THEOREM DutyIsRight == Spec => []DutyFollowsTheLogs
  <1>1. IInv => DutyFollowsTheLogs
    <2> SUFFICES ASSUME IInv, clean, NEW s \in Staff, s \notin nights,
                        \A w \in Actors : HalfWay(w) => desk[w].staff # s
                 PROVE  /\ duty[s] = "off_duty" <=> OpenOf(s) = {}
                        /\ duty[s] = "on_break" <=> \E l \in OpenOf(s) : log[l].on_break
      BY DEF DutyFollowsTheLogs, OpenOf
    <2>1. DutyFact(s)
      BY DEF IInv, DutyFacts
    <2>2. duty[s] \in Duties
      BY DEF IInv, TypeOK
    <2>3. PICK x \in Duties : duty[s] = x
      BY <2>2
    <2>4. Agrees(s, x)
      BY <2>1, <2>3 DEF DutyFact
    <2> QED
      BY <2>3, <2>4 DEF Agrees
  <1> QED
    BY <1>1, AttendanceInvariant, PTL

\* A period that was validated once it was over keeps no unresolved session,
\* however clocks, decisions and finalizations race.
THEOREM FinalMeansResolved == Spec => []FinalPeriodsAreResolved
  <1>1. IInv => FinalPeriodsAreResolved
    BY DEF IInv, FinalFacts, FinalPeriodsAreResolved, Resolved
  <1> QED
    BY <1>1, AttendanceInvariant, PTL

\* No verdict on a session of a finalized period changes, unless requests race.
THEOREM FinalVerdicts == Spec => FinalVerdictsStay
  <1> DEFINE Stays == clean' => \A p \in Periods, l \in Logs :
                        final[p] # "open" /\ Exists(l) /\ log[l].day \in DaysOf[p]
                          => log'[l].verdict = log[l].verdict
  <1>1. IInv /\ [Next]_vars => [Stays]_vars
    <2> SUFFICES ASSUME IInv, Next, clean', NEW p \in Periods, NEW l \in Logs,
                        final[p] # "open", Exists(l), log[l].day \in DaysOf[p]
                 PROVE  log'[l].verdict = log[l].verdict
      OBVIOUS
    <2>0. Workers \subseteq Actors /\ Alerts \in Actors /\ Closer \in Actors /\ IsLocked(l)
      BY DEF Actors, IsLocked
    <2>1. ASSUME NEW w \in Actors, NEW m \in Logs, CreateLog(w, m) PROVE log'[l] = log[l]
      BY <2>1 DEF CreateLog, IInv, TypeOK
    <2>2. ASSUME NEW w \in Actors, SaveRow(w) PROVE log'[l].verdict = log[l].verdict
      <3>1. PICK d \in Requests : desk[w] = d /\ d.does = "saves"
        BY <2>2 DEF SaveRow, Is, IInv, TypeOK
      <3>2. Fact(d) /\ d.log \in Logs /\ d.row \in Rows
        BY <3>1, LogOfRequest, Kinds
      <3>3. PICK next \in Requests : next = ThenDuty(d.staff, d.then)
        BY <3>1, Kinds, ThenDutyIsARequest
      <3>4. Writes(w, next)
        BY <2>2, <3>1, <3>3 DEF SaveRow
      <3>5. d.fresh
        BY <3>1, <3>4, AfterWrites DEF IInv
      <3>6. log' = [log EXCEPT ![d.log] = [d.row EXCEPT !.hours = d.row.hours \/ ~d.row.open]]
        BY <2>2, <3>1 DEF SaveRow
      <3>7. d.row.verdict = log[d.log].verdict
        BY <3>1, <3>2, <3>5 DEF Fact
      <3> QED
        BY <3>2, <3>6, <3>7 DEF IInv, TypeOK, Rows
    <2>3. ASSUME NEW w \in Actors, SaveVerdict(w) PROVE log'[l].verdict = log[l].verdict
      <3>1. PICK d \in Requests : desk[w] = d /\ d.does = "decides"
        BY <2>3 DEF SaveVerdict, Is, IInv, TypeOK
      <3>2. Fact(d) /\ d.log \in Logs
        BY <3>1, LogOfRequest
      <3>3. clean' => d.fresh
        BY <2>3, <3>1 DEF SaveVerdict, Writes
      <3>4. d.log # l
        BY <2>0, <3>1, <3>2, <3>3 DEF Fact
      <3> QED
        BY <2>3, <3>1, <3>2, <3>4 DEF SaveVerdict, IInv, TypeOK
    <2>4. ASSUME NEW w \in Actors, SaveTimeOut(w) PROVE log'[l].verdict = log[l].verdict
      <3>1. log[l] \in Rows
        BY DEF IInv, TypeOK, Exists
      <3> QED
        BY <2>4, <3>1 DEF SaveTimeOut, IInv, TypeOK, Rows
    <2>5. CASE SaveWarning
      <3>1. log[l] \in Rows
        BY DEF IInv, TypeOK, Exists
      <3> QED
        BY <2>5, <3>1 DEF SaveWarning, IInv, TypeOK, Rows
    <2>6. CASE UNCHANGED log
      BY <2>6
    <2>7. \/ UNCHANGED log
          \/ SaveWarning
          \/ \E w \in Actors : SaveRow(w) \/ SaveVerdict(w) \/ SaveTimeOut(w)
          \/ \E w \in Actors, m \in Logs : CreateLog(w, m)
      <3>1. CASE AlertJob
        BY <3>1 DEF AlertJob, Alert, Begins
      <3>2. CASE CloserJob
        BY <2>0, <3>2 DEF CloserJob, AutoClockOut, Begins, SaveDuty
      <3>3. ASSUME NEW w \in Workers, NEW s \in Staff,
                   \/ FaceClockIn(w, s) \/ ConfirmUnrostered(w, s)
                   \/ FaceClockOut(w, s) \/ ConfirmClockOut(w, s) \/ ToggleBreak(w, s)
            PROVE  UNCHANGED log
        BY <3>3 DEF FaceClockIn, ConfirmUnrostered, Creates, FaceClockOut, ConfirmClockOut,
                    SavesOff, ToggleBreak, Begins
      <3>4. ASSUME NEW w \in Workers, NEW m \in Logs, Approve(w, m) \/ Reject(w, m) \/ ForceClockOut(w, m)
            PROVE  UNCHANGED log
        BY <3>4 DEF Approve, Reject, Decides, ForceClockOut, Begins
      <3>5. ASSUME NEW w \in Workers, SaveFinal(w) \/ SaveDuty(w) \/ \E q \in Periods : Finalize(w, q)
            PROVE  UNCHANGED log
        BY <3>5 DEF SaveFinal, SaveDuty, Finalize, Begins
      <3>6. CASE \/ \E q \in Periods : Unfinalize(q)
                 \/ \E w \in Actors : CutOff(w)
                 \/ \E m \in Logs : BecomesLong(m)
                 \/ NextDay
        BY <3>6 DEF Unfinalize, CutOff, BecomesLong, NextDay
      <3> QED
        BY <2>0, <3>1, <3>2, <3>3, <3>4, <3>5, <3>6 DEF Next
    <2> QED
      BY <2>1, <2>2, <2>3, <2>4, <2>5, <2>6, <2>7
  <1> QED
    BY <1>1, InitIInv, NextIInv, PTL DEF Spec, FinalVerdictsStay

-----------------------------------------------------------------------------
(* What requests and commands do, by what it means for warnings *)

\* Who clocks out or takes a break, and has read the log as it is, knows whether
\* it was warned about.
WarnedIsRead ==
  \A v \in Actors, d \in Requests :
    desk[v] = d /\ d.does = "saves" /\ d.fresh => d.row.warned = log[d.log].warned

\* Each command does its own work only.
CommandsOnly ==
  /\ \A d \in Requests : desk[Alerts] = d => d.does = "warns"
  /\ \A d \in Requests : desk[Closer] = d => d.does \in {"closes", "duty"}

\* A request that begins.
LooksUp(w, d) ==
  /\ Begins(w, d)
  /\ w = Alerts => d.does = "warns"
  /\ w = Closer => d.does = "closes"
  /\ d.does = "saves" => d.row.warned = log[d.log].warned

\* A request that writes: logs of its staff only, and no warning is taken back but
\* by a stale row.
GoesOn(w, d, next) ==
  /\ desk[w] = d /\ Writes(w, next) /\ UNCHANGED long
  /\ next # Idle => next.does # "saves"
  /\ w = Alerts => next = Idle
  /\ w = Closer /\ next # Idle => d.does = "closes" /\ next.does = "duty"
  /\ \A m \in Logs : Exists(m) /\ log'[m] # log[m] => log[m].staff \in About(d)
  /\ \A m \in Logs : Exists(m) /\ log[m].warned => log'[m].warned \/ stale'
  /\ d.does = "warns" => log'[d.log].warned
  /\ d.does = "closes" => ~log'[d.log].open

LEMMA LookUps ==
  ASSUME IInv, NEW w \in Workers, NEW s \in Staff,
         \/ FaceClockIn(w, s) \/ ConfirmUnrostered(w, s)
         \/ FaceClockOut(w, s) \/ ConfirmClockOut(w, s) \/ ToggleBreak(w, s)
  PROVE  \E d \in Requests : LooksUp(w, d)
  <1>0. w \in Actors /\ w # Alerts /\ w # Closer
    BY ActorsDiffer DEF Actors
  <1>1. ASSUME NEW unrostered \in BOOLEAN, Creates(w, s, unrostered)
        PROVE  \E d \in Requests : LooksUp(w, d)
    <2>1. PICK d \in Requests :
            d = [does |-> "creates", staff |-> s, unrostered |-> unrostered, fresh |-> TRUE]
      BY DEF Requests
    <2> QED
      BY <1>0, <1>1, <2>1 DEF Creates, LooksUp
  <1>2. ASSUME NEW l \in Logs, NEW row \in Rows, NEW then \in Duties, row.warned = log[l].warned,
               Begins(w, [does |-> "saves", staff |-> s, log |-> l, row |-> row, then |-> then,
                          fresh |-> TRUE])
        PROVE  \E d \in Requests : LooksUp(w, d)
    <2>1. PICK d \in Requests :
            d = [does |-> "saves", staff |-> s, log |-> l, row |-> row, then |-> then, fresh |-> TRUE]
      BY DEF Requests
    <2> QED
      BY <1>0, <1>2, <2>1 DEF LooksUp
  <1>3. \A l \in Logs : IsFirst(l, s) => log[l] \in Rows
    BY DEF IInv, TypeOK, IsFirst, OpenToday, IsOpen, Exists
  <1>4. CASE FaceClockIn(w, s) \/ ConfirmUnrostered(w, s)
    BY <1>1, <1>4 DEF FaceClockIn, ConfirmUnrostered
  <1>5. CASE FaceClockOut(w, s)
    <2>1. PICK l \in Logs : IsFirst(l, s) /\ SavesOff(w, s, l, [log[l] EXCEPT !.open = FALSE])
      BY <1>5 DEF FaceClockOut
    <2>2. PICK row \in Rows : row = [log[l] EXCEPT !.open = FALSE]
      BY <1>3, <2>1 DEF Rows
    <2>3. row.warned = log[l].warned
      BY <1>3, <2>1, <2>2 DEF Rows
    <2> QED
      BY <1>2, <2>1, <2>2, <2>3 DEF SavesOff, Duties
  <1>6. CASE ConfirmClockOut(w, s)
    <2>1. PICK l \in Logs :
            IsFirst(l, s) /\ SavesOff(w, s, l, [log[l] EXCEPT !.open = FALSE, !.on_break = FALSE])
      BY <1>6 DEF ConfirmClockOut
    <2>2. PICK row \in Rows : row = [log[l] EXCEPT !.open = FALSE, !.on_break = FALSE]
      BY <1>3, <2>1 DEF Rows
    <2>3. row.warned = log[l].warned
      BY <1>3, <2>1, <2>2 DEF Rows
    <2> QED
      BY <1>2, <2>1, <2>2, <2>3 DEF SavesOff, Duties
  <1>7. CASE ToggleBreak(w, s)
    <2>1. PICK l \in Logs :
            /\ IsFirst(l, s)
            /\ Begins(w, [does |-> "saves", staff |-> s, log |-> l, fresh |-> TRUE,
                          then |-> IF log[l].on_break THEN "on_duty" ELSE "on_break",
                          row |-> [log[l] EXCEPT !.on_break = ~log[l].on_break]])
      BY <1>7 DEF ToggleBreak
    <2>2. PICK row \in Rows : row = [log[l] EXCEPT !.on_break = ~log[l].on_break]
      BY <1>3, <2>1 DEF Rows
    <2>5. row.warned = log[l].warned
      BY <1>3, <2>1, <2>2 DEF Rows
    <2>3. PICK then \in Duties : then = IF log[l].on_break THEN "on_duty" ELSE "on_break"
      BY DEF Duties
    <2>4. Begins(w, [does |-> "saves", staff |-> s, log |-> l, row |-> row, then |-> then, fresh |-> TRUE])
      BY <2>1, <2>2, <2>3
    <2> QED
      BY <1>2, <2>4, <2>5
  <1> QED
    BY <1>4, <1>5, <1>6, <1>7

\* Managers look up an existing log or a period, and the commands an open log.
LEMMA DecisionsLookUp ==
  ASSUME IInv, NEW w \in Actors, NEW l \in Logs,
         \/ w \in Workers /\ (Approve(w, l) \/ Reject(w, l) \/ ForceClockOut(w, l))
         \/ w = Alerts /\ Alert(l)
         \/ w = Closer /\ AutoClockOut(l)
  PROVE  /\ \E d \in Requests : LooksUp(w, d)
         /\ \A d \in Requests : w \in {Alerts, Closer} /\ desk'[w] = d => d.log = l
  <1>1. log[l] \in Rows /\ log[l].staff \in Staff
    BY DEF IInv, TypeOK, Exists, Rows, Approve, Reject, Decides, ForceClockOut, Alert, AutoClockOut, IsOpen
  <1>2. ASSUME w \in Workers, NEW verdict \in {"approved", "rejected"}, Decides(w, l, verdict)
        PROVE  w \notin {Alerts, Closer} /\ \E d \in Requests : LooksUp(w, d)
    <2>1. PICK d \in Requests :
            d = [does |-> "decides", staff |-> log[l].staff, log |-> l, verdict |-> verdict,
                 open |-> log[l].open, fresh |-> TRUE]
      BY <1>1 DEF Requests, Verdicts, Rows, Decides, IInv, TypeOK, Exists
    <2> QED
      BY <1>2, <2>1, ActorsDiffer DEF Decides, LooksUp
  <1>3. ASSUME NEW does \in {"closes", "warns"}, w = Alerts => does = "warns", w = Closer => does = "closes",
               Begins(w, [does |-> does, staff |-> log[l].staff, log |-> l, fresh |-> TRUE])
        PROVE  /\ \E d \in Requests : LooksUp(w, d)
               /\ \A d \in Requests : desk'[w] = d => d.log = l
    <2>1. PICK d \in Requests : d = [does |-> does, staff |-> log[l].staff, log |-> l, fresh |-> TRUE]
      BY <1>1 DEF Requests
    <2>2. desk'[w] = d /\ d.log = l /\ d.does = does
      BY <1>3, <2>1 DEF Begins, IInv, TypeOK
    <2> QED
      BY <1>3, <2>1, <2>2 DEF LooksUp
  <1> QED
    BY <1>2, <1>3, ActorsDiffer DEF Approve, Reject, ForceClockOut, Alert, AutoClockOut

LEMMA FinalizeLooksUp ==
  ASSUME IInv, NEW w \in Workers, NEW p \in Periods, Finalize(w, p)
  PROVE  \E d \in Requests : LooksUp(w, d)
  <1>1. PICK as \in {"sound", "unsound"} :
          Begins(w, [does |-> "finalizes", period |-> p, fresh |-> TRUE, as |-> as])
    BY DEF Finalize
  <1>2. PICK d \in Requests :
          d = [does |-> "finalizes", period |-> p, fresh |-> TRUE, as |-> as]
    BY DEF Requests
  <1> QED
    BY <1>1, <1>2, ActorsDiffer DEF LooksUp

LEMMA CreateLogGoesOn ==
  ASSUME IInv, NEW w \in Workers, NEW l \in Logs, CreateLog(w, l)
  PROVE  \E d \in Requests, next \in Requests \cup {Idle} : GoesOn(w, d, next)
  <1>0. w \in Actors /\ w # Alerts /\ w # Closer
    BY ActorsDiffer DEF Actors
  <1>1. PICK d \in Requests : desk[w] = d /\ d.does = "creates"
    BY <1>0 DEF CreateLog, Is, IInv, TypeOK
  <1>2. PICK next \in Requests : next = ThenDuty(d.staff, "on_duty") /\ next.does = "duty"
    BY <1>1, Kinds, ThenDutyIsARequest DEF Duties
  <1>3. \A m \in Logs : Exists(m) => log'[m] = log[m]
    BY DEF CreateLog, IInv, TypeOK
  <1>4. Writes(w, next) /\ UNCHANGED long
    BY <1>1, <1>2 DEF CreateLog
  <1> QED
    BY <1>0, <1>1, <1>2, <1>3, <1>4 DEF GoesOn

\* A row that is as fresh as its request says takes no warning back.
LEMMA SaveRowGoesOn ==
  ASSUME IInv, WarnedIsRead, NEW w \in Workers, SaveRow(w)
  PROVE  \E d \in Requests, next \in Requests \cup {Idle} : GoesOn(w, d, next)
  <1>0. w \in Actors /\ w # Alerts /\ w # Closer
    BY ActorsDiffer DEF Actors
  <1>1. PICK d \in Requests : desk[w] = d /\ d.does = "saves"
    BY <1>0 DEF SaveRow, Is, IInv, TypeOK
  <1>2. PICK next \in Requests : next = ThenDuty(d.staff, d.then) /\ next.does = "duty"
    BY <1>1, Kinds, ThenDutyIsARequest
  <1>3. /\ d.log \in Logs /\ Exists(d.log) /\ log[d.log].staff = d.staff /\ d.row \in Rows
        /\ d.fresh \in BOOLEAN
    BY <1>0, <1>1, LogOfRequest, Kinds
  <1>4. /\ log' = [log EXCEPT ![d.log] = [d.row EXCEPT !.hours = d.row.hours \/ ~d.row.open]]
        /\ stale' = (stale \/ ~d.fresh) /\ Writes(w, next) /\ UNCHANGED long
    BY <1>1, <1>2 DEF SaveRow
  <1>5. log'[d.log].warned = d.row.warned /\ \A m \in Logs \ {d.log} : log'[m] = log[m]
    BY <1>3, <1>4 DEF IInv, TypeOK, Rows
  <1>6. d.fresh => d.row.warned = log[d.log].warned
    BY <1>0, <1>1 DEF WarnedIsRead
  <1>7. \A m \in Logs : Exists(m) /\ log'[m] # log[m] => log[m].staff \in About(d)
    BY <1>1, <1>3, <1>5 DEF About
  <1>8. \A m \in Logs : Exists(m) /\ log[m].warned => log'[m].warned \/ stale'
    BY <1>3, <1>4, <1>5, <1>6
  <1> QED
    BY <1>0, <1>1, <1>2, <1>4, <1>7, <1>8 DEF GoesOn

LEMMA SaveVerdictGoesOn ==
  ASSUME IInv, NEW w \in Workers, SaveVerdict(w)
  PROVE  \E d \in Requests, next \in Requests \cup {Idle} : GoesOn(w, d, next)
  <1>0. w \in Actors /\ w # Alerts /\ w # Closer
    BY ActorsDiffer DEF Actors
  <1>1. PICK d \in Requests : desk[w] = d /\ d.does = "decides"
    BY <1>0 DEF SaveVerdict, Is, IInv, TypeOK
  <1>2. /\ d.log \in Logs /\ Exists(d.log) /\ log[d.log] \in Rows /\ log[d.log].staff = d.staff
        /\ d.staff \in Staff
    BY <1>0, <1>1, LogOfRequest
  <1>3. PICK next \in Requests \cup {Idle} : Writes(w, next) /\ (next # Idle => next.does = "closes")
    <2>1. [does |-> "closes", staff |-> d.staff, log |-> d.log, fresh |-> TRUE] \in Requests
      BY <1>2 DEF Requests
    <2>2. \/ Writes(w, [does |-> "closes", staff |-> d.staff, log |-> d.log, fresh |-> TRUE])
          \/ Writes(w, Idle)
      BY <1>1 DEF SaveVerdict
    <2> QED
      BY <2>1, <2>2
  <1>4. log' = [log EXCEPT ![d.log].verdict = d.verdict] /\ UNCHANGED long
    BY <1>1 DEF SaveVerdict
  <1>5. log'[d.log].warned = log[d.log].warned /\ \A m \in Logs \ {d.log} : log'[m] = log[m]
    BY <1>2, <1>4 DEF IInv, TypeOK, Rows
  <1>6. \A m \in Logs : Exists(m) /\ log'[m] # log[m] => log[m].staff \in About(d)
    BY <1>1, <1>2, <1>5 DEF About
  <1>7. \A m \in Logs : Exists(m) /\ log[m].warned => log'[m].warned \/ stale'
    BY <1>2, <1>5
  <1> QED
    BY <1>0, <1>1, <1>3, <1>4, <1>6, <1>7 DEF GoesOn

LEMMA SaveTimeOutGoesOn ==
  ASSUME IInv, NEW w \in Workers \cup {Closer}, SaveTimeOut(w)
  PROVE  \E d \in Requests, next \in Requests \cup {Idle} : GoesOn(w, d, next)
  <1>0. w \in Actors /\ w # Alerts
    BY ActorsDiffer DEF Actors
  <1>1. PICK d \in Requests : desk[w] = d /\ d.does = "closes"
    BY <1>0 DEF SaveTimeOut, Is, IInv, TypeOK
  <1>2. /\ d.log \in Logs /\ Exists(d.log) /\ log[d.log] \in Rows /\ log[d.log].staff = d.staff
        /\ d.staff \in Staff
    BY <1>0, <1>1, LogOfRequest
  <1>3. PICK next \in Requests : next = ThenDuty(d.staff, "off_duty") /\ next.does = "duty"
    BY <1>2, ThenDutyIsARequest DEF Duties
  <1>4. log' = [log EXCEPT ![d.log].open = FALSE] /\ Writes(w, next) /\ UNCHANGED long
    BY <1>1, <1>3 DEF SaveTimeOut
  <1>5. /\ log'[d.log].warned = log[d.log].warned /\ ~log'[d.log].open
        /\ \A m \in Logs \ {d.log} : log'[m] = log[m]
    BY <1>2, <1>4 DEF IInv, TypeOK, Rows
  <1>6. \A m \in Logs : Exists(m) /\ log'[m] # log[m] => log[m].staff \in About(d)
    BY <1>1, <1>2, <1>5 DEF About
  <1>7. \A m \in Logs : Exists(m) /\ log[m].warned => log'[m].warned \/ stale'
    BY <1>2, <1>5
  <1> QED
    BY <1>0, <1>1, <1>3, <1>4, <1>5, <1>6, <1>7 DEF GoesOn

LEMMA SaveWarningGoesOn ==
  ASSUME IInv, SaveWarning
  PROVE  \E d \in Requests, next \in Requests \cup {Idle} : GoesOn(Alerts, d, next)
  <1>0. Alerts \in Actors /\ Alerts # Closer
    BY ActorsDiffer DEF Actors
  <1>1. PICK d \in Requests : desk[Alerts] = d /\ d.does = "warns"
    BY <1>0 DEF SaveWarning, Is, IInv, TypeOK
  <1>2. /\ d.log \in Logs /\ Exists(d.log) /\ log[d.log] \in Rows /\ log[d.log].staff = d.staff
    BY <1>0, <1>1, LogOfRequest
  <1>3. log' = [log EXCEPT ![d.log].warned = TRUE] /\ Writes(Alerts, Idle) /\ UNCHANGED long
    BY <1>1 DEF SaveWarning
  <1>4. log'[d.log].warned /\ \A m \in Logs \ {d.log} : log'[m] = log[m]
    BY <1>2, <1>3 DEF IInv, TypeOK, Rows
  <1>5. \A m \in Logs : Exists(m) /\ log'[m] # log[m] => log[m].staff \in About(d)
    BY <1>1, <1>2, <1>4 DEF About
  <1>6. \A m \in Logs : Exists(m) /\ log[m].warned => log'[m].warned \/ stale'
    BY <1>2, <1>4
  <1>7. PICK next \in Requests \cup {Idle} : next = Idle
    OBVIOUS
  <1> QED
    BY <1>0, <1>1, <1>3, <1>4, <1>5, <1>6, <1>7 DEF GoesOn

\* Duties and periods are no logs.
LEMMA OtherSavesGoOn ==
  ASSUME IInv, NEW w \in Workers \cup {Closer}, SaveDuty(w) \/ (w \in Workers /\ SaveFinal(w))
  PROVE  \E d \in Requests, next \in Requests \cup {Idle} : GoesOn(w, d, next)
  <1>0. w \in Actors /\ w # Alerts
    BY ActorsDiffer DEF Actors
  <1>1. PICK d \in Requests : desk[w] = d /\ d.does \in {"duty", "finalizes"}
    BY <1>0 DEF SaveDuty, SaveFinal, Is, IInv, TypeOK
  <1>2. PICK next \in Requests \cup {Idle} : next = Idle
    OBVIOUS
  <1>3. Writes(w, next) /\ UNCHANGED <<log, long>>
    BY <1>2 DEF SaveDuty, SaveFinal
  <1> QED
    BY <1>0, <1>1, <1>2, <1>3 DEF GoesOn

\* Every step of the system is one of these.
LEMMA StepsAre ==
  ASSUME IInv, WarnedIsRead, Next
  PROVE  \/ UNCHANGED <<log, desk, stale>> /\ long \subseteq long'
         \/ \E w \in Actors, d \in Requests : LooksUp(w, d)
         \/ \E w \in Actors, d \in Requests, next \in Requests \cup {Idle} : GoesOn(w, d, next)
         \/ \E w \in Actors : CutOff(w)
  <1>0. Workers \subseteq Actors /\ Alerts \in Actors /\ Closer \in Actors
    BY DEF Actors
  <1>1. ASSUME NEW w \in Workers, NEW s \in Staff,
               \/ FaceClockIn(w, s) \/ ConfirmUnrostered(w, s)
               \/ FaceClockOut(w, s) \/ ConfirmClockOut(w, s) \/ ToggleBreak(w, s)
        PROVE  \E v \in Actors, d \in Requests : LooksUp(v, d)
    BY <1>0, <1>1, LookUps
  <1>2. ASSUME NEW w \in Workers, NEW l \in Logs, Approve(w, l) \/ Reject(w, l) \/ ForceClockOut(w, l)
        PROVE  \E v \in Actors, d \in Requests : LooksUp(v, d)
    BY <1>0, <1>2, DecisionsLookUp
  <1>3. ASSUME NEW l \in Logs, Alert(l) \/ AutoClockOut(l)
        PROVE  \E v \in Actors, d \in Requests : LooksUp(v, d)
    BY <1>0, <1>3, DecisionsLookUp
  <1>4. ASSUME NEW w \in Workers, NEW p \in Periods, Finalize(w, p)
        PROVE  \E v \in Actors, d \in Requests : LooksUp(v, d)
    BY <1>0, <1>4, FinalizeLooksUp
  <1>5. ASSUME NEW w \in Workers,
               \/ SaveRow(w) \/ SaveVerdict(w) \/ SaveTimeOut(w) \/ SaveFinal(w) \/ SaveDuty(w)
               \/ \E l \in Logs : CreateLog(w, l)
        PROVE  \E v \in Actors, d \in Requests, next \in Requests \cup {Idle} : GoesOn(v, d, next)
    BY <1>0, <1>5, CreateLogGoesOn, SaveRowGoesOn, SaveVerdictGoesOn, SaveTimeOutGoesOn, OtherSavesGoOn
  <1>6. ASSUME SaveWarning \/ SaveTimeOut(Closer) \/ SaveDuty(Closer)
        PROVE  \E v \in Actors, d \in Requests, next \in Requests \cup {Idle} : GoesOn(v, d, next)
    BY <1>0, <1>6, SaveWarningGoesOn, SaveTimeOutGoesOn, OtherSavesGoOn
  <1>7. CASE NextDay \/ (\E p \in Periods : Unfinalize(p)) \/ (\E l \in Logs : BecomesLong(l))
    BY <1>7 DEF NextDay, Unfinalize, BecomesLong
  <1> QED
    BY <1>1, <1>2, <1>3, <1>4, <1>5, <1>6, <1>7 DEF Next, AlertJob, CloserJob

-----------------------------------------------------------------------------
(* Long sessions end *)

LEMMA InitCommands == Init => WarnedIsRead /\ CommandsOnly
  BY NoneAreNone DEF Init, WarnedIsRead, CommandsOnly, Actors

\* The others keep their request, out of date perhaps.
LEMMA OthersStay ==
  ASSUME IInv, NEW w \in Actors, NEW d \in Requests, NEW next \in Requests \cup {Idle}, GoesOn(w, d, next),
         NEW v \in Actors \ {w}, NEW e \in Requests, desk'[v] = e
  PROVE  \E f \in Requests : /\ desk[v] = f /\ f.does = e.does
                             /\ e.fresh => e = f /\ About(e) \cap About(d) = {}
  <1>1. desk[w] = d /\ Writes(w, next)
    BY DEF GoesOn
  <1>2. desk[v] \in Requests
    BY <1>1, AfterWrites, NoneAreNone DEF IInv, TypeOK
  <1>3. PICK f \in Requests : desk[v] = f
    BY <1>2
  <1>4. (e = f /\ About(f) \cap About(d) = {}) \/ e = [f EXCEPT !.fresh = FALSE]
    <2>1. \A u \in Actors \ {w}, g \in Requests : desk[u] = g =>
            \/ desk'[u] = g /\ About(g) \cap About(d) = {}
            \/ desk'[u] = [g EXCEPT !.fresh = FALSE]
      BY <1>1, AfterWrites DEF IInv
    <2> QED
      BY <1>3, <2>1
  <1>5. CASE e = f /\ About(f) \cap About(d) = {}
    <2>1. e = f /\ f.does = e.does /\ About(e) \cap About(d) = {}
      BY <1>5
    <2> QED
      BY <1>3, <2>1
  <1>6. CASE e = [f EXCEPT !.fresh = FALSE]
    <2>1. e.does = f.does /\ ~e.fresh
      BY <1>6, OutOfDate
    <2> QED
      BY <1>3, <2>1
  <1> QED
    BY <1>4, <1>5, <1>6

LEMMA CommandsKeep == IInv /\ WarnedIsRead /\ CommandsOnly /\ [Next]_vars => WarnedIsRead' /\ CommandsOnly'
  <1> SUFFICES ASSUME IInv, WarnedIsRead, CommandsOnly, [Next]_vars PROVE WarnedIsRead' /\ CommandsOnly'
    OBVIOUS
  <1>0. Alerts \in Actors /\ Closer \in Actors /\ desk \in [Actors -> Requests \cup {Idle}]
    BY DEF Actors, IInv, TypeOK
  <1>1. CASE UNCHANGED <<log, desk>>
    BY <1>1 DEF WarnedIsRead, CommandsOnly
  <1>2. ASSUME NEW w \in Actors, NEW d \in Requests, LooksUp(w, d)
        PROVE  WarnedIsRead' /\ CommandsOnly'
    BY <1>0, <1>2 DEF LooksUp, Begins, WarnedIsRead, CommandsOnly
  <1>3. ASSUME NEW w \in Actors, NEW d \in Requests, NEW next \in Requests \cup {Idle}, GoesOn(w, d, next)
        PROVE  WarnedIsRead' /\ CommandsOnly'
    <2>1. desk'[w] = next /\ next \in Requests => next # Idle /\ next.does # "saves"
      BY <1>3, Kinds DEF GoesOn
    <2>w. desk'[w] = next
      BY <1>3, AfterWrites DEF GoesOn, IInv
    <2>2. WarnedIsRead'
      <3> SUFFICES ASSUME NEW v \in Actors, NEW e \in Requests, desk'[v] = e, e.does = "saves", e.fresh
                   PROVE  e.row.warned = log'[e.log].warned
        BY DEF WarnedIsRead
      <3>1. v # w
        BY <2>1, <2>w
      <3>2. desk[v] = e /\ About(e) \cap About(d) = {}
        BY <1>3, <3>1, OthersStay
      <3>3. e.log \in Logs /\ Exists(e.log) /\ log[e.log].staff = e.staff
        BY <3>2, LogOfRequest
      <3>4. log[e.log].staff \notin About(d)
        BY <3>2, <3>3 DEF About
      <3>5. log'[e.log] = log[e.log]
        BY <1>3, <3>3, <3>4 DEF GoesOn
      <3> QED
        BY <3>2, <3>5 DEF WarnedIsRead
    <2>3. CommandsOnly'
      <3>1. ASSUME NEW e \in Requests, desk'[Alerts] = e PROVE e.does = "warns"
        <4>1. w # Alerts
          BY <1>3, <2>w, <3>1, NoneAreNone DEF GoesOn
        <4> QED
          BY <1>0, <1>3, <3>1, <4>1, OthersStay DEF CommandsOnly
      <3>2. ASSUME NEW e \in Requests, desk'[Closer] = e PROVE e.does \in {"closes", "duty"}
        <4>1. CASE w = Closer
          BY <1>3, <2>w, <3>2, <4>1, NoneAreNone DEF GoesOn
        <4>2. CASE w # Closer
          BY <1>0, <1>3, <3>2, <4>2, OthersStay DEF CommandsOnly
        <4> QED
          BY <4>1, <4>2
      <3> QED
        BY <3>1, <3>2 DEF CommandsOnly
    <2> QED
      BY <2>2, <2>3
  <1>4. ASSUME NEW w \in Actors, CutOff(w)
        PROVE  WarnedIsRead' /\ CommandsOnly'
    <2>1. UNCHANGED log /\ \A v \in Actors, e \in Requests : desk'[v] = e => desk[v] = e
      BY <1>0, <1>4, NoneAreNone DEF CutOff
    <2> QED
      BY <1>0, <2>1 DEF WarnedIsRead, CommandsOnly
  <1> QED
    BY <1>1, <1>2, <1>3, <1>4, StepsAre DEF vars

\* The command is about log l.
Warning(l) == Is(Alerts, "warns") /\ desk[Alerts].log = l
Closing(l) == Is(Closer, "closes") /\ desk[Closer].log = l

\* A command goes on with the log that it has found until it has written.
LEMMA CommandsFinish ==
  ASSUME IInv, WarnedIsRead, CommandsOnly, [Next]_vars, NEW l \in Logs
  PROVE  /\ Warning(l) => Warning(l)' \/ log'[l].warned
         /\ Closing(l) => Closing(l)' \/ ~IsOpen(l)'
         /\ Is(Closer, "duty") => Is(Closer, "duty")' \/ (desk[Closer] = Idle)'
  <1>0. Alerts \in Actors /\ Closer \in Actors /\ desk \in [Actors -> Requests \cup {Idle}]
    BY DEF Actors, IInv, TypeOK
  <1>1. CASE UNCHANGED <<log, desk>>
    BY <1>1 DEF Warning, Closing, Is
  <1>2. ASSUME NEW w \in Actors, NEW d \in Requests, LooksUp(w, d)
        PROVE  \A v \in Actors : desk[v] # Idle => desk'[v] = desk[v]
    BY <1>0, <1>2 DEF LooksUp, Begins
  <1>3. ASSUME NEW w \in Actors, CutOff(w)
        PROVE  \A v \in Actors : desk[v] # Idle => desk'[v] = desk[v] \/ (desk[v].does = "duty" /\ desk'[v] = Idle)
    BY <1>0, <1>3 DEF CutOff, HalfWay
  <1>4. ASSUME NEW w \in Actors, NEW d \in Requests, NEW next \in Requests \cup {Idle}, GoesOn(w, d, next)
        PROVE  /\ Warning(l) => Warning(l)' \/ log'[l].warned
               /\ Closing(l) => Closing(l)' \/ ~IsOpen(l)'
               /\ Is(Closer, "duty") => Is(Closer, "duty")' \/ (desk[Closer] = Idle)'
    <2>1. desk[w] = d /\ Writes(w, next)
      BY <1>4 DEF GoesOn
    <2>2. /\ desk'[w] = next
          /\ \A v \in Actors \ {w}, e \in Requests : desk[v] = e =>
               desk'[v] = e \/ desk'[v] = [e EXCEPT !.fresh = FALSE]
      BY <2>1, AfterWrites DEF IInv
    <2>3. ASSUME NEW v \in Actors \ {w}, desk[v] # Idle
          PROVE  /\ desk'[v] # Idle /\ desk'[v].does = desk[v].does
                 /\ desk[v].does \in {"closes", "warns"} => desk'[v].log = desk[v].log
      <3>1. PICK e \in Requests : desk[v] = e
        BY <1>0, <2>3
      <3>2. CASE desk'[v] = e
        BY <2>3, <3>1, <3>2
      <3>3. CASE desk'[v] = [e EXCEPT !.fresh = FALSE]
        BY <3>1, <3>3, OutOfDate, NoneAreNone
      <3> QED
        BY <2>2, <3>1, <3>2, <3>3
    <2>4. ASSUME Warning(l) PROVE Warning(l)' \/ log'[l].warned
      BY <1>0, <1>4, <2>1, <2>3, <2>4 DEF Warning, Is, GoesOn
    <2>5. ASSUME Closing(l) PROVE Closing(l)' \/ ~IsOpen(l)'
      BY <1>0, <1>4, <2>1, <2>3, <2>5 DEF Closing, Is, GoesOn, IsOpen
    <2>6. ASSUME Is(Closer, "duty") PROVE Is(Closer, "duty")' \/ (desk[Closer] = Idle)'
      BY <1>0, <1>4, <2>1, <2>2, <2>3, <2>6 DEF Is, GoesOn
    <2> QED
      BY <2>4, <2>5, <2>6
  <1> QED
    BY <1>0, <1>1, <1>2, <1>3, <1>4, StepsAre DEF vars, Warning, Closing, Is

\* What is long stays long, and a warning stays until a stale row is saved.
LEMMA WarningsStay ==
  ASSUME IInv, WarnedIsRead, CommandsOnly, [Next]_vars, NEW l \in Logs, IsOpen(l)
  PROVE  /\ l \in long => l \in long'
         /\ log[l].warned => log'[l].warned \/ stale'
  BY StepsAre DEF vars, LooksUp, Begins, GoesOn, CutOff, IsOpen

\* Fairness of the two commands, with the conditions under which they can act
\* written out.  Every run goes over all open sessions: strong fairness for each of
\* them, as the command may be at another one, and weak fairness of what it writes.
CommandsAreFair ==
  /\ \A l \in Logs :
       /\ <>[]~(desk[Alerts] = Idle /\ IsOpen(l) /\ l \in long /\ log[l].verdict = "approved"
                  /\ ~log[l].warned)
          \/ []<><<Alert(l)>>_vars
       /\ <>[]~(desk[Closer] = Idle /\ IsOpen(l) /\ l \in long /\ log[l].verdict # "rejected"
                  /\ log[l].warned)
          \/ []<><<AutoClockOut(l)>>_vars
  /\ []<>~Is(Alerts, "warns") \/ []<><<SaveWarning>>_vars
  /\ []<>~Is(Closer, "closes") \/ []<><<SaveTimeOut(Closer)>>_vars
  /\ []<>~Is(Closer, "duty") \/ []<><<SaveDuty(Closer)>>_vars

\* An approved session of too many hours is warned about and then ended, whatever
\* clocks and managers do meanwhile, unless a stale row takes the warning back.
THEOREM LongSessionsAreEnded == Init /\ [][Next]_vars /\ CommandsAreFair => LongSessionsEnd
  <1> SUFFICES ASSUME NEW l \in Logs
               PROVE  /\ Init /\ [][Next]_vars
                      /\ <>[]~(desk[Alerts] = Idle /\ IsOpen(l) /\ l \in long /\ log[l].verdict = "approved"
                                 /\ ~log[l].warned)
                         \/ []<><<Alert(l)>>_vars
                      /\ <>[]~(desk[Closer] = Idle /\ IsOpen(l) /\ l \in long /\ log[l].verdict # "rejected"
                                 /\ log[l].warned)
                         \/ []<><<AutoClockOut(l)>>_vars
                      /\ []<>~Is(Alerts, "warns") \/ []<><<SaveWarning>>_vars
                      /\ []<>~Is(Closer, "closes") \/ []<><<SaveTimeOut(Closer)>>_vars
                      /\ []<>~Is(Closer, "duty") \/ []<><<SaveDuty(Closer)>>_vars
                      => ((IsOpen(l) /\ l \in long /\ log[l].verdict = "approved")
                             ~> (stale \/ ~IsOpen(l) \/ log[l].verdict # "approved"))
    BY DEF CommandsAreFair, LongSessionsEnd
  <1> DEFINE Long == IsOpen(l) /\ l \in long /\ log[l].verdict = "approved"
             Over == stale \/ ~IsOpen(l) \/ log[l].verdict # "approved"
             Inv == IInv /\ WarnedIsRead /\ CommandsOnly
             Warned == log[l].warned
  <1>1. Inv /\ Long /\ [Next]_vars => Long' \/ Over'
    BY WarningsStay
  <1>2. Inv /\ Long /\ Warned /\ [Next]_vars => Warned' \/ Over'
    BY WarningsStay
  <1>3. Inv => /\ (~Is(Alerts, "warns") => desk[Alerts] = Idle)
               /\ (~Is(Closer, "closes") /\ ~Is(Closer, "duty") => desk[Closer] = Idle)
    <2>1. Inv => desk[Alerts] \in Requests \cup {Idle} /\ desk[Closer] \in Requests \cup {Idle}
      BY DEF IInv, TypeOK, Actors
    <2> QED
      BY <2>1, NoneAreNone DEF CommandsOnly, Is
  <1>4. Inv /\ [Next]_vars =>
          /\ Warning(l) => Warning(l)' \/ Warned'
          /\ Closing(l) => Closing(l)' \/ Over'
          /\ Is(Closer, "duty") => Is(Closer, "duty")' \/ (desk[Closer] = Idle)'
    BY CommandsFinish
  <1>5. /\ Warning(l) => Is(Alerts, "warns")
        /\ Closing(l) => Is(Closer, "closes")
    BY DEF Warning, Closing
  <1>6. Inv /\ <<Alert(l)>>_vars => Warning(l)'
    <2> SUFFICES ASSUME Inv, Alert(l) PROVE Warning(l)'
      OBVIOUS
    <2>1. /\ \E d \in Requests : LooksUp(Alerts, d)
          /\ \A d \in Requests : desk'[Alerts] = d => d.log = l
      BY DecisionsLookUp DEF Actors
    <2>2. PICK d \in Requests : LooksUp(Alerts, d)
      BY <2>1
    <2>3. desk'[Alerts] = d /\ d # Idle /\ d.does = "warns"
      BY <2>2, NoneAreNone DEF LooksUp, Begins, IInv, TypeOK, Actors
    <2> QED
      BY <2>1, <2>3 DEF Warning, Is
  <1>7. Inv /\ <<AutoClockOut(l)>>_vars => Closing(l)'
    <2> SUFFICES ASSUME Inv, AutoClockOut(l) PROVE Closing(l)'
      OBVIOUS
    <2>1. /\ \E d \in Requests : LooksUp(Closer, d)
          /\ \A d \in Requests : desk'[Closer] = d => d.log = l
      BY DecisionsLookUp DEF Actors
    <2>2. PICK d \in Requests : LooksUp(Closer, d)
      BY <2>1
    <2>3. desk'[Closer] = d /\ d # Idle /\ d.does = "closes"
      BY <2>2, NoneAreNone DEF LooksUp, Begins, IInv, TypeOK, Actors
    <2> QED
      BY <2>1, <2>3 DEF Closing, Is
  <1>8. Inv /\ <<SaveWarning>>_vars => ~Is(Alerts, "warns")'
    <2>1. SaveWarning => desk'[Alerts] = Idle
      BY DEF SaveWarning, Writes, Actors
    <2> QED
      BY <2>1 DEF Is
  <1>9. Inv /\ <<SaveTimeOut(Closer)>>_vars => ~Is(Closer, "closes")'
    <2>1. SaveTimeOut(Closer) => desk'[Closer] = ThenDuty(desk[Closer].staff, "off_duty")
      BY DEF SaveTimeOut, Writes, Actors
    <2> QED
      BY <2>1 DEF Is, ThenDuty
  <1>10. Inv /\ <<SaveDuty(Closer)>>_vars => (desk[Closer] = Idle)'
    BY DEF SaveDuty, Writes, Actors
  <1>11. Init => Inv
    BY InitIInv, InitCommands
  <1>12. Inv /\ [Next]_vars => Inv'
    BY NextIInv, CommandsKeep
  <1>13. /\ Long <=> (IsOpen(l) /\ l \in long /\ log[l].verdict = "approved")
         /\ Over <=> (stale \/ ~IsOpen(l) \/ log[l].verdict # "approved")
         /\ Warned <=> log[l].warned
         /\ ~Over => log[l].verdict # "rejected"
    OBVIOUS
  <1> HIDE DEF Long, Over, Inv, Warned
  <1> QED
    BY <1>1, <1>2, <1>3, <1>4, <1>5, <1>6, <1>7, <1>8, <1>9, <1>10, <1>11, <1>12, <1>13, PTL

=============================================================================
