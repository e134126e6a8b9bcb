----------------------------- MODULE MCAttendance -----------------------------
(* Model checking Attendance: one member of staff, a period of one day, and a
   day after it. *)
EXTENDS Attendance, TLC

FirstDay == [p \in Periods |-> {1}]

InFlight == Cardinality({w \in Actors : desk[w] # Idle})

\* Bounds: two requests or commands at a time, which race each other over one
\* session that may become long; one at a time over two sessions; until a row is
\* saved over what others wrote, which nothing is claimed of.
Bounds ==
  /\ ~stale /\ 2 \notin long
  /\ InFlight <= 2
  /\ Exists(2) => clean /\ InFlight <= 1

=============================================================================
