---------------------------- MODULE OverstayProofs ----------------------------
(***************************************************************************)
(* The invariants of Overstay for any number of bookings, requests, keys   *)
(* and extensions.  They rest on what an extension that holds the lock of  *)
(* its booking knows: the departure date it goes on from, that its key is  *)
(* new, and that the nights it adds are free.                              *)
(***************************************************************************)
EXTENDS Overstay, TLAPS

Is(c, does) == desk[c] # Idle /\ desk[c].does = does

\* Rooms do not collide if b leaves on `end'.
Spares(b, end) ==
  \A o \in Bookings \ Forms :
    b # o /\ RoomOf[b] = RoomOf[o]
      => \/ booking[b].status = "COMPLETED" \/ booking[o].status = "COMPLETED"
         \/ end <= CheckIn[o] \/ booking[o].check_out <= CheckIn[b]

\* What an extension knows between its look-ups and its commit.
ExtensionsKnow ==
  \A c \in Clerks : Is(c, "charges") =>
    LET b == desk[c].booking
        row == desk[c].row
    IN  /\ lock[b] = c
        /\ row.old_checkout = booking[b].check_out
        /\ ~HasUsed(b, row.idempotency_key)
        /\ b \notin Forms => Spares(b, row.old_checkout + row.added_nights)

\* An acknowledgement has a row of the table.
AcksKnow == \A c \in Clerks : Is(c, "saves") => desk[c].row \in DOMAIN incident[desk[c].booking]

\* A stay has nights, and only an open form knows an earlier departure.
StaysAreStays ==
  \A b \in Bookings :
    /\ CheckIn[b] < booking[b].check_out
    /\ form[b] # Sent => b \in Forms
    /\ form[b] \notin {Blank, Sent}
         => CheckIn[b] < form[b].check_out /\ form[b].check_out <= booking[b].check_out

IInv ==
  /\ TypeOK /\ ExtensionsKnow /\ AcksKnow /\ StaysAreStays
  /\ DepartureIsExplained /\ KeysExtendOnce /\ FlaggedStaysAreLate /\ NextGuestKeepsTheRoom

-----------------------------------------------------------------------------
(* The calendar *)

LEMMA DeadlinesAreNumbers == \A x \in Nat : Deadline(x) \in Nat
BY OverstayAssumption DEF Deadline

LEMMA DeadlinesAreOrdered ==
  ASSUME NEW x \in Nat, NEW y \in Nat, x <= y
  PROVE  Deadline(x) <= Deadline(y)
<1>1. x * DayLength <= y * DayLength
  BY OverstayAssumption
<1> QED BY <1>1, OverstayAssumption DEF Deadline

\* What _resolve_overstay_if_applicable leaves open is late.
LEMMA NotResolvedIsLate ==
  ASSUME now \in Nat, NEW d \in Nat, d <= Today, d = Today => now >= Deadline(d)
  PROVE  now >= Deadline(d)
<1>1. Today \in Nat /\ Today * DayLength <= now
  BY OverstayAssumption DEF Today
<1>2. CASE d < Today
  <2>1. (d + 1) * DayLength <= Today * DayLength
    BY <1>1, <1>2, OverstayAssumption
  <2>2. (d + 1) * DayLength = d * DayLength + DayLength
    BY OverstayAssumption
  <2>3. d * DayLength \in Nat /\ Today * DayLength \in Nat
    BY <1>1, OverstayAssumption
  <2> QED BY <1>1, <2>1, <2>2, <2>3, OverstayAssumption DEF Deadline
<1> QED BY <1>1, <1>2

\* A rate is a number, and so is what nights cost at it.
LEMMA RatesAreNumbers ==
  ASSUME TypeOK, NEW b \in Bookings, CheckIn[b] < booking[b].check_out, NEW n \in Nat
  PROVE  NightlyRate(b) * n \in Nat
<1>1. booking[b].check_out \in Nat
  BY DEF TypeOK, Rows
<1>2. booking[b].check_out - CheckIn[b] \in Nat \ {0}
  BY <1>1, OverstayAssumption
<1>3. NightlyRate(b) \in Nat
  BY <1>2, OverstayAssumption DEF NightlyRate
<1> QED BY <1>3

-----------------------------------------------------------------------------
(* Steps *)

\* A step about a desk, incidents or the clock leaves what the rest is about.
LEMMA ExtensionsKeepKnowing ==
  ASSUME ExtensionsKnow, UNCHANGED <<booking, extension>>,
         \A c \in Clerks : Is(c, "charges")' =>
           Is(c, "charges") /\ desk'[c] = desk[c] /\ lock'[desk[c].booking] = lock[desk[c].booking]
  PROVE  ExtensionsKnow'
BY DEF ExtensionsKnow, HasUsed, Spares

\* A request that is not about to charge or to save an incident.
LEMMA BeginsOrEnds ==
  ASSUME TypeOK, NEW c \in Clerks, NEW q \in Requests \cup {Idle},
         desk' = [desk EXCEPT ![c] = q]
  PROVE  /\ desk' \in [Clerks -> Requests \cup {Idle}]
         /\ desk'[c] = q
         /\ \A d \in Clerks \ {c} : desk'[d] = desk[d]
BY DEF TypeOK

LEMMA InitIInv == Init => IInv
<1> SUFFICES ASSUME Init PROVE IInv
  OBVIOUS
<1>1. TypeOK
  BY OverstayAssumption DEF Init, TypeOK, Rows
<1>2. ExtensionsKnow /\ AcksKnow
  BY DEF Init, ExtensionsKnow, AcksKnow, Is
<1>3. StaysAreStays
  BY OverstayAssumption DEF Init, StaysAreStays
<1>4. DepartureIsExplained /\ KeysExtendOnce /\ FlaggedStaysAreLate
  BY DEF Init, DepartureIsExplained, Departure, KeysExtendOnce, FlaggedStaysAreLate
<1>5. NextGuestKeepsTheRoom
  BY OverstayAssumption DEF Init, NextGuestKeepsTheRoom
<1> QED BY <1>1, <1>2, <1>3, <1>4, <1>5 DEF IInv

\* What only bookings, extensions and forms decide.
LEMMA StaysUnchanged ==
  ASSUME IInv, UNCHANGED <<booking, extension, form>>
  PROVE  StaysAreStays' /\ DepartureIsExplained' /\ KeysExtendOnce' /\ NextGuestKeepsTheRoom'
BY DEF IInv, StaysAreStays, DepartureIsExplained, Departure, KeysExtendOnce, NextGuestKeepsTheRoom

LEMMA DetectKeepsIInv ==
  ASSUME IInv, NEW b \in Bookings, Detect(b)
  PROVE  IInv'
<1> USE DEF IInv
<1>1. New("OPEN", "command") \in Incidents
  BY DEF New, Incidents
<1>2. /\ incident' = [incident EXCEPT ![b] = Append(@, New("OPEN", "command"))]
      /\ UNCHANGED <<now, booking, extension, lock, desk, form>>
      /\ now >= Deadline(booking[b].check_out)
  BY DEF Detect, IsLate
<1>3. incident[b] \in Seq(Incidents)
  BY DEF TypeOK
<1>4. TypeOK'
  BY <1>1, <1>2, <1>3 DEF TypeOK
<1>5. ExtensionsKnow'
  BY <1>2, ExtensionsKeepKnowing DEF Is
<1>6. AcksKnow'
  BY <1>1, <1>2, <1>3 DEF AcksKnow, Is, TypeOK
<1>7. FlaggedStaysAreLate'
  BY <1>1, <1>2, <1>3 DEF FlaggedStaysAreLate, TypeOK, Deadline
<1> QED BY <1>2, <1>4, <1>5, <1>6, <1>7, StaysUnchanged

LEMMA AckReadsKeepsIInv ==
  ASSUME IInv, NEW c \in Clerks, NEW b \in Bookings, NEW as \in {"ACKED", "DISMISSED"}, AckReads(c, b, as)
  PROVE  IInv'
<1> USE DEF IInv
<1>1. UNCHANGED <<now, booking, incident, extension, lock, form>>
  BY DEF AckReads
<1>2. PICK q : /\ desk' = [desk EXCEPT ![c] = q]
               /\ \/ q = [does |-> "creates", booking |-> b, as |-> as]
                  \/ \E i \in Active(b) : q = [does |-> "saves", booking |-> b, as |-> as, row |-> i]
  BY DEF AckReads, Asks
<1>3. ASSUME q = [does |-> "creates", booking |-> b, as |-> as]
      PROVE  q \in Requests /\ q.does = "creates"
  <2>1. q \in [does : {"creates"}, booking : Bookings, as : {"ACKED", "DISMISSED"}]
    BY <1>3
  <2> QED BY <2>1, <1>3 DEF Requests
<1>4. ASSUME \E i \in Active(b) : q = [does |-> "saves", booking |-> b, as |-> as, row |-> i]
      PROVE  q \in Requests /\ q.does = "saves" /\ q.row \in DOMAIN incident[q.booking]
  <2>1. PICK i \in Active(b) : q = [does |-> "saves", booking |-> b, as |-> as, row |-> i]
    BY <1>4
  <2>2. i \in DOMAIN incident[b] /\ i \in Nat \ {0}
    BY DEF Active, TypeOK
  <2>3. q \in [does : {"saves"}, booking : Bookings, as : {"ACKED", "DISMISSED"}, row : Nat \ {0}]
    BY <2>1, <2>2
  <2> QED BY <2>1, <2>2, <2>3 DEF Requests
<1>10. q \in Requests /\ q.does # "charges" /\ (q.does = "saves" => q.row \in DOMAIN incident[q.booking])
  BY <1>2, <1>3, <1>4
<1>5. /\ desk' \in [Clerks -> Requests \cup {Idle}] /\ desk'[c] = q
      /\ \A d \in Clerks \ {c} : desk'[d] = desk[d]
  BY <1>2, <1>10, BeginsOrEnds
<1>6. TypeOK'
  BY <1>1, <1>5 DEF TypeOK
<1>7. ExtensionsKnow'
  BY <1>1, <1>5, <1>10, ExtensionsKeepKnowing DEF Is
<1>8. AcksKnow'
  BY <1>1, <1>5, <1>10 DEF AcksKnow, Is
<1>9. FlaggedStaysAreLate'
  BY <1>1 DEF FlaggedStaysAreLate, Deadline
<1> QED BY <1>1, <1>6, <1>7, <1>8, <1>9, StaysUnchanged

LEMMA AckCreatesKeepsIInv ==
  ASSUME IInv, NEW c \in Clerks, AckCreates(c)
  PROVE  IInv'
<1> USE DEF IInv
<1> DEFINE b == desk[c].booking
<1>1. UNCHANGED <<now, booking, extension, lock, form>> /\ desk[c] # Idle /\ desk[c].does = "creates"
  BY DEF AckCreates
<1>2. desk[c] \in [does : {"creates"}, booking : Bookings, as : {"ACKED", "DISMISSED"}]
  BY <1>1 DEF TypeOK, Requests
<1>3. b \in Bookings /\ incident[b] \in Seq(Incidents)
  BY <1>2 DEF TypeOK
<1>4. CASE Active(b) = {}
  <2> DEFINE q == [does |-> "saves", booking |-> b, as |-> desk[c].as, row |-> Len(incident'[b])]
  <2>1. /\ incident' = [incident EXCEPT ![b] = Append(@, New("OPEN", "clerk"))]
        /\ desk' = [desk EXCEPT ![c] = q]
    BY <1>4 DEF AckCreates
  <2>2. New("OPEN", "clerk") \in Incidents
    BY DEF New, Incidents
  <2>3. incident'[b] = Append(incident[b], New("OPEN", "clerk"))
    BY <1>3, <2>1 DEF TypeOK
  <2>4. Len(incident'[b]) \in DOMAIN incident'[b] /\ Len(incident'[b]) \in Nat \ {0}
    BY <1>3, <2>2, <2>3
  <2>5. q \in [does : {"saves"}, booking : Bookings, as : {"ACKED", "DISMISSED"}, row : Nat \ {0}]
    BY <1>2, <2>4
  <2>6. q \in Requests
    BY <2>5 DEF Requests
  <2>7. /\ desk' \in [Clerks -> Requests \cup {Idle}] /\ desk'[c] = q
        /\ \A d \in Clerks \ {c} : desk'[d] = desk[d]
    BY <2>1, <2>6, BeginsOrEnds
  <2>8. TypeOK'
    BY <1>1, <1>3, <2>1, <2>2, <2>7 DEF TypeOK
  <2>9. ExtensionsKnow'
    BY <1>1, <2>7, ExtensionsKeepKnowing DEF Is
  <2>10. \A o \in Bookings : DOMAIN incident[o] \subseteq DOMAIN incident'[o]
    BY <1>3, <2>1, <2>2 DEF TypeOK
  <2>11. AcksKnow'
    <3> SUFFICES ASSUME NEW d \in Clerks, Is(d, "saves")' PROVE (desk[d].row \in DOMAIN incident[desk[d].booking])'
      BY DEF AcksKnow
    <3>1. CASE d = c
      BY <2>4, <2>7, <3>1
    <3>2. CASE d # c
      <4>1. desk[d] \in Requests /\ Is(d, "saves")
        BY <2>7, <3>2 DEF Is, TypeOK
      <4>2. desk[d].booking \in Bookings
        BY <4>1 DEF Requests
      <4> QED BY <2>7, <2>10, <3>2, <4>1, <4>2 DEF AcksKnow
    <3> QED BY <3>1, <3>2
  <2>12. FlaggedStaysAreLate'
    BY <1>1, <1>3, <2>1, <2>2 DEF FlaggedStaysAreLate, New, TypeOK, Deadline
  <2> QED BY <1>1, <2>8, <2>9, <2>11, <2>12, StaysUnchanged
<1>5. CASE Active(b) # {}
  <2>1. desk' = [desk EXCEPT ![c] = Idle] /\ UNCHANGED incident
    BY <1>5 DEF AckCreates, Answered
  <2>2. /\ desk' \in [Clerks -> Requests \cup {Idle}] /\ desk'[c] = Idle
        /\ \A d \in Clerks \ {c} : desk'[d] = desk[d]
    BY <2>1, BeginsOrEnds
  <2>3. TypeOK'
    BY <1>1, <2>1, <2>2 DEF TypeOK
  <2>4. ExtensionsKnow'
    BY <1>1, <2>2, ExtensionsKeepKnowing DEF Is
  <2>5. AcksKnow' /\ FlaggedStaysAreLate'
    BY <1>1, <2>1, <2>2 DEF AcksKnow, Is, FlaggedStaysAreLate, Deadline
  <2> QED BY <1>1, <2>3, <2>4, <2>5, StaysUnchanged
<1> QED BY <1>4, <1>5

LEMMA AckSavesKeepsIInv ==
  ASSUME IInv, NEW c \in Clerks, AckSaves(c)
  PROVE  IInv'
<1> USE DEF IInv
<1> DEFINE b == desk[c].booking
           i == desk[c].row
<1>1. /\ UNCHANGED <<now, booking, extension, lock, form>> /\ desk[c] # Idle /\ desk[c].does = "saves"
      /\ desk' = [desk EXCEPT ![c] = Idle]
      /\ incident' = incident \/ incident' = [incident EXCEPT ![b][i].status = desk[c].as]
  BY DEF AckSaves, Answered
<1>2. desk[c] \in [does : {"saves"}, booking : Bookings, as : {"ACKED", "DISMISSED"}, row : Nat \ {0}]
  BY <1>1 DEF TypeOK, Requests
<1>3. b \in Bookings /\ incident[b] \in Seq(Incidents) /\ i \in DOMAIN incident[b]
  BY <1>1, <1>2 DEF TypeOK, AcksKnow, Is
<1>4. /\ desk' \in [Clerks -> Requests \cup {Idle}] /\ desk'[c] = Idle
      /\ \A d \in Clerks \ {c} : desk'[d] = desk[d]
  BY <1>1, BeginsOrEnds
<1>5. /\ incident' \in [Bookings -> Seq(Incidents)]
      /\ \A o \in Bookings : DOMAIN incident'[o] = DOMAIN incident[o]
      /\ \A o \in Bookings : \A j \in DOMAIN incident[o] :
           incident'[o][j] = New("OPEN", "command") => incident'[o][j] = incident[o][j]
  <2>1. CASE incident' = incident
    BY <2>1 DEF TypeOK
  <2>2. CASE incident' = [incident EXCEPT ![b][i].status = desk[c].as]
    <3> DEFINE row == [incident[b][i] EXCEPT !.status = desk[c].as]
    <3>1. incident[b][i] \in Incidents
      BY <1>3
    <3>2. row \in Incidents /\ row.status # "OPEN"
      BY <1>2, <3>1 DEF Incidents
    <3>3. incident' = [incident EXCEPT ![b] = [incident[b] EXCEPT ![i] = row]]
      BY <2>2
    <3>4. [incident[b] EXCEPT ![i] = row] \in Seq(Incidents)
      BY <1>3, <3>2
    <3>5. incident' \in [Bookings -> Seq(Incidents)]
      BY <1>3, <3>3, <3>4 DEF TypeOK
    <3>6. \A o \in Bookings : DOMAIN incident'[o] = DOMAIN incident[o]
      BY <1>3, <3>3 DEF TypeOK
    <3>7. row # New("OPEN", "command")
      BY <3>2 DEF New
    <3>8. \A o \in Bookings : \A j \in DOMAIN incident[o] :
            incident'[o][j] = IF o = b /\ j = i THEN row ELSE incident[o][j]
      BY <1>3, <3>3 DEF TypeOK
    <3> QED BY <3>5, <3>6, <3>7, <3>8
  <2> QED BY <1>1, <2>1, <2>2
<1>6. TypeOK'
  BY <1>1, <1>4, <1>5 DEF TypeOK
<1>7. ExtensionsKnow'
  BY <1>1, <1>4, ExtensionsKeepKnowing DEF Is
<1>8. AcksKnow'
  <2> SUFFICES ASSUME NEW d \in Clerks, Is(d, "saves")' PROVE (desk[d].row \in DOMAIN incident[desk[d].booking])'
    BY DEF AcksKnow
  <2>1. d # c /\ desk'[d] = desk[d] /\ Is(d, "saves")
    BY <1>4 DEF Is
  <2>2. desk[d] \in Requests
    BY <2>1 DEF Is, TypeOK
  <2>3. desk[d].booking \in Bookings
    BY <2>2 DEF Requests
  <2> QED BY <1>5, <2>1, <2>3 DEF AcksKnow
<1>9. FlaggedStaysAreLate'
  BY <1>1, <1>5 DEF FlaggedStaysAreLate, Deadline, New
<1> QED BY <1>1, <1>6, <1>7, <1>8, <1>9, StaysUnchanged

LEMMA ExtendReadsKeepsIInv ==
  ASSUME IInv, NEW c \in Clerks, NEW b \in Bookings, NEW key \in Keys \cup {NoKey},
         NEW by \in {"nights", "date"}, NEW value,
         by = "nights" => value \in Nights, by = "date" => value \in Nat,
         ExtendReads(c, b, key, by, value)
  PROVE  IInv'
<1> USE DEF IInv
<1> DEFINE q == [does |-> "locks", booking |-> b, key |-> key, by |-> by, value |-> value]
<1>1. UNCHANGED <<now, booking, incident, extension, lock, form>> /\ desk' = [desk EXCEPT ![c] = q]
  BY DEF ExtendReads, Asks
<1>2. ASSUME by = "nights" PROVE q \in Requests
  <2>1. q \in [does : {"locks"}, booking : Bookings, key : Keys \cup {NoKey},
               by : {"nights"}, value : Nights]
    BY <1>2
  <2> QED BY <2>1 DEF Requests
<1>3. ASSUME by = "date" PROVE q \in Requests
  <2>1. q \in [does : {"locks"}, booking : Bookings, key : Keys \cup {NoKey},
               by : {"date"}, value : Nat]
    BY <1>3
  <2> QED BY <2>1 DEF Requests
<1>4. q \in Requests
  BY <1>2, <1>3
<1>5. /\ desk' \in [Clerks -> Requests \cup {Idle}] /\ desk'[c] = q
      /\ \A d \in Clerks \ {c} : desk'[d] = desk[d]
  BY <1>1, <1>4, BeginsOrEnds
<1>6. TypeOK'
  BY <1>1, <1>5 DEF TypeOK
<1>7. ExtensionsKnow'
  BY <1>1, <1>5, ExtensionsKeepKnowing DEF Is
<1>8. AcksKnow' /\ FlaggedStaysAreLate'
  BY <1>1, <1>5 DEF AcksKnow, Is, FlaggedStaysAreLate, Deadline
<1> QED BY <1>1, <1>6, <1>7, <1>8, StaysUnchanged

\* A request that ends and, if it was an extension, gives up its lock.
LEMMA EndsKeepsIInv ==
  ASSUME IInv, NEW c \in Clerks, Answered(c), UNCHANGED <<now, booking, incident, extension, form>>,
         lock' \in [Bookings -> Clerks \cup {Idle}],
         \A b \in Bookings : lock[b] # c => lock'[b] = lock[b]
  PROVE  IInv'
<1> USE DEF IInv
<1>1. /\ desk' \in [Clerks -> Requests \cup {Idle}] /\ desk'[c] = Idle
      /\ \A d \in Clerks \ {c} : desk'[d] = desk[d]
  BY BeginsOrEnds DEF Answered
<1>2. TypeOK'
  BY <1>1 DEF TypeOK
<1>3. ExtensionsKnow'
  <2>1. ASSUME NEW d \in Clerks, Is(d, "charges")'
        PROVE  Is(d, "charges") /\ desk'[d] = desk[d] /\ lock'[desk[d].booking] = lock[desk[d].booking]
    <3>1. d # c /\ desk'[d] = desk[d] /\ Is(d, "charges")
      BY <1>1, <2>1 DEF Is
    <3>2. desk[d].booking \in Bookings /\ lock[desk[d].booking] = d
      BY <3>1 DEF Is, TypeOK, Requests, ExtensionsKnow
    <3> QED BY <3>1, <3>2
  <2> QED BY <2>1, ExtensionsKeepKnowing
<1>4. AcksKnow' /\ FlaggedStaysAreLate'
  BY <1>1 DEF AcksKnow, Is, FlaggedStaysAreLate, Deadline
<1> QED BY <1>2, <1>3, <1>4, StaysUnchanged

LEMMA CutOffKeepsIInv ==
  ASSUME IInv, NEW c \in Clerks, CutOff(c)
  PROVE  IInv'
<1>1. lock' = [b \in Bookings |-> IF lock[b] = c THEN Idle ELSE lock[b]]
  BY DEF CutOff
<1>2. lock' \in [Bookings -> Clerks \cup {Idle}]
  BY <1>1 DEF IInv, TypeOK
<1> QED BY <1>1, <1>2, EndsKeepsIInv DEF CutOff

\* Nights that the look-up has found free are free.
LEMMA FreeNightsAreSpared ==
  ASSUME IInv, NEW b \in Bookings \ Forms, NEW end \in Nat,
         Conflicts(b, booking[b].check_out, end) = {}
  PROVE  Spares(b, end)
<1> USE DEF IInv
<1> SUFFICES ASSUME NEW o \in Bookings \ Forms, b # o, RoomOf[b] = RoomOf[o],
                    booking[b].status # "COMPLETED", booking[o].status # "COMPLETED",
                    ~(end <= CheckIn[o])
             PROVE  booking[o].check_out <= CheckIn[b]
  BY DEF Spares
<1>1. /\ CheckIn[b] \in Nat /\ CheckIn[o] \in Nat
      /\ booking[b].check_out \in Nat /\ booking[o].check_out \in Nat
      /\ booking[o].status \in {"CONFIRMED", "IN_HOUSE"}
  BY OverstayAssumption DEF TypeOK, Rows
<1>2. ~(booking[o].check_out > booking[b].check_out)
  BY <1>1 DEF Conflicts
<1>3. CheckIn[o] < booking[o].check_out
  BY DEF StaysAreStays
<1>4. booking[b].check_out <= CheckIn[o] \/ booking[o].check_out <= CheckIn[b]
  BY DEF NextGuestKeepsTheRoom
<1> QED BY <1>1, <1>2, <1>3, <1>4

\* What an extension is about to charge once it has the lock.
LEMMA ChargesAreRequests ==
  ASSUME IInv, NEW c \in Clerks, Is(c, "locks"),
         ~(desk[c].by = "date" /\ desk[c].value <= booking[desk[c].booking].check_out)
  PROVE  LET b == desk[c].booking
             row == [idempotency_key |-> desk[c].key, old_checkout |-> booking[b].check_out,
                     added_nights |-> AddedNights(desk[c]),
                     amount_delta |-> NightlyRate(b) * AddedNights(desk[c])]
         IN  /\ b \in Bookings /\ AddedNights(desk[c]) \in Nat \ {0}
             /\ [does |-> "charges", booking |-> b, row |-> row] \in Requests
<1> USE DEF IInv
<1> DEFINE r == desk[c]
           b == r.booking
           old == booking[b].check_out
           row == [idempotency_key |-> r.key, old_checkout |-> old, added_nights |-> AddedNights(r),
                   amount_delta |-> NightlyRate(b) * AddedNights(r)]
           q == [does |-> "charges", booking |-> b, row |-> row]
<1>1. /\ b \in Bookings /\ r.key \in Keys \cup {NoKey} /\ r.by \in {"nights", "date"}
      /\ r.by = "nights" => r.value \in Nat \ {0}
      /\ r.by = "date" => r.value \in Nat
  BY OverstayAssumption DEF TypeOK, Requests, Is
<1>2. old \in Nat /\ CheckIn[b] < old
  BY <1>1 DEF TypeOK, Rows, StaysAreStays
<1>3. AddedNights(r) \in Nat \ {0}
  BY <1>1, <1>2 DEF AddedNights
<1>4. NightlyRate(b) * AddedNights(r) \in Nat
  BY <1>1, <1>2, <1>3, RatesAreNumbers
<1>5. row \in Extensions
  BY <1>1, <1>2, <1>3, <1>4 DEF Extensions
<1>6. q \in [does : {"charges"}, booking : Bookings, row : Extensions]
  BY <1>1, <1>5
<1>7. q \in Requests
  BY <1>6 DEF Requests
<1> QED BY <1>1, <1>3, <1>7

LEMMA ExtendLocksKeepsIInv ==
  ASSUME IInv, NEW c \in Clerks, ExtendLocks(c)
  PROVE  IInv'
<1> USE DEF IInv
<1> DEFINE r == desk[c]
           b == r.booking
           old == booking[b].check_out
           row == [idempotency_key |-> r.key, old_checkout |-> old, added_nights |-> AddedNights(r),
                   amount_delta |-> NightlyRate(b) * AddedNights(r)]
           q == [does |-> "charges", booking |-> b, row |-> row]
           refused == \/ HasUsed(b, r.key)
                      \/ (r.by = "date" /\ r.value <= old)
                      \/ Conflicts(b, old, old + AddedNights(r)) # {}
<1>1. /\ UNCHANGED <<now, booking, incident, extension, form>> /\ desk[c] # Idle /\ r.does = "locks"
      /\ lock[b] = Idle
      /\ refused => Answered(c) /\ UNCHANGED lock
      /\ ~refused => lock' = [lock EXCEPT ![b] = c] /\ desk' = [desk EXCEPT ![c] = q]
  BY DEF ExtendLocks
<1>2. CASE refused
  BY <1>1, <1>2, EndsKeepsIInv DEF TypeOK
<1>3. CASE ~refused
  <2>1. b \in Bookings /\ AddedNights(r) \in Nat \ {0} /\ q \in Requests
    BY <1>1, <1>3, ChargesAreRequests DEF Is
  <2>2. old \in Nat /\ CheckIn[b] < old
    BY <2>1 DEF TypeOK, Rows, StaysAreStays
  <2>8. /\ desk' \in [Clerks -> Requests \cup {Idle}] /\ desk'[c] = q
        /\ \A d \in Clerks \ {c} : desk'[d] = desk[d]
    BY <1>1, <1>3, <2>1, BeginsOrEnds
  <2>9. lock' \in [Bookings -> Clerks \cup {Idle}] /\ lock'[b] = c
        /\ \A o \in Bookings \ {b} : lock'[o] = lock[o]
    BY <1>1, <1>3, <2>1 DEF TypeOK
  <2>10. TypeOK'
    BY <1>1, <2>8, <2>9 DEF TypeOK
  <2>11. b \notin Forms => Spares(b, old + AddedNights(r))
    BY <1>3, <2>1, <2>2, FreeNightsAreSpared
  <2>12. ExtensionsKnow'
    <3> SUFFICES ASSUME NEW d \in Clerks, Is(d, "charges")'
                 PROVE  (LET x == desk[d].booking
                             w == desk[d].row
                         IN  /\ lock[x] = d
                             /\ w.old_checkout = booking[x].check_out
                             /\ ~HasUsed(x, w.idempotency_key)
                             /\ x \notin Forms => Spares(x, w.old_checkout + w.added_nights))'
      BY DEF ExtensionsKnow
    <3>1. CASE d = c
      <4>1. \A x : /\ \A k : HasUsed(x, k)' <=> HasUsed(x, k)
                   /\ \A end : Spares(x, end)' <=> Spares(x, end)
        BY <1>1 DEF HasUsed, Spares
      <4>2. desk'[d].booking = b /\ desk'[d].row = row /\ lock'[b] = d /\ booking'[b].check_out = old
        BY <1>1, <2>8, <2>9, <3>1
      <4>3. row.old_checkout = old /\ row.idempotency_key = r.key /\ row.added_nights = AddedNights(r)
        OBVIOUS
      <4> HIDE DEF row
      <4> QED BY <1>1, <1>3, <2>11, <4>1, <4>2, <4>3
    <3>2. CASE d # c
      <4>1. desk'[d] = desk[d] /\ Is(d, "charges")
        BY <2>8, <3>2 DEF Is
      <4>2. desk[d].booking \in Bookings /\ lock[desk[d].booking] = d
        BY <4>1 DEF Is, TypeOK, Requests, ExtensionsKnow
      <4>3. lock'[desk[d].booking] = d
        BY <1>1, <2>9, <4>2, OverstayAssumption
      <4> QED BY <1>1, <4>1, <4>3 DEF ExtensionsKnow, HasUsed, Spares
    <3> QED BY <3>1, <3>2
  <2>13. AcksKnow' /\ FlaggedStaysAreLate'
    BY <1>1, <2>8 DEF AcksKnow, Is, FlaggedStaysAreLate, Deadline
  <2> QED BY <1>1, <2>10, <2>12, <2>13, StaysUnchanged
<1> QED BY <1>2, <1>3

\* The row of a booking that no extension has locked is saved.
LEMMA StayStepKeepsIInv ==
  ASSUME IInv, NEW b \in Bookings, lock[b] = Idle, NEW k \in Rows,
         UNCHANGED <<now, incident, extension, lock, desk>>,
         booking' = [booking EXCEPT ![b] = k],
         CheckIn[b] < k.check_out, k.check_out <= booking[b].check_out,
         b \notin Forms => k.check_out = booking[b].check_out,
         b \notin Forms /\ booking[b].status = "COMPLETED" => k.status = "COMPLETED",
         form' \in [Bookings -> Rows \cup {Blank, Sent}],
         \A o \in Bookings : form'[o] # Sent => o \in Forms,
         \A o \in Bookings : form'[o] \notin {Blank, Sent}
           => CheckIn[o] < form'[o].check_out /\ form'[o].check_out <= booking'[o].check_out
  PROVE  IInv'
<1> USE DEF IInv
<1>1. /\ booking' \in [Bookings -> Rows] /\ booking'[b] = k
      /\ \A o \in Bookings \ {b} : booking'[o] = booking[o]
  BY DEF TypeOK
<1>2. TypeOK'
  BY <1>1 DEF TypeOK
<1>3. /\ \A o \in Bookings \ Forms : booking'[o].check_out = booking[o].check_out
      /\ \A o \in Bookings \ Forms : booking[o].status = "COMPLETED" => booking'[o].status = "COMPLETED"
  BY <1>1
<1>4. ExtensionsKnow'
  <2> SUFFICES ASSUME NEW d \in Clerks, Is(d, "charges")
               PROVE  LET x == desk[d].booking
                          w == desk[d].row
                      IN  /\ lock[x] = d
                          /\ w.old_checkout = booking'[x].check_out
                          /\ ~HasUsed(x, w.idempotency_key)
                          /\ x \notin Forms => Spares(x, w.old_checkout + w.added_nights)'
    BY DEF ExtensionsKnow, Is, HasUsed, Spares
  <2> DEFINE x == desk[d].booking
             w == desk[d].row
  <2>1. /\ x \in Bookings /\ lock[x] = d /\ w.old_checkout = booking[x].check_out
        /\ ~HasUsed(x, w.idempotency_key)
        /\ x \notin Forms => Spares(x, w.old_checkout + w.added_nights)
    BY DEF Is, TypeOK, Requests, ExtensionsKnow
  <2>2. x # b /\ booking'[x] = booking[x]
    BY <1>1, <2>1, OverstayAssumption
  <2>3. \A e : x \notin Forms /\ Spares(x, e) => Spares(x, e)'
    BY <1>3, <2>1, <2>2 DEF Spares
  <2> QED BY <2>1, <2>2, <2>3
<1>5. AcksKnow'
  BY DEF AcksKnow, Is
<1>6. StaysAreStays'
  BY <1>1 DEF StaysAreStays
<1>7. DepartureIsExplained'
  BY <1>3 DEF DepartureIsExplained, Departure
<1>8. KeysExtendOnce'
  BY DEF KeysExtendOnce
<1>9. FlaggedStaysAreLate'
  <2> SUFFICES ASSUME NEW o \in Bookings, NEW i \in DOMAIN incident[o],
                      incident[o][i] = New("OPEN", "command")
               PROVE  now >= Deadline(booking'[o].check_out)
    BY DEF FlaggedStaysAreLate, New, Deadline
  <2>1. now >= Deadline(booking[o].check_out)
    BY DEF FlaggedStaysAreLate
  <2>2. booking'[o].check_out \in Nat /\ booking[o].check_out \in Nat
    BY <1>1 DEF TypeOK, Rows
  <2>3. booking'[o].check_out <= booking[o].check_out
    BY <1>1, <2>2
  <2>4. Deadline(booking'[o].check_out) <= Deadline(booking[o].check_out)
    BY <2>2, <2>3, DeadlinesAreOrdered
  <2>5. Deadline(booking'[o].check_out) \in Nat /\ Deadline(booking[o].check_out) \in Nat
    BY <2>2, DeadlinesAreNumbers
  <2>6. now \in Nat
    BY OverstayAssumption DEF TypeOK
  <2> QED BY <2>1, <2>4, <2>5, <2>6
<1>10. NextGuestKeepsTheRoom'
  BY <1>3 DEF NextGuestKeepsTheRoom
<1> QED BY <1>2, <1>4, <1>5, <1>6, <1>7, <1>8, <1>9, <1>10

LEMMA AdminMarksInHouseKeepsIInv ==
  ASSUME IInv, NEW b \in Bookings, AdminMarksInHouse(b)
  PROVE  IInv'
<1> DEFINE k == [booking[b] EXCEPT !.status = "IN_HOUSE"]
<1>1. /\ lock[b] = Idle /\ booking[b].status = "CONFIRMED"
      /\ booking' = [booking EXCEPT ![b] = k]
      /\ UNCHANGED <<now, incident, extension, lock, desk, form>>
  BY DEF AdminMarksInHouse
<1>2. k \in Rows /\ k.check_out = booking[b].check_out /\ booking[b].check_out \in Nat
  BY DEF IInv, TypeOK, Rows
<1>3. \A o \in Bookings : booking'[o].check_out = booking[o].check_out
  BY <1>1, <1>2 DEF IInv, TypeOK
<1>4. CheckIn[b] < booking[b].check_out /\ booking[b].check_out <= booking[b].check_out
  BY <1>2 DEF IInv, StaysAreStays
<1>5. ASSUME NEW o \in Bookings
      PROVE  /\ form'[o] # Sent => o \in Forms
             /\ form'[o] \notin {Blank, Sent}
                  => CheckIn[o] < form'[o].check_out /\ form'[o].check_out <= booking'[o].check_out
  BY <1>1, <1>3 DEF IInv, StaysAreStays
<1>6. form' \in [Bookings -> Rows \cup {Blank, Sent}]
  BY <1>1 DEF IInv, TypeOK
<1>7. booking[b].status # "COMPLETED"
  BY <1>1, <1>2
<1> HIDE DEF k
<1> QED BY <1>1, <1>2, <1>4, <1>5, <1>6, <1>7, StayStepKeepsIInv

LEMMA CheckOutBookingKeepsIInv ==
  ASSUME IInv, NEW b \in Bookings, CheckOutBooking(b)
  PROVE  IInv'
<1> DEFINE k == [booking[b] EXCEPT !.status = "COMPLETED", !.checked_out_at = TRUE]
<1>1. /\ lock[b] = Idle
      /\ booking' = [booking EXCEPT ![b] = k]
      /\ UNCHANGED <<now, incident, extension, lock, desk, form>>
  BY DEF CheckOutBooking
<1>2. /\ k \in Rows /\ k.check_out = booking[b].check_out /\ booking[b].check_out \in Nat
      /\ k.status = "COMPLETED"
  BY DEF IInv, TypeOK, Rows
<1>3. \A o \in Bookings : booking'[o].check_out = booking[o].check_out
  BY <1>1, <1>2 DEF IInv, TypeOK
<1>4. CheckIn[b] < booking[b].check_out /\ booking[b].check_out <= booking[b].check_out
  BY <1>2 DEF IInv, StaysAreStays
<1>5. ASSUME NEW o \in Bookings
      PROVE  /\ form'[o] # Sent => o \in Forms
             /\ form'[o] \notin {Blank, Sent}
                  => CheckIn[o] < form'[o].check_out /\ form'[o].check_out <= booking'[o].check_out
  BY <1>1, <1>3 DEF IInv, StaysAreStays
<1>6. form' \in [Bookings -> Rows \cup {Blank, Sent}]
  BY <1>1 DEF IInv, TypeOK
<1>7. k.status = "COMPLETED"
  BY <1>1, <1>2
<1> HIDE DEF k
<1> QED BY <1>1, <1>2, <1>4, <1>5, <1>6, <1>7, StayStepKeepsIInv

LEMMA FormReadsKeepsIInv ==
  ASSUME IInv, NEW b \in Bookings, FormReads(b)
  PROVE  IInv'
<1> USE DEF IInv
<1>1. /\ form[b] = Blank /\ form' = [form EXCEPT ![b] = booking[b]]
      /\ UNCHANGED <<now, booking, incident, extension, lock, desk>>
  BY DEF FormReads
<1>2. booking[b] \in Rows /\ booking[b].check_out \in Nat
  BY DEF TypeOK, Rows
<1>3. TypeOK'
  BY <1>1, <1>2 DEF TypeOK
<1>4. ExtensionsKnow'
  BY <1>1, ExtensionsKeepKnowing DEF Is
<1>5. AcksKnow' /\ FlaggedStaysAreLate'
  BY <1>1 DEF AcksKnow, Is, FlaggedStaysAreLate, Deadline
<1>7. DepartureIsExplained'
  BY <1>1 DEF DepartureIsExplained, Departure
<1>8. KeysExtendOnce' /\ NextGuestKeepsTheRoom'
  BY <1>1 DEF KeysExtendOnce, NextGuestKeepsTheRoom
<1>6. StaysAreStays'
  <2>1. form[b] # Sent
    BY <1>1, OverstayAssumption
  <2> QED BY <1>1, <1>2, <2>1 DEF StaysAreStays, TypeOK
<1> QED BY <1>3, <1>4, <1>5, <1>6, <1>7, <1>8

LEMMA FormSavesKeepsIInv ==
  ASSUME IInv, NEW b \in Bookings, FormSaves(b)
  PROVE  IInv'
<1> USE DEF IInv
<1>1. /\ form[b] \notin {Blank, Sent} /\ lock[b] = Idle
      /\ booking' = [booking EXCEPT ![b] = form[b]] /\ form' = [form EXCEPT ![b] = Sent]
      /\ UNCHANGED <<now, incident, extension, lock, desk>>
  BY DEF FormSaves
<1>2. form[b] \in Rows /\ b \in Forms
  BY <1>1 DEF TypeOK, StaysAreStays
<1>3. CheckIn[b] < form[b].check_out /\ form[b].check_out <= booking[b].check_out
  BY <1>1 DEF StaysAreStays
<1>4. form' \in [Bookings -> Rows \cup {Blank, Sent}]
  BY <1>1 DEF TypeOK
<1>5. ASSUME NEW o \in Bookings
      PROVE  /\ form'[o] # Sent => o \in Forms
             /\ form'[o] \notin {Blank, Sent}
                  => CheckIn[o] < form'[o].check_out /\ form'[o].check_out <= booking'[o].check_out
  BY <1>1 DEF StaysAreStays, TypeOK
<1> QED BY <1>1, <1>2, <1>3, <1>4, <1>5, StayStepKeepsIInv

LEMMA TickKeepsIInv ==
  ASSUME IInv, Tick
  PROVE  IInv'
<1> USE DEF IInv
<1>1. /\ now' = now + 1 /\ now < LastHour
      /\ UNCHANGED <<booking, incident, extension, lock, desk, form>>
  BY DEF Tick
<1>2. TypeOK'
  BY <1>1, OverstayAssumption DEF TypeOK
<1>3. ExtensionsKnow'
  BY <1>1, ExtensionsKeepKnowing DEF Is
<1>4. AcksKnow'
  BY <1>1 DEF AcksKnow, Is
<1>6. FlaggedStaysAreLate'
  <2> SUFFICES ASSUME NEW o \in Bookings, NEW i \in DOMAIN incident[o],
                      incident[o][i] = New("OPEN", "command")
               PROVE  now' >= Deadline(booking[o].check_out)
    BY <1>1 DEF FlaggedStaysAreLate, New, Deadline
  <2>1. now >= Deadline(booking[o].check_out)
    BY DEF FlaggedStaysAreLate
  <2>2. booking[o].check_out \in Nat /\ now \in Nat
    BY OverstayAssumption DEF TypeOK, Rows
  <2>3. Deadline(booking[o].check_out) \in Nat
    BY <2>2, DeadlinesAreNumbers
  <2> QED BY <1>1, <2>1, <2>2, <2>3
<1> QED BY <1>1, <1>2, <1>3, <1>4, <1>6, StaysUnchanged

LEMMA ResolvedIsATable ==
  ASSUME NEW b, incident[b] \in Seq(Incidents), NEW checkOut
  PROVE  /\ Resolved(b, checkOut) \in Seq(Incidents)
         /\ DOMAIN Resolved(b, checkOut) = DOMAIN incident[b]
<1>1. ASSUME NEW i \in DOMAIN incident[b]
      PROVE  Resolved(b, checkOut)[i] \in Incidents
  <2>1. incident[b][i] \in Incidents
    OBVIOUS
  <2> QED BY <2>1 DEF Resolved, Incidents
<1>2. DOMAIN Resolved(b, checkOut) = 1..Len(incident[b])
  BY DEF Resolved
<1>3. Resolved(b, checkOut) = [i \in 1..Len(incident[b]) |-> Resolved(b, checkOut)[i]]
  BY DEF Resolved
<1> QED BY <1>1, <1>2, <1>3

\* The commit of an extension.
LEMMA ExtendCommitsKeepsIInv ==
  ASSUME IInv, NEW c \in Clerks, ExtendCommits(c)
  PROVE  IInv'
<1> USE DEF IInv
<1> DEFINE b == desk[c].booking
           row == desk[c].row
           final == row.old_checkout + row.added_nights
           k == [booking[b] EXCEPT !.check_out = final]
<1>1. /\ Is(c, "charges")
      /\ extension' = [extension EXCEPT ![b] = Append(@, row)]
      /\ booking' = [booking EXCEPT ![b] = k]
      /\ incident' = [incident EXCEPT ![b] = Resolved(b, final)]
      /\ lock' = [lock EXCEPT ![b] = Idle]
      /\ desk' = [desk EXCEPT ![c] = Idle]
      /\ UNCHANGED <<now, form>>
  BY DEF ExtendCommits, Answered, Is
<1>2. desk[c] \in [does : {"charges"}, booking : Bookings, row : Extensions]
  BY <1>1 DEF TypeOK, Requests, Is
<1>3. /\ b \in Bookings /\ row \in Extensions /\ row.old_checkout \in Nat /\ row.added_nights \in Nat \ {0}
  BY <1>2 DEF Extensions
<1>4. /\ lock[b] = c /\ row.old_checkout = booking[b].check_out
      /\ ~HasUsed(b, row.idempotency_key)
      /\ b \notin Forms => Spares(b, final)
  BY <1>1 DEF ExtensionsKnow
<1>5. /\ k \in Rows /\ k.check_out = final /\ k.status = booking[b].status
      /\ final \in Nat /\ booking[b].check_out \in Nat /\ booking[b].check_out < final
      /\ CheckIn[b] < final
  <2>1. booking[b] \in Rows /\ CheckIn[b] < booking[b].check_out /\ CheckIn[b] \in Nat
    BY <1>3, OverstayAssumption DEF TypeOK, StaysAreStays
  <2>2. booking[b].check_out \in Nat
    BY <2>1 DEF Rows
  <2> HIDE DEF b, row
  <2>3. final \in Nat /\ booking[b].check_out < final /\ CheckIn[b] < final
    BY <1>3, <1>4, <2>1, <2>2
  <2>4. k \in Rows /\ k.check_out = final /\ k.status = booking[b].status
    BY <2>1, <2>3 DEF Rows
  <2> QED BY <2>2, <2>3, <2>4
<1>6. /\ booking' \in [Bookings -> Rows]
      /\ booking'[b].check_out = final /\ booking'[b].status = booking[b].status
      /\ \A o \in Bookings \ {b} : booking'[o] = booking[o]
  BY <1>1, <1>3, <1>5 DEF TypeOK
<1>7. /\ extension' \in [Bookings -> Seq(Extensions)]
      /\ extension'[b] = Append(extension[b], row) /\ extension[b] \in Seq(Extensions)
      /\ \A o \in Bookings \ {b} : extension'[o] = extension[o]
  BY <1>1, <1>3 DEF TypeOK
<1>8. /\ incident[b] \in Seq(Incidents) /\ Resolved(b, final) \in Seq(Incidents)
      /\ DOMAIN Resolved(b, final) = DOMAIN incident[b]
  <2>1. incident[b] \in Seq(Incidents)
    BY <1>3 DEF TypeOK
  <2> QED BY <2>1, ResolvedIsATable
<1>9. /\ incident' \in [Bookings -> Seq(Incidents)] /\ incident'[b] = Resolved(b, final)
      /\ \A o \in Bookings \ {b} : incident'[o] = incident[o]
      /\ \A o \in Bookings : DOMAIN incident'[o] = DOMAIN incident[o]
  BY <1>1, <1>3, <1>8 DEF TypeOK
<1>10. /\ desk' \in [Clerks -> Requests \cup {Idle}] /\ desk'[c] = Idle
       /\ \A d \in Clerks \ {c} : desk'[d] = desk[d]
  BY <1>1, BeginsOrEnds
<1>11. /\ lock' \in [Bookings -> Clerks \cup {Idle}]
       /\ \A o \in Bookings \ {b} : lock'[o] = lock[o]
  BY <1>1 DEF TypeOK
<1> HIDE DEF b, row, final, k
<1>12. TypeOK'
  BY <1>1, <1>6, <1>7, <1>9, <1>10, <1>11 DEF TypeOK
<1>13. ExtensionsKnow'
  <2> SUFFICES ASSUME NEW d \in Clerks, Is(d, "charges")'
               PROVE  (LET x == desk[d].booking
                           w == desk[d].row
                       IN  /\ lock[x] = d
                           /\ w.old_checkout = booking[x].check_out
                           /\ ~HasUsed(x, w.idempotency_key)
                           /\ x \notin Forms => Spares(x, w.old_checkout + w.added_nights))'
    BY DEF ExtensionsKnow
  <2>1. d # c /\ desk'[d] = desk[d] /\ Is(d, "charges")
    BY <1>10 DEF Is
  <2> DEFINE x == desk[d].booking
             w == desk[d].row
             end == w.old_checkout + w.added_nights
  <2>2. /\ x \in Bookings /\ lock[x] = d /\ w.old_checkout = booking[x].check_out
        /\ ~HasUsed(x, w.idempotency_key)
        /\ x \notin Forms => Spares(x, end)
        /\ w.old_checkout \in Nat /\ w.added_nights \in Nat
    BY <2>1 DEF Is, TypeOK, Requests, Extensions, ExtensionsKnow
  <2>3. x # b /\ booking'[x] = booking[x] /\ lock'[x] = d /\ extension'[x] = extension[x]
    BY <1>4, <1>6, <1>7, <1>11, <2>1, <2>2
  <2>4. ASSUME x \notin Forms, NEW o \in Bookings \ Forms, x # o, RoomOf[x] = RoomOf[o]
        PROVE  \/ booking'[x].status = "COMPLETED" \/ booking'[o].status = "COMPLETED"
               \/ end <= CheckIn[o] \/ booking'[o].check_out <= CheckIn[x]
    <3>1. \/ booking[x].status = "COMPLETED" \/ booking[o].status = "COMPLETED"
          \/ end <= CheckIn[o] \/ booking[o].check_out <= CheckIn[x]
      BY <2>2, <2>4 DEF Spares
    <3>2. CASE o # b
      BY <1>6, <2>3, <3>1, <3>2
    <3>3. CASE o = b
      <4>1. \/ booking[x].status = "COMPLETED" \/ booking[o].status = "COMPLETED"
            \/ final <= CheckIn[x] \/ booking[x].check_out <= CheckIn[o]
        BY <1>4, <2>2, <2>4, <3>3 DEF Spares
      <4>2. /\ CheckIn[x] \in Nat /\ CheckIn[o] \in Nat
            /\ booking[x].check_out \in Nat /\ booking[o].check_out \in Nat
        BY <2>2, OverstayAssumption DEF TypeOK, Rows
      <4>3. CheckIn[x] < booking[x].check_out /\ CheckIn[o] < booking[o].check_out
        BY <2>2 DEF StaysAreStays
      <4>4. CASE booking[x].status = "COMPLETED" \/ booking[o].status = "COMPLETED"
        BY <1>6, <2>3, <3>3, <4>4
      <4>5. CASE final <= CheckIn[x]
        BY <1>6, <3>3, <4>5
      <4>6. CASE booking[x].check_out <= CheckIn[o]
        <5>1. ~(booking[o].check_out <= CheckIn[x])
          BY <4>2, <4>3, <4>6
        <5> QED BY <1>6, <2>3, <3>1, <3>3, <5>1
      <4> QED BY <4>1, <4>4, <4>5, <4>6
    <3> QED BY <3>2, <3>3
  <2>5. ~HasUsed(x, w.idempotency_key)'
    <3>1. \A y, key : extension'[y] = extension[y] => (HasUsed(y, key)' <=> HasUsed(y, key))
      BY DEF HasUsed
    <3> QED BY <2>1, <2>2, <2>3, <3>1
  <2>6. x \notin Forms => Spares(x, end)'
    <3>1. \A y, e : (\A o \in Bookings \ Forms : y # o /\ RoomOf[y] = RoomOf[o]
                      => \/ booking'[y].status = "COMPLETED" \/ booking'[o].status = "COMPLETED"
                         \/ e <= CheckIn[o] \/ booking'[o].check_out <= CheckIn[y]) => Spares(y, e)'
      BY DEF Spares
    <3> QED BY <2>1, <2>4, <3>1
  <2> QED BY <2>1, <2>2, <2>3, <2>5, <2>6
<1>14. AcksKnow'
  <2> SUFFICES ASSUME NEW d \in Clerks, Is(d, "saves")' PROVE (desk[d].row \in DOMAIN incident[desk[d].booking])'
    BY DEF AcksKnow
  <2>1. d # c /\ desk'[d] = desk[d] /\ Is(d, "saves")
    BY <1>10 DEF Is
  <2>2. desk[d].booking \in Bookings
    BY <2>1 DEF Is, TypeOK, Requests
  <2> QED BY <1>9, <2>1, <2>2 DEF AcksKnow
<1>15. StaysAreStays'
  <2> SUFFICES ASSUME NEW o \in Bookings
               PROVE  /\ CheckIn[o] < booking'[o].check_out
                      /\ form[o] # Sent => o \in Forms
                      /\ form[o] \notin {Blank, Sent}
                           => CheckIn[o] < form[o].check_out /\ form[o].check_out <= booking'[o].check_out
    BY <1>1 DEF StaysAreStays
  <2>1. CASE o # b
    BY <1>6, <2>1 DEF StaysAreStays
  <2>2. CASE o = b
    <3>1. form[o] \notin {Blank, Sent} => form[o].check_out \in Nat
      BY DEF TypeOK, Rows
    <3> QED BY <1>5, <1>6, <2>2, <3>1 DEF StaysAreStays
  <2> QED BY <2>1, <2>2
<1>16. DepartureIsExplained'
  <2> SUFFICES ASSUME NEW o \in Bookings \ Forms
               PROVE  /\ (\A i \in DOMAIN extension[o] : extension[o][i].old_checkout = Departure(o, i - 1))'
                      /\ (booking[o].check_out = Departure(o, Len(extension[o])))'
    BY DEF DepartureIsExplained
  <2>1. CASE o # b
    BY <1>6, <1>7, <2>1 DEF DepartureIsExplained, Departure
  <2>2. CASE o = b
    <3> DEFINE n == Len(extension[b])
    <3>1. n \in Nat /\ Len(extension'[b]) = n + 1 /\ extension'[b][n + 1] = row
          /\ \A i \in 1..n : extension'[b][i] = extension[b][i]
      BY <1>3, <1>7
    <3>2. /\ \A i \in 1..n : extension[b][i].old_checkout = Departure(b, i - 1)
          /\ booking[b].check_out = Departure(b, n)
      BY <1>7, <2>2 DEF DepartureIsExplained
    <3>3. ASSUME NEW i \in 0..n
          PROVE  (IF i = 0 THEN CheckOut[b]
                  ELSE extension'[b][i].old_checkout + extension'[b][i].added_nights) = Departure(b, i)
      BY <3>1 DEF Departure
    <3>4. ASSUME NEW i \in 1..(n + 1)
          PROVE  extension'[b][i].old_checkout = Departure(b, i - 1)
      <4>1. CASE i \in 1..n
        BY <3>1, <3>2, <4>1
      <4>2. CASE i = n + 1
        BY <1>4, <3>1, <3>2, <4>2
      <4> QED BY <3>1, <4>1, <4>2
    <3>5. extension'[b] \in Seq(Extensions) /\ DOMAIN extension'[b] = 1..(n + 1)
      BY <1>3, <1>7, <3>1
    <3>6. (\A i \in DOMAIN extension[o] : extension[o][i].old_checkout = Departure(o, i - 1))'
      <4> SUFFICES ASSUME NEW i \in 1..(n + 1)
                   PROVE  extension'[o][i].old_checkout
                            = IF i - 1 = 0 THEN CheckOut[o]
                              ELSE extension'[o][i - 1].old_checkout + extension'[o][i - 1].added_nights
        BY <2>2, <3>5 DEF Departure
      <4>1. i - 1 \in 0..n
        BY <3>1
      <4> QED BY <2>2, <3>3, <3>4, <4>1
    <3>7. (booking[o].check_out = Departure(o, Len(extension[o])))'
      BY <1>6, <2>2, <3>1 DEF Departure, final
    <3> QED BY <3>6, <3>7
  <2> QED BY <2>1, <2>2
<1>17. KeysExtendOnce'
  <2> SUFFICES ASSUME NEW o \in Bookings, NEW i \in DOMAIN extension'[o], NEW j \in DOMAIN extension'[o], i < j
               PROVE  \/ extension'[o][i].idempotency_key = NoKey
                      \/ extension'[o][i].idempotency_key # extension'[o][j].idempotency_key
    BY DEF KeysExtendOnce
  <2>1. CASE o # b
    BY <1>7, <2>1 DEF KeysExtendOnce
  <2>2. CASE o = b
    <3> DEFINE n == Len(extension[b])
    <3>1. /\ n \in Nat /\ DOMAIN extension[b] = 1..n /\ i \in 1..(n + 1) /\ j \in 1..(n + 1)
          /\ extension'[b][n + 1] = row /\ \A m \in 1..n : extension'[b][m] = extension[b][m]
      BY <1>3, <1>7, <2>2
    <3>2. i \in 1..n
      BY <3>1
    <3>3. CASE j \in 1..n
      BY <2>2, <3>1, <3>2, <3>3 DEF KeysExtendOnce
    <3>4. CASE j = n + 1
      BY <1>4, <2>2, <3>1, <3>2, <3>4 DEF HasUsed
    <3> QED BY <3>1, <3>3, <3>4
  <2> QED BY <2>1, <2>2
<1>18. FlaggedStaysAreLate'
  <2> SUFFICES ASSUME NEW o \in Bookings, NEW i \in DOMAIN incident'[o],
                      incident'[o][i] = New("OPEN", "command")
               PROVE  now >= Deadline(booking'[o].check_out)
    BY <1>1 DEF FlaggedStaysAreLate, New, Deadline
  <2>1. CASE o # b
    BY <1>6, <1>9, <2>1 DEF FlaggedStaysAreLate
  <2>2. CASE o = b
    <3>1. i \in DOMAIN incident[b] /\ Resolved(b, final)[i].status = "OPEN"
      BY <1>9, <2>2 DEF New
    <3>2. incident[b][i] \in Incidents
      BY <1>8, <3>1
    <3>3. /\ ~(i \in Active(b) /\ (final > Today \/ (final = Today /\ now < Deadline(final))))
          /\ incident[b][i].status = "OPEN"
      BY <3>1, <3>2 DEF Resolved, Incidents
    <3>4. now \in Nat /\ Today \in Nat
      <4>1. now \in Nat
        BY OverstayAssumption DEF TypeOK
      <4> QED BY <4>1, OverstayAssumption DEF Today
    <3>5. ~(final > Today) /\ ~(final = Today /\ now < Deadline(final))
      BY <3>1, <3>3 DEF Active
    <3>6. final <= Today
      BY <1>5, <3>4, <3>5
    <3>7. Deadline(final) \in Nat
      BY <1>5, DeadlinesAreNumbers
    <3>8. final = Today => now >= Deadline(final)
      BY <3>4, <3>5, <3>7
    <3> QED BY <1>5, <1>6, <2>2, <3>4, <3>6, <3>8, NotResolvedIsLate
  <2> QED BY <2>1, <2>2
<1>19. NextGuestKeepsTheRoom'
  <2> SUFFICES ASSUME NEW x \in Bookings \ Forms, NEW o \in Bookings \ Forms, x # o, RoomOf[x] = RoomOf[o],
                      booking'[x].status # "COMPLETED", booking'[o].status # "COMPLETED"
               PROVE  booking'[x].check_out <= CheckIn[o] \/ booking'[o].check_out <= CheckIn[x]
    BY DEF NextGuestKeepsTheRoom
  <2>1. booking[x].status # "COMPLETED" /\ booking[o].status # "COMPLETED"
    BY <1>6
  <2>2. CASE x # b /\ o # b
    BY <1>6, <2>1, <2>2 DEF NextGuestKeepsTheRoom
  <2>3. CASE x = b
    BY <1>4, <1>6, <2>1, <2>3 DEF Spares
  <2>4. CASE o = b
    BY <1>4, <1>6, <2>1, <2>4 DEF Spares
  <2> QED BY <2>2, <2>3, <2>4
<1> QED BY <1>12, <1>13, <1>14, <1>15, <1>16, <1>17, <1>18, <1>19

LEMMA NextKeepsIInv == IInv /\ [Next]_vars => IInv'
<1> SUFFICES ASSUME IInv, [Next]_vars PROVE IInv'
  OBVIOUS
<1>1. CASE \E b \in Bookings : \/ Detect(b) \/ AdminMarksInHouse(b) \/ CheckOutBooking(b)
                              \/ FormReads(b) \/ FormSaves(b)
  BY <1>1, DetectKeepsIInv, AdminMarksInHouseKeepsIInv, CheckOutBookingKeepsIInv,
     FormReadsKeepsIInv, FormSavesKeepsIInv
<1>2. CASE \E c \in Clerks, b \in Bookings, as \in {"ACKED", "DISMISSED"} : AckReads(c, b, as)
  BY <1>2, AckReadsKeepsIInv
<1>3. CASE \E c \in Clerks, b \in Bookings, key \in Keys \cup {NoKey}, n \in Nights :
             ExtendReads(c, b, key, "nights", n)
  BY <1>3, ExtendReadsKeepsIInv
<1>4. CASE \E c \in Clerks, b \in Bookings, key \in Keys \cup {NoKey}, n \in LaterBy :
             ExtendReads(c, b, key, "date", booking[b].check_out + n)
  <2>1. PICK c \in Clerks, b \in Bookings, key \in Keys \cup {NoKey}, n \in LaterBy :
             ExtendReads(c, b, key, "date", booking[b].check_out + n)
    BY <1>4
  <2>2. booking[b].check_out + n \in Nat
    BY OverstayAssumption DEF IInv, TypeOK, Rows
  <2> QED BY <2>1, <2>2, ExtendReadsKeepsIInv
<1>5. CASE \E c \in Clerks : AckCreates(c) \/ AckSaves(c) \/ ExtendLocks(c) \/ ExtendCommits(c) \/ CutOff(c)
  BY <1>5, AckCreatesKeepsIInv, AckSavesKeepsIInv, ExtendLocksKeepsIInv, ExtendCommitsKeepsIInv,
     CutOffKeepsIInv
<1>6. CASE Tick
  BY <1>6, TickKeepsIInv
<1>7. CASE UNCHANGED vars
  <2>1. UNCHANGED <<now, booking, incident, extension, lock, desk, form>>
    BY <1>7 DEF vars
  <2>2. TypeOK' /\ AcksKnow' /\ FlaggedStaysAreLate'
    BY <2>1 DEF IInv, TypeOK, AcksKnow, Is, FlaggedStaysAreLate, Deadline
  <2>3. ExtensionsKnow'
    BY <2>1, ExtensionsKeepKnowing DEF IInv, Is
  <2> QED BY <2>1, <2>2, <2>3, StaysUnchanged DEF IInv
<1> QED BY <1>1, <1>2, <1>3, <1>4, <1>5, <1>6, <1>7 DEF Next

-----------------------------------------------------------------------------
(* Theorems *)

\* The invariant of overstay handling: with what every extension and every
\* acknowledgement knows while it is under way.
THEOREM OverstayInvariant == Spec => []IInv
BY InitIInv, NextKeepsIInv, PTL DEF Spec

\* Every variable of Overstay keeps its type.
THEOREM TypeCorrect == Spec => []TypeOK
<1>1. IInv => TypeOK
  BY DEF IInv
<1> QED BY <1>1, OverstayInvariant, PTL

\* The departure date of a booking is where its last extension ends, and each
\* extension goes on where the one before it ends, whatever is repeated, raced
\* or cut off: extend_overstay reads and writes under the lock of the booking.
THEOREM ExtensionsAddUp == Spec => []DepartureIsExplained
<1>1. IInv => DepartureIsExplained
  BY DEF IInv
<1> QED BY <1>1, OverstayInvariant, PTL

\* No Idempotency-Key extends a booking twice: the look-up of extend_overstay and
\* the creation of the extension are under one lock.
THEOREM RetriesExtendOnce == Spec => []KeysExtendOnce
<1>1. IInv => KeysExtendOnce
  BY DEF IInv
<1> QED BY <1>1, OverstayInvariant, PTL

\* An incident that detect_overstays has opened and nobody has handled is about a
\* guest who is late still, also after extensions.
THEOREM FlagsAreReal == Spec => []FlaggedStaysAreLate
<1>1. IInv => FlaggedStaysAreLate
  BY DEF IInv
<1> QED BY <1>1, OverstayInvariant, PTL

\* Extensions of two guests of one room, at the same time too, do not take nights
\* of each other: _check_room_conflicts, as long as nobody changes a room.
THEOREM RoomsAreSpared == Spec => []NextGuestKeepsTheRoom
<1>1. IInv => NextGuestKeepsTheRoom
  BY DEF IInv
<1> QED BY <1>1, OverstayInvariant, PTL

-----------------------------------------------------------------------------
(* Overstays are flagged *)

Charges(c, b) == Is(c, "charges") /\ desk[c].booking = b

\* Who has a booking locked is an extension of it that waits for Stripe.
LocksAreHeld ==
  \A b \in Bookings : lock[b] # Idle => \E c \in Clerks : lock[b] = c /\ Charges(c, b)

\* No lock is taken, and each is given up or still held by the same request.
LEMMA LockStaysHeld ==
  ASSUME LocksAreHeld,
         \A b \in Bookings, c \in Clerks : lock'[b] # Idle /\ lock[b] = c /\ Charges(c, b)
           => lock'[b] = c /\ desk'[c] = desk[c],
         \A b \in Bookings : lock[b] = Idle => lock'[b] = Idle
  PROVE  LocksAreHeld'
BY DEF LocksAreHeld, Charges, Is

LEMMA OthersKeepLocksHeld ==
  ASSUME LocksAreHeld, NEW c \in Clerks, UNCHANGED lock, ~Is(c, "charges"),
         \A d \in Clerks \ {c} : desk'[d] = desk[d]
  PROVE  LocksAreHeld'
BY LockStaysHeld DEF Charges

\* Only an extension takes a lock, and then it charges; no other request that
\* moves on has one, and one that ends gives it up.
LEMMA LocksStayHeld == IInv /\ LocksAreHeld /\ [Next]_vars => LocksAreHeld'
<1> SUFFICES ASSUME IInv, LocksAreHeld, [Next]_vars PROVE LocksAreHeld'
  OBVIOUS
<1> USE DEF IInv
<1>1. CASE UNCHANGED <<lock, desk>>
  BY <1>1, LockStaysHeld
<1>2. ASSUME NEW c \in Clerks, NEW b \in Bookings, NEW as \in {"ACKED", "DISMISSED"}, AckReads(c, b, as)
      PROVE  LocksAreHeld'
  <2>1. UNCHANGED lock /\ desk[c] = Idle
    BY <1>2 DEF AckReads, Asks
  <2>2. \A d \in Clerks \ {c} : desk'[d] = desk[d]
    BY <1>2 DEF AckReads, Asks, TypeOK
  <2> QED BY <2>1, <2>2, OthersKeepLocksHeld DEF Is
<1>3. ASSUME NEW c \in Clerks, NEW b \in Bookings, NEW key, NEW by, NEW value,
             ExtendReads(c, b, key, by, value)
      PROVE  LocksAreHeld'
  <2>1. UNCHANGED lock /\ desk[c] = Idle
    BY <1>3 DEF ExtendReads, Asks
  <2>2. \A d \in Clerks \ {c} : desk'[d] = desk[d]
    BY <1>3 DEF ExtendReads, Asks, TypeOK
  <2> QED BY <2>1, <2>2, OthersKeepLocksHeld DEF Is
<1>4. ASSUME NEW c \in Clerks, AckCreates(c) \/ AckSaves(c)
      PROVE  LocksAreHeld'
  <2>1. UNCHANGED lock /\ ~Is(c, "charges")
    BY <1>4 DEF AckCreates, AckSaves, Is
  <2>2. \A d \in Clerks \ {c} : desk'[d] = desk[d]
    BY <1>4 DEF AckCreates, AckSaves, Answered, TypeOK
  <2> QED BY <2>1, <2>2, OthersKeepLocksHeld
<1>5. ASSUME NEW c \in Clerks, ExtendLocks(c)
      PROVE  LocksAreHeld'
  <2> DEFINE b == desk[c].booking
             old == booking[b].check_out
             row == [idempotency_key |-> desk[c].key, old_checkout |-> old,
                     added_nights |-> AddedNights(desk[c]),
                     amount_delta |-> NightlyRate(b) * AddedNights(desk[c])]
             q == [does |-> "charges", booking |-> b, row |-> row]
             accepted == /\ ~(desk[c].by = "date" /\ desk[c].value <= old)
                         /\ lock' = [lock EXCEPT ![b] = c] /\ desk' = [desk EXCEPT ![c] = q]
  <2>1. /\ Is(c, "locks") /\ ~Is(c, "charges") /\ lock[b] = Idle
        /\ UNCHANGED lock \/ accepted
        /\ \A d \in Clerks \ {c} : desk'[d] = desk[d]
    BY <1>5 DEF ExtendLocks, Is, Answered, TypeOK
  <2>2. CASE UNCHANGED lock
    BY <2>1, <2>2, OthersKeepLocksHeld
  <2>3. CASE accepted
    <3>1. b \in Bookings /\ q \in Requests
      BY <2>1, <2>3, ChargesAreRequests
    <3>2. desk'[c] = q /\ q # Idle /\ q.does = "charges" /\ q.booking = b
      BY <2>3, <3>1, NoneAreNone DEF TypeOK
    <3>3. \E d \in Clerks : lock'[b] = d /\ Is(d, "charges")' /\ desk'[d].booking = b
      BY <2>3, <3>1, <3>2 DEF TypeOK, Is
    <3>4. ASSUME NEW o \in Bookings \ {b}, lock'[o] # Idle
          PROVE  \E d \in Clerks : (lock[o] = d /\ Charges(d, o))'
      <4>1. PICK d \in Clerks : lock[o] = d /\ Charges(d, o)
        BY <2>3, <3>4 DEF LocksAreHeld, TypeOK
      <4>2. d # c
        BY <2>1, <4>1 DEF Charges
      <4> QED BY <2>1, <2>3, <4>1, <4>2 DEF Charges, Is, TypeOK
    <3> HIDE DEF b
    <3> QED BY <3>3, <3>4 DEF LocksAreHeld, Charges
  <2> QED BY <2>1, <2>2, <2>3
<1>6. ASSUME NEW c \in Clerks, ExtendCommits(c)
      PROVE  LocksAreHeld'
  <2> DEFINE b == desk[c].booking
  <2>1. /\ Is(c, "charges") /\ b \in Bookings
        /\ lock' = [lock EXCEPT ![b] = Idle]
        /\ \A d \in Clerks \ {c} : desk'[d] = desk[d]
    BY <1>6 DEF ExtendCommits, Is, Answered, TypeOK, Requests
  <2>2. \A o \in Bookings, d \in Clerks : lock'[o] # Idle /\ lock[o] = d /\ Charges(d, o)
          => lock'[o] = d /\ desk'[d] = desk[d]
    BY <2>1 DEF Charges, TypeOK
  <2>3. \A o \in Bookings : lock[o] = Idle => lock'[o] = Idle
    BY <2>1 DEF TypeOK
  <2> QED BY <2>2, <2>3, LockStaysHeld
<1>7. ASSUME NEW c \in Clerks, CutOff(c)
      PROVE  LocksAreHeld'
  <2>1. /\ \A o \in Bookings : lock'[o] = IF lock[o] = c THEN Idle ELSE lock[o]
        /\ \A d \in Clerks \ {c} : desk'[d] = desk[d]
    BY <1>7 DEF CutOff, Answered, TypeOK
  <2> QED BY <2>1, LockStaysHeld
<1>8. CASE \E b \in Bookings : \/ Detect(b) \/ AdminMarksInHouse(b) \/ CheckOutBooking(b)
                               \/ FormReads(b) \/ FormSaves(b)
  BY <1>1, <1>8 DEF Detect, AdminMarksInHouse, CheckOutBooking, FormReads, FormSaves
<1>9. CASE Tick \/ UNCHANGED vars
  BY <1>1, <1>9 DEF Tick, vars
<1> QED BY <1>2, <1>3, <1>4, <1>5, <1>6, <1>7, <1>8, <1>9 DEF Next

\* No lock outlives the request that took it: the commit and the end of a cut-off
\* transaction free it, and no other request has one (extend_overstay).
THEOREM LocksEndWithTheirRequest == Spec => []LocksAreHeld
<1>1. Init => LocksAreHeld
  BY DEF Init, LocksAreHeld
<1> QED BY <1>1, InitIInv, NextKeepsIInv, LocksStayHeld, PTL DEF Spec

\* The transaction that has a booking locked.
IsCharged(b) == \E c \in Clerks : Charges(c, b)
HolderCommits(b) == \E c \in Clerks : Charges(c, b) /\ ExtendCommits(c)

\* Strong fairness of the command for each booking, and weak fairness of whoever
\* has it locked, with the conditions under which they can act written out: the
\* command comes back every half hour, and a transaction ends.
DetectionIsFair ==
  \A b \in Bookings :
    <>[]~(lock[b] = Idle /\ IsLate(b) /\ Active(b) = {}) \/ []<><<Detect(b)>>_vars

HoldersAreFair ==
  \A b \in Bookings :
    []<>~IsCharged(b) \/ []<><<HolderCommits(b)>>_vars

LEMMA DetectionIsSeen ==
  ASSUME TypeOK, NEW b \in Bookings, Detect(b)
  PROVE  Active(b)' # {}
<1>1. /\ incident[b] \in Seq(Incidents) /\ New("OPEN", "command") \in Incidents
      /\ incident'[b] = Append(incident[b], New("OPEN", "command"))
  BY DEF Detect, TypeOK, New, Incidents
<1>2. Len(incident'[b]) \in DOMAIN incident'[b]
      /\ incident'[b][Len(incident'[b])] = New("OPEN", "command")
  BY <1>1
<1>3. New("OPEN", "command").status = "OPEN"
  BY DEF New
<1> QED BY <1>2, <1>3 DEF Active

\* A guest who stays on is on the list of overstays in the end: extensions may have
\* the booking locked when the command comes by, again and again, but not for ever.
THEOREM OverstaysEndUpOnTheList ==
  Init /\ [][Next]_vars /\ DetectionIsFair /\ HoldersAreFair => OverstaysAreFlagged
<1>1. Arrived \subseteq Bookings
  BY OverstayAssumption
<1> SUFFICES ASSUME NEW b \in Bookings
             PROVE  /\ Init /\ [][Next]_vars
                    /\ <>[]~(lock[b] = Idle /\ IsLate(b) /\ Active(b) = {}) \/ []<><<Detect(b)>>_vars
                    /\ []<>~IsCharged(b) \/ []<><<HolderCommits(b)>>_vars
                    => (IsLate(b) ~> (~IsLate(b) \/ Active(b) # {}))
  BY <1>1 DEF DetectionIsFair, HoldersAreFair, OverstaysAreFlagged
<1>2. LocksAreHeld /\ ~IsCharged(b) => lock[b] = Idle
  BY DEF LocksAreHeld, IsCharged
<1>3. IInv /\ <<HolderCommits(b)>>_vars => (lock[b] = Idle)'
  BY DEF HolderCommits, Charges, Is, ExtendCommits, IInv, TypeOK
<1>4. IInv /\ <<Detect(b)>>_vars => ~(Active(b) = {})'
  BY DetectionIsSeen DEF IInv
<1>5. (Active(b) # {}) <=> ~(Active(b) = {})
  OBVIOUS
<1>6. Init => LocksAreHeld
  BY DEF Init, LocksAreHeld
<1> QED BY <1>2, <1>3, <1>4, <1>5, <1>6, InitIInv, NextKeepsIInv, LocksStayHeld, PTL

=============================================================================
