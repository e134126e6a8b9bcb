--------------------------- MODULE StocktakeProofs ---------------------------
(***************************************************************************)
(* The properties of Stocktake for any number of periods, workers, records *)
(* and adjustments.  They rest on what a request that is up to date knows  *)
(* of the rows it goes on to write, and on what an approval that is half   *)
(* way has posted.                                                         *)
(***************************************************************************)
EXTENDS Stocktake, FiniteSetTheorems, TLAPS

\* What a request that is up to date knows.
Knows(q) ==
  q # Idle /\ q.fresh =>
    /\ q.does \in {"saves", "moves", "merges", "clears", "creates", "posts", "approves"}
         => sheet[q.period] = "DRAFT"
    /\ q.does = "carries" => q.to # q.period
    /\ q.does = "merges" => q.records = unmerged[q.period]
    /\ q.does = "closes" => sheet[q.period] = "APPROVED"
    /\ q.does = "reopens" => ~closed[q.period] /\ course[q.period] # "regular"

RequestsKnow == \A w \in Workers : Knows(desk[w])

HalfWayIsFresh == clean => \A w \in Workers : HalfWay(w) => desk[w].fresh

Approving(w, p) == Is(w, "approves") /\ desk[w].period = p

\* An adjustment is posted once, by an approval that is half way or done.
NothingElsePosted ==
  \A p \in Periods :
    /\ clean /\ course[p] = "regular" /\ "adjustments" \notin moves[p].byHand
    /\ sheet[p] = "DRAFT" /\ \A w \in Workers : ~Approving(w, p)
    => moves[p].adjustments = 0

Balanced(p) ==
  line[p] # NoLine => CountedQty(line[p]) = ExpectedQty(line[p]) + moves[p].adjustments

ApprovalsBalance ==
  \A w \in Workers, p \in Periods :
    clean /\ course[p] = "regular" /\ "adjustments" \notin moves[p].byHand /\ Approving(w, p)
      => Balanced(p)

IInv ==
  /\ TypeOK
  /\ RequestsKnow /\ HalfWayIsFresh /\ NothingElsePosted /\ ApprovalsBalance
  /\ AdjustmentsExplainTheCount /\ MergedIsMoved /\ ClosedPeriodsAreApproved

-----------------------------------------------------------------------------
(* Requests *)

LEMMA OutdatedRequests ==
  ASSUME TypeOK, NEW v \in Workers
  PROVE  /\ Outdated(v) \in Requests \cup {Idle}
         /\ Outdated(v) # Idle => ~Outdated(v).fresh /\ desk[v] # Idle /\ Outdated(v).does = desk[v].does
<1>1. CASE desk[v] = Idle
  BY <1>1 DEF Outdated
<1>2. CASE desk[v] # Idle
  <2>1. desk[v] \in Requests
    BY <1>2 DEF TypeOK
  <2>2. Outdated(v) = [desk[v] EXCEPT !.fresh = FALSE]
    BY <1>2 DEF Outdated
  <2>3. Outdated(v) \in Requests
    BY <2>1, <2>2 DEF Requests
  <2>4. ~Outdated(v).fresh /\ Outdated(v).does = desk[v].does
    BY <2>1, <2>2 DEF Requests
  <2> QED BY <1>2, <2>3, <2>4
<1> QED BY <1>1, <1>2

\* What holds of the desk after w wrote: it goes on with next, and no other
\* request is up to date; none is half way unless clean is lost.
LEMMA WritesDesk ==
  ASSUME TypeOK, NEW w \in Workers, desk[w] # Idle, NEW next \in Requests \cup {Idle}, Writes(w, next)
  PROVE  /\ desk[w] \in Requests
         /\ desk' \in [Workers -> Requests \cup {Idle}]
         /\ clean' \in BOOLEAN
         /\ desk'[w] = next
         /\ \A v \in Workers : v # w /\ desk'[v] # Idle => ~desk'[v].fresh
         /\ clean' => clean /\ desk[w].fresh /\ \A v \in Workers \ {w} : ~HalfWay(v) /\ ~HalfWay(v)'
<1>1. desk[w] \in Requests
  BY DEF TypeOK
<1>2. desk[w].fresh \in BOOLEAN
  BY <1>1 DEF Requests
<1>3. \A v \in Workers : v # w => desk'[v] = Outdated(v)
  BY DEF Writes
<1>4. \A v \in Workers : v # w /\ ~HalfWay(v) => ~HalfWay(v)'
  BY <1>3, OutdatedRequests DEF HalfWay
<1> QED BY <1>1, <1>2, <1>3, <1>4, OutdatedRequests DEF Writes, TypeOK

\* The same when a request is done at once.
LEMMA WritesAtOnceDesk ==
  ASSUME TypeOK, WritesAtOnce
  PROVE  /\ desk' \in [Workers -> Requests \cup {Idle}]
         /\ clean' \in BOOLEAN
         /\ \A v \in Workers : desk'[v] # Idle => ~desk'[v].fresh
         /\ clean' => clean /\ \A v \in Workers : ~HalfWay(v) /\ ~HalfWay(v)'
<1>1. \A v \in Workers : desk'[v] = Outdated(v)
  BY DEF WritesAtOnce
<1>2. \A v \in Workers : ~HalfWay(v) => ~HalfWay(v)'
  BY <1>1, OutdatedRequests DEF HalfWay
<1> QED BY <1>1, <1>2, OutdatedRequests DEF WritesAtOnce, TypeOK

\* An approval that is under way is half way.
LEMMA ApprovingIsHalfWay ==
  ASSUME NEW w, NEW p, Approving(w, p)
  PROVE  HalfWay(w)
BY DEF Approving, Is, HalfWay

\* A step that writes nothing and puts a request that knows what it says on the
\* desk, or none, keeps the invariant.
LEMMA TurnsKeepIInv ==
  ASSUME IInv, NEW w \in Workers, NEW q \in Requests \cup {Idle}, ~HalfWay(w), Turns(w, q), Knows(q),
         UNCHANGED <<kind, dated, closed, sheet, line, snapshot, moves, unmerged, course>>,
         q # Idle => q.does \in {"saves", "moves", "merges", "clears", "posts", "closes", "carries"},
         q # Idle => q.fresh
  PROVE  IInv'
<1> USE DEF IInv
<1>1. desk' = [desk EXCEPT ![w] = q] /\ clean' = clean
  BY DEF Turns
<1>2. TypeOK'
  BY <1>1 DEF TypeOK
<1>3. RequestsKnow'
  <2> SUFFICES ASSUME NEW v \in Workers PROVE Knows(desk[v])'
    BY DEF RequestsKnow
  <2>1. desk'[v] = IF v = w THEN q ELSE desk[v]
    BY <1>1 DEF TypeOK
  <2>2. Knows(desk[v])
    BY DEF RequestsKnow
  <2>3. CASE v = w
    BY <1>1, <2>1, <2>3 DEF Knows
  <2>4. CASE v # w
    BY <1>1, <2>1, <2>2, <2>4 DEF Knows
  <2> QED BY <2>3, <2>4
<1>4. HalfWayIsFresh'
  BY <1>1 DEF TypeOK, HalfWayIsFresh, HalfWay
<1>5. \A v \in Workers : \A p : Approving(v, p)' <=> Approving(v, p)
  BY <1>1 DEF TypeOK, Approving, Is, HalfWay
<1>6. NothingElsePosted' /\ ApprovalsBalance'
  BY <1>1, <1>5 DEF NothingElsePosted, ApprovalsBalance, Balanced, CountedQty, ExpectedQty, UnitSize
<1>7. AdjustmentsExplainTheCount' /\ MergedIsMoved' /\ ClosedPeriodsAreApproved'
  BY <1>1 DEF AdjustmentsExplainTheCount, MergedIsMoved, ClosedPeriodsAreApproved,
     CountedQty, ExpectedQty, UnitSize
<1> QED BY <1>2, <1>3, <1>4, <1>6, <1>7

LEMMA BeginsKeepsIInv ==
  ASSUME IInv, NEW w \in Workers, NEW q \in Requests, Begins(w, q), Knows(q), q.fresh,
         q.does \in {"saves", "moves", "merges", "clears", "posts", "closes", "carries"}
  PROVE  IInv'
<1>1. /\ ~HalfWay(w) /\ Turns(w, q)
      /\ UNCHANGED <<kind, dated, closed, sheet, line, snapshot, moves, unmerged, course>>
  BY DEF Begins, HalfWay
<1> QED BY <1>1, TurnsKeepIInv

\* A step of w that writes: the requests know what they did, if w goes on with
\* what it knows.
LEMMA WritesKeepRequests ==
  ASSUME IInv, NEW w \in Workers, desk[w] # Idle, NEW next \in Requests \cup {Idle}, Writes(w, next),
         Knows(desk[w])', next # Idle => next.fresh = desk[w].fresh
  PROVE  RequestsKnow' /\ HalfWayIsFresh'
<1> USE DEF IInv
<1>1. \A v \in Workers : v # w => Knows(desk[v])'
  BY WritesDesk DEF Knows
<1>2. RequestsKnow'
  BY <1>1 DEF RequestsKnow
<1>3. HalfWayIsFresh'
  <2> SUFFICES ASSUME clean', NEW v \in Workers, HalfWay(v)' PROVE desk'[v].fresh
    BY DEF HalfWayIsFresh
  <2>1. v = w /\ desk'[w] = next /\ desk[w].fresh
    BY WritesDesk
  <2> QED BY <2>1 DEF HalfWay
<1> QED BY <1>2, <1>3

LEMMA WritesAtOnceKeepRequests ==
  ASSUME IInv, WritesAtOnce
  PROVE  RequestsKnow' /\ HalfWayIsFresh'
<1>1. RequestsKnow'
  BY WritesAtOnceDesk DEF IInv, RequestsKnow, Knows
<1>2. HalfWayIsFresh'
  BY WritesAtOnceDesk DEF IInv, HalfWayIsFresh
<1> QED BY <1>1, <1>2

-----------------------------------------------------------------------------
(* Quantities *)

LEMMA UnitsTyped ==
  ASSUME kind \in Kinds
  PROVE  /\ UnitSize \in Int
         /\ \A c \in Snapshots : CountedQty(c) \in Int /\ TotalServings(c) \in Int
         /\ \A l \in Lines : CountedQty(l) \in Int /\ ExpectedQty(l) \in Int /\ VarianceQty(l) \in Int
<1>1. Uom \in Int /\ BottlesPerCase \in Int /\ ServingsPerBottle \in Int
  BY UnitsAreNumbers
<1>2. UnitSize \in Int
  BY <1>1 DEF UnitSize
<1>3. ASSUME NEW l, l.full \in Int, l.partial \in Int
      PROVE  CountedQty(l) \in Int /\ TotalServings(l) \in Int
  <2>1. l.full * BottlesPerCase \in Int
    BY <1>1, <1>3
  <2>2. (l.full * BottlesPerCase + l.partial) * ServingsPerBottle \in Int
    BY <1>1, <1>3, <2>1
  <2>3. l.full * UnitSize \in Int
    BY <1>2, <1>3
  <2> QED BY <1>3, <2>2, <2>3 DEF CountedQty, TotalServings
<1>4. \A c \in Snapshots : CountedQty(c) \in Int /\ TotalServings(c) \in Int
  BY <1>3 DEF Snapshots
<1>5. \A l \in Lines : CountedQty(l) \in Int
  BY <1>3 DEF Lines
<1>6. \A l \in Lines : ExpectedQty(l) \in Int
  BY DEF ExpectedQty, Lines
<1> QED BY <1>2, <1>4, <1>5, <1>6 DEF VarianceQty

LEMMA BoughtUnits ==
  ASSUME kind \in Kinds, NEW n \in 0 .. MaxMoves
  PROVE  n * UnitSize \in Int
<1> DEFINE u == UnitSize
<1>1. u \in Int /\ n \in Int
  BY UnitsTyped, BoundsAreNumbers
<1> HIDE DEF u
<1>2. n * u \in Int
  BY <1>1
<1> QED BY <1>2 DEF u

LEMMA OpeningTyped ==
  ASSUME TypeOK, NEW p \in Periods
  PROVE  OpeningBalance(p) \in Int
<1> DEFINE earlier == {q \in Periods : q < p /\ snapshot[q] # NoSnapshot}
           latest == {q \in earlier : \A r \in earlier : r <= q}
           q == CHOOSE x \in latest : TRUE
<1>1. CASE latest = {}
  BY <1>1 DEF OpeningBalance
<1>2. CASE latest # {}
  <2>1. q \in latest
    BY <1>2
  <2>2. snapshot[q] \in Snapshots
    BY <2>1 DEF TypeOK
  <2>3. TotalServings(snapshot[q]) \in Int
    BY <2>2, UnitsTyped DEF TypeOK
  <2>4. OpeningBalance(p) = TotalServings(snapshot[q])
    BY <1>2 DEF OpeningBalance
  <2> QED BY <2>3, <2>4
<1> QED BY <1>1, <1>2

LEMMA StoredTyped ==
  ASSUME kind \in Kinds, NEW l, l.full \in Nat, l.partial \in Nat
  PROVE  Stored(l) \in Snapshots
<1>1. CASE kind = "dozen" /\ l.full = 0
  <2>1. UnitSize = Uom /\ Uom \in Nat \ {0}
    BY <1>1, UnitsAreNumbers DEF UnitSize
  <2>2. l.partial \div Uom \in Nat /\ l.partial % Uom \in Nat
    BY <2>1
  <2> QED BY <1>1, <2>1, <2>2 DEF Stored, Snapshots
<1>2. CASE ~(kind = "dozen" /\ l.full = 0)
  BY <1>2 DEF Stored, Snapshots
<1> QED BY <1>1, <1>2

\* What is left as it is unless it is written by hand.
KeepsAdjustments(m, n) ==
  "adjustments" \notin n.byHand => "adjustments" \notin m.byHand /\ n.adjustments = m.adjustments
Keeps(m, n) ==
  /\ KeepsAdjustments(m, n)
  /\ "cocktails" \notin n.byHand => "cocktails" \notin m.byHand /\ n.cocktails = m.cocktails

LEMMA WithoutTyped ==
  ASSUME kind \in Kinds, NEW m \in Sums, NEW n \in Without(m)
  PROVE  n \in Sums /\ Keeps(m, n)
<1>1. UnitSize \in Int
  BY UnitsTyped
<1>2. \/ n = [m EXCEPT !.purchases = @ - UnitSize]
      \/ n = [m EXCEPT !.waste = @ - 1]
      \/ n = [m EXCEPT !.adjustments = 0, !.posted = 0, !.byHand = @ \cup {"adjustments"}]
      \/ n = [m EXCEPT !.cocktails = 0, !.byHand = @ \cup {"cocktails"}]
  BY DEF Without
<1>3. m.purchases - UnitSize \in Int /\ m.waste - 1 \in Int
  BY <1>1 DEF Sums
<1>4. CASE n = [m EXCEPT !.purchases = @ - UnitSize] \/ n = [m EXCEPT !.waste = @ - 1]
  BY <1>3, <1>4 DEF Sums, Keeps, KeepsAdjustments
<1>5. CASE n = [m EXCEPT !.adjustments = 0, !.posted = 0, !.byHand = @ \cup {"adjustments"}]
  <2>1. m.byHand \cup {"adjustments"} \in SUBSET {"cocktails", "adjustments"}
    BY DEF Sums
  <2>2. n \in Sums
    <3>1. n = [purchases |-> m.purchases, waste |-> m.waste, cocktails |-> m.cocktails,
               adjustments |-> 0, posted |-> 0, byHand |-> m.byHand \cup {"adjustments"}]
      BY <1>5 DEF Sums
    <3> QED BY <2>1, <3>1 DEF Sums
  <2>3. "adjustments" \in n.byHand /\ ("cocktails" \in m.byHand => "cocktails" \in n.byHand)
        /\ n.cocktails = m.cocktails
    BY <1>5 DEF Sums
  <2> QED BY <2>2, <2>3 DEF Keeps, KeepsAdjustments
<1>6. CASE n = [m EXCEPT !.cocktails = 0, !.byHand = @ \cup {"cocktails"}]
  <2>1. m.byHand \cup {"cocktails"} \in SUBSET {"cocktails", "adjustments"}
    BY DEF Sums
  <2> QED BY <1>6, <2>1 DEF Sums, Keeps, KeepsAdjustments
<1> QED BY <1>2, <1>4, <1>5, <1>6

LEMMA BoughtOrWastedTyped ==
  ASSUME kind \in Kinds, NEW m \in Sums
  PROVE  /\ Bought(m) \in Sums /\ Keeps(m, Bought(m))
         /\ Wasted(m) \in Sums /\ Keeps(m, Wasted(m))
<1>1. UnitSize \in Int
  BY UnitsTyped
<1>2. m.purchases + UnitSize \in Int /\ m.waste + 1 \in Int
  BY <1>1 DEF Sums
<1> QED BY <1>2 DEF Bought, Wasted, Sums, Keeps, KeepsAdjustments

LEMMA MovementsTyped ==
  ASSUME TypeOK, NEW p \in Periods, NEW n \in WithMovement(moves[p])
  PROVE  n \in Sums /\ Keeps(moves[p], n)
<1> DEFINE m == moves[p]
<1>1. kind \in Kinds /\ m \in Sums
  BY DEF TypeOK
<1>2. \/ n = Bought(m) \/ n = Wasted(m)
      \/ \E l \in Without(m) : n = l \/ n = Bought(l) \/ n = Wasted(l)
  BY DEF WithMovement
<1> HIDE DEF m
<1>3. CASE n = Bought(m) \/ n = Wasted(m)
  BY <1>1, <1>3, BoughtOrWastedTyped DEF m
<1>4. CASE \E l \in Without(m) : n = l \/ n = Bought(l) \/ n = Wasted(l)
  <2>1. PICK l \in Without(m) : n = l \/ n = Bought(l) \/ n = Wasted(l)
    BY <1>4
  <2>2. l \in Sums /\ Keeps(m, l)
    BY <1>1, WithoutTyped
  <2>3. n \in Sums /\ Keeps(l, n)
    <3>1. Keeps(l, l)
      BY DEF Keeps, KeepsAdjustments
    <3> QED BY <1>1, <2>1, <2>2, <3>1, BoughtOrWastedTyped
  <2>4. Keeps(m, n)
    BY <2>2, <2>3 DEF Keeps, KeepsAdjustments
  <2> QED BY <2>3, <2>4 DEF m
<1> QED BY <1>2, <1>3, <1>4

LEMMA AnyMovementsTyped ==
  ASSUME TypeOK, NEW p \in Periods, NEW n \in WithAnyMovement(moves[p])
  PROVE  n \in Sums /\ Keeps(moves[p], n)
<1> DEFINE m == moves[p]
<1>1. m \in Sums
  BY DEF TypeOK
<1>2. \/ n \in WithMovement(m)
      \/ n = [m EXCEPT !.adjustments = @ + 1, !.posted = @ + 1, !.byHand = @ \cup {"adjustments"}]
      \/ n = [m EXCEPT !.cocktails = @ + 1, !.byHand = @ \cup {"cocktails"}]
  BY DEF WithAnyMovement
<1> HIDE DEF m
<1>3. CASE n \in WithMovement(m)
  BY <1>3, MovementsTyped DEF m
<1>4. CASE n = [m EXCEPT !.adjustments = @ + 1, !.posted = @ + 1, !.byHand = @ \cup {"adjustments"}]
  <2>1. /\ m.byHand \cup {"adjustments"} \in SUBSET {"cocktails", "adjustments"}
        /\ m.adjustments + 1 \in Int /\ m.posted + 1 \in Nat
    BY <1>1 DEF Sums
  <2>2. n \in Sums /\ Keeps(m, n)
    BY <1>1, <1>4, <2>1 DEF Sums, Keeps, KeepsAdjustments
  <2> QED BY <2>2 DEF m
<1>5. CASE n = [m EXCEPT !.cocktails = @ + 1, !.byHand = @ \cup {"cocktails"}]
  <2>1. m.byHand \cup {"cocktails"} \in SUBSET {"cocktails", "adjustments"} /\ m.cocktails + 1 \in Nat
    BY <1>1 DEF Sums
  <2>2. n \in Sums /\ Keeps(m, n)
    BY <1>1, <1>5, <2>1 DEF Sums, Keeps, KeepsAdjustments
  <2> QED BY <2>2 DEF m
<1> QED BY <1>2, <1>3, <1>4, <1>5

-----------------------------------------------------------------------------
(* Steps *)

\* Saving a line changes no other line unless it leaves its place.
LEMMA SavesLine ==
  ASSUME TypeOK, NEW w \in Workers, NEW place \in Places, NEW l \in Lines, Saves(w, place, l)
  PROVE  /\ line' \in [Periods -> Lines \cup {NoLine}]
         /\ \A p \in Periods : p # place => line'[p] \in {line[p], NoLine}
         /\ place # desk[w].period /\ place \in Periods => line[place] = NoLine
<1>1. PICK left \in Places :
        line' = [p \in Periods |-> IF p = place THEN l ELSE IF p = left THEN NoLine ELSE line[p]]
  <2>1. CASE desk[w].fresh
    <3>1. line' = [p \in Periods |-> IF p = place THEN l
                                    ELSE IF p = desk[w].period THEN NoLine ELSE line[p]]
      BY <2>1 DEF Saves
    <3>2. CASE desk[w].period \in Places
      BY <3>1, <3>2
    <3>3. CASE desk[w].period \notin Places
      <4>1. Elsewhere \in Places /\ Elsewhere \notin Periods
        BY ElsewhereIsElsewhere DEF Places
      <4>2. line' = [p \in Periods |-> IF p = place THEN l ELSE IF p = Elsewhere THEN NoLine ELSE line[p]]
        BY <3>1, <3>3, <4>1 DEF Places
      <4> QED BY <4>1, <4>2
    <3> QED BY <3>2, <3>3
  <2>2. CASE ~desk[w].fresh
    BY <2>2 DEF Saves
  <2> QED BY <2>1, <2>2
<1>2. place # desk[w].period /\ place \in Periods => line[place] = NoLine
  BY DEF Saves
<1> QED BY <1>1, <1>2 DEF TypeOK

\* A step on which no approval is half way and that leaves adjustments, and the
\* lines of approved stocktakes unless it deletes them, as they are.
LEMMA QuietStep ==
  ASSUME IInv, TypeOK', RequestsKnow', HalfWayIsFresh', MergedIsMoved', ClosedPeriodsAreApproved',
         clean' => clean, kind' = kind,
         clean' => \A v \in Workers, p \in Periods : ~Approving(v, p) /\ ~Approving(v, p)',
         \A p \in Periods : KeepsAdjustments(moves[p], moves'[p]),
         \A p \in Periods : clean' /\ course'[p] = "regular"
           => course[p] = "regular" /\ sheet'[p] = sheet[p],
         \A p \in Periods : clean' /\ course'[p] = "regular" /\ sheet[p] = "APPROVED"
           => line'[p] \in {line[p], NoLine}
  PROVE  IInv'
<1> USE DEF IInv
<1>1. NothingElsePosted'
  BY DEF NothingElsePosted, KeepsAdjustments
<1>2. ApprovalsBalance'
  BY DEF ApprovalsBalance
<1>3. AdjustmentsExplainTheCount'
  <2> SUFFICES ASSUME NEW p \in Periods, clean', course'[p] = "regular", sheet'[p] = "APPROVED",
                      "adjustments" \notin moves'[p].byHand, line'[p] # NoLine
               PROVE  (CountedQty(line[p]) = ExpectedQty(line[p]) + moves[p].adjustments)'
    BY DEF AdjustmentsExplainTheCount
  <2>1. /\ line'[p] = line[p] /\ moves'[p].adjustments = moves[p].adjustments
        /\ "adjustments" \notin moves[p].byHand
    BY DEF KeepsAdjustments
  <2>2. CountedQty(line[p]) = ExpectedQty(line[p]) + moves[p].adjustments
    BY <2>1 DEF AdjustmentsExplainTheCount
  <2> QED BY <2>1, <2>2 DEF CountedQty, ExpectedQty, UnitSize
<1> QED BY <1>1, <1>2, <1>3

\* While w, which is not approving, writes without losing clean, nobody is.
LEMMA NobodyApproves ==
  ASSUME TypeOK, NEW w \in Workers, desk[w] # Idle, desk[w].does # "approves",
         NEW next \in Requests \cup {Idle}, next # Idle => next.does # "approves", Writes(w, next)
  PROVE  clean' => \A v \in Workers, p \in Periods : ~Approving(v, p) /\ ~Approving(v, p)'
<1> SUFFICES ASSUME clean', NEW v \in Workers, NEW p \in Periods
             PROVE  ~Approving(v, p) /\ ~Approving(v, p)'
  OBVIOUS
<1>1. CASE v = w
  BY <1>1, WritesDesk DEF Approving, Is
<1>2. CASE v # w
  BY <1>2, WritesDesk DEF Approving, Is, HalfWay
<1> QED BY <1>1, <1>2

LEMMA NobodyApprovesAtOnce ==
  ASSUME TypeOK, WritesAtOnce
  PROVE  clean' => \A v \in Workers, p \in Periods : ~Approving(v, p) /\ ~Approving(v, p)'
BY WritesAtOnceDesk DEF Approving, Is, HalfWay

LEMMA SaveLineKeepsIInv ==
  ASSUME IInv, NEW w \in Workers, SaveLine(w)
  PROVE  IInv'
<1> USE DEF IInv
<1> DEFINE p == desk[w].period
<1>1. /\ desk[w] # Idle /\ desk[w].does = "saves" /\ Writes(w, Idle)
      /\ Saves(w, p, desk[w].line)
      /\ UNCHANGED <<kind, dated, closed, sheet, snapshot, moves, unmerged, course>>
  BY DEF SaveLine, Is
<1>2. /\ desk[w] \in Requests /\ desk'[w] = Idle
      /\ desk' \in [Workers -> Requests \cup {Idle}] /\ clean' \in BOOLEAN
      /\ clean' => clean /\ desk[w].fresh
  BY <1>1, WritesDesk
<1>3. p \in Periods /\ p \in Places /\ desk[w].line \in Lines
  BY <1>1, <1>2 DEF Requests, Places
<1>10. /\ line' \in [Periods -> Lines \cup {NoLine}]
       /\ \A r \in Periods : r # p => line'[r] \in {line[r], NoLine}
  BY <1>1, <1>3, SavesLine
<1>4. TypeOK'
  BY <1>1, <1>2, <1>10 DEF TypeOK
<1>5. Knows(desk[w])'
  BY <1>2 DEF Knows
<1>6. RequestsKnow' /\ HalfWayIsFresh'
  BY <1>1, <1>5, WritesKeepRequests
<1>7. clean' => \A v \in Workers, r \in Periods : ~Approving(v, r) /\ ~Approving(v, r)'
  BY <1>1, NobodyApproves
<1>8. clean' => sheet[p] = "DRAFT"
  BY <1>1, <1>2 DEF RequestsKnow, Knows
<1>9. MergedIsMoved' /\ ClosedPeriodsAreApproved'
  BY <1>1, <1>2 DEF MergedIsMoved, ClosedPeriodsAreApproved
<1>11. \A r \in Periods : clean' /\ sheet[r] = "APPROVED" => line'[r] \in {line[r], NoLine}
  BY <1>8, <1>10
<1>12. \A r \in Periods : KeepsAdjustments(moves[r], moves'[r])
  BY <1>1 DEF KeepsAdjustments
<1> QED BY <1>1, <1>2, <1>4, <1>6, <1>7, <1>9, <1>11, <1>12, QuietStep

\* A line that gets into an approved stocktake sidesteps the order.
LEMMA SaveCarriedKeepsIInv ==
  ASSUME IInv, NEW w \in Workers, SaveCarried(w)
  PROVE  IInv'
<1> USE DEF IInv
<1> DEFINE q == desk[w].to
<1>1. /\ desk[w] # Idle /\ desk[w].does = "carries" /\ Writes(w, Idle)
      /\ Saves(w, q, desk[w].line)
      /\ IF q \in Periods /\ sheet[q] = "APPROVED" THEN Treated(q, "sidestepped") ELSE UNCHANGED course
      /\ UNCHANGED <<kind, dated, closed, sheet, snapshot, moves, unmerged>>
  BY DEF SaveCarried, Is
<1>2. /\ desk[w] \in Requests /\ desk'[w] = Idle
      /\ desk' \in [Workers -> Requests \cup {Idle}] /\ clean' \in BOOLEAN
      /\ clean' => clean /\ desk[w].fresh
  BY <1>1, WritesDesk
<1>3. q \in Places /\ desk[w].line \in Lines
  BY <1>1, <1>2 DEF Requests
<1>4. /\ line' \in [Periods -> Lines \cup {NoLine}]
      /\ \A r \in Periods : r # q => line'[r] \in {line[r], NoLine}
  BY <1>1, <1>3, SavesLine
<1>5. /\ course' \in [Periods -> {"regular", "reopened", "sidestepped"}]
      /\ \A r \in Periods : course'[r] = "regular" => course[r] = "regular"
      /\ \A r \in Periods : course'[r] # "sidestepped" => course'[r] = course[r]
      /\ \A r \in Periods : r = q /\ sheet[r] = "APPROVED" => course'[r] = "sidestepped"
  <2>1. CASE q \in Periods /\ sheet[q] = "APPROVED"
    BY <1>1, <2>1 DEF Treated, TypeOK
  <2>2. CASE ~(q \in Periods /\ sheet[q] = "APPROVED")
    BY <1>1, <2>2 DEF TypeOK
  <2> QED BY <2>1, <2>2
<1>6. TypeOK'
  BY <1>1, <1>2, <1>4, <1>5 DEF TypeOK
<1>7. Knows(desk[w])'
  BY <1>2 DEF Knows
<1>8. RequestsKnow' /\ HalfWayIsFresh'
  BY <1>1, <1>7, WritesKeepRequests
<1>9. clean' => \A v \in Workers, r \in Periods : ~Approving(v, r) /\ ~Approving(v, r)'
  BY <1>1, NobodyApproves
<1>10. MergedIsMoved' /\ ClosedPeriodsAreApproved'
  BY <1>1, <1>2, <1>5 DEF MergedIsMoved, ClosedPeriodsAreApproved
<1>11. \A r \in Periods : course'[r] = "regular" /\ sheet[r] = "APPROVED" => line'[r] \in {line[r], NoLine}
  BY <1>4, <1>5
<1>12. \A r \in Periods : KeepsAdjustments(moves[r], moves'[r])
  BY <1>1 DEF KeepsAdjustments
<1> QED BY <1>1, <1>2, <1>5, <1>6, <1>8, <1>9, <1>10, <1>11, <1>12, QuietStep

LEMMA RefuseCarriedKeepsIInv ==
  ASSUME IInv, NEW w \in Workers, RefuseCarried(w)
  PROVE  IInv'
<1>1. /\ ~HalfWay(w) /\ Turns(w, Idle)
      /\ UNCHANGED <<kind, dated, closed, sheet, line, snapshot, moves, unmerged, course>>
  BY DEF RefuseCarried, HalfWay, Is
<1>2. Knows(Idle)
  BY DEF Knows
<1> QED BY <1>1, <1>2, TurnsKeepIInv

LEMMA WriteMovementKeepsIInv ==
  ASSUME IInv, NEW w \in Workers, WriteMovement(w)
  PROVE  IInv'
<1> USE DEF IInv
<1> DEFINE p == desk[w].period
           next(m) == [does |-> "saves", period |-> p, fresh |-> desk[w].fresh,
                       line |-> [desk[w].line EXCEPT !.purchases = m.purchases, !.waste = m.waste]]
<1>1. PICK m \in WithMovement(moves[p]) :
        moves' = [moves EXCEPT ![p] = m] /\ Writes(w, next(m))
  BY DEF WriteMovement
<1>2. /\ desk[w] # Idle /\ desk[w].does = "moves"
      /\ UNCHANGED <<kind, dated, closed, sheet, line, snapshot, unmerged, course>>
  BY DEF WriteMovement, Is
<1>3. desk[w] \in Requests /\ p \in Periods /\ desk[w].line \in Lines /\ desk[w].fresh \in BOOLEAN
  BY <1>2 DEF TypeOK, Requests
<1>4. m \in Sums /\ Keeps(moves[p], m)
  BY <1>1, <1>3, MovementsTyped
<1>5. [desk[w].line EXCEPT !.purchases = m.purchases, !.waste = m.waste] \in Lines
  BY <1>3, <1>4 DEF Lines, Sums
<1>6. next(m) \in Requests
  BY <1>3, <1>5 DEF Requests
<1>7. /\ desk'[w] = next(m)
      /\ desk' \in [Workers -> Requests \cup {Idle}] /\ clean' \in BOOLEAN
      /\ clean' => clean /\ desk[w].fresh
  BY <1>1, <1>2, <1>6, WritesDesk
<1>8. TypeOK'
  BY <1>1, <1>2, <1>3, <1>4, <1>7 DEF TypeOK
<1>9. Knows(desk[w])'
  BY <1>2, <1>7 DEF RequestsKnow, Knows
<1>10. RequestsKnow' /\ HalfWayIsFresh'
  BY <1>1, <1>2, <1>6, <1>9, WritesKeepRequests
<1>11. clean' => \A v \in Workers, r \in Periods : ~Approving(v, r) /\ ~Approving(v, r)'
  BY <1>1, <1>2, <1>6, NobodyApproves
<1>12. \A r \in Periods : Keeps(moves[r], moves'[r])
  BY <1>1, <1>3, <1>4 DEF TypeOK, Keeps, KeepsAdjustments
<1>13. MergedIsMoved' /\ ClosedPeriodsAreApproved'
  BY <1>2, <1>7, <1>12 DEF Keeps, KeepsAdjustments, MergedIsMoved, ClosedPeriodsAreApproved
<1> QED BY <1>2, <1>7, <1>8, <1>10, <1>11, <1>12, <1>13, QuietStep DEF Keeps

LEMMA RecordMovementKeepsIInv ==
  ASSUME IInv, NEW p \in Periods, RecordMovement(p)
  PROVE  IInv'
<1> USE DEF IInv
<1>1. PICK m \in WithAnyMovement(moves[p]) : moves' = [moves EXCEPT ![p] = m]
  BY DEF RecordMovement
<1>2. WritesAtOnce /\ UNCHANGED <<kind, dated, closed, sheet, line, snapshot, unmerged, course>>
  BY DEF RecordMovement
<1>3. \A r \in Periods : Keeps(moves[r], moves'[r])
  BY <1>1, AnyMovementsTyped DEF TypeOK, Keeps, KeepsAdjustments
<1>4. TypeOK'
  BY <1>1, <1>2, AnyMovementsTyped, WritesAtOnceDesk DEF TypeOK
<1>5. RequestsKnow' /\ HalfWayIsFresh' /\ (clean' => clean)
  BY <1>2, WritesAtOnceKeepRequests, WritesAtOnceDesk
<1>6. MergedIsMoved' /\ ClosedPeriodsAreApproved'
  BY <1>2, <1>3, <1>5, WritesAtOnceDesk DEF Keeps, KeepsAdjustments, MergedIsMoved, ClosedPeriodsAreApproved
<1> QED BY <1>2, <1>3, <1>4, <1>5, <1>6, NobodyApprovesAtOnce, QuietStep DEF Keeps

LEMMA DeleteLineKeepsIInv ==
  ASSUME IInv, NEW p \in Periods, DeleteLine(p)
  PROVE  IInv'
<1> USE DEF IInv
<1>1. /\ line' = [line EXCEPT ![p] = NoLine] /\ WritesAtOnce
      /\ UNCHANGED <<kind, dated, closed, sheet, snapshot, moves, unmerged, course>>
  BY DEF DeleteLine
<1>2. TypeOK'
  BY <1>1, WritesAtOnceDesk DEF TypeOK
<1>3. RequestsKnow' /\ HalfWayIsFresh' /\ (clean' => clean)
  BY <1>1, WritesAtOnceKeepRequests, WritesAtOnceDesk
<1>4. MergedIsMoved' /\ ClosedPeriodsAreApproved'
  BY <1>1, <1>3, WritesAtOnceDesk DEF MergedIsMoved, ClosedPeriodsAreApproved
<1>5. \A r \in Periods : line'[r] \in {line[r], NoLine}
  BY <1>1 DEF TypeOK
<1>6. \A r \in Periods : KeepsAdjustments(moves[r], moves'[r])
  BY <1>1 DEF KeepsAdjustments
<1> QED BY <1>1, <1>2, <1>3, <1>4, <1>5, NobodyApprovesAtOnce, <1>6, QuietStep

\* What is merged is moved: the records of a request that is up to date are
\* exactly those that are not merged yet.
LEMMA CommitMergeCounts ==
  ASSUME IInv, NEW w \in Workers, CommitMerge(w), clean' => clean /\ desk[w].fresh
  PROVE  MergedIsMoved'
<1> USE DEF IInv
<1> DEFINE p == desk[w].period
           marked == desk[w].records
           merged == Records \ unmerged[p]
<1>1. /\ desk[w] # Idle /\ desk[w].does = "merges"
      /\ unmerged' = [unmerged EXCEPT ![p] = @ \ marked]
      /\ moves' = [moves EXCEPT ![p].cocktails = @ + Cardinality(marked)]
  BY DEF CommitMerge, Is
<1>2. desk[w] \in Requests /\ p \in Periods /\ marked \subseteq Records
  BY <1>1 DEF TypeOK, Requests
<1>3. /\ IsFiniteSet(marked) /\ IsFiniteSet(merged)
      /\ Cardinality(marked) \in Nat /\ Cardinality(merged) \in Nat
  BY <1>2, RecordsAreFinite, FS_Subset, FS_CardinalityType DEF TypeOK
<1>4. Cardinality(merged \cup marked) <= Cardinality(merged) + Cardinality(marked)
      /\ (merged \cap marked = {}
            => Cardinality(merged \cup marked) = Cardinality(merged) + Cardinality(marked))
      /\ Cardinality(merged \cup marked) \in Nat
  <2>1. IsFiniteSet(merged \cap marked) /\ Cardinality(merged \cap marked) \in Nat
    BY <1>3, FS_Subset, FS_CardinalityType
  <2>2. IsFiniteSet(merged \cup marked)
        /\ Cardinality(merged \cup marked)
             = Cardinality(merged) + Cardinality(marked) - Cardinality(merged \cap marked)
    BY <1>3, FS_Union
  <2>3. merged \cap marked = {} => Cardinality(merged \cap marked) = 0
    BY FS_EmptySet
  <2> QED BY <1>3, <2>1, <2>2, <2>3, FS_CardinalityType
<1>5. Records \ unmerged'[p] = merged \cup marked
  BY <1>1, <1>2 DEF TypeOK
<1>6. /\ moves'[p].cocktails = moves[p].cocktails + Cardinality(marked)
      /\ moves'[p].byHand = moves[p].byHand
  BY <1>1, <1>2 DEF TypeOK, Sums
<1>7. /\ moves[p].cocktails \in Nat
      /\ "cocktails" \notin moves[p].byHand
           => /\ moves[p].cocktails >= Cardinality(merged)
              /\ clean => moves[p].cocktails = Cardinality(merged)
  BY <1>2 DEF TypeOK, Sums, MergedIsMoved
<1>8. clean' => merged \cap marked = {}
  BY <1>1 DEF RequestsKnow, Knows
<1> SUFFICES ASSUME NEW r \in Periods, "cocktails" \notin moves'[r].byHand
             PROVE  LET m == Cardinality(Records \ unmerged'[r])
                    IN  moves'[r].cocktails >= m /\ (clean' => moves'[r].cocktails = m)
  BY DEF MergedIsMoved
<1>9. CASE r = p
  <2> DEFINE n == Cardinality(merged)
             k == Cardinality(marked)
             both == Cardinality(merged \cup marked)
  <2>1. both <= n + k /\ n \in Nat /\ k \in Nat /\ both \in Nat /\ (clean' => both = n + k)
    BY <1>3, <1>4, <1>8
  <2>2. moves[p].cocktails >= n /\ moves[p].cocktails \in Nat /\ (clean => moves[p].cocktails = n)
    BY <1>6, <1>7, <1>9
  <2>3. moves'[p].cocktails = moves[p].cocktails + k /\ Cardinality(Records \ unmerged'[p]) = both
    BY <1>5, <1>6
  <2> HIDE DEF n, k, both
  <2> QED BY <1>9, <2>1, <2>2, <2>3
<1>10. CASE r # p
  <2>1. moves'[r] = moves[r] /\ unmerged'[r] = unmerged[r]
    BY <1>1, <1>2, <1>10 DEF TypeOK
  <2> QED BY <2>1 DEF MergedIsMoved
<1> QED BY <1>9, <1>10

LEMMA CommitMergeKeepsIInv ==
  ASSUME IInv, NEW w \in Workers, CommitMerge(w)
  PROVE  IInv'
<1> USE DEF IInv
<1> DEFINE p == desk[w].period
<1>1. /\ desk[w] # Idle /\ desk[w].does = "merges" /\ Writes(w, Idle)
      /\ unmerged' = [unmerged EXCEPT ![p] = @ \ desk[w].records]
      /\ moves' = [moves EXCEPT ![p].cocktails = @ + Cardinality(desk[w].records)]
      /\ Saves(w, p, [desk[w].line EXCEPT !.purchases = moves[p].purchases,
                                          !.waste = moves[p].waste])
      /\ UNCHANGED <<kind, dated, closed, sheet, snapshot, course>>
  BY DEF CommitMerge, Is
<1>2. /\ desk[w] \in Requests /\ desk'[w] = Idle
      /\ desk' \in [Workers -> Requests \cup {Idle}] /\ clean' \in BOOLEAN
      /\ clean' => clean /\ desk[w].fresh
  BY <1>1, WritesDesk
<1>3. p \in Periods /\ desk[w].line \in Lines /\ desk[w].records \subseteq Records
  BY <1>1, <1>2 DEF Requests
<1>4. /\ line' \in [Periods -> Lines \cup {NoLine}]
      /\ \A r \in Periods : r # p => line'[r] \in {line[r], NoLine}
  <2> DEFINE l == [desk[w].line EXCEPT !.purchases = moves[p].purchases, !.waste = moves[p].waste]
  <2>1. l \in Lines
    BY <1>3 DEF Lines, TypeOK, Sums
  <2>2. p \in Places /\ Saves(w, p, l)
    BY <1>1, <1>3 DEF Places
  <2> QED BY <2>1, <2>2, SavesLine
<1>5. Cardinality(desk[w].records) \in Nat
  BY <1>3, RecordsAreFinite, FS_Subset, FS_CardinalityType
<1>6. moves' \in [Periods -> Sums] /\ \A r \in Periods : moves'[r].adjustments = moves[r].adjustments
      /\ moves'[r].byHand = moves[r].byHand
  <2> DEFINE m == [moves[p] EXCEPT !.cocktails = @ + Cardinality(desk[w].records)]
  <2>1. moves[p] \in Sums /\ moves[p].cocktails + Cardinality(desk[w].records) \in Nat
    BY <1>3, <1>5 DEF TypeOK, Sums
  <2>2. m \in Sums /\ m.adjustments = moves[p].adjustments /\ m.byHand = moves[p].byHand
    BY <2>1 DEF Sums
  <2>3. moves' = [moves EXCEPT ![p] = m]
    BY <1>1
  <2> HIDE DEF m
  <2> QED BY <1>3, <2>2, <2>3 DEF TypeOK
<1>7. TypeOK'
  BY <1>1, <1>2, <1>3, <1>4, <1>6 DEF TypeOK
<1>8. Knows(desk[w])'
  BY <1>2 DEF Knows
<1>9. RequestsKnow' /\ HalfWayIsFresh'
  BY <1>1, <1>8, WritesKeepRequests
<1>10. clean' => \A v \in Workers, r \in Periods : ~Approving(v, r) /\ ~Approving(v, r)'
  BY <1>1, NobodyApproves
<1>11. clean' => sheet[p] = "DRAFT"
  BY <1>1, <1>2 DEF RequestsKnow, Knows
<1>12. MergedIsMoved' /\ ClosedPeriodsAreApproved'
  BY <1>1, <1>2, CommitMergeCounts DEF ClosedPeriodsAreApproved
<1>13. \A r \in Periods : clean' /\ sheet[r] = "APPROVED" => line'[r] \in {line[r], NoLine}
  BY <1>4, <1>11
<1> QED BY <1>1, <1>2, <1>6, <1>7, <1>9, <1>10, <1>12, <1>13, QuietStep DEF KeepsAdjustments

LEMMA ClearLinesKeepsIInv ==
  ASSUME IInv, NEW w \in Workers, ClearLines(w)
  PROVE  IInv'
<1> USE DEF IInv
<1> DEFINE p == desk[w].period
           next == [does |-> "creates", period |-> p, fresh |-> desk[w].fresh]
<1>1. /\ desk[w] # Idle /\ desk[w].does = "clears" /\ Writes(w, next)
      /\ line' = [line EXCEPT ![p] = NoLine]
      /\ UNCHANGED <<kind, dated, closed, sheet, snapshot, moves, unmerged, course>>
  BY DEF ClearLines, Is
<1>2. desk[w] \in Requests /\ p \in Periods /\ desk[w].fresh \in BOOLEAN
  BY <1>1 DEF TypeOK, Requests
<1>3. next \in Requests
  BY <1>2 DEF Requests
<1>4. /\ desk'[w] = next
      /\ desk' \in [Workers -> Requests \cup {Idle}] /\ clean' \in BOOLEAN
      /\ clean' => clean /\ desk[w].fresh
  BY <1>1, <1>3, WritesDesk
<1>5. TypeOK'
  BY <1>1, <1>4 DEF TypeOK
<1>6. Knows(desk[w])'
  BY <1>1, <1>4 DEF RequestsKnow, Knows
<1>7. RequestsKnow' /\ HalfWayIsFresh'
  BY <1>1, <1>3, <1>6, WritesKeepRequests
<1>8. clean' => \A v \in Workers, r \in Periods : ~Approving(v, r) /\ ~Approving(v, r)'
  BY <1>1, <1>3, NobodyApproves
<1>9. MergedIsMoved' /\ ClosedPeriodsAreApproved'
  BY <1>1, <1>4 DEF MergedIsMoved, ClosedPeriodsAreApproved
<1>10. \A r \in Periods : line'[r] \in {line[r], NoLine}
  BY <1>1 DEF TypeOK
<1>11. \A r \in Periods : KeepsAdjustments(moves[r], moves'[r])
  BY <1>1 DEF KeepsAdjustments
<1> QED BY <1>1, <1>4, <1>5, <1>7, <1>8, <1>9, <1>10, <1>11, QuietStep

LEMMA CreateLineKeepsIInv ==
  ASSUME IInv, NEW w \in Workers, CreateLine(w)
  PROVE  IInv'
<1> USE DEF IInv
<1> DEFINE p == desk[w].period
           new == [opening |-> OpeningBalance(p), full |-> 0, partial |-> 0,
                   purchases |-> moves[p].purchases, waste |-> moves[p].waste]
<1>1. /\ desk[w] # Idle /\ desk[w].does = "creates" /\ Writes(w, Idle)
      /\ line' = [line EXCEPT ![p] = new]
      /\ UNCHANGED <<kind, dated, closed, sheet, snapshot, moves, unmerged, course>>
  BY DEF CreateLine, Is
<1>2. /\ desk[w] \in Requests /\ desk'[w] = Idle
      /\ desk' \in [Workers -> Requests \cup {Idle}] /\ clean' \in BOOLEAN
      /\ clean' => clean /\ desk[w].fresh
  BY <1>1, WritesDesk
<1>3. p \in Periods
  BY <1>1, <1>2 DEF Requests
<1>4. new \in Lines
  BY <1>3, OpeningTyped DEF Lines, TypeOK, Sums
<1>5. TypeOK'
  BY <1>1, <1>2, <1>3, <1>4 DEF TypeOK
<1>6. Knows(desk[w])'
  BY <1>2 DEF Knows
<1>7. RequestsKnow' /\ HalfWayIsFresh'
  BY <1>1, <1>6, WritesKeepRequests
<1>8. clean' => \A v \in Workers, r \in Periods : ~Approving(v, r) /\ ~Approving(v, r)'
  BY <1>1, NobodyApproves
<1>9. clean' => sheet[p] = "DRAFT"
  BY <1>1, <1>2 DEF RequestsKnow, Knows
<1>10. MergedIsMoved' /\ ClosedPeriodsAreApproved'
  BY <1>1, <1>2 DEF MergedIsMoved, ClosedPeriodsAreApproved
<1>11. \A r \in Periods : r # p => line'[r] = line[r]
  BY <1>1 DEF TypeOK
<1>12. \A r \in Periods : KeepsAdjustments(moves[r], moves'[r])
  BY <1>1 DEF KeepsAdjustments
<1> QED BY <1>1, <1>2, <1>5, <1>7, <1>8, <1>9, <1>10, <1>11, <1>12, QuietStep

LEMMA AdjustedSums ==
  ASSUME NEW m \in Sums,
         NEW a \in Int
  PROVE  LET n == [m EXCEPT !.adjustments = @ + a, !.posted = @ + 1]
         IN  /\ n \in Sums
             /\ n.adjustments = m.adjustments + a
             /\ n.cocktails = m.cocktails /\ n.byHand = m.byHand
<1>1. m.adjustments + a \in Int /\ m.posted + 1 \in Nat
  BY DEF Sums
<1> QED BY <1>1 DEF Sums

\* The adjustment makes up for the variance, and nothing was posted before.
LEMMA PostVarianceKeepsIInv ==
  ASSUME IInv, NEW w \in Workers, PostVariance(w)
  PROVE  IInv'
<1> USE DEF IInv
<1> DEFINE p == desk[w].period
           adjusts == line[p] # NoLine /\ Adjustment(line[p]) # 0
           m == [moves[p] EXCEPT !.adjustments = @ + Adjustment(line[p]), !.posted = @ + 1]
           next == [does |-> "approves", period |-> p, then |-> desk[w].then, fresh |-> desk[w].fresh]
<1>1. /\ desk[w] # Idle /\ desk[w].does = "posts" /\ Writes(w, next)
      /\ moves' = IF adjusts THEN [moves EXCEPT ![p] = m] ELSE moves
      /\ snapshot' = IF line[p] # NoLine /\ p \in dated THEN [snapshot EXCEPT ![p] = Stored(line[p])]
                                                      ELSE snapshot
      /\ UNCHANGED <<kind, dated, closed, sheet, line, unmerged, course>>
  BY DEF PostVariance, Is
<1>2. desk[w] \in Requests /\ p \in Periods /\ desk[w].fresh \in BOOLEAN /\ desk[w].then \in {"rest", "close"}
  BY <1>1 DEF TypeOK, Requests
<1>3. next \in Requests
  BY <1>2 DEF Requests
<1>4. /\ desk'[w] = next
      /\ desk' \in [Workers -> Requests \cup {Idle}] /\ clean' \in BOOLEAN
      /\ clean' => clean /\ desk[w].fresh /\ \A v \in Workers \ {w} : ~HalfWay(v) /\ ~HalfWay(v)'
  BY <1>1, <1>3, WritesDesk
<1>5. line[p] # NoLine =>
        /\ line[p] \in Lines /\ Stored(line[p]) \in Snapshots
        /\ CountedQty(line[p]) \in Int /\ ExpectedQty(line[p]) \in Int
        /\ Adjustment(line[p]) = CountedQty(line[p]) - ExpectedQty(line[p])
        /\ Adjustment(line[p]) \in Int
  <2> SUFFICES ASSUME line[p] # NoLine
               PROVE  /\ line[p] \in Lines /\ Stored(line[p]) \in Snapshots
                      /\ CountedQty(line[p]) \in Int /\ ExpectedQty(line[p]) \in Int
                      /\ Adjustment(line[p]) = CountedQty(line[p]) - ExpectedQty(line[p])
                      /\ Adjustment(line[p]) \in Int
    OBVIOUS
  <2>1. line[p] \in Lines
    BY <1>2 DEF TypeOK
  <2>2. line[p].full \in Nat /\ line[p].partial \in Nat
    BY <2>1 DEF Lines
  <2>3. Stored(line[p]) \in Snapshots
    BY <2>2, StoredTyped DEF TypeOK
  <2>4. CountedQty(line[p]) \in Int /\ ExpectedQty(line[p]) \in Int
    BY <2>1, UnitsTyped DEF TypeOK
  <2> QED BY <2>1, <2>3, <2>4 DEF Adjustment, VarianceQty
<1>6. moves[p] \in Sums
  BY <1>2 DEF TypeOK
<1>7. adjusts => m \in Sums /\ m.adjustments = moves[p].adjustments + Adjustment(line[p])
                 /\ m.cocktails = moves[p].cocktails /\ m.byHand = moves[p].byHand
  BY <1>5, <1>6, AdjustedSums
<1>8. /\ moves' \in [Periods -> Sums]
      /\ \A r \in Periods : /\ moves'[r].cocktails = moves[r].cocktails
                            /\ moves'[r].byHand = moves[r].byHand
                            /\ r # p => moves'[r].adjustments = moves[r].adjustments
      /\ moves'[p].adjustments = moves[p].adjustments
                                   + (IF line[p] = NoLine THEN 0 ELSE Adjustment(line[p]))
  <2> HIDE DEF m
  <2>1. CASE adjusts
    BY <1>1, <1>2, <1>7, <2>1 DEF TypeOK
  <2>2. CASE ~adjusts
    <3>1. moves' = moves
      BY <1>1, <2>2
    <3>2. moves[p].adjustments = moves[p].adjustments + (IF line[p] = NoLine THEN 0 ELSE Adjustment(line[p]))
      BY <1>5, <1>6, <2>2 DEF Sums
    <3> QED BY <3>1, <3>2 DEF TypeOK
  <2> QED BY <2>1, <2>2
<1>9. TypeOK'
  BY <1>1, <1>2, <1>4, <1>5, <1>8 DEF TypeOK
<1>10. Knows(desk[w])'
  BY <1>1, <1>4 DEF RequestsKnow, Knows
<1>11. RequestsKnow' /\ HalfWayIsFresh'
  BY <1>1, <1>3, <1>10, WritesKeepRequests
<1>12. \A v \in Workers, r \in Periods : clean' /\ Approving(v, r)' => v = w /\ r = p
  BY <1>4 DEF Approving, Is, HalfWay
<1>13. \A v \in Workers, r \in Periods : clean' => ~Approving(v, r)
  BY <1>1, <1>4 DEF Approving, Is, HalfWay
<1>14. Approving(w, p)'
  BY <1>4, NoneAreNone, <1>3 DEF Approving, Is
<1>15. clean' => sheet[p] = "DRAFT"
  BY <1>1, <1>4 DEF RequestsKnow, Knows
<1>16. NothingElsePosted'
  BY <1>1, <1>4, <1>8, <1>13, <1>14 DEF NothingElsePosted
<1>17. ApprovalsBalance'
  <2> SUFFICES ASSUME NEW v \in Workers, NEW r \in Periods, clean', course'[r] = "regular",
                      "adjustments" \notin moves'[r].byHand, Approving(v, r)', line'[r] # NoLine
               PROVE  (CountedQty(line[r]) = ExpectedQty(line[r]) + moves[r].adjustments)'
    BY DEF ApprovalsBalance, Balanced
  <2>1. r = p
    BY <1>12
  <2>2. moves[p].adjustments = 0
    BY <1>1, <1>2, <1>4, <1>8, <1>13, <1>15, <2>1 DEF NothingElsePosted
  <2>3. moves'[r].adjustments = CountedQty(line[r]) - ExpectedQty(line[r])
    BY <1>1, <1>5, <1>8, <2>1, <2>2
  <2>4. CountedQty(line[r]) = ExpectedQty(line[r]) + moves'[r].adjustments
    BY <1>1, <1>5, <2>1, <2>3
  <2> QED BY <1>1, <2>4 DEF CountedQty, ExpectedQty, UnitSize
<1>18. AdjustmentsExplainTheCount'
  <2> SUFFICES ASSUME NEW r \in Periods, clean', course'[r] = "regular", sheet'[r] = "APPROVED",
                      "adjustments" \notin moves'[r].byHand, line'[r] # NoLine
               PROVE  (CountedQty(line[r]) = ExpectedQty(line[r]) + moves[r].adjustments)'
    BY DEF AdjustmentsExplainTheCount
  <2>1. r # p
    BY <1>1, <1>15
  <2>2. CountedQty(line[r]) = ExpectedQty(line[r]) + moves[r].adjustments
    BY <1>1, <1>4, <1>8 DEF AdjustmentsExplainTheCount
  <2> QED BY <1>1, <1>8, <2>1, <2>2 DEF CountedQty, ExpectedQty, UnitSize
<1>19. MergedIsMoved' /\ ClosedPeriodsAreApproved'
  BY <1>1, <1>4, <1>8 DEF MergedIsMoved, ClosedPeriodsAreApproved
<1> QED BY <1>9, <1>11, <1>16, <1>17, <1>18, <1>19

LEMMA ApproveKeepsIInv ==
  ASSUME IInv, NEW w \in Workers, Approve(w)
  PROVE  IInv'
<1> USE DEF IInv
<1> DEFINE p == desk[w].period
           next == IF desk[w].then = "close"
                   THEN [does |-> "closes", period |-> p, fresh |-> desk[w].fresh] ELSE Idle
<1>1. /\ desk[w] # Idle /\ desk[w].does = "approves" /\ Writes(w, next)
      /\ sheet' = [sheet EXCEPT ![p] = "APPROVED"]
      /\ UNCHANGED <<kind, dated, closed, line, snapshot, moves, unmerged, course>>
  BY DEF Approve, Is
<1>2. desk[w] \in Requests /\ p \in Periods /\ desk[w].fresh \in BOOLEAN
  BY <1>1 DEF TypeOK, Requests
<1>3. next \in Requests \cup {Idle} /\ (next # Idle => next.fresh = desk[w].fresh /\ next.does = "closes"
                                                       /\ next.period = p)
  BY <1>2 DEF Requests
<1>4. /\ desk'[w] = next
      /\ desk' \in [Workers -> Requests \cup {Idle}] /\ clean' \in BOOLEAN
      /\ clean' => clean /\ desk[w].fresh /\ \A v \in Workers \ {w} : ~HalfWay(v) /\ ~HalfWay(v)'
  BY <1>1, <1>3, WritesDesk
<1>5. TypeOK'
  BY <1>1, <1>4 DEF TypeOK
<1>6. Knows(desk[w])'
  <2> HIDE DEF next
  <2> QED BY <1>1, <1>2, <1>3, <1>4 DEF Knows, TypeOK
<1>7. RequestsKnow' /\ HalfWayIsFresh'
  <2> HIDE DEF next
  <2> QED BY <1>1, <1>3, <1>6, WritesKeepRequests
<1>8. \A v \in Workers, r \in Periods : clean' => ~Approving(v, r)'
  <2> HIDE DEF next
  <2> QED BY <1>3, <1>4 DEF Approving, Is, HalfWay
<1>9. \A v \in Workers, r \in Periods : clean' /\ Approving(v, r) => v = w /\ r = p
  BY <1>4 DEF Approving, Is, HalfWay
<1>10. NothingElsePosted'
  <2> SUFFICES ASSUME NEW r \in Periods, clean', course'[r] = "regular", sheet'[r] = "DRAFT",
                      "adjustments" \notin moves'[r].byHand
               PROVE  moves'[r].adjustments = 0
    BY DEF NothingElsePosted
  <2>1. r # p /\ sheet[r] = "DRAFT"
    BY <1>1, <1>2 DEF TypeOK
  <2> QED BY <1>1, <1>4, <1>9, <2>1 DEF NothingElsePosted
<1>11. ApprovalsBalance'
  BY <1>8 DEF ApprovalsBalance
<1>12. AdjustmentsExplainTheCount'
  <2> SUFFICES ASSUME NEW r \in Periods, clean', course'[r] = "regular", sheet'[r] = "APPROVED",
                      "adjustments" \notin moves'[r].byHand, line'[r] # NoLine
               PROVE  (CountedQty(line[r]) = ExpectedQty(line[r]) + moves[r].adjustments)'
    BY DEF AdjustmentsExplainTheCount
  <2>1. CASE r = p
    <3>1. Approving(w, p)
      BY <1>1 DEF Approving, Is
    <3>2. Balanced(p)
      BY <1>1, <1>2, <1>4, <2>1, <3>1 DEF ApprovalsBalance
    <3> QED BY <1>1, <2>1, <3>2 DEF Balanced, CountedQty, ExpectedQty, UnitSize
  <2>2. CASE r # p
    <3>1. CountedQty(line[r]) = ExpectedQty(line[r]) + moves[r].adjustments
      BY <1>1, <1>2, <1>4, <2>2 DEF AdjustmentsExplainTheCount, TypeOK
    <3> QED BY <1>1, <3>1 DEF CountedQty, ExpectedQty, UnitSize
  <2> QED BY <2>1, <2>2
<1>13. MergedIsMoved' /\ ClosedPeriodsAreApproved'
  BY <1>1, <1>2, <1>4 DEF MergedIsMoved, ClosedPeriodsAreApproved, TypeOK
<1> QED BY <1>5, <1>7, <1>10, <1>11, <1>12, <1>13

LEMMA ClosePeriodKeepsIInv ==
  ASSUME IInv, NEW w \in Workers, ClosePeriod(w)
  PROVE  IInv'
<1> USE DEF IInv
<1> DEFINE p == desk[w].period
<1>1. /\ desk[w] # Idle /\ desk[w].does = "closes" /\ Writes(w, Idle)
      /\ closed' = [closed EXCEPT ![p] = TRUE]
      /\ UNCHANGED <<kind, dated, sheet, line, snapshot, moves, unmerged, course>>
  BY DEF ClosePeriod, Is
<1>2. /\ desk[w] \in Requests /\ desk'[w] = Idle
      /\ desk' \in [Workers -> Requests \cup {Idle}] /\ clean' \in BOOLEAN
      /\ clean' => clean /\ desk[w].fresh
  BY <1>1, WritesDesk
<1>3. p \in Periods
  BY <1>1, <1>2 DEF Requests
<1>4. TypeOK'
  BY <1>1, <1>2 DEF TypeOK
<1>5. Knows(desk[w])'
  BY <1>2 DEF Knows
<1>6. RequestsKnow' /\ HalfWayIsFresh'
  BY <1>1, <1>5, WritesKeepRequests
<1>7. clean' => \A v \in Workers, r \in Periods : ~Approving(v, r) /\ ~Approving(v, r)'
  BY <1>1, NobodyApproves
<1>8. clean' => sheet[p] = "APPROVED"
  BY <1>1, <1>2 DEF RequestsKnow, Knows
<1>9. MergedIsMoved' /\ ClosedPeriodsAreApproved'
  BY <1>1, <1>2, <1>8 DEF MergedIsMoved, ClosedPeriodsAreApproved, TypeOK
<1>10. \A r \in Periods : KeepsAdjustments(moves[r], moves'[r])
  BY <1>1 DEF KeepsAdjustments
<1> QED BY <1>1, <1>2, <1>4, <1>6, <1>7, <1>9, <1>10, QuietStep

LEMMA TreatedTyped ==
  ASSUME TypeOK, NEW p \in Periods, NEW how \in {"reopened", "sidestepped"}, Treated(p, how)
  PROVE  /\ course' \in [Periods -> {"regular", "reopened", "sidestepped"}]
         /\ \A r \in Periods : r # p => course'[r] = course[r]
         /\ course'[p] # "regular"
         /\ course[p] = "sidestepped" => course'[p] = "sidestepped"
         /\ how = "sidestepped" => course'[p] = "sidestepped"
BY DEF Treated, TypeOK

LEMMA ReopenPeriodKeepsIInv ==
  ASSUME IInv, NEW w \in Workers, NEW p \in Periods, ReopenPeriod(w, p)
  PROVE  IInv'
<1> USE DEF IInv
<1> DEFINE q == [does |-> "reopens", period |-> p, fresh |-> TRUE]
<1>1. /\ closed' = [closed EXCEPT ![p] = FALSE]
      /\ desk' = [v \in Workers |-> IF v = w THEN q ELSE Outdated(v)]
      /\ clean' = (clean /\ \A v \in Workers : ~HalfWay(v))
      /\ Treated(p, "reopened")
      /\ UNCHANGED <<kind, dated, sheet, line, snapshot, moves, unmerged>>
  BY DEF ReopenPeriod
<1>2. q \in Requests
  BY DEF Requests
<1>3. /\ desk' \in [Workers -> Requests \cup {Idle}] /\ desk'[w] = q /\ clean' \in BOOLEAN
      /\ \A v \in Workers : v # w => desk'[v] = Outdated(v)
  BY <1>1, <1>2, OutdatedRequests DEF TypeOK
<1>4. TypeOK'
  BY <1>1, <1>3, TreatedTyped DEF TypeOK
<1>5. RequestsKnow'
  <2> SUFFICES ASSUME NEW v \in Workers PROVE Knows(desk[v])'
    BY DEF RequestsKnow
  <2>1. CASE v = w
    BY <1>1, <1>3, <2>1, TreatedTyped DEF Knows, TypeOK
  <2>2. CASE v # w
    BY <1>3, <2>2, OutdatedRequests DEF Knows
  <2> QED BY <2>1, <2>2
<1>6. clean' => \A v \in Workers : v # w => ~HalfWay(v)'
  BY <1>1, <1>3, OutdatedRequests DEF HalfWay
<1>7. HalfWayIsFresh'
  BY <1>3, <1>6 DEF HalfWayIsFresh
<1>8. clean' => \A v \in Workers, r \in Periods : ~Approving(v, r) /\ ~Approving(v, r)'
  BY <1>1, <1>3, <1>6 DEF Approving, Is, HalfWay
<1>9. MergedIsMoved' /\ ClosedPeriodsAreApproved'
  BY <1>1, TreatedTyped DEF MergedIsMoved, ClosedPeriodsAreApproved, TypeOK
<1>10. \A r \in Periods : KeepsAdjustments(moves[r], moves'[r])
  BY <1>1 DEF KeepsAdjustments
<1> QED BY <1>1, <1>4, <1>5, <1>7, <1>8, <1>9, TreatedTyped, <1>10, QuietStep

LEMMA ReopenItsSheetKeepsIInv ==
  ASSUME IInv, NEW w \in Workers, ReopenItsSheet(w)
  PROVE  IInv'
<1> USE DEF IInv
<1> DEFINE p == desk[w].period
<1>1. /\ desk[w] # Idle /\ desk[w].does = "reopens" /\ Writes(w, Idle)
      /\ sheet' = [sheet EXCEPT ![p] = "DRAFT"]
      /\ UNCHANGED <<kind, dated, closed, line, snapshot, moves, unmerged, course>>
  BY DEF ReopenItsSheet, Is
<1>2. /\ desk[w] \in Requests /\ desk'[w] = Idle
      /\ desk' \in [Workers -> Requests \cup {Idle}] /\ clean' \in BOOLEAN
      /\ clean' => clean /\ desk[w].fresh
  BY <1>1, WritesDesk
<1>3. p \in Periods
  BY <1>1, <1>2 DEF Requests
<1>4. TypeOK'
  BY <1>1, <1>2 DEF TypeOK
<1>5. Knows(desk[w])'
  BY <1>2 DEF Knows
<1>6. RequestsKnow' /\ HalfWayIsFresh'
  BY <1>1, <1>5, WritesKeepRequests
<1>7. clean' => \A v \in Workers, r \in Periods : ~Approving(v, r) /\ ~Approving(v, r)'
  BY <1>1, NobodyApproves
<1>8. clean' => ~closed[p] /\ course[p] # "regular"
  BY <1>1, <1>2 DEF RequestsKnow, Knows
<1>9. \A r \in Periods : r # p => sheet'[r] = sheet[r]
  BY <1>1 DEF TypeOK
<1>10. MergedIsMoved' /\ ClosedPeriodsAreApproved'
  BY <1>1, <1>2, <1>8, <1>9 DEF MergedIsMoved, ClosedPeriodsAreApproved
<1>11. \A r \in Periods : KeepsAdjustments(moves[r], moves'[r])
  BY <1>1 DEF KeepsAdjustments
<1> QED BY <1>1, <1>2, <1>4, <1>6, <1>7, <1>8, <1>9, <1>10, <1>11, QuietStep

LEMMA SidestepsKeepIInv ==
  ASSUME IInv, NEW p \in Periods, Sidesteps(p)
  PROVE  IInv'
<1> USE DEF IInv
<1>1. /\ WritesAtOnce /\ Treated(p, "sidestepped")
      /\ UNCHANGED <<kind, dated, line, moves, unmerged>>
  BY DEF Sidesteps
<1>2. /\ closed' \in [Periods -> BOOLEAN]
      /\ sheet' \in [Periods -> {"DRAFT", "APPROVED"}]
      /\ snapshot' \in [Periods -> Snapshots \cup {NoSnapshot}]
      /\ \A r \in Periods : r # p => closed'[r] = closed[r] /\ sheet'[r] = sheet[r]
  <2>1. CASE ReopenSheet(p)
    BY <2>1 DEF ReopenSheet, TypeOK
  <2>2. CASE PatchPeriod(p)
    BY <2>2 DEF PatchPeriod, TypeOK
  <2>3. CASE PatchSnapshot(p)
    <3>1. PICK c \in Counts : snapshot' = [snapshot EXCEPT ![p] = Stored(c)]
      BY <2>3 DEF PatchSnapshot
    <3>2. c.full \in Nat /\ c.partial \in Nat
      BY CountsAreQuantities
    <3>3. Stored(c) \in Snapshots
      BY <3>2, StoredTyped DEF TypeOK
    <3> QED BY <2>3, <3>1, <3>3 DEF PatchSnapshot, TypeOK
  <2> QED BY <2>1, <2>2, <2>3 DEF Sidesteps
<1>3. TypeOK'
  BY <1>1, <1>2, WritesAtOnceDesk, TreatedTyped DEF TypeOK
<1>4. RequestsKnow' /\ HalfWayIsFresh' /\ (clean' => clean)
  BY <1>1, WritesAtOnceKeepRequests, WritesAtOnceDesk
<1>5. \A r \in Periods : r # p => course'[r] = course[r]
  BY <1>1, TreatedTyped
<1>6. course'[p] = "sidestepped"
  BY <1>1, TreatedTyped
<1>7. MergedIsMoved' /\ ClosedPeriodsAreApproved'
  BY <1>1, <1>2, <1>4, <1>5, <1>6 DEF MergedIsMoved, ClosedPeriodsAreApproved
<1>8. \A r \in Periods : KeepsAdjustments(moves[r], moves'[r])
  BY <1>1 DEF KeepsAdjustments
<1> QED BY <1>1, <1>2, <1>3, <1>4, <1>5, <1>6, <1>7, NobodyApprovesAtOnce, <1>8, QuietStep

LEMMA CutOffKeepsIInv ==
  ASSUME IInv, NEW w \in Workers, CutOff(w)
  PROVE  IInv'
<1> USE DEF IInv
<1>1. /\ desk' = [desk EXCEPT ![w] = Idle] /\ clean' = FALSE
      /\ UNCHANGED <<kind, dated, closed, sheet, line, snapshot, moves, unmerged, course>>
  BY DEF CutOff
<1>2. TypeOK'
  BY <1>1 DEF TypeOK
<1>3. RequestsKnow'
  <2> SUFFICES ASSUME NEW v \in Workers PROVE Knows(desk[v])'
    BY DEF RequestsKnow
  <2>1. desk'[v] = IF v = w THEN Idle ELSE desk[v]
    BY <1>1 DEF TypeOK
  <2> QED BY <1>1, <2>1 DEF RequestsKnow, Knows
<1>4. HalfWayIsFresh' /\ MergedIsMoved' /\ ClosedPeriodsAreApproved'
  BY <1>1 DEF HalfWayIsFresh, MergedIsMoved, ClosedPeriodsAreApproved
<1>5. \A r \in Periods : KeepsAdjustments(moves[r], moves'[r])
  BY <1>1 DEF KeepsAdjustments
<1> QED BY <1>1, <1>2, <1>3, <1>4, <1>5, QuietStep

\* What the handlers begin with: a check of the state the request relies on.
LEMMA BeginningsKeepIInv ==
  ASSUME IInv, NEW w \in Workers, NEW p \in Periods,
         \/ UpdateLine(w, p) \/ UpdateOpeningStock(w, p) \/ StartMovement(w, p) \/ StartMerge(w, p)
         \/ StartPopulate(w, p) \/ StartApproval(w, p) \/ StartClosing(w, p)
  PROVE  IInv'
<1> USE DEF IInv
<1>1. line[p] # NoLine => line[p] \in Lines
  BY DEF TypeOK
<1>2. CASE UpdateLine(w, p)
  <2>1. PICK l \in {[line[p] EXCEPT !.full = c.full, !.partial = c.partial] : c \in Counts}
                     \cup {[line[p] EXCEPT !.purchases = n * UnitSize] : n \in 0 .. MaxMoves} :
          Begins(w, [does |-> "saves", period |-> p, fresh |-> TRUE, line |-> l])
    BY <1>2 DEF UpdateLine
  <2> DEFINE q == [does |-> "saves", period |-> p, fresh |-> TRUE, line |-> l]
  <2>2. line[p] \in Lines
    BY <1>1, <1>2 DEF UpdateLine
  <2>3. l \in Lines
    <3>1. CASE \E c \in Counts : l = [line[p] EXCEPT !.full = c.full, !.partial = c.partial]
      BY <2>2, <3>1, CountsAreQuantities DEF Lines
    <3>2. CASE \E n \in 0 .. MaxMoves : l = [line[p] EXCEPT !.purchases = n * UnitSize]
      <4>1. PICK n \in 0 .. MaxMoves : l = [line[p] EXCEPT !.purchases = n * UnitSize]
        BY <3>2
      <4>3. n * UnitSize \in Int
        BY BoughtUnits DEF TypeOK
      <4> QED BY <2>2, <4>1, <4>3 DEF Lines
    <3> QED BY <2>1, <3>1, <3>2
  <2>4. q \in Requests
    BY <2>3 DEF Requests
  <2>5. Knows(q)
    BY <1>2 DEF UpdateLine, IsEditable, Knows
  <2> QED BY <2>1, <2>4, <2>5, BeginsKeepsIInv
<1>3. CASE UpdateOpeningStock(w, p)
  <2>1. PICK c \in Counts : Begins(w, [does |-> "saves", period |-> p, fresh |-> TRUE,
          line |-> [line[p] EXCEPT !.opening = CountedQty(c)]])
    BY <1>3 DEF UpdateOpeningStock
  <2> DEFINE l == [line[p] EXCEPT !.opening = CountedQty(c)]
             q == [does |-> "saves", period |-> p, fresh |-> TRUE, line |-> l]
  <2>2. CountedQty(c) \in Int
    BY CountsAreQuantities, UnitsTyped DEF Snapshots, TypeOK
  <2>3. l \in Lines
    BY <1>1, <1>3, <2>2 DEF UpdateOpeningStock, Lines
  <2>4. q \in Requests
    BY <2>3 DEF Requests
  <2>5. Knows(q)
    BY <1>3 DEF UpdateOpeningStock, IsEditable, Knows
  <2> QED BY <2>1, <2>4, <2>5, BeginsKeepsIInv
<1>4. CASE StartMovement(w, p)
  <2> DEFINE q == [does |-> "moves", period |-> p, line |-> line[p], fresh |-> TRUE]
  <2>1. q \in Requests /\ Knows(q) /\ Begins(w, q)
    BY <1>1, <1>4 DEF StartMovement, IsEditable, Requests, Knows
  <2> QED BY <2>1, BeginsKeepsIInv
<1>5. CASE StartMerge(w, p)
  <2> DEFINE q == [does |-> "merges", period |-> p, line |-> line[p],
                   records |-> unmerged[p], fresh |-> TRUE]
  <2>1. q \in Requests /\ Knows(q) /\ Begins(w, q)
    BY <1>1, <1>5 DEF StartMerge, IsEditable, Requests, Knows, TypeOK
  <2> QED BY <2>1, BeginsKeepsIInv
<1>6. CASE StartPopulate(w, p)
  <2> DEFINE q == [does |-> "clears", period |-> p, fresh |-> TRUE]
  <2>1. q \in Requests /\ Knows(q) /\ Begins(w, q)
    BY <1>6 DEF StartPopulate, Requests, Knows
  <2> QED BY <2>1, BeginsKeepsIInv
<1>7. CASE StartApproval(w, p)
  <2>1. PICK then \in {"rest", "close"} :
          Begins(w, [does |-> "posts", period |-> p, then |-> then, fresh |-> TRUE])
    BY <1>7 DEF StartApproval
  <2> DEFINE q == [does |-> "posts", period |-> p, then |-> then, fresh |-> TRUE]
  <2>2. q \in Requests /\ Knows(q)
    BY <1>7 DEF StartApproval, Requests, Knows
  <2> QED BY <2>1, <2>2, BeginsKeepsIInv
<1>8. CASE StartClosing(w, p)
  <2> DEFINE q == [does |-> "closes", period |-> p, fresh |-> TRUE]
  <2>1. q \in Requests /\ Knows(q) /\ Begins(w, q)
    BY <1>8 DEF StartClosing, Requests, Knows
  <2> QED BY <2>1, BeginsKeepsIInv
<1> QED BY <1>2, <1>3, <1>4, <1>5, <1>6, <1>7, <1>8

LEMMA CarryLineKeepsIInv ==
  ASSUME IInv, NEW w \in Workers, NEW p \in Places, NEW q \in Places, CarryLine(w, p, q)
  PROVE  IInv'
<1> USE DEF IInv
<1>1. PICK l \in IF p \in Periods THEN {line[p]}
                 ELSE {[opening |-> 0, purchases |-> 0, waste |-> 0,
                        full |-> c.full, partial |-> c.partial] : c \in Counts} :
        Begins(w, [does |-> "carries", period |-> p, to |-> q, line |-> l, fresh |-> TRUE])
  BY DEF CarryLine
<1> DEFINE request == [does |-> "carries", period |-> p, to |-> q, line |-> l, fresh |-> TRUE]
<1>2. l \in Lines
  <2>1. CASE p \in Periods
    BY <1>1, <2>1 DEF CarryLine, TypeOK
  <2>2. CASE p \notin Periods
    BY <1>1, <2>2, CountsAreQuantities DEF Lines
  <2> QED BY <2>1, <2>2
<1>3. request \in Requests
  BY <1>2 DEF Requests
<1>4. Knows(request)
  BY DEF CarryLine, Knows
<1> QED BY <1>1, <1>3, <1>4, BeginsKeepsIInv

-----------------------------------------------------------------------------
(* The theorems *)

LEMMA InitIInv == Init => IInv
<1> SUFFICES ASSUME Init PROVE IInv
  OBVIOUS
<1>1. TypeOK
  BY DEF Init, TypeOK, Sums
<1>2. \A w \in Workers : desk[w] = Idle
  BY DEF Init
<1>3. RequestsKnow /\ HalfWayIsFresh /\ ApprovalsBalance
  BY <1>2 DEF RequestsKnow, Knows, HalfWayIsFresh, HalfWay, ApprovalsBalance, Approving, Is
<1>4. NothingElsePosted /\ AdjustmentsExplainTheCount /\ ClosedPeriodsAreApproved
  BY DEF Init, NothingElsePosted, AdjustmentsExplainTheCount, ClosedPeriodsAreApproved
<1>5. MergedIsMoved
  <2>1. Records \ Records = {} /\ Cardinality({}) = 0
    BY FS_EmptySet
  <2> QED BY <2>1 DEF Init, MergedIsMoved
<1> QED BY <1>1, <1>3, <1>4, <1>5 DEF IInv

LEMMA NextIInv == IInv /\ [Next]_vars => IInv'
<1> SUFFICES ASSUME IInv, [Next]_vars PROVE IInv'
  OBVIOUS
<1>1. CASE UNCHANGED vars
  BY <1>1 DEF vars, IInv, TypeOK, RequestsKnow, Knows, HalfWayIsFresh, HalfWay, NothingElsePosted,
     ApprovalsBalance, Approving, Is, Balanced, AdjustmentsExplainTheCount, MergedIsMoved,
     ClosedPeriodsAreApproved, CountedQty, ExpectedQty, UnitSize
<1>2. ASSUME NEW w \in Workers, NEW p \in Periods,
             \/ UpdateLine(w, p) \/ UpdateOpeningStock(w, p) \/ StartMovement(w, p) \/ StartMerge(w, p)
             \/ StartPopulate(w, p) \/ StartApproval(w, p) \/ StartClosing(w, p)
      PROVE  IInv'
  BY <1>2, BeginningsKeepIInv
<1>3. ASSUME NEW w \in Workers, NEW p \in Periods, ReopenPeriod(w, p) PROVE IInv'
  BY <1>3, ReopenPeriodKeepsIInv
<1>9. ASSUME NEW w \in Workers, SaveCarried(w) \/ RefuseCarried(w) PROVE IInv'
  BY <1>9, SaveCarriedKeepsIInv, RefuseCarriedKeepsIInv
<1>10. ASSUME NEW w \in Workers, NEW p \in Places, NEW q \in Places, CarryLine(w, p, q) PROVE IInv'
  BY <1>10, CarryLineKeepsIInv
<1>4. ASSUME NEW w \in Workers, SaveLine(w) \/ WriteMovement(w) \/ CommitMerge(w) PROVE IInv'
  BY <1>4, SaveLineKeepsIInv, WriteMovementKeepsIInv, CommitMergeKeepsIInv
<1>5. ASSUME NEW w \in Workers, ClearLines(w) \/ CreateLine(w) PROVE IInv'
  BY <1>5, ClearLinesKeepsIInv, CreateLineKeepsIInv
<1>6. ASSUME NEW w \in Workers, PostVariance(w) \/ Approve(w) \/ ClosePeriod(w) PROVE IInv'
  BY <1>6, PostVarianceKeepsIInv, ApproveKeepsIInv, ClosePeriodKeepsIInv
<1>7. ASSUME NEW w \in Workers, ReopenItsSheet(w) \/ CutOff(w) PROVE IInv'
  BY <1>7, ReopenItsSheetKeepsIInv, CutOffKeepsIInv
<1>8. ASSUME NEW p \in Periods, RecordMovement(p) \/ DeleteLine(p) \/ Sidesteps(p) PROVE IInv'
  BY <1>8, RecordMovementKeepsIInv, DeleteLineKeepsIInv, SidestepsKeepIInv
<1> QED BY <1>1, <1>2, <1>3, <1>4, <1>5, <1>6, <1>7, <1>8, <1>9, <1>10 DEF Next

\* What puts a line into an approved stocktake is a save, and if the request was
\* up to date it carried the line to where there was none.
LEMMA LinesChange ==
  ASSUME IInv, Next, NEW p \in Periods, sheet[p] = "APPROVED", line'[p] # line[p], line'[p] # NoLine
  PROVE  \E w \in Workers :
           /\ desk[w] # Idle /\ desk'[w] = Idle /\ Writes(w, Idle)
           /\ desk[w].fresh => line[p] = NoLine /\ course'[p] = "sidestepped"
<1> USE DEF IInv
<1>1. ASSUME NEW w \in Workers, SaveLine(w) \/ CommitMerge(w) \/ CreateLine(w)
      PROVE  desk[w] # Idle /\ desk'[w] = Idle /\ Writes(w, Idle) /\ ~desk[w].fresh
  <2>1. desk[w] # Idle /\ Writes(w, Idle) /\ desk[w].does \in {"saves", "merges", "creates"}
    BY <1>1 DEF SaveLine, CommitMerge, CreateLine, Is
  <2>2. desk'[w] = Idle /\ desk[w].period \in Places /\ desk[w].period \in Periods
    <3>1. desk'[w] = Idle
      BY <2>1 DEF Writes
    <3>2. desk[w].period \in Periods
      BY <2>1 DEF TypeOK, Requests
    <3> QED BY <3>1, <3>2 DEF Places
  <2>3. ASSUME desk[w].fresh PROVE FALSE
    <3>1. desk[w].period # p
      BY <2>1, <2>3 DEF RequestsKnow, Knows
    <3>2. line'[p] \in {line[p], NoLine}
      <4>1. CASE SaveLine(w)
        <5>1. Saves(w, desk[w].period, desk[w].line) /\ desk[w].line \in Lines
          BY <4>1, <2>1 DEF SaveLine, Is, TypeOK, Requests
        <5> QED BY <2>2, <3>1, <5>1, SavesLine
      <4>2. CASE CommitMerge(w)
        <5> DEFINE q == desk[w].period
                   l == [desk[w].line EXCEPT !.purchases = moves[q].purchases, !.waste = moves[q].waste]
        <5>1. Saves(w, q, l) /\ desk[w].line \in Lines
          BY <4>2, <2>1 DEF CommitMerge, Is, TypeOK, Requests
        <5>2. l \in Lines
          BY <2>2, <5>1 DEF Lines, TypeOK, Sums
        <5> QED BY <2>2, <3>1, <5>1, <5>2, SavesLine
      <4>3. CASE CreateLine(w)
        BY <3>1, <4>3 DEF CreateLine, TypeOK
      <4> QED BY <1>1, <4>1, <4>2, <4>3
    <3> QED BY <3>2
  <2> QED BY <2>1, <2>2, <2>3
<1>2. ASSUME NEW w \in Workers, SaveCarried(w)
      PROVE  /\ desk[w] # Idle /\ desk'[w] = Idle /\ Writes(w, Idle)
             /\ desk[w].fresh => line[p] = NoLine /\ course'[p] = "sidestepped"
  <2>1. /\ desk[w] # Idle /\ desk[w].does = "carries" /\ Writes(w, Idle)
        /\ Saves(w, desk[w].to, desk[w].line)
    BY <1>2 DEF SaveCarried, Is
  <2>2. desk'[w] = Idle
    BY <2>1 DEF Writes
  <2>3. desk[w].to \in Places /\ desk[w].line \in Lines
    BY <2>1 DEF TypeOK, Requests
  <2>4. desk[w].to = p
    BY <2>1, <2>3, SavesLine
  <2>5. desk[w].fresh => desk[w].to # desk[w].period
    BY <2>1 DEF RequestsKnow, Knows
  <2>6. desk[w].fresh => line[p] = NoLine
    BY <2>1, <2>3, <2>4, <2>5, SavesLine
  <2>7. course'[p] = "sidestepped"
    BY <1>2, <2>4 DEF SaveCarried, Treated, TypeOK
  <2> QED BY <2>1, <2>2, <2>6, <2>7
<1>3. ASSUME NEW w \in Workers, ClearLines(w) PROVE FALSE
  BY <1>3 DEF ClearLines, TypeOK
<1>4. ASSUME NEW q \in Periods, DeleteLine(q) PROVE FALSE
  BY <1>4 DEF DeleteLine, TypeOK
<1>5. ASSUME NEW w \in Workers, NEW q \in Periods,
             \/ UpdateLine(w, q) \/ UpdateOpeningStock(w, q) \/ StartMovement(w, q) \/ StartMerge(w, q)
             \/ StartPopulate(w, q) \/ StartApproval(w, q) \/ StartClosing(w, q) \/ ReopenPeriod(w, q)
      PROVE  FALSE
  <2>1. line' = line
    BY <1>5 DEF UpdateLine, UpdateOpeningStock, StartMovement, StartMerge, StartPopulate, StartApproval,
       StartClosing, ReopenPeriod, Begins
  <2> QED BY <2>1
<1>6. ASSUME NEW w \in Workers,
             \/ WriteMovement(w) \/ PostVariance(w) \/ Approve(w) \/ ClosePeriod(w)
             \/ ReopenItsSheet(w) \/ CutOff(w) \/ RefuseCarried(w)
      PROVE  FALSE
  <2>1. line' = line
    BY <1>6 DEF WriteMovement, PostVariance, Approve, ClosePeriod, ReopenItsSheet, CutOff, RefuseCarried
  <2> QED BY <2>1
<1>7. ASSUME NEW q \in Periods, RecordMovement(q) \/ Sidesteps(q) PROVE FALSE
  BY <1>7 DEF RecordMovement, Sidesteps
<1>8. ASSUME NEW w \in Workers, NEW q \in Places, NEW r \in Places, CarryLine(w, q, r) PROVE FALSE
  BY <1>8 DEF CarryLine, Begins
<1> QED BY <1>1, <1>2, <1>3, <1>4, <1>5, <1>6, <1>7, <1>8 DEF Next

\* Every reachable state satisfies the inductive invariant.
THEOREM StocktakeInvariant == Spec => []IInv
BY InitIInv, NextIInv, PTL DEF Spec

\* The variables always have their types.
THEOREM TypeCorrect == Spec => []TypeOK
BY StocktakeInvariant, PTL DEF IInv

\* An approved stocktake that was never reopened and got no line of another has
\* posted its variance once, however many requests there are, unless they race,
\* are cut off or write adjustments by hand.
THEOREM VarianceIsPosted == Spec => []AdjustmentsExplainTheCount
BY StocktakeInvariant, PTL DEF IInv

\* What is marked as merged has been moved, whatever requests race and whatever
\* is cut off, unless movements of cocktails are written by hand.
THEOREM MergesMove == Spec => []MergedIsMoved
BY StocktakeInvariant, PTL DEF IInv

\* A closed period has an approved stocktake, as long as all keep to the order
\* of the endpoints.
THEOREM ClosingFollowsApproval == Spec => []ClosedPeriodsAreApproved
BY StocktakeInvariant, PTL DEF IInv

\* The line of an approved stocktake stays what it is, is deleted or carried
\* away, or is written by a request that was out of date; in spite of races.
THEOREM ApprovalFreezesLines == Spec => ApprovedLinesStay
<1> DEFINE Stay ==
      \A p \in Periods :
        sheet[p] = "APPROVED" /\ line[p] # NoLine /\ line'[p] # line[p]
          => line'[p] = NoLine \/ WritesOutdated
<1>1. ASSUME IInv, Next PROVE Stay
  <2> SUFFICES ASSUME NEW p \in Periods, sheet[p] = "APPROVED", line[p] # NoLine, line'[p] # line[p],
                      line'[p] # NoLine
               PROVE  WritesOutdated
    OBVIOUS
  <2>1. PICK w \in Workers :
          /\ desk[w] # Idle /\ desk'[w] = Idle /\ Writes(w, Idle)
          /\ desk[w].fresh => line[p] = NoLine /\ course'[p] = "sidestepped"
    BY <1>1, LinesChange
  <2> QED BY <2>1 DEF WritesOutdated
<1>2. IInv /\ [Next]_vars => [Stay]_vars
  BY <1>1
<1> QED BY <1>2, StocktakeInvariant, PTL DEF Spec, ApprovedLinesStay

-----------------------------------------------------------------------------
(* What the next period opens with *)

\* The snapshot of an approved period, and of one whose approval is half way,
\* is that of the line as it is counted.
SnapshotsFollow ==
  \A p \in Periods :
    clean /\ p \in dated /\ course[p] # "sidestepped" /\ line[p] # NoLine
        /\ (sheet[p] = "APPROVED" \/ \E w \in Workers : Approving(w, p))
      => snapshot[p] = Stored(line[p])

\* What is stored of a line, added up again: its count, but for juices, whose
\* lines count bottles and whose snapshots do not.
LEMMA StoredKeepsTheCount ==
  ASSUME kind \in Kinds, NEW l, l.full \in Nat, l.partial \in Nat
  PROVE  TotalServings(Stored(l)) = CarriedOver(l)
<1>1. CarriedOver(l) = l.full * UnitSize + l.partial
  BY DEF CarriedOver, CountedQty
<1>2. CASE kind = "dozen" /\ l.full = 0
  <2>1. UnitSize = Uom /\ Uom \in Nat /\ Uom > 0
    BY <1>2, UnitsAreNumbers DEF UnitSize
  <2>2. TotalServings(Stored(l)) = (l.partial \div Uom) * Uom + (l.partial % Uom)
    BY <1>2, <2>1 DEF TotalServings, Stored
  <2>3. (l.partial \div Uom) * Uom + (l.partial % Uom) = l.partial
    <3>1. \A n, u \in Nat : u > 0 => (n \div u) * u + (n % u) = n
      BY SMT
    <3> QED BY <2>1, <3>1
  <2>4. l.full * UnitSize + l.partial = l.partial
    BY <1>2, <2>1
  <2> QED BY <1>1, <2>2, <2>3, <2>4
<1>3. CASE ~(kind = "dozen" /\ l.full = 0)
  BY <1>1, <1>3 DEF TotalServings, Stored
<1> QED BY <1>2, <1>3

\* The latest earlier snapshot is that of the previous period, if it has one.
LEMMA OpensWithThePrevious ==
  ASSUME TypeOK, NEW p \in Periods, p + 1 \in Periods, snapshot[p] # NoSnapshot
  PROVE  OpeningBalance(p + 1) = TotalServings(snapshot[p])
<1> DEFINE earlier == {q \in Periods : q < p + 1 /\ snapshot[q] # NoSnapshot}
           latest == {q \in earlier : \A r \in earlier : r <= q}
<1>1. Periods \subseteq Nat
  BY PeriodsAreNumbers
<1>2. latest = {p}
  <2>1. p \in Nat /\ p \in earlier
    BY <1>1
  <2>2. \A r \in earlier : r \in Nat /\ r <= p
    BY <1>1, <2>1
  <2>3. \A q \in latest : q \in Nat /\ q <= p /\ p <= q
    BY <2>1, <2>2
  <2>4. p \in latest
    BY <2>1, <2>2
  <2>5. \A q \in latest : q = p
    BY <2>1, <2>3
  <2> HIDE DEF latest
  <2> QED BY <2>4, <2>5
<1>3. OpeningBalance(p + 1) = TotalServings(snapshot[CHOOSE q \in latest : TRUE])
  BY <1>2 DEF OpeningBalance
<1> QED BY <1>2, <1>3

\* A step that leaves snapshots and the lines of approved stocktakes alone.
LEMMA QuietSnapshots ==
  ASSUME SnapshotsFollow, kind' = kind, dated' = dated, clean' => clean,
         \A p \in Periods : clean' /\ course'[p] # "sidestepped" /\ line'[p] # NoLine
             /\ (sheet'[p] = "APPROVED" \/ \E w \in Workers : Approving(w, p)')
           => /\ course[p] # "sidestepped" /\ line'[p] = line[p] /\ snapshot'[p] = snapshot[p]
              /\ sheet[p] = "APPROVED" \/ \E w \in Workers : Approving(w, p)
  PROVE  SnapshotsFollow'
<1> SUFFICES ASSUME NEW p \in Periods, clean', p \in dated', course'[p] # "sidestepped", line'[p] # NoLine,
                    sheet'[p] = "APPROVED" \/ \E w \in Workers : Approving(w, p)'
             PROVE  snapshot'[p] = Stored(line[p])'
  BY DEF SnapshotsFollow
<1>1. snapshot[p] = Stored(line[p])
  BY DEF SnapshotsFollow
<1> QED BY <1>1 DEF Stored, UnitSize

\* As long as no request races another, no line gets into an approved stocktake
\* without sidestepping the order.
LEMMA CleanLinesStay ==
  ASSUME IInv, Next, NEW p \in Periods, clean', course'[p] # "sidestepped", sheet[p] = "APPROVED",
         line'[p] # NoLine
  PROVE  line'[p] = line[p]
<1> SUFFICES ASSUME line'[p] # line[p] PROVE FALSE
  OBVIOUS
<1>1. PICK w \in Workers :
        /\ desk[w] # Idle /\ desk'[w] = Idle /\ Writes(w, Idle)
        /\ desk[w].fresh => line[p] = NoLine /\ course'[p] = "sidestepped"
  BY LinesChange
<1>2. desk[w].fresh
  BY <1>1, WritesDesk DEF IInv
<1> QED BY <1>1, <1>2

\* A request that is about to write, and is not approving.
LEMMA WritersKeepSnapshots ==
  ASSUME IInv, SnapshotsFollow, Next, NEW w \in Workers, desk[w] # Idle, desk[w].does # "approves",
         NEW next \in Requests \cup {Idle}, next # Idle => next.does # "approves", Writes(w, next),
         \A p \in Periods : clean' /\ sheet'[p] = "APPROVED" => sheet[p] = "APPROVED",
         \A p \in Periods : course'[p] # "sidestepped" => course[p] # "sidestepped",
         UNCHANGED <<kind, dated, snapshot>>
  PROVE  SnapshotsFollow'
<1> USE DEF IInv
<1>1. clean' => clean
  BY WritesDesk
<1>2. clean' => \A v \in Workers, p \in Periods : ~Approving(v, p)'
  BY NobodyApproves
<1>3. \A p \in Periods : clean' /\ course'[p] # "sidestepped" /\ sheet[p] = "APPROVED" /\ line'[p] # NoLine
                          => line'[p] = line[p]
  BY CleanLinesStay
<1> QED BY <1>1, <1>2, <1>3, QuietSnapshots

LEMMA PostVarianceKeepsSnapshots ==
  ASSUME IInv, SnapshotsFollow, NEW w \in Workers, PostVariance(w)
  PROVE  SnapshotsFollow'
<1> USE DEF IInv
<1> DEFINE p == desk[w].period
           next == [does |-> "approves", period |-> p, then |-> desk[w].then, fresh |-> desk[w].fresh]
<1>1. /\ desk[w] # Idle /\ desk[w].does = "posts" /\ Writes(w, next)
      /\ snapshot' = IF line[p] # NoLine /\ p \in dated THEN [snapshot EXCEPT ![p] = Stored(line[p])]
                                                      ELSE snapshot
      /\ UNCHANGED <<kind, dated, closed, sheet, line, unmerged, course>>
  BY DEF PostVariance, Is
<1>2. desk[w] \in Requests /\ p \in Periods /\ desk[w].fresh \in BOOLEAN /\ desk[w].then \in {"rest", "close"}
  BY <1>1 DEF TypeOK, Requests
<1>3. next \in Requests
  BY <1>2 DEF Requests
<1>4. desk'[w] = next /\ (clean' => clean /\ \A v \in Workers \ {w} : ~HalfWay(v) /\ ~HalfWay(v)')
  BY <1>1, <1>3, WritesDesk
<1>5. \A v \in Workers, r \in Periods : clean' /\ Approving(v, r)' => r = p
  BY <1>4 DEF Approving, Is, HalfWay
<1> SUFFICES ASSUME NEW r \in Periods, clean', r \in dated', course'[r] # "sidestepped", line'[r] # NoLine,
                    sheet'[r] = "APPROVED" \/ \E v \in Workers : Approving(v, r)'
             PROVE  snapshot'[r] = Stored(line[r])'
  BY DEF SnapshotsFollow
<1>6. CASE r = p
  <2>1. snapshot'[r] = Stored(line[r])
    BY <1>1, <1>2, <1>6 DEF TypeOK
  <2> QED BY <1>1, <2>1 DEF Stored, UnitSize
<1>7. CASE r # p
  <2>1. sheet[r] = "APPROVED" /\ snapshot'[r] = snapshot[r]
    BY <1>1, <1>2, <1>5, <1>7 DEF TypeOK
  <2>2. snapshot[r] = Stored(line[r])
    BY <1>1, <1>4, <2>1 DEF SnapshotsFollow
  <2> QED BY <1>1, <2>1, <2>2 DEF Stored, UnitSize
<1> QED BY <1>6, <1>7

LEMMA ApproveKeepsSnapshots ==
  ASSUME IInv, SnapshotsFollow, NEW w \in Workers, Approve(w)
  PROVE  SnapshotsFollow'
<1> USE DEF IInv
<1> DEFINE p == desk[w].period
           next == IF desk[w].then = "close"
                   THEN [does |-> "closes", period |-> p, fresh |-> desk[w].fresh] ELSE Idle
<1>1. /\ desk[w] # Idle /\ desk[w].does = "approves" /\ Writes(w, next)
      /\ sheet' = [sheet EXCEPT ![p] = "APPROVED"]
      /\ UNCHANGED <<kind, dated, closed, line, snapshot, moves, unmerged, course>>
  BY DEF Approve, Is
<1>2. desk[w] \in Requests /\ p \in Periods /\ desk[w].fresh \in BOOLEAN
  BY <1>1 DEF TypeOK, Requests
<1>3. next \in Requests \cup {Idle} /\ (next # Idle => next.does = "closes")
  BY <1>2 DEF Requests
<1>4. desk'[w] = next /\ (clean' => clean /\ \A v \in Workers \ {w} : ~HalfWay(v) /\ ~HalfWay(v)')
  BY <1>1, <1>3, WritesDesk
<1>5. clean' => \A v \in Workers, r \in Periods : ~Approving(v, r)'
  <2> HIDE DEF next
  <2> QED BY <1>3, <1>4 DEF Approving, Is, HalfWay
<1>6. Approving(w, p)
  BY <1>1 DEF Approving, Is
<1>7. \A r \in Periods : sheet'[r] = "APPROVED" => sheet[r] = "APPROVED" \/ r = p
  BY <1>1, <1>2 DEF TypeOK
<1> HIDE DEF next
<1> QED BY <1>1, <1>4, <1>5, <1>6, <1>7, QuietSnapshots

\* Beginning a request, and being cut off, approve nothing.
LEMMA BeginningsKeepSnapshots ==
  ASSUME IInv, SnapshotsFollow, NEW w \in Workers, NEW p \in Periods,
         \/ UpdateLine(w, p) \/ UpdateOpeningStock(w, p) \/ StartMovement(w, p) \/ StartMerge(w, p)
         \/ StartPopulate(w, p) \/ StartApproval(w, p) \/ StartClosing(w, p)
  PROVE  SnapshotsFollow'
<1> USE DEF IInv
<1>1. PICK q : Begins(w, q) /\ q.does # "approves"
  <2>1. CASE UpdateLine(w, p)
    <3>1. PICK l : Begins(w, [does |-> "saves", period |-> p, fresh |-> TRUE, line |-> l])
      BY <2>1 DEF UpdateLine
    <3> QED BY <3>1
  <2>2. CASE UpdateOpeningStock(w, p)
    <3>1. PICK c \in Counts : Begins(w, [does |-> "saves", period |-> p, fresh |-> TRUE,
            line |-> [line[p] EXCEPT !.opening = CountedQty(c)]])
      BY <2>2 DEF UpdateOpeningStock
    <3> QED BY <3>1
  <2>3. CASE StartMovement(w, p) \/ StartMerge(w, p)
    BY <2>3 DEF StartMovement, StartMerge
  <2>4. CASE StartPopulate(w, p) \/ StartClosing(w, p)
    BY <2>4 DEF StartPopulate, StartClosing
  <2>5. CASE StartApproval(w, p)
    <3>1. PICK then \in {"rest", "close"} :
            Begins(w, [does |-> "posts", period |-> p, then |-> then, fresh |-> TRUE])
      BY <2>5 DEF StartApproval
    <3> QED BY <3>1
  <2> QED BY <2>1, <2>2, <2>3, <2>4, <2>5
<1>2. /\ desk' = [desk EXCEPT ![w] = q]
      /\ UNCHANGED <<kind, dated, closed, sheet, line, snapshot, moves, unmerged, clean, course>>
  BY <1>1 DEF Begins, Turns
<1>3. \A v \in Workers, r \in Periods : Approving(v, r)' => Approving(v, r)
  BY <1>1, <1>2 DEF Approving, Is, TypeOK
<1> QED BY <1>2, <1>3, QuietSnapshots

\* The same of beginning to carry a line, and of being refused to.
LEMMA CarryingKeepsSnapshots ==
  ASSUME IInv, SnapshotsFollow, NEW w \in Workers,
         (\E p, q \in Places : CarryLine(w, p, q)) \/ RefuseCarried(w)
  PROVE  SnapshotsFollow'
<1> USE DEF IInv
<1>1. PICK q : (q # Idle => q.does # "approves") /\ Turns(w, q)
               /\ UNCHANGED <<kind, dated, closed, sheet, line, snapshot, moves, unmerged, course>>
  <2>1. CASE \E p, q \in Places : CarryLine(w, p, q)
    <3>1. PICK p \in Places, q \in Places : CarryLine(w, p, q)
      BY <2>1
    <3>2. PICK l : Begins(w, [does |-> "carries", period |-> p, to |-> q, line |-> l, fresh |-> TRUE])
      BY <3>1 DEF CarryLine
    <3> QED BY <3>2 DEF Begins
  <2>2. CASE RefuseCarried(w)
    BY <2>2 DEF RefuseCarried
  <2> QED BY <2>1, <2>2
<1>2. desk' = [desk EXCEPT ![w] = q] /\ clean' = clean
  BY <1>1 DEF Turns
<1>3. \A v \in Workers, r \in Periods : Approving(v, r)' => Approving(v, r)
  BY <1>1, <1>2 DEF Approving, Is, TypeOK
<1> QED BY <1>1, <1>2, <1>3, QuietSnapshots

LEMMA ReopenPeriodKeepsSnapshots ==
  ASSUME IInv, SnapshotsFollow, NEW w \in Workers, NEW p \in Periods, ReopenPeriod(w, p)
  PROVE  SnapshotsFollow'
<1> USE DEF IInv
<1>1. /\ desk' = [v \in Workers |-> IF v = w THEN [does |-> "reopens", period |-> p, fresh |-> TRUE]
                                             ELSE Outdated(v)]
      /\ clean' = (clean /\ \A v \in Workers : ~HalfWay(v))
      /\ Treated(p, "reopened")
      /\ UNCHANGED <<kind, dated, sheet, line, snapshot, moves, unmerged>>
  BY DEF ReopenPeriod
<1>2. clean' => \A v \in Workers, r \in Periods : ~Approving(v, r)'
  <2> SUFFICES ASSUME clean', NEW v \in Workers, NEW r \in Periods PROVE ~Approving(v, r)'
    OBVIOUS
  <2>1. CASE v = w
    BY <1>1, <2>1 DEF Approving, Is
  <2>2. CASE v # w
    BY <1>1, <2>2, OutdatedRequests DEF Approving, Is, HalfWay
  <2> QED BY <2>1, <2>2
<1>3. \A r \in Periods : course'[r] # "sidestepped" => course[r] # "sidestepped"
  BY <1>1, TreatedTyped
<1> QED BY <1>1, <1>2, <1>3, QuietSnapshots DEF TypeOK

\* What is done at once approves nothing, or sidesteps.
LEMMA AtOnceKeepsSnapshots ==
  ASSUME IInv, SnapshotsFollow, Next, NEW p \in Periods,
         RecordMovement(p) \/ DeleteLine(p) \/ Sidesteps(p)
  PROVE  SnapshotsFollow'
<1> USE DEF IInv
<1>1. WritesAtOnce /\ kind' = kind /\ dated' = dated
  BY DEF RecordMovement, DeleteLine, Sidesteps
<1>2. (clean' => clean) /\ (clean' => \A v \in Workers, r \in Periods : ~Approving(v, r)')
  BY <1>1, WritesAtOnceDesk, NobodyApprovesAtOnce
<1>3. \A r \in Periods : clean' /\ course'[r] # "sidestepped" /\ sheet[r] = "APPROVED" /\ line'[r] # NoLine
                          => line'[r] = line[r]
  BY CleanLinesStay
<1>4. CASE RecordMovement(p) \/ DeleteLine(p)
  <2>1. UNCHANGED <<sheet, snapshot, course>>
    BY <1>4 DEF RecordMovement, DeleteLine
  <2> QED BY <1>1, <1>2, <1>3, <2>1, QuietSnapshots
<1>5. CASE Sidesteps(p)
  <2>1. course'[p] = "sidestepped" /\ \A r \in Periods : r # p => course'[r] = course[r]
    BY <1>5, TreatedTyped DEF Sidesteps
  <2>2. \A r \in Periods : r # p => sheet'[r] = sheet[r] /\ snapshot'[r] = snapshot[r]
    BY <1>5 DEF Sidesteps, ReopenSheet, PatchPeriod, PatchSnapshot, TypeOK
  <2> QED BY <1>1, <1>2, <1>3, <2>1, <2>2, QuietSnapshots
<1> QED BY <1>4, <1>5

LEMMA NextSnapshots == IInv /\ SnapshotsFollow /\ [Next]_vars => SnapshotsFollow'
<1> SUFFICES ASSUME IInv, SnapshotsFollow, [Next]_vars PROVE SnapshotsFollow'
  OBVIOUS
<1> USE DEF IInv
<1>1. CASE UNCHANGED vars
  BY <1>1 DEF vars, SnapshotsFollow, Approving, Is, Stored, UnitSize
<1>2. ASSUME NEW w \in Workers, NEW p \in Periods,
             \/ UpdateLine(w, p) \/ UpdateOpeningStock(w, p) \/ StartMovement(w, p) \/ StartMerge(w, p)
             \/ StartPopulate(w, p) \/ StartApproval(w, p) \/ StartClosing(w, p)
      PROVE  SnapshotsFollow'
  BY <1>2, BeginningsKeepSnapshots
<1>3. ASSUME NEW w \in Workers, NEW p \in Periods, ReopenPeriod(w, p) PROVE SnapshotsFollow'
  BY <1>3, ReopenPeriodKeepsSnapshots
<1>4. ASSUME Next, NEW w \in Workers,
             \/ SaveLine(w) \/ CommitMerge(w) \/ CreateLine(w) \/ ClosePeriod(w)
      PROVE  SnapshotsFollow'
  <2>1. /\ desk[w] # Idle /\ desk[w].does # "approves" /\ Writes(w, Idle)
        /\ UNCHANGED <<kind, dated, sheet, snapshot, course>>
    BY <1>4 DEF SaveLine, CommitMerge, CreateLine, ClosePeriod, Is
  <2> QED BY <1>4, <2>1, WritersKeepSnapshots
<1>5. ASSUME Next, NEW w \in Workers, ReopenItsSheet(w) PROVE SnapshotsFollow'
  <2>1. /\ desk[w] # Idle /\ desk[w].does # "approves" /\ Writes(w, Idle)
        /\ sheet' = [sheet EXCEPT ![desk[w].period] = "DRAFT"]
        /\ UNCHANGED <<kind, dated, snapshot, course>>
    BY <1>5 DEF ReopenItsSheet, Is
  <2>2. \A p \in Periods : sheet'[p] = "APPROVED" => sheet[p] = "APPROVED"
    BY <2>1 DEF TypeOK
  <2> QED BY <1>5, <2>1, <2>2, WritersKeepSnapshots
<1>6. ASSUME Next, NEW w \in Workers, ClearLines(w) PROVE SnapshotsFollow'
  <2> DEFINE next == [does |-> "creates", period |-> desk[w].period, fresh |-> desk[w].fresh]
  <2>1. /\ desk[w] # Idle /\ desk[w].does = "clears" /\ Writes(w, next)
        /\ UNCHANGED <<kind, dated, sheet, snapshot, course>>
    BY <1>6 DEF ClearLines, Is
  <2>2. next \in Requests /\ next.does # "approves"
    BY <2>1 DEF TypeOK, Requests
  <2> QED BY <1>6, <2>1, <2>2, WritersKeepSnapshots
<1>7. ASSUME Next, NEW w \in Workers, WriteMovement(w) PROVE SnapshotsFollow'
  <2>1. PICK m \in WithMovement(moves[desk[w].period]) :
          Writes(w, [does |-> "saves", period |-> desk[w].period, fresh |-> desk[w].fresh,
                     line |-> [desk[w].line EXCEPT !.purchases = m.purchases, !.waste = m.waste]])
    BY <1>7 DEF WriteMovement
  <2> DEFINE l == [desk[w].line EXCEPT !.purchases = m.purchases, !.waste = m.waste]
             next == [does |-> "saves", period |-> desk[w].period, fresh |-> desk[w].fresh, line |-> l]
  <2>2. /\ desk[w] # Idle /\ desk[w].does = "moves"
        /\ UNCHANGED <<kind, dated, sheet, line, snapshot, course>>
    BY <1>7 DEF WriteMovement, Is
  <2>3. desk[w] \in Requests /\ desk[w].period \in Periods /\ desk[w].line \in Lines /\ desk[w].fresh \in BOOLEAN
    BY <2>2 DEF TypeOK, Requests
  <2>4. m \in Sums
    BY <2>1, <2>3, MovementsTyped
  <2>5. l \in Lines
    BY <2>3, <2>4 DEF Lines, Sums
  <2>6. next \in Requests /\ next.does # "approves"
    BY <2>3, <2>5 DEF Requests
  <2> QED BY <1>7, <2>1, <2>2, <2>6, WritersKeepSnapshots
<1>8. ASSUME NEW w \in Workers, PostVariance(w) \/ Approve(w) PROVE SnapshotsFollow'
  BY <1>8, PostVarianceKeepsSnapshots, ApproveKeepsSnapshots
<1>9. ASSUME NEW w \in Workers, CutOff(w) PROVE SnapshotsFollow'
  BY <1>9 DEF CutOff, SnapshotsFollow
<1>10. ASSUME Next, NEW p \in Periods, RecordMovement(p) \/ DeleteLine(p) \/ Sidesteps(p)
       PROVE  SnapshotsFollow'
  BY <1>10, AtOnceKeepsSnapshots
<1>11. ASSUME Next, NEW w \in Workers, SaveCarried(w) PROVE SnapshotsFollow'
  <2>1. /\ desk[w] # Idle /\ desk[w].does # "approves" /\ Writes(w, Idle)
        /\ UNCHANGED <<kind, dated, sheet, snapshot>>
    BY <1>11 DEF SaveCarried, Is
  <2>2. \A p \in Periods : course'[p] # "sidestepped" => course[p] # "sidestepped"
    BY <1>11 DEF SaveCarried, Treated, TypeOK
  <2> QED BY <1>11, <2>1, <2>2, WritersKeepSnapshots
<1>12. ASSUME NEW w \in Workers, (\E p, q \in Places : CarryLine(w, p, q)) \/ RefuseCarried(w)
       PROVE  SnapshotsFollow'
  BY <1>12, CarryingKeepsSnapshots
<1> QED BY <1>1, <1>2, <1>3, <1>4, <1>5, <1>6, <1>7, <1>8, <1>9, <1>10, <1>11, <1>12 DEF Next

THEOREM SnapshotsInvariant == Spec => []SnapshotsFollow
<1>1. Init => SnapshotsFollow
  BY DEF Init, SnapshotsFollow, Approving, Is
<1> QED BY <1>1, NextSnapshots, StocktakeInvariant, PTL DEF Spec

\* A line that is created after the previous period was approved opens with what
\* the snapshot made of the count there, for items of every kind and units of any
\* size: with the count itself, but for juices.
THEOREM CountIsCarriedOver == Spec => NextOpensWithTheCount
<1> DEFINE Carries ==
      \A w \in Workers, p, q \in Periods :
        CreateLine(w) /\ clean' /\ desk[w].period = q /\ q = p + 1 /\ p \in dated
          /\ sheet[p] = "APPROVED" /\ line[p] # NoLine /\ course[p] # "sidestepped"
          => line'[q].opening = CarriedOver(line[p])
<1>1. ASSUME IInv, SnapshotsFollow PROVE Carries
  <2> USE <1>1 DEF IInv
  <2> SUFFICES ASSUME NEW w \in Workers, NEW p \in Periods, CreateLine(w), clean', desk[w].period = p + 1,
                      p + 1 \in Periods, p \in dated, sheet[p] = "APPROVED", line[p] # NoLine, course[p] # "sidestepped"
               PROVE  line'[p + 1].opening = CarriedOver(line[p])
    OBVIOUS
  <2>1. desk[w] # Idle /\ Writes(w, Idle)
    BY DEF CreateLine, Is
  <2>2. clean
    BY <2>1, WritesDesk
  <2>3. line[p] \in Lines /\ line[p].full \in Nat /\ line[p].partial \in Nat
    BY DEF TypeOK, Lines
  <2>4. snapshot[p] = Stored(line[p])
    BY <2>2 DEF SnapshotsFollow
  <2>5. snapshot[p] # NoSnapshot
    BY <2>3, <2>4, StoredTyped, NoneAreNone DEF TypeOK
  <2>6. OpeningBalance(p + 1) = CarriedOver(line[p])
    BY <2>3, <2>4, <2>5, OpensWithThePrevious, StoredKeepsTheCount DEF TypeOK
  <2>7. line'[p + 1].opening = OpeningBalance(p + 1)
    BY DEF CreateLine, TypeOK
  <2> QED BY <2>6, <2>7
<1>2. IInv /\ SnapshotsFollow /\ [Next]_vars => [Carries]_vars
  BY <1>1
<1> QED BY <1>2, StocktakeInvariant, SnapshotsInvariant, PTL DEF Spec, NextOpensWithTheCount

=============================================================================
