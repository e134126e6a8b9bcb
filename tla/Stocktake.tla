------------------------------ MODULE Stocktake ------------------------------
(***************************************************************************)
(* Counting the stock of one item, period after period:                    *)
(* stock_tracker/stocktake_service.py and the endpoints of                 *)
(* stock_tracker/views.py for periods, stocktakes, lines and movements.    *)
(*                                                                         *)
(* Hardly any endpoint locks or opens a transaction.  A request reads a    *)
(* row, checks that the stocktake is not approved, and saves the row later *)
(* with all its columns; approving writes an adjustment, the closing       *)
(* snapshot, the stocktake and the period one after another.  Each of      *)
(* these writes is a step, and a request may be cut off between two.       *)
(* Quantities are in servings.                                             *)
(***************************************************************************)
EXTENDS Integers, FiniteSets

CONSTANTS
  Periods,           \* consecutive periods, by number
  Counted,           \* bound: the periods whose stocktake is counted and
                     \* approved; the others are only populated
  Workers,
  Records,           \* consumption of the item by cocktails, one serving each, and
                     \* bound of the movements of cocktails written by hand
  Kinds,             \* kinds of item, of those below
  Uom,               \* servings in a full unit (a keg, a case, ...)
  BottlesPerCase,    \* for juices: bottles in a case,
  ServingsPerBottle, \* servings in a bottle
  Counts,            \* bound: what may be counted, full units and partial ones
  MaxMoves,          \* bound: full units bought and servings wasted in a period
  MaxPosted,         \* bound: adjustments of one stocktake
  Elsewhere,         \* another item, or a stocktake of another time
  Idle, NoLine, NoSnapshot

VARIABLES
  kind,      \* the kind of the item
  dated,     \* the stocktakes whose dates are those of a StockPeriod
  closed,    \* StockPeriod.is_closed
  sheet,     \* Stocktake.status
  line,      \* the item's StocktakeLine in each stocktake
  snapshot,  \* the item's StockSnapshot in each period
  moves,     \* sums of the item's StockMovements, by type, and which of them
             \* were written by hand too (history)
  unmerged,  \* consumption records not merged into the stocktake
  desk,      \* what each worker is about to do
  clean,     \* every request found the rows as it had read them, was not cut
             \* off, and wrote while no other was half way (history)
  course     \* how each stocktake was treated (history)

vars == <<kind, dated, closed, sheet, line, snapshot, moves, unmerged, desk, clean, course>>

ASSUME PeriodsAreNumbers == Periods \subseteq Nat /\ IsFiniteSet(Periods) /\ Counted \subseteq Periods
ASSUME UnitsAreNumbers == {Uom, BottlesPerCase, ServingsPerBottle} \subseteq Nat \ {0}
ASSUME BoundsAreNumbers == MaxMoves \in Nat /\ MaxPosted \in Nat
ASSUME CountsAreQuantities == Counts \subseteq [full : Nat, partial : Nat]

Lines == [opening : Int, purchases : Int, waste : Int, full : Nat, partial : Nat]
Snapshots == [full : Nat, partial : Nat]
Sums == [purchases : Int, waste : Int, cocktails : Nat, adjustments : Int, posted : Nat,
         byHand : SUBSET {"cocktails", "adjustments"}]

Places == Periods \cup {Elsewhere}

Requests ==
  [does : {"saves", "moves"}, period : Periods, line : Lines, fresh : BOOLEAN]
    \cup [does : {"merges"}, period : Periods, line : Lines, records : SUBSET Records, fresh : BOOLEAN]
    \cup [does : {"carries"}, period : Places, to : Places, line : Lines, fresh : BOOLEAN]
    \cup [does : {"clears", "creates", "closes", "reopens"}, period : Periods, fresh : BOOLEAN]
    \cup [does : {"posts", "approves"}, period : Periods, then : {"rest", "close"}, fresh : BOOLEAN]

\* Draught beer, minerals by the dozen, bottles (of which one is a unit), juices.
AllKinds == {"draught", "dozen", "bottle", "juice"}
ASSUME KindsAreKinds == Kinds \subseteq AllKinds

ASSUME RecordsAreFinite == IsFiniteSet(Records)
ASSUME NoneAreNone == Idle \notin Requests /\ NoLine \notin Lines /\ NoSnapshot \notin Snapshots
ASSUME ElsewhereIsElsewhere == Elsewhere \notin Periods

-----------------------------------------------------------------------------
(* Units and servings *)

UnitSize == IF kind = "bottle" THEN 1 ELSE Uom

\* StocktakeLine.counted_qty
CountedQty(l) ==
  IF kind = "juice" THEN (l.full * BottlesPerCase + l.partial) * ServingsPerBottle
                    ELSE l.full * UnitSize + l.partial

ExpectedQty(l) == l.opening + l.purchases - l.waste

VarianceQty(l) == CountedQty(l) - ExpectedQty(l)

\* StockSnapshot.total_servings
TotalServings(s) == s.full * UnitSize + s.partial

\* Mutant: the rest after full cases is lost.
StoredWithoutRest(l) ==
  IF kind = "dozen" /\ l.full = 0
  THEN [full |-> l.partial \div UnitSize, partial |-> 0]
  ELSE [full |-> l.full, partial |-> l.partial]

\* StockSnapshot.save: dozens that were counted as single bottles become cases.
Stored(l) ==
  IF kind = "dozen" /\ l.full = 0
  THEN [full |-> l.partial \div UnitSize, partial |-> l.partial % UnitSize]
  ELSE [full |-> l.full, partial |-> l.partial]

\* Mutant: the snapshot itself, not its servings.
OpeningSnapshot(p) == IF p - 1 \in Periods THEN snapshot[p - 1] ELSE 0

\* The closing of the latest earlier period that has a snapshot, else nothing.
OpeningBalance(p) ==
  LET earlier == {q \in Periods : q < p /\ snapshot[q] # NoSnapshot}
      latest == {q \in earlier : \A r \in earlier : r <= q}
  IN  IF latest = {} THEN 0 ELSE TotalServings(snapshot[CHOOSE q \in latest : TRUE])

-----------------------------------------------------------------------------
(* Requests *)

\* Mutant: a line may be edited whatever the state of its stocktake.
IsAlwaysEditable(p) == sheet[p] \in {"DRAFT", "APPROVED"}
IsEditable(p) == sheet[p] = "DRAFT"

\* Whoever has read what another request then writes is out of date.
Outdated(v) == IF desk[v] = Idle THEN Idle ELSE [desk[v] EXCEPT !.fresh = FALSE]

\* The request of w goes on as next; nothing that others have read is written.
Turns(w, next) == desk' = [desk EXCEPT ![w] = next] /\ UNCHANGED clean

\* Between two writes that belong together.
HalfWay(v) == desk[v] # Idle /\ desk[v].does \in {"creates", "approves", "closes", "reopens"}

\* The request of w writes, and goes on as next.
Writes(w, next) ==
  /\ desk' = [v \in Workers |-> IF v = w THEN next ELSE Outdated(v)]
  /\ clean' = (clean /\ desk[w].fresh /\ \A v \in Workers \ {w} : ~HalfWay(v))

\* A request that is done at once writes.
WritesAtOnce ==
  /\ desk' = [v \in Workers |-> Outdated(v)]
  /\ clean' = (clean /\ \A v \in Workers : ~HalfWay(v))

Begins(w, request) ==
  /\ desk[w] = Idle
  /\ Turns(w, request)
  /\ UNCHANGED <<kind, dated, closed, sheet, line, snapshot, moves, unmerged, course>>

Is(w, step) == desk[w] # Idle /\ desk[w].does = step

\* A request that has written something is cut off by an error or a crash.
CutOff(w) ==
  /\ desk[w] # Idle /\ desk[w].does \in {"saves", "creates", "approves", "closes", "reopens"}
  /\ desk' = [desk EXCEPT ![w] = Idle]
  /\ clean' = FALSE
  /\ UNCHANGED <<kind, dated, closed, sheet, line, snapshot, moves, unmerged, course>>

-----------------------------------------------------------------------------
(* Lines *)

\* A line is saved with all its columns, in a stocktake that has no other line
\* of the item (unique), and leaves the one it was in: the one it was read in,
\* unless others have carried, deleted or created lines since.  A line that was
\* deleted meanwhile is inserted again.
Saves(w, place, l) ==
  /\ place # desk[w].period /\ place \in Periods => line[place] = NoLine
  /\ \E left \in IF desk[w].fresh THEN {desk[w].period} ELSE Places :
       line' = [p \in Periods |-> IF p = place THEN l ELSE IF p = left THEN NoLine ELSE line[p]]

\* Counting, or writing the purchases of the line; and correcting its opening
\* stock: the line is saved as read.
UpdateLine(w, p) ==
  /\ line[p] # NoLine /\ IsEditable(p) /\ p \in Counted
  /\ \E l \in {[line[p] EXCEPT !.full = c.full, !.partial = c.partial] : c \in Counts}
              \cup {[line[p] EXCEPT !.purchases = n * UnitSize] : n \in 0 .. MaxMoves} :
       Begins(w, [does |-> "saves", period |-> p, fresh |-> TRUE, line |-> l])

UpdateOpeningStock(w, p) ==
  /\ line[p] # NoLine /\ IsEditable(p) /\ p \in Counted
  /\ \E c \in Counts :
       Begins(w, [does |-> "saves", period |-> p, fresh |-> TRUE,
                  line |-> [line[p] EXCEPT !.opening = CountedQty(c)]])

SaveLine(w) ==
  /\ Is(w, "saves")
  /\ Saves(w, desk[w].period, desk[w].line)
  /\ Writes(w, Idle)
  /\ UNCHANGED <<kind, dated, closed, sheet, snapshot, moves, unmerged, course>>

\* The form of a line can give it to another stocktake or item.  It asks whether
\* the stocktake that the line comes from is approved, not the one it goes to.
CarryLine(w, p, q) ==
  /\ p # q /\ {p, q} \subseteq Counted \cup {Elsewhere}
  /\ q \in Periods => line[q] = NoLine
  /\ p \in Periods => line[p] # NoLine /\ IsEditable(p)
  /\ \E l \in IF p \in Periods THEN {line[p]}
              ELSE {[opening |-> 0, purchases |-> 0, waste |-> 0,
                     full |-> c.full, partial |-> c.partial] : c \in Counts} :
       Begins(w, [does |-> "carries", period |-> p, to |-> q, line |-> l, fresh |-> TRUE])

Treated(p, how) == course' = [course EXCEPT ![p] = IF @ = "sidestepped" THEN @ ELSE how]

SaveCarried(w) ==
  /\ Is(w, "carries")
  /\ Saves(w, desk[w].to, desk[w].line)
  /\ Writes(w, Idle)
  /\ IF desk[w].to \in Periods /\ sheet[desk[w].to] = "APPROVED"
     THEN Treated(desk[w].to, "sidestepped") ELSE UNCHANGED course
  /\ UNCHANGED <<kind, dated, closed, sheet, snapshot, moves, unmerged>>

\* The stocktake has got a line of the item meanwhile.
RefuseCarried(w) ==
  /\ Is(w, "carries")
  /\ desk[w].to \in Periods /\ line[desk[w].to] # NoLine
  /\ Turns(w, Idle)
  /\ UNCHANGED <<kind, dated, closed, sheet, line, snapshot, moves, unmerged, course>>

-----------------------------------------------------------------------------
(* Movements *)

\* One movement less.  Of adjustments and of cocktails all go at once: what one
\* of several leaves makes no difference once they were written by hand.
Without(m) ==
  {[m EXCEPT !.purchases = @ - UnitSize], [m EXCEPT !.waste = @ - 1]}
    \cup (IF m.posted = 0 THEN {}
          ELSE {[m EXCEPT !.adjustments = 0, !.posted = 0, !.byHand = @ \cup {"adjustments"}]})
    \cup (IF m.cocktails = 0 THEN {}
          ELSE {[m EXCEPT !.cocktails = 0, !.byHand = @ \cup {"cocktails"}]})

Bought(m) == [m EXCEPT !.purchases = @ + UnitSize]
Wasted(m) == [m EXCEPT !.waste = @ + 1]

Bounded(m) ==
  /\ m.purchases >= 0 /\ m.waste >= 0
  /\ m.purchases \div UnitSize + m.waste <= MaxMoves
  /\ m.posted <= MaxPosted

\* add_movement, delete_movement and update_movement: purchases and waste come,
\* movements of any type go, or turn into purchases or waste.
WithMovement(m) ==
  {n \in {Bought(m), Wasted(m)} \cup UNION {{l, Bought(l), Wasted(l)} : l \in Without(m)} :
     Bounded(n)}

\* The movements' own endpoints create, edit and delete those of every type (to
\* edit one is to delete it and to create another).
WithAnyMovement(m) ==
  WithMovement(m)
    \cup {n \in {[m EXCEPT !.adjustments = @ + 1, !.posted = @ + 1, !.byHand = @ \cup {"adjustments"}],
                 [m EXCEPT !.cocktails = @ + 1, !.byHand = @ \cup {"cocktails"}]} :
            Bounded(n) /\ (n.cocktails > m.cocktails => n.cocktails <= Cardinality(Records))}

StartMovement(w, p) ==
  /\ line[p] # NoLine /\ IsEditable(p) /\ p \in Counted
  /\ Begins(w, [does |-> "moves", period |-> p, line |-> line[p], fresh |-> TRUE])

\* The movement is written and the sums of the line are taken again.
WriteMovement(w) ==
  LET p == desk[w].period
  IN  /\ Is(w, "moves")
      /\ \E m \in WithMovement(moves[p]) :
           /\ moves' = [moves EXCEPT ![p] = m]
           /\ Writes(w, [does |-> "saves", period |-> p, fresh |-> desk[w].fresh,
                         line |-> [desk[w].line EXCEPT !.purchases = m.purchases,
                                                       !.waste = m.waste]])
      /\ UNCHANGED <<kind, dated, closed, sheet, line, snapshot, unmerged, course>>

\* The movements' own endpoints know no stocktake.
RecordMovement(p) ==
  /\ p \in Counted
  /\ \E m \in WithAnyMovement(moves[p]) : moves' = [moves EXCEPT ![p] = m]
  /\ WritesAtOnce
  /\ UNCHANGED <<kind, dated, closed, sheet, line, snapshot, unmerged, course>>

\* The line's own endpoint deletes it, approved or not.
DeleteLine(p) ==
  /\ line[p] # NoLine
  /\ line' = [line EXCEPT ![p] = NoLine]
  /\ WritesAtOnce
  /\ UNCHANGED <<kind, dated, closed, sheet, snapshot, moves, unmerged, course>>

StartMerge(w, p) ==
  /\ line[p] # NoLine /\ IsEditable(p) /\ p \in Counted
  /\ unmerged[p] # {}
  /\ Begins(w, [does |-> "merges", period |-> p, line |-> line[p],
                records |-> unmerged[p], fresh |-> TRUE])

\* Mutant: the quantity is summed after the records were marked, and finds none.
CommitMergeOfNone(w) ==
  LET p == desk[w].period
  IN  /\ Is(w, "merges")
      /\ unmerged' = [unmerged EXCEPT ![p] = {}]
      /\ Writes(w, Idle)
      /\ UNCHANGED <<kind, dated, closed, sheet, line, snapshot, moves, course>>

\* One transaction marks the records that were read, writes their movement and
\* saves the line.  The sums know no movement of cocktails.
CommitMerge(w) ==
  LET p == desk[w].period
  IN  /\ Is(w, "merges")
      /\ unmerged' = [unmerged EXCEPT ![p] = @ \ desk[w].records]
      /\ moves' = [moves EXCEPT ![p].cocktails = @ + Cardinality(desk[w].records)]
      /\ Saves(w, p, [desk[w].line EXCEPT !.purchases = moves[p].purchases,
                                          !.waste = moves[p].waste])
      /\ Writes(w, Idle)
      /\ UNCHANGED <<kind, dated, closed, sheet, snapshot, course>>

-----------------------------------------------------------------------------
(* Stocktakes and periods *)

StartPopulate(w, p) ==
  /\ sheet[p] = "DRAFT"
  /\ Begins(w, [does |-> "clears", period |-> p, fresh |-> TRUE])

ClearLines(w) ==
  LET p == desk[w].period
  IN  /\ Is(w, "clears")
      /\ line' = [line EXCEPT ![p] = NoLine]
      /\ Writes(w, [does |-> "creates", period |-> p, fresh |-> desk[w].fresh])
      /\ UNCHANGED <<kind, dated, closed, sheet, snapshot, moves, unmerged, course>>

CreateLine(w) ==
  LET p == desk[w].period
  IN  /\ Is(w, "creates")
      /\ line[p] = NoLine                         \* unique (stocktake, item)
      /\ line' = [line EXCEPT ![p] = [opening |-> OpeningBalance(p), full |-> 0, partial |-> 0,
                                      purchases |-> moves[p].purchases, waste |-> moves[p].waste]]
      /\ Writes(w, Idle)
      /\ UNCHANGED <<kind, dated, closed, sheet, snapshot, moves, unmerged, course>>

\* approve, and approve_and_close of a period whose stocktake is not approved.
StartApproval(w, p) ==
  /\ p \in Counted /\ sheet[p] = "DRAFT"
  /\ \E then \in {"rest"} \cup (IF p \in dated /\ ~closed[p] THEN {"close"} ELSE {}) :
       Begins(w, [does |-> "posts", period |-> p, then |-> then, fresh |-> TRUE])

\* Mutant: a period is closed whatever the state of its stocktake.
StartClosingUnapproved(w, p) ==
  /\ ~closed[p] /\ p \in dated
  /\ Begins(w, [does |-> "closes", period |-> p, fresh |-> TRUE])

\* approve_and_close of a period whose stocktake is approved.
StartClosing(w, p) ==
  /\ sheet[p] = "APPROVED" /\ p \in dated /\ ~closed[p]
  /\ Begins(w, [does |-> "closes", period |-> p, fresh |-> TRUE])

\* Mutant: the adjustment is what was counted.
AdjustmentOfTheCount(l) == CountedQty(l)

Adjustment(l) == VarianceQty(l)

\* A movement for the adjustment, if there is any, and the closing snapshot, if
\* there is a period with the dates of the stocktake.
PostVariance(w) ==
  LET p == desk[w].period
      adjusts == line[p] # NoLine /\ Adjustment(line[p]) # 0
  IN  /\ Is(w, "posts")
      /\ adjusts => moves[p].posted < MaxPosted
      /\ moves' = IF adjusts THEN [moves EXCEPT ![p].adjustments = @ + Adjustment(line[p]),
                                                ![p].posted = @ + 1]
                             ELSE moves
      /\ snapshot' = IF line[p] # NoLine /\ p \in dated THEN [snapshot EXCEPT ![p] = Stored(line[p])]
                                                      ELSE snapshot
      /\ Writes(w, [does |-> "approves", period |-> p, then |-> desk[w].then, fresh |-> desk[w].fresh])
      /\ UNCHANGED <<kind, dated, closed, sheet, line, unmerged, course>>

Approve(w) ==
  LET p == desk[w].period
  IN  /\ Is(w, "approves")
      /\ sheet' = [sheet EXCEPT ![p] = "APPROVED"]
      /\ Writes(w, IF desk[w].then = "close"
                   THEN [does |-> "closes", period |-> p, fresh |-> desk[w].fresh] ELSE Idle)
      /\ UNCHANGED <<kind, dated, closed, line, snapshot, moves, unmerged, course>>

ClosePeriod(w) ==
  /\ Is(w, "closes")
  /\ closed' = [closed EXCEPT ![desk[w].period] = TRUE]
  /\ Writes(w, Idle)
  /\ UNCHANGED <<kind, dated, sheet, line, snapshot, moves, unmerged, course>>

\* StockPeriodViewSet.reopen: first the period, then its stocktake.
ReopenPeriod(w, p) ==
  /\ desk[w] = Idle
  /\ closed[p]
  /\ closed' = [closed EXCEPT ![p] = FALSE]
  /\ desk' = [v \in Workers |-> IF v = w THEN [does |-> "reopens", period |-> p, fresh |-> TRUE]
                                         ELSE Outdated(v)]
  /\ clean' = (clean /\ \A v \in Workers : ~HalfWay(v))
  /\ Treated(p, "reopened")
  /\ UNCHANGED <<kind, dated, sheet, line, snapshot, moves, unmerged>>

ReopenItsSheet(w) ==
  /\ Is(w, "reopens")
  /\ sheet' = [sheet EXCEPT ![desk[w].period] = "DRAFT"]
  /\ Writes(w, Idle)
  /\ UNCHANGED <<kind, dated, closed, line, snapshot, moves, unmerged, course>>

\* Past that order: StocktakeViewSet.reopen leaves the period as it is, and the
\* forms of periods and snapshots write what they are given.
ReopenSheet(p) ==
  /\ sheet[p] = "APPROVED"
  /\ sheet' = [sheet EXCEPT ![p] = "DRAFT"]
  /\ UNCHANGED <<closed, snapshot>>

PatchPeriod(p) ==
  /\ p \in dated
  /\ closed' = [closed EXCEPT ![p] = ~@]
  /\ UNCHANGED <<sheet, snapshot>>

PatchSnapshot(p) ==
  /\ p \in dated
  /\ \E c \in Counts : snapshot' = [snapshot EXCEPT ![p] = Stored(c)]
  /\ UNCHANGED <<closed, sheet>>

Sidesteps(p) ==
  /\ p \in Counted
  /\ ReopenSheet(p) \/ PatchPeriod(p) \/ PatchSnapshot(p)
  /\ Treated(p, "sidestepped")
  /\ WritesAtOnce
  /\ UNCHANGED <<kind, dated, line, moves, unmerged>>

-----------------------------------------------------------------------------
(* Specification *)

Init ==
  /\ kind \in Kinds
  /\ dated \in SUBSET Counted
  /\ closed = [p \in Periods |-> FALSE]
  /\ sheet = [p \in Periods |-> "DRAFT"]
  /\ line = [p \in Periods |-> NoLine]
  /\ snapshot = [p \in Periods |-> NoSnapshot]
  /\ moves = [p \in Periods |-> [purchases |-> 0, waste |-> 0, cocktails |-> 0,
                                 adjustments |-> 0, posted |-> 0, byHand |-> {}]]
  /\ unmerged = [p \in Periods |-> Records]
  /\ desk = [w \in Workers |-> Idle]
  /\ clean = TRUE
  /\ course = [p \in Periods |-> "regular"]

Next ==
  \/ \E w \in Workers, p \in Periods :
       \/ UpdateLine(w, p) \/ UpdateOpeningStock(w, p) \/ StartMovement(w, p) \/ StartMerge(w, p)
       \/ StartPopulate(w, p) \/ StartApproval(w, p) \/ StartClosing(w, p) \/ ReopenPeriod(w, p)
  \/ \E w \in Workers :
       \/ SaveLine(w) \/ SaveCarried(w) \/ RefuseCarried(w)
       \/ WriteMovement(w) \/ CommitMerge(w)
       \/ ClearLines(w) \/ CreateLine(w)
       \/ PostVariance(w) \/ Approve(w) \/ ClosePeriod(w) \/ ReopenItsSheet(w)
       \/ CutOff(w)
  \/ \E w \in Workers, p, q \in Places : CarryLine(w, p, q)
  \/ \E p \in Periods : RecordMovement(p) \/ DeleteLine(p) \/ Sidesteps(p)

Spec == Init /\ [][Next]_vars

-----------------------------------------------------------------------------
(* Properties *)

TypeOK ==
  /\ kind \in Kinds
  /\ dated \subseteq Counted
  /\ closed \in [Periods -> BOOLEAN]
  /\ sheet \in [Periods -> {"DRAFT", "APPROVED"}]
  /\ line \in [Periods -> Lines \cup {NoLine}]
  /\ snapshot \in [Periods -> Snapshots \cup {NoSnapshot}]
  /\ moves \in [Periods -> Sums]
  /\ unmerged \in [Periods -> SUBSET Records]
  /\ desk \in [Workers -> Requests \cup {Idle}]
  /\ clean \in BOOLEAN
  /\ course \in [Periods -> {"regular", "reopened", "sidestepped"}]

\* "Create ADJUSTMENT movements for variances": an approved stocktake that was
\* never reopened, and got no line of another, has posted exactly what separates
\* its count from what was expected, as long as nobody wrote adjustments by hand
\* and no request raced another or was cut off.
AdjustmentsExplainTheCount ==
  \A p \in Periods :
    /\ clean /\ course[p] = "regular" /\ "adjustments" \notin moves[p].byHand
    /\ sheet[p] = "APPROVED" /\ line[p] # NoLine
    => CountedQty(line[p]) = ExpectedQty(line[p]) + moves[p].adjustments

\* What the snapshot of a line makes of its count: juices are counted in
\* bottles, and what is stored of them is read as servings.
CarriedOver(l) == IF kind = "juice" THEN l.full * UnitSize + l.partial ELSE CountedQty(l)

\* "Next period opening stock = this period counted closing": a line that is
\* created after the previous stocktake was approved, with the dates of a
\* period, opens with what was counted; not "for ALL categories", as the comment
\* in approve_stocktake has it, since juices open with another number.
NextOpensWithTheCount ==
  [][\A w \in Workers, p, q \in Periods :
       CreateLine(w) /\ clean' /\ desk[w].period = q /\ q = p + 1 /\ p \in dated
         /\ sheet[p] = "APPROVED" /\ line[p] # NoLine /\ course[p] # "sidestepped"
         => line'[q].opening = CarriedOver(line[p])]_vars

\* A request writes, and others have written since it began.
WritesOutdated == \E w \in Workers : desk[w] # Idle /\ ~desk[w].fresh /\ desk'[w] = Idle

\* "Once approved, stocktake cannot be edited": the line of an approved
\* stocktake is deleted or carried away, and otherwise changed by those requests
\* only that began before it was approved or before other rows were written.
\* (A stocktake without the line can get one, approved or not.)
ApprovedLinesStay ==
  [][\A p \in Periods :
       sheet[p] = "APPROVED" /\ line[p] # NoLine /\ line'[p] # line[p]
         => line'[p] = NoLine \/ WritesOutdated]_vars

\* "The is_merged_to_stocktake flag prevents double-counting": unless movements
\* of cocktails are written by hand, what is marked as merged has been moved, in
\* spite of races and requests cut off, and only once unless there are any.
MergedIsMoved ==
  \A p \in Periods :
    LET merged == Cardinality(Records \ unmerged[p])
    IN  "cocktails" \notin moves[p].byHand
          => moves[p].cocktails >= merged /\ (clean => moves[p].cocktails = merged)

\* "The stocktake is finalized before period is locked": a period is closed
\* with an approved stocktake, as long as all keep to the order of the endpoints.
ClosedPeriodsAreApproved ==
  \A p \in Periods :
    clean /\ course[p] # "sidestepped" /\ closed[p] => sheet[p] = "APPROVED"

=============================================================================
