----------------------------- MODULE MCStocktake -----------------------------
(* Model checking Stocktake: two periods, of which the first is counted. *)
EXTENDS Stocktake, TLC

TwoPeriods == {1, 2}
FirstPeriod == {1}

\* Nothing, and three loose servings: more than a unit of two.
SmallCounts == {[full |-> 0, partial |-> 0], [full |-> 0, partial |-> 3]}

StocktakeSymmetry == Permutations(Workers)

\* Requests that are looked at together: merges, of whose races something is
\* claimed, and lines that are carried to one place, of which the second is
\* refused, in a stocktake of which nothing is posted.
Meets(v) ==
  \/ desk[v].does = "merges"
  \/ /\ desk[v].does = "carries" /\ desk[v].period = Elsewhere
     /\ sheet[desk[v].to] = "DRAFT"
     /\ \A p \in Periods : moves[p].purchases + moves[p].waste + moves[p].posted = 0

\* Explored up to the first request that races another, is cut off, sidesteps the
\* order of the endpoints or writes by hand what approvals and merges write.  A
\* request that is out of date can only race, and so can one of two that are
\* under way at once, as soon as the other has written.
WhileRegular ==
  /\ clean
  /\ \A p \in Periods : course[p] # "sidestepped" /\ moves[p].byHand = {}
  /\ \A w \in Workers : desk[w] # Idle /\ ~desk[w].fresh => Meets(w)
  /\ \A v, w \in Workers : v = w \/ desk[v] = Idle \/ desk[w] = Idle
                             \/ (desk[v].does = desk[w].does /\ Meets(v) /\ Meets(w))

=============================================================================
