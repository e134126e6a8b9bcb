--------------------------- MODULE CancellationFee ---------------------------
(***************************************************************************)
(* What a guest who cancels pays: CancellationCalculator, and the policy   *)
(* that staff may edit while the booking waits.                            *)
(*                                                                         *)
(* The booking keeps a foreign key, so the calculator reads the policy of  *)
(* the day of the cancellation.  An update of a policy is one UPDATE of    *)
(* its row, then one DELETE of its tiers, then one INSERT per tier, each   *)
(* committed on its own (there is no ATOMIC_REQUESTS): a cancellation may  *)
(* come in between, and the worker may die in between.                     *)
(*                                                                         *)
(* Amounts of the calculator are exact Decimals.  A percentage has two     *)
(* decimals and the price is in cents, so every amount is a whole number   *)
(* of ten-thousandths of a cent.  Booking and Stripe round to cents.       *)
(***************************************************************************)
EXTENDS Integers

CONSTANTS
  Total,       \* price of the booking, in cents
  Nights,      \* its nights
  MaxHours,    \* bound: hours before check-in at which it was booked
  Policies     \* what staff may save as the policy of the booking

Cent == 10000

PenaltyTypes == {"NONE", "FIXED", "PERCENTAGE", "FIRST_NIGHT", "FULL_STAY"}

\* percentage counts hundredths of a percent; a NULL amount or percentage is 0,
\* which the calculator treats alike.  No validator refuses a negative amount;
\* staff are taken not to enter one.
Penalty == [type : PenaltyTypes, amount : Nat, percentage : Nat]
Tier == [hours : Nat, penalty : Penalty]

Templates == {"FLEXIBLE", "MODERATE", "NON_REFUNDABLE", "CUSTOM"}

\* The policy of a booking that has none is DEFAULT; nobody can edit it.
Policy == [template : Templates \cup {"DEFAULT"}, free_until_hours : Nat,
           penalty : Penalty, tiers : SUBSET Tier]

NoPolicy ==
  [template |-> "DEFAULT", free_until_hours |-> 0,
   penalty |-> [type |-> "NONE", amount |-> 0, percentage |-> 0], tiers |-> {}]

\* uniq_policy_hours
UniqueHours(ts) == \A t, u \in ts : t.hours = u.hours => t = u

\* The tiers of a policy are finitely many: any of them have an earliest and a
\* latest one.
HasEnds(ts) ==
  \A S \in SUBSET ts : S # {} =>
    /\ \E t \in S : \A u \in S : t.hours <= u.hours
    /\ \E t \in S : \A u \in S : u.hours <= t.hours

ASSUME FeeAssumption ==
  /\ Total \in Nat /\ Nights \in Nat /\ MaxHours \in Nat
  /\ Policies \subseteq Policy
  /\ \A p \in Policies :
       p.template \in Templates /\ UniqueHours(p.tiers) /\ HasEnds(p.tiers)

VARIABLES
  policy,     \* CancellationPolicy and its tiers
  edit,       \* an update of the policy under way: its stage, its new tiers
  hours,      \* hours until check-in
  seen,       \* what a cancellation under way has read of the policy so far
  settled     \* the cancellation, once made

vars == <<policy, edit, hours, seen, settled>>

NoEdit == [stage |-> "idle", tiers |-> {}]
NotSettled == [made |-> FALSE, at |-> 0, template |-> "DEFAULT",
               cancellation_fee |-> 0, refund_amount |-> 0, stripe |-> 0]

-----------------------------------------------------------------------------
(* The calculator *)

Price == Total * Cent

Least(a, b) == IF a <= b THEN a ELSE b
Greatest(a, b) == IF a >= b THEN a ELSE b

\* Divided and rounded to the nearest integer, ROUND_HALF_UP.
HalfUp(a, b) == (2 * a + b) \div (2 * b)

FirstNight == IF Nights <= 0 THEN Price ELSE Cent * HalfUp(Total, Nights)

\* Mutant: the cap at the total is missing.
UncappedAmount(p) ==
  CASE p.type = "FULL_STAY"   -> Price
    [] p.type = "FIRST_NIGHT" -> FirstNight
    [] p.type = "PERCENTAGE"  -> Total * p.percentage
    [] p.type = "FIXED"       -> p.amount * Cent
    [] p.type = "NONE"        -> 0

PenaltyAmount(p) ==
  CASE p.type = "FULL_STAY"   -> Price
    [] p.type = "FIRST_NIGHT" -> FirstNight
    [] p.type = "PERCENTAGE"  -> Least(Total * p.percentage, Price)
    [] p.type = "FIXED"       -> Least(p.amount * Cent, Price)
    [] p.type = "NONE"        -> 0

Latest(ts) == CHOOSE t \in ts : \A u \in ts : u.hours <= t.hours
Earliest(ts) == CHOOSE t \in ts : \A u \in ts : t.hours <= u.hours

Reached(ts, h) == {t \in ts : t.hours <= h}

\* Mutant: with no tier reached, the first of the default ordering is taken.
ApplicableTierByDefaultOrder(ts, later, h) ==
  IF Reached(ts, h) # {} THEN Latest(Reached(ts, h)) ELSE Latest(later)

\* The largest threshold that is reached, or else the shortest of all: those
\* are read by a second query.
ApplicableTier(ts, later, h) ==
  IF Reached(ts, h) # {} THEN Latest(Reached(ts, h)) ELSE Earliest(later)

CustomFee(p, later, h) ==
  IF Reached(p.tiers, h) = {} /\ later = {}
    THEN 0 ELSE PenaltyAmount(ApplicableTier(p.tiers, later, h).penalty)

TemplateFee(p, h) ==
  IF h >= p.free_until_hours THEN 0 ELSE PenaltyAmount(p.penalty)

Fee(p, later, h) ==
  CASE p.template = "DEFAULT" -> 0
    [] p.template = "CUSTOM"  -> CustomFee(p, later, h)
    [] OTHER                  -> TemplateFee(p, h)

Refund(fee) == Greatest(Price - fee, 0)

\* The fee of a policy that nobody edits meanwhile.
FeeOf(p, h) == Fee(p, p.tiers, h)

\* A column numeric(10, 2) rounds to the nearest cent, away from zero;
\* int(refund * 100) cuts off.
Recorded(amount) == HalfUp(amount, Cent)
StripeCents(amount) == amount \div Cent

-----------------------------------------------------------------------------
(* Staff edit the policy *)

\* The row is saved with its old tiers.  Without "tiers" in the request that is
\* all; with them, they are replaced next.
StaffSavesPolicy(new) ==
  /\ edit.stage = "idle" /\ policy.template # "DEFAULT"
  /\ policy' = [new EXCEPT !.tiers = policy.tiers]
  /\ \/ edit' = [stage |-> "delete", tiers |-> new.tiers]
     \/ UNCHANGED edit
  /\ UNCHANGED <<hours, seen, settled>>

StaffDeletesTiers ==
  /\ edit.stage = "delete"
  /\ policy' = [policy EXCEPT !.tiers = {}]
  /\ edit' = [edit EXCEPT !.stage = "create"]
  /\ UNCHANGED <<hours, seen, settled>>

StaffCreatesTier(t) ==
  /\ edit.stage = "create" /\ t \in edit.tiers \ policy.tiers
  /\ policy' = [policy EXCEPT !.tiers = @ \cup {t}]
  /\ UNCHANGED <<edit, hours, seen, settled>>

\* The last tier is there, or the worker dies before it is.
EditEnds ==
  /\ edit.stage # "idle"
  /\ edit' = NoEdit
  /\ UNCHANGED <<policy, hours, seen, settled>>

-----------------------------------------------------------------------------
(* The guest *)

\* Mutant: time_diff without max(0, ...).
HourPassesCheckin ==
  /\ hours >= 0
  /\ hours' = hours - 1
  /\ UNCHANGED <<policy, edit, seen, settled>>

HourPasses ==
  /\ hours > 0
  /\ hours' = hours - 1
  /\ UNCHANGED <<policy, edit, seen, settled>>

\* The request loads the booking with the row of its policy, ...
GuestAsks ==
  /\ ~settled.made /\ seen = {}
  /\ seen' = {[policy |-> [policy EXCEPT !.tiers = {}], at |-> hours, tiers_read |-> FALSE]}
  /\ UNCHANGED <<policy, edit, hours, settled>>

\* ... the calculator looks at the clock and at the tiers, ...
CalculatorReads ==
  \E s \in seen :
    /\ ~s.tiers_read
    /\ seen' = {[policy |-> [s.policy EXCEPT !.tiers = policy.tiers],
                 at |-> hours, tiers_read |-> TRUE]}
    /\ UNCHANGED <<policy, edit, hours, settled>>

\* ... and perhaps at the tiers again.  The booking is CONFIRMED and paid;
\* Stripe refuses a refund of 0 cents, and the cancellation with it.
GuestCancels ==
  \E s \in seen :
    LET fee == Fee(s.policy, policy.tiers, s.at)
    IN  /\ s.tiers_read
        /\ Refund(fee) = 0 \/ StripeCents(Refund(fee)) > 0
        /\ settled' = [made |-> TRUE, at |-> s.at, template |-> s.policy.template,
                       cancellation_fee |-> Recorded(fee),
                       refund_amount |-> Recorded(Refund(fee)),
                       stripe |-> StripeCents(Refund(fee))]
        /\ seen' = {}
        /\ UNCHANGED <<policy, edit, hours>>

\* Stripe or the database fails: nothing is saved.
CancellationFails ==
  /\ seen # {} /\ seen' = {}
  /\ UNCHANGED <<policy, edit, hours, settled>>

Init ==
  /\ policy \in Policies \cup {NoPolicy}
  /\ edit = NoEdit
  /\ hours = MaxHours
  /\ seen = {}
  /\ settled = NotSettled

Next ==
  \/ \E new \in Policies : StaffSavesPolicy(new)
  \/ StaffDeletesTiers
  \/ \E t \in edit.tiers : StaffCreatesTier(t)
  \/ EditEnds
  \/ HourPasses
  \/ GuestAsks \/ CalculatorReads \/ GuestCancels \/ CancellationFails

Spec == Init /\ [][Next]_vars

-----------------------------------------------------------------------------
(* Properties *)

Amounts == 0..(Total + 1)

TypeOK ==
  /\ policy \in Policy
  /\ seen \subseteq [policy : Policy, at : 0..MaxHours, tiers_read : BOOLEAN]
  /\ UniqueHours(policy.tiers)
  /\ edit \in [stage : {"idle", "delete", "create"}, tiers : SUBSET Tier]
  /\ UniqueHours(edit.tiers)
  /\ edit.stage = "create" => policy.tiers \subseteq edit.tiers
  /\ hours \in 0..MaxHours
  /\ settled \in [made : BOOLEAN, at : 0..MaxHours,
                  template : Templates \cup {"DEFAULT"},
                  cancellation_fee : Amounts, refund_amount : Amounts, stripe : 0..Total]

\* Three amounts are rounded three ways (nobody rounds a PERCENTAGE).  Still
\* Stripe gives back what the row records or one cent less, the hotel keeps
\* the fee that the row records or one cent less, and nobody pays back more
\* than was paid: whatever the policy, even half edited.
BooksBalance ==
  settled.made =>
    /\ settled.stripe \in {settled.refund_amount, settled.refund_amount - 1}
    /\ settled.refund_amount <= Total /\ settled.cancellation_fee <= Total
    /\ Total - settled.stripe \in
         {settled.cancellation_fee, settled.cancellation_fee + 1}
    /\ settled.cancellation_fee + settled.refund_amount \in {Total, Total + 1}

\* Staff's own tiers ask no more of a guest who cancels earlier.
SensibleTiers(ts) ==
  \A t, u \in ts : t.hours < u.hours =>
                     PenaltyAmount(u.penalty) <= PenaltyAmount(t.penalty)

\* A guest gains nothing by waiting: while the policy stays as it is, the fee
\* only grows towards check-in, also where no tier is reached any more and
\* where half of the tiers are missing because staff are replacing them.
WaitingIsNeverCheaper ==
  [][SensibleTiers(policy.tiers) /\ policy' = policy
       => FeeOf(policy', hours') >= FeeOf(policy, hours)]_vars

=============================================================================
