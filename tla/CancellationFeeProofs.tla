------------------------ MODULE CancellationFeeProofs ------------------------
(***************************************************************************)
(* What CancellationFee promises for every price, number of nights, time   *)
(* of booking and set of policies that staff may save, proved.             *)
(*                                                                         *)
(* The argument has no induction over tiers: that a set of tiers has an    *)
(* earliest and a latest one is the assumption that it is finite.          *)
(***************************************************************************)
EXTENDS CancellationFee, TLAPS

-----------------------------------------------------------------------------
(* The calculator *)

\* The price in ten-thousandths of a unit is a natural number.
LEMMA PriceIsNat == Price \in Nat
  BY FeeAssumption DEF Price, Cent

\* The first night never costs more than the stay, for one night or many,
\* rounded as it is.
LEMMA FirstNightBound == FirstNight \in 0..Price
  <1>1. CASE Nights <= 0
    BY <1>1, PriceIsNat DEF FirstNight
  <1>2. CASE Nights > 0
    <2>1. (2 * Total + Nights) \div (2 * Nights) \in 0..Total \/ Total = 0
      BY <1>2, FeeAssumption
    <2>2. CASE Total = 0
      <3>1. (2 * Total + Nights) \div (2 * Nights) = 0
        BY <1>2, <2>2, FeeAssumption
      <3> QED
        BY <1>2, <2>2, <3>1, FeeAssumption DEF FirstNight, HalfUp, Price, Cent
    <2>3. CASE HalfUp(Total, Nights) \in 0..Total
      BY <1>2, <2>3, FeeAssumption DEF FirstNight, Price, Cent
    <2> QED
      BY <2>1, <2>2, <2>3 DEF HalfUp
  <1> QED
    BY <1>1, <1>2, FeeAssumption

\* No kind of penalty is negative or more than the price.
LEMMA PenaltyBound ==
  ASSUME NEW p \in Penalty
  PROVE  PenaltyAmount(p) \in 0..Price
  <1>1. p.amount \in Nat /\ p.percentage \in Nat /\ p.type \in PenaltyTypes
    BY DEF Penalty
  <1>2. \A t \in Nat, k \in Nat : t * k \in Nat
    OBVIOUS
  <1>3. Total * p.percentage \in Nat /\ p.amount * Cent \in Nat
    BY <1>1, <1>2, FeeAssumption DEF Cent
  <1> QED
    BY <1>1, <1>3, PriceIsNat, FirstNightBound DEF PenaltyAmount, PenaltyTypes, Least

\* The tier that applies is one of the tiers that were read.
LEMMA ApplicableTierIsATier ==
  ASSUME NEW ts \in SUBSET Tier, HasEnds(ts), NEW later \in SUBSET Tier, HasEnds(later),
         NEW h, Reached(ts, h) # {} \/ later # {}
  PROVE  ApplicableTier(ts, later, h) \in Tier
  <1>1. Reached(ts, h) \in SUBSET ts
    BY DEF Reached
  <1>2. CASE Reached(ts, h) # {}
    <2>1. Latest(Reached(ts, h)) \in Reached(ts, h)
      BY <1>1, <1>2 DEF HasEnds, Latest
    <2> QED
      BY <1>1, <1>2, <2>1 DEF ApplicableTier
  <1>3. CASE Reached(ts, h) = {}
    <2>1. Earliest(later) \in later
      BY <1>3 DEF HasEnds, Earliest
    <2> QED
      BY <1>3, <2>1 DEF ApplicableTier
  <1> QED
    BY <1>2, <1>3

\* It is the last that is reached, or else the first of all.
LEMMA ApplicableTierIs ==
  ASSUME NEW ts \in SUBSET Tier, HasEnds(ts), ts # {}, NEW h \in Nat
  PROVE  LET t == ApplicableTier(ts, ts, h)
         IN  /\ t \in ts
             /\ t.hours <= h => \A u \in ts : u.hours <= h => u.hours <= t.hours
             /\ t.hours > h => \A u \in ts : u.hours > h /\ t.hours <= u.hours
  <1>0. \A u \in ts : u.hours \in Nat
    BY DEF Tier
  <1>1. Reached(ts, h) \in SUBSET ts
    BY DEF Reached
  <1>2. CASE Reached(ts, h) # {}
    <2>1. /\ Latest(Reached(ts, h)) \in Reached(ts, h)
          /\ \A u \in Reached(ts, h) : u.hours <= Latest(Reached(ts, h)).hours
      BY <1>1, <1>2 DEF HasEnds, Latest
    <2> QED
      BY <1>0, <1>2, <2>1 DEF ApplicableTier, Reached
  <1>3. CASE Reached(ts, h) = {}
    <2>1. Earliest(ts) \in ts /\ \A u \in ts : Earliest(ts).hours <= u.hours
      BY DEF HasEnds, Earliest
    <2>2. \A u \in ts : u.hours > h
      BY <1>0, <1>3 DEF Reached
    <2> QED
      BY <1>0, <1>3, <2>1, <2>2 DEF ApplicableTier
  <1> QED
    BY <1>2, <1>3

\* No policy, read however it is being edited, asks for more than the price.
LEMMA FeeBound ==
  ASSUME NEW p \in Policy, HasEnds(p.tiers),
         NEW later \in SUBSET Tier, HasEnds(later), NEW h
  PROVE  Fee(p, later, h) \in 0..Price
  <1>1. p.penalty \in Penalty /\ p.tiers \in SUBSET Tier
    BY DEF Policy
  <1>2. CustomFee(p, later, h) \in 0..Price
    <2>1. CASE Reached(p.tiers, h) = {} /\ later = {}
      BY <2>1, PriceIsNat DEF CustomFee
    <2>2. CASE ~(Reached(p.tiers, h) = {} /\ later = {})
      <3>1. ApplicableTier(p.tiers, later, h) \in Tier
        BY <1>1, <2>2, ApplicableTierIsATier
      <3>2. ApplicableTier(p.tiers, later, h).penalty \in Penalty
        BY <3>1 DEF Tier
      <3> QED
        BY <2>2, <3>2, PenaltyBound DEF CustomFee
    <2> QED
      BY <2>1, <2>2
  <1>3. TemplateFee(p, h) \in 0..Price
    BY <1>1, PenaltyBound, PriceIsNat DEF TemplateFee
  <1> QED
    BY <1>2, <1>3, PriceIsNat DEF Fee

\* Nearer to check-in the fee is no lower.
LEMMA FeeMonotone ==
  ASSUME NEW p \in Policy, HasEnds(p.tiers), UniqueHours(p.tiers),
         SensibleTiers(p.tiers), NEW h \in Nat, NEW g \in Nat, g <= h
  PROVE  FeeOf(p, g) >= FeeOf(p, h)
  <1>1. p.penalty \in Penalty /\ p.tiers \in SUBSET Tier /\ p.free_until_hours \in Nat
    BY DEF Policy
  <1>2. CustomFee(p, p.tiers, g) >= CustomFee(p, p.tiers, h)
    <2>1. CASE p.tiers = {}
      BY <2>1 DEF CustomFee, Reached
    <2>2. CASE p.tiers # {}
      <3> DEFINE t == ApplicableTier(p.tiers, p.tiers, g)
                 u == ApplicableTier(p.tiers, p.tiers, h)
      <3>1. /\ t \in p.tiers
            /\ t.hours <= g => \A v \in p.tiers : v.hours <= g => v.hours <= t.hours
            /\ t.hours > g => \A v \in p.tiers : v.hours > g /\ t.hours <= v.hours
        BY <1>1, <2>2, ApplicableTierIs
      <3>2. /\ u \in p.tiers
            /\ u.hours <= h => \A v \in p.tiers : v.hours <= h => v.hours <= u.hours
            /\ u.hours > h => \A v \in p.tiers : v.hours > h /\ u.hours <= v.hours
        BY <1>1, <2>2, ApplicableTierIs
      <3>3. t.hours \in Nat /\ u.hours \in Nat
            /\ t.penalty \in Penalty /\ u.penalty \in Penalty
        BY <1>1, <3>1, <3>2 DEF Tier
      <3> HIDE DEF t, u
      <3>4. t.hours <= u.hours
        BY <3>1, <3>2, <3>3
      <3>5. t = u \/ PenaltyAmount(u.penalty) <= PenaltyAmount(t.penalty)
        BY <3>1, <3>2, <3>3, <3>4 DEF UniqueHours, SensibleTiers
      <3>6. PenaltyAmount(u.penalty) \in 0..Price /\ PenaltyAmount(t.penalty) \in 0..Price
        BY <3>3, PenaltyBound
      <3>7. PenaltyAmount(t.penalty) >= PenaltyAmount(u.penalty)
        BY <3>5, <3>6, PriceIsNat
      <3> QED
        BY <2>2, <3>7 DEF CustomFee, t, u
    <2> QED
      BY <2>1, <2>2
  <1>3. TemplateFee(p, g) >= TemplateFee(p, h)
    <2>1. PenaltyAmount(p.penalty) \in 0..Price
      BY <1>1, PenaltyBound
    <2> QED
      BY <1>1, <2>1, PriceIsNat DEF TemplateFee
  <1> QED
    BY <1>2, <1>3 DEF Fee, FeeOf

\* How an exact refund and fee that make up the price are rounded.
LEMMA RoundedAmounts ==
  ASSUME NEW fee \in 0..Price
  PROVE  LET refund == Refund(fee)
         IN  /\ Recorded(fee) \in 0..Total
             /\ Recorded(refund) \in 0..Total
             /\ StripeCents(refund) \in 0..Total
             /\ StripeCents(refund) \in {Recorded(refund), Recorded(refund) - 1}
             /\ Total - StripeCents(refund) \in {Recorded(fee), Recorded(fee) + 1}
             /\ Recorded(fee) + Recorded(refund) \in {Total, Total + 1}
  <1>1. Refund(fee) = Price - fee /\ fee \in Nat /\ Price - fee \in Nat
    BY PriceIsNat DEF Refund, Greatest
  <1>2. Price = Total * 10000 /\ Total \in Nat
    BY FeeAssumption DEF Price, Cent
  <1>3. PICK refund \in Nat : refund = Price - fee
    BY <1>1
  <1>4. fee + refund = Total * 10000 /\ fee \in Nat
    BY <1>1, <1>2, <1>3
  <1> DEFINE f == (2 * fee + 10000) \div (2 * 10000)
             g == (2 * refund + 10000) \div (2 * 10000)
             s == refund \div 10000
  <1>5. f \in 0..Total /\ g \in 0..Total /\ s \in 0..Total
    BY <1>2, <1>4
  <1>6. s \in {g, g - 1} /\ Total - s \in {f, f + 1} /\ f + g \in {Total, Total + 1}
    BY <1>2, <1>4
  <1>7. Recorded(fee) = f /\ Recorded(refund) = g /\ StripeCents(refund) = s
    BY DEF Recorded, HalfUp, StripeCents, Cent
  <1> HIDE DEF f, g, s
  <1> QED
    BY <1>1, <1>3, <1>5, <1>6, <1>7

-----------------------------------------------------------------------------
(* The invariant *)

IInv ==
  /\ TypeOK
  /\ HasEnds(policy.tiers) /\ HasEnds(edit.tiers)
  /\ \A s \in seen : HasEnds(s.policy.tiers)
  /\ BooksBalance

\* Whatever tiers are left have distinct hours, an earliest and a latest.
LEMMA SubsetTiers ==
  ASSUME NEW S, NEW T \in SUBSET S
  PROVE  /\ UniqueHours(S) => UniqueHours(T)
         /\ HasEnds(S) => HasEnds(T)
  BY DEF UniqueHours, HasEnds

\* No tiers at all have distinct hours, and no ends to ask for.
LEMMA NoTiers == UniqueHours({}) /\ HasEnds({})
  BY DEF UniqueHours, HasEnds

\* The invariant holds at first.
LEMMA InitIInv == Init => IInv
  <1> SUFFICES ASSUME Init PROVE IInv
    OBVIOUS
  <1>1. NoPolicy \in Policy /\ UniqueHours(NoPolicy.tiers) /\ HasEnds(NoPolicy.tiers)
    BY NoTiers DEF NoPolicy, Policy, Penalty, PenaltyTypes
  <1>2. policy \in Policy /\ UniqueHours(policy.tiers) /\ HasEnds(policy.tiers)
    BY <1>1, FeeAssumption DEF Init
  <1>3. settled \in [made : BOOLEAN, at : 0..MaxHours, template : Templates \cup {"DEFAULT"},
                     cancellation_fee : Amounts, refund_amount : Amounts, stripe : 0..Total]
    BY FeeAssumption DEF Init, NotSettled, Amounts
  <1>4. ~settled.made
    BY DEF Init, NotSettled
  <1> QED
    BY <1>2, <1>3, <1>4, NoTiers, FeeAssumption DEF Init, IInv, TypeOK, NoEdit, BooksBalance

\* Every step keeps the invariant: the one of replaced tiers, and the one
\* in which a cancellation is settled.
LEMMA NextIInv == IInv /\ [Next]_vars => IInv'
  <1> SUFFICES ASSUME IInv, [Next]_vars PROVE IInv'
    OBVIOUS
  <1> USE DEF IInv, TypeOK, BooksBalance
  <1>p. policy \in Policy /\ policy.tiers \in SUBSET Tier
    BY DEF Policy
  <1>1. ASSUME NEW new \in Policies, StaffSavesPolicy(new) PROVE IInv'
    <2>1. /\ new \in Policy /\ UniqueHours(new.tiers) /\ HasEnds(new.tiers)
          /\ new.tiers \in SUBSET Tier
      BY FeeAssumption DEF Policy
    <2>2. policy' \in Policy /\ policy'.tiers = policy.tiers
      BY <1>1, <1>p, <2>1 DEF StaffSavesPolicy, Policy
    <2> QED
      BY <1>1, <2>1, <2>2 DEF StaffSavesPolicy
  <1>2. CASE StaffDeletesTiers
    <2>1. policy' \in Policy /\ policy'.tiers = {}
      BY <1>2, <1>p DEF StaffDeletesTiers, Policy
    <2>2. edit' \in [stage : {"idle", "delete", "create"}, tiers : SUBSET Tier]
          /\ edit'.tiers = edit.tiers /\ edit'.stage = "create"
      BY <1>2 DEF StaffDeletesTiers
    <2> QED
      BY <1>2, <2>1, <2>2, NoTiers DEF StaffDeletesTiers
  <1>3. ASSUME NEW t \in edit.tiers, StaffCreatesTier(t) PROVE IInv'
    <2>1. policy' \in Policy /\ policy'.tiers = policy.tiers \cup {t}
      BY <1>3, <1>p DEF StaffCreatesTier, Policy
    <2>2. policy'.tiers \in SUBSET edit.tiers
      BY <1>3, <2>1 DEF StaffCreatesTier
    <2> QED
      BY <1>3, <2>1, <2>2, SubsetTiers DEF StaffCreatesTier
  <1>4. CASE EditEnds
    BY <1>4, NoTiers DEF EditEnds, NoEdit
  <1>5. CASE HourPasses
    BY <1>5, FeeAssumption DEF HourPasses
  <1>6. CASE GuestAsks
    <2> DEFINE read == [policy EXCEPT !.tiers = {}]
    <2>1. read \in Policy /\ HasEnds(read.tiers)
      BY <1>p, NoTiers DEF Policy
    <2>2. seen' = {[policy |-> read, at |-> hours, tiers_read |-> FALSE]}
      BY <1>6 DEF GuestAsks
    <2> HIDE DEF read
    <2>3. /\ seen' \subseteq [policy : Policy, at : 0..MaxHours, tiers_read : BOOLEAN]
          /\ \A s \in seen' : HasEnds(s.policy.tiers)
      BY <2>1, <2>2
    <2> QED
      BY <1>6, <2>3 DEF GuestAsks
  <1>7. CASE CalculatorReads
    <2>1. PICK s \in seen :
            seen' = {[policy |-> [s.policy EXCEPT !.tiers = policy.tiers],
                      at |-> hours, tiers_read |-> TRUE]}
      BY <1>7 DEF CalculatorReads
    <2> DEFINE read == [s.policy EXCEPT !.tiers = policy.tiers]
    <2>2. s.policy \in Policy
      BY <2>1
    <2>3. read \in Policy /\ HasEnds(read.tiers)
      BY <1>p, <2>2 DEF Policy
    <2> HIDE DEF read
    <2>4. seen' = {[policy |-> read, at |-> hours, tiers_read |-> TRUE]}
      BY <2>1 DEF read
    <2>5. /\ seen' \subseteq [policy : Policy, at : 0..MaxHours, tiers_read : BOOLEAN]
          /\ \A u \in seen' : HasEnds(u.policy.tiers)
      BY <2>3, <2>4
    <2> QED
      BY <1>7, <2>5 DEF CalculatorReads
  <1>8. CASE GuestCancels
    <2>1. PICK s \in seen :
            LET fee == Fee(s.policy, policy.tiers, s.at)
            IN  settled' = [made |-> TRUE, at |-> s.at, template |-> s.policy.template,
                            cancellation_fee |-> Recorded(fee),
                            refund_amount |-> Recorded(Refund(fee)),
                            stripe |-> StripeCents(Refund(fee))]
      BY <1>8 DEF GuestCancels
    <2>2. s.policy \in Policy /\ s.at \in 0..MaxHours /\ HasEnds(s.policy.tiers)
      BY <2>1
    <2>3. s.policy.template \in Templates \cup {"DEFAULT"}
      BY <2>2 DEF Policy
    <2> DEFINE exact == Fee(s.policy, policy.tiers, s.at)
    <2>4. exact \in 0..Price
      BY <1>p, <2>2, FeeBound
    <2> HIDE DEF exact
    <2> DEFINE fee == Recorded(exact)
               refund == Recorded(Refund(exact))
               stripe == StripeCents(Refund(exact))
    <2>5. /\ fee \in 0..Total /\ refund \in 0..Total /\ stripe \in 0..Total
          /\ stripe \in {refund, refund - 1}
          /\ Total - stripe \in {fee, fee + 1} /\ fee + refund \in {Total, Total + 1}
      BY <2>4, RoundedAmounts
    <2>6. settled' = [made |-> TRUE, at |-> s.at, template |-> s.policy.template,
                      cancellation_fee |-> fee, refund_amount |-> refund, stripe |-> stripe]
      BY <2>1 DEF exact
    <2> HIDE DEF fee, refund, stripe
    <2>7. fee \in Amounts /\ refund \in Amounts
      BY <2>5, FeeAssumption DEF Amounts
    <2>8. settled' \in [made : BOOLEAN, at : 0..MaxHours, template : Templates \cup {"DEFAULT"},
                        cancellation_fee : Amounts, refund_amount : Amounts, stripe : 0..Total]
      BY <2>2, <2>3, <2>5, <2>6, <2>7
    <2>9. BooksBalance'
      BY <2>5, <2>6, FeeAssumption
    <2>10. seen' = {} /\ UNCHANGED <<policy, edit, hours>>
      BY <1>8 DEF GuestCancels
    <2> QED
      BY <2>8, <2>9, <2>10
  <1>9. CASE CancellationFails
    BY <1>9 DEF CancellationFails
  <1>10. CASE UNCHANGED vars
    BY <1>10 DEF vars
  <1> QED
    BY <1>1, <1>2, <1>3, <1>4, <1>5, <1>6, <1>7, <1>8, <1>9, <1>10 DEF Next

\* Policies, whole or half edited, what a cancellation has read of them and the
\* settlement keep their types: its amounts lie between nothing and the price.
THEOREM FeeTypes == Spec => []TypeOK
  <1>1. IInv => TypeOK
    BY DEF IInv
  <1> QED
    BY <1>1, InitIInv, NextIInv, PTL DEF Spec

\* Whatever policy is in force, even half edited, the three ways in which fee
\* and refund are rounded are never more than a cent apart, and nobody pays
\* back more than was paid.
THEOREM BooksAlwaysBalance == Spec => []BooksBalance
  <1>1. IInv => BooksBalance
    BY DEF IInv
  <1> QED
    BY <1>1, InitIInv, NextIInv, PTL DEF Spec

\* For every policy whose tiers are sensible, waiting never makes a
\* cancellation cheaper, also while staff are replacing the tiers.
THEOREM WaitingNeverPays == Spec => WaitingIsNeverCheaper
  <1>1. IInv /\ [Next]_vars =>
          [SensibleTiers(policy.tiers) /\ policy' = policy
             => FeeOf(policy', hours') >= FeeOf(policy, hours)]_vars
    <2> SUFFICES ASSUME IInv, Next, SensibleTiers(policy.tiers), policy' = policy
                 PROVE  FeeOf(policy, hours') >= FeeOf(policy, hours)
      OBVIOUS
    <2>1. /\ policy \in Policy /\ HasEnds(policy.tiers) /\ UniqueHours(policy.tiers)
          /\ hours \in Nat
      BY FeeAssumption DEF IInv, TypeOK
    <2>2. hours' = hours \/ (hours > 0 /\ hours' = hours - 1)
      <3>1. CASE HourPasses
        BY <3>1 DEF HourPasses
      <3>2. CASE ~HourPasses
        BY <3>2, Zenon DEF Next, StaffSavesPolicy, StaffDeletesTiers, StaffCreatesTier,
                           EditEnds, GuestAsks, CalculatorReads, GuestCancels, CancellationFails
      <3> QED
        BY <3>1, <3>2
    <2>3. hours' \in Nat /\ hours' <= hours
      BY <2>1, <2>2
    <2> QED
      BY <2>1, <2>3, FeeMonotone
  <1> QED
    BY <1>1, InitIInv, NextIInv, PTL DEF Spec, WaitingIsNeverCheaper

=============================================================================
