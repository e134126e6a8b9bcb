----------------------------- MODULE MCGuestLinks -----------------------------
(* Two clerks who send links and two windows of the guest's browser.        *)
EXTENDS GuestLinks, TLC

Alike == Permutations(Clerks) \cup Permutations(Browsers)

\* Two links of a kind are enough to replace one another; links of different
\* kinds meet in the booking alone, which one pre-check-in form saves.
TwoOfAKind ==
  LET Of(kind) == Cardinality({n \in DOMAIN links : links[n].kind = kind})
  IN Of("survey") <= 2 /\ Of("precheckin") <= IF Of("survey") = 0 THEN 2 ELSE 1

=============================================================================
