------------------------------ MODULE GuestLinks ------------------------------
(***************************************************************************)
(* The links that are mailed to the guest of one booking: to the           *)
(* pre-check-in form before the stay and to the survey after it; nothing   *)
(* here reads two bookings.                                                *)
(*                                                                         *)
(* No view locks anything.  Sending a link is an UPDATE, an INSERT and a   *)
(* mail, each on its own; a form is checked when it arrives and saved in a *)
(* transaction later; both save every column of rows they read before.     *)
(*                                                                         *)
(* survey_sent_at and survey_send_at are left out: apart from statistics,  *)
(* they are read by check-out, which sends a survey in no mode, and by     *)
(* send_scheduled_surveys, which cannot be loaded.                         *)
(***************************************************************************)
EXTENDS Naturals, Sequences, FiniteSets

CONSTANTS
  Clerks,    \* requests of staff
  Browsers,  \* requests of the guest
  MaxLinks,  \* bound: links of the booking
  Idle

ASSUME GuestLinksAssumption == MaxLinks \in Nat

VARIABLES
  completed,  \* the booking is COMPLETED or has its checked_out_at
  links,      \* BookingPrecheckinToken and BookingSurveyToken, as created
  response,   \* the link that the BookingSurveyResponse names, 0 if there is none
  desk,       \* what each clerk's request is about to do
  browser     \* what each request of the guest has read

vars == <<completed, links, response, desk, browser>>

Kinds == {"precheckin", "survey"}

\* `life' is "old" 30 days after created_at and "expired" after expires_at;
\* `replaces' is history: the number of links when this one was asked for, and
\* so is `mailed': the guest has it.
Links == [kind : Kinds, exists : BOOLEAN, used : BOOLEAN, revoked : BOOLEAN,
          life : {"new", "old", "expired"}, replaces : Nat, mailed : BOOLEAN]

Requests == [does : {"creates"}, kind : Kinds, replaces : Nat]
              \cup [does : {"mails", "revokes"}, link : Nat \ {0}]

TypeOK ==
  /\ completed \in BOOLEAN
  /\ links \in Seq(Links)
  /\ response \in Nat
  /\ response # 0 => response \in DOMAIN links /\ links[response].kind = "survey"
  /\ desk \in [Clerks -> Requests \cup {Idle}]
  /\ browser \in [Browsers -> [link : Nat \ {0}, completed : BOOLEAN] \cup {Idle}]

Init ==
  /\ completed = FALSE
  /\ links = <<>>
  /\ response = 0
  /\ desk = [c \in Clerks |-> Idle]
  /\ browser = [g \in Browsers |-> Idle]

-----------------------------------------------------------------------------
(* Rows *)

\* is_valid
IsOpen(n) ==
  /\ links[n].exists /\ ~links[n].used /\ ~links[n].revoked
  /\ links[n].life # "expired"

\* save(): every column as it was read, when the link was open, and the one that
\* is assigned; a row that is gone is inserted again, created now.
Save(n, used, revoked) ==
  LET k == links[n]
  IN [links EXCEPT ![n] =
        [k EXCEPT !.exists = TRUE, !.used = used, !.revoked = revoked,
                  !.life = IF k.exists \/ k.life = "expired" THEN k.life ELSE "new"]]

Sending(c) == desk[c] # Idle /\ desk[c].does = "creates"

Room == Len(links) + Cardinality({c \in Clerks : Sending(c)}) < MaxLinks

-----------------------------------------------------------------------------
(* SendPrecheckinLinkView and SendSurveyLinkView *)

\* Mutant: the earlier links are left alone.
SendBeginsOnly(c, kind) ==
  /\ desk[c] = Idle /\ Room
  /\ kind = "survey" => completed
  /\ desk' = [desk EXCEPT ![c] = [does |-> "creates", kind |-> kind, replaces |-> Len(links)]]
  /\ UNCHANGED <<completed, links, response, browser>>

SendBegins(c, kind) ==
  /\ desk[c] = Idle /\ Room
  /\ kind = "survey" => completed
  /\ links' = [n \in DOMAIN links |->
                 IF links[n].kind = kind /\ ~links[n].used
                 THEN [links[n] EXCEPT !.revoked = TRUE] ELSE links[n]]
  /\ desk' = [desk EXCEPT ![c] = [does |-> "creates", kind |-> kind, replaces |-> Len(links)]]
  /\ UNCHANGED <<completed, response, browser>>

SendCreates(c) ==
  /\ desk[c] # Idle /\ desk[c].does = "creates"
  /\ links' = Append(links, [kind |-> desk[c].kind, exists |-> TRUE, used |-> FALSE,
                             revoked |-> FALSE, life |-> "new",
                             replaces |-> desk[c].replaces, mailed |-> FALSE])
  /\ desk' = [desk EXCEPT ![c] = [does |-> "mails", link |-> Len(links) + 1]]
  /\ UNCHANGED <<completed, response, browser>>

\* The mail server takes the mail, or an error comes back: with or without the
\* mail having gone out.
Mails(c) ==
  /\ desk[c] # Idle /\ desk[c].does = "mails"
  /\ LET n == desk[c].link
     IN \/ /\ links' = [links EXCEPT ![n].mailed = TRUE]
           /\ desk' = [desk EXCEPT ![c] = Idle]
        \/ /\ \E delivered \in BOOLEAN : links' = [links EXCEPT ![n].mailed = delivered]
           /\ desk' = [desk EXCEPT ![c] = [does |-> "revokes", link |-> n]]
  /\ UNCHANGED <<completed, response, browser>>

\* Mutant: the link that could not be mailed is saved, but not revoked.
RevokesNot(c) ==
  /\ desk[c] # Idle /\ desk[c].does = "revokes"
  /\ links' = Save(desk[c].link, FALSE, FALSE)
  /\ desk' = [desk EXCEPT ![c] = Idle]
  /\ UNCHANGED <<completed, response, browser>>

Revokes(c) ==
  /\ desk[c] # Idle /\ desk[c].does = "revokes"
  /\ links' = Save(desk[c].link, FALSE, TRUE)
  /\ desk' = [desk EXCEPT ![c] = Idle]
  /\ UNCHANGED <<completed, response, browser>>

\* The worker process is killed.
CutOff(c) ==
  /\ desk[c] # Idle
  /\ desk' = [desk EXCEPT ![c] = Idle]
  /\ UNCHANGED <<completed, links, response, browser>>

-----------------------------------------------------------------------------
(* SubmitPrecheckinDataView and SubmitSurveyDataView *)

SubmitReads(g, n) ==
  /\ browser[g] = Idle
  /\ links[n].mailed /\ IsOpen(n)
  /\ links[n].kind = "survey" => response = 0
  /\ browser' = [browser EXCEPT ![g] = [link |-> n, completed |-> completed]]
  /\ UNCHANGED <<completed, links, response, desk>>

\* Mutant: the form of either kind is saved as a response.
SubmitSavesAny(g) ==
  /\ browser[g] # Idle
  /\ response = 0
  /\ response' = browser[g].link
  /\ links' = Save(browser[g].link, TRUE, FALSE)
  /\ browser' = [browser EXCEPT ![g] = Idle]
  /\ UNCHANGED <<completed, desk>>

\* The response is unique.  The pre-check-in form saves the booking, as it was
\* when the link was read.
SubmitSaves(g) ==
  /\ browser[g] # Idle
  /\ LET n == browser[g].link
     IN /\ IF links[n].kind = "survey"
           THEN response = 0 /\ response' = n /\ UNCHANGED completed
           ELSE completed' = browser[g].completed /\ UNCHANGED response
        /\ links' = Save(n, TRUE, FALSE)
  /\ browser' = [browser EXCEPT ![g] = Idle]
  /\ UNCHANGED desk

\* The transaction fails, or the worker process is killed.
SubmitFails(g) ==
  /\ browser[g] # Idle
  /\ browser' = [browser EXCEPT ![g] = Idle]
  /\ UNCHANGED <<completed, links, response, desk>>

-----------------------------------------------------------------------------
(* Check-out, time, and cleanup_survey_tokens *)

CheckOutBooking ==
  /\ ~completed
  /\ completed' = TRUE
  /\ UNCHANGED <<links, response, desk, browser>>

\* A hotel may keep its survey links open for more than 30 days.
Ages(n) ==
  /\ \/ links[n].kind = "survey" /\ links[n].life = "new"
          /\ links' = [links EXCEPT ![n].life = "old"]
     \/ links[n].life # "expired" /\ links' = [links EXCEPT ![n].life = "expired"]
  /\ UNCHANGED <<completed, response, desk, browser>>

\* token_used cascades: the response goes with the link it names.
Cleanup ==
  LET gone == {n \in DOMAIN links :
                 /\ links[n].kind = "survey" /\ links[n].exists
                 /\ links[n].used \/ links[n].life # "new"}
  IN /\ gone # {}
     /\ links' = [n \in DOMAIN links |->
                    IF n \in gone THEN [links[n] EXCEPT !.exists = FALSE] ELSE links[n]]
     /\ response' = IF response \in gone THEN 0 ELSE response
     /\ UNCHANGED <<completed, desk, browser>>

-----------------------------------------------------------------------------
(* Specification *)

Next ==
  \/ \E c \in Clerks :
       \/ \E kind \in Kinds : SendBegins(c, kind)
       \/ SendCreates(c) \/ Mails(c) \/ Revokes(c) \/ CutOff(c)
  \/ \E g \in Browsers :
       \/ \E n \in DOMAIN links : SubmitReads(g, n)
       \/ SubmitSaves(g) \/ SubmitFails(g)
  \/ \E n \in DOMAIN links : Ages(n)
  \/ CheckOutBooking \/ Cleanup

Spec == Init /\ [][Next]_vars

-----------------------------------------------------------------------------
(* Properties *)

\* A link that has been used has brought the one response there is, which is
\* never sent by a link that is still open; and a link is closed to the links
\* that were there when it was asked for (BookingSurveyToken: "time-limited,
\* one-time links"; "Revoke any existing active tokens").
LinksWorkOnce ==
  /\ \A n \in DOMAIN links :
       links[n].kind = "survey" /\ links[n].exists /\ links[n].used => response = n
  /\ response # 0 => links[response].exists /\ ~IsOpen(response)
  /\ \A n, later \in DOMAIN links :
       links[n].kind = links[later].kind /\ n <= links[later].replaces => ~IsOpen(n)

\* No link opens again once it is used, revoked, expired or deleted: neither a
\* failed mail nor a form that was being saved brings it back with the columns
\* they had read (SendSurveyLinkView, SubmitSurveyDataView: token.save()).
ClosedLinksStayClosed ==
  [][\A n \in DOMAIN links : ~IsOpen(n) => ~IsOpen(n)']_vars

\* Cleaning up the links keeps the responses (cleanup_survey_tokens).
ResponsesAreKept == [][response # 0 => response' = response]_vars

=============================================================================
