--------------------------- MODULE GuestLinksProofs ---------------------------
(***************************************************************************)
(* No link opens again, for any number of clerks and browsers.  The        *)
(* inductive invariant adds what the requests under way know: the links    *)
(* that a new one will replace are closed already, and the links that      *)
(* requests hold are there.                                                *)
(***************************************************************************)
EXTENDS GuestLinks, SequenceTheorems, TLAPS

ReplacedAreClosed ==
  \A c \in Clerks : desk[c] # Idle /\ desk[c].does = "creates" =>
    /\ desk[c].replaces <= Len(links)
    /\ \A n \in DOMAIN links :
         links[n].kind = desk[c].kind /\ n <= desk[c].replaces => ~IsOpen(n)

LinksAreThere ==
  /\ \A c \in Clerks : desk[c] # Idle /\ desk[c].does # "creates" => desk[c].link \in DOMAIN links
  /\ \A g \in Browsers : browser[g] # Idle => browser[g].link \in DOMAIN links
  /\ \A n \in DOMAIN links : links[n].replaces < n

IInv == TypeOK /\ LinksWorkOnce /\ ReplacedAreClosed /\ LinksAreThere

\* What every step leaves of the links there are.
Kept ==
  \A n \in DOMAIN links :
    /\ n \in DOMAIN links'
    /\ links'[n].kind = links[n].kind
    /\ links'[n].replaces = links[n].replaces

Closed == \A n \in DOMAIN links : ~IsOpen(n) => ~IsOpen(n)'

-----------------------------------------------------------------------------
(* Saving a row *)

\* A row that is saved as used or as revoked is closed, and no other row changes
\* (Model.save()).
LEMMA SaveCloses ==
  ASSUME links \in Seq(Links), NEW n \in DOMAIN links,
         NEW used \in BOOLEAN, NEW revoked \in BOOLEAN, used \/ revoked,
         links' = Save(n, used, revoked)
  PROVE  /\ links' \in Seq(Links)
         /\ Len(links') = Len(links) /\ DOMAIN links' = DOMAIN links
         /\ \A m \in DOMAIN links : m # n => links'[m] = links[m]
         /\ links'[n].kind = links[n].kind /\ links'[n].replaces = links[n].replaces
         /\ links'[n].exists /\ links'[n].used = used /\ links'[n].revoked = revoked
         /\ ~IsOpen(n)'
<1> DEFINE life == IF links[n].exists \/ links[n].life = "expired" THEN links[n].life ELSE "new"
<1>1. links[n] \in Links /\ DOMAIN links = 1..Len(links)
  OBVIOUS
<1>2. links' = [links EXCEPT ![n] = [links[n] EXCEPT !.exists = TRUE, !.used = used,
                                                    !.revoked = revoked, !.life = life]]
  BY DEF Save
<1>3. life \in {"new", "old", "expired"}
  BY <1>1 DEF Links
<1>4. [links[n] EXCEPT !.exists = TRUE, !.used = used, !.revoked = revoked,
                       !.life = life] \in Links
  BY <1>1, <1>3 DEF Links
<1> HIDE DEF life
<1>5. /\ links' \in Seq(Links)
      /\ Len(links') = Len(links) /\ DOMAIN links' = DOMAIN links
  BY <1>1, <1>2, <1>4
<1>6. links'[n] = [links[n] EXCEPT !.exists = TRUE, !.used = used, !.revoked = revoked,
                                   !.life = life]
  BY <1>2
<1>7. /\ links'[n].kind = links[n].kind /\ links'[n].replaces = links[n].replaces
      /\ links'[n].exists /\ links'[n].used = used /\ links'[n].revoked = revoked
  BY <1>1, <1>6 DEF Links
<1>8. ~IsOpen(n)'
  BY <1>7 DEF IsOpen
<1> QED
  BY <1>2, <1>5, <1>7, <1>8

\* A link with another column is a link.
LEMMA LinkColumns ==
  ASSUME NEW k \in Links, NEW flag \in BOOLEAN, NEW life \in {"new", "old", "expired"}
  PROVE  /\ [k EXCEPT !.revoked = flag] \in Links /\ [k EXCEPT !.exists = flag] \in Links
         /\ [k EXCEPT !.mailed = flag] \in Links /\ [k EXCEPT !.life = life] \in Links
BY DEF Links

-----------------------------------------------------------------------------
(* What a step does to the links *)

\* A step that changes no link.
LEMMA SameLinks ==
  ASSUME UNCHANGED links
  PROVE  Kept /\ Closed
BY DEF Kept, Closed, IsOpen

\* Nor does a saved row open one.
LEMMA SaveKeeps ==
  ASSUME links \in Seq(Links), NEW n \in DOMAIN links,
         NEW used \in BOOLEAN, NEW revoked \in BOOLEAN, used \/ revoked,
         links' = Save(n, used, revoked)
  PROVE  Kept /\ Closed
<1>1. /\ DOMAIN links' = DOMAIN links
      /\ \A m \in DOMAIN links : m # n => links'[m] = links[m]
      /\ links'[n].kind = links[n].kind /\ links'[n].replaces = links[n].replaces
      /\ ~IsOpen(n)'
  BY SaveCloses
<1> QED
  BY <1>1 DEF Kept, Closed, IsOpen

\* No step opens a link, changes its kind or takes its number away.
LEMMA StepKeeps ==
  ASSUME IInv, Next
  PROVE  Kept /\ Closed
<1> USE DEF IInv
<1>0. links \in Seq(Links) /\ DOMAIN links = 1..Len(links)
  BY DEF TypeOK
<1>1. ASSUME NEW c \in Clerks, NEW kind \in Kinds, SendBegins(c, kind)
      PROVE  Kept /\ Closed
  <2>1. DOMAIN links' = DOMAIN links
    BY <1>1 DEF SendBegins
  <2>2. ASSUME NEW n \in DOMAIN links
        PROVE  /\ links'[n] = links[n] \/ links'[n] = [links[n] EXCEPT !.revoked = TRUE]
               /\ links[n] \in Links
    BY <1>0, <1>1 DEF SendBegins
  <2>3. ASSUME NEW n \in DOMAIN links
        PROVE  /\ links'[n].kind = links[n].kind /\ links'[n].replaces = links[n].replaces
               /\ ~IsOpen(n) => ~IsOpen(n)'
    BY <2>2 DEF IsOpen, Links
  <2> QED
    BY <2>1, <2>3 DEF Kept, Closed
<1>2. ASSUME NEW c \in Clerks, SendCreates(c)
      PROVE  Kept /\ Closed
  <2>1. \A n \in DOMAIN links : n \in DOMAIN links' /\ links'[n] = links[n]
    BY <1>0, <1>2 DEF SendCreates
  <2> QED
    BY <2>1 DEF Kept, Closed, IsOpen
<1>3. ASSUME NEW c \in Clerks, Mails(c)
      PROVE  Kept /\ Closed
  <2>1. PICK delivered \in BOOLEAN : links' = [links EXCEPT ![desk[c].link].mailed = delivered]
    BY <1>3 DEF Mails
  <2>2. DOMAIN links' = DOMAIN links
    BY <2>1
  <2>3. ASSUME NEW n \in DOMAIN links
        PROVE  /\ links'[n] = links[n] \/ links'[n] = [links[n] EXCEPT !.mailed = delivered]
               /\ links[n] \in Links
    BY <1>0, <2>1
  <2>4. ASSUME NEW n \in DOMAIN links
        PROVE  /\ links'[n].kind = links[n].kind /\ links'[n].replaces = links[n].replaces
               /\ ~IsOpen(n) => ~IsOpen(n)'
    BY <2>3 DEF IsOpen, Links
  <2> QED
    BY <2>2, <2>4 DEF Kept, Closed
<1>4. ASSUME NEW c \in Clerks, Revokes(c)
      PROVE  Kept /\ Closed
  <2>1. PICK n \in DOMAIN links : links' = Save(n, FALSE, TRUE)
    BY <1>4 DEF Revokes, LinksAreThere
  <2> QED
    BY <1>0, <2>1, SaveKeeps
<1>5. ASSUME NEW g \in Browsers, SubmitSaves(g)
      PROVE  Kept /\ Closed
  <2>1. PICK n \in DOMAIN links : links' = Save(n, TRUE, FALSE)
    BY <1>5 DEF SubmitSaves, LinksAreThere
  <2> QED
    BY <1>0, <2>1, SaveKeeps
<1>6. ASSUME NEW n \in DOMAIN links, Ages(n)
      PROVE  Kept /\ Closed
  <2>1. PICK life \in {"old", "expired"} :
          /\ links' = [links EXCEPT ![n].life = life]
          /\ links[n].life = "expired" => life = "expired"
    BY <1>6 DEF Ages
  <2>2. DOMAIN links' = DOMAIN links
    BY <2>1
  <2>3. ASSUME NEW m \in DOMAIN links
        PROVE  /\ \/ links'[m] = links[m]
                  \/ /\ links[m].life = "expired" => life = "expired"
                     /\ links'[m] = [links[m] EXCEPT !.life = life]
               /\ links[m] \in Links
    BY <1>0, <2>1
  <2>4. ASSUME NEW m \in DOMAIN links
        PROVE  /\ links'[m].kind = links[m].kind /\ links'[m].replaces = links[m].replaces
               /\ ~IsOpen(m) => ~IsOpen(m)'
    BY <2>3 DEF IsOpen, Links
  <2> QED
    BY <2>2, <2>4 DEF Kept, Closed
<1>7. ASSUME Cleanup
      PROVE  Kept /\ Closed
  <2>1. DOMAIN links' = DOMAIN links
    BY <1>7 DEF Cleanup
  <2>2. ASSUME NEW n \in DOMAIN links
        PROVE  /\ links'[n] = links[n] \/ links'[n] = [links[n] EXCEPT !.exists = FALSE]
               /\ links[n] \in Links
    BY <1>0, <1>7 DEF Cleanup
  <2>3. ASSUME NEW n \in DOMAIN links
        PROVE  /\ links'[n].kind = links[n].kind /\ links'[n].replaces = links[n].replaces
               /\ ~IsOpen(n) => ~IsOpen(n)'
    BY <2>2 DEF IsOpen, Links
  <2> QED
    BY <2>1, <2>3 DEF Kept, Closed
<1>8. CASE UNCHANGED links
  BY <1>8, SameLinks
<1> QED
  BY <1>1, <1>2, <1>3, <1>4, <1>5, <1>6, <1>7, <1>8
  DEF Next, CutOff, SubmitReads, SubmitFails, CheckOutBooking

-----------------------------------------------------------------------------
(* The parts of the invariant *)

\* Types.
LEMMA TypeStep ==
  ASSUME IInv, Next
  PROVE  TypeOK'
<1> USE DEF IInv
<1>0. links \in Seq(Links) /\ DOMAIN links = 1..Len(links)
  BY DEF TypeOK
<1>a. ASSUME NEW n \in DOMAIN links
      PROVE  links[n] \in Links
  BY <1>0
<1>b. ASSUME NEW n \in DOMAIN links, NEW flag \in BOOLEAN, NEW life \in {"new", "old", "expired"}
      PROVE  /\ [links[n] EXCEPT !.revoked = flag] \in Links
             /\ [links[n] EXCEPT !.exists = flag] \in Links
             /\ [links[n] EXCEPT !.mailed = flag] \in Links
             /\ [links[n] EXCEPT !.life = life] \in Links
  <2> DEFINE k == links[n]
  <2>1. k \in Links
    BY <1>a
  <2> HIDE DEF k
  <2>2. /\ [k EXCEPT !.revoked = flag] \in Links /\ [k EXCEPT !.exists = flag] \in Links
        /\ [k EXCEPT !.mailed = flag] \in Links /\ [k EXCEPT !.life = life] \in Links
    BY <2>1, LinkColumns
  <2> QED
    BY <2>2 DEF k
<1>1. ASSUME NEW c \in Clerks, NEW kind \in Kinds, SendBegins(c, kind)
      PROVE  TypeOK'
  <2>1. \A n \in DOMAIN links : links[n] \in Links /\ [links[n] EXCEPT !.revoked = TRUE] \in Links
    BY <1>a, <1>b
  <2>2. links' \in Seq(Links) /\ DOMAIN links' = DOMAIN links
    BY <1>0, <1>1, <2>1 DEF SendBegins
  <2>3. [does |-> "creates", kind |-> kind, replaces |-> Len(links)] \in Requests
    BY <1>0 DEF Requests
  <2>4. desk' \in [Clerks -> Requests \cup {Idle}]
    BY <1>1, <2>3 DEF SendBegins, TypeOK
  <2>5. Kept
    BY <1>1, StepKeeps
  <2> QED
    BY <1>1, <2>2, <2>4, <2>5 DEF SendBegins, TypeOK, Kept
<1>2. ASSUME NEW c \in Clerks, SendCreates(c)
      PROVE  TypeOK'
  <2> DEFINE new == [kind |-> desk[c].kind, exists |-> TRUE, used |-> FALSE,
                     revoked |-> FALSE, life |-> "new",
                     replaces |-> desk[c].replaces, mailed |-> FALSE]
  <2>1. desk[c].kind \in Kinds /\ desk[c].replaces \in Nat
    BY <1>2 DEF SendCreates, TypeOK, Requests
  <2>2. new \in Links
    BY <2>1 DEF Links
  <2>3. links' = Append(links, new)
    BY <1>2 DEF SendCreates
  <2> HIDE DEF new
  <2>4. links' \in Seq(Links)
    BY <1>0, <2>2, <2>3
  <2>5. [does |-> "mails", link |-> Len(links) + 1] \in Requests
    BY <1>0 DEF Requests
  <2>6. desk' \in [Clerks -> Requests \cup {Idle}]
    BY <1>2, <2>5 DEF SendCreates, TypeOK
  <2>7. Kept
    BY <1>2, StepKeeps
  <2> QED
    BY <1>2, <2>4, <2>6, <2>7 DEF SendCreates, TypeOK, Kept
<1>3. ASSUME NEW c \in Clerks, Mails(c)
      PROVE  TypeOK'
  <2>1. PICK delivered \in BOOLEAN : links' = [links EXCEPT ![desk[c].link].mailed = delivered]
    BY <1>3 DEF Mails
  <2>2. desk[c].link \in DOMAIN links
    BY <1>3 DEF Mails, LinksAreThere
  <2>3. [links[desk[c].link] EXCEPT !.mailed = delivered] \in Links
    BY <2>2, <1>b
  <2>4. links' \in Seq(Links)
    BY <1>0, <2>1, <2>2, <2>3
  <2>5. [does |-> "revokes", link |-> desk[c].link] \in Requests
    BY <1>0, <2>2 DEF Requests
  <2>6. desk' \in [Clerks -> Requests \cup {Idle}]
    BY <1>3, <2>5 DEF Mails, TypeOK
  <2>7. Kept
    BY <1>3, StepKeeps
  <2> QED
    BY <1>3, <2>4, <2>6, <2>7 DEF Mails, TypeOK, Kept
<1>4. ASSUME NEW c \in Clerks, Revokes(c)
      PROVE  TypeOK'
  <2>1. PICK n \in DOMAIN links : links' = Save(n, FALSE, TRUE)
    BY <1>4 DEF Revokes, LinksAreThere
  <2>2. links' \in Seq(Links)
    BY <1>0, <2>1, SaveCloses
  <2>3. Kept
    BY <1>4, StepKeeps
  <2> QED
    BY <1>4, <2>2, <2>3 DEF Revokes, TypeOK, Kept
<1>5. ASSUME NEW c \in Clerks, CutOff(c)
      PROVE  TypeOK'
  BY <1>5 DEF CutOff, TypeOK
<1>6. ASSUME NEW g \in Browsers, NEW n \in DOMAIN links, SubmitReads(g, n)
      PROVE  TypeOK'
  <2>1. [link |-> n, completed |-> completed] \in [link : Nat \ {0}, completed : BOOLEAN]
    BY <1>0 DEF TypeOK
  <2> QED
    BY <1>6, <2>1 DEF SubmitReads, TypeOK
<1>7. ASSUME NEW g \in Browsers, SubmitSaves(g)
      PROVE  TypeOK'
  <2>1. PICK n \in DOMAIN links : n = browser[g].link /\ links' = Save(n, TRUE, FALSE)
    BY <1>7 DEF SubmitSaves, LinksAreThere
  <2>2. links' \in Seq(Links)
    BY <1>0, <2>1, SaveCloses
  <2>3. Kept
    BY <1>7, StepKeeps
  <2>4. browser[g].completed \in BOOLEAN
    BY <1>7 DEF SubmitSaves, TypeOK
  <2>5. /\ completed' \in BOOLEAN /\ response' \in Nat
        /\ response' # 0 => response' \in DOMAIN links /\ links[response'].kind = "survey"
    BY <1>0, <1>7, <2>1, <2>4 DEF SubmitSaves, TypeOK
  <2>6. browser' \in [Browsers -> [link : Nat \ {0}, completed : BOOLEAN] \cup {Idle}]
    BY <1>7 DEF SubmitSaves, TypeOK
  <2>7. response' # 0 => response' \in DOMAIN links' /\ links'[response'].kind = "survey"
    BY <2>3, <2>5 DEF Kept
  <2> QED
    BY <1>7, <2>2, <2>5, <2>6, <2>7 DEF SubmitSaves, TypeOK
<1>8. ASSUME NEW g \in Browsers, SubmitFails(g)
      PROVE  TypeOK'
  BY <1>8 DEF SubmitFails, TypeOK
<1>9. ASSUME NEW n \in DOMAIN links, Ages(n)
      PROVE  TypeOK'
  <2>1. PICK life \in {"old", "expired"} : links' = [links EXCEPT ![n].life = life]
    BY <1>9 DEF Ages
  <2>2. [links[n] EXCEPT !.life = life] \in Links
    BY <1>a, <1>b
  <2>3. links' \in Seq(Links)
    BY <1>0, <2>1, <2>2
  <2>4. Kept
    BY <1>9, StepKeeps
  <2> QED
    BY <1>9, <2>3, <2>4 DEF Ages, TypeOK, Kept
<1>10. ASSUME CheckOutBooking
       PROVE  TypeOK'
  BY <1>10 DEF CheckOutBooking, TypeOK
<1>11. ASSUME Cleanup
       PROVE  TypeOK'
  <2>1. \A n \in DOMAIN links : links[n] \in Links /\ [links[n] EXCEPT !.exists = FALSE] \in Links
    BY <1>a, <1>b
  <2>2. links' \in Seq(Links)
    BY <1>0, <1>11, <2>1 DEF Cleanup
  <2>3. Kept
    BY <1>11, StepKeeps
  <2>4. response' \in {0, response}
    BY <1>11 DEF Cleanup
  <2> QED
    BY <1>11, <2>2, <2>3, <2>4 DEF Cleanup, TypeOK, Kept
<1> QED
  BY <1>1, <1>2, <1>3, <1>4, <1>5, <1>6, <1>7, <1>8, <1>9, <1>10, <1>11 DEF Next

\* The links that requests hold stay there.
LEMMA ThereStep ==
  ASSUME IInv, Next
  PROVE  LinksAreThere'
<1> USE DEF IInv
<1>0. links \in Seq(Links) /\ DOMAIN links = 1..Len(links)
  BY DEF TypeOK
<1>1. Kept
  BY StepKeeps
<1>2. ASSUME NEW c \in Clerks, desk'[c] # Idle, desk'[c].does # "creates"
      PROVE  desk'[c].link \in DOMAIN links'
  <2>1. ASSUME NEW d \in Clerks, SendCreates(d)
        PROVE  desk'[c].link \in DOMAIN links'
    <3>1. DOMAIN links' = 1..(Len(links) + 1)
      BY <1>0, <2>1 DEF SendCreates
    <3>2. CASE c = d
      BY <1>0, <2>1, <3>1, <3>2 DEF SendCreates, TypeOK
    <3>3. CASE c # d
      BY <1>0, <1>1, <1>2, <2>1, <3>3 DEF SendCreates, TypeOK, LinksAreThere, Kept
    <3> QED
      BY <3>2, <3>3
  <2>2. ASSUME NEW d \in Clerks, NEW kind \in Kinds, SendBegins(d, kind)
        PROVE  desk'[c].link \in DOMAIN links'
    BY <1>1, <1>2, <2>2 DEF SendBegins, TypeOK, LinksAreThere, Kept
  <2>3. ASSUME NEW d \in Clerks, Mails(d)
        PROVE  desk'[c].link \in DOMAIN links'
    <3>1. CASE c = d
      BY <1>1, <1>2, <2>3, <3>1 DEF Mails, TypeOK, LinksAreThere, Kept
    <3>2. CASE c # d
      BY <1>1, <1>2, <2>3, <3>2 DEF Mails, TypeOK, LinksAreThere, Kept
    <3> QED
      BY <3>1, <3>2
  <2>4. ASSUME NEW d \in Clerks, Revokes(d) \/ CutOff(d)
        PROVE  desk'[c].link \in DOMAIN links'
    BY <1>1, <1>2, <2>4 DEF Revokes, CutOff, TypeOK, LinksAreThere, Kept
  <2>5. CASE UNCHANGED desk
    BY <1>1, <1>2, <2>5 DEF LinksAreThere, Kept
  <2> QED
    BY <2>1, <2>2, <2>3, <2>4, <2>5
    DEF Next, SubmitReads, SubmitSaves, SubmitFails, Ages, CheckOutBooking, Cleanup
<1>3. ASSUME NEW g \in Browsers, browser'[g] # Idle
      PROVE  browser'[g].link \in DOMAIN links'
  <2>1. ASSUME NEW h \in Browsers, NEW n \in DOMAIN links, SubmitReads(h, n)
        PROVE  browser'[g].link \in DOMAIN links'
    BY <1>1, <1>3, <2>1 DEF SubmitReads, TypeOK, LinksAreThere, Kept
  <2>2. ASSUME NEW h \in Browsers, SubmitSaves(h) \/ SubmitFails(h)
        PROVE  browser'[g].link \in DOMAIN links'
    BY <1>1, <1>3, <2>2 DEF SubmitSaves, SubmitFails, TypeOK, LinksAreThere, Kept
  <2>3. CASE UNCHANGED browser
    BY <1>1, <1>3, <2>3 DEF LinksAreThere, Kept
  <2> QED
    BY <2>1, <2>2, <2>3
    DEF Next, SendBegins, SendCreates, Mails, Revokes, CutOff, Ages, CheckOutBooking, Cleanup
<1>4. ASSUME NEW n \in DOMAIN links'
      PROVE  links'[n].replaces < n
  <2>1. CASE n \in DOMAIN links
    BY <1>1, <2>1 DEF LinksAreThere, Kept
  <2>2. CASE n \notin DOMAIN links
    <3>1. PICK c \in Clerks : SendCreates(c)
      <4>1. DOMAIN links' # DOMAIN links
        BY <1>4, <2>2
      <4>2. ASSUME NEW k \in DOMAIN links, NEW used \in BOOLEAN, NEW revoked \in BOOLEAN
            PROVE  links' # Save(k, used, revoked)
        BY <4>1 DEF Save
      <4> QED
        BY <4>1, <4>2
        DEF Next, SendBegins, Mails, Revokes, CutOff, SubmitReads, SubmitSaves, SubmitFails,
            Ages, CheckOutBooking, Cleanup, LinksAreThere
    <3>2. n = Len(links) + 1 /\ links'[n].replaces = desk[c].replaces
      BY <1>0, <1>4, <2>2, <3>1 DEF SendCreates
    <3>3. desk[c].replaces <= Len(links) /\ desk[c].replaces \in Nat
      BY <3>1 DEF SendCreates, ReplacedAreClosed, TypeOK, Requests
    <3> QED
      BY <1>0, <3>2, <3>3
  <2> QED
    BY <2>1, <2>2
<1> QED
  BY <1>2, <1>3, <1>4 DEF LinksAreThere

\* What a new link will replace is closed, and stays closed.
LEMMA ReplacedStep ==
  ASSUME IInv, Next
  PROVE  ReplacedAreClosed'
<1> USE DEF IInv
<1>0. links \in Seq(Links) /\ DOMAIN links = 1..Len(links)
  BY DEF TypeOK
<1>1. Kept /\ Closed
  BY StepKeeps
<1>2. links' \in Seq(Links) /\ DOMAIN links' = 1..Len(links')
  BY TypeStep DEF TypeOK
<1>3. Len(links) <= Len(links')
  BY <1>0, <1>1, <1>2 DEF Kept
<1>4. ASSUME NEW c \in Clerks, desk'[c] # Idle, desk'[c].does = "creates", desk'[c] = desk[c]
      PROVE  /\ desk'[c].replaces <= Len(links')
             /\ \A n \in DOMAIN links' :
                  links'[n].kind = desk'[c].kind /\ n <= desk'[c].replaces => ~IsOpen(n)'
  <2>1. desk[c].replaces <= Len(links) /\ desk[c].replaces \in Nat
    BY <1>4 DEF ReplacedAreClosed, TypeOK, Requests
  <2>2. ASSUME NEW n \in DOMAIN links', links'[n].kind = desk[c].kind, n <= desk[c].replaces
        PROVE  ~IsOpen(n)'
    <3>1. n \in DOMAIN links
      BY <1>0, <1>2, <2>1, <2>2
    <3> QED
      BY <1>1, <1>4, <2>2, <3>1 DEF ReplacedAreClosed, Kept, Closed
  <2> QED
    BY <1>0, <1>2, <1>3, <1>4, <2>1, <2>2
<1>5. ASSUME NEW c \in Clerks, NEW kind \in Kinds, SendBegins(c, kind)
      PROVE  /\ desk'[c].replaces <= Len(links')
             /\ \A n \in DOMAIN links' :
                  links'[n].kind = desk'[c].kind /\ n <= desk'[c].replaces => ~IsOpen(n)'
  <2>1. desk'[c] = [does |-> "creates", kind |-> kind, replaces |-> Len(links)]
    BY <1>5 DEF SendBegins, TypeOK
  <2>2. ASSUME NEW n \in DOMAIN links', links'[n].kind = kind
        PROVE  ~IsOpen(n)'
    <3>1. n \in DOMAIN links /\ links[n] \in Links
      BY <1>0, <1>5, <2>2 DEF SendBegins
    <3>2. \/ links[n].used /\ links'[n] = links[n]
          \/ links'[n] = [links[n] EXCEPT !.revoked = TRUE]
      BY <1>1, <1>5, <2>2, <3>1 DEF SendBegins, Kept
    <3> QED
      BY <3>1, <3>2 DEF IsOpen, Links
  <2> QED
    BY <1>0, <1>2, <1>3, <2>1, <2>2
<1>6. ASSUME NEW c \in Clerks, desk'[c] # Idle, desk'[c].does = "creates", desk'[c] # desk[c]
      PROVE  \E kind \in Kinds : SendBegins(c, kind)
  <2>1. ASSUME NEW d \in Clerks, SendCreates(d) \/ Mails(d) \/ Revokes(d) \/ CutOff(d)
        PROVE  FALSE
    <3>1. d = c /\ desk \in [Clerks -> Requests \cup {Idle}]
      BY <1>6, <2>1 DEF SendCreates, Mails, Revokes, CutOff, TypeOK
    <3>2. CASE SendCreates(d)
      BY <1>6, <3>1, <3>2 DEF SendCreates
    <3>3. CASE Mails(d)
      BY <1>6, <3>1, <3>3 DEF Mails
    <3>4. CASE Revokes(d) \/ CutOff(d)
      BY <1>6, <3>1, <3>4 DEF Revokes, CutOff
    <3> QED
      BY <2>1, <3>2, <3>3, <3>4
  <2>2. ASSUME NEW d \in Clerks, NEW kind \in Kinds, SendBegins(d, kind), d # c
        PROVE  FALSE
    BY <1>6, <2>2 DEF SendBegins, TypeOK
  <2> QED
    BY <1>6, <2>1, <2>2
    DEF Next, SubmitReads, SubmitSaves, SubmitFails, Ages, CheckOutBooking, Cleanup
<1> QED
  BY <1>4, <1>5, <1>6 DEF ReplacedAreClosed

\* One response of one link, and no link beside one that replaces it.
LEMMA OnceStep ==
  ASSUME IInv, Next
  PROVE  LinksWorkOnce'
<1> USE DEF IInv
<1>0. links \in Seq(Links) /\ DOMAIN links = 1..Len(links)
  BY DEF TypeOK
<1>1. Kept /\ Closed
  BY StepKeeps
<1>2. response # 0 => /\ response \in DOMAIN links /\ links[response].exists
                      /\ ~IsOpen(response)
  BY DEF LinksWorkOnce, TypeOK
<1> DEFINE Brings(n) == links[n].kind = "survey" /\ links[n].exists /\ links[n].used
           Answers == /\ \A n \in DOMAIN links : Brings(n) => response = n
                      /\ response # 0 => links[response].exists /\ ~IsOpen(response)
<1>3. Answers
  BY DEF LinksWorkOnce
<1>4. ASSUME UNCHANGED response,
             \A n \in DOMAIN links' : Brings(n)' => n \in DOMAIN links /\ Brings(n),
             \A n \in DOMAIN links : links[n].exists => links'[n].exists
      PROVE  Answers'
  <2>1. \A n \in DOMAIN links' : Brings(n)' => response' = n
    BY <1>3, <1>4
  <2>2. ASSUME response' # 0
        PROVE  links'[response'].exists /\ ~IsOpen(response)'
    <3>1. PICK n \in DOMAIN links : n = response /\ n = response'
      BY <1>2, <1>4, <2>2
    <3>2. links'[n].exists /\ ~IsOpen(n)'
      BY <1>1, <1>2, <1>4, <2>2, <3>1 DEF Closed
    <3> QED
      BY <3>1, <3>2 DEF IsOpen
  <2> QED
    BY <2>1, <2>2
<1>5. Answers'
  <2>1. ASSUME NEW c \in Clerks, NEW kind \in Kinds, SendBegins(c, kind)
        PROVE  Answers'
    <3>1. DOMAIN links' = DOMAIN links /\ UNCHANGED response
      BY <2>1 DEF SendBegins
    <3>2. ASSUME NEW n \in DOMAIN links
          PROVE  /\ links'[n].kind = links[n].kind /\ links'[n].exists = links[n].exists
                 /\ links'[n].used = links[n].used
      <4>1. /\ links[n] \in Links
            /\ links'[n] = links[n] \/ links'[n] = [links[n] EXCEPT !.revoked = TRUE]
        BY <1>0, <2>1 DEF SendBegins
      <4> QED
        BY <4>1 DEF Links
    <3> QED
      BY <1>4, <3>1, <3>2
  <2>2. ASSUME NEW c \in Clerks, SendCreates(c)
        PROVE  Answers'
    <3>1. UNCHANGED response /\ DOMAIN links' = 1..(Len(links) + 1)
      BY <1>0, <2>2 DEF SendCreates
    <3>2. \A n \in DOMAIN links : links'[n] = links[n]
      BY <1>0, <2>2 DEF SendCreates
    <3>3. ~links'[Len(links) + 1].used
      BY <1>0, <2>2 DEF SendCreates
    <3> QED
      BY <1>0, <1>4, <3>1, <3>2, <3>3
  <2>3. ASSUME NEW c \in Clerks, Mails(c)
        PROVE  Answers'
    <3>1. PICK delivered \in BOOLEAN : links' = [links EXCEPT ![desk[c].link].mailed = delivered]
      BY <2>3 DEF Mails
    <3>2. DOMAIN links' = DOMAIN links /\ UNCHANGED response
      BY <2>3, <3>1 DEF Mails
    <3>3. ASSUME NEW n \in DOMAIN links
          PROVE  /\ links'[n].kind = links[n].kind /\ links'[n].exists = links[n].exists
                 /\ links'[n].used = links[n].used
      <4>1. /\ links[n] \in Links
            /\ links'[n] = links[n] \/ links'[n] = [links[n] EXCEPT !.mailed = delivered]
        BY <1>0, <3>1
      <4> QED
        BY <4>1 DEF Links
    <3> QED
      BY <1>4, <3>2, <3>3
  <2>4. ASSUME NEW c \in Clerks, Revokes(c)
        PROVE  Answers'
    <3>1. PICK n \in DOMAIN links : links' = Save(n, FALSE, TRUE)
      BY <2>4 DEF Revokes, LinksAreThere
    <3>2. /\ DOMAIN links' = DOMAIN links /\ links'[n].exists /\ ~links'[n].used
          /\ \A m \in DOMAIN links : m # n => links'[m] = links[m]
      BY <1>0, <3>1, SaveCloses
    <3>3. UNCHANGED response
      BY <2>4 DEF Revokes
    <3> QED
      BY <1>4, <3>2, <3>3
  <2>5. ASSUME NEW g \in Browsers, SubmitSaves(g)
        PROVE  Answers'
    <3>1. PICK n \in DOMAIN links : n = browser[g].link /\ links' = Save(n, TRUE, FALSE)
      BY <2>5 DEF SubmitSaves, LinksAreThere
    <3>2. /\ DOMAIN links' = DOMAIN links /\ links'[n].exists /\ ~IsOpen(n)'
          /\ links'[n].kind = links[n].kind
          /\ \A m \in DOMAIN links : m # n => links'[m] = links[m]
      BY <1>0, <3>1, SaveCloses
    <3>3. CASE links[n].kind = "survey"
      <4>1. response = 0 /\ response' = n
        BY <2>5, <3>1, <3>3 DEF SubmitSaves
      <4>2. \A m \in DOMAIN links' : Brings(m)' => response' = m
        BY <1>0, <1>3, <3>2, <4>1
      <4>3. links'[response'].exists /\ ~IsOpen(response)'
        BY <3>2, <4>1 DEF IsOpen
      <4> QED
        BY <4>2, <4>3
    <3>4. CASE links[n].kind # "survey"
      <4>1. UNCHANGED response
        BY <2>5, <3>1, <3>4 DEF SubmitSaves
      <4> QED
        BY <1>4, <3>2, <3>4, <4>1
    <3> QED
      BY <3>3, <3>4
  <2>6. ASSUME NEW n \in DOMAIN links, Ages(n)
        PROVE  Answers'
    <3>1. PICK life \in {"old", "expired"} : links' = [links EXCEPT ![n].life = life]
      BY <2>6 DEF Ages
    <3>2. DOMAIN links' = DOMAIN links /\ UNCHANGED response
      BY <2>6, <3>1 DEF Ages
    <3>3. ASSUME NEW m \in DOMAIN links
          PROVE  /\ links'[m].kind = links[m].kind /\ links'[m].exists = links[m].exists
                 /\ links'[m].used = links[m].used
      <4>1. /\ links[m] \in Links
            /\ links'[m] = links[m] \/ links'[m] = [links[m] EXCEPT !.life = life]
        BY <1>0, <3>1
      <4> QED
        BY <4>1 DEF Links
    <3> QED
      BY <1>4, <3>2, <3>3
  <2>7. ASSUME Cleanup
        PROVE  Answers'
    <3> DEFINE gone == {n \in DOMAIN links :
                          /\ links[n].kind = "survey" /\ links[n].exists
                          /\ links[n].used \/ links[n].life # "new"}
    <3>1. /\ DOMAIN links' = DOMAIN links
          /\ response' = IF response \in gone THEN 0 ELSE response
      BY <2>7 DEF Cleanup
    <3>2. \A n \in gone : links'[n] = [links[n] EXCEPT !.exists = FALSE] /\ links[n] \in Links
      BY <1>0, <2>7 DEF Cleanup
    <3>3. \A n \in gone : ~links'[n].exists
      BY <3>2 DEF Links
    <3>4. \A n \in DOMAIN links \ gone : links'[n] = links[n] /\ ~Brings(n)
      BY <2>7 DEF Cleanup
    <3>5. \A n \in DOMAIN links' : ~Brings(n)'
      BY <3>1, <3>3, <3>4
    <3>6. ASSUME response' # 0
          PROVE  links'[response'].exists /\ ~IsOpen(response)'
      <4>1. PICK n \in DOMAIN links \ gone : n = response /\ n = response'
        BY <1>2, <3>1, <3>6
      <4>2. links'[n].exists /\ ~IsOpen(n)'
        BY <1>1, <1>2, <3>4, <3>6, <4>1 DEF Closed
      <4> QED
        BY <4>1, <4>2 DEF IsOpen
    <3> QED
      BY <3>5, <3>6
  <2>8. CASE UNCHANGED <<links, response>>
    BY <1>3, <2>8 DEF IsOpen
  <2> QED
    BY <2>1, <2>2, <2>3, <2>4, <2>5, <2>6, <2>7, <2>8
    DEF Next, CutOff, SubmitReads, SubmitFails, CheckOutBooking
<1>6. ASSUME NEW n \in DOMAIN links', NEW later \in DOMAIN links',
             links'[n].kind = links'[later].kind, n <= links'[later].replaces
      PROVE  ~IsOpen(n)'
  <2>1. links' \in Seq(Links) /\ DOMAIN links' = 1..Len(links')
    BY TypeStep DEF TypeOK
  <2>2. links'[later].replaces < later /\ links'[later].replaces \in Nat
    <3>1. links'[later] \in Links
      BY <2>1
    <3> QED
      BY <3>1, ThereStep DEF LinksAreThere, Links
  <2>3. n < later
    BY <1>6, <2>1, <2>2
  <2>4. CASE later \in DOMAIN links
    <3>1. n \in DOMAIN links
      BY <1>0, <2>1, <2>3, <2>4
    <3> QED
      BY <1>1, <1>6, <2>4, <3>1 DEF LinksWorkOnce, Kept, Closed
  <2>5. CASE later \notin DOMAIN links
    <3>1. PICK c \in Clerks : SendCreates(c)
      <4>1. DOMAIN links' # DOMAIN links
        BY <1>6, <2>5
      <4>2. ASSUME NEW k \in DOMAIN links, NEW used \in BOOLEAN, NEW revoked \in BOOLEAN
            PROVE  links' # Save(k, used, revoked)
        BY <4>1 DEF Save
      <4> QED
        BY <4>1, <4>2
        DEF Next, SendBegins, Mails, Revokes, CutOff, SubmitReads, SubmitSaves, SubmitFails,
            Ages, CheckOutBooking, Cleanup, LinksAreThere
    <3>2. /\ later = Len(links) + 1
          /\ links'[later].replaces = desk[c].replaces /\ links'[later].kind = desk[c].kind
      BY <1>0, <1>6, <2>5, <3>1 DEF SendCreates
    <3>3. n \in DOMAIN links
      BY <1>0, <2>1, <2>3, <3>2
    <3>4. ~IsOpen(n)
      BY <1>1, <1>6, <3>1, <3>2, <3>3 DEF SendCreates, ReplacedAreClosed, Kept
    <3> QED
      BY <1>1, <3>3, <3>4 DEF Closed
  <2> QED
    BY <2>4, <2>5
<1> QED
  BY <1>5, <1>6 DEF LinksWorkOnce

-----------------------------------------------------------------------------
(* Theorems *)

\* The inductive invariant holds of every reachable state.
THEOREM LinksInvariant == Spec => []IInv
<1>1. ASSUME Init
      PROVE  IInv
  <2>1. links = <<>> /\ links \in Seq(Links) /\ DOMAIN links = {}
    BY <1>1 DEF Init
  <2>2. TypeOK
    BY <1>1, <2>1 DEF Init, TypeOK
  <2>3. LinksWorkOnce
    BY <1>1, <2>1 DEF Init, LinksWorkOnce
  <2> QED
    BY <1>1, <2>1, <2>2, <2>3 DEF Init, IInv, ReplacedAreClosed, LinksAreThere
<1>2. IInv /\ [Next]_vars => IInv'
  <2>1. ASSUME IInv, Next
        PROVE  IInv'
    BY <2>1, TypeStep, OnceStep, ReplacedStep, ThereStep DEF IInv
  <2>2. ASSUME IInv, UNCHANGED vars
        PROVE  IInv'
    BY <2>2 DEF vars, IInv, TypeOK, LinksWorkOnce, ReplacedAreClosed, LinksAreThere, IsOpen
  <2> QED
    BY <2>1, <2>2
<1> QED
  BY <1>1, <1>2, PTL DEF Spec

\* Links, responses and requests are what the models say.
THEOREM TypeCorrect == Spec => []TypeOK
<1>1. IInv => TypeOK
  BY DEF IInv
<1> QED
  BY <1>1, LinksInvariant, PTL

\* A survey link brings one response at most, and a link is closed to those
\* that were there when it was asked for (SendSurveyLinkView, SubmitSurveyDataView).
THEOREM LinksAreOneTime == Spec => []LinksWorkOnce
<1>1. IInv => LinksWorkOnce
  BY DEF IInv
<1> QED
  BY <1>1, LinksInvariant, PTL

\* No stale row that is saved opens a link again (token.save()).
THEOREM NoLinkReopens == Spec => ClosedLinksStayClosed
<1>1. IInv /\ [Next]_vars => [\A n \in DOMAIN links : ~IsOpen(n) => ~IsOpen(n)']_vars
  BY StepKeeps DEF Closed
<1> QED
  BY <1>1, LinksInvariant, PTL DEF Spec, ClosedLinksStayClosed

=============================================================================
