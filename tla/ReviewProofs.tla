----------------------------- MODULE ReviewProofs -----------------------------
(***************************************************************************)
(* Theorems about ReviewReplies and ConnectImport, for all reviews,        *)
(* sessions, importers and bounds.                                         *)
(***************************************************************************)
EXTENDS ConnectImport, FiniteSetTheorems, WellFoundedInduction, TLAPS

-----------------------------------------------------------------------------
(* The inductive invariant of ReviewReplies                                *)

\* Every version and every answer at Google is one of the changes.
AtGoogle ==
    /\ review \in [Reviews -> Nat]
    /\ reply \in [Reviews -> [by : {"nobody", "owner", "us"}, n : Nat]]
    /\ changes \in 0..MaxChanges
    /\ \A r \in Reviews : review[r] <= changes /\ (reply[r].n = 0 <=> reply[r].by = "nobody")

\* What is on file was at Google.
WasAtGoogle(r, row) == row.about <= review[r] /\ row.id <= reply[r].n
RowsTyped ==
    /\ rows \in [Reviews -> Seq(Row)]
    /\ \A r \in Reviews : \A i \in 1..Len(rows[r]) : WasAtGoogle(r, rows[r][i])

InsightTyped ==
    /\ insight \in [Reviews -> [about : Nat, edited : BOOLEAN, dismissed : BOOLEAN]]
    /\ told \in [Reviews -> Nat]
    /\ \A r \in Reviews : told[r] <= review[r] /\ insight[r].about <= review[r]

\* So was what was listed to a poll or sent by a client.
ListingTyped ==
    /\ listing \in [Sessions -> [Reviews -> Listed]]
    /\ \A s \in Sessions, r \in Reviews :
          /\ listing[s][r].about <= review[r] /\ listing[s][r].n <= reply[r].n
          /\ listing[s][r].n = 0 <=> listing[s][r].by = "nobody"

PcTyped ==
    /\ pc \in [Sessions -> {"idle", "sent"} \cup Waiting \cup Drafting \cup Posting]
    /\ cur \in [Sessions -> Reviews \cup {NoReview}]
    /\ \A s \in Sessions : (cur[s] = NoReview) <=> pc[s] \in {"idle"} \cup Waiting

\* A poll's text is never the row of a request.
HandTyped ==
    /\ hand \in [Sessions -> Texts \cup {"row"}]
    /\ \A w \in Pollers : hand[w] # "row"

AtTyped ==
    /\ at \in [Sessions -> Nat]
    /\ \A s \in Sessions :
          at[s] # 0 => cur[s] \in Reviews /\ at[s] <= Len(rows[cur[s]])

PollTyped ==
    /\ news \subseteq Reviews /\ lease \in {"free", "held", "past"} /\ backoff \in BOOLEAN
    /\ cut \in [Pollers -> SUBSET Reviews] /\ todo \in [Pollers -> SUBSET Reviews]
    /\ passed \subseteq Reviews
    /\ looked \in [Reviews -> [about : 0..MaxChanges, n : Nat]]
    /\ orders \in 0..MaxOrders /\ faults \in 0..MaxFaults

\* A poll writes to a review that Google listed without an answer.
NewIsUnanswered == \A w \in Pollers : pc[w] = "new" => listing[w][cur[w]].n = 0

RInv ==
    /\ AtGoogle /\ RowsTyped /\ InsightTyped /\ ListingTyped
    /\ PcTyped /\ HandTyped /\ AtTyped /\ PollTyped /\ NewIsUnanswered

\* Nothing at Google and nothing on file gets less.
Grows == \A r \in Reviews : review[r] <= review'[r] /\ reply[r].n <= reply'[r].n
RowsGrow == \A r \in Reviews : Len(rows[r]) <= Len(rows'[r])

-----------------------------------------------------------------------------
(* Numbers and rows                                                        *)

Smaller == {p \in Nat \X Nat : p[1] < p[2]}

LEMMA Least ==
    ASSUME NEW T \in SUBSET Nat, T # {}
    PROVE  \E x \in T : \A y \in T : x <= y
  <1>1. IsWellFoundedOn(Smaller, Nat)
    BY NatLessThanWellFounded DEF OpToRel, Smaller
  <1>2. \E x \in T : \A y \in T : ~ (<<y, x>> \in Smaller)
    BY <1>1, WFMin, Zenon
  <1>3. ASSUME NEW x \in Nat, NEW y \in Nat, ~ (<<y, x>> \in Smaller)
        PROVE x <= y
     BY <1>3 DEF Smaller
  <1>. QED
    BY <1>2, <1>3

LEMMA MaxOfTwo ==
    ASSUME NEW a \in Nat, NEW b \in Nat
    PROVE  Max({a, b}) \in {a, b}
  <1>1. \E x \in {a, b} : \A y \in {a, b} : x >= y
    OBVIOUS
  <1>. QED
    BY <1>1 DEF Max

\* The latest of some rows is one of them.
LEMMA LatestIsOne ==
    ASSUME NEW n \in Nat, NEW is \in SUBSET (1..n)
    PROVE  /\ Latest(is) \in 0..n
           /\ is # {} => Latest(is) \in is
           /\ is = {} <=> Latest(is) = 0
  <1>1. CASE is = {}
    BY <1>1 DEF Latest
  <1>2. CASE is # {}
    <2>. DEFINE above == {b \in Nat : \A x \in is : x <= b}
    <2>1. n \in above /\ above \in SUBSET Nat
      OBVIOUS
    <2>. HIDE DEF above
    <2>2. PICK b \in above : \A c \in above : b <= c
      BY <2>1, Least
    <2>. USE DEF above
    <2>3. b \in is
      <3>. SUFFICES ASSUME b \notin is PROVE FALSE
        OBVIOUS
      <3>1. \A x \in is : x < b /\ x > 0
        BY <2>2
      <3>2. b > 0
        <4>1. PICK x \in is : TRUE
          BY <1>2
        <4>. QED
          BY <2>2, <3>1, <4>1
      <3>3. b - 1 \in Nat /\ \A x \in is : x <= b - 1
        BY <2>2, <3>1, <3>2
      <3>. QED
        BY <2>2, <3>3
    <2>4. \E x \in is : \A y \in is : x >= y
      BY <2>2, <2>3
    <2>5. Max(is) \in is
      BY <2>4 DEF Max
    <2>6. PICK m \in is : Latest(is) = m
      BY <1>2, <2>5 DEF Latest
    <2>7. m \in 1..n
      OBVIOUS
    <2>. QED
      BY <1>2, <2>6, <2>7
  <1>. QED
    BY <1>1, <1>2

LEMMA RowChanges ==
    ASSUME NEW row \in Row
    PROVE  /\ \A s \in Statuses :
                /\ [row EXCEPT !.status = s] \in Row
                /\ [row EXCEPT !.status = s].about = row.about
                /\ [row EXCEPT !.status = s].id = row.id
           /\ \A t \in Texts :
                /\ [row EXCEPT !.text = t] \in Row
                /\ [row EXCEPT !.text = t].about = row.about
                /\ [row EXCEPT !.text = t].id = row.id
  BY DEF Row

LEMMA MappedRows ==
    ASSUME NEW q \in Seq(Row), NEW g, g = [j \in DOMAIN q |-> g[j]],
           \A j \in 1..Len(q) : g[j] \in Row
    PROVE  g \in Seq(Row) /\ Len(g) = Len(q)
  <1>1. DOMAIN q = 1..Len(q) /\ Len(q) \in Nat
    OBVIOUS
  <1>2. g = [j \in 1..Len(q) |-> g[j]]
    BY <1>1
  <1>3. g \in [1..Len(q) -> Row]
    BY <1>2
  <1>. QED
    BY <1>1, <1>3

\* One review's rows are replaced.
LEMMA RowsReplaced ==
    ASSUME RowsTyped, AtGoogle, AtGoogle', Grows, NEW r \in Reviews, NEW new \in Seq(Row),
           Len(rows[r]) <= Len(new), \A i \in 1..Len(new) : WasAtGoogle(r, new[i])',
           rows' = [rows EXCEPT ![r] = new]
    PROVE  RowsTyped' /\ RowsGrow
  <1>1. rows' \in [Reviews -> Seq(Row)] /\ rows'[r] = new /\ \A q \in Reviews \ {r} : rows'[q] = rows[q]
    BY DEF RowsTyped
  <1>2. ASSUME NEW q \in Reviews, NEW i \in 1..Len(rows'[q]) PROVE WasAtGoogle(q, rows[q][i])'
    <2>1. CASE q = r
      BY <1>1, <1>2, <2>1
    <2>2. CASE q # r
      <3>1. rows[q][i] \in Row /\ WasAtGoogle(q, rows[q][i]) /\ rows'[q] = rows[q]
        BY <1>1, <1>2, <2>2 DEF RowsTyped
      <3>2. /\ rows[q][i].about \in Nat /\ rows[q][i].id \in Nat
            /\ review[q] \in Nat /\ review'[q] \in Nat /\ reply[q].n \in Nat /\ reply'[q].n \in Nat
        BY <3>1 DEF AtGoogle, Row
      <3>. QED
        BY <3>1, <3>2 DEF WasAtGoogle, Grows
    <2>. QED
      BY <2>1, <2>2
  <1>3. RowsGrow
    <2>. SUFFICES ASSUME NEW q \in Reviews PROVE Len(rows[q]) <= Len(rows'[q])
      BY DEF RowsGrow
    <2>1. rows[q] \in Seq(Row)
      BY DEF RowsTyped
    <2>. QED
      BY <1>1, <2>1
  <1>4. \A q \in Reviews : \A i \in 1..Len(rows'[q]) : WasAtGoogle(q, rows[q][i])'
    BY <1>2
  <1>. QED
    BY <1>1, <1>3, <1>4 DEF RowsTyped

\* One review's rows keep what they are about.
LEMMA RowsMapped ==
    ASSUME RowsTyped, AtGoogle, AtGoogle', Grows, NEW r \in Reviews, NEW new,
           new = [j \in DOMAIN rows[r] |-> new[j]],
           \A j \in 1..Len(rows[r]) :
              /\ new[j] \in Row
              /\ new[j].about = rows[r][j].about /\ new[j].id = rows[r][j].id,
           rows' = [rows EXCEPT ![r] = new]
    PROVE  RowsTyped' /\ RowsGrow
  <1>1. rows[r] \in Seq(Row)
    BY DEF RowsTyped
  <1>2. new \in Seq(Row) /\ Len(new) = Len(rows[r])
    BY <1>1, MappedRows
  <1>3. ASSUME NEW j \in 1..Len(new) PROVE WasAtGoogle(r, new[j])'
    <2>1. /\ rows[r][j] \in Row /\ WasAtGoogle(r, rows[r][j])
          /\ new[j].about = rows[r][j].about /\ new[j].id = rows[r][j].id
      BY <1>1, <1>2 DEF RowsTyped
    <2>2. /\ rows[r][j].about \in Nat /\ rows[r][j].id \in Nat
          /\ review[r] \in Nat /\ review'[r] \in Nat /\ reply[r].n \in Nat /\ reply'[r].n \in Nat
      BY <2>1 DEF AtGoogle, Row
    <2>. QED
      BY <2>1, <2>2 DEF WasAtGoogle, Grows
  <1>4. Len(rows[r]) <= Len(new)
    BY <1>1, <1>2
  <1>. QED
    BY <1>2, <1>3, <1>4, RowsReplaced

LEMMA RowAdded ==
    ASSUME RowsTyped, AtGoogle, AtGoogle', Grows, NEW r \in Reviews, NEW status \in Statuses,
           NEW about \in Nat, about <= review[r], NEW text \in Texts, AddRow(r, status, about, text)
    PROVE  RowsTyped' /\ RowsGrow
  <1>1. PICK row : row = [status |-> status, about |-> about, text |-> text, id |-> 0]
    OBVIOUS
  <1>2. row \in Row /\ row.about = about /\ row.id = 0
    BY <1>1 DEF Row
  <1>3. rows[r] \in Seq(Row)
    BY DEF RowsTyped
  <1>4. PICK new : new = Append(rows[r], row)
    OBVIOUS
  <1>5. /\ new \in Seq(Row) /\ Len(new) = Len(rows[r]) + 1
        /\ \A j \in 1..Len(new) : new[j] = IF j <= Len(rows[r]) THEN rows[r][j] ELSE row
    BY <1>2, <1>3, <1>4
  <1>6. rows' = [rows EXCEPT ![r] = new]
    BY <1>1, <1>4 DEF AddRow
  <1>7. ASSUME NEW j \in 1..Len(new) PROVE WasAtGoogle(r, new[j])'
    <2>0. review[r] \in Nat /\ review'[r] \in Nat /\ reply[r].n \in Nat /\ reply'[r].n \in Nat
      BY DEF AtGoogle
    <2>1. CASE j <= Len(rows[r])
      <3>1. j \in 1..Len(rows[r]) /\ new[j] = rows[r][j]
        BY <1>3, <1>5, <1>7, <2>1
      <3>2. rows[r][j] \in Row /\ WasAtGoogle(r, rows[r][j])
        BY <1>3, <3>1 DEF RowsTyped
      <3>3. rows[r][j].about \in Nat /\ rows[r][j].id \in Nat
        BY <3>2 DEF Row
      <3>. QED
        BY <2>0, <3>1, <3>2, <3>3 DEF WasAtGoogle, Grows
    <2>2. CASE ~ (j <= Len(rows[r]))
      BY <1>2, <1>5, <1>7, <2>0, <2>2 DEF WasAtGoogle, Grows
    <2>. QED
      BY <2>1, <2>2
  <1>8. Len(rows[r]) <= Len(new)
    BY <1>3, <1>5
  <1>. QED
    BY <1>5, <1>6, <1>7, <1>8, RowsReplaced

LEMMA StatusesSet ==
    ASSUME RowsTyped, AtGoogle, AtGoogle', Grows, NEW r \in Reviews, NEW is,
           NEW status \in Statuses, SetStatus(r, is, status)
    PROVE  RowsTyped' /\ RowsGrow
  <1>1. rows[r] \in Seq(Row)
    BY DEF RowsTyped
  <1>2. PICK new : new = [i \in DOMAIN rows[r] |->
           IF i \in is THEN [rows[r][i] EXCEPT !.status = status] ELSE rows[r][i]]
    OBVIOUS
  <1>3. rows' = [rows EXCEPT ![r] = new]
    BY <1>2 DEF SetStatus
  <1>4. ASSUME NEW j \in 1..Len(rows[r])
        PROVE  /\ new[j] \in Row
               /\ new[j].about = rows[r][j].about /\ new[j].id = rows[r][j].id
    <2>1. rows[r][j] \in Row /\ j \in DOMAIN rows[r]
      BY <1>1
    <2>. QED
      BY <1>2, <2>1, RowChanges
  <1>5. new = [j \in DOMAIN rows[r] |-> new[j]]
    BY <1>2
  <1>. QED
    BY <1>3, <1>4, <1>5, RowsMapped

-----------------------------------------------------------------------------
(* The steps                                                               *)

\* A session that writes, posts or sends has a review.
LEMMA Busy ==
    ASSUME PcTyped
    PROVE  /\ \A s \in Sessions : pc[s] \notin {"idle", "loaded", "claimed", "reading"}
                                     => cur[s] \in Reviews
           /\ Pollers \subseteq Sessions /\ Clerks \subseteq Sessions
  BY DEF PcTyped, Waiting, Sessions

LEMMA SameGoogle ==
    ASSUME AtGoogle, UNCHANGED <<review, reply>>, changes' = changes
    PROVE  AtGoogle' /\ Grows
  <1>1. \A r \in Reviews : review[r] \in Nat /\ reply[r].n \in Nat
    BY DEF AtGoogle
  <1>. QED
    BY <1>1 DEF AtGoogle, Grows

LEMMA ReplyGrows ==
    ASSUME AtGoogle, NEW r \in Reviews, NEW by \in {"owner", "us"},
           reply' = [reply EXCEPT ![r] = [by |-> by, n |-> @.n + 1]],
           UNCHANGED review, changes' \in {changes, changes + 1}, changes' <= MaxChanges
    PROVE  AtGoogle' /\ Grows
  <1>0. MaxChanges \in Nat /\ changes \in Nat
    BY ConstantsAssumption DEF AtGoogle
  <1>1. \A q \in Reviews : review[q] \in Nat /\ reply[q].n \in Nat /\ review[q] <= changes
    BY DEF AtGoogle
  <1>2. PICK new : new = [by |-> by, n |-> reply[r].n + 1]
    OBVIOUS
  <1>3. new \in [by : {"nobody", "owner", "us"}, n : Nat] /\ new.n > 0 /\ new.by # "nobody"
        /\ new.n = reply[r].n + 1
    BY <1>1, <1>2
  <1>4. reply' = [reply EXCEPT ![r] = new]
    BY <1>2
  <1>5. \A q \in Reviews : reply'[q] = IF q = r THEN new ELSE reply[q]
    BY <1>4 DEF AtGoogle
  <1>6. reply' \in [Reviews -> [by : {"nobody", "owner", "us"}, n : Nat]]
    BY <1>3, <1>4 DEF AtGoogle
  <1>7. \A q \in Reviews : reply'[q].n = 0 <=> reply'[q].by = "nobody"
    BY <1>3, <1>5 DEF AtGoogle
  <1>8. \A q \in Reviews : review'[q] <= changes'
    BY <1>0, <1>1
  <1>9. changes' \in 0..MaxChanges
    BY <1>0
  <1>10. Grows
    BY <1>1, <1>3, <1>5 DEF Grows
  <1>. QED
    BY <1>6, <1>7, <1>8, <1>9, <1>10 DEF AtGoogle

LEMMA GoogleStep ==
    ASSUME AtGoogle, PcTyped, [RepliesNext]_vars
    PROVE  AtGoogle' /\ Grows
  <1>. USE DEF google, files, polling, pollers, places, ghosts, bounds
  <1>1. ASSUME NEW w \in Pollers, PollPosts(w) PROVE AtGoogle' /\ Grows
    <2>1. cur[w] \in Reviews /\ changes \in 0..MaxChanges
      BY <1>1, Busy DEF PollPosts, PollDrafting, AtGoogle
    <2>2. changes <= MaxChanges
      BY <2>1, ConstantsAssumption
    <2>. QED
      BY <1>1, <2>1, <2>2, ReplyGrows DEF PollPosts, Shown
  <1>2. ASSUME NEW m \in Clerks, ApprovePosts(m) PROVE AtGoogle' /\ Grows
    <2>1. cur[m] \in Reviews /\ changes \in 0..MaxChanges
      BY <1>2, Busy DEF ApprovePosts, AtGoogle
    <2>2. changes <= MaxChanges
      BY <2>1, ConstantsAssumption
    <2>. QED
      BY <1>2, <2>1, <2>2, ReplyGrows DEF ApprovePosts, Shown
  <1>3. ASSUME NEW r \in Reviews, OwnerReplies(r) PROVE AtGoogle' /\ Grows
    <2>1. changes' = changes + 1 /\ changes' <= MaxChanges
      BY <1>3, ConstantsAssumption DEF OwnerReplies, AtGoogle
    <2>. QED
      BY <1>3, <2>1, ReplyGrows DEF OwnerReplies
  <1>4. ASSUME NEW r \in Reviews, ReviewerWrites(r) PROVE AtGoogle' /\ Grows
    <2>1. MaxChanges \in Nat /\ changes \in Nat /\ changes' = changes + 1 /\ changes' <= MaxChanges
      BY <1>4, ConstantsAssumption DEF ReviewerWrites, AtGoogle
    <2>2. \A q \in Reviews : review[q] \in Nat /\ review[q] <= changes /\ reply[q].n \in Nat
      BY DEF AtGoogle
    <2>3. /\ review' \in [Reviews -> Nat] /\ reply' = reply
          /\ \A q \in Reviews : review'[q] = IF q = r THEN review[q] + 1 ELSE review[q]
      BY <1>4, <2>2 DEF ReviewerWrites, AtGoogle
    <2>4. Grows
      BY <2>2, <2>3 DEF Grows
    <2>5. \A q \in Reviews : review'[q] <= changes'
      BY <2>1, <2>2, <2>3
    <2>6. changes' \in 0..MaxChanges
      BY <2>1
    <2>. QED
      BY <2>3, <2>4, <2>5, <2>6 DEF AtGoogle
  <1>5. CASE UNCHANGED <<review, reply, changes>>
    BY <1>5, SameGoogle
  <1>6. ASSUME NEW w \in Pollers, PollStep(w) PROVE AtGoogle' /\ Grows
    BY <1>1, <1>5, <1>6
    DEF PollStep, Load, Claim, SkipBackedOff, List, Adopt, LeaveAlone, DraftReply,
        FollowEdit, Begin, QueueDraft, PollRecords, PollEnds
  <1>7. ASSUME NEW m \in Clerks, RequestStep(m) \/ Ask(m) PROVE AtGoogle' /\ Grows
    <2>1. CASE RequestStep(m)
      BY <1>2, <1>5, <2>1 DEF RequestStep, ApproveRecords, Composed
    <2>2. ASSUME NEW r \in Reviews, DismissEdit(m, r) PROVE AtGoogle' /\ Grows
      BY <1>5, <2>2 DEF DismissEdit
    <2>3. ASSUME NEW r \in Reviews, NEW i,
                 Approve(m, r, i) \/ WriteReply(m, r, i) \/ AskDraft(m, r, i) \/ AskAnother(m, r, i)
          PROVE  AtGoogle' /\ Grows
      BY <1>5, <2>3 DEF Approve, WriteReply, AskDraft, AskAnother
    <2>4. ASSUME NEW r \in Reviews, NEW i, Retry(m, r, i) \/ Edit(m, r, i) \/ Reject(m, r, i)
          PROVE  AtGoogle' /\ Grows
      BY <1>5, <2>4 DEF Retry, Edit, Reject
    <2>. QED
      BY <1>7, <2>1, <2>2, <2>3, <2>4 DEF Ask
  <1>8. CASE Mishap
    BY <1>5, <1>8
    DEF Mishap, ListFails, DraftFails, PollIsRefused, PollBreaks, Crash, ApproveIsRefused,
        ApproveBreaks, ComposingFails
  <1>9. CASE Abroad \/ LeaseLapses \/ BackoffEnds
    BY <1>3, <1>4, <1>5, <1>9 DEF Abroad, Analyse, LeaseLapses, BackoffEnds
  <1>10. CASE UNCHANGED vars
    BY <1>5, <1>10 DEF vars
  <1>. QED
    BY <1>6, <1>7, <1>8, <1>9, <1>10 DEF RepliesNext

-----------------------------------------------------------------------------
(* Rows                                                                    *)

LEMMA SameRows ==
    ASSUME RowsTyped, AtGoogle, AtGoogle', Grows, UNCHANGED rows
    PROVE  RowsTyped' /\ RowsGrow
  <1>1. ASSUME NEW r \in Reviews, NEW i \in 1..Len(rows[r]) PROVE WasAtGoogle(r, rows[r][i])'
    <2>1. rows[r][i] \in Row /\ WasAtGoogle(r, rows[r][i]) /\ rows' = rows
      BY DEF RowsTyped
    <2>2. /\ rows[r][i].about \in Nat /\ rows[r][i].id \in Nat
          /\ review[r] \in Nat /\ review'[r] \in Nat /\ reply[r].n \in Nat /\ reply'[r].n \in Nat
      BY <2>1 DEF AtGoogle, Row
    <2>. QED
      BY <2>1, <2>2 DEF WasAtGoogle, Grows
  <1>2. \A r \in Reviews : Len(rows[r]) \in Nat
    BY DEF RowsTyped
  <1>. QED
    BY <1>1, <1>2 DEF RowsTyped, RowsGrow

LEMMA RowsShown ==
    ASSUME RowsTyped, AtGoogle, AtGoogle', Grows, NEW r \in Reviews, NEW by, NEW s, NEW i,
           Shown(r, by, s, i)
    PROVE  RowsTyped' /\ RowsGrow
  <1>1. rows[r] \in Seq(Row)
    BY DEF RowsTyped
  <1>2. PICK new : new = [j \in DOMAIN rows[r] |->
           IF j = i THEN [rows[r][j] EXCEPT !.text = "live"]
           ELSE IF rows[r][j].text = "live" THEN [rows[r][j] EXCEPT !.text = "draft"]
           ELSE rows[r][j]]
    OBVIOUS
  <1>3. rows' = [rows EXCEPT ![r] = new]
    BY <1>2 DEF Shown
  <1>4. ASSUME NEW j \in 1..Len(rows[r])
        PROVE  /\ new[j] \in Row
               /\ new[j].about = rows[r][j].about /\ new[j].id = rows[r][j].id
    <2>1. rows[r][j] \in Row /\ j \in DOMAIN rows[r] /\ {"live", "draft"} \subseteq Texts
      BY <1>1 DEF Texts
    <2>. QED
      BY <1>2, <2>1, RowChanges
  <1>5. new = [j \in DOMAIN rows[r] |-> new[j]]
    BY <1>2
  <1>. QED
    BY <1>3, <1>4, <1>5, RowsMapped

LEMMA RowsAnswered ==
    ASSUME RowsTyped, AtGoogle, AtGoogle', Grows, NEW r \in Reviews, OwnerReplies(r)
    PROVE  RowsTyped' /\ RowsGrow
  <1>1. rows[r] \in Seq(Row)
    BY DEF RowsTyped
  <1>2. PICK new : new = [j \in DOMAIN rows[r] |->
           IF rows[r][j].text = "live" THEN [rows[r][j] EXCEPT !.text = "draft"]
           ELSE rows[r][j]]
    OBVIOUS
  <1>3. rows' = [rows EXCEPT ![r] = new]
    BY <1>2 DEF OwnerReplies
  <1>4. ASSUME NEW j \in 1..Len(rows[r])
        PROVE  /\ new[j] \in Row
               /\ new[j].about = rows[r][j].about /\ new[j].id = rows[r][j].id
    <2>1. rows[r][j] \in Row /\ j \in DOMAIN rows[r] /\ {"live", "draft"} \subseteq Texts
      BY <1>1 DEF Texts
    <2>. QED
      BY <1>2, <2>1, RowChanges
  <1>5. new = [j \in DOMAIN rows[r] |-> new[j]]
    BY <1>2
  <1>. QED
    BY <1>3, <1>4, <1>5, RowsMapped

\* Adopting what was listed.
LEMMA RowsAdopted ==
    ASSUME RowsTyped, AtGoogle, NEW r \in Reviews, NEW l \in Listed,
           l.about <= review[r], l.n <= reply[r].n
    PROVE  /\ Adopted(r, l) \in Seq(Row) /\ Len(rows[r]) <= Len(Adopted(r, l))
           /\ \A i \in 1..Len(Adopted(r, l)) : WasAtGoogle(r, Adopted(r, l)[i])
  <1>1. rows[r] \in Seq(Row) /\ \A j \in 1..Len(rows[r]) : WasAtGoogle(r, rows[r][j])
    BY DEF RowsTyped
  <1>2. PICK row : row = [status |-> "posted", about |-> l.about, id |-> l.n,
                          text |-> IF l.n = reply[r].n THEN "live" ELSE "draft"]
    OBVIOUS
  <1>3. row \in Row /\ WasAtGoogle(r, row)
    BY <1>2 DEF Row, Statuses, Texts, Listed, WasAtGoogle
  <1>4. CASE Latest(Indices(r)) = 0
    <2>1. Adopted(r, l) = Append(rows[r], row)
      BY <1>2, <1>4 DEF Adopted
    <2>2. PICK new : new = Append(rows[r], row)
      OBVIOUS
    <2>3. /\ new \in Seq(Row) /\ Len(new) = Len(rows[r]) + 1
          /\ \A j \in 1..Len(new) : new[j] = IF j <= Len(rows[r]) THEN rows[r][j] ELSE row
      BY <1>1, <1>3, <2>2
    <2>4. Len(rows[r]) \in Nat
      BY <1>1
    <2>5. \A j \in 1..Len(new) : WasAtGoogle(r, new[j])
      BY <1>1, <1>3, <2>3, <2>4
    <2>. QED
      BY <2>1, <2>2, <2>3, <2>4, <2>5
  <1>5. CASE Latest(Indices(r)) # 0
    <2>1. PICK new : new = [j \in DOMAIN rows[r] |->
                       IF j = Latest(Indices(r)) THEN row
                       ELSE IF rows[r][j].status \in {"pending", "failed"}
                            THEN [rows[r][j] EXCEPT !.status = "rejected"]
                       ELSE rows[r][j]]
      OBVIOUS
    <2>2. Adopted(r, l) = new
      BY <1>2, <1>5, <2>1 DEF Adopted
    <2>3. ASSUME NEW j \in 1..Len(rows[r]) PROVE new[j] \in Row /\ WasAtGoogle(r, new[j])
      <3>1. rows[r][j] \in Row /\ j \in DOMAIN rows[r] /\ "rejected" \in Statuses
        BY <1>1 DEF Statuses
      <3>. QED
        BY <1>1, <1>3, <2>1, <3>1, RowChanges DEF WasAtGoogle
    <2>4. new \in Seq(Row) /\ Len(new) = Len(rows[r])
      BY <1>1, <2>1, <2>3, MappedRows
    <2>5. Len(rows[r]) \in Nat
      BY <1>1
    <2>. QED
      BY <2>2, <2>3, <2>4, <2>5
  <1>. QED
    BY <1>4, <1>5

LEMMA RowRewritten ==
    ASSUME RowsTyped, AtGoogle, AtGoogle', Grows, NEW r \in Reviews, NEW i \in 1..Len(rows[r]),
           NEW status \in Statuses,
           rows' = [rows EXCEPT ![r][i].text = "draft", ![r][i].status = status]
    PROVE  RowsTyped' /\ RowsGrow
  <1>1. rows[r] \in Seq(Row) /\ rows \in [Reviews -> Seq(Row)]
    BY DEF RowsTyped
  <1>2. PICK row : row = [[rows[r][i] EXCEPT !.text = "draft"] EXCEPT !.status = status]
    OBVIOUS
  <1>3. rows[r][i] \in Row /\ "draft" \in Texts
    BY <1>1 DEF Texts
  <1>4. row \in Row /\ row.about = rows[r][i].about /\ row.id = rows[r][i].id
    <2>1. PICK rewritten : rewritten = [rows[r][i] EXCEPT !.text = "draft"]
      OBVIOUS
    <2>2. /\ rewritten \in Row
          /\ rewritten.about = rows[r][i].about /\ rewritten.id = rows[r][i].id
      BY <1>3, <2>1, RowChanges
    <2>3. row = [rewritten EXCEPT !.status = status]
      BY <1>2, <2>1
    <2>4. row \in Row /\ row.about = rewritten.about /\ row.id = rewritten.id
      BY <2>2, <2>3, RowChanges
    <2>. QED
      BY <2>2, <2>4
  <1>5. PICK new : new = [rows[r] EXCEPT ![i] = row]
    OBVIOUS
  <1>6. rows' = [rows EXCEPT ![r] = new]
    BY <1>1, <1>2, <1>5
  <1>7. new = [j \in DOMAIN rows[r] |-> new[j]]
    BY <1>1, <1>5
  <1>8. ASSUME NEW j \in 1..Len(rows[r])
        PROVE  /\ new[j] \in Row
               /\ new[j].about = rows[r][j].about /\ new[j].id = rows[r][j].id
    <2>1. rows[r][j] \in Row /\ j \in DOMAIN rows[r]
      BY <1>1
    <2>. QED
      BY <1>4, <1>5, <2>1
  <1>. QED
    BY <1>6, <1>7, <1>8, RowsMapped

\* A client is shown a version that was at Google.
LEMMA ClientsVersion ==
    ASSUME RowsTyped, InsightTyped, NEW r \in Reviews, Visible(r)
    PROVE  ShownToClient(r) \in Nat /\ ShownToClient(r) <= review[r]
  <1>1. CASE insight[r].about # 0
    BY <1>1 DEF ShownToClient, InsightTyped
  <1>2. CASE insight[r].about = 0
    <2>1. rows[r] \in Seq(Row) /\ rows[r] # <<>>
      BY <1>2 DEF Visible, RowsTyped
    <2>2. Len(rows[r]) \in 1..Len(rows[r])
      BY <2>1
    <2>3. rows[r][Len(rows[r])] \in Row /\ WasAtGoogle(r, rows[r][Len(rows[r])])
      BY <2>1, <2>2 DEF RowsTyped
    <2>. QED
      BY <1>2, <2>3 DEF ShownToClient, WasAtGoogle, Row
  <1>. QED
    BY <1>1, <1>2

LEMMA ReplyWritten ==
    ASSUME RowsTyped, InsightTyped, AtGoogle, AtGoogle', Grows, NEW m, NEW r \in Reviews, NEW i,
           WriteReply(m, r, i)
    PROVE  RowsTyped' /\ RowsGrow
  <1>1. rows[r] \in Seq(Row) /\ \A j \in 1..Len(rows[r]) : WasAtGoogle(r, rows[r][j])
    BY DEF RowsTyped
  <1>2. PICK old : old = [j \in DOMAIN rows[r] |->
                     IF j = i THEN [rows[r][j] EXCEPT !.status = "deleted"] ELSE rows[r][j]]
    OBVIOUS
  <1>3. ASSUME NEW j \in 1..Len(rows[r]) PROVE old[j] \in Row /\ WasAtGoogle(r, old[j])
    <2>1. rows[r][j] \in Row /\ j \in DOMAIN rows[r] /\ "deleted" \in Statuses
      BY <1>1 DEF Statuses
    <2>. QED
      BY <1>1, <1>2, <2>1, RowChanges DEF WasAtGoogle
  <1>4. old \in Seq(Row) /\ Len(old) = Len(rows[r])
    BY <1>1, <1>2, <1>3, MappedRows
  <1>5. PICK row : row = [status |-> "pending", about |-> ShownToClient(r), text |-> "draft", id |-> 0]
    OBVIOUS
  <1>6. ShownToClient(r) \in Nat /\ ShownToClient(r) <= review[r] /\ reply[r].n \in Nat
    BY ClientsVersion DEF WriteReply, AtGoogle
  <1>7. row \in Row /\ WasAtGoogle(r, row)
    BY <1>5, <1>6 DEF Row, Statuses, Texts, WasAtGoogle
  <1>8. PICK new : new = Append(old, row)
    OBVIOUS
  <1>9. /\ new \in Seq(Row) /\ Len(new) = Len(rows[r]) + 1
        /\ \A j \in 1..Len(new) : new[j] = IF j <= Len(rows[r]) THEN old[j] ELSE row
    BY <1>4, <1>7, <1>8
  <1>10. rows' = [rows EXCEPT ![r] = new] /\ UNCHANGED <<review, reply>>
    BY <1>2, <1>5, <1>8 DEF WriteReply, google
  <1>11. Len(rows[r]) \in Nat
    BY <1>1
  <1>12. ASSUME NEW j \in 1..Len(new) PROVE WasAtGoogle(r, new[j])'
    <2>1. WasAtGoogle(r, new[j])
      BY <1>3, <1>7, <1>9, <1>11
    <2>. QED
      BY <2>1, <1>10 DEF WasAtGoogle
  <1>13. Len(rows[r]) <= Len(new)
    BY <1>9, <1>11
  <1>. QED
    BY <1>9, <1>10, <1>12, <1>13, RowsReplaced

\* _save_reply_row saves what a poll has at hand.
LEMMA RowSaved ==
    ASSUME RowsTyped, AtGoogle, AtGoogle', Grows, ListingTyped, HandTyped,
           NEW w \in Pollers, cur[w] \in Reviews, NEW status \in Statuses, Save(w, status)
    PROVE  RowsTyped' /\ RowsGrow
  <1>1. hand[w] \in Texts /\ w \in Sessions
    BY DEF HandTyped, Sessions
  <1>2. listing[w][cur[w]].about \in Nat /\ listing[w][cur[w]].about <= review[cur[w]]
    BY <1>1 DEF ListingTyped, Listed
  <1>. QED
    BY <1>1, <1>2, RowAdded, SameRows DEF Save

LEMMA RowsStep ==
    ASSUME RInv, AtGoogle', Grows, [RepliesNext]_vars
    PROVE  RowsTyped' /\ RowsGrow
  <1>. USE DEF google, files, polling, pollers, places, ghosts, bounds
  <1>0. /\ RowsTyped /\ AtGoogle /\ ListingTyped /\ HandTyped /\ InsightTyped /\ PcTyped /\ AtTyped
        /\ Statuses = {"pending", "posted", "failed", "rejected", "deleted"}
        /\ Texts = {"empty", "draft", "live"}
    BY DEF RInv, Statuses, Texts
  <1>. DEFINE Goal == RowsTyped' /\ RowsGrow
  <1>1. ASSUME UNCHANGED rows PROVE Goal
    BY <1>0, <1>1, SameRows
  <1>2. ASSUME NEW w \in Pollers, NEW r \in Reviews, Adopt(w, r) PROVE Goal
    <2>1. PICK l : l = listing[w][r]
      OBVIOUS
    <2>2. l \in Listed /\ l.about <= review[r] /\ l.n <= reply[r].n
      BY <1>0, <2>1 DEF ListingTyped, Sessions
    <2>3. PICK new : new = Adopted(r, l)
      OBVIOUS
    <2>4. /\ new \in Seq(Row) /\ Len(rows[r]) <= Len(new)
          /\ \A i \in 1..Len(new) : WasAtGoogle(r, new[i])
      BY <1>0, <2>2, <2>3, RowsAdopted
    <2>5. rows' = [rows EXCEPT ![r] = new] /\ UNCHANGED <<review, reply>>
      BY <1>2, <2>1, <2>3 DEF Adopt
    <2>6. \A i \in 1..Len(new) : WasAtGoogle(r, new[i])'
      BY <2>4, <2>5 DEF WasAtGoogle
    <2>. QED
      BY <1>0, <2>4, <2>5, <2>6, RowsReplaced
  <1>3. ASSUME NEW w \in Pollers, QueueDraft(w) PROVE Goal
    <2>1. cur[w] \in Reviews
      BY <1>0, <1>3, Busy DEF QueueDraft, PollDrafting
    <2>. QED
      BY <1>0, <1>1, <1>3, <2>1, RowSaved DEF QueueDraft
  <1>4. ASSUME NEW w \in Pollers, DraftFails(w) PROVE Goal
    <2>1. cur[w] \in Reviews
      BY <1>0, <1>4, Busy DEF DraftFails, PollDrafting
    <2>2. listing[w][cur[w]].about \in Nat /\ listing[w][cur[w]].about <= review[cur[w]]
      BY <1>0, <2>1 DEF ListingTyped, Listed, Sessions
    <2>3. \/ UNCHANGED rows
          \/ AddRow(cur[w], "failed", listing[w][cur[w]].about, "empty")
          \/ \E is : SetStatus(cur[w], is, "rejected")
      BY <1>4 DEF DraftFails
    <2>4. CASE AddRow(cur[w], "failed", listing[w][cur[w]].about, "empty")
      BY <1>0, <2>1, <2>2, <2>4, RowAdded
    <2>5. ASSUME NEW is, SetStatus(cur[w], is, "rejected") PROVE Goal
      BY <1>0, <2>1, <2>5, StatusesSet
    <2>. QED
      BY <1>1, <2>3, <2>4, <2>5
  <1>5. ASSUME NEW w \in Pollers, PollPosts(w) PROVE Goal
    <2>1. cur[w] \in Reviews
      BY <1>0, <1>5, Busy DEF PollPosts, PollDrafting
    <2>. QED
      BY <1>0, <1>5, <2>1, RowsShown DEF PollPosts
  <1>6. ASSUME NEW w \in Pollers, PollRecords(w) PROVE Goal
    <2>1. cur[w] \in Reviews /\ Outcome(w) \in Statuses
      BY <1>0, <1>6, Busy DEF PollRecords, Outcome
    <2>. QED
      BY <1>0, <1>6, <2>1, RowSaved DEF PollRecords
  <1>7. ASSUME NEW m \in Clerks, ApprovePosts(m) PROVE Goal
    <2>1. cur[m] \in Reviews
      BY <1>0, <1>7, Busy DEF ApprovePosts
    <2>. QED
      BY <1>0, <1>7, <2>1, RowsShown DEF ApprovePosts
  <1>8. ASSUME NEW m \in Clerks, ApproveRecords(m) PROVE Goal
    <2>1. cur[m] \in Reviews
      BY <1>0, <1>8, Busy DEF ApproveRecords
    <2>2. PICK r \in Reviews : r = cur[m]
      BY <2>1
    <2>3. CASE rows' # rows
      <3>1. rows[r] \in Seq(Row)
        BY <1>0 DEF RowsTyped
      <3>2. PICK new : new = [j \in DOMAIN rows[r] |->
                          IF j = at[m] THEN [rows[r][j] EXCEPT !.status = "posted"]
                          ELSE IF rows[r][j].status \in {"pending", "failed"}
                               THEN [rows[r][j] EXCEPT !.status = "rejected"]
                          ELSE rows[r][j]]
        OBVIOUS
      <3>3. rows' = [rows EXCEPT ![r] = new]
        BY <1>8, <2>2, <2>3, <3>2 DEF ApproveRecords
      <3>4. ASSUME NEW j \in 1..Len(rows[r])
            PROVE  /\ new[j] \in Row
                   /\ new[j].about = rows[r][j].about /\ new[j].id = rows[r][j].id
        <4>1. rows[r][j] \in Row /\ j \in DOMAIN rows[r] /\ {"posted", "rejected"} \subseteq Statuses
          BY <1>0, <3>1
        <4>. QED
          BY <3>2, <4>1, RowChanges
      <3>5. new = [j \in DOMAIN rows[r] |-> new[j]]
        BY <3>2
      <3>. QED
        BY <1>0, <3>3, <3>4, <3>5, RowsMapped
    <2>. QED
      BY <1>1, <2>3
  <1>9. ASSUME NEW m \in Clerks, ApproveIsRefused(m) PROVE Goal
    <2>1. cur[m] \in Reviews
      BY <1>0, <1>9, Busy DEF ApproveIsRefused
    <2>. QED
      BY <1>0, <1>9, <2>1, StatusesSet DEF ApproveIsRefused
  <1>10. ASSUME NEW m \in Clerks, Composed(m) PROVE Goal
    <2>1. cur[m] \in Reviews /\ m \in Sessions
      BY <1>0, <1>10, Busy DEF Composed, Composing
    <2>2. PICK r \in Reviews : r = cur[m]
      BY <2>1
    <2>3. CASE at[m] = 0
      <3>1. listing[m][r].about \in Nat /\ listing[m][r].about <= review[r]
        BY <1>0, <2>1 DEF ListingTyped, Listed
      <3>2. AddRow(r, "pending", listing[m][r].about, "draft")
        BY <1>10, <2>2, <2>3 DEF Composed
      <3>. QED
        BY <1>0, <3>1, <3>2, RowAdded
    <2>4. CASE at[m] # 0 /\ rows' # rows
      <3>1. at[m] \in 1..Len(rows[r])
        BY <1>0, <2>1, <2>2, <2>4 DEF AtTyped, RowsTyped
      <3>2. PICK status : status = IF pc[m] = "retry" THEN "pending" ELSE rows[r][at[m]].status
        OBVIOUS
      <3>3. status \in Statuses
        <4>1. rows[r] \in Seq(Row)
          BY <1>0 DEF RowsTyped
        <4>2. rows[r][at[m]] \in Row
          BY <3>1, <4>1
        <4>3. rows[r][at[m]].status \in Statuses
          BY <4>2 DEF Row
        <4>. QED
          BY <1>0, <3>2, <4>3
      <3>4. PICK i \in 1..Len(rows[r]) : i = at[m]
        BY <3>1
      <3>5. rows' = [rows EXCEPT ![r][i].text = "draft", ![r][i].status = status]
        <4>1. rows' = [rows EXCEPT ![r][i].text = "draft",
                                   ![r][i].status = IF pc[m] = "retry" THEN "pending" ELSE @]
          BY <1>10, <2>2, <2>4, <3>4 DEF Composed
        <4>2. rows \in [Reviews -> Seq(Row)] /\ rows[r] \in Seq(Row) /\ rows[r][i] \in Row
          BY <1>0, <3>4 DEF RowsTyped
        <4>3. [rows[r][i] EXCEPT !.text = "draft"].status = rows[r][i].status
          BY <4>2 DEF Row
        <4>. QED
          BY <3>2, <3>4, <4>1, <4>2, <4>3
      <3>. QED
        BY <1>0, <3>3, <3>4, <3>5, RowRewritten
    <2>. QED
      BY <1>1, <2>3, <2>4
  <1>11. ASSUME NEW m \in Clerks, NEW r \in Reviews, NEW i, WriteReply(m, r, i) PROVE Goal
    BY <1>0, <1>11, ReplyWritten
  <1>12. ASSUME NEW m \in Clerks, NEW r \in Reviews, NEW i, Retry(m, r, i) \/ Reject(m, r, i) PROVE Goal
    BY <1>0, <1>1, <1>12, StatusesSet DEF Retry, Reject
  <1>13. ASSUME NEW m \in Clerks, NEW r \in Reviews, NEW i, Edit(m, r, i) PROVE Goal
    <2>1. i \in 1..Len(rows[r])
      BY <1>13 DEF Edit, With, Indices
    <2>. QED
      BY <1>0, <1>13, <2>1, RowRewritten DEF Edit
  <1>14. ASSUME NEW m \in Clerks, NEW r \in Reviews, DismissEdit(m, r) PROVE Goal
    BY <1>0, <1>14, StatusesSet DEF DismissEdit
  <1>15. ASSUME NEW r \in Reviews, OwnerReplies(r) PROVE Goal
    BY <1>0, <1>15, RowsAnswered
  <1>. HIDE DEF Goal
  <1>16. ASSUME NEW w \in Pollers, PollStep(w) PROVE Goal
    BY <1>1, <1>2, <1>3, <1>5, <1>6, <1>16
    DEF PollStep, Load, Claim, SkipBackedOff, List, LeaveAlone, DraftReply, FollowEdit,
        Begin, PollEnds
  <1>17. ASSUME NEW m \in Clerks, RequestStep(m) PROVE Goal
    BY <1>7, <1>8, <1>10, <1>17 DEF RequestStep
  <1>18. ASSUME NEW m \in Clerks, Ask(m) PROVE Goal
    BY <1>1, <1>11, <1>12, <1>13, <1>14, <1>18 DEF Ask, Approve, AskDraft, AskAnother
  <1>19. ASSUME Mishap PROVE Goal
    BY <1>1, <1>4, <1>9, <1>19
    DEF Mishap, ListFails, PollIsRefused, PollBreaks, Crash, ApproveBreaks, ComposingFails
  <1>20. ASSUME Abroad \/ LeaseLapses \/ BackoffEnds PROVE Goal
    BY <1>1, <1>15, <1>20 DEF Abroad, ReviewerWrites, Analyse, LeaseLapses, BackoffEnds
  <1>21. ASSUME UNCHANGED vars PROVE Goal
    BY <1>1, <1>21 DEF vars
  <1>22. Goal
    BY <1>16, <1>17, <1>18, <1>19, <1>20, <1>21 DEF RepliesNext
  <1>. QED
    BY <1>22 DEF Goal

-----------------------------------------------------------------------------
(* What analytics knows, and what was listed                               *)

LEMMA InsightKept ==
    ASSUME AtGoogle, AtGoogle', Grows, InsightTyped,
           insight' \in [Reviews -> [about : Nat, edited : BOOLEAN, dismissed : BOOLEAN]],
           told' \in [Reviews -> Nat],
           \A r \in Reviews : told'[r] <= review[r] /\ insight'[r].about <= review[r]
    PROVE  InsightTyped'
  <1>1. ASSUME NEW r \in Reviews PROVE told'[r] <= review'[r] /\ insight'[r].about <= review'[r]
    <2>1. /\ review[r] \in Nat /\ review'[r] \in Nat /\ told'[r] \in Nat /\ insight'[r].about \in Nat
          /\ review[r] <= review'[r]
      BY DEF AtGoogle, Grows
    <2>. QED
      BY <2>1
  <1>. QED
    BY <1>1 DEF InsightTyped

LEMMA InsightStep ==
    ASSUME RInv, AtGoogle', Grows, [RepliesNext]_vars
    PROVE  InsightTyped'
  <1>. USE DEF google, files, polling, pollers, places, ghosts, bounds
  <1>0. /\ AtGoogle /\ InsightTyped /\ ListingTyped
        /\ insight \in [Reviews -> [about : Nat, edited : BOOLEAN, dismissed : BOOLEAN]]
        /\ told \in [Reviews -> Nat]
        /\ \A r \in Reviews : told[r] <= review[r] /\ insight[r].about <= review[r]
    BY DEF RInv, InsightTyped
  <1>1. ASSUME UNCHANGED <<insight, told>> PROVE InsightTyped'
    BY <1>0, <1>1, InsightKept
  <1>2. ASSUME NEW w \in Pollers, NEW r \in Reviews, Tell(r, listing[w][r].about), UNCHANGED insight
        PROVE  InsightTyped'
    <2>1. listing[w][r].about \in Nat /\ listing[w][r].about <= review[r]
      BY <1>0 DEF ListingTyped, Listed, Sessions
    <2>. QED
      BY <1>0, <1>2, <2>1, InsightKept DEF Tell
  <1>3. ASSUME NEW r \in Reviews, NEW new \in [about : Nat, edited : BOOLEAN, dismissed : BOOLEAN],
               new.about <= review[r], insight' = [insight EXCEPT ![r] = new], UNCHANGED told
        PROVE  InsightTyped'
    BY <1>0, <1>3, InsightKept
  <1>4. ASSUME NEW r \in Reviews, NEW e \in BOOLEAN, NEW d \in BOOLEAN,
               insight' = [insight EXCEPT ![r].edited = e, ![r].dismissed = d], UNCHANGED told
        PROVE  InsightTyped'
    <2>1. PICK old \in [about : Nat, edited : BOOLEAN, dismissed : BOOLEAN] : old = insight[r]
      BY <1>0
    <2>2. PICK new : new = [[old EXCEPT !.edited = e] EXCEPT !.dismissed = d]
      OBVIOUS
    <2>3. new \in [about : Nat, edited : BOOLEAN, dismissed : BOOLEAN] /\ new.about = old.about
      BY <2>2
    <2>4. insight' = [insight EXCEPT ![r] = new]
      BY <1>0, <1>4, <2>1, <2>2
    <2>5. new.about <= review[r]
      BY <1>0, <2>1, <2>3
    <2>. QED
      BY <1>3, <1>4, <2>3, <2>4, <2>5
  <1>5. \A r \in Reviews : insight[r].edited \in BOOLEAN /\ insight[r].dismissed \in BOOLEAN
    BY <1>0
  <1>6. ASSUME NEW w \in Pollers, PollStep(w) PROVE InsightTyped'
    BY <1>1, <1>2, <1>6
    DEF PollStep, Load, Claim, SkipBackedOff, List, Adopt, LeaveAlone, DraftReply,
        FollowEdit, Begin, QueueDraft, PollPosts, PollRecords, PollEnds
  <1>7. ASSUME NEW w \in Pollers, DraftFails(w) PROVE InsightTyped'
    <2>1. PICK r \in Reviews : r = cur[w]
      BY <1>7, Busy DEF DraftFails, PollDrafting, RInv
    <2>2. PICK d \in BOOLEAN : insight' = [insight EXCEPT ![r].dismissed = d]
      <3>1. PICK early \in BOOLEAN :
               insight' = [insight EXCEPT ![r].dismissed = @ /\ (pc[w] = "new" \/ ~early)]
        BY <1>7, <2>1 DEF DraftFails
      <3>2. PICK d : d = (insight[r].dismissed /\ (pc[w] = "new" \/ ~early))
        OBVIOUS
      <3>3. d \in BOOLEAN /\ insight' = [insight EXCEPT ![r].dismissed = d]
        BY <1>0, <3>1, <3>2
      <3>. QED
        BY <3>3
    <2>3. insight' = [insight EXCEPT ![r].edited = insight[r].edited, ![r].dismissed = d]
      BY <1>0, <2>2
    <2>. QED
      BY <1>4, <1>5, <1>7, <2>3 DEF DraftFails
  <1>8. ASSUME NEW m \in Clerks, ApproveRecords(m) PROVE InsightTyped'
    <2>1. PICK r \in Reviews : r = cur[m]
      BY <1>8, Busy DEF ApproveRecords, RInv
    <2>2. CASE UNCHANGED insight
      BY <1>1, <1>8, <2>2 DEF ApproveRecords
    <2>3. CASE insight' = [insight EXCEPT ![r].edited = FALSE]
      <3>1. insight' = [insight EXCEPT ![r].edited = FALSE, ![r].dismissed = insight[r].dismissed]
        BY <1>0, <2>3
      <3>. QED
        BY <1>4, <1>5, <1>8, <3>1 DEF ApproveRecords
    <2>. QED
      BY <1>8, <2>1, <2>2, <2>3 DEF ApproveRecords
  <1>9. ASSUME NEW m \in Clerks, NEW r \in Reviews, NEW i, Reject(m, r, i) PROVE InsightTyped'
    <2>1. PICK d : d = (insight[r].dismissed \/ insight[r].about # 0)
      OBVIOUS
    <2>2. d \in BOOLEAN /\ insight' = [insight EXCEPT ![r].dismissed = d]
      BY <1>0, <1>9, <2>1 DEF Reject
    <2>3. insight' = [insight EXCEPT ![r].edited = insight[r].edited, ![r].dismissed = d]
      BY <1>0, <2>2
    <2>. QED
      BY <1>4, <1>5, <1>9, <2>2, <2>3 DEF Reject
  <1>10. ASSUME NEW m \in Clerks, NEW r \in Reviews, DismissEdit(m, r) PROVE InsightTyped'
    BY <1>4, <1>10 DEF DismissEdit
  <1>11. ASSUME NEW r \in Reviews, Analyse(r) PROVE InsightTyped'
    <2>1. PICK e : e = (insight[r].edited \/ insight[r].about # 0)
      OBVIOUS
    <2>2. PICK old \in [about : Nat, edited : BOOLEAN, dismissed : BOOLEAN] : old = insight[r]
      BY <1>0
    <2>3. PICK new : new = [[old EXCEPT !.about = told[r]] EXCEPT !.edited = e]
      OBVIOUS
    <2>4. e \in BOOLEAN /\ told[r] \in Nat /\ told[r] <= review[r]
      BY <1>0, <2>1
    <2>5. new \in [about : Nat, edited : BOOLEAN, dismissed : BOOLEAN] /\ new.about = told[r]
      BY <2>3, <2>4
    <2>6. insight' = [insight EXCEPT ![r].about = told[r], ![r].edited = e]
      <3>1. insight' = [insight EXCEPT ![r].about = told[r],
                                       ![r].edited = @ \/ insight[r].about # 0]
        BY <1>11 DEF Analyse
      <3>2. [old EXCEPT !.about = told[r]].edited = old.edited
        OBVIOUS
      <3>. QED
        BY <1>0, <2>1, <2>2, <3>1, <3>2
    <2>7. insight' = [insight EXCEPT ![r] = new]
      BY <1>0, <2>2, <2>3, <2>6
    <2>. QED
      BY <1>3, <1>11, <2>4, <2>5, <2>7 DEF Analyse
  <1>12. ASSUME NEW m \in Clerks, RequestStep(m) PROVE InsightTyped'
    BY <1>1, <1>8, <1>12 DEF RequestStep, ApprovePosts, Composed
  <1>13. ASSUME NEW m \in Clerks, Ask(m) PROVE InsightTyped'
    BY <1>1, <1>9, <1>10, <1>13
    DEF Ask, Approve, WriteReply, AskDraft, AskAnother, Retry, Edit
  <1>14. CASE Mishap
    BY <1>1, <1>7, <1>14
    DEF Mishap, ListFails, PollIsRefused, PollBreaks, Crash, ApproveIsRefused,
        ApproveBreaks, ComposingFails
  <1>15. CASE Abroad \/ LeaseLapses \/ BackoffEnds
    BY <1>1, <1>11, <1>15 DEF Abroad, ReviewerWrites, OwnerReplies, LeaseLapses, BackoffEnds
  <1>16. CASE UNCHANGED vars
    BY <1>1, <1>16 DEF vars
  <1>. QED
    BY <1>6, <1>12, <1>13, <1>14, <1>15, <1>16 DEF RepliesNext

\* What is listed at a time was at Google at that time.
WasListed(r, l) ==
    /\ l \in Listed /\ l.about <= review[r] /\ l.n <= reply[r].n
    /\ l.n = 0 <=> l.by = "nobody"

LEMMA ListingKept ==
    ASSUME AtGoogle, AtGoogle', Grows, DOMAIN listing' = Sessions,
           \A s \in Sessions :
              /\ listing'[s] = [r \in Reviews |-> listing'[s][r]]
              /\ \A r \in Reviews :
                    \E l : listing'[s][r] = l /\ WasListed(r, l),
           listing' = [s \in Sessions |-> listing'[s]]
    PROVE  ListingTyped'
  <1>1. ASSUME NEW s \in Sessions, NEW r \in Reviews
        PROVE  /\ listing'[s][r] \in Listed
               /\ listing'[s][r].about <= review'[r] /\ listing'[s][r].n <= reply'[r].n
               /\ listing'[s][r].n = 0 <=> listing'[s][r].by = "nobody"
    <2>1. PICK l : listing'[s][r] = l /\ WasListed(r, l)
      OBVIOUS
    <2>2. l \in Listed /\ l.about \in Nat /\ l.n \in Nat
      BY <2>1 DEF WasListed, Listed
    <2>3. /\ review[r] \in Nat /\ review'[r] \in Nat /\ reply[r].n \in Nat /\ reply'[r].n \in Nat
          /\ review[r] <= review'[r] /\ reply[r].n <= reply'[r].n
      BY DEF AtGoogle, Grows
    <2>. QED
      BY <2>1, <2>2, <2>3 DEF WasListed
  <1>2. \A s \in Sessions : listing'[s] \in [Reviews -> Listed]
    BY <1>1
  <1>3. listing' \in [Sessions -> [Reviews -> Listed]]
    BY <1>2
  <1>. QED
    BY <1>1, <1>3 DEF ListingTyped

LEMMA OneListing ==
    ASSUME AtGoogle, AtGoogle', Grows, ListingTyped, NEW s \in Sessions, NEW new,
           new = [r \in Reviews |-> new[r]], \A r \in Reviews : WasListed(r, new[r]),
           listing' = [listing EXCEPT ![s] = new]
    PROVE  ListingTyped'
  <1>1. listing \in [Sessions -> [Reviews -> Listed]]
    BY DEF ListingTyped
  <1>2. \A t \in Sessions, r \in Reviews : WasListed(r, listing[t][r])
    BY DEF ListingTyped, WasListed
  <1>3. /\ DOMAIN listing' = Sessions /\ listing' = [t \in Sessions |-> listing'[t]]
        /\ \A t \in Sessions : listing'[t] = IF t = s THEN new ELSE listing[t]
    BY <1>1
  <1>4. \A t \in Sessions : listing'[t] = [r \in Reviews |-> listing'[t][r]]
    BY <1>1, <1>3
  <1>5. \A t \in Sessions, r \in Reviews : \E l : listing'[t][r] = l /\ WasListed(r, l)
    BY <1>2, <1>3
  <1>. QED
    BY <1>3, <1>4, <1>5, ListingKept

LEMMA ListingStep ==
    ASSUME RInv, AtGoogle', Grows, [RepliesNext]_vars
    PROVE  ListingTyped'
  <1>. USE DEF google, files, polling, pollers, places, ghosts, bounds
  <1>0. /\ AtGoogle /\ ListingTyped /\ InsightTyped /\ RowsTyped
        /\ Pollers \subseteq Sessions /\ Clerks \subseteq Sessions
        /\ listing \in [Sessions -> [Reviews -> Listed]]
    BY DEF RInv, Sessions, ListingTyped
  <1>00. \A t \in Sessions, r \in Reviews : WasListed(r, listing[t][r])
    BY <1>0 DEF ListingTyped, WasListed
  <1>1. ASSUME UNCHANGED listing PROVE ListingTyped'
    <2>1. /\ DOMAIN listing' = Sessions /\ listing' = [t \in Sessions |-> listing'[t]]
          /\ \A t \in Sessions : listing'[t] = [r \in Reviews |-> listing'[t][r]]
          /\ \A t \in Sessions, r \in Reviews : \E l : listing'[t][r] = l /\ WasListed(r, l)
      BY <1>0, <1>00, <1>1
    <2>. QED
      BY <1>0, <2>1, ListingKept
  <1>2. ASSUME NEW s \in Sessions, listing' = [listing EXCEPT ![s] = [r \in Reviews |-> Unlisted]]
        PROVE  ListingTyped'
    <2>1. PICK new : new = [r \in Reviews |-> Unlisted]
      OBVIOUS
    <2>2. ASSUME NEW r \in Reviews PROVE WasListed(r, new[r])
      <3>1. review[r] \in Nat /\ reply[r].n \in Nat
        BY <1>0 DEF AtGoogle
      <3>. QED
        BY <2>1, <3>1 DEF WasListed, Unlisted, Listed
    <2>. QED
      BY <1>0, <1>2, <2>1, <2>2, OneListing
  <1>3. ASSUME NEW w \in Pollers, List(w) PROVE ListingTyped'
    <2>1. PICK new : new = [r \in Reviews |->
                     IF r \in cut[w]
                     THEN [about |-> review[r], by |-> reply[r].by, n |-> reply[r].n]
                     ELSE Unlisted]
      OBVIOUS
    <2>2. ASSUME NEW r \in Reviews PROVE WasListed(r, new[r])
      <3>1. /\ review[r] \in Nat /\ reply[r].n \in Nat /\ reply[r].by \in {"nobody", "owner", "us"}
            /\ reply[r].n = 0 <=> reply[r].by = "nobody"
        BY <1>0 DEF AtGoogle
      <3>2. CASE r \in cut[w]
        BY <2>1, <3>1, <3>2 DEF WasListed, Listed
      <3>3. CASE r \notin cut[w]
        BY <2>1, <3>1, <3>3 DEF WasListed, Unlisted, Listed
      <3>. QED
        BY <3>2, <3>3
    <2>3. listing' = [listing EXCEPT ![w] = new]
      BY <1>3, <2>1 DEF List
    <2>. QED
      BY <1>0, <2>1, <2>2, <2>3, OneListing
  <1>4. ASSUME NEW m \in Clerks, NEW r \in Reviews, NEW i, AskDraft(m, r, i) PROVE ListingTyped'
    <2>1. PICK about : about = ShownToClient(r)
      OBVIOUS
    <2>2. about \in Nat /\ about <= review[r]
      BY <1>0, <1>4, <2>1, ClientsVersion DEF AskDraft
    <2>3. PICK new : new = [listing[m] EXCEPT ![r].about = about]
      OBVIOUS
    <2>4. ASSUME NEW q \in Reviews PROVE WasListed(q, new[q])
      <3>1. WasListed(q, listing[m][q]) /\ listing[m] \in [Reviews -> Listed]
        BY <1>0, <1>00
      <3>2. listing[m][q] \in Listed
        BY <3>1
      <3>3. CASE q # r
        BY <2>3, <3>1, <3>3
      <3>4. CASE q = r
        <4>1. new[q] = [listing[m][q] EXCEPT !.about = about]
          BY <2>3, <3>1, <3>4
        <4>2. /\ new[q] \in Listed /\ new[q].about = about
              /\ new[q].n = listing[m][q].n /\ new[q].by = listing[m][q].by
          BY <2>2, <3>2, <4>1 DEF Listed
        <4>. QED
          BY <2>2, <3>1, <3>4, <4>2 DEF WasListed
      <3>. QED
        BY <3>3, <3>4
    <2>5. listing' = [listing EXCEPT ![m] = new]
      BY <1>0, <1>4, <2>1, <2>3 DEF AskDraft
    <2>6. new = [q \in Reviews |-> new[q]]
      BY <1>0, <2>3
    <2>. QED
      BY <1>0, <2>4, <2>5, <2>6, OneListing
  <1>5. ASSUME NEW w \in Pollers, PollStep(w) PROVE ListingTyped'
    BY <1>0, <1>1, <1>2, <1>3, <1>5
    DEF PollStep, Load, Claim, SkipBackedOff, Adopt, LeaveAlone, DraftReply, FollowEdit,
        Begin, QueueDraft, PollPosts, PollRecords, PollEnds, Release
  <1>6. ASSUME NEW m \in Clerks, RequestStep(m) PROVE ListingTyped'
    BY <1>0, <1>1, <1>2, <1>6 DEF RequestStep, ApprovePosts, ApproveRecords, Composed
  <1>7. ASSUME NEW m \in Clerks, Ask(m) PROVE ListingTyped'
    BY <1>1, <1>4, <1>7
    DEF Ask, Approve, WriteReply, AskAnother, Retry, Edit, Reject, DismissEdit
  <1>8. CASE Mishap
    BY <1>0, <1>1, <1>2, <1>8
    DEF Mishap, ListFails, DraftFails, PollIsRefused, PollBreaks, Release, Crash,
        ApproveIsRefused, ApproveBreaks, ComposingFails
  <1>9. CASE Abroad \/ LeaseLapses \/ BackoffEnds
    BY <1>1, <1>9
    DEF Abroad, ReviewerWrites, OwnerReplies, Analyse, LeaseLapses, BackoffEnds
  <1>10. CASE UNCHANGED vars
    BY <1>1, <1>10 DEF vars
  <1>. QED
    BY <1>5, <1>6, <1>7, <1>8, <1>9, <1>10 DEF RepliesNext

-----------------------------------------------------------------------------
(* Where sessions are                                                      *)

Pcs == {"idle", "sent"} \cup Waiting \cup Drafting \cup Posting
NoReviewAt == {"idle"} \cup Waiting

LEMMA PlacesStay ==
    ASSUME PcTyped, AtTyped, RowsTyped, RowsTyped', RowsGrow, UNCHANGED <<pc, cur, at>>
    PROVE  PcTyped' /\ AtTyped'
  <1>1. ASSUME NEW s \in Sessions, at[s] # 0 PROVE cur[s] \in Reviews /\ at[s] <= Len(rows'[cur[s]])
    <2>1. cur[s] \in Reviews /\ at[s] \in Nat /\ at[s] <= Len(rows[cur[s]])
      BY <1>1 DEF AtTyped
    <2>2. Len(rows[cur[s]]) \in Nat /\ Len(rows'[cur[s]]) \in Nat
      BY <2>1 DEF RowsTyped
    <2>. QED
      BY <2>1, <2>2 DEF RowsGrow
  <1>. QED
    BY <1>1 DEF PcTyped, AtTyped

LEMMA Moved ==
    ASSUME PcTyped, AtTyped, RowsTyped, RowsTyped', RowsGrow,
           NEW s \in Sessions, NEW to \in Pcs, NEW r \in Reviews \cup {NoReview}, NEW i \in Nat,
           r = NoReview <=> to \in NoReviewAt,
           i # 0 => r \in Reviews /\ i <= Len(rows[r]),
           pc' = [pc EXCEPT ![s] = to], cur' = [cur EXCEPT ![s] = r],
           at' = [at EXCEPT ![s] = i]
    PROVE  PcTyped' /\ AtTyped'
  <1>1. /\ pc \in [Sessions -> Pcs] /\ cur \in [Sessions -> Reviews \cup {NoReview}]
        /\ at \in [Sessions -> Nat]
    BY DEF PcTyped, AtTyped, Pcs
  <1>2. \A t \in Sessions :
           /\ pc'[t] = IF t = s THEN to ELSE pc[t]
           /\ cur'[t] = IF t = s THEN r ELSE cur[t]
           /\ at'[t] = IF t = s THEN i ELSE at[t]
    BY <1>1
  <1>3. PcTyped'
    <2>1. \A t \in Sessions : (cur'[t] = NoReview) <=> pc'[t] \in NoReviewAt
      BY <1>2 DEF PcTyped, NoReviewAt
    <2>2. pc' \in [Sessions -> Pcs] /\ cur' \in [Sessions -> Reviews \cup {NoReview}]
      BY <1>1
    <2>. QED
      BY <2>1, <2>2 DEF PcTyped, Pcs, NoReviewAt
  <1>4. ASSUME NEW t \in Sessions, at'[t] # 0
        PROVE  cur'[t] \in Reviews /\ at'[t] <= Len(rows'[cur'[t]])
    <2>1. /\ at'[t] \in Nat /\ cur'[t] \in Reviews
          /\ at'[t] <= Len(rows[cur'[t]])
      BY <1>1, <1>2, <1>4 DEF AtTyped
    <2>2. PICK q \in Reviews : q = cur'[t]
      BY <2>1
    <2>3. Len(rows[q]) \in Nat /\ Len(rows'[q]) \in Nat /\ Len(rows[q]) <= Len(rows'[q])
      BY DEF RowsTyped, RowsGrow
    <2>. QED
      BY <2>1, <2>2, <2>3
  <1>5. at' \in [Sessions -> Nat]
    BY <1>1
  <1>. QED
    BY <1>3, <1>4, <1>5 DEF AtTyped

\* A session goes on with the review it has, or without one.
LEMMA MovedOn ==
    ASSUME PcTyped, AtTyped, RowsTyped, RowsTyped', RowsGrow,
           NEW s \in Sessions, NEW to \in Pcs, pc[s] \in NoReviewAt <=> to \in NoReviewAt,
           Goto(s, to), UNCHANGED <<cur, at>>
    PROVE  PcTyped' /\ AtTyped'
  <1>1. PICK r \in Reviews \cup {NoReview}, i \in Nat : r = cur[s] /\ i = at[s]
    BY DEF PcTyped, AtTyped
  <1>2. r = NoReview <=> to \in NoReviewAt
    BY <1>1 DEF PcTyped, NoReviewAt
  <1>3. i # 0 => r \in Reviews /\ i <= Len(rows[r])
    BY <1>1 DEF AtTyped
  <1>4. cur' = [cur EXCEPT ![s] = r] /\ at' = [at EXCEPT ![s] = i]
    BY <1>1 DEF PcTyped, AtTyped
  <1>. QED
    BY <1>2, <1>3, <1>4, Moved DEF Goto

LEMMA LeftOff ==
    ASSUME PcTyped, AtTyped, RowsTyped, RowsTyped', RowsGrow,
           NEW s \in Sessions, NEW to \in NoReviewAt,
           Goto(s, to), cur' = [cur EXCEPT ![s] = NoReview], at' = [at EXCEPT ![s] = 0]
    PROVE  PcTyped' /\ AtTyped'
  <1>1. to \in Pcs
    BY DEF Pcs, NoReviewAt
  <1>. QED
    BY <1>1, Moved DEF Goto

LEMMA TakenUp ==
    ASSUME PcTyped, AtTyped, RowsTyped, RowsTyped', RowsGrow,
           NEW s \in Sessions, NEW to \in Drafting \cup {"approving"}, NEW r \in Reviews,
           NEW i \in 0..Len(rows[r]),
           Goto(s, to), cur' = [cur EXCEPT ![s] = r], at' = [at EXCEPT ![s] = i]
    PROVE  PcTyped' /\ AtTyped'
  <1>1. to \in Pcs /\ to \notin NoReviewAt
    BY DEF Pcs, NoReviewAt, Drafting, Posting, Waiting
  <1>2. r # NoReview
    BY ConstantsAssumption
  <1>3. Len(rows[r]) \in Nat
    BY DEF RowsTyped
  <1>4. i \in Nat /\ i <= Len(rows[r])
    BY <1>3
  <1>. QED
    BY <1>1, <1>2, <1>4, Moved DEF Goto

\* Rows of a review and their indices.
LEMMA LatestWith ==
    ASSUME RowsTyped, NEW r \in Reviews, NEW statuses
    PROVE  /\ Latest(With(r, statuses)) \in 0..Len(rows[r])
           /\ Latest(OnFile(r)) \in 0..Len(rows[r])
           /\ Latest(Indices(r)) \in 0..Len(rows[r])
           /\ With(r, statuses) \subseteq 0..Len(rows[r])
           /\ Latest(OnFile(r)) = 0 <=> OnFile(r) = {}
           /\ Latest(Indices(r)) # 0 => Latest(Indices(r)) \in Indices(r)
  <1>1. Len(rows[r]) \in Nat
    BY DEF RowsTyped
  <1>2. /\ Indices(r) \in SUBSET (1..Len(rows[r])) /\ With(r, statuses) \in SUBSET (1..Len(rows[r]))
        /\ OnFile(r) \in SUBSET (1..Len(rows[r]))
    BY DEF OnFile, With, Indices
  <1>3. With(r, statuses) \subseteq 0..Len(rows[r])
    BY <1>1, <1>2
  <1>. QED
    BY <1>1, <1>2, <1>3, LatestIsOne

LEMMA PlacesStep ==
    ASSUME RInv, RowsTyped', RowsGrow, [RepliesNext]_vars
    PROVE  PcTyped' /\ AtTyped'
  <1>. USE DEF google, files, polling, pollers, places, ghosts, bounds
  <1>0. /\ PcTyped /\ AtTyped /\ RowsTyped /\ Pollers \subseteq Sessions /\ Clerks \subseteq Sessions
        /\ NoReviewAt = {"idle", "loaded", "claimed", "reading"}
        /\ {"sent", "refused", "accepted"} \subseteq Pcs /\ NoReviewAt \subseteq Pcs
        /\ Drafting = {"new", "refresh", "follow", "generate", "regenerate", "retry"}
    BY DEF RInv, Sessions, Pcs, NoReviewAt, Waiting, Drafting, Posting
  <1>. DEFINE Goal == PcTyped' /\ AtTyped'
  <1>1. ASSUME UNCHANGED <<pc, cur, at>> PROVE Goal
    BY <1>0, <1>1, PlacesStay
  <1>2. ASSUME NEW s \in Sessions, Ends(s) PROVE Goal
    BY <1>0, <1>2, LeftOff DEF Ends
  <1>3. ASSUME NEW s \in Sessions, NEW to \in Pcs, pc[s] \in NoReviewAt <=> to \in NoReviewAt,
               Goto(s, to), UNCHANGED <<cur, at>>
        PROVE  Goal
    BY <1>0, <1>3, MovedOn
  <1>4. ASSUME NEW s \in Sessions, Goto(s, "idle") \/ Goto(s, "reading"),
               cur' = [cur EXCEPT ![s] = NoReview], at' = [at EXCEPT ![s] = 0]
        PROVE  Goal
    BY <1>0, <1>4, LeftOff
  <1>5. ASSUME NEW s \in Sessions, NEW to \in Drafting \cup {"approving"}, NEW r \in Reviews,
               NEW i \in 0..Len(rows[r]),
               Goto(s, to), cur' = [cur EXCEPT ![s] = r], at' = [at EXCEPT ![s] = i]
        PROVE  Goal
    BY <1>0, <1>5, TakenUp
  <1>6. \A r \in Reviews : Len(rows[r]) \in Nat /\ 0 \in 0..Len(rows[r])
    BY <1>0 DEF RowsTyped
  <1>. HIDE DEF Goal
  <1>7. ASSUME NEW w \in Pollers, Load(w) \/ Claim(w) \/ List(w) PROVE Goal
    <2>1. CASE UNCHANGED pc
      BY <1>0, <1>1, <1>7, <2>1 DEF Load, Claim, List
    <2>2. CASE Load(w)
      BY <1>0, <1>3, <2>2 DEF Load
    <2>3. CASE Claim(w)
      BY <1>0, <1>3, <2>3 DEF Claim, Claimed
    <2>4. CASE List(w)
      BY <1>0, <1>3, <2>4 DEF List
    <2>. QED
      BY <1>7, <2>2, <2>3, <2>4
  <1>8. ASSUME NEW w \in Pollers, NEW r \in Reviews, DraftReply(w, r) \/ FollowEdit(w, r) PROVE Goal
    <2>1. PICK kind \in Drafting, i \in 0..Len(rows[r]) : Begin(w, r, kind, i)
      <3>1. CASE DraftReply(w, r)
        BY <1>0, <3>1, LatestWith DEF DraftReply
      <3>2. CASE FollowEdit(w, r)
        BY <1>0, <3>2, LatestWith DEF FollowEdit
      <3>. QED
        BY <1>8, <3>1, <3>2
    <2>. QED
      BY <1>0, <1>5, <2>1 DEF Begin
  <1>9. ASSUME NEW w \in Pollers, NextReview(w) PROVE Goal
    BY <1>0, <1>4, <1>9 DEF NextReview
  <1>10. ASSUME NEW w \in Pollers, Release(w) PROVE Goal
    BY <1>0, <1>2, <1>10 DEF Release
  <1>11. ASSUME NEW w \in Pollers, PollPosts(w) \/ PollIsRefused(w) PROVE Goal
    <2>1. pc[w] \notin NoReviewAt
      BY <1>0, <1>11 DEF PollPosts, PollIsRefused, PollDrafting
    <2>2. CASE PollPosts(w)
      BY <1>0, <1>3, <2>1, <2>2 DEF PollPosts
    <2>3. CASE PollIsRefused(w)
      BY <1>0, <1>3, <2>1, <2>3 DEF PollIsRefused
    <2>. QED
      BY <1>11, <2>2, <2>3
  <1>12. ASSUME NEW w \in Pollers, PollStep(w) PROVE Goal
    BY <1>1, <1>7, <1>8, <1>9, <1>10, <1>11, <1>12
    DEF PollStep, SkipBackedOff, Adopt, LeaveAlone, QueueDraft, PollRecords, PollEnds
  <1>13. ASSUME NEW m \in Clerks, RequestStep(m) PROVE Goal
    <2>1. CASE ApprovePosts(m)
      BY <1>0, <1>3, <2>1 DEF ApprovePosts
    <2>2. CASE ApproveRecords(m)
      BY <1>0, <1>2, <2>2 DEF ApproveRecords
    <2>3. CASE Composed(m)
      BY <1>0, <1>4, <2>3 DEF Composed
    <2>. QED
      BY <1>13, <2>1, <2>2, <2>3 DEF RequestStep
  <1>14. ASSUME NEW m \in Clerks, NEW r \in Reviews, NEW i \in 0..Len(rows[r]), NEW kind, NEW text,
                kind \in Drafting \cup {"approving"}, Works(m, r, kind, i, text)
         PROVE  Goal
    BY <1>0, <1>5, <1>14 DEF Works
  <1>15. ASSUME NEW m \in Clerks, NEW r \in Reviews, NEW i \in 0..Len(rows[r]),
                \/ Approve(m, r, i) \/ AskDraft(m, r, i) \/ AskAnother(m, r, i) \/ Retry(m, r, i)
                \/ WriteReply(m, r, i) \/ Edit(m, r, i) \/ Reject(m, r, i)
         PROVE  Goal
    <2>1. CASE UNCHANGED <<pc, cur, at>>
      BY <1>1, <2>1
    <2>2. CASE Approve(m, r, i)
      BY <1>14, <2>2 DEF Approve
    <2>3. CASE AskDraft(m, r, i)
      BY <1>0, <1>6, <1>14, <2>3 DEF AskDraft
    <2>4. CASE AskAnother(m, r, i)
      BY <1>0, <1>14, <2>4 DEF AskAnother
    <2>5. CASE Retry(m, r, i)
      BY <1>0, <1>14, <2>1, <2>5 DEF Retry
    <2>. QED
      BY <1>15, <2>1, <2>2, <2>3, <2>4, <2>5 DEF WriteReply, Edit, Reject
  <1>16. ASSUME NEW m \in Clerks, Ask(m) PROVE Goal
    BY <1>1, <1>15, <1>16 DEF Ask, DismissEdit
  <1>17. ASSUME Mishap PROVE Goal
    BY <1>0, <1>2, <1>9, <1>10, <1>11, <1>17
    DEF Mishap, ListFails, DraftFails, PollBreaks, Crash, ApproveIsRefused, ApproveBreaks,
        ComposingFails
  <1>18. ASSUME Abroad \/ LeaseLapses \/ BackoffEnds PROVE Goal
    BY <1>1, <1>18
    DEF Abroad, ReviewerWrites, OwnerReplies, Analyse, LeaseLapses, BackoffEnds
  <1>19. ASSUME UNCHANGED vars PROVE Goal
    BY <1>1, <1>19 DEF vars
  <1>20. Goal
    BY <1>12, <1>13, <1>16, <1>17, <1>18, <1>19 DEF RepliesNext
  <1>. QED
    BY <1>20 DEF Goal

-----------------------------------------------------------------------------
(* What sessions have at hand                                              *)

LEMMA HandKept ==
    ASSUME HandTyped, hand' = [s \in Sessions |-> hand'[s]],
           \A s \in Sessions : hand'[s] \in Texts \cup {"row"},
           \A w \in Pollers : hand'[w] = "row" => hand[w] = "row"
    PROVE  HandTyped'
  <1>1. hand' \in [Sessions -> Texts \cup {"row"}]
    OBVIOUS
  <1>. QED
    BY <1>1 DEF HandTyped

LEMMA HandStep ==
    ASSUME HandTyped, [RepliesNext]_vars
    PROVE  HandTyped'
  <1>. USE DEF google, files, polling, pollers, places, ghosts, bounds
  <1>0. /\ hand \in [Sessions -> Texts \cup {"row"}]
        /\ \A w \in Pollers : hand[w] # "row"
        /\ Pollers \subseteq Sessions /\ Clerks \subseteq Sessions
        /\ \A m \in Clerks : m \notin Pollers
        /\ Texts = {"empty", "draft", "live"}
    BY ConstantsAssumption DEF HandTyped, Sessions, Texts
  <1>1. ASSUME UNCHANGED hand PROVE HandTyped'
    BY <1>1 DEF HandTyped
  <1>2. ASSUME NEW s \in Sessions, NEW text \in Texts, hand' = [hand EXCEPT ![s] = text]
        PROVE  HandTyped'
    BY <1>0, <1>2 DEF HandTyped
  <1>3. ASSUME NEW m \in Clerks, NEW text \in Texts \cup {"row"}, hand' = [hand EXCEPT ![m] = text]
        PROVE  HandTyped'
    BY <1>0, <1>3 DEF HandTyped
  <1>4. ASSUME NEW s \in Sessions, NEW r, NEW i, i = 0 \/ s \in Clerks, Shown(r, "us", s, i)
        PROVE  HandTyped'
    <2>1. hand' = [t \in Sessions |->
                  IF t = s THEN (IF i = 0 THEN "live" ELSE "row")
                  ELSE IF cur[t] = r /\ hand[t] = "live" THEN "draft" ELSE hand[t]]
      BY <1>4 DEF Shown
    <2>. QED
      BY <1>0, <1>4, <2>1 DEF HandTyped
  <1>5. ASSUME NEW w \in Pollers, NEW r \in Reviews, Adopt(w, r) PROVE HandTyped'
    <2>1. hand' = [s \in Sessions |-> IF cur[s] = r /\ at[s] = Latest(Indices(r)) /\ hand[s] = "row"
                                      THEN "draft" ELSE hand[s]]
      BY <1>5 DEF Adopt
    <2>. QED
      BY <1>0, <2>1 DEF HandTyped
  <1>6. ASSUME NEW w \in Pollers, PollStep(w) PROVE HandTyped'
    BY <1>0, <1>1, <1>2, <1>4, <1>5, <1>6
    DEF PollStep, Load, Claim, SkipBackedOff, List, LeaveAlone, DraftReply, FollowEdit,
        Begin, QueueDraft, PollPosts, PollRecords, PollEnds, Release, Ends, NextReview
  <1>7. ASSUME NEW m \in Clerks, RequestStep(m) PROVE HandTyped'
    <2>1. CASE ApprovePosts(m)
      BY <1>0, <1>4, <2>1 DEF ApprovePosts
    <2>2. CASE ApproveRecords(m)
      BY <1>0, <1>2, <2>2 DEF ApproveRecords, Ends
    <2>3. CASE Composed(m)
      <3>1. hand' = [s \in Sessions |->
                  IF s = m THEN "empty"
                  ELSE IF at[m] # 0 /\ cur[s] = cur[m] /\ at[s] = at[m] /\ hand[s] = "row" THEN "draft"
                  ELSE hand[s]]
        BY <2>3 DEF Composed
      <3>. QED
        BY <1>0, <3>1 DEF HandTyped
    <2>. QED
      BY <1>7, <2>1, <2>2, <2>3 DEF RequestStep
  <1>8. ASSUME NEW m \in Clerks, NEW r \in Reviews, NEW i, Edit(m, r, i) PROVE HandTyped'
    <2>1. hand' = [s \in Sessions |-> IF cur[s] = r /\ at[s] = i /\ hand[s] = "row"
                                      THEN "draft" ELSE hand[s]]
      BY <1>8 DEF Edit, Rewritten
    <2>. QED
      BY <1>0, <2>1 DEF HandTyped
  <1>9. ASSUME NEW m \in Clerks, Ask(m) PROVE HandTyped'
    <2>1. ASSUME NEW r \in Reviews, NEW i, Approve(m, r, i) \/ AskDraft(m, r, i) \/ AskAnother(m, r, i)
          PROVE  HandTyped'
      BY <1>0, <1>3, <2>1 DEF Approve, AskDraft, AskAnother, Works
    <2>2. ASSUME NEW r \in Reviews, NEW i, Retry(m, r, i) PROVE HandTyped'
      BY <1>0, <1>1, <1>3, <2>2 DEF Retry, Works
    <2>. QED
      BY <1>1, <1>8, <1>9, <2>1, <2>2 DEF Ask, DismissEdit, WriteReply, Reject
  <1>10. CASE Mishap
    BY <1>0, <1>1, <1>2, <1>10
    DEF Mishap, ListFails, DraftFails, PollIsRefused, PollBreaks, Crash, ApproveIsRefused,
        ApproveBreaks, ComposingFails, Release, Ends, NextReview
  <1>11. ASSUME NEW r \in Reviews, OwnerReplies(r) PROVE HandTyped'
    <2>1. hand' = [s \in Sessions |-> IF cur[s] = r /\ hand[s] = "live" THEN "draft" ELSE hand[s]]
      BY <1>11 DEF OwnerReplies
    <2>. QED
      BY <1>0, <2>1 DEF HandTyped
  <1>12. CASE Abroad \/ LeaseLapses \/ BackoffEnds
    BY <1>1, <1>11, <1>12 DEF Abroad, ReviewerWrites, Analyse, LeaseLapses, BackoffEnds
  <1>13. CASE UNCHANGED vars
    BY <1>1, <1>13 DEF vars
  <1>. QED
    BY <1>6, <1>7, <1>9, <1>10, <1>12, <1>13 DEF RepliesNext

-----------------------------------------------------------------------------
(* Polls, and the bounds                                                   *)

LEMMA Within ==
    ASSUME AtGoogle, NEW r \in Reviews, NEW n \in Nat, n <= review[r]
    PROVE  n \in 0..MaxChanges
  <1>1. review[r] \in Nat /\ review[r] <= changes /\ changes \in 0..MaxChanges
    BY DEF AtGoogle
  <1>2. MaxChanges \in Nat
    BY ConstantsAssumption
  <1>. QED
    BY <1>1, <1>2

LEMMA DealtWith ==
    ASSUME PollTyped, AtGoogle, ListingTyped, NEW s \in Sessions, NEW r \in Reviews,
           NEW n \in Nat, Dealt(r, listing[s][r].about, n)
    PROVE  looked' \in [Reviews -> [about : 0..MaxChanges, n : Nat]]
  <1>1. PICK a : a = listing[s][r].about
    OBVIOUS
  <1>2. a \in Nat /\ a <= review[r]
    BY <1>1 DEF ListingTyped, Listed
  <1>3. a \in 0..MaxChanges
    BY <1>2, Within
  <1>4. PICK b \in 0..MaxChanges, k \in Nat : b = looked[r].about /\ k = looked[r].n
    BY DEF PollTyped
  <1>5. MaxChanges \in Nat
    BY ConstantsAssumption
  <1>6. Max({b, a}) \in 0..MaxChanges /\ Max({k, n}) \in Nat
    <2>1. Max({b, a}) \in {b, a}
      BY <1>2, <1>4, <1>5, MaxOfTwo
    <2>2. Max({k, n}) \in {k, n}
      BY <1>4, MaxOfTwo
    <2>. QED
      BY <1>3, <2>1, <2>2
  <1>7. PICK new \in [about : 0..MaxChanges, n : Nat] :
           new = [about |-> Max({b, a}), n |-> Max({k, n})]
    BY <1>6
  <1>8. looked' = [looked EXCEPT ![r] = new]
    BY <1>1, <1>4, <1>7 DEF Dealt
  <1>. QED
    BY <1>8 DEF PollTyped

LEMMA PollTypedStep ==
    ASSUME RInv, [RepliesNext]_vars
    PROVE  PollTyped'
  <1>. USE DEF google, files, polling, pollers, places, ghosts, bounds
  <1>0. /\ PollTyped /\ AtGoogle /\ ListingTyped /\ PcTyped
        /\ Pollers \subseteq Sessions /\ Clerks \subseteq Sessions
    BY DEF RInv, Sessions
  <1>. DEFINE Leases == lease \in {"free", "held", "past"} /\ backoff \in BOOLEAN
              News == /\ news \subseteq Reviews /\ passed \subseteq Reviews
                      /\ cut \in [Pollers -> SUBSET Reviews] /\ todo \in [Pollers -> SUBSET Reviews]
              Looked == looked \in [Reviews -> [about : 0..MaxChanges, n : Nat]]
              Ordered == orders \in 0..MaxOrders
              Faulty == faults \in 0..MaxFaults
  <1>1. Leases /\ News /\ Looked /\ Ordered /\ Faulty
    BY <1>0 DEF PollTyped
  <1>2. Leases'
    <2>1. ASSUME UNCHANGED <<lease, backoff>> PROVE Leases'
      BY <1>1, <2>1
    <2>2. ASSUME NEW w \in Pollers, PollStep(w) PROVE Leases'
      BY <1>1, <2>1, <2>2
      DEF PollStep, Load, Claim, Claimed, SkipBackedOff, List, Adopt, LeaveAlone,
          DraftReply, FollowEdit, Begin, QueueDraft, PollPosts, PollRecords, PollEnds,
          Release
    <2>3. ASSUME NEW m \in Clerks, RequestStep(m) \/ Ask(m) PROVE Leases'
      <3>1. UNCHANGED <<lease, backoff>>
        BY <2>3
        DEF RequestStep, Ask, ApprovePosts, ApproveRecords, Composed, DismissEdit, Approve,
            WriteReply, AskDraft, AskAnother, Retry, Edit, Reject
      <3>. QED
        BY <2>1, <3>1
    <2>4. CASE Mishap
      BY <1>1, <2>4
      DEF Mishap, ListFails, DraftFails, PollIsRefused, PollBreaks, Crash, ApproveIsRefused,
          ApproveBreaks, ComposingFails, Release
    <2>5. CASE Abroad \/ LeaseLapses \/ BackoffEnds
      BY <1>1, <2>5
      DEF Abroad, ReviewerWrites, OwnerReplies, Analyse, LeaseLapses, BackoffEnds
    <2>6. CASE UNCHANGED vars
      BY <1>1, <2>6 DEF vars
    <2>. QED
      BY <2>2, <2>3, <2>4, <2>5, <2>6 DEF RepliesNext
  <1>3. News'
    <2>1. ASSUME UNCHANGED <<news, passed, cut, todo>> PROVE News'
      BY <1>1, <2>1
    <2>2. ASSUME NEW w \in Pollers, Release(w) PROVE News'
      BY <1>1, <2>2 DEF Release
    <2>3. ASSUME NEW r \in Reviews, BecomesNews(r), UNCHANGED <<passed, todo>> PROVE News'
      BY <1>1, <2>3 DEF BecomesNews
    <2>4. ASSUME NEW w \in Pollers, NEW r \in Reviews, Came(w, r), UNCHANGED <<news, passed, cut>>
          PROVE  News'
      BY <1>1, <2>4 DEF Came
    <2>5. ASSUME NEW w \in Pollers, Load(w) \/ Claim(w) \/ List(w) PROVE News'
      BY <1>1, <2>5 DEF Load, Claim, Claimed, List
    <2>6. ASSUME NEW w \in Pollers, PollPosts(w) PROVE News'
      BY <1>0, <2>3, <2>6, Busy DEF PollPosts, PollDrafting, Shown
    <2>7. ASSUME NEW w \in Pollers, PollStep(w) PROVE News'
      BY <2>1, <2>2, <2>4, <2>5, <2>6, <2>7
      DEF PollStep, SkipBackedOff, Adopt, LeaveAlone, DraftReply, FollowEdit, Begin,
          QueueDraft, NextReview, PollRecords, PollEnds
    <2>8. ASSUME NEW m \in Clerks, ApprovePosts(m) PROVE News'
      BY <1>0, <2>3, <2>8, Busy DEF ApprovePosts, Shown
    <2>9. ASSUME NEW m \in Clerks, RequestStep(m) PROVE News'
      BY <2>1, <2>8, <2>9 DEF RequestStep, ApproveRecords, Composed
    <2>10. ASSUME NEW m \in Clerks, Ask(m) PROVE News'
      <3>1. UNCHANGED <<news, passed, cut, todo>>
        BY <2>10
        DEF Ask, DismissEdit, Approve, WriteReply, AskDraft, AskAnother, Retry, Edit, Reject
      <3>. QED
        BY <2>1, <3>1
    <2>11. ASSUME NEW w \in Pollers, Crash(w) PROVE News'
      BY <1>1, <2>11 DEF Crash
    <2>12. CASE Mishap
      BY <2>1, <2>2, <2>11, <2>12
      DEF Mishap, ListFails, DraftFails, PollIsRefused, PollBreaks, ApproveIsRefused,
          ApproveBreaks, ComposingFails, NextReview
    <2>13. CASE Abroad \/ LeaseLapses \/ BackoffEnds
      BY <2>1, <2>3, <2>13
      DEF Abroad, ReviewerWrites, OwnerReplies, Analyse, LeaseLapses, BackoffEnds
    <2>14. CASE UNCHANGED vars
      BY <2>1, <2>14 DEF vars
    <2>. QED
      BY <2>7, <2>9, <2>10, <2>12, <2>13, <2>14 DEF RepliesNext
  <1>4. Looked'
    <2>1. ASSUME UNCHANGED looked PROVE Looked'
      BY <1>1, <2>1
    <2>2. ASSUME NEW s \in Sessions, NEW r \in Reviews, NEW n \in Nat,
                 Dealt(r, listing[s][r].about, n)
          PROVE  Looked'
      BY <1>0, <2>2, DealtWith
    <2>3. \A s \in Sessions, r \in Reviews : listing[s][r].n \in Nat /\ reply[r].n \in Nat
      BY <1>0 DEF ListingTyped, Listed, AtGoogle
    <2>4. ASSUME NEW w \in Pollers, NEW r \in Reviews, Adopt(w, r) \/ LeaveAlone(w, r) PROVE Looked'
      <3>1. Dealt(r, listing[w][r].about, listing[w][r].n)
        BY <2>4 DEF Adopt, LeaveAlone
      <3>. QED
        BY <1>0, <2>2, <2>3, <3>1
    <2>5. ASSUME NEW w \in Pollers, cur[w] \in Reviews, NextReview(w) PROVE Looked'
      <3>1. PICK r \in Reviews : r = cur[w]
        BY <2>5
      <3>2. PICK n \in Nat : n = IF hand[w] = "live" THEN reply[r].n ELSE listing[w][r].n
        BY <1>0, <2>3
      <3>3. Dealt(r, listing[w][r].about, n)
        BY <2>5, <3>1, <3>2 DEF NextReview
      <3>. QED
        BY <1>0, <2>2, <3>3
    <2>6. ASSUME NEW w \in Pollers, QueueDraft(w) \/ PollRecords(w) \/ DraftFails(w) PROVE Looked'
      <3>1. cur[w] \in Reviews
        BY <1>0, <2>6, Busy DEF QueueDraft, PollRecords, DraftFails, PollDrafting
      <3>2. NextReview(w)
        BY <2>6 DEF QueueDraft, PollRecords, DraftFails
      <3>. QED
        BY <2>5, <3>1, <3>2
    <2>. HIDE DEF Looked
    <2>7. ASSUME NEW w \in Pollers, PollStep(w) PROVE Looked'
      BY <2>1, <2>4, <2>6, <2>7
      DEF PollStep, Load, Claim, SkipBackedOff, List, DraftReply, FollowEdit, Begin,
          PollPosts, PollEnds
    <2>8. ASSUME NEW m \in Clerks, RequestStep(m) PROVE Looked'
      BY <2>1, <2>8 DEF RequestStep, ApprovePosts, ApproveRecords, Composed
    <2>9. ASSUME NEW m \in Clerks, Ask(m) PROVE Looked'
      <3>1. UNCHANGED looked
        BY <2>9
        DEF Ask, DismissEdit, Approve, WriteReply, AskDraft, AskAnother, Retry, Edit, Reject
      <3>. QED
        BY <2>1, <3>1
    <2>10. CASE Mishap
      BY <2>1, <2>6, <2>10
      DEF Mishap, ListFails, PollIsRefused, PollBreaks, Crash, ApproveIsRefused,
          ApproveBreaks, ComposingFails
    <2>11. CASE Abroad \/ LeaseLapses \/ BackoffEnds
      BY <2>1, <2>11
      DEF Abroad, ReviewerWrites, OwnerReplies, Analyse, LeaseLapses, BackoffEnds
    <2>12. CASE UNCHANGED vars
      BY <2>1, <2>12 DEF vars
    <2>. QED
      BY <2>7, <2>8, <2>9, <2>10, <2>11, <2>12 DEF RepliesNext
  <1>5. MaxOrders \in Nat /\ MaxFaults \in Nat
    BY ConstantsAssumption
  <1>6. Ordered'
    <2>1. ASSUME UNCHANGED orders PROVE Ordered'
      BY <1>1, <2>1
    <2>2. ASSUME NEW m \in Clerks, Asks(m) PROVE Ordered'
      BY <1>1, <1>5, <2>2 DEF Asks
    <2>. HIDE DEF Ordered
    <2>3. ASSUME NEW w \in Pollers, PollStep(w) PROVE Ordered'
      <3>1. UNCHANGED orders
        BY <2>3
        DEF PollStep, Load, Claim, SkipBackedOff, List, Adopt, LeaveAlone, DraftReply,
            FollowEdit, Begin, QueueDraft, PollPosts, PollRecords, PollEnds
      <3>. QED
        BY <2>1, <3>1
    <2>4. ASSUME NEW m \in Clerks, RequestStep(m) PROVE Ordered'
      BY <2>1, <2>4 DEF RequestStep, ApprovePosts, ApproveRecords, Composed
    <2>5. ASSUME NEW m \in Clerks, Ask(m) PROVE Ordered'
      <3>1. Asks(m)
        BY <2>5
        DEF Ask, DismissEdit, Approve, WriteReply, AskDraft, AskAnother, Retry, Edit, Reject
      <3>. QED
        BY <2>2, <3>1
    <2>6. CASE Mishap
      BY <2>1, <2>6
      DEF Mishap, ListFails, DraftFails, PollIsRefused, PollBreaks, Crash, ApproveIsRefused,
          ApproveBreaks, ComposingFails
    <2>7. CASE Abroad \/ LeaseLapses \/ BackoffEnds
      BY <2>1, <2>7
      DEF Abroad, ReviewerWrites, OwnerReplies, Analyse, LeaseLapses, BackoffEnds
    <2>8. CASE UNCHANGED vars
      BY <2>1, <2>8 DEF vars
    <2>. QED
      BY <2>3, <2>4, <2>5, <2>6, <2>7, <2>8 DEF RepliesNext
  <1>7. Faulty'
    <2>1. ASSUME UNCHANGED faults PROVE Faulty'
      BY <1>1, <2>1
    <2>2. ASSUME Fails PROVE Faulty'
      BY <1>1, <1>5, <2>2 DEF Fails
    <2>. HIDE DEF Faulty
    <2>3. ASSUME NEW w \in Pollers, PollStep(w) PROVE Faulty'
      <3>1. UNCHANGED faults
        BY <2>3
        DEF PollStep, Load, Claim, SkipBackedOff, List, Adopt, LeaveAlone, DraftReply,
            FollowEdit, Begin, QueueDraft, PollPosts, PollRecords, PollEnds
      <3>. QED
        BY <2>1, <3>1
    <2>4. ASSUME NEW m \in Clerks, RequestStep(m) PROVE Faulty'
      BY <2>1, <2>4 DEF RequestStep, ApprovePosts, ApproveRecords, Composed
    <2>5. ASSUME NEW m \in Clerks, Ask(m) PROVE Faulty'
      <3>1. UNCHANGED faults
        BY <2>5
        DEF Ask, DismissEdit, Approve, WriteReply, AskDraft, AskAnother, Retry, Edit, Reject
      <3>. QED
        BY <2>1, <3>1
    <2>6. CASE Mishap
      BY <2>2, <2>6
      DEF Mishap, ListFails, DraftFails, PollIsRefused, PollBreaks, Crash, ApproveIsRefused,
          ApproveBreaks, ComposingFails
    <2>7. CASE Abroad \/ LeaseLapses \/ BackoffEnds
      BY <2>1, <2>7
      DEF Abroad, ReviewerWrites, OwnerReplies, Analyse, LeaseLapses, BackoffEnds
    <2>8. CASE UNCHANGED vars
      BY <2>1, <2>8 DEF vars
    <2>. QED
      BY <2>3, <2>4, <2>5, <2>6, <2>7, <2>8 DEF RepliesNext
  <1>. QED
    BY <1>2, <1>3, <1>4, <1>6, <1>7 DEF PollTyped

-----------------------------------------------------------------------------
(* Drafts for reviews without an answer                                    *)

\* Who writes a first draft after the step did so before it, from the same listing.
StillNew == \A w \in Pollers :
    pc'[w] = "new" => pc[w] = "new" /\ cur'[w] = cur[w] /\ listing'[w] = listing[w]

LEMMA NewStays ==
    ASSUME PcTyped, ListingTyped, [RepliesNext]_vars
    PROVE  \/ StillNew
           \/ \E w \in Pollers, r \in Reviews : DraftReply(w, r)
  <1>. USE DEF google, files, polling, pollers, places, ghosts, bounds
  <1>0. /\ pc = [s \in Sessions |-> pc[s]] /\ cur = [s \in Sessions |-> cur[s]]
        /\ listing = [s \in Sessions |-> listing[s]]
        /\ Pollers \subseteq Sessions /\ Clerks \subseteq Sessions
        /\ \A m \in Clerks : m \notin Pollers
    BY ConstantsAssumption DEF PcTyped, ListingTyped, Sessions
  <1>1. ASSUME UNCHANGED <<pc, cur, listing>> PROVE StillNew
    BY <1>1 DEF StillNew
  <1>2. ASSUME NEW w \in Pollers, NEW to, Goto(w, to), to # "new",
               \A v \in Pollers \ {w} : cur'[v] = cur[v] /\ listing'[v] = listing[v]
        PROVE  StillNew
    BY <1>0, <1>2 DEF StillNew, Goto
  <1>3. ASSUME NEW m \in Clerks, NEW to, Goto(m, to),
               \A v \in Pollers \ {m} : cur'[v] = cur[v] /\ listing'[v] = listing[v]
        PROVE  StillNew
    BY <1>0, <1>3 DEF StillNew, Goto
  <1>4. ASSUME NEW w \in Pollers, Release(w) PROVE StillNew
    BY <1>0, <1>2, <1>4 DEF Release, Ends
  <1>5. ASSUME NEW w \in Pollers, NextReview(w), UNCHANGED listing PROVE StillNew
    BY <1>0, <1>2, <1>5 DEF NextReview
  <1>6. ASSUME NEW w \in Pollers, NEW r \in Reviews, FollowEdit(w, r) PROVE StillNew
    <2>1. PICK kind \in {"refresh", "follow"} : \E i : Begin(w, r, kind, i)
      BY <1>6 DEF FollowEdit
    <2>. QED
      BY <1>0, <1>2, <2>1 DEF Begin
  <1>7. ASSUME NEW w \in Pollers, Load(w) \/ Claim(w) \/ List(w) PROVE StillNew
    BY <1>0, <1>2, <1>7 DEF Load, Claim, Claimed, List
  <1>8. ASSUME NEW w \in Pollers, PollPosts(w) \/ PollIsRefused(w) PROVE StillNew
    BY <1>0, <1>2, <1>8 DEF PollPosts, PollIsRefused
  <1>9. ASSUME NEW w \in Pollers, PollStep(w), \A r \in Reviews : ~DraftReply(w, r) PROVE StillNew
    BY <1>1, <1>4, <1>5, <1>6, <1>7, <1>8, <1>9
    DEF PollStep, SkipBackedOff, Adopt, LeaveAlone, QueueDraft, PollRecords, PollEnds
  <1>10. ASSUME NEW m \in Clerks, RequestStep(m) PROVE StillNew
    BY <1>0, <1>3, <1>10 DEF RequestStep, ApprovePosts, ApproveRecords, Composed, Ends
  <1>11. ASSUME NEW m \in Clerks, NEW r, NEW i, NEW kind, NEW text, Works(m, r, kind, i, text),
                \A v \in Pollers \ {m} : listing'[v] = listing[v]
         PROVE  StillNew
    BY <1>0, <1>3, <1>11 DEF Works
  <1>12. ASSUME NEW m \in Clerks, NEW r \in Reviews, NEW i,
                \/ Approve(m, r, i) \/ AskDraft(m, r, i) \/ AskAnother(m, r, i) \/ Retry(m, r, i)
         PROVE  StillNew
    BY <1>0, <1>1, <1>11, <1>12 DEF Approve, AskDraft, AskAnother, Retry
  <1>13. ASSUME NEW m \in Clerks, Ask(m) PROVE StillNew
    BY <1>1, <1>12, <1>13 DEF Ask, DismissEdit, WriteReply, Edit, Reject
  <1>14. ASSUME NEW w \in Pollers, ListFails(w) \/ DraftFails(w) \/ PollBreaks(w) \/ Crash(w)
         PROVE  StillNew
    BY <1>0, <1>2, <1>4, <1>5, <1>14 DEF ListFails, DraftFails, PollBreaks, Crash, Ends
  <1>15. ASSUME NEW m \in Clerks, ApproveIsRefused(m) \/ ApproveBreaks(m) \/ ComposingFails(m)
         PROVE  StillNew
    BY <1>0, <1>3, <1>15 DEF ApproveIsRefused, ApproveBreaks, ComposingFails, Ends
  <1>16. CASE Mishap
    BY <1>8, <1>14, <1>15, <1>16 DEF Mishap
  <1>17. CASE Abroad \/ LeaseLapses \/ BackoffEnds
    BY <1>1, <1>17
    DEF Abroad, ReviewerWrites, OwnerReplies, Analyse, LeaseLapses, BackoffEnds
  <1>18. CASE UNCHANGED vars
    BY <1>1, <1>18 DEF vars
  <1>. QED
    BY <1>9, <1>10, <1>13, <1>16, <1>17, <1>18 DEF RepliesNext

\* An answer that is listed is adopted, unless it is on file.
LEMMA DraftedUnanswered ==
    ASSUME RInv, NEW w \in Pollers, NEW r \in Reviews, DraftReply(w, r)
    PROVE  /\ listing[w][r].n = 0
           /\ cur'[w] = r /\ listing' = listing
           /\ \A v \in Pollers \ {w} : pc'[v] = pc[v] /\ cur'[v] = cur[v]
  <1>0. w \in Sessions /\ RowsTyped /\ PcTyped /\ ListingTyped
    BY DEF RInv, Sessions
  <1>1. OnFile(r) = {} /\ ~MustAdopt(r, listing[w][r]) /\ \E i : Begin(w, r, "new", i)
    BY DEF DraftReply
  <1>2. ~Known(r, listing[w][r])
    <2>. SUFFICES ASSUME Known(r, listing[w][r]) PROVE FALSE
      OBVIOUS
    <2>1. Latest(Indices(r)) # 0 /\ rows[r][Latest(Indices(r))].status = "posted"
      BY DEF Known
    <2>2. Latest(Indices(r)) \in Indices(r)
      BY <1>0, <2>1, LatestWith
    <2>. QED
      BY <1>1, <2>1, <2>2 DEF OnFile, With
  <1>3. listing[w][r].by = "nobody"
    BY <1>1, <1>2 DEF MustAdopt
  <1>4. listing[w][r].n = 0
    BY <1>0, <1>3 DEF ListingTyped
  <1>. QED
    BY <1>0, <1>1, <1>4 DEF Begin, Goto, PcTyped, pollers

LEMMA NewStep ==
    ASSUME RInv, [RepliesNext]_vars
    PROVE  NewIsUnanswered'
  <1>0. PcTyped /\ ListingTyped /\ NewIsUnanswered
    BY DEF RInv
  <1>1. CASE StillNew
    BY <1>0, <1>1 DEF NewIsUnanswered, StillNew
  <1>2. ASSUME NEW w \in Pollers, NEW r \in Reviews, DraftReply(w, r) PROVE NewIsUnanswered'
    <2>1. /\ listing[w][r].n = 0
          /\ cur'[w] = r /\ listing' = listing
          /\ \A v \in Pollers \ {w} : pc'[v] = pc[v] /\ cur'[v] = cur[v]
      BY <1>2, DraftedUnanswered
    <2>. QED
      BY <1>0, <2>1 DEF NewIsUnanswered
  <1>. QED
    BY <1>0, <1>1, <1>2, NewStays

-----------------------------------------------------------------------------
(* The invariant                                                           *)

LEMMA RInvInit ==
    ASSUME RepliesInit
    PROVE  RInv
  <1>0. MaxChanges \in Nat /\ MaxOrders \in Nat /\ MaxFaults \in Nat /\ Pollers \subseteq Sessions
    BY ConstantsAssumption DEF Sessions
  <1>1. AtGoogle /\ InsightTyped
    BY <1>0 DEF RepliesInit, AtGoogle, InsightTyped
  <1>2. RowsTyped
    BY DEF RepliesInit, RowsTyped
  <1>3. ListingTyped
    BY <1>0 DEF RepliesInit, ListingTyped, Listed, Unlisted
  <1>4. PcTyped /\ AtTyped /\ NewIsUnanswered
    BY <1>0 DEF RepliesInit, PcTyped, AtTyped, NewIsUnanswered
  <1>5. HandTyped
    BY <1>0 DEF RepliesInit, HandTyped, Texts
  <1>6. PollTyped
    <2>1. 0 \in 0..MaxChanges /\ 0 \in 0..MaxOrders /\ 0 \in 0..MaxFaults /\ 0 \in Nat
      BY <1>0
    <2>2. looked \in [Reviews -> [about : 0..MaxChanges, n : Nat]]
      BY <2>1 DEF RepliesInit
    <2>3. orders \in 0..MaxOrders /\ faults \in 0..MaxFaults
      BY <2>1 DEF RepliesInit
    <2>. QED
      BY <2>2, <2>3 DEF RepliesInit, PollTyped
  <1>. QED
    BY <1>1, <1>2, <1>3, <1>4, <1>5, <1>6 DEF RInv

LEMMA RInvStep ==
    ASSUME RInv, [RepliesNext]_vars
    PROVE  RInv'
  <1>0. AtGoogle /\ PcTyped /\ HandTyped
    BY DEF RInv
  <1>1. AtGoogle' /\ Grows
    BY <1>0, GoogleStep
  <1>2. RowsTyped' /\ RowsGrow
    BY <1>1, RowsStep
  <1>3. InsightTyped' /\ ListingTyped'
    BY <1>1, InsightStep, ListingStep
  <1>4. PcTyped' /\ AtTyped'
    BY <1>2, PlacesStep
  <1>5. HandTyped' /\ PollTyped' /\ NewIsUnanswered'
    BY <1>0, HandStep, PollTypedStep, NewStep
  <1>. QED
    BY <1>1, <1>2, <1>3, <1>4, <1>5 DEF RInv

LEMMA RInvTyped ==
    ASSUME RInv
    PROVE  TypeOK
  <1>0. /\ AtGoogle /\ RowsTyped /\ InsightTyped /\ ListingTyped /\ PcTyped /\ HandTyped
        /\ AtTyped /\ PollTyped
    BY DEF RInv
  <1>1. ASSUME NEW r \in Reviews
        PROVE  /\ review[r] \in 0..MaxChanges /\ told[r] \in 0..MaxChanges
               /\ insight[r].about \in 0..MaxChanges
    <2>1. review[r] \in Nat /\ told[r] \in Nat /\ insight[r].about \in Nat
      BY <1>0 DEF AtGoogle, InsightTyped
    <2>2. review[r] <= review[r] /\ told[r] <= review[r] /\ insight[r].about <= review[r]
      BY <1>0, <2>1 DEF InsightTyped
    <2>. QED
      BY <1>0, <2>1, <2>2, Within
  <1>2. review \in [Reviews -> 0..MaxChanges] /\ told \in [Reviews -> 0..MaxChanges]
    BY <1>0, <1>1 DEF AtGoogle, InsightTyped
  <1>3. insight \in [Reviews -> [about : 0..MaxChanges, edited : BOOLEAN, dismissed : BOOLEAN]]
    <2>1. \A r \in Reviews :
             insight[r] \in [about : 0..MaxChanges, edited : BOOLEAN, dismissed : BOOLEAN]
      BY <1>0, <1>1 DEF InsightTyped
    <2>. QED
      BY <1>0, <2>1 DEF InsightTyped
  <1>4. ASSUME NEW s \in Sessions
        PROVE  at[s] \in 0..(IF cur[s] = NoReview THEN 0 ELSE Len(rows[cur[s]]))
    <2>1. at[s] \in Nat
      BY <1>0 DEF AtTyped
    <2>2. CASE cur[s] = NoReview
      <3>1. at[s] = 0
        BY <1>0, <2>2, ConstantsAssumption DEF AtTyped
      <3>. QED
        BY <2>2, <3>1
    <2>3. CASE cur[s] # NoReview
      <3>1. PICK r \in Reviews : r = cur[s]
        BY <1>0, <2>3 DEF PcTyped
      <3>2. Len(rows[r]) \in Nat
        BY <1>0 DEF RowsTyped
      <3>3. at[s] <= Len(rows[r])
        BY <1>0, <2>1, <3>1, <3>2 DEF AtTyped
      <3>. QED
        BY <2>1, <2>3, <3>1, <3>2, <3>3
    <2>. QED
      BY <2>2, <2>3
  <1>5. /\ reply \in [Reviews -> [by : {"nobody", "owner", "us"}, n : Nat]]
        /\ \A r \in Reviews : reply[r].n = 0 <=> reply[r].by = "nobody"
        /\ changes \in 0..MaxChanges
    BY <1>0 DEF AtGoogle
  <1>6. /\ rows \in [Reviews -> Seq(Row)]
        /\ \A r \in Reviews : \A i \in 1..Len(rows[r]) :
              rows[r][i].about <= review[r] /\ rows[r][i].id <= reply[r].n
    BY <1>0 DEF RowsTyped, WasAtGoogle
  <1>7. /\ listing \in [Sessions -> [Reviews -> Listed]]
        /\ pc \in [Sessions -> {"idle", "sent"} \cup Waiting \cup Drafting \cup Posting]
        /\ cur \in [Sessions -> Reviews \cup {NoReview}]
        /\ \A s \in Sessions : (cur[s] = NoReview) <=> pc[s] \in {"idle"} \cup Waiting
    BY <1>0 DEF ListingTyped, PcTyped
  <1>8. \A s \in Sessions : hand[s] \in Texts \cup {"row"}
    BY <1>0 DEF HandTyped
  <1>. QED
    BY <1>0, <1>2, <1>3, <1>4, <1>5, <1>6, <1>7, <1>8 DEF TypeOK, PollTyped

\* In every reachable state the poll's and the Outbox's variables have their types, the rows
\* on file answer versions and name replies that were at Google, and a session that is at a
\* row is at one of its review's.
THEOREM RepliesTyped == Spec => []TypeOK
  <1>1. RepliesInit => RInv
    BY RInvInit
  <1>2. RInv /\ [RepliesNext]_vars => RInv'
    BY RInvStep
  <1>3. RInv => TypeOK
    BY RInvTyped
  <1>. QED
    BY <1>1, <1>2, <1>3, PTL DEF Spec

-----------------------------------------------------------------------------
(* The owner's answer                                                      *)

\* Only PollPosts sends.
LEMMA OnlyPostsSend ==
    ASSUME RInv, [RepliesNext]_vars, NEW w \in Pollers, PollDrafting(w), pc'[w] = "sent"
    PROVE  pc[w] \in {"new", "follow"}
  <1>. USE DEF google, files, polling, pollers, places, ghosts, bounds
  <1>0. /\ pc = [s \in Sessions |-> pc[s]]
        /\ Pollers \subseteq Sessions /\ Clerks \subseteq Sessions
        /\ \A m \in Clerks : m # w
        /\ pc[w] \in {"new", "refresh", "follow"}
    BY ConstantsAssumption DEF RInv, PcTyped, Sessions, PollDrafting
  <1>1. ASSUME NEW s \in Sessions, NEW to, Goto(s, to), to # "sent" PROVE FALSE
    BY <1>0, <1>1 DEF Goto
  <1>2. ASSUME NEW m \in Clerks, NEW to, Goto(m, to) PROVE FALSE
    BY <1>0, <1>2 DEF Goto
  <1>3. ASSUME UNCHANGED pc PROVE FALSE
    BY <1>0, <1>3
  <1>4. ASSUME NEW v \in Pollers, PollPosts(v) PROVE pc[w] \in {"new", "follow"}
    <2>1. v = w
      BY <1>0, <1>4 DEF PollPosts, Goto
    <2>. QED
      BY <1>4, <2>1 DEF PollPosts, MayPost
  <1>5. ASSUME NEW v \in Pollers, Release(v) \/ NextReview(v) PROVE FALSE
    BY <1>0, <1>1, <1>5 DEF Release, Ends, NextReview
  <1>6. ASSUME NEW v \in Pollers, NEW r \in Reviews, DraftReply(v, r) \/ FollowEdit(v, r)
        PROVE  FALSE
    BY <1>0, <1>1, <1>6 DEF DraftReply, FollowEdit, Begin
  <1>7. ASSUME NEW v \in Pollers, Load(v) \/ Claim(v) \/ List(v) PROVE FALSE
    BY <1>0, <1>1, <1>7 DEF Load, Claim, Claimed, List
  <1>8. ASSUME NEW v \in Pollers, PollStep(v) PROVE PollPosts(v)
    BY <1>3, <1>5, <1>6, <1>7, <1>8
    DEF PollStep, SkipBackedOff, Adopt, LeaveAlone, QueueDraft, PollRecords, PollEnds
  <1>9. ASSUME NEW m \in Clerks, RequestStep(m) PROVE FALSE
    BY <1>2, <1>9 DEF RequestStep, ApprovePosts, ApproveRecords, Composed, Ends
  <1>10. ASSUME NEW m \in Clerks, Ask(m) PROVE FALSE
    <2>1. ASSUME NEW r \in Reviews, NEW i,
                 \/ Approve(m, r, i) \/ AskDraft(m, r, i) \/ AskAnother(m, r, i) \/ Retry(m, r, i)
          PROVE  FALSE
      BY <1>2, <1>3, <2>1 DEF Approve, AskDraft, AskAnother, Retry, Works
    <2>. QED
      BY <1>3, <1>10, <2>1 DEF Ask, WriteReply, Edit, Reject, DismissEdit
  <1>11. ASSUME NEW v \in Pollers,
                ListFails(v) \/ DraftFails(v) \/ PollIsRefused(v) \/ PollBreaks(v) \/ Crash(v)
         PROVE  FALSE
    BY <1>0, <1>1, <1>5, <1>11
    DEF ListFails, DraftFails, PollIsRefused, PollBreaks, Crash, Ends
  <1>12. ASSUME Mishap PROVE FALSE
    BY <1>2, <1>11, <1>12 DEF Mishap, ApproveIsRefused, ApproveBreaks, ComposingFails, Ends
  <1>13. ASSUME Abroad \/ LeaseLapses \/ BackoffEnds \/ UNCHANGED vars PROVE FALSE
    BY <1>3, <1>13
    DEF Abroad, ReviewerWrites, OwnerReplies, Analyse, LeaseLapses, BackoffEnds, vars
  <1>. QED
    BY <1>4, <1>8, <1>9, <1>10, <1>12, <1>13 DEF RepliesNext

\* No step posts over an answer that was listed, but a follow-up.
LEMMA OwnersAnswerStep ==
    ASSUME RInv, [RepliesNext]_vars
    PROVE  [\A w \in Pollers :
              PollDrafting(w) /\ pc'[w] = "sent" /\ reply[cur[w]].by = "owner" =>
                  \/ listing[w][cur[w]].n # reply[cur[w]].n
                  \/ pc[w] = "follow"]_vars
  <1>. SUFFICES ASSUME NEW w \in Pollers, PollDrafting(w), pc'[w] = "sent",
                       reply[cur[w]].by = "owner", pc[w] # "follow"
                PROVE  listing[w][cur[w]].n # reply[cur[w]].n
    OBVIOUS
  <1>1. pc[w] = "new"
    BY OnlyPostsSend
  <1>2. listing[w][cur[w]].n = 0
    BY <1>1 DEF RInv, NewIsUnanswered
  <1>3. cur[w] \in Reviews
    BY <1>1, Busy DEF RInv, Sessions
  <1>4. reply[cur[w]].n # 0
    BY <1>3 DEF RInv, AtGoogle
  <1>. QED
    BY <1>2, <1>4

\* A poll posts over an answer of the owner only if that answer came after its listing, or as
\* a follow-up: a first draft is of a review that was listed without an answer, and what only
\* brings a draft up to date is never posted.
THEOREM OwnersAnswersStand == Spec => OwnersAnswerStands
  <1>1. RepliesInit => RInv
    BY RInvInit
  <1>2. RInv /\ [RepliesNext]_vars => RInv'
    BY RInvStep
  <1>3. RInv /\ [RepliesNext]_vars =>
           [\A w \in Pollers :
              PollDrafting(w) /\ pc'[w] = "sent" /\ reply[cur[w]].by = "owner" =>
                  \/ listing[w][cur[w]].n # reply[cur[w]].n
                  \/ pc[w] = "follow"]_vars
    BY OwnersAnswerStep
  <1>. QED
    BY <1>1, <1>2, <1>3, PTL DEF Spec, OwnersAnswerStands

-----------------------------------------------------------------------------
(* The inductive invariant of ConnectImport                                *)

GoogleTyped ==
    /\ review \in [Reviews -> Nat]
    /\ reply \in [Reviews -> [by : {"nobody", "owner", "us"}, n : Nat]]

SessionTyped == session \in [status : SessionStatuses, lease : {"free", "held", "past"}]

ItemsTyped ==
    /\ item \in [Reviews -> [status : ItemStatuses, about : Nat]]
    /\ \A r \in Reviews : item[r].status = "none" <=> item[r].about = 0

TasksTyped ==
    /\ ipc \in [Importers -> {"idle", "claimed", "fetching", "listed", "generating"}]
    /\ task \in [Importers -> [Reviews -> {"none", "waiting", "taking", "drafting"}]]
    /\ \A i \in Importers : ipc[i] # "generating" => \A r \in Reviews : task[i][r] = "none"

FoundTyped == found \in [Importers -> [Reviews -> Listed]]
CountsTyped ==
    asked \in [Reviews -> Nat] /\ raced \in [Reviews -> Nat] /\ drafted \in [Reviews -> Nat]

\* What is being taken or drafted is an item.
UnderWay == {"taking", "drafting"}
DraftedAreItems ==
    \A i \in Importers, r \in Reviews : task[i][r] \in UnderWay => item[r].status # "none"

\* Whoever takes or drafts an item has used up a demand or a race, and a pending item that
\* nobody is taking has a demand left.
Drafters(r) == {i \in Importers : task[i][r] \in UnderWay}
BeingTaken(r) == \E i \in Importers : task[i][r] = "taking"
Outstanding(r) == IF item[r].status = "pending" /\ ~BeingTaken(r) THEN 1 ELSE 0
Covered(r) == drafted[r] + Cardinality(Drafters(r)) + Outstanding(r) <= asked[r] + raced[r]

IInv ==
    /\ GoogleTyped /\ SessionTyped /\ ItemsTyped /\ TasksTyped /\ FoundTyped /\ CountsTyped
    /\ orphans \subseteq Reviews
    /\ DraftedAreItems /\ \A r \in Reviews : Covered(r)

ImportOrReplies == [RepliesNext]_vars /\ UNCHANGED import

-----------------------------------------------------------------------------
(* The steps of an import                                                  *)

\* A step of the import, of the poll and the Outbox, or none.
LEMMA ImportSteps ==
    ASSUME [Next]_ivars
    PROVE  \/ ImportOrReplies
           \/ \E i \in Importers : ImportStep(i) \/ ImportMishap(i)
           \/ ImportLeaseLapses \/ MerchantStep
  BY DEF Next, ivars, ImportOrReplies

LEMMA AnswerTyped ==
    ASSUME GoogleTyped, NEW r, NEW by \in {"owner", "us"},
           reply' = [reply EXCEPT ![r] = [by |-> by, n |-> @.n + 1]], UNCHANGED review
    PROVE  GoogleTyped'
  <1>1. ASSUME NEW q \in Reviews
        PROVE  reply'[q] \in [by : {"nobody", "owner", "us"}, n : Nat]
    <2>1. reply[q] \in [by : {"nobody", "owner", "us"}, n : Nat]
      BY DEF GoogleTyped
    <2>2. reply'[q] = IF q = r THEN [by |-> by, n |-> reply[q].n + 1] ELSE reply[q]
      BY DEF GoogleTyped
    <2>3. reply[q].n + 1 \in Nat
      BY <2>1
    <2>. QED
      BY <2>1, <2>2, <2>3
  <1>2. reply' = [q \in Reviews |-> reply'[q]]
    BY DEF GoogleTyped
  <1>. QED
    BY <1>1, <1>2 DEF GoogleTyped

LEMMA GoogleTypedStep ==
    ASSUME GoogleTyped, [Next]_ivars
    PROVE  GoogleTyped'
  <1>. USE DEF google, files, polling, pollers, places, ghosts, bounds
  <1>1. ASSUME UNCHANGED google PROVE GoogleTyped'
    BY <1>1 DEF GoogleTyped
  <1>2. ASSUME NEW w, PollPosts(w) PROVE GoogleTyped'
    BY <1>2, AnswerTyped DEF PollPosts, Shown
  <1>3. ASSUME NEW m, ApprovePosts(m) PROVE GoogleTyped'
    BY <1>3, AnswerTyped DEF ApprovePosts, Shown
  <1>4. ASSUME NEW r, OwnerReplies(r) PROVE GoogleTyped'
    BY <1>4, AnswerTyped DEF OwnerReplies
  <1>5. ASSUME NEW r \in Reviews, ReviewerWrites(r) PROVE GoogleTyped'
    <2>1. review[r] + 1 \in Nat
      BY DEF GoogleTyped
    <2>2. review' = [review EXCEPT ![r] = review[r] + 1] /\ UNCHANGED reply
      BY <1>5 DEF ReviewerWrites
    <2>. QED
      BY <2>1, <2>2 DEF GoogleTyped
  <1>6. ASSUME NEW w, PollStep(w) PROVE GoogleTyped'
    BY <1>1, <1>2, <1>6
    DEF PollStep, Load, Claim, SkipBackedOff, List, Adopt, LeaveAlone, DraftReply,
        FollowEdit, Begin, QueueDraft, PollRecords, PollEnds
  <1>7. ASSUME NEW m, RequestStep(m) PROVE GoogleTyped'
    BY <1>1, <1>3, <1>7 DEF RequestStep, ApproveRecords, Composed
  <1>8. ASSUME NEW m, Ask(m) PROVE GoogleTyped'
    <2>1. UNCHANGED google
      BY <1>8
      DEF Ask, Approve, WriteReply, AskDraft, AskAnother, Retry, Edit, Reject, DismissEdit
    <2>. QED
      BY <1>1, <2>1
  <1>9. ASSUME Mishap PROVE GoogleTyped'
    BY <1>1, <1>9
    DEF Mishap, ListFails, DraftFails, PollIsRefused, PollBreaks, Crash, ApproveIsRefused,
        ApproveBreaks, ComposingFails
  <1>10. ASSUME Abroad \/ LeaseLapses \/ BackoffEnds \/ UNCHANGED vars PROVE GoogleTyped'
    BY <1>1, <1>4, <1>5, <1>10 DEF Abroad, Analyse, LeaseLapses, BackoffEnds, vars
  <1>11. ASSUME ImportOrReplies PROVE GoogleTyped'
    BY <1>6, <1>7, <1>8, <1>9, <1>10, <1>11 DEF ImportOrReplies, RepliesNext
  <1>12. ASSUME NEW i, ImportStep(i) PROVE GoogleTyped'
    BY <1>1, <1>12
    DEF ImportStep, ClaimSession, NothingToDo, BeginFetch, FetchReviews, StoreFetched,
        BeginGenerate, FinishGenerate, TakeItem, MarkItem, Drafted, vars
  <1>13. ASSUME NEW i, ImportMishap(i) PROVE GoogleTyped'
    BY <1>1, <1>13 DEF ImportMishap, FetchFails, SessionFails, ImporterDies, DraftBreaks
  <1>14. ASSUME ImportLeaseLapses \/ MerchantStep PROVE GoogleTyped'
    BY <1>1, <1>14
    DEF ImportLeaseLapses, MerchantStep, StartGeneration, Reconnect, GenerateItem, Orders,
        vars
  <1>. QED
    BY <1>11, <1>12, <1>13, <1>14, ImportSteps

LEMMA SessionStep ==
    ASSUME SessionTyped, [Next]_ivars
    PROVE  SessionTyped'
  <1>1. ASSUME UNCHANGED session PROVE SessionTyped'
    BY <1>1 DEF SessionTyped
  <1>2. ASSUME NEW status \in SessionStatuses,
               \/ session' = [status |-> status, lease |-> "free"]
               \/ session' = [session EXCEPT !.status = status]
        PROVE  SessionTyped'
    BY <1>2 DEF SessionTyped
  <1>3. ASSUME NEW now \in {"free", "held", "past"}, session' = [session EXCEPT !.lease = now]
        PROVE  SessionTyped'
    BY <1>3 DEF SessionTyped
  <1>4. {"queued", "fetching", "awaiting_scope", "generating", "ready", "completed", "failed"}
           = SessionStatuses
    BY DEF SessionStatuses
  <1>5. ASSUME NEW i, ImportStep(i) PROVE SessionTyped'
    BY <1>1, <1>2, <1>3, <1>4, <1>5
    DEF ImportStep, ClaimSession, NothingToDo, BeginFetch, FetchReviews, StoreFetched,
        BeginGenerate, FinishGenerate, TakeItem, MarkItem, Drafted
  <1>6. ASSUME NEW i, ImportMishap(i) PROVE SessionTyped'
    BY <1>1, <1>2, <1>4, <1>6
    DEF ImportMishap, FetchFails, SessionFails, ImporterDies, DraftBreaks
  <1>7. ASSUME ImportLeaseLapses \/ MerchantStep PROVE SessionTyped'
    BY <1>2, <1>3, <1>4, <1>7
    DEF ImportLeaseLapses, MerchantStep, StartGeneration, Reconnect, GenerateItem
  <1>8. ASSUME ImportOrReplies PROVE SessionTyped'
    BY <1>1, <1>8 DEF ImportOrReplies, import
  <1>. QED
    BY <1>5, <1>6, <1>7, <1>8, ImportSteps

\* No item goes away.
ItemsStay == \A r \in Reviews : item[r].status # "none" => item'[r].status # "none"

LEMMA ItemsBecome ==
    ASSUME ItemsTyped, NEW rs, NEW status \in ItemStatuses \ {"none"}, Becomes(rs, status),
           \A r \in rs : r \in Reviews => item[r].status # "none"
    PROVE  ItemsTyped' /\ ItemsStay
  <1>1. ASSUME NEW r \in Reviews
        PROVE  /\ item'[r] \in [status : ItemStatuses, about : Nat]
               /\ item'[r].status = "none" <=> item'[r].about = 0
               /\ item[r].status # "none" => item'[r].status # "none"
    <2>1. item[r] \in [status : ItemStatuses, about : Nat]
          /\ (item[r].status = "none" <=> item[r].about = 0)
      BY DEF ItemsTyped
    <2>2. item'[r] = IF r \in rs THEN [item[r] EXCEPT !.status = status] ELSE item[r]
      BY DEF Becomes
    <2>. QED
      BY <2>1, <2>2
  <1>2. item' = [r \in Reviews |-> item'[r]]
    BY DEF Becomes
  <1>. QED
    BY <1>1, <1>2 DEF ItemsTyped, ItemsStay

LEMMA ItemsStep ==
    ASSUME ItemsTyped, FoundTyped, DraftedAreItems, [Next]_ivars
    PROVE  ItemsTyped' /\ ItemsStay
  <1>. DEFINE Goal == ItemsTyped' /\ ItemsStay
  <1>1. ASSUME UNCHANGED item PROVE Goal
    BY <1>1 DEF ItemsTyped, ItemsStay
  <1>2. ASSUME NEW rs, NEW status \in ItemStatuses \ {"none"}, Becomes(rs, status),
               \A r \in rs : r \in Reviews => item[r].status # "none"
        PROVE  Goal
    BY <1>2, ItemsBecome
  <1>3. {"pending", "generating", "outside_scope", "failed"} \subseteq ItemStatuses \ {"none"}
    BY DEF ItemStatuses
  <1>4. ASSUME NEW i \in Importers, StoreFetched(i) PROVE Goal
    <2>1. PICK row : item' = [r \in Reviews |-> Fetched(r, found[i][r], row[r])]
      BY <1>4 DEF StoreFetched
    <2>2. ASSUME NEW r \in Reviews
          PROVE  /\ item'[r] \in [status : ItemStatuses, about : Nat]
                 /\ item'[r].status = "none" <=> item'[r].about = 0
                 /\ item[r].status # "none" => item'[r].status # "none"
      <3>1. /\ item[r] \in [status : ItemStatuses, about : Nat]
            /\ item[r].status = "none" <=> item[r].about = 0
            /\ found[i][r].about \in Nat
        BY DEF ItemsTyped, FoundTyped, Listed
      <3>2. item'[r] = Fetched(r, found[i][r], row[r])
        BY <2>1
      <3>. QED
        BY <3>1, <3>2 DEF Fetched, ItemStatuses
    <2>3. item' = [r \in Reviews |-> item'[r]]
      BY <2>1
    <2>. QED
      BY <2>2, <2>3 DEF ItemsTyped, ItemsStay
  <1>. HIDE DEF Goal
  <1>5. ASSUME NEW i \in Importers, BeginGenerate(i) \/ FinishGenerate(i) PROVE Goal
    BY <1>2, <1>3, <1>5 DEF BeginGenerate, FinishGenerate, Interrupted, ItemsIn
  <1>6. ASSUME NEW i \in Importers, NEW r \in Reviews, MarkItem(i, r) \/ DraftBreaks(i, r)
        PROVE  Goal
    BY <1>2, <1>3, <1>6 DEF MarkItem, DraftBreaks, DraftedAreItems, UnderWay
  <1>7. ASSUME NEW i \in Importers, ImportStep(i) PROVE Goal
    BY <1>1, <1>4, <1>5, <1>6, <1>7
    DEF ImportStep, ClaimSession, NothingToDo, BeginFetch, FetchReviews, TakeItem, Drafted
  <1>8. ASSUME NEW i \in Importers, ImportMishap(i) PROVE Goal
    BY <1>1, <1>6, <1>8 DEF ImportMishap, FetchFails, SessionFails, ImporterDies
  <1>9. ASSUME ImportLeaseLapses \/ MerchantStep PROVE Goal
    BY <1>1, <1>2, <1>3, <1>9
    DEF ImportLeaseLapses, MerchantStep, StartGeneration, Reconnect, GenerateItem, ItemsIn
  <1>10. ASSUME ImportOrReplies PROVE Goal
    BY <1>1, <1>10 DEF ImportOrReplies, import
  <1>11. Goal
    BY <1>7, <1>8, <1>9, <1>10, ImportSteps
  <1>. QED
    BY <1>11 DEF Goal

\* What is being taken or drafted was pending when it was read.
TasksTaken ==
    \A i \in Importers, r \in Reviews :
        task'[i][r] \in UnderWay => task[i][r] \in UnderWay \/ item[r].status = "pending"

LEMMA TasksSet ==
    ASSUME TasksTyped, NEW i \in Importers, NEW to \in {"idle", "generating"},
           NEW ts \in [Reviews -> {"none", "waiting", "taking", "drafting"}],
           \A r \in Reviews : ts[r] \notin UnderWay, to = "idle" => \A r \in Reviews : ts[r] = "none",
           Moves(i, to), task' = [task EXCEPT ![i] = ts]
    PROVE  TasksTyped' /\ TasksTaken
  <1>1. /\ \A j \in Importers : ipc'[j] = IF j = i THEN to ELSE ipc[j]
        /\ \A j \in Importers : task'[j] = IF j = i THEN ts ELSE task[j]
    BY DEF TasksTyped, Moves
  <1>2. /\ ipc' \in [Importers -> {"idle", "claimed", "fetching", "listed", "generating"}]
        /\ task' \in [Importers -> [Reviews -> {"none", "waiting", "taking", "drafting"}]]
    BY DEF TasksTyped, Moves
  <1>3. \A j \in Importers : ipc'[j] # "generating" => \A r \in Reviews : task'[j][r] = "none"
    BY <1>1 DEF TasksTyped
  <1>4. TasksTaken
    BY <1>1 DEF TasksTaken
  <1>. QED
    BY <1>2, <1>3, <1>4 DEF TasksTyped

LEMMA TaskSet ==
    ASSUME TasksTyped, NEW i \in Importers, NEW r \in Reviews,
           NEW t \in {"none", "taking", "drafting"},
           t \in UnderWay => task[i][r] \in UnderWay \/ item[r].status = "pending", task[i][r] # "none",
           task' = [task EXCEPT ![i][r] = t], UNCHANGED ipc
    PROVE  TasksTyped' /\ TasksTaken
  <1>1. \A j \in Importers, q \in Reviews :
           task'[j][q] = IF j = i /\ q = r THEN t ELSE task[j][q]
    BY DEF TasksTyped
  <1>2. task' \in [Importers -> [Reviews -> {"none", "waiting", "taking", "drafting"}]]
    BY DEF TasksTyped
  <1>3. ipc[i] = "generating"
    BY DEF TasksTyped
  <1>4. \A j \in Importers : ipc'[j] # "generating" => \A q \in Reviews : task'[j][q] = "none"
    BY <1>1, <1>3 DEF TasksTyped
  <1>5. TasksTaken
    BY <1>1 DEF TasksTaken
  <1>. QED
    BY <1>2, <1>4, <1>5 DEF TasksTyped

LEMMA TasksStep ==
    ASSUME TasksTyped, [Next]_ivars
    PROVE  TasksTyped' /\ TasksTaken
  <1>. DEFINE Goal == TasksTyped' /\ TasksTaken
  <1>1. ASSUME UNCHANGED <<ipc, task>> PROVE Goal
    BY <1>1 DEF TasksTyped, TasksTaken
  <1>2. ASSUME NEW i \in Importers, NEW to \in {"claimed", "fetching", "listed"},
               ipc[i] # "generating", Moves(i, to), UNCHANGED task
        PROVE  Goal
    BY <1>2 DEF Moves, TasksTyped, TasksTaken
  <1>3. ASSUME NEW i \in Importers, Quits(i) PROVE Goal
    <2>1. PICK ts \in [Reviews -> {"none", "waiting", "taking", "drafting"}] :
             ts = [r \in Reviews |-> "none"]
      OBVIOUS
    <2>. QED
      BY <1>3, <2>1, TasksSet DEF Quits, UnderWay
  <1>4. ASSUME NEW i \in Importers, BeginGenerate(i) PROVE Goal
    <2>1. CASE Quits(i)
      BY <1>3, <2>1
    <2>2. CASE ~Quits(i)
      <3>1. PICK pending : /\ task' = [task EXCEPT ![i] = [r \in Reviews |->
                                         IF r \in pending THEN "waiting" ELSE "none"]]
                           /\ Moves(i, "generating")
        BY <1>4, <2>2 DEF BeginGenerate
      <3>2. PICK ts \in [Reviews -> {"none", "waiting", "taking", "drafting"}] :
               ts = [r \in Reviews |-> IF r \in pending THEN "waiting" ELSE "none"]
        OBVIOUS
      <3>. QED
        BY <3>1, <3>2, TasksSet DEF UnderWay
    <2>. QED
      BY <2>1, <2>2
  <1>5. ASSUME NEW i \in Importers, NEW r \in Reviews,
               TakeItem(i, r) \/ MarkItem(i, r) \/ Drafted(i, r) \/ DraftBreaks(i, r)
        PROVE  Goal
    <2>1. PICK t \in {"none", "taking", "drafting"} :
             /\ t \in UnderWay => task[i][r] \in UnderWay \/ item[r].status = "pending"
             /\ task[i][r] # "none" /\ task' = [task EXCEPT ![i][r] = t] /\ UNCHANGED ipc
      BY <1>5 DEF TakeItem, StillPending, MarkItem, Drafted, DraftBreaks, UnderWay
    <2>. QED
      BY <2>1, TaskSet
  <1>. HIDE DEF Goal
  <1>6. ASSUME NEW i \in Importers, ImportStep(i) PROVE Goal
    BY <1>2, <1>3, <1>4, <1>5, <1>6
    DEF ImportStep, ClaimSession, NothingToDo, BeginFetch, FetchReviews, StoreFetched,
        FinishGenerate
  <1>7. ASSUME NEW i \in Importers, ImportMishap(i) PROVE Goal
    BY <1>3, <1>5, <1>7 DEF ImportMishap, FetchFails, SessionFails, ImporterDies
  <1>8. ASSUME ImportLeaseLapses \/ MerchantStep PROVE Goal
    BY <1>1, <1>8
    DEF ImportLeaseLapses, MerchantStep, StartGeneration, Reconnect, GenerateItem
  <1>9. ASSUME ImportOrReplies PROVE Goal
    BY <1>1, <1>9 DEF ImportOrReplies, import
  <1>10. Goal
    BY <1>6, <1>7, <1>8, <1>9, ImportSteps
  <1>. QED
    BY <1>10 DEF Goal

LEMMA FoundStep ==
    ASSUME GoogleTyped, FoundTyped, [Next]_ivars
    PROVE  FoundTyped'
  <1>1. ASSUME UNCHANGED found PROVE FoundTyped'
    BY <1>1 DEF FoundTyped
  <1>2. ASSUME NEW i \in Importers, Quits(i) PROVE FoundTyped'
    <2>1. [r \in Reviews |-> Unlisted] \in [Reviews -> Listed]
      BY DEF Unlisted, Listed
    <2>. QED
      BY <1>2, <2>1 DEF Quits, FoundTyped
  <1>3. ASSUME NEW i \in Importers, FetchReviews(i) PROVE FoundTyped'
    <2>1. PICK l : l = [r \in Reviews |->
                   IF review[r] = 0 THEN Unlisted
                   ELSE [about |-> review[r], by |-> reply[r].by, n |-> reply[r].n]]
      OBVIOUS
    <2>2. l \in [Reviews -> Listed]
      BY <2>1 DEF Unlisted, Listed, GoogleTyped
    <2>3. found' = [found EXCEPT ![i] = l]
      BY <1>3, <2>1 DEF FetchReviews
    <2>. QED
      BY <2>2, <2>3 DEF FoundTyped
  <1>4. ASSUME NEW i \in Importers, ImportStep(i) PROVE FoundTyped'
    BY <1>1, <1>2, <1>3, <1>4
    DEF ImportStep, ClaimSession, NothingToDo, BeginFetch, StoreFetched, BeginGenerate,
        FinishGenerate, TakeItem, MarkItem, Drafted
  <1>5. ASSUME NEW i \in Importers, ImportMishap(i) PROVE FoundTyped'
    BY <1>1, <1>2, <1>5
    DEF ImportMishap, FetchFails, SessionFails, ImporterDies, DraftBreaks
  <1>6. ASSUME ImportLeaseLapses \/ MerchantStep PROVE FoundTyped'
    BY <1>1, <1>6
    DEF ImportLeaseLapses, MerchantStep, StartGeneration, Reconnect, GenerateItem
  <1>7. ASSUME ImportOrReplies PROVE FoundTyped'
    BY <1>1, <1>7 DEF ImportOrReplies, import
  <1>. QED
    BY <1>4, <1>5, <1>6, <1>7, ImportSteps

LEMMA OrphansStep ==
    ASSUME orphans \subseteq Reviews, [Next]_ivars
    PROVE  orphans' \subseteq Reviews
  <1>1. ASSUME NEW i \in Importers, ImportStep(i) PROVE UNCHANGED orphans
    BY <1>1
    DEF ImportStep, ClaimSession, NothingToDo, BeginFetch, FetchReviews, StoreFetched,
        BeginGenerate, FinishGenerate, TakeItem, MarkItem, Drafted
  <1>2. ASSUME NEW i \in Importers, ImportMishap(i) PROVE orphans' \subseteq Reviews
    BY <1>2
    DEF ImportMishap, FetchFails, SessionFails, ImporterDies, DraftBreaks, Orphaned, ItemsIn
  <1>3. ASSUME ImportLeaseLapses \/ MerchantStep \/ ImportOrReplies PROVE UNCHANGED orphans
    BY <1>3
    DEF ImportLeaseLapses, MerchantStep, StartGeneration, Reconnect, GenerateItem,
        ImportOrReplies, import
  <1>. QED
    BY <1>1, <1>2, <1>3, ImportSteps

-----------------------------------------------------------------------------
(* Demands and drafts                                                      *)

LEMMA DraftersAreFew ==
    ASSUME NEW S \in SUBSET Importers
    PROVE  IsFiniteSet(S) /\ Cardinality(S) \in Nat
  BY ImportersAssumption, FS_Subset, FS_CardinalityType

\* Nobody takes, marks or files anything: what is made pending is asked for.
DemandsStand ==
    /\ UNCHANGED <<drafted, raced>>
    /\ \A r \in Reviews :
          /\ asked'[r] \in Nat /\ asked[r] <= asked'[r]
          /\ item'[r].status = "pending" => item[r].status = "pending" \/ asked[r] < asked'[r]
          /\ \A i \in Importers : task'[i][r] \in UnderWay => task'[i][r] = task[i][r]

LEMMA StillCovered ==
    ASSUME CountsTyped, NEW r \in Reviews, Covered(r), DemandsStand
    PROVE  Covered(r)'
  <1>1. PICK S \in SUBSET Importers, T \in SUBSET Importers : S = Drafters(r) /\ T = Drafters(r)'
    BY DEF Drafters
  <1>2. T \subseteq S
    BY <1>1 DEF Drafters, DemandsStand
  <1>3. PICK s \in Nat, t \in Nat : s = Cardinality(S) /\ t = Cardinality(T) /\ t <= s
    BY <1>2, DraftersAreFew, FS_Subset
  <1>4. PICK d \in Nat, c \in Nat, a \in Nat, b \in Nat :
           /\ d = drafted[r] /\ d = drafted'[r] /\ c = raced[r] /\ c = raced'[r]
           /\ a = asked[r] /\ b = asked'[r]
    BY DEF CountsTyped, DemandsStand
  <1>5. a <= b
    BY <1>4 DEF DemandsStand
  <1>6. PICK o \in {0, 1}, p \in {0, 1} : o = Outstanding(r) /\ p = Outstanding(r)'
    BY DEF Outstanding
  <1>7. p = 1 => o = 1 \/ a < b \/ t + 1 <= s
    <2>1. SUFFICES ASSUME p = 1, o = 0, ~(a < b)
                   PROVE  t + 1 <= s
      BY <1>6
    <2>2. BeingTaken(r) /\ ~BeingTaken(r)'
      BY <1>4, <1>6, <2>1 DEF Outstanding, DemandsStand
    <2>3. PICK i \in S : i \notin T
      BY <1>1, <2>2 DEF BeingTaken, Drafters, DemandsStand, UnderWay
    <2>4. Cardinality(S \ {i}) = s - 1 /\ IsFiniteSet(S \ {i}) /\ T \subseteq S \ {i}
      BY <1>2, <1>3, <2>3, DraftersAreFew, FS_RemoveElement
    <2>5. t <= s - 1
      BY <1>3, <2>4, FS_Subset
    <2>. QED
      BY <2>5
  <1>8. d + s + o <= a + c
    BY <1>1, <1>3, <1>4, <1>6 DEF Covered
  <1>9. d + t + p <= b + c
    BY <1>3, <1>5, <1>7, <1>8
  <1>. QED
    BY <1>1, <1>3, <1>4, <1>6, <1>9 DEF Covered

\* Who reads a pending item that nobody is taking uses the demand for it; who reads it beside
\* another counts as a race.
LEMMA TakenIsCovered ==
    ASSUME ItemsTyped, TasksTyped, CountsTyped, NEW i \in Importers, NEW q \in Reviews,
           TakeItem(i, q), NEW r \in Reviews, Covered(r)
    PROVE  Covered(r)'
  <1>1. task[i][q] = "waiting" /\ UNCHANGED <<asked, drafted, item>>
    BY DEF TakeItem
  <1>2. CASE r = q /\ StillPending(q)
    <2>1. /\ task' = [task EXCEPT ![i][q] = "taking"] /\ item[q].status = "pending"
          /\ raced' = [raced EXCEPT ![q] =
                         raced[q] + IF \E k \in Importers \ {i} : task[k][q] = "taking"
                                    THEN 1 ELSE 0]
      BY <1>2 DEF TakeItem, StillPending
    <2>2. Drafters(r)' = Drafters(r) \cup {i} /\ BeingTaken(r)'
      BY <1>2, <2>1 DEF Drafters, BeingTaken, UnderWay, TasksTyped
    <2>3. PICK S \in SUBSET Importers : S = Drafters(r)
      BY DEF Drafters
    <2>4. i \notin S
      BY <1>1, <1>2, <2>3 DEF Drafters, UnderWay
    <2>5. PICK s \in Nat : s = Cardinality(S) /\ Cardinality(S \cup {i}) = s + 1
      BY <2>4, DraftersAreFew, FS_AddElement
    <2>6. PICK d \in Nat, a \in Nat, c \in Nat, e \in Nat :
             d = drafted[r] /\ a = asked[r] /\ c = raced[r] /\ e = raced'[r]
             /\ e = c + IF BeingTaken(r) THEN 1 ELSE 0
      <3>1. BeingTaken(r) <=> \E k \in Importers \ {i} : task[k][q] = "taking"
        BY <1>1, <1>2 DEF BeingTaken
      <3>. QED
        BY <1>2, <2>1, <3>1 DEF CountsTyped
    <2>7. Outstanding(r) = (IF BeingTaken(r) THEN 0 ELSE 1) /\ Outstanding(r)' = 0
      BY <1>1, <1>2, <2>1, <2>2 DEF Outstanding
    <2>8. d + s + (IF BeingTaken(r) THEN 0 ELSE 1) <= a + c
      BY <2>3, <2>5, <2>6, <2>7 DEF Covered
    <2>9. d + (s + 1) + 0 <= a + e
      BY <2>6, <2>8
    <2>. QED
      BY <1>1, <2>2, <2>3, <2>5, <2>6, <2>7, <2>9 DEF Covered
  <1>3. CASE ~ (r = q /\ StillPending(q))
    <2>1. \A j \in Importers :
             /\ task'[j][r] \in UnderWay <=> task[j][r] \in UnderWay
             /\ task'[j][r] = "taking" <=> task[j][r] = "taking"
      BY <1>1, <1>3 DEF TakeItem, TasksTyped, UnderWay
    <2>2. raced'[r] = raced[r]
      BY <1>3 DEF TakeItem, CountsTyped
    <2>3. Drafters(r)' = Drafters(r) /\ Outstanding(r)' = Outstanding(r)
      BY <1>1, <2>1 DEF Drafters, BeingTaken, Outstanding
    <2>. QED
      BY <1>1, <2>2, <2>3 DEF Covered
  <1>. QED
    BY <1>2, <1>3

\* Who marks an item goes on with what it took; the item is no longer pending.
LEMMA MarkedIsCovered ==
    ASSUME ItemsTyped, TasksTyped, CountsTyped, NEW i \in Importers, NEW q \in Reviews,
           MarkItem(i, q), NEW r \in Reviews, Covered(r)
    PROVE  Covered(r)'
  <1>1. /\ task[i][q] = "taking" /\ task' = [task EXCEPT ![i][q] = "drafting"]
        /\ UNCHANGED <<asked, raced, drafted>>
        /\ item'[r] = IF r = q THEN [item[r] EXCEPT !.status = "generating"] ELSE item[r]
    BY DEF MarkItem, Becomes
  <1>2. Drafters(r)' = Drafters(r)
    BY <1>1 DEF Drafters, UnderWay, TasksTyped
  <1>3. Outstanding(r)' <= Outstanding(r) /\ Outstanding(r)' \in {0, 1} /\ Outstanding(r) \in {0, 1}
    <2>1. CASE r = q
      BY <1>1, <2>1 DEF Outstanding, ItemsTyped
    <2>2. CASE r # q
      BY <1>1, <2>2 DEF Outstanding, BeingTaken, TasksTyped
    <2>. QED
      BY <2>1, <2>2
  <1>4. PICK S \in SUBSET Importers : S = Drafters(r)
    BY DEF Drafters
  <1>5. Cardinality(S) \in Nat
    BY DraftersAreFew
  <1>. QED
    BY <1>1, <1>2, <1>3, <1>4, <1>5 DEF Covered, CountsTyped

\* Who files a draft no longer writes it.
LEMMA DraftedIsCovered ==
    ASSUME TasksTyped, CountsTyped, NEW i \in Importers, NEW q \in Reviews,
           Drafted(i, q), NEW r \in Reviews, Covered(r)
    PROVE  Covered(r)'
  <1>1. /\ task[i][q] = "drafting" /\ task' = [task EXCEPT ![i][q] = "none"]
        /\ drafted' = [drafted EXCEPT ![q] = drafted[q] + 1] /\ UNCHANGED <<asked, raced, item>>
    BY DEF Drafted
  <1>2. Outstanding(r)' = Outstanding(r) /\ Outstanding(r) \in {0, 1}
    <2>1. BeingTaken(r)' <=> BeingTaken(r)
      BY <1>1 DEF BeingTaken, TasksTyped
    <2>. QED
      BY <1>1, <2>1 DEF Outstanding
  <1>3. PICK S \in SUBSET Importers : S = Drafters(r)
    BY DEF Drafters
  <1>4. CASE r = q
    <2>1. Drafters(r)' = Drafters(r) \ {i} /\ i \in S
      BY <1>1, <1>3, <1>4 DEF Drafters, UnderWay, TasksTyped
    <2>2. Cardinality(S) \in Nat /\ Cardinality(S \ {i}) = Cardinality(S) - 1
      BY <2>1, DraftersAreFew, FS_RemoveElement
    <2>3. drafted'[r] = drafted[r] + 1
      BY <1>1, <1>4 DEF CountsTyped
    <2>. QED
      BY <1>1, <1>2, <1>3, <2>1, <2>2, <2>3 DEF Covered, CountsTyped
  <1>5. CASE r # q
    <2>1. Drafters(r)' = Drafters(r)
      BY <1>1, <1>5 DEF Drafters, UnderWay, TasksTyped
    <2>2. drafted'[r] = drafted[r]
      BY <1>1, <1>5 DEF CountsTyped
    <2>. QED
      BY <1>1, <1>2, <2>1, <2>2 DEF Covered
  <1>. QED
    BY <1>4, <1>5

\* All the other steps.
LEMMA OthersStand ==
    ASSUME ItemsTyped, TasksTyped, CountsTyped, [Next]_ivars,
           \A i \in Importers, r \in Reviews : ~TakeItem(i, r) /\ ~MarkItem(i, r) /\ ~Drafted(i, r)
    PROVE  DemandsStand
  <1>0. /\ asked \in [Reviews -> Nat]
        /\ task \in [Importers -> [Reviews -> {"none", "waiting", "taking", "drafting"}]]
    BY DEF CountsTyped, TasksTyped
  <1>1. ASSUME UNCHANGED <<drafted, raced, asked, item>>,
               \A i \in Importers, r \in Reviews :
                   task'[i][r] \in UnderWay => task'[i][r] = task[i][r]
        PROVE  DemandsStand
    BY <1>0, <1>1 DEF DemandsStand
  <1>2. ASSUME NEW i \in Importers, Quits(i)
        PROVE  \A j \in Importers, r \in Reviews :
                   task'[j][r] \in UnderWay => task'[j][r] = task[j][r]
    BY <1>0, <1>2 DEF Quits, UnderWay
  <1>3. ASSUME NEW rs, Asked(rs), UNCHANGED <<drafted, raced>>,
               \A r \in Reviews : item'[r].status = "pending" =>
                                      item[r].status = "pending" \/ r \in rs,
               \A i \in Importers, r \in Reviews :
                   task'[i][r] \in UnderWay => task'[i][r] = task[i][r]
        PROVE  DemandsStand
    <2>1. \A r \in Reviews : asked'[r] = asked[r] + IF r \in rs THEN 1 ELSE 0
      BY <1>3 DEF Asked
    <2>2. ASSUME NEW r \in Reviews
          PROVE  asked'[r] \in Nat /\ asked[r] <= asked'[r] /\ (r \in rs => asked[r] < asked'[r])
      BY <1>0, <2>1
    <2>. QED
      BY <1>3, <2>2 DEF DemandsStand
  <1>4. ASSUME NEW rs, NEW status, status # "pending", Becomes(rs, status),
               UNCHANGED <<drafted, raced, asked>>,
               \A i \in Importers, r \in Reviews :
                   task'[i][r] \in UnderWay => task'[i][r] = task[i][r]
        PROVE  DemandsStand
    <2>1. \A r \in Reviews : item'[r].status = "pending" => item[r].status = "pending"
      BY <1>4 DEF Becomes, ItemsTyped
    <2>. QED
      BY <1>0, <1>4, <2>1 DEF DemandsStand
  <1>5. ASSUME NEW i \in Importers, StoreFetched(i) PROVE DemandsStand
    <2>1. Asked({r \in Reviews : item'[r].status = "pending" /\ item[r].status # "pending"})
      BY <1>5 DEF StoreFetched
    <2>. QED
      BY <1>2, <1>3, <1>5, <2>1 DEF StoreFetched
  <1>6. ASSUME NEW i \in Importers, BeginGenerate(i) PROVE DemandsStand
    <2>1. PICK stale : /\ Becomes(stale, "pending") /\ Asked(stale)
                       /\ \/ Quits(i)
                          \/ \E pending : task' = [task EXCEPT ![i] = [r \in Reviews |->
                                             IF r \in pending THEN "waiting" ELSE "none"]]
      BY <1>6 DEF BeginGenerate
    <2>2. \A j \in Importers, r \in Reviews : task'[j][r] \in UnderWay => task'[j][r] = task[j][r]
      BY <1>0, <1>2, <2>1 DEF UnderWay
    <2>3. \A r \in Reviews :
             item'[r].status = "pending" => item[r].status = "pending" \/ r \in stale
      BY <2>1 DEF Becomes
    <2>. QED
      BY <1>3, <1>6, <2>1, <2>2, <2>3 DEF BeginGenerate
  <1>7. ASSUME NEW i \in Importers, ImportStep(i) PROVE DemandsStand
    BY <1>1, <1>2, <1>4, <1>5, <1>6, <1>7
    DEF ImportStep, ClaimSession, NothingToDo, BeginFetch, FetchReviews, FinishGenerate,
        Interrupted
  <1>8. ASSUME NEW i \in Importers, ImportMishap(i) PROVE DemandsStand
    <2>1. ASSUME NEW r \in Reviews, DraftBreaks(i, r) PROVE DemandsStand
      <3>1. \A j \in Importers, q \in Reviews :
               task'[j][q] \in UnderWay => task'[j][q] = task[j][q]
        BY <1>0, <2>1 DEF DraftBreaks, UnderWay
      <3>. QED
        BY <1>4, <2>1, <3>1 DEF DraftBreaks
    <2>. QED
      BY <1>1, <1>2, <1>8, <2>1 DEF ImportMishap, FetchFails, SessionFails, ImporterDies
  <1>9. ASSUME NEW r \in Reviews, GenerateItem(r) PROVE DemandsStand
    <2>1. Becomes({r}, "pending") /\ Asked({r}) /\ UNCHANGED <<task, drafted, raced>>
      BY <1>9 DEF GenerateItem
    <2>2. \A q \in Reviews : item'[q].status = "pending" => item[q].status = "pending" \/ q \in {r}
      BY <2>1 DEF Becomes
    <2>. QED
      BY <1>3, <2>1, <2>2
  <1>10. ASSUME ImportLeaseLapses \/ MerchantStep PROVE DemandsStand
    BY <1>1, <1>4, <1>9, <1>10
    DEF ImportLeaseLapses, MerchantStep, StartGeneration, Reconnect
  <1>11. ASSUME ImportOrReplies PROVE DemandsStand
    BY <1>1, <1>11 DEF ImportOrReplies, import
  <1>. QED
    BY <1>7, <1>8, <1>10, <1>11, ImportSteps

LEMMA CountsStep ==
    ASSUME ItemsTyped, TasksTyped, CountsTyped, [Next]_ivars
    PROVE  CountsTyped'
  <1>1. ASSUME DemandsStand, asked' = [r \in Reviews |-> asked'[r]] PROVE CountsTyped'
    <2>1. \A r \in Reviews : asked'[r] \in Nat
      BY <1>1 DEF DemandsStand
    <2>. QED
      BY <1>1, <2>1 DEF CountsTyped, DemandsStand
  <1>2. ASSUME NEW i \in Importers, NEW r \in Reviews,
               TakeItem(i, r) \/ MarkItem(i, r) \/ Drafted(i, r)
        PROVE  CountsTyped'
    BY <1>2 DEF TakeItem, MarkItem, Drafted, CountsTyped
  <1>3. ASSUME \A i \in Importers, r \in Reviews :
                   ~TakeItem(i, r) /\ ~MarkItem(i, r) /\ ~Drafted(i, r)
        PROVE  CountsTyped'
    <2>1. DemandsStand
      BY <1>3, OthersStand
    <2>2. UNCHANGED asked \/ \E rs : Asked(rs)
      <3>1. ASSUME NEW i \in Importers, ImportStep(i) PROVE UNCHANGED asked \/ \E rs : Asked(rs)
        BY <1>3, <3>1
        DEF ImportStep, ClaimSession, NothingToDo, BeginFetch, FetchReviews, StoreFetched,
            BeginGenerate, FinishGenerate
      <3>2. ASSUME NEW i \in Importers, ImportMishap(i) PROVE UNCHANGED asked
        BY <3>2 DEF ImportMishap, FetchFails, SessionFails, ImporterDies, DraftBreaks
      <3>3. ASSUME ImportLeaseLapses \/ MerchantStep \/ ImportOrReplies
            PROVE  UNCHANGED asked \/ \E rs : Asked(rs)
        BY <3>3
        DEF ImportLeaseLapses, MerchantStep, StartGeneration, Reconnect, GenerateItem,
            ImportOrReplies, import
      <3>. QED
        BY <3>1, <3>2, <3>3, ImportSteps
    <2>3. asked' = [r \in Reviews |-> asked'[r]]
      BY <2>2 DEF Asked, CountsTyped
    <2>. QED
      BY <1>1, <2>1, <2>3
  <1>. QED
    BY <1>2, <1>3

LEMMA CoverStep ==
    ASSUME ItemsTyped, TasksTyped, CountsTyped, [Next]_ivars, NEW r \in Reviews, Covered(r)
    PROVE  Covered(r)'
  <1>1. ASSUME \A i \in Importers, q \in Reviews :
                   ~TakeItem(i, q) /\ ~MarkItem(i, q) /\ ~Drafted(i, q)
        PROVE  Covered(r)'
    BY <1>1, OthersStand, StillCovered
  <1>2. ASSUME NEW i \in Importers, NEW q \in Reviews,
               TakeItem(i, q) \/ MarkItem(i, q) \/ Drafted(i, q)
        PROVE  Covered(r)'
    BY <1>2, TakenIsCovered, MarkedIsCovered, DraftedIsCovered
  <1>. QED
    BY <1>1, <1>2

LEMMA IInvInit ==
    ASSUME Init
    PROVE  IInv
  <1>1. GoogleTyped
    BY DEF Init, RepliesInit, GoogleTyped
  <1>2. SessionTyped
    BY DEF Init, SessionTyped, SessionStatuses
  <1>3. ItemsTyped
    BY DEF Init, ItemsTyped, ItemStatuses
  <1>4. TasksTyped /\ DraftedAreItems
    BY DEF Init, TasksTyped, DraftedAreItems, UnderWay
  <1>5. FoundTyped
    BY DEF Init, FoundTyped, Listed, Unlisted
  <1>6. CountsTyped /\ orphans = {}
    BY DEF Init, CountsTyped
  <1>7. ASSUME NEW r \in Reviews PROVE Covered(r)
    <2>1. /\ Drafters(r) = {} /\ Outstanding(r) = 0
          /\ asked[r] = 0 /\ raced[r] = 0 /\ drafted[r] = 0
      BY DEF Init, Drafters, UnderWay, Outstanding
    <2>. QED
      BY <2>1, FS_EmptySet DEF Covered
  <1>. QED
    BY <1>1, <1>2, <1>3, <1>4, <1>5, <1>6, <1>7 DEF IInv

LEMMA IInvStep ==
    ASSUME IInv, [Next]_ivars
    PROVE  IInv'
  <1>1. GoogleTyped' /\ SessionTyped' /\ FoundTyped' /\ orphans' \subseteq Reviews
    BY GoogleTypedStep, SessionStep, FoundStep, OrphansStep DEF IInv
  <1>2. ItemsTyped' /\ ItemsStay
    BY ItemsStep DEF IInv
  <1>3. TasksTyped' /\ TasksTaken
    BY TasksStep DEF IInv
  <1>4. DraftedAreItems'
    BY <1>2, <1>3 DEF IInv, DraftedAreItems, ItemsStay, TasksTaken
  <1>5. CountsTyped' /\ \A r \in Reviews : Covered(r)'
    BY CountsStep, CoverStep DEF IInv
  <1>. QED
    BY <1>1, <1>2, <1>3, <1>4, <1>5 DEF IInv

\* In every reachable state, beside any poll and any request, the import's variables have
\* their types, only an importer that generates has tasks, and an item that the import has
\* not filed holds no version of its review.
THEOREM ImportsTyped == ImportSpec => []ImportTypeOK
  <1>1. Init => IInv
    BY IInvInit
  <1>2. IInv /\ [Next]_ivars => IInv'
    BY IInvStep
  <1>3. IInv => ImportTypeOK
    BY DEF IInv, ImportTypeOK, SessionTyped, ItemsTyped, TasksTyped, FoundTyped, CountsTyped
  <1>. QED
    BY <1>1, <1>2, <1>3, PTL DEF ImportSpec

\* However leases lapse, workers die and reconnections start over, the import writes a draft
\* of a review that its item was not made pending for only when two tasks had read the item
\* at once.
THEOREM ImportDraftsWereAsked == ImportSpec => []DraftsWereAsked
  <1>1. Init => IInv
    BY IInvInit
  <1>2. IInv /\ [Next]_ivars => IInv'
    BY IInvStep
  <1>3. ASSUME IInv, NEW r \in Reviews PROVE drafted[r] <= asked[r] + raced[r]
    <2>1. PICK S \in SUBSET Importers : S = Drafters(r)
      BY DEF Drafters
    <2>2. Cardinality(S) \in Nat
      BY DraftersAreFew
    <2>3. /\ Outstanding(r) \in {0, 1}
          /\ drafted[r] \in Nat /\ asked[r] \in Nat /\ raced[r] \in Nat
      BY <1>3 DEF Outstanding, IInv, CountsTyped
    <2>4. drafted[r] + Cardinality(S) + Outstanding(r) <= asked[r] + raced[r]
      BY <1>3, <2>1 DEF IInv, Covered
    <2>. QED
      BY <2>2, <2>3, <2>4
  <1>4. IInv => DraftsWereAsked
    BY <1>3 DEF DraftsWereAsked
  <1>. QED
    BY <1>1, <1>2, <1>4, PTL DEF ImportSpec

-----------------------------------------------------------------------------
(* The replies beside an import                                            *)

\* What an importer has listed, and what its items hold, was at Google.
FoundAtGoogle == \A i \in Importers, r \in Reviews : WasListed(r, found[i][r])
ItemsAtGoogle == \A r \in Reviews : item[r].about <= review[r]

JInv == RInv /\ IInv /\ FoundAtGoogle /\ ItemsAtGoogle

\* A step of the import itself.
ImportActs ==
    \/ \E i \in Importers : ImportStep(i) \/ ImportMishap(i)
    \/ ImportLeaseLapses \/ MerchantStep

\* What the import leaves alone.
LEMMA ImportKeeps ==
    ASSUME ImportActs
    PROVE  UNCHANGED <<review, reply, news, lease, backoff, cut, listing, todo, pc, cur, at,
                       passed, looked, changes>>
  <1>. USE DEF google, files, polling, pollers, places, ghosts, bounds
  <1>1. ASSUME NEW i \in Importers, ImportStep(i)
        PROVE  UNCHANGED <<review, reply, news, lease, backoff, cut, listing, todo, pc, cur, at,
                           passed, looked, changes>>
    BY <1>1
    DEF ImportStep, ClaimSession, NothingToDo, BeginFetch, FetchReviews, StoreFetched,
        BeginGenerate, FinishGenerate, TakeItem, MarkItem, Drafted, vars
  <1>2. ASSUME NEW i \in Importers, ImportMishap(i)
        PROVE  UNCHANGED <<review, reply, news, lease, backoff, cut, listing, todo, pc, cur, at,
                           passed, looked, changes>>
    BY <1>2 DEF ImportMishap, FetchFails, SessionFails, ImporterDies, DraftBreaks
  <1>3. ASSUME ImportLeaseLapses \/ MerchantStep
        PROVE  UNCHANGED <<review, reply, news, lease, backoff, cut, listing, todo, pc, cur, at,
                           passed, looked, changes>>
    BY <1>3
    DEF ImportLeaseLapses, MerchantStep, StartGeneration, Reconnect, GenerateItem, Orders,
        vars
  <1>. QED
    BY <1>1, <1>2, <1>3 DEF ImportActs

\* It writes rows and texts at hand only when it stores what it fetched or files a draft.
LEMMA ImportWrites ==
    ASSUME ImportActs, \A i \in Importers : ~StoreFetched(i)
    PROVE  /\ UNCHANGED <<insight, told, hand>>
           /\ UNCHANGED rows \/ \E i \in Importers, r \in Reviews : Drafted(i, r)
  <1>. USE DEF google, files, polling, pollers, places, ghosts, bounds
  <1>1. ASSUME NEW i \in Importers, ImportStep(i), ~StoreFetched(i)
        PROVE  /\ UNCHANGED <<insight, told, hand>>
               /\ UNCHANGED rows \/ \E r \in Reviews : Drafted(i, r)
    BY <1>1
    DEF ImportStep, ClaimSession, NothingToDo, BeginFetch, FetchReviews, BeginGenerate,
        FinishGenerate, TakeItem, MarkItem, Drafted, vars
  <1>2. ASSUME NEW i \in Importers, ImportMishap(i) PROVE UNCHANGED <<rows, insight, told, hand>>
    BY <1>2 DEF ImportMishap, FetchFails, SessionFails, ImporterDies, DraftBreaks
  <1>3. ASSUME ImportLeaseLapses \/ MerchantStep PROVE UNCHANGED <<rows, insight, told, hand>>
    BY <1>3
    DEF ImportLeaseLapses, MerchantStep, StartGeneration, Reconnect, GenerateItem, Orders,
        vars
  <1>. QED
    BY <1>1, <1>2, <1>3 DEF ImportActs

LEMMA ImportCounts ==
    ASSUME ImportActs, orders \in 0..MaxOrders, faults \in 0..MaxFaults
    PROVE  orders' \in 0..MaxOrders /\ faults' \in 0..MaxFaults
  <1>. USE DEF google, files, polling, pollers, places, ghosts, bounds
  <1>0. MaxOrders \in Nat /\ MaxFaults \in Nat
    BY ConstantsAssumption
  <1>1. ASSUME NEW i \in Importers, ImportStep(i) PROVE UNCHANGED <<orders, faults>>
    BY <1>1
    DEF ImportStep, ClaimSession, NothingToDo, BeginFetch, FetchReviews, StoreFetched,
        BeginGenerate, FinishGenerate, TakeItem, MarkItem, Drafted, vars
  <1>2. ASSUME NEW i \in Importers, ImportMishap(i) PROVE UNCHANGED orders /\ Fails
    BY <1>2 DEF ImportMishap, FetchFails, SessionFails, ImporterDies, DraftBreaks
  <1>3. ASSUME MerchantStep PROVE Orders
    BY <1>3 DEF MerchantStep, StartGeneration, Reconnect, GenerateItem
  <1>4. ASSUME ImportLeaseLapses PROVE UNCHANGED <<orders, faults>>
    BY <1>4 DEF ImportLeaseLapses, vars
  <1>5. ASSUME Fails, UNCHANGED orders
        PROVE  orders' \in 0..MaxOrders /\ faults' \in 0..MaxFaults
    BY <1>0, <1>5 DEF Fails
  <1>6. ASSUME Orders PROVE orders' \in 0..MaxOrders /\ faults' \in 0..MaxFaults
    BY <1>0, <1>6 DEF Orders
  <1>. QED
    BY <1>1, <1>2, <1>3, <1>4, <1>5, <1>6 DEF ImportActs

\* A version that was at Google stays one.
LEMMA StillListed ==
    ASSUME AtGoogle, AtGoogle', Grows, NEW r \in Reviews, NEW l, WasListed(r, l)
    PROVE  WasListed(r, l)'
  <1>1. /\ l.about \in Nat /\ l.n \in Nat /\ review[r] \in Nat /\ review'[r] \in Nat
        /\ reply[r].n \in Nat /\ reply'[r].n \in Nat
    BY DEF WasListed, Listed, AtGoogle
  <1>. QED
    BY <1>1 DEF WasListed, Grows

LEMMA FoundAtGoogleStep ==
    ASSUME AtGoogle, AtGoogle', Grows, FoundTyped, FoundAtGoogle, [Next]_ivars
    PROVE  FoundAtGoogle'
  <1>1. ASSUME UNCHANGED found PROVE FoundAtGoogle'
    <2>1. \A i \in Importers, r \in Reviews : WasListed(r, found[i][r])'
      BY <1>1, StillListed DEF FoundAtGoogle
    <2>. QED
      BY <2>1 DEF FoundAtGoogle
  <1>2. ASSUME NEW i \in Importers, NEW new, found' = [found EXCEPT ![i] = new],
               \A r \in Reviews : WasListed(r, new[r])
        PROVE  FoundAtGoogle'
    <2>1. \A j \in Importers, r \in Reviews : WasListed(r, found'[j][r])
      BY <1>2 DEF FoundAtGoogle, FoundTyped
    <2>2. ASSUME NEW j \in Importers, NEW r \in Reviews PROVE WasListed(r, found[j][r])'
      <3>1. PICK l : l = found'[j][r]
        OBVIOUS
      <3>2. WasListed(r, l)
        BY <2>1, <3>1
      <3>. QED
        BY <3>1, <3>2, StillListed DEF WasListed
    <2>. QED
      BY <2>2 DEF FoundAtGoogle
  <1>3. ASSUME NEW r \in Reviews PROVE WasListed(r, Unlisted)
    BY DEF WasListed, Unlisted, Listed, AtGoogle
  <1>4. ASSUME NEW i \in Importers, Quits(i) PROVE FoundAtGoogle'
    <2>1. PICK new : new = [r \in Reviews |-> Unlisted]
      OBVIOUS
    <2>2. found' = [found EXCEPT ![i] = new]
      BY <1>4, <2>1 DEF Quits
    <2>3. \A r \in Reviews : WasListed(r, new[r])
      BY <1>3, <2>1
    <2>. QED
      BY <1>2, <2>2, <2>3
  <1>5. ASSUME NEW i \in Importers, FetchReviews(i) PROVE FoundAtGoogle'
    <2>1. PICK new : new = [r \in Reviews |->
                   IF review[r] = 0 THEN Unlisted
                   ELSE [about |-> review[r], by |-> reply[r].by, n |-> reply[r].n]]
      OBVIOUS
    <2>2. ASSUME NEW r \in Reviews
          PROVE  WasListed(r, [about |-> review[r], by |-> reply[r].by, n |-> reply[r].n])
      <3>1. /\ review[r] \in Nat /\ reply[r].by \in {"nobody", "owner", "us"} /\ reply[r].n \in Nat
            /\ reply[r].n = 0 <=> reply[r].by = "nobody"
        BY DEF AtGoogle
      <3>. QED
        BY <3>1 DEF WasListed, Listed
    <2>3. \A r \in Reviews : WasListed(r, new[r])
      BY <1>3, <2>1, <2>2
    <2>. QED
      BY <1>2, <1>5, <2>1, <2>3 DEF FetchReviews
  <1>6. ASSUME NEW i \in Importers, ImportStep(i) PROVE FoundAtGoogle'
    BY <1>1, <1>4, <1>5, <1>6
    DEF ImportStep, ClaimSession, NothingToDo, BeginFetch, StoreFetched, BeginGenerate,
        FinishGenerate, TakeItem, MarkItem, Drafted
  <1>7. ASSUME NEW i \in Importers, ImportMishap(i) PROVE FoundAtGoogle'
    BY <1>1, <1>4, <1>7
    DEF ImportMishap, FetchFails, SessionFails, ImporterDies, DraftBreaks
  <1>8. ASSUME ImportLeaseLapses \/ MerchantStep PROVE FoundAtGoogle'
    BY <1>1, <1>8
    DEF ImportLeaseLapses, MerchantStep, StartGeneration, Reconnect, GenerateItem
  <1>9. ASSUME ImportOrReplies PROVE FoundAtGoogle'
    BY <1>1, <1>9 DEF ImportOrReplies, import
  <1>. QED
    BY <1>6, <1>7, <1>8, <1>9, ImportSteps

\* An item keeps the version it was made for.
LEMMA ItemsHold ==
    ASSUME ItemsTyped, [Next]_ivars, NEW r \in Reviews
    PROVE  \/ item'[r].about = item[r].about
           \/ \E i \in Importers : item'[r].about = found[i][r].about
  <1>1. ASSUME UNCHANGED item PROVE item'[r].about = item[r].about
    BY <1>1
  <1>2. ASSUME NEW rs, NEW status, Becomes(rs, status) PROVE item'[r].about = item[r].about
    BY <1>2 DEF Becomes, ItemsTyped
  <1>3. ASSUME NEW i \in Importers, StoreFetched(i)
        PROVE  item'[r].about \in {item[r].about, found[i][r].about}
    <2>1. PICK row : item' = [q \in Reviews |-> Fetched(q, found[i][q], row[q])]
      BY <1>3 DEF StoreFetched
    <2>2. item'[r] = Fetched(r, found[i][r], row[r])
      BY <2>1
    <2>3. item[r] \in [status : ItemStatuses, about : Nat]
      BY DEF ItemsTyped
    <2>. QED
      BY <2>2, <2>3 DEF Fetched
  <1>4. ASSUME NEW i \in Importers, ImportStep(i), ~StoreFetched(i)
        PROVE  item'[r].about = item[r].about
    BY <1>1, <1>2, <1>4
    DEF ImportStep, ClaimSession, NothingToDo, BeginFetch, FetchReviews, BeginGenerate,
        FinishGenerate, Interrupted, TakeItem, MarkItem, Drafted
  <1>5. ASSUME NEW i \in Importers, ImportMishap(i) PROVE item'[r].about = item[r].about
    BY <1>1, <1>2, <1>5
    DEF ImportMishap, FetchFails, SessionFails, ImporterDies, DraftBreaks
  <1>6. ASSUME ImportLeaseLapses \/ MerchantStep PROVE item'[r].about = item[r].about
    BY <1>1, <1>2, <1>6
    DEF ImportLeaseLapses, MerchantStep, StartGeneration, Reconnect, GenerateItem
  <1>7. ASSUME ImportOrReplies PROVE item'[r].about = item[r].about
    BY <1>1, <1>7 DEF ImportOrReplies, import
  <1>. QED
    BY <1>3, <1>4, <1>5, <1>6, <1>7, ImportSteps

LEMMA ItemsAtGoogleStep ==
    ASSUME AtGoogle, AtGoogle', Grows, FoundTyped, FoundAtGoogle, ItemsTyped, ItemsAtGoogle,
           [Next]_ivars
    PROVE  ItemsAtGoogle'
  <1>1. ASSUME NEW r \in Reviews PROVE item'[r].about <= review'[r]
    <2>1. PICK a \in Nat : a = item'[r].about /\ a <= review[r]
      <3>1. CASE item'[r].about = item[r].about
        BY <3>1 DEF ItemsTyped, ItemsAtGoogle
      <3>2. ASSUME NEW i \in Importers, item'[r].about = found[i][r].about
            PROVE  item'[r].about \in Nat /\ item'[r].about <= review[r]
        BY <3>2 DEF FoundTyped, FoundAtGoogle, WasListed, Listed
      <3>. QED
        BY <3>1, <3>2, ItemsHold
    <2>2. review[r] \in Nat /\ review'[r] \in Nat /\ review[r] <= review'[r]
      BY DEF AtGoogle, Grows
    <2>. QED
      BY <2>1, <2>2
  <1>. QED
    BY <1>1 DEF ItemsAtGoogle

\* A fetch puts the answers it found on file, and analytics in the picture.
LEMMA StoredRows ==
    ASSUME RowsTyped, AtGoogle, AtGoogle', Grows, FoundAtGoogle, UNCHANGED <<review, reply>>,
           NEW i \in Importers, StoreFetched(i)
    PROVE  RowsTyped' /\ RowsGrow
  <1>1. /\ rows' = [r \in Reviews |-> rows'[r]]
        /\ \A r \in Reviews : rows'[r] = Adopted(r, found[i][r]) \/ rows'[r] = rows[r]
    BY DEF StoreFetched
  <1>2. ASSUME NEW r \in Reviews
        PROVE  /\ rows'[r] \in Seq(Row) /\ Len(rows[r]) <= Len(rows'[r])
               /\ \A j \in 1..Len(rows'[r]) : WasAtGoogle(r, rows'[r][j])
    <2>1. CASE rows'[r] = Adopted(r, found[i][r])
      <3>2. PICK l \in Listed : l = found[i][r] /\ l.about <= review[r] /\ l.n <= reply[r].n
        BY DEF FoundAtGoogle, WasListed
      <3>. QED
        BY <2>1, <3>2, RowsAdopted
    <2>2. CASE rows'[r] = rows[r]
      <3>2. rows[r] \in Seq(Row) /\ \A j \in 1..Len(rows[r]) : WasAtGoogle(r, rows[r][j])
        BY DEF RowsTyped
      <3>3. Len(rows[r]) \in Nat
        BY <3>2
      <3>. QED
        BY <2>2, <3>2, <3>3
    <2>. QED
      BY <1>1, <2>1, <2>2
  <1>3. rows' \in [Reviews -> Seq(Row)]
    BY <1>1, <1>2
  <1>4. \A r \in Reviews : \A j \in 1..Len(rows'[r]) : WasAtGoogle(r, rows[r][j])'
    BY <1>2 DEF WasAtGoogle
  <1>. QED
    BY <1>2, <1>3, <1>4 DEF RowsTyped, RowsGrow

LEMMA StoredInsight ==
    ASSUME InsightTyped, FoundAtGoogle, UNCHANGED review, NEW i \in Importers, StoreFetched(i)
    PROVE  InsightTyped'
  <1>1. /\ insight' = [r \in Reviews |-> insight'[r]] /\ told' = [r \in Reviews |-> told'[r]]
        /\ \A r \in Reviews :
              /\ \/ insight'[r] = [insight[r] EXCEPT !.about = found[i][r].about]
                 \/ insight'[r] = insight[r]
              /\ told'[r] \in {found[i][r].about, told[r]}
    BY DEF StoreFetched
  <1>2. ASSUME NEW r \in Reviews
        PROVE  /\ insight'[r] \in [about : Nat, edited : BOOLEAN, dismissed : BOOLEAN]
               /\ told'[r] \in Nat /\ told'[r] <= review'[r] /\ insight'[r].about <= review'[r]
    <2>1. PICK old \in [about : Nat, edited : BOOLEAN, dismissed : BOOLEAN], t \in Nat :
             old = insight[r] /\ t = told[r] /\ old.about <= review[r] /\ t <= review[r]
      BY DEF InsightTyped
    <2>2. PICK a \in Nat : a = found[i][r].about /\ a <= review[r]
      BY DEF FoundAtGoogle, WasListed, Listed
    <2>3. PICK new : new = [old EXCEPT !.about = a]
      OBVIOUS
    <2>4. new \in [about : Nat, edited : BOOLEAN, dismissed : BOOLEAN] /\ new.about = a
      BY <2>3
    <2>5. insight'[r] \in {old, new} /\ told'[r] \in {t, a}
      BY <1>1, <2>1, <2>2, <2>3
    <2>. QED
      BY <2>1, <2>2, <2>4, <2>5
  <1>. QED
    BY <1>1, <1>2 DEF InsightTyped

LEMMA StoredHand ==
    ASSUME HandTyped, NEW i \in Importers, StoreFetched(i)
    PROVE  HandTyped'
  <1>1. /\ hand' = [s \in Sessions |-> hand'[s]]
        /\ \A s \in Sessions : hand'[s] \in {"draft", hand[s]}
    BY DEF StoreFetched
  <1>2. "draft" \in Texts /\ Pollers \subseteq Sessions
    BY DEF Texts, Sessions
  <1>. QED
    BY <1>1, <1>2 DEF HandTyped

\* A step of the import leaves the replies in order.
LEMMA ImportKeepsOrder ==
    ASSUME RInv, FoundAtGoogle, ItemsAtGoogle, ItemsTyped, ImportActs
    PROVE  RInv' /\ Grows
  <1>0. /\ AtGoogle /\ RowsTyped /\ InsightTyped /\ ListingTyped /\ PcTyped /\ HandTyped
        /\ AtTyped /\ PollTyped /\ NewIsUnanswered
    BY DEF RInv
  <1>1. UNCHANGED <<review, reply, news, lease, backoff, cut, listing, todo, pc, cur, at,
                    passed, looked, changes>>
    BY ImportKeeps
  <1>2. AtGoogle' /\ Grows
    BY <1>0, <1>1, SameGoogle
  <1>3. RowsTyped' /\ RowsGrow
    <2>1. ASSUME NEW i \in Importers, StoreFetched(i) PROVE RowsTyped' /\ RowsGrow
      BY <1>0, <1>1, <1>2, <2>1, StoredRows
    <2>2. ASSUME NEW i \in Importers, NEW r \in Reviews, Drafted(i, r) PROVE RowsTyped' /\ RowsGrow
      <3>1. AddRow(r, "pending", item[r].about, "draft")
        BY <2>2 DEF Drafted
      <3>2. item[r].about \in Nat /\ item[r].about <= review[r]
        BY DEF ItemsTyped, ItemsAtGoogle
      <3>3. "pending" \in Statuses /\ "draft" \in Texts
        BY DEF Statuses, Texts
      <3>. QED
        BY <1>0, <1>2, <3>1, <3>2, <3>3, RowAdded
    <2>3. CASE UNCHANGED rows
      BY <1>0, <1>2, <2>3, SameRows
    <2>. QED
      BY <2>1, <2>2, <2>3, ImportWrites
  <1>4. InsightTyped' /\ HandTyped'
    <2>1. ASSUME NEW i \in Importers, StoreFetched(i) PROVE InsightTyped' /\ HandTyped'
      BY <1>0, <1>1, <2>1, StoredInsight, StoredHand
    <2>2. ASSUME UNCHANGED <<insight, told, hand>> PROVE InsightTyped' /\ HandTyped'
      BY <1>0, <1>1, <2>2 DEF InsightTyped, HandTyped
    <2>. QED
      BY <2>1, <2>2, ImportWrites
  <1>5. ListingTyped' /\ NewIsUnanswered'
    BY <1>0, <1>1 DEF ListingTyped, NewIsUnanswered
  <1>6. PcTyped' /\ AtTyped'
    BY <1>0, <1>1, <1>3, PlacesStay
  <1>7. PollTyped'
    <2>1. orders' \in 0..MaxOrders /\ faults' \in 0..MaxFaults
      BY <1>0, ImportCounts DEF PollTyped
    <2>. QED
      BY <1>0, <1>1, <2>1 DEF PollTyped
  <1>. QED
    BY <1>2, <1>3, <1>4, <1>5, <1>6, <1>7 DEF RInv

LEMMA JInvInit ==
    ASSUME Init
    PROVE  JInv
  <1>1. RInv /\ IInv
    BY RInvInit, IInvInit DEF Init
  <1>2. FoundAtGoogle /\ ItemsAtGoogle
    BY DEF Init, RepliesInit, FoundAtGoogle, ItemsAtGoogle, WasListed, Listed, Unlisted
  <1>. QED
    BY <1>1, <1>2 DEF JInv

LEMMA JInvStep ==
    ASSUME JInv, [Next]_ivars
    PROVE  JInv'
  <1>0. /\ RInv /\ IInv /\ FoundAtGoogle /\ ItemsAtGoogle
        /\ AtGoogle /\ PcTyped /\ ItemsTyped /\ FoundTyped
    BY DEF JInv, RInv, IInv
  <1>1. RInv' /\ Grows
    <2>1. CASE ImportOrReplies
      BY <1>0, <2>1, RInvStep, GoogleStep DEF ImportOrReplies
    <2>2. CASE ImportActs
      BY <1>0, <2>2, ImportKeepsOrder
    <2>. QED
      BY <2>1, <2>2, ImportSteps DEF ImportActs
  <1>2. IInv'
    BY <1>0, IInvStep
  <1>3. AtGoogle'
    BY <1>1 DEF RInv
  <1>4. FoundAtGoogle' /\ ItemsAtGoogle'
    BY <1>0, <1>1, <1>3, FoundAtGoogleStep, ItemsAtGoogleStep
  <1>. QED
    BY <1>1, <1>2, <1>4 DEF JInv

\* Beside any number of importers the replies keep their types: what an import adopts was at
\* Google, what it drafts answers a version that was, and no session's row goes away under it.
THEOREM RepliesTypedBesideImports == ImportSpec => []TypeOK
  <1>1. Init => JInv
    BY JInvInit
  <1>2. JInv /\ [Next]_ivars => JInv'
    BY JInvStep
  <1>3. JInv => TypeOK
    BY RInvTyped DEF JInv
  <1>. QED
    BY <1>1, <1>2, <1>3, PTL DEF ImportSpec

\* Beside any number of importers, too, a poll posts over an answer of the owner only if that
\* answer came after its listing, or as a follow-up.
THEOREM OwnersAnswersStandBesideImports == ImportSpec => OwnersAnswerStands
  <1>1. Init => JInv
    BY JInvInit
  <1>2. JInv /\ [Next]_ivars => JInv'
    BY JInvStep
  <1>3. JInv /\ [Next]_ivars =>
           [\A w \in Pollers :
              PollDrafting(w) /\ pc'[w] = "sent" /\ reply[cur[w]].by = "owner" =>
                  \/ listing[w][cur[w]].n # reply[cur[w]].n
                  \/ pc[w] = "follow"]_vars
    <2>1. CASE ImportActs
      <3>1. UNCHANGED pc
        BY <2>1, ImportKeeps
      <3>2. ASSUME NEW w \in Pollers, PollDrafting(w) PROVE pc'[w] # "sent"
        BY <3>1, <3>2 DEF PollDrafting
      <3>. QED
        BY <3>2
    <2>2. CASE ImportOrReplies
      BY <2>2, OwnersAnswerStep DEF JInv, ImportOrReplies
    <2>. QED
      BY <2>1, <2>2, ImportSteps DEF ImportActs
  <1>. QED
    BY <1>1, <1>2, <1>3, PTL DEF ImportSpec, OwnersAnswerStands
=============================================================================
