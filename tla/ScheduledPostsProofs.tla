------------------------ MODULE ScheduledPostsProofs ------------------------
(***************************************************************************)
(* Theorems about ScheduledPosts, for all posts, sessions, connections and *)
(* bounds.                                                                 *)
(***************************************************************************)
EXTENDS ScheduledPosts, FiniteSetTheorems, TLAPS

-----------------------------------------------------------------------------
(* The inductive invariant                                                 *)

\* Who has a post at hand, and who has a transaction open.
Places ==
    \A s \in Sessions :
        /\ cur[s] = NoPost <=> pc[s] \in {"idle", "pass"}
        /\ pc[s] \in {"pass", "editing", "waiting", "locked"} => conn[s] \in Conns
        /\ pc[s] \in {"idle", "done", "failed", "releasing"} => conn[s] = NoConn
        /\ Calling(s) => conn[s] \in Conns \/ conn[s] = Lost \/ s \in midway

\* A session between taking the lock and giving it back holds it, on its connection,
\* unless it gave the connection up or lost it.
HoldsLock(s) == (pc[s] = "locked" \/ Calling(s)) /\ s \notin midway /\ conn[s] # Lost
LockIsHeld == \A s \in Sessions : HoldsLock(s) => owner[cur[s]] = conn[s]

\* TypeOK in parts.
RowsTyped ==
    /\ row \in [Posts -> [status : Statuses, tries : 0..MaxAttempts + 1,
                          backoff : BOOLEAN, due : BOOLEAN]]
    /\ rowlock \in [Posts -> Sessions \cup {NoOne}]
LocksTyped ==
    /\ owner \in [Posts -> Conns \cup {NoConn}]
    /\ depth \in [Posts -> Nat] /\ \A p \in Posts : depth[p] = 0 <=> owner[p] = NoConn
ConnsTyped ==
    /\ conn \in [Sessions -> Conns \cup {NoConn, Lost}]
    /\ \A s, t \in Sessions : s # t /\ conn[s] = conn[t] => conn[s] \in {NoConn, Lost}
SessionsTyped ==
    /\ pc \in [Sessions -> {"idle", "pass", "editing", "waiting", "locked", "calling",
                            "accepted", "rejected", "done", "failed", "releasing"}]
    /\ cur \in [Sessions -> Posts \cup {NoPost}]
    /\ fresh \subseteq Operators /\ midway \subseteq Sessions /\ expired \subseteq Workers
CopiesTyped ==
    /\ seen \in [Sessions -> [Posts -> Views]]
    /\ todo \in [Workers -> SUBSET Posts]
    /\ aim \in [Operators -> Statuses]
HistoryTyped ==
    /\ channel \subseteq Posts /\ outlived \subseteq Doomed
    /\ google \in [Posts -> Nat] /\ excused \in [Posts -> Nat]
    /\ orders \in 0..MaxOrders /\ faults \in 0..MaxFaults

Typed == RowsTyped /\ LocksTyped /\ ConnsTyped /\ SessionsTyped /\ CopiesTyped /\ HistoryTyped
Inv == Typed /\ Places /\ LockIsHeld

-----------------------------------------------------------------------------
(* Facts about the definitions                                             *)

LEMMA MinOfTwo ==
    ASSUME NEW a \in Int, NEW b \in Int
    PROVE  Min({a, b}) = IF a <= b THEN a ELSE b
  BY DEF Min

LEMMA MaxOfTwo ==
    ASSUME NEW a \in Int, NEW b \in Int
    PROVE  Max({a, b}) = IF a >= b THEN a ELSE b
  BY DEF Max

LEMMA SomeTyped == Unseen \in [Posts -> Views] /\ Draft \in Views /\ NoPost \notin Posts
  <1>1. 0 \in 0..MaxAttempts + 1 /\ NoPost \notin Posts
    BY ConstantsAssumption DEF Posts, NoPost
  <1>2. Draft \in Views
    BY <1>1 DEF Draft, Views, Statuses
  <1>3. ASSUME NEW v \in Views
        PROVE  [v EXCEPT !.status = "new"] \in Views
    BY DEF Views, Statuses
  <1>4. [Draft EXCEPT !.status = "new"] \in Views
    BY <1>2, <1>3
  <1>. QED
    BY <1>1, <1>2, <1>4 DEF Unseen

LEMMA ViewTyped ==
    ASSUME RowsTyped, NEW p \in Posts
    PROVE  View(row[p]) \in Views
  BY DEF RowsTyped, View, Views

LEMMA FailedTyped ==
    ASSUME NEW v \in Views
    PROVE  Failed(v) \in Views
  <1>1. v.tries + 1 \in Int /\ MaxAttempts + 1 \in Int /\ 0 <= v.tries
    BY ConstantsAssumption DEF Views
  <1>2. Min({v.tries + 1, MaxAttempts + 1})
          = IF v.tries + 1 <= MaxAttempts + 1 THEN v.tries + 1 ELSE MaxAttempts + 1
    BY <1>1, MinOfTwo
  <1>3. v.tries \in Nat /\ MaxAttempts \in Nat
    BY ConstantsAssumption DEF Views
  <1>4. Min({v.tries + 1, MaxAttempts + 1}) \in 0..MaxAttempts + 1
    BY <1>2, <1>3
  <1>. QED
    BY <1>4 DEF Failed, Views, Statuses

LEMMA DeepestIsPositive == Deepest \in Nat /\ Deepest >= 1
  <1>1. IsFiniteSet(Workers) /\ IsFiniteSet(Operators)
    BY ConstantsAssumption, FS_Subset DEF Sessions
  <1>2. Cardinality(Workers) \in Nat /\ Cardinality(Operators) \in Nat
    BY <1>1, FS_CardinalityType
  <1>. QED
    BY <1>2 DEF Deepest

-----------------------------------------------------------------------------
(* Locks and sessions                                                      *)

USE DEF locks, ghosts, bounds, NoPost, NoConn, Lost, NoOne, Goto, On, Excuse

LEMMA TakeKeeps ==
    ASSUME LocksTyped, NEW p \in Posts, NEW c \in Conns, NEW n \in {1, 2},
           LockOpen(p, c), Take(p, c, n)
    PROVE  /\ LocksTyped'
           /\ owner' = [owner EXCEPT ![p] = c]
           /\ \A q \in Posts : owner[q] \in Conns \ {c} => owner'[q] = owner[q]
  <1>1. depth[p] \in Nat /\ depth[p] + n \in Int /\ Deepest \in Int
    BY DeepestIsPositive DEF LocksTyped
  <1>2. Min({depth[p] + n, Deepest}) \in Nat /\ Min({depth[p] + n, Deepest}) > 0
    BY <1>1, MinOfTwo, DeepestIsPositive
  <1>. DEFINE m == Min({depth[p] + n, Deepest})
  <1>3. depth' = [depth EXCEPT ![p] = m] /\ owner' = [owner EXCEPT ![p] = c]
    BY DEF Take
  <1>4. m \in Nat /\ m > 0
    BY <1>2
  <1>. HIDE DEF m
  <1>5. owner' \in [Posts -> Conns \cup {NoConn}] /\ depth' \in [Posts -> Nat]
    BY <1>3, <1>4 DEF LocksTyped
  <1>6. ASSUME NEW q \in Posts
        PROVE  depth'[q] = 0 <=> owner'[q] = NoConn
    <2>1. CASE q = p
      BY <2>1, <1>3, <1>4, ConstantsAssumption DEF LocksTyped
    <2>2. CASE q # p
      BY <2>2, <1>3 DEF LocksTyped
    <2>. QED
      BY <2>1, <2>2
  <1>7. owner[p] \in Conns => owner[p] = c
    BY <1>1, ConstantsAssumption DEF LockOpen, LocksTyped
  <1>. QED
    BY <1>3, <1>5, <1>6, <1>7 DEF LocksTyped

\* A lock that goes: the owner loses it, or nobody had it.
Goes(p, c) == \A q \in Posts : owner'[q] = owner[q] \/ (q = p /\ owner[p] \in {c, NoConn})

LEMMA LeftIsLeft ==
    ASSUME LocksTyped, NEW p \in Posts, NEW c, NEW n \in {1, 2}
    PROVE  /\ Left(p, c, n) \in Nat
           /\ Left(p, c, n) > 0 => depth[p] > 0
           /\ Left(p, c, n) = 0 => owner[p] \in {c, NoConn}
  <1>1. depth[p] \in Nat /\ (depth[p] = 0 <=> owner[p] = NoConn)
    BY DEF LocksTyped
  <1>2. Max({depth[p] - n, 0}) = IF depth[p] - n >= 0 THEN depth[p] - n ELSE 0
    <2>1. PICK m \in Int : m = depth[p] - n
      BY <1>1
    <2>2. Max({m, 0}) = IF m >= 0 THEN m ELSE 0
      BY MaxOfTwo
    <2>. QED
      BY <2>1, <2>2
  <1>. QED
    BY <1>1, <1>2 DEF Left

LEMMA GiveBackKeeps ==
    ASSUME LocksTyped, NEW p \in Posts, NEW c, NEW left \in Nat,
           left > 0 => depth[p] > 0, left = 0 => owner[p] \in {c, NoConn},
           GiveBack(p, left)
    PROVE  LocksTyped' /\ Goes(p, c)
  <1>1. /\ depth' = [depth EXCEPT ![p] = left]
        /\ owner' = [owner EXCEPT ![p] = IF left = 0 THEN NoConn ELSE owner[p]]
    BY DEF GiveBack
  <1>2. owner' \in [Posts -> Conns \cup {NoConn}] /\ depth' \in [Posts -> Nat] /\ Goes(p, c)
    BY <1>1 DEF LocksTyped, Goes
  <1>3. ASSUME NEW q \in Posts
        PROVE  depth'[q] = 0 <=> owner'[q] = NoConn
    <2>1. CASE q = p
      BY <2>1, <1>1 DEF LocksTyped
    <2>2. CASE q # p
      BY <2>2, <1>1 DEF LocksTyped
    <2>. QED
      BY <2>1, <2>2
  <1>. QED
    BY <1>2, <1>3 DEF LocksTyped

LEMMA LeaveLockKeeps ==
    ASSUME LocksTyped, NEW s, NEW p \in Posts, NEW c, NEW left \in Nat,
           left > 0 => depth[p] > 0, left = 0 => owner[p] \in {c, NoConn},
           LeaveLock(s, p, left)
    PROVE  LocksTyped' /\ Goes(p, c)
  <1>1. Min({left, 1}) = IF left <= 1 THEN left ELSE 1
    BY MinOfTwo
  <1>2. PICK n \in Nat : GiveBack(p, n) /\ (n = 0 <=> left = 0)
    BY <1>1 DEF LeaveLock
  <1>. QED
    BY <1>2, GiveBackKeeps

LEMMA CloseConnKeeps ==
    ASSUME LocksTyped, NEW c, CloseConn(c)
    PROVE  LocksTyped' /\ \A q \in Posts : owner[q] # c => owner'[q] = owner[q]
  BY DEF LocksTyped, CloseConn

LEMMA EndsKeeps ==
    ASSUME SessionsTyped, CopiesTyped, NEW s \in Sessions, Ends(s)
    PROVE  SessionsTyped' /\ CopiesTyped'
  <1>1. SessionsTyped'
    BY DEF SessionsTyped, Ends
  <1>2. seen' \in [Sessions -> [Posts -> Views]]
    BY SomeTyped DEF CopiesTyped, Ends
  <1>3. todo' \in [Workers -> SUBSET Posts]
    BY DEF CopiesTyped, Ends
  <1>4. aim' \in [Operators -> Statuses]
    BY DEF CopiesTyped, Ends, Statuses
  <1>. QED
    BY <1>1, <1>2, <1>3, <1>4 DEF CopiesTyped

LEMMA EndsGivesUp ==
    ASSUME SessionsTyped, ConnsTyped, Places, LockIsHeld, NEW s \in Sessions, Ends(s)
    PROVE  /\ ConnsTyped' /\ Places'
           /\ \A t \in Sessions : HoldsLock(t)' =>
                 t # s /\ HoldsLock(t) /\ cur'[t] = cur[t] /\ conn'[t] = conn[t]
  BY DEF SessionsTyped, ConnsTyped, Places, LockIsHeld, HoldsLock, Calling, Ends

\* Whoever holds a lock holds it on a connection nobody else has.
LEMMA HeldAlone ==
    ASSUME Inv, NEW t \in Sessions, HoldsLock(t)
    PROVE  /\ cur[t] \in Posts /\ conn[t] \in Conns /\ owner[cur[t]] = conn[t]
           /\ \A s \in Sessions : s # t => conn[s] # conn[t]
  BY ConstantsAssumption
  DEF Inv, Typed, SessionsTyped, ConnsTyped, Places, LockIsHeld, HoldsLock, Calling

\* A lock that goes was not that of another session.
LEMMA OthersHold ==
    ASSUME Inv, NEW s \in Sessions, NEW p, NEW c, Goes(p, c),
           c \in {conn[s], NoConn} \/ Free(c),
           NEW t \in Sessions, t # s, HoldsLock(t)
    PROVE  owner'[cur[t]] = conn[t]
  <1>1. /\ cur[t] \in Posts /\ conn[t] \in Conns /\ owner[cur[t]] = conn[t]
        /\ conn[s] # conn[t]
    BY HeldAlone
  <1>. QED
    BY <1>1, ConstantsAssumption DEF Goes, Free

LEMMA RowsUnlocked ==
    ASSUME RowsTyped, NEW s, UnlockRows(s)
    PROVE  rowlock' \in [Posts -> Sessions \cup {NoOne}]
  BY DEF RowsTyped, UnlockRows

-----------------------------------------------------------------------------
(* Every action keeps the invariant                                        *)

LEMMA ScanKeeps ==
    ASSUME Inv, NEW w \in Workers, NEW c \in Conns, Scan(w, c)
    PROVE  Inv'
  <1>1. RowsTyped' /\ LocksTyped' /\ HistoryTyped'
    BY DEF Inv, Typed, RowsTyped, LocksTyped, HistoryTyped, Scan
  <1>2. ConnsTyped'
    BY DEF Inv, Typed, ConnsTyped, Scan, Free
  <1>3. SessionsTyped'
    BY DEF Inv, Typed, SessionsTyped, Scan
  <1>4. CopiesTyped'
    BY SomeTyped, ViewTyped DEF Inv, Typed, CopiesTyped, Scan
  <1>5. Places'
    BY ConstantsAssumption
    DEF Inv, Typed, SessionsTyped, ConnsTyped, Places, Calling, Sessions, Scan
  <1>6. LockIsHeld'
    BY ConstantsAssumption
    DEF Inv, Typed, LocksTyped, ConnsTyped, SessionsTyped, Places, LockIsHeld, HoldsLock,
        Calling, Sessions, Scan
  <1>. QED
    BY <1>1, <1>2, <1>3, <1>4, <1>5, <1>6 DEF Inv, Typed

LEMMA TryLockKeeps ==
    ASSUME Inv, NEW w \in Workers, NEW p \in Posts, TryLock(w, p)
    PROVE  Inv'
  <1>1. w \in Sessions /\ conn[w] \in Conns /\ Take(p, conn[w], 2)
    BY DEF Inv, Places, Sessions, TryLock
  <1>2. LocksTyped' /\ owner' = [owner EXCEPT ![p] = conn[w]]
        /\ \A q \in Posts : owner[q] \in Conns \ {conn[w]} => owner'[q] = owner[q]
    BY <1>1, TakeKeeps DEF Inv, Typed, TryLock
  <1>3. RowsTyped' /\ ConnsTyped' /\ HistoryTyped'
    BY DEF Inv, Typed, RowsTyped, ConnsTyped, HistoryTyped, TryLock
  <1>4. LocksTyped'
    BY <1>2
  <1>5. SessionsTyped'
    BY DEF Inv, Typed, SessionsTyped, TryLock
  <1>6. CopiesTyped'
    BY ConstantsAssumption
    DEF Inv, Typed, SessionsTyped, CopiesTyped, RowsTyped, Places, Sessions, TryLock
  <1>7. Places'
    BY SomeTyped DEF Inv, Typed, SessionsTyped, Places, Calling, TryLock
  <1>8. LockIsHeld'
    BY <1>1, <1>2, HeldAlone
    DEF Inv, Typed, LocksTyped, SessionsTyped, LockIsHeld, HoldsLock, Calling, TryLock
  <1>. QED
    BY <1>3, <1>4, <1>5, <1>6, <1>7, <1>8 DEF Inv, Typed

LEMMA SkipKeeps ==
    ASSUME Inv, NEW w \in Workers, NEW p \in Posts, Skip(w, p)
    PROVE  Inv'
  <1>1. RowsTyped' /\ LocksTyped' /\ ConnsTyped' /\ SessionsTyped' /\ HistoryTyped' /\
        Places' /\ LockIsHeld'
    BY DEF Inv, Typed, RowsTyped, LocksTyped, ConnsTyped, SessionsTyped, HistoryTyped,
           Places, LockIsHeld, Calling, HoldsLock, Skip
  <1>2. CopiesTyped'
    BY SomeTyped DEF Inv, Typed, CopiesTyped, Skip
  <1>. QED
    BY <1>1, <1>2 DEF Inv, Typed

LEMMA PassBreaksKeeps ==
    ASSUME Inv, NEW w \in Workers, PassBreaks(w)
    PROVE  Inv'
  <1>1. Ends(w) /\ w \in Sessions /\ UnlockRows(w)
    BY DEF PassBreaks, Ends, Sessions
  <1>2. LocksTyped' /\ HistoryTyped'
    BY DEF Inv, Typed, LocksTyped, HistoryTyped, PassBreaks
  <1>3. RowsTyped'
    BY <1>1, RowsUnlocked DEF Inv, Typed, RowsTyped, PassBreaks
  <1>4. ConnsTyped' /\ Places'
    BY <1>1, EndsGivesUp DEF Inv, Typed
  <1>5. SessionsTyped' /\ CopiesTyped'
    BY <1>1, EndsKeeps DEF Inv, Typed
  <1>6. LockIsHeld'
    BY <1>1, EndsGivesUp DEF Inv, Typed, LockIsHeld, PassBreaks
  <1>. QED
    BY <1>2, <1>3, <1>4, <1>5, <1>6 DEF Inv, Typed

LEMMA DeleteDueKeeps ==
    ASSUME Inv, NEW w \in Workers, DeleteDue(w)
    PROVE  Inv'
  <1>1. Ends(w) /\ w \in Sessions /\ UnlockRows(w)
    BY DEF DeleteDue, Ends, Sessions
  <1>2. LocksTyped' /\ HistoryTyped'
    BY DEF Inv, Typed, LocksTyped, HistoryTyped, DeleteDue
  <1>3. RowsTyped'
    BY <1>1, RowsUnlocked DEF Inv, Typed, RowsTyped, Statuses, DeleteDue
  <1>4. ConnsTyped' /\ Places'
    BY <1>1, EndsGivesUp DEF Inv, Typed
  <1>5. SessionsTyped' /\ CopiesTyped'
    BY <1>1, EndsKeeps DEF Inv, Typed
  <1>6. LockIsHeld'
    BY <1>1, EndsGivesUp DEF Inv, Typed, LockIsHeld, DeleteDue
  <1>. QED
    BY <1>2, <1>3, <1>4, <1>5, <1>6 DEF Inv, Typed

LEMMA StartCallKeeps ==
    ASSUME Inv, NEW s \in Sessions, StartCall(s)
    PROVE  Inv'
  <1>1. RowsTyped' /\ LocksTyped' /\ ConnsTyped' /\ CopiesTyped'
    BY DEF Inv, Typed, RowsTyped, LocksTyped, ConnsTyped, CopiesTyped, StartCall
  <1>2. SessionsTyped'
    BY DEF Inv, Typed, SessionsTyped, StartCall
  <1>3. HistoryTyped'
    BY DEF Inv, Typed, HistoryTyped, SessionsTyped, Places, StartCall
  <1>4. Places'
    BY ConstantsAssumption
    DEF Inv, Typed, SessionsTyped, ConnsTyped, Places, Calling, Sessions, StartCall
  <1>5. LockIsHeld'
    BY ConstantsAssumption
    DEF Inv, Typed, LocksTyped, ConnsTyped, SessionsTyped, Places, LockIsHeld, HoldsLock,
        Calling, Sessions, StartCall
  <1>. QED
    BY <1>1, <1>2, <1>3, <1>4, <1>5 DEF Inv, Typed

LEMMA PersistTokenKeeps ==
    ASSUME Inv, NEW s \in Sessions, PersistToken(s)
    PROVE  Inv'
  <1>1. LocksTyped' /\ CopiesTyped' /\ HistoryTyped'
    BY DEF Inv, Typed, LocksTyped, CopiesTyped, HistoryTyped, PersistToken
  <1>2. RowsTyped'
    BY RowsUnlocked DEF Inv, Typed, RowsTyped, Statuses, PersistToken
  <1>3. ConnsTyped'
    BY DEF Inv, Typed, ConnsTyped, PersistToken
  <1>4. SessionsTyped'
    BY DEF Inv, Typed, SessionsTyped, PersistToken
  <1>5. Places'
    BY ConstantsAssumption
    DEF Inv, Typed, SessionsTyped, ConnsTyped, Places, Calling, Sessions, PersistToken
  <1>6. LockIsHeld'
    BY ConstantsAssumption
    DEF Inv, Typed, LocksTyped, ConnsTyped, SessionsTyped, Places, LockIsHeld, HoldsLock,
        Calling, Sessions, PersistToken
  <1>. QED
    BY <1>1, <1>2, <1>3, <1>4, <1>5, <1>6 DEF Inv, Typed

LEMMA GoogleAcceptsKeeps ==
    ASSUME Inv, NEW s \in Sessions, GoogleAccepts(s)
    PROVE  Inv'
  <1>1. RowsTyped' /\ LocksTyped' /\ ConnsTyped' /\ CopiesTyped'
    BY DEF Inv, Typed, RowsTyped, LocksTyped, ConnsTyped, CopiesTyped, GoogleAccepts
  <1>2. SessionsTyped'
    BY DEF Inv, Typed, SessionsTyped, GoogleAccepts
  <1>3. HistoryTyped'
    BY DEF Inv, Typed, HistoryTyped, SessionsTyped, Places, GoogleAccepts
  <1>4. Places'
    BY ConstantsAssumption
    DEF Inv, Typed, SessionsTyped, ConnsTyped, Places, Calling, Sessions, GoogleAccepts
  <1>5. LockIsHeld'
    BY ConstantsAssumption
    DEF Inv, Typed, LocksTyped, ConnsTyped, SessionsTyped, Places, LockIsHeld, HoldsLock,
        Calling, Sessions, GoogleAccepts
  <1>. QED
    BY <1>1, <1>2, <1>3, <1>4, <1>5 DEF Inv, Typed

LEMMA GoogleRefusesKeeps ==
    ASSUME Inv, NEW s \in Sessions, GoogleRefuses(s)
    PROVE  Inv'
  <1>1. RowsTyped' /\ LocksTyped' /\ ConnsTyped' /\ CopiesTyped' /\ HistoryTyped'
    BY DEF Inv, Typed, RowsTyped, LocksTyped, ConnsTyped, CopiesTyped, HistoryTyped,
           GoogleRefuses
  <1>2. SessionsTyped'
    BY DEF Inv, Typed, SessionsTyped, GoogleRefuses
  <1>3. Places'
    BY ConstantsAssumption
    DEF Inv, Typed, SessionsTyped, ConnsTyped, Places, Calling, Sessions, GoogleRefuses
  <1>4. LockIsHeld'
    BY ConstantsAssumption
    DEF Inv, Typed, LocksTyped, ConnsTyped, SessionsTyped, Places, LockIsHeld, HoldsLock,
        Calling, Sessions, GoogleRefuses
  <1>. QED
    BY <1>1, <1>2, <1>3, <1>4 DEF Inv, Typed

LEMMA ReplyLostKeeps ==
    ASSUME Inv, NEW s \in Sessions, ReplyLost(s)
    PROVE  Inv'
  <1>1. RowsTyped' /\ LocksTyped' /\ ConnsTyped' /\ CopiesTyped'
    BY DEF Inv, Typed, RowsTyped, LocksTyped, ConnsTyped, CopiesTyped, ReplyLost
  <1>2. SessionsTyped'
    BY DEF Inv, Typed, SessionsTyped, ReplyLost
  <1>3. HistoryTyped'
    BY ConstantsAssumption DEF Inv, Typed, HistoryTyped, SessionsTyped, Places, ReplyLost
  <1>4. Places'
    BY ConstantsAssumption
    DEF Inv, Typed, SessionsTyped, ConnsTyped, Places, Calling, Sessions, ReplyLost
  <1>5. LockIsHeld'
    BY ConstantsAssumption
    DEF Inv, Typed, LocksTyped, ConnsTyped, SessionsTyped, Places, LockIsHeld, HoldsLock,
        Calling, Sessions, ReplyLost
  <1>. QED
    BY <1>1, <1>2, <1>3, <1>4, <1>5 DEF Inv, Typed

LEMMA RefuseKeeps ==
    ASSUME Inv, NEW s \in Sessions, Refuse(s)
    PROVE  Inv'
  <1>1. cur[s] \in Posts /\ conn[s] \in Conns
    BY DEF Inv, Typed, SessionsTyped, Places, Refuse
  <1>2. LocksTyped' /\ Goes(cur[s], conn[s])
    BY <1>1, LeftIsLeft, GiveBackKeeps, LeaveLockKeeps DEF Inv, Typed, Refuse
  <1>3. \/ Ends(s) /\ UnlockRows(s)
        \/ /\ pc' = [pc EXCEPT ![s] = "releasing"] /\ conn' = [conn EXCEPT ![s] = "none"]
           /\ expired' = expired \cup {s} /\ s \in Workers
           /\ seen' = [seen EXCEPT ![s] = Unseen]
           /\ UNCHANGED <<rowlock, cur, todo, aim, fresh, midway>>
    BY DEF Refuse, Ends, Sessions
  <1>4. HistoryTyped'
    BY DEF Inv, Typed, HistoryTyped, Refuse
  <1>5. RowsTyped'
    BY <1>3, RowsUnlocked DEF Inv, Typed, RowsTyped, Refuse
  <1>6. LocksTyped'
    BY <1>2
  <1>7. ConnsTyped'
    BY <1>3, EndsGivesUp DEF Inv, Typed, ConnsTyped
  <1>8. SessionsTyped'
    BY <1>3, EndsKeeps DEF Inv, Typed, SessionsTyped
  <1>9. CopiesTyped'
    BY <1>3, EndsKeeps, SomeTyped DEF Inv, Typed, CopiesTyped
  <1>10. Places'
    <2>1. CASE Ends(s)
      BY <2>1, EndsGivesUp DEF Inv, Typed
    <2>2. CASE ~Ends(s)
      BY <2>2, <1>3, <1>1, SomeTyped
      DEF Inv, Typed, SessionsTyped, ConnsTyped, Places, Calling
    <2>. QED
      BY <2>1, <2>2
  <1>11. LockIsHeld'
    <2>1. ASSUME NEW t \in Sessions, HoldsLock(t)'
          PROVE  t # s /\ HoldsLock(t) /\ cur'[t] = cur[t] /\ conn'[t] = conn[t]
      <3>1. CASE Ends(s)
        BY <2>1, <3>1, EndsGivesUp DEF Inv, Typed
      <3>2. CASE ~Ends(s)
        BY <2>1, <3>2, <1>3 DEF Inv, Typed, SessionsTyped, ConnsTyped, HoldsLock, Calling
      <3>. QED
        BY <3>1, <3>2
    <2>. QED
      BY <2>1, <1>1, <1>2, OthersHold DEF LockIsHeld
  <1>. QED
    BY <1>4, <1>5, <1>6, <1>7, <1>8, <1>9, <1>10, <1>11 DEF Inv, Typed

LEMMA CommitFailsKeeps ==
    ASSUME Inv, NEW s \in Sessions, CommitFails(s)
    PROVE  Inv'
  <1>1. cur[s] \in Posts /\ Ends(s) /\ UnlockRows(s)
    BY DEF Inv, Typed, SessionsTyped, Places, CommitFails, Ends
  <1>2. LocksTyped' /\ Goes(cur[s], "none")
    BY <1>1, LeaveLockKeeps DEF Inv, Typed, LocksTyped, CommitFails
  <1>3. RowsTyped'
    BY <1>1, RowsUnlocked DEF Inv, Typed, RowsTyped, CommitFails
  <1>4. LocksTyped'
    BY <1>2
  <1>5. ConnsTyped' /\ Places'
    BY <1>1, EndsGivesUp DEF Inv, Typed
  <1>6. SessionsTyped' /\ CopiesTyped'
    BY <1>1, EndsKeeps DEF Inv, Typed
  <1>7. HistoryTyped'
    BY ConstantsAssumption DEF Inv, Typed, HistoryTyped, SessionsTyped, Places, CommitFails
  <1>8. LockIsHeld'
    BY <1>1, <1>2, HeldAlone, EndsGivesUp, ConstantsAssumption
    DEF Inv, Typed, LockIsHeld, Goes
  <1>. QED
    BY <1>3, <1>4, <1>5, <1>6, <1>7, <1>8 DEF Inv, Typed

LEMMA AfterPublishedKeeps ==
    ASSUME Inv, NEW s \in Sessions, NEW c \in Conns, AfterPublished(s, c)
    PROVE  Inv'
  <1>1. cur[s] \in Posts /\ Free(c)
    BY DEF Inv, Typed, SessionsTyped, Places, AfterPublished
  <1>2. LocksTyped' /\ Goes(cur[s], c)
    BY <1>1, LeftIsLeft, LeaveLockKeeps DEF Inv, Typed, AfterPublished
  <1>3. \/ Ends(s) /\ UnlockRows(s)
        \/ /\ pc' = [pc EXCEPT ![s] = "pass"] /\ conn' = [conn EXCEPT ![s] = c]
           /\ cur' = [cur EXCEPT ![s] = 0] /\ midway' = midway \ {s}
           /\ seen' = [seen EXCEPT ![s][cur[s]] = Unseen[cur[s]]]
           /\ UNCHANGED <<rowlock, todo, aim, fresh, expired>>
    BY DEF AfterPublished, Ends
  <1>4. HistoryTyped'
    BY DEF Inv, Typed, HistoryTyped, AfterPublished
  <1>5. RowsTyped'
    BY <1>3, RowsUnlocked DEF Inv, Typed, RowsTyped, AfterPublished
  <1>6. LocksTyped'
    BY <1>2
  <1>7. ConnsTyped'
    BY <1>1, <1>3, EndsGivesUp DEF Inv, Typed, ConnsTyped, Free
  <1>8. SessionsTyped'
    BY <1>3, EndsKeeps DEF Inv, Typed, SessionsTyped
  <1>9. CopiesTyped'
    BY <1>1, <1>3, EndsKeeps, SomeTyped DEF Inv, Typed, CopiesTyped
  <1>10. Places'
    <2>1. CASE Ends(s)
      BY <2>1, EndsGivesUp DEF Inv, Typed
    <2>2. CASE ~Ends(s)
      BY <2>2, <1>3, <1>1 DEF Inv, Typed, SessionsTyped, ConnsTyped, Places, Calling
    <2>. QED
      BY <2>1, <2>2
  <1>11. LockIsHeld'
    <2>1. ASSUME NEW t \in Sessions, HoldsLock(t)'
          PROVE  t # s /\ HoldsLock(t) /\ cur'[t] = cur[t] /\ conn'[t] = conn[t]
      <3>1. CASE Ends(s)
        BY <2>1, <3>1, EndsGivesUp DEF Inv, Typed
      <3>2. CASE ~Ends(s)
        BY <2>1, <3>2, <1>3 DEF Inv, Typed, SessionsTyped, ConnsTyped, HoldsLock, Calling
      <3>. QED
        BY <3>1, <3>2
    <2>. QED
      BY <2>1, <1>1, <1>2, OthersHold DEF LockIsHeld
  <1>. QED
    BY <1>4, <1>5, <1>6, <1>7, <1>8, <1>9, <1>10, <1>11 DEF Inv, Typed

LEMMA AfterFailedKeeps ==
    ASSUME Inv, NEW s \in Sessions, NEW c \in Conns, AfterFailed(s, c)
    PROVE  Inv'
  <1>1. cur[s] \in Posts /\ Free(c)
    BY DEF Inv, Typed, SessionsTyped, Places, AfterFailed
  <1>2. LocksTyped' /\ Goes(cur[s], c)
    BY <1>1, LeftIsLeft, GiveBackKeeps, LeaveLockKeeps DEF Inv, Typed, AfterFailed
  <1>3. \/ Ends(s) /\ UnlockRows(s)
        \/ /\ pc' = [pc EXCEPT ![s] = "releasing"]
           /\ expired' = expired \cup {s} /\ s \in Workers
           /\ seen' = [seen EXCEPT ![s] = Unseen] /\ midway' = midway \ {s}
           /\ UNCHANGED <<rowlock, conn, cur, todo, aim, fresh>>
    BY DEF AfterFailed, Ends, Sessions
  <1>4. conn[s] = "none"
    BY DEF Inv, Places, AfterFailed
  <1>5. HistoryTyped'
    BY DEF Inv, Typed, HistoryTyped, AfterFailed
  <1>6. RowsTyped'
    BY <1>3, RowsUnlocked DEF Inv, Typed, RowsTyped, AfterFailed
  <1>7. LocksTyped'
    BY <1>2
  <1>8. ConnsTyped'
    BY <1>3, EndsGivesUp DEF Inv, Typed, ConnsTyped
  <1>9. SessionsTyped'
    BY <1>3, EndsKeeps DEF Inv, Typed, SessionsTyped
  <1>10. CopiesTyped'
    BY <1>3, EndsKeeps, SomeTyped DEF Inv, Typed, CopiesTyped
  <1>11. Places'
    <2>1. CASE Ends(s)
      BY <2>1, EndsGivesUp DEF Inv, Typed
    <2>2. CASE ~Ends(s)
      BY <2>2, <1>3, <1>1, SomeTyped, <1>4 DEF Inv, Typed, SessionsTyped, Places, Calling
    <2>. QED
      BY <2>1, <2>2
  <1>12. LockIsHeld'
    <2>1. ASSUME NEW t \in Sessions, HoldsLock(t)'
          PROVE  t # s /\ HoldsLock(t) /\ cur'[t] = cur[t] /\ conn'[t] = conn[t]
      <3>1. CASE Ends(s)
        BY <2>1, <3>1, EndsGivesUp DEF Inv, Typed
      <3>2. CASE ~Ends(s)
        BY <2>1, <3>2, <1>3 DEF Inv, Typed, SessionsTyped, HoldsLock, Calling
      <3>. QED
        BY <3>1, <3>2
    <2>. QED
      BY <2>1, <1>1, <1>2, OthersHold DEF LockIsHeld
  <1>. QED
    BY <1>5, <1>6, <1>7, <1>8, <1>9, <1>10, <1>11, <1>12 DEF Inv, Typed

LEMMA AfterRollbackKeeps ==
    ASSUME Inv, NEW w \in Workers, NEW c \in Conns, AfterRollback(w, c)
    PROVE  Inv'
  <1>1. w \in Sessions /\ cur[w] \in Posts /\ Free(c)
    BY DEF Inv, Typed, SessionsTyped, Places, Sessions, AfterRollback
  <1>2. LocksTyped' /\ Goes(cur[w], c)
    BY <1>1, LeftIsLeft, LeaveLockKeeps DEF Inv, Typed, AfterRollback
  <1>3. RowsTyped' /\ CopiesTyped' /\ HistoryTyped'
    BY DEF Inv, Typed, RowsTyped, CopiesTyped, HistoryTyped, AfterRollback
  <1>4. LocksTyped'
    BY <1>2
  <1>5. ConnsTyped'
    BY <1>1 DEF Inv, Typed, ConnsTyped, Free, AfterRollback
  <1>6. SessionsTyped'
    BY DEF Inv, Typed, SessionsTyped, AfterRollback
  <1>7. Places'
    BY ConstantsAssumption
    DEF Inv, Typed, SessionsTyped, ConnsTyped, Places, Calling, Sessions, AfterRollback
  <1>8. LockIsHeld'
    <2>1. ASSUME NEW t \in Sessions, HoldsLock(t)'
          PROVE  t # w /\ HoldsLock(t) /\ cur'[t] = cur[t] /\ conn'[t] = conn[t]
      BY <2>1, <1>1 DEF Inv, Typed, HoldsLock, Calling, AfterRollback
    <2>. QED
      BY <2>1, <1>1, <1>2, OthersHold DEF LockIsHeld
  <1>. QED
    BY <1>3, <1>4, <1>5, <1>6, <1>7, <1>8 DEF Inv, Typed

LEMMA CommitKeeps ==
    ASSUME Inv, NEW s \in Sessions, NEW c \in Conns, NEW new \in Views,
           NEW from \in {"accepted", "rejected"}, NEW to \in {"done", "failed"},
           Commit(s, c, from, new, to)
    PROVE  Inv'
  <1>1. cur[s] \in Posts /\ Calling(s)
    BY DEF Inv, Typed, SessionsTyped, Places, Calling, Commit
  <1>2. Flushed(s, cur[s], new) \in [status : Statuses, tries : 0..MaxAttempts + 1,
                                     backoff : BOOLEAN, due : BOOLEAN]
    BY <1>1 DEF Inv, Typed, RowsTyped, Views, Flushed
  <1>3. LocksTyped' /\ CopiesTyped'
    BY DEF Inv, Typed, LocksTyped, CopiesTyped, Commit
  <1>4. RowsTyped'
    BY <1>1, <1>2, RowsUnlocked DEF Inv, Typed, RowsTyped, Commit
  <1>5. ConnsTyped'
    BY DEF Inv, Typed, ConnsTyped, Commit
  <1>6. SessionsTyped'
    BY DEF Inv, Typed, SessionsTyped, Commit
  <1>7. HistoryTyped'
    BY <1>1 DEF Inv, Typed, HistoryTyped, Commit
  <1>8. Places'
    BY ConstantsAssumption
    DEF Inv, Typed, SessionsTyped, ConnsTyped, Places, Calling, Sessions, Commit
  <1>9. LockIsHeld'
    BY ConstantsAssumption
    DEF Inv, Typed, LocksTyped, ConnsTyped, SessionsTyped, Places, LockIsHeld, HoldsLock,
        Calling, Sessions, Commit
  <1>. QED
    BY <1>3, <1>4, <1>5, <1>6, <1>7, <1>8, <1>9 DEF Inv, Typed

LEMMA RecordPublishedKeeps ==
    ASSUME Inv, NEW s \in Sessions, NEW c \in Conns, RecordPublished(s, c)
    PROVE  Inv'
  <1>1. Published(seen[s][cur[s]]) \in Views
    BY ConstantsAssumption DEF Published, Views, Statuses
  <1>. QED
    BY <1>1, CommitKeeps DEF RecordPublished

LEMMA RecordFailureKeeps ==
    ASSUME Inv, NEW s \in Sessions, NEW c \in Conns, RecordFailure(s, c)
    PROVE  Inv'
  <1>1. cur[s] \in Posts
    BY DEF Inv, Typed, SessionsTyped, Places, Commit, RecordFailure
  <1>2. Failed(seen[s][cur[s]]) \in Views
    BY <1>1, FailedTyped DEF Inv, Typed, CopiesTyped
  <1>. QED
    BY <1>2, CommitKeeps DEF RecordFailure

LEMMA AskPublishKeeps ==
    ASSUME Inv, NEW o \in Operators, NEW p \in Posts, NEW c \in Conns, AskPublish(o, p, c)
    PROVE  Inv'
  <1>1. LocksTyped'
    BY DEF Inv, Typed, LocksTyped, AskPublish
  <1>2. RowsTyped'
    BY DEF Inv, Typed, RowsTyped, Sessions, AskPublish
  <1>3. ConnsTyped'
    BY DEF Inv, Typed, ConnsTyped, Loads, Free, AskPublish
  <1>4. SessionsTyped'
    BY DEF Inv, Typed, SessionsTyped, Loads, AskPublish
  <1>5. CopiesTyped'
    BY ViewTyped DEF Inv, Typed, CopiesTyped, Loads, AskPublish
  <1>6. HistoryTyped'
    BY ConstantsAssumption DEF Inv, Typed, HistoryTyped, Asks, AskPublish
  <1>7. Places'
    BY SomeTyped
    DEF Inv, Typed, SessionsTyped, ConnsTyped, Places, Calling, Sessions, Loads, AskPublish
  <1>8. LockIsHeld'
    BY DEF Inv, Typed, SessionsTyped, ConnsTyped, LockIsHeld, HoldsLock, Calling, Sessions,
           Loads, AskPublish
  <1>. QED
    BY <1>1, <1>2, <1>3, <1>4, <1>5, <1>6, <1>7, <1>8 DEF Inv, Typed

LEMMA AskCreateKeeps ==
    ASSUME Inv, NEW o \in Operators, NEW p \in Posts, NEW c \in Conns, AskCreate(o, p, c)
    PROVE  Inv'
  <1>1. RowsTyped' /\ LocksTyped'
    BY DEF Inv, Typed, RowsTyped, LocksTyped, AskCreate
  <1>2. ConnsTyped'
    BY DEF Inv, Typed, ConnsTyped, Loads, Free, AskCreate
  <1>3. SessionsTyped'
    BY DEF Inv, Typed, SessionsTyped, Loads, AskCreate
  <1>4. CopiesTyped'
    BY SomeTyped DEF Inv, Typed, CopiesTyped, Loads, AskCreate
  <1>5. HistoryTyped'
    BY ConstantsAssumption DEF Inv, Typed, HistoryTyped, Asks, AskCreate
  <1>6. Places'
    BY SomeTyped
    DEF Inv, Typed, SessionsTyped, ConnsTyped, Places, Calling, Sessions, Loads, AskCreate
  <1>7. LockIsHeld'
    BY DEF Inv, Typed, SessionsTyped, ConnsTyped, LockIsHeld, HoldsLock, Calling, Sessions,
           Loads, AskCreate
  <1>. QED
    BY <1>1, <1>2, <1>3, <1>4, <1>5, <1>6, <1>7 DEF Inv, Typed

LEMMA TakeLockKeeps ==
    ASSUME Inv, NEW o \in Operators, TakeLock(o)
    PROVE  Inv'
  <1>1. o \in Sessions /\ cur[o] \in Posts /\ conn[o] \in Conns
    BY DEF Inv, Typed, SessionsTyped, Places, Sessions, TakeLock
  <1>2. LocksTyped' /\ owner' = [owner EXCEPT ![cur[o]] = conn[o]]
        /\ \A q \in Posts : owner[q] \in Conns \ {conn[o]} => owner'[q] = owner[q]
    BY <1>1, TakeKeeps DEF Inv, Typed, TakeLock
  <1>3. RowsTyped' /\ ConnsTyped' /\ CopiesTyped' /\ HistoryTyped'
    BY DEF Inv, Typed, RowsTyped, ConnsTyped, CopiesTyped, HistoryTyped, TakeLock
  <1>4. LocksTyped'
    BY <1>2
  <1>5. SessionsTyped'
    BY DEF Inv, Typed, SessionsTyped, TakeLock
  <1>6. Places'
    BY <1>1 DEF Inv, Typed, Places, Calling, TakeLock
  <1>7. LockIsHeld'
    BY <1>1, <1>2, HeldAlone
    DEF Inv, Typed, LocksTyped, SessionsTyped, LockIsHeld, HoldsLock, Calling, TakeLock
  <1>. QED
    BY <1>3, <1>4, <1>5, <1>6, <1>7 DEF Inv, Typed

LEMMA LockTimesOutKeeps ==
    ASSUME Inv, NEW o \in Operators, LockTimesOut(o)
    PROVE  Inv'
  <1>1. Ends(o) /\ o \in Sessions /\ UnlockRows(o)
    BY DEF LockTimesOut, Ends, Sessions
  <1>2. LocksTyped' /\ HistoryTyped'
    BY DEF Inv, Typed, LocksTyped, HistoryTyped, LockTimesOut
  <1>3. RowsTyped'
    BY <1>1, RowsUnlocked DEF Inv, Typed, RowsTyped, LockTimesOut
  <1>4. ConnsTyped' /\ Places'
    BY <1>1, EndsGivesUp DEF Inv, Typed
  <1>5. SessionsTyped' /\ CopiesTyped'
    BY <1>1, EndsKeeps DEF Inv, Typed
  <1>6. LockIsHeld'
    BY <1>1, EndsGivesUp DEF Inv, Typed, LockIsHeld, LockTimesOut
  <1>. QED
    BY <1>2, <1>3, <1>4, <1>5, <1>6 DEF Inv, Typed

LEMMA AskEditKeeps ==
    ASSUME Inv, NEW o \in Operators, NEW p \in Posts, NEW c \in Conns, NEW to \in Statuses,
           AskEdit(o, p, c, to)
    PROVE  Inv'
  <1>1. RowsTyped' /\ LocksTyped'
    BY DEF Inv, Typed, RowsTyped, LocksTyped, AskEdit
  <1>2. ConnsTyped'
    BY DEF Inv, Typed, ConnsTyped, Loads, Free, AskEdit
  <1>3. SessionsTyped'
    BY DEF Inv, Typed, SessionsTyped, Loads, AskEdit
  <1>4. CopiesTyped'
    BY ViewTyped DEF Inv, Typed, CopiesTyped, Loads, AskEdit
  <1>5. HistoryTyped'
    BY ConstantsAssumption DEF Inv, Typed, HistoryTyped, Asks, AskEdit
  <1>6. Places'
    BY SomeTyped
    DEF Inv, Typed, SessionsTyped, ConnsTyped, Places, Calling, Sessions, Loads, AskEdit
  <1>7. LockIsHeld'
    BY DEF Inv, Typed, SessionsTyped, ConnsTyped, LockIsHeld, HoldsLock, Calling, Sessions,
           Loads, AskEdit
  <1>. QED
    BY <1>1, <1>2, <1>3, <1>4, <1>5, <1>6, <1>7 DEF Inv, Typed

LEMMA EditCommitsKeeps ==
    ASSUME Inv, NEW o \in Operators, NEW due \in BOOLEAN, EditCommits(o, due)
    PROVE  Inv'
  <1>1. Ends(o) /\ o \in Sessions /\ UnlockRows(o) /\ cur[o] \in Posts
    BY DEF Inv, Typed, SessionsTyped, Places, Sessions, Ends, EditCommits
  <1>2. LocksTyped'
    BY DEF Inv, Typed, LocksTyped, EditCommits
  <1>3. RowsTyped'
    BY <1>1, RowsUnlocked DEF Inv, Typed, RowsTyped, CopiesTyped, EditCommits
  <1>4. ConnsTyped' /\ Places'
    BY <1>1, EndsGivesUp DEF Inv, Typed
  <1>5. SessionsTyped' /\ CopiesTyped'
    BY <1>1, EndsKeeps DEF Inv, Typed
  <1>6. HistoryTyped'
    BY <1>1 DEF Inv, Typed, HistoryTyped, EditCommits
  <1>7. LockIsHeld'
    BY <1>1, EndsGivesUp DEF Inv, Typed, LockIsHeld, EditCommits
  <1>. QED
    BY <1>2, <1>3, <1>4, <1>5, <1>6, <1>7 DEF Inv, Typed

LEMMA EditFailsKeeps ==
    ASSUME Inv, NEW o \in Operators, EditFails(o)
    PROVE  Inv'
  <1>1. Ends(o) /\ o \in Sessions /\ UnlockRows(o)
    BY DEF EditFails, Ends, Sessions
  <1>2. LocksTyped' /\ HistoryTyped'
    BY DEF Inv, Typed, LocksTyped, HistoryTyped, EditFails
  <1>3. RowsTyped'
    BY <1>1, RowsUnlocked DEF Inv, Typed, RowsTyped, EditFails
  <1>4. ConnsTyped' /\ Places'
    BY <1>1, EndsGivesUp DEF Inv, Typed
  <1>5. SessionsTyped' /\ CopiesTyped'
    BY <1>1, EndsKeeps DEF Inv, Typed
  <1>6. LockIsHeld'
    BY <1>1, EndsGivesUp DEF Inv, Typed, LockIsHeld, EditFails
  <1>. QED
    BY <1>2, <1>3, <1>4, <1>5, <1>6 DEF Inv, Typed

LEMMA RemoveKeeps ==
    ASSUME Inv, NEW o \in Operators, NEW p \in Posts, Remove(o, p)
    PROVE  Inv'
  <1>1. LocksTyped' /\ ConnsTyped' /\ SessionsTyped' /\ CopiesTyped' /\ Places' /\
        LockIsHeld'
    BY DEF Inv, Typed, LocksTyped, ConnsTyped, SessionsTyped, CopiesTyped, Places,
           LockIsHeld, HoldsLock, Remove, Calling
  <1>2. RowsTyped'
    BY DEF Inv, Typed, RowsTyped, Statuses, Remove
  <1>3. HistoryTyped'
    BY ConstantsAssumption DEF Inv, Typed, HistoryTyped, Asks, Remove
  <1>. QED
    BY <1>1, <1>2, <1>3 DEF Inv, Typed

LEMMA SwitchChannelKeeps ==
    ASSUME Inv, NEW p \in Posts, SwitchChannel(p)
    PROVE  Inv'
  <1>1. RowsTyped' /\ LocksTyped' /\ ConnsTyped' /\ SessionsTyped' /\ CopiesTyped' /\
        Places' /\ LockIsHeld'
    BY DEF Inv, Typed, RowsTyped, LocksTyped, ConnsTyped, SessionsTyped, CopiesTyped,
           Places, LockIsHeld, Calling, HoldsLock, SwitchChannel
  <1>2. HistoryTyped'
    BY ConstantsAssumption DEF Inv, Typed, HistoryTyped, SwitchChannel
  <1>. QED
    BY <1>1, <1>2 DEF Inv, Typed

LEMMA ClockKeeps ==
    ASSUME Inv, Clock
    PROVE  Inv'
  <1>1. LocksTyped' /\ ConnsTyped' /\ SessionsTyped' /\ CopiesTyped' /\ Places' /\
        LockIsHeld'
    BY DEF Inv, Typed, LocksTyped, ConnsTyped, SessionsTyped, CopiesTyped, Places,
           LockIsHeld, HoldsLock, Clock, ComesDue, BackoffPasses, Outlives, Calling
  <1>2. RowsTyped'
    <2>1. ASSUME NEW p \in Posts, ComesDue(p) PROVE RowsTyped'
      BY <2>1 DEF Inv, Typed, RowsTyped, ComesDue
    <2>2. ASSUME NEW p \in Posts, BackoffPasses(p) PROVE RowsTyped'
      BY <2>2 DEF Inv, Typed, RowsTyped, BackoffPasses
    <2>3. ASSUME NEW p \in Posts, Outlives(p) PROVE RowsTyped'
      BY <2>3 DEF Inv, Typed, RowsTyped, Outlives
    <2>. QED
      BY <2>1, <2>2, <2>3 DEF Clock
  <1>3. HistoryTyped'
    BY DEF Inv, Typed, HistoryTyped, Clock, ComesDue, BackoffPasses, Outlives
  <1>. QED
    BY <1>1, <1>2, <1>3 DEF Inv, Typed

LEMMA RecycleKeeps ==
    ASSUME Inv, NEW c \in Conns, Recycle(c)
    PROVE  Inv'
  <1>1. LocksTyped' /\ \A q \in Posts : owner[q] # c => owner'[q] = owner[q]
    BY CloseConnKeeps DEF Inv, Typed, Recycle
  <1>2. RowsTyped' /\ ConnsTyped' /\ SessionsTyped' /\ CopiesTyped' /\ HistoryTyped' /\
        Places'
    BY DEF Inv, Typed, RowsTyped, ConnsTyped, SessionsTyped, CopiesTyped, HistoryTyped,
           Places, HoldsLock, Recycle, Calling
  <1>3. LocksTyped'
    BY <1>1
  <1>4. LockIsHeld'
    <2>1. ASSUME NEW t \in Sessions, HoldsLock(t)
          PROVE  owner'[cur[t]] = conn[t]
      BY <1>1, <2>1, HeldAlone DEF Free, Recycle
    <2>. QED
      BY <2>1 DEF LockIsHeld, HoldsLock, Calling, Recycle
  <1>. QED
    BY <1>2, <1>3, <1>4 DEF Inv, Typed

LEMMA CrashKeeps ==
    ASSUME Inv, NEW s \in Sessions, Crash(s)
    PROVE  Inv'
  <1>1. Ends(s) /\ UnlockRows(s) /\ (pc[s] = "accepted" => cur[s] \in Posts)
    BY DEF Inv, Typed, SessionsTyped, Places, Ends, Crash
  <1>2. LocksTyped' /\
        \A q \in Posts : owner[q] \notin {conn[s], "lost"} => owner'[q] = owner[q]
    BY CloseConnKeeps DEF Inv, Typed, Crash
  <1>3. RowsTyped'
    BY <1>1, RowsUnlocked DEF Inv, Typed, RowsTyped, Crash
  <1>4. LocksTyped'
    BY <1>2
  <1>5. ConnsTyped' /\ Places'
    BY <1>1, EndsGivesUp DEF Inv, Typed
  <1>6. SessionsTyped' /\ CopiesTyped'
    BY <1>1, EndsKeeps DEF Inv, Typed
  <1>7. HistoryTyped'
    BY <1>1, ConstantsAssumption DEF Inv, Typed, HistoryTyped, Crash
  <1>8. LockIsHeld'
    <2>1. ASSUME NEW t \in Sessions, HoldsLock(t)'
          PROVE  t # s /\ HoldsLock(t) /\ cur'[t] = cur[t] /\ conn'[t] = conn[t]
      BY <1>1, <2>1, EndsGivesUp DEF Inv, Typed
    <2>2. ASSUME NEW t \in Sessions, t # s, HoldsLock(t)
          PROVE  owner'[cur[t]] = conn[t]
      BY <1>2, <2>2, HeldAlone, ConstantsAssumption
    <2>. QED
      BY <2>1, <2>2 DEF LockIsHeld
  <1>. QED
    BY <1>3, <1>4, <1>5, <1>6, <1>7, <1>8 DEF Inv, Typed

LEMMA LoseConnectionKeeps ==
    ASSUME Inv, NEW s \in Sessions, LoseConnection(s)
    PROVE  Inv'
  <1>1. LocksTyped' /\ \A q \in Posts : owner[q] # conn[s] => owner'[q] = owner[q]
    BY CloseConnKeeps DEF Inv, Typed, LoseConnection
  <1>2. SessionsTyped' /\ CopiesTyped'
    BY DEF Inv, Typed, SessionsTyped, CopiesTyped, LoseConnection
  <1>3. RowsTyped'
    BY RowsUnlocked DEF Inv, Typed, RowsTyped, LoseConnection
  <1>4. LocksTyped'
    BY <1>1
  <1>5. ConnsTyped'
    BY DEF Inv, Typed, ConnsTyped, LoseConnection
  <1>6. HistoryTyped'
    BY ConstantsAssumption DEF Inv, Typed, HistoryTyped, LoseConnection
  <1>7. Places'
    BY ConstantsAssumption
    DEF Inv, Typed, SessionsTyped, ConnsTyped, Places, Calling, Sessions, LoseConnection
  <1>8. LockIsHeld'
    <2>1. ASSUME NEW t \in Sessions, HoldsLock(t)'
          PROVE  t # s /\ HoldsLock(t) /\ cur'[t] = cur[t] /\ conn'[t] = conn[t]
      BY <2>1 DEF Inv, Typed, ConnsTyped, HoldsLock, Calling, LoseConnection
    <2>2. ASSUME NEW t \in Sessions, t # s, HoldsLock(t)
          PROVE  owner'[cur[t]] = conn[t]
      BY <1>1, <2>2, HeldAlone
    <2>. QED
      BY <2>1, <2>2 DEF LockIsHeld
  <1>. QED
    BY <1>2, <1>3, <1>4, <1>5, <1>6, <1>7, <1>8 DEF Inv, Typed

-----------------------------------------------------------------------------
(* The theorems                                                            *)

LEMMA InvInit == Init => Inv
  <1>. SUFFICES ASSUME Init PROVE Inv
    OBVIOUS
  <1>. PICK first \in [Posts -> {"new", "draft", "scheduled"}] :
             row = [p \in Posts |-> [status |-> first[p], tries |-> 0, backoff |-> FALSE,
                                     due |-> FALSE]]
    BY DEF Init
  <1>1. RowsTyped
    BY ConstantsAssumption DEF Init, RowsTyped, Statuses
  <1>2. LocksTyped /\ ConnsTyped
    BY DEF Init, LocksTyped, ConnsTyped
  <1>3. SessionsTyped /\ HistoryTyped
    BY ConstantsAssumption DEF Init, SessionsTyped, HistoryTyped
  <1>4. CopiesTyped
    BY SomeTyped DEF Init, CopiesTyped, Statuses
  <1>5. Places /\ LockIsHeld
    BY DEF Init, Places, LockIsHeld, HoldsLock, Calling
  <1>. QED
    BY <1>1, <1>2, <1>3, <1>4, <1>5 DEF Inv, Typed

LEMMA InvNext == Inv /\ [Next]_vars => Inv'
  <1>. SUFFICES ASSUME Inv, [Next]_vars PROVE Inv'
    OBVIOUS
  <1>1. ASSUME NEW s \in Sessions, PublishStep(s) PROVE Inv'
    BY <1>1, StartCallKeeps, RefuseKeeps, PersistTokenKeeps, GoogleAcceptsKeeps,
       GoogleRefusesKeeps, CommitFailsKeeps, RecordPublishedKeeps, RecordFailureKeeps,
       AfterPublishedKeeps, AfterFailedKeeps DEF PublishStep
  <1>2. ASSUME NEW w \in Workers, PassStep(w) PROVE Inv'
    BY <1>2, TryLockKeeps, SkipKeeps, PassBreaksKeeps, DeleteDueKeeps, ScanKeeps,
       AfterRollbackKeeps DEF PassStep
  <1>3. ASSUME NEW o \in Operators, RequestStep(o) PROVE Inv'
    BY <1>3, TakeLockKeeps, LockTimesOutKeeps, EditFailsKeeps, EditCommitsKeeps
    DEF RequestStep
  <1>4. ASSUME Ask PROVE Inv'
    BY <1>4, RemoveKeeps, AskPublishKeeps, AskCreateKeeps, AskEditKeeps, SwitchChannelKeeps
    DEF Ask
  <1>5. ASSUME Mishap PROVE Inv'
    BY <1>5, ReplyLostKeeps, CrashKeeps, LoseConnectionKeeps DEF Mishap
  <1>6. ASSUME UNCHANGED vars PROVE Inv'
    BY <1>6
    DEF vars, Inv, Typed, RowsTyped, LocksTyped, ConnsTyped, SessionsTyped, CopiesTyped,
        HistoryTyped, Places, LockIsHeld, HoldsLock, Calling
  <1>. QED
    BY <1>1, <1>2, <1>3, <1>4, <1>5, <1>6, ClockKeeps, RecycleKeeps DEF Next

\* Rows, locks, connections and sessions keep their types; a lock has an owner if and only if
\* it has been taken, and no two sessions share a connection (scheduling/__init__.py,
\* posts/service.py and the pool of database.py).
THEOREM PostsTyped == Spec => []TypeOK
  <1>1. Inv => TypeOK
    BY DEF Inv, Typed, RowsTyped, LocksTyped, ConnsTyped, SessionsTyped, CopiesTyped,
       HistoryTyped, TypeOK
  <1>. QED
    BY <1>1, InvInit, InvNext, PTL DEF Spec

\* take_lock of scheduling/__init__.py: whatever passes, requests, crashes and reused
\* connections do, two sessions are in a call for one post only if one of them gave the lock's
\* connection up in mid-call or lost it.
THEOREM PublishesOneAtATime == Spec => []OneCallAtATime
  <1>1. Inv => OneCallAtATime
    <2>. SUFFICES ASSUME Inv, NEW s \in Sessions, NEW t \in Sessions, s # t,
                         Calling(s), Calling(t), cur[s] = cur[t],
                         s \notin midway, t \notin midway,
                         conn[s] # Lost, conn[t] # Lost
                  PROVE  FALSE
      BY DEF OneCallAtATime
    <2>1. HoldsLock(s) /\ HoldsLock(t)
      BY DEF HoldsLock
    <2>2. owner[cur[s]] = conn[s] /\ owner[cur[t]] = conn[t] /\ conn[s] # conn[t]
      BY <2>1, HeldAlone
    <2>. QED
      BY <2>2
  <1>. QED
    BY <1>1, InvInit, InvNext, PTL DEF Spec


-----------------------------------------------------------------------------
(* Every copy is accounted for                                             *)

\* A post that is inserted and not committed is nobody else's.
FreshIsNew ==
    \A s \in fresh :
        /\ cur[s] \in Posts /\ row[cur[s]].status = "new"
        /\ \A t \in Sessions \ {s} : cur[t] # cur[s]
TodoIsNotNew == \A w \in Workers : \A p \in todo[w] : row[p].status # "new"
AimIsNotNew == \A o \in Operators : aim[o] # "new"
CallIsOfPublishable ==
    \A s \in Sessions : Calling(s) => seen[s][cur[s]].status \in Publishable

\* Before its outcome is written a call may make one copy more than are excused, and has made
\* it once Google has accepted it.
Callers(p) == {s \in Sessions : cur[s] = p /\ pc[s] = "calling"}
Unrecorded(p) == {s \in Sessions : cur[s] = p /\ pc[s] = "accepted"}
Counted(p) ==
    /\ google[p] + Cardinality(Callers(p)) <= 1 + excused[p]
    /\ row[p].status \notin {"published", "deleted"} =>
          google[p] <= excused[p] + Cardinality(Unrecorded(p))
CopiesCounted == \A p \in Posts : Counted(p)

CallInv == Inv /\ FreshIsNew /\ TodoIsNotNew /\ AimIsNotNew /\ CallIsOfPublishable

LEMMA CallsAreFinite ==
    ASSUME NEW p
    PROVE  /\ IsFiniteSet(Callers(p)) /\ Cardinality(Callers(p)) \in Nat
           /\ IsFiniteSet(Unrecorded(p)) /\ Cardinality(Unrecorded(p)) \in Nat
  <1>1. IsFiniteSet(Sessions)
    BY ConstantsAssumption
  <1>2. IsFiniteSet(Callers(p)) /\ IsFiniteSet(Unrecorded(p))
    BY <1>1, FS_Subset DEF Callers, Unrecorded
  <1>. QED
    BY <1>2, FS_CardinalityType

\* Who begins or ends no call leaves the counts.
SameCalls ==
    \A t \in Sessions :
        \/ pc'[t] = pc[t] /\ cur'[t] = cur[t]
        \/ {pc[t], pc'[t]} \cap {"calling", "accepted"} = {}
RowsHeld ==
    \A p \in Posts :
        row'[p].status \notin {"published", "deleted"} =>
            row[p].status \notin {"published", "deleted"} \/ excused'[p] = excused[p] + 1

LEMMA SameCallsKeep ==
    ASSUME Inv, CopiesCounted, SameCalls, RowsHeld, google' = google,
           \A p \in Posts : excused'[p] \in {excused[p], excused[p] + 1}
    PROVE  CopiesCounted'
  <1>. SUFFICES ASSUME NEW p \in Posts PROVE Counted(p)'
    BY DEF CopiesCounted
  <1>1. Callers(p)' = Callers(p) /\ Unrecorded(p)' = Unrecorded(p)
    BY DEF SameCalls, Callers, Unrecorded
  <1>2. google[p] \in Nat /\ excused[p] \in Nat
    BY DEF Inv, Typed, HistoryTyped
  <1>3. Counted(p)
    BY DEF CopiesCounted
  <1>. QED
    BY <1>1, <1>2, <1>3, CallsAreFinite DEF Counted, RowsHeld

LEMMA ScanCalls ==
    ASSUME CallInv, NEW w \in Workers, NEW c \in Conns, Scan(w, c)
    PROVE  FreshIsNew' /\ TodoIsNotNew' /\ AimIsNotNew' /\ CallIsOfPublishable'
  <1>1. FreshIsNew'
    BY DEF CallInv, FreshIsNew, Scan
  <1>2. TodoIsNotNew'
    BY DEF CallInv, TodoIsNotNew, Scan, IsDue
  <1>4. AimIsNotNew'
    BY DEF CallInv, AimIsNotNew, Scan
  <1>3. CallIsOfPublishable'
    BY DEF CallInv, CallIsOfPublishable, Calling, Scan
  <1>. QED
    BY <1>1, <1>2, <1>3, <1>4

LEMMA TryLockCalls ==
    ASSUME CallInv, NEW w \in Workers, NEW p \in Posts, TryLock(w, p)
    PROVE  FreshIsNew' /\ TodoIsNotNew' /\ AimIsNotNew' /\ CallIsOfPublishable'
  <1>1. FreshIsNew'
    BY ConstantsAssumption
    DEF CallInv, Inv, Typed, SessionsTyped, FreshIsNew, TodoIsNotNew, Oldest, TryLock
  <1>2. TodoIsNotNew'
    BY DEF CallInv, TodoIsNotNew, TryLock
  <1>4. AimIsNotNew'
    BY DEF CallInv, AimIsNotNew, TryLock
  <1>3. CallIsOfPublishable'
    BY DEF CallInv, CallIsOfPublishable, Calling, TryLock
  <1>. QED
    BY <1>1, <1>2, <1>3, <1>4

LEMMA SkipCalls ==
    ASSUME CallInv, NEW w \in Workers, NEW p \in Posts, Skip(w, p)
    PROVE  FreshIsNew' /\ TodoIsNotNew' /\ AimIsNotNew' /\ CallIsOfPublishable'
  <1>1. FreshIsNew'
    BY DEF CallInv, FreshIsNew, Skip
  <1>2. TodoIsNotNew'
    BY DEF CallInv, TodoIsNotNew, Skip
  <1>4. AimIsNotNew'
    BY DEF CallInv, AimIsNotNew, Skip
  <1>3. CallIsOfPublishable'
    BY DEF CallInv, CallIsOfPublishable, Calling, Skip
  <1>. QED
    BY <1>1, <1>2, <1>3, <1>4

LEMMA PassBreaksCalls ==
    ASSUME CallInv, NEW w \in Workers, PassBreaks(w)
    PROVE  FreshIsNew' /\ TodoIsNotNew' /\ AimIsNotNew' /\ CallIsOfPublishable'
  <1>1. FreshIsNew'
    BY DEF CallInv, Inv, Places, FreshIsNew, PassBreaks, Ends
  <1>2. TodoIsNotNew'
    BY DEF CallInv, TodoIsNotNew, PassBreaks, Ends
  <1>4. AimIsNotNew'
    BY DEF CallInv, AimIsNotNew, PassBreaks, Ends
  <1>3. CallIsOfPublishable'
    BY DEF CallInv, CallIsOfPublishable, Calling, PassBreaks, Ends
  <1>. QED
    BY <1>1, <1>2, <1>3, <1>4

LEMMA DeleteDueCalls ==
    ASSUME CallInv, NEW w \in Workers, DeleteDue(w)
    PROVE  FreshIsNew' /\ TodoIsNotNew' /\ AimIsNotNew' /\ CallIsOfPublishable'
  <1>1. FreshIsNew'
    BY DEF CallInv, Inv, Places, Absent, FreshIsNew, DeleteDue, Ends
  <1>2. TodoIsNotNew'
    BY DEF CallInv, Inv, Typed, CopiesTyped, TodoIsNotNew, DeleteDue, Ends
  <1>4. AimIsNotNew'
    BY DEF CallInv, AimIsNotNew, DeleteDue, Ends
  <1>3. CallIsOfPublishable'
    BY DEF CallInv, CallIsOfPublishable, Calling, DeleteDue, Ends
  <1>. QED
    BY <1>1, <1>2, <1>3, <1>4

LEMMA StartCallCalls ==
    ASSUME CallInv, NEW s \in Sessions, StartCall(s)
    PROVE  FreshIsNew' /\ TodoIsNotNew' /\ AimIsNotNew' /\ CallIsOfPublishable'
  <1>1. FreshIsNew'
    BY DEF CallInv, FreshIsNew, StartCall
  <1>2. TodoIsNotNew'
    BY DEF CallInv, TodoIsNotNew, StartCall
  <1>4. AimIsNotNew'
    BY DEF CallInv, AimIsNotNew, StartCall
  <1>3. CallIsOfPublishable'
    BY DEF CallInv, CallIsOfPublishable, Calling, StartCall, MayPublish
  <1>. QED
    BY <1>1, <1>2, <1>3, <1>4

LEMMA RefuseCalls ==
    ASSUME CallInv, NEW s \in Sessions, Refuse(s)
    PROVE  FreshIsNew' /\ TodoIsNotNew' /\ AimIsNotNew' /\ CallIsOfPublishable'
  <1>1. FreshIsNew'
    BY SomeTyped DEF CallInv, Inv, Typed, SessionsTyped, Sessions, FreshIsNew, Refuse, Ends
  <1>2. TodoIsNotNew'
    BY SomeTyped DEF CallInv, TodoIsNotNew, Refuse, Ends
  <1>4. AimIsNotNew'
    BY DEF CallInv, AimIsNotNew, Refuse, Ends
  <1>3. CallIsOfPublishable'
    BY DEF CallInv, Inv, Typed, SessionsTyped, RowsTyped, CopiesTyped, CallIsOfPublishable,
           Calling, Refuse, Ends
  <1>. QED
    BY <1>1, <1>2, <1>3, <1>4

LEMMA PersistTokenCalls ==
    ASSUME CallInv, NEW s \in Sessions, PersistToken(s)
    PROVE  FreshIsNew' /\ TodoIsNotNew' /\ AimIsNotNew' /\ CallIsOfPublishable'
  <1>1. FreshIsNew'
    BY DEF CallInv, FreshIsNew, PersistToken
  <1>2. TodoIsNotNew'
    BY DEF CallInv, TodoIsNotNew, PersistToken
  <1>4. AimIsNotNew'
    BY DEF CallInv, AimIsNotNew, PersistToken
  <1>3. CallIsOfPublishable'
    BY DEF CallInv, CallIsOfPublishable, Calling, PersistToken
  <1>. QED
    BY <1>1, <1>2, <1>3, <1>4

LEMMA GoogleAcceptsCalls ==
    ASSUME CallInv, NEW s \in Sessions, GoogleAccepts(s)
    PROVE  FreshIsNew' /\ TodoIsNotNew' /\ AimIsNotNew' /\ CallIsOfPublishable'
  <1>1. FreshIsNew'
    BY DEF CallInv, FreshIsNew, GoogleAccepts
  <1>2. TodoIsNotNew'
    BY DEF CallInv, TodoIsNotNew, GoogleAccepts
  <1>4. AimIsNotNew'
    BY DEF CallInv, AimIsNotNew, GoogleAccepts
  <1>3. CallIsOfPublishable'
    BY DEF CallInv, CallIsOfPublishable, Calling, GoogleAccepts
  <1>. QED
    BY <1>1, <1>2, <1>3, <1>4

LEMMA GoogleRefusesCalls ==
    ASSUME CallInv, NEW s \in Sessions, GoogleRefuses(s)
    PROVE  FreshIsNew' /\ TodoIsNotNew' /\ AimIsNotNew' /\ CallIsOfPublishable'
  <1>1. FreshIsNew'
    BY DEF CallInv, FreshIsNew, GoogleRefuses
  <1>2. TodoIsNotNew'
    BY DEF CallInv, TodoIsNotNew, GoogleRefuses
  <1>4. AimIsNotNew'
    BY DEF CallInv, AimIsNotNew, GoogleRefuses
  <1>3. CallIsOfPublishable'
    BY DEF CallInv, CallIsOfPublishable, Calling, GoogleRefuses
  <1>. QED
    BY <1>1, <1>2, <1>3, <1>4

LEMMA ReplyLostCalls ==
    ASSUME CallInv, NEW s \in Sessions, ReplyLost(s)
    PROVE  FreshIsNew' /\ TodoIsNotNew' /\ AimIsNotNew' /\ CallIsOfPublishable'
  <1>1. FreshIsNew'
    BY DEF CallInv, FreshIsNew, ReplyLost
  <1>2. TodoIsNotNew'
    BY DEF CallInv, TodoIsNotNew, ReplyLost
  <1>4. AimIsNotNew'
    BY DEF CallInv, AimIsNotNew, ReplyLost
  <1>3. CallIsOfPublishable'
    BY DEF CallInv, CallIsOfPublishable, Calling, ReplyLost
  <1>. QED
    BY <1>1, <1>2, <1>3, <1>4

LEMMA CommitFailsCalls ==
    ASSUME CallInv, NEW s \in Sessions, CommitFails(s)
    PROVE  FreshIsNew' /\ TodoIsNotNew' /\ AimIsNotNew' /\ CallIsOfPublishable'
  <1>1. FreshIsNew'
    BY SomeTyped DEF CallInv, FreshIsNew, CommitFails, Ends
  <1>2. TodoIsNotNew'
    BY DEF CallInv, TodoIsNotNew, CommitFails, Ends
  <1>4. AimIsNotNew'
    BY DEF CallInv, AimIsNotNew, CommitFails, Ends
  <1>3. CallIsOfPublishable'
    BY DEF CallInv, Inv, Typed, SessionsTyped, CallIsOfPublishable, Calling, CommitFails,
           Ends
  <1>. QED
    BY <1>1, <1>2, <1>3, <1>4

LEMMA RecordPublishedCalls ==
    ASSUME CallInv, NEW s \in Sessions, NEW c \in Conns, RecordPublished(s, c)
    PROVE  FreshIsNew' /\ TodoIsNotNew' /\ AimIsNotNew' /\ CallIsOfPublishable'
  <1>1. FreshIsNew'
    BY DEF CallInv, FreshIsNew, RecordPublished, Commit
  <1>2. TodoIsNotNew'
    BY DEF CallInv, TodoIsNotNew, RecordPublished, Commit, Flushed, Published
  <1>4. AimIsNotNew'
    BY DEF CallInv, AimIsNotNew, RecordPublished, Commit
  <1>3. CallIsOfPublishable'
    BY DEF CallInv, CallIsOfPublishable, Calling, RecordPublished, Commit
  <1>. QED
    BY <1>1, <1>2, <1>3, <1>4

LEMMA RecordFailureCalls ==
    ASSUME CallInv, NEW s \in Sessions, NEW c \in Conns, RecordFailure(s, c)
    PROVE  FreshIsNew' /\ TodoIsNotNew' /\ AimIsNotNew' /\ CallIsOfPublishable'
  <1>1. FreshIsNew'
    BY DEF CallInv, FreshIsNew, RecordFailure, Commit
  <1>2. TodoIsNotNew'
    BY DEF CallInv, TodoIsNotNew, RecordFailure, Commit, Flushed, Failed
  <1>4. AimIsNotNew'
    BY DEF CallInv, AimIsNotNew, RecordFailure, Commit
  <1>3. CallIsOfPublishable'
    BY DEF CallInv, CallIsOfPublishable, Calling, RecordFailure, Commit
  <1>. QED
    BY <1>1, <1>2, <1>3, <1>4

LEMMA AfterPublishedCalls ==
    ASSUME CallInv, NEW s \in Sessions, NEW c \in Conns, AfterPublished(s, c)
    PROVE  FreshIsNew' /\ TodoIsNotNew' /\ AimIsNotNew' /\ CallIsOfPublishable'
  <1>1. FreshIsNew'
    BY SomeTyped
    DEF CallInv, Inv, Typed, SessionsTyped, Sessions, FreshIsNew, AfterPublished, Ends
  <1>2. TodoIsNotNew'
    BY DEF CallInv, TodoIsNotNew, AfterPublished, Ends
  <1>4. AimIsNotNew'
    BY DEF CallInv, AimIsNotNew, AfterPublished, Ends
  <1>3. CallIsOfPublishable'
    BY DEF CallInv, Inv, Typed, SessionsTyped, CopiesTyped, CallIsOfPublishable, Calling,
           AfterPublished, Ends
  <1>. QED
    BY <1>1, <1>2, <1>3, <1>4

LEMMA AfterFailedCalls ==
    ASSUME CallInv, NEW s \in Sessions, NEW c \in Conns, AfterFailed(s, c)
    PROVE  FreshIsNew' /\ TodoIsNotNew' /\ AimIsNotNew' /\ CallIsOfPublishable'
  <1>1. FreshIsNew'
    BY SomeTyped
    DEF CallInv, Inv, Typed, SessionsTyped, Sessions, FreshIsNew, AfterFailed, Ends
  <1>2. TodoIsNotNew'
    <2>1. CASE s \in Operators
      <3>1. row' = row /\ todo' = [w \in Workers |-> IF w = s THEN {} ELSE todo[w]]
        BY <2>1 DEF AfterFailed, Ends
      <3>. QED
        BY <3>1 DEF CallInv, TodoIsNotNew
    <2>2. CASE s \notin Operators
      <3>1. row' = row /\ todo' = todo
        BY <2>2 DEF AfterFailed
      <3>. QED
        BY <3>1 DEF CallInv, TodoIsNotNew
    <2>. QED
      BY <2>1, <2>2
  <1>4. AimIsNotNew'
    BY DEF CallInv, AimIsNotNew, AfterFailed, Ends
  <1>3. CallIsOfPublishable'
    BY DEF CallInv, Inv, Typed, SessionsTyped, CopiesTyped, CallIsOfPublishable, Calling,
           AfterFailed, Ends
  <1>. QED
    BY <1>1, <1>2, <1>3, <1>4

LEMMA AfterRollbackCalls ==
    ASSUME CallInv, NEW w \in Workers, NEW c \in Conns, AfterRollback(w, c)
    PROVE  FreshIsNew' /\ TodoIsNotNew' /\ AimIsNotNew' /\ CallIsOfPublishable'
  <1>1. FreshIsNew'
    BY SomeTyped, ConstantsAssumption
    DEF CallInv, Inv, Typed, SessionsTyped, FreshIsNew, AfterRollback
  <1>2. TodoIsNotNew'
    BY DEF CallInv, TodoIsNotNew, AfterRollback
  <1>4. AimIsNotNew'
    BY DEF CallInv, AimIsNotNew, AfterRollback
  <1>3. CallIsOfPublishable'
    BY DEF CallInv, CallIsOfPublishable, Calling, AfterRollback
  <1>. QED
    BY <1>1, <1>2, <1>3, <1>4

LEMMA AskPublishCalls ==
    ASSUME CallInv, NEW o \in Operators, NEW p \in Posts, NEW c \in Conns, AskPublish(o, p, c)
    PROVE  FreshIsNew' /\ TodoIsNotNew' /\ AimIsNotNew' /\ CallIsOfPublishable'
  <1>1. FreshIsNew'
    BY SomeTyped
    DEF CallInv, Inv, Places, Sessions, Publishable, FreshIsNew, AskPublish, Asks, Loads
  <1>2. TodoIsNotNew'
    BY DEF CallInv, TodoIsNotNew, AskPublish
  <1>4. AimIsNotNew'
    BY DEF CallInv, AimIsNotNew, AskPublish
  <1>3. CallIsOfPublishable'
    BY DEF CallInv, CallIsOfPublishable, Calling, AskPublish, Asks, Loads
  <1>. QED
    BY <1>1, <1>2, <1>3, <1>4

LEMMA AskCreateCalls ==
    ASSUME CallInv, NEW o \in Operators, NEW p \in Posts, NEW c \in Conns, AskCreate(o, p, c)
    PROVE  FreshIsNew' /\ TodoIsNotNew' /\ AimIsNotNew' /\ CallIsOfPublishable'
  <1>1. FreshIsNew'
    BY DEF CallInv, Inv, Typed, SessionsTyped, Sessions, FreshIsNew, AskCreate, Loads
  <1>2. TodoIsNotNew'
    BY DEF CallInv, TodoIsNotNew, AskCreate
  <1>4. AimIsNotNew'
    BY DEF CallInv, AimIsNotNew, AskCreate
  <1>3. CallIsOfPublishable'
    BY DEF CallInv, CallIsOfPublishable, Calling, AskCreate, Asks, Loads
  <1>. QED
    BY <1>1, <1>2, <1>3, <1>4

LEMMA TakeLockCalls ==
    ASSUME CallInv, NEW o \in Operators, TakeLock(o)
    PROVE  FreshIsNew' /\ TodoIsNotNew' /\ AimIsNotNew' /\ CallIsOfPublishable'
  <1>1. FreshIsNew'
    BY DEF CallInv, FreshIsNew, TakeLock
  <1>2. TodoIsNotNew'
    BY DEF CallInv, TodoIsNotNew, TakeLock
  <1>4. AimIsNotNew'
    BY DEF CallInv, AimIsNotNew, TakeLock
  <1>3. CallIsOfPublishable'
    BY DEF CallInv, CallIsOfPublishable, Calling, TakeLock
  <1>. QED
    BY <1>1, <1>2, <1>3, <1>4

LEMMA LockTimesOutCalls ==
    ASSUME CallInv, NEW o \in Operators, LockTimesOut(o)
    PROVE  FreshIsNew' /\ TodoIsNotNew' /\ AimIsNotNew' /\ CallIsOfPublishable'
  <1>1. FreshIsNew'
    BY SomeTyped DEF CallInv, FreshIsNew, LockTimesOut, Ends
  <1>2. TodoIsNotNew'
    BY DEF CallInv, TodoIsNotNew, LockTimesOut, Ends
  <1>4. AimIsNotNew'
    BY DEF CallInv, AimIsNotNew, LockTimesOut, Ends
  <1>3. CallIsOfPublishable'
    BY DEF CallInv, CallIsOfPublishable, Calling, LockTimesOut, Ends
  <1>. QED
    BY <1>1, <1>2, <1>3, <1>4

LEMMA AskEditCalls ==
    ASSUME CallInv, NEW o \in Operators, NEW p \in Posts, NEW c \in Conns, NEW to \in Statuses,
           AskEdit(o, p, c, to)
    PROVE  FreshIsNew' /\ TodoIsNotNew' /\ AimIsNotNew' /\ CallIsOfPublishable'
  <1>1. FreshIsNew'
    BY SomeTyped
    DEF CallInv, Inv, Places, Sessions, Publishable, FreshIsNew, AskEdit, Asks, Loads,
        Targets
  <1>2. TodoIsNotNew'
    BY DEF CallInv, TodoIsNotNew, AskEdit
  <1>4. AimIsNotNew'
    BY DEF CallInv, AimIsNotNew, AskEdit, Targets
  <1>3. CallIsOfPublishable'
    BY DEF CallInv, CallIsOfPublishable, Calling, AskEdit, Asks, Loads
  <1>. QED
    BY <1>1, <1>2, <1>3, <1>4

LEMMA EditCommitsCalls ==
    ASSUME CallInv, NEW o \in Operators, NEW due \in BOOLEAN, EditCommits(o, due)
    PROVE  FreshIsNew' /\ TodoIsNotNew' /\ AimIsNotNew' /\ CallIsOfPublishable'
  <1>1. FreshIsNew'
    BY SomeTyped DEF CallInv, Sessions, FreshIsNew, EditCommits, Ends
  <1>2. TodoIsNotNew'
    <2>1. \A q \in Posts : row'[q].status = "new" => row[q].status = "new"
      BY DEF CallInv, AimIsNotNew, EditCommits
    <2>2. todo' = [w \in Workers |-> IF w = o THEN {} ELSE todo[w]]
      BY DEF EditCommits, Ends
    <2>. QED
      BY <2>1, <2>2 DEF CallInv, Inv, Typed, CopiesTyped, TodoIsNotNew
  <1>4. AimIsNotNew'
    BY DEF CallInv, AimIsNotNew, EditCommits, Ends
  <1>3. CallIsOfPublishable'
    BY DEF CallInv, CallIsOfPublishable, Calling, EditCommits, Ends
  <1>. QED
    BY <1>1, <1>2, <1>3, <1>4

LEMMA EditFailsCalls ==
    ASSUME CallInv, NEW o \in Operators, EditFails(o)
    PROVE  FreshIsNew' /\ TodoIsNotNew' /\ AimIsNotNew' /\ CallIsOfPublishable'
  <1>1. FreshIsNew'
    BY SomeTyped DEF CallInv, FreshIsNew, EditFails, Ends
  <1>2. TodoIsNotNew'
    BY DEF CallInv, TodoIsNotNew, EditFails, Ends
  <1>4. AimIsNotNew'
    BY DEF CallInv, AimIsNotNew, EditFails, Ends
  <1>3. CallIsOfPublishable'
    BY DEF CallInv, CallIsOfPublishable, Calling, EditFails, Ends
  <1>. QED
    BY <1>1, <1>2, <1>3, <1>4

LEMMA RemoveCalls ==
    ASSUME CallInv, NEW o \in Operators, NEW p \in Posts, Remove(o, p)
    PROVE  FreshIsNew' /\ TodoIsNotNew' /\ AimIsNotNew' /\ CallIsOfPublishable'
  <1>1. FreshIsNew'
    BY DEF CallInv, Absent, FreshIsNew, Remove
  <1>2. TodoIsNotNew'
    BY DEF CallInv, TodoIsNotNew, Remove
  <1>4. AimIsNotNew'
    BY DEF CallInv, AimIsNotNew, Remove
  <1>3. CallIsOfPublishable'
    BY DEF CallInv, CallIsOfPublishable, Calling, Remove
  <1>. QED
    BY <1>1, <1>2, <1>3, <1>4

LEMMA SwitchChannelCalls ==
    ASSUME CallInv, NEW p \in Posts, SwitchChannel(p)
    PROVE  FreshIsNew' /\ TodoIsNotNew' /\ AimIsNotNew' /\ CallIsOfPublishable'
  <1>1. FreshIsNew'
    BY DEF CallInv, FreshIsNew, SwitchChannel
  <1>2. TodoIsNotNew'
    BY DEF CallInv, TodoIsNotNew, SwitchChannel
  <1>4. AimIsNotNew'
    BY DEF CallInv, AimIsNotNew, SwitchChannel
  <1>3. CallIsOfPublishable'
    BY DEF CallInv, CallIsOfPublishable, Calling, SwitchChannel
  <1>. QED
    BY <1>1, <1>2, <1>3, <1>4

LEMMA ComesDueCalls ==
    ASSUME CallInv, NEW p \in Posts, ComesDue(p)
    PROVE  FreshIsNew' /\ TodoIsNotNew' /\ AimIsNotNew' /\ CallIsOfPublishable'
  <1>1. FreshIsNew'
    BY DEF CallInv, FreshIsNew, ComesDue
  <1>2. TodoIsNotNew'
    BY DEF CallInv, TodoIsNotNew, ComesDue
  <1>4. AimIsNotNew'
    BY DEF CallInv, AimIsNotNew, ComesDue
  <1>3. CallIsOfPublishable'
    BY DEF CallInv, CallIsOfPublishable, Calling, ComesDue
  <1>. QED
    BY <1>1, <1>2, <1>3, <1>4

LEMMA BackoffPassesCalls ==
    ASSUME CallInv, NEW p \in Posts, BackoffPasses(p)
    PROVE  FreshIsNew' /\ TodoIsNotNew' /\ AimIsNotNew' /\ CallIsOfPublishable'
  <1>1. FreshIsNew'
    BY DEF CallInv, FreshIsNew, BackoffPasses
  <1>2. TodoIsNotNew'
    BY DEF CallInv, TodoIsNotNew, BackoffPasses
  <1>4. AimIsNotNew'
    BY DEF CallInv, AimIsNotNew, BackoffPasses
  <1>3. CallIsOfPublishable'
    BY DEF CallInv, CallIsOfPublishable, Calling, BackoffPasses
  <1>. QED
    BY <1>1, <1>2, <1>3, <1>4

LEMMA OutlivesCalls ==
    ASSUME CallInv, NEW p \in Posts, Outlives(p)
    PROVE  FreshIsNew' /\ TodoIsNotNew' /\ AimIsNotNew' /\ CallIsOfPublishable'
  <1>1. FreshIsNew'
    BY DEF CallInv, FreshIsNew, Outlives
  <1>2. TodoIsNotNew'
    BY DEF CallInv, TodoIsNotNew, Outlives
  <1>4. AimIsNotNew'
    BY DEF CallInv, AimIsNotNew, Outlives
  <1>3. CallIsOfPublishable'
    BY DEF CallInv, CallIsOfPublishable, Calling, Outlives
  <1>. QED
    BY <1>1, <1>2, <1>3, <1>4

LEMMA RecycleCalls ==
    ASSUME CallInv, NEW c \in Conns, Recycle(c)
    PROVE  FreshIsNew' /\ TodoIsNotNew' /\ AimIsNotNew' /\ CallIsOfPublishable'
  <1>1. FreshIsNew'
    BY DEF CallInv, FreshIsNew, Recycle
  <1>2. TodoIsNotNew'
    BY DEF CallInv, TodoIsNotNew, Recycle
  <1>4. AimIsNotNew'
    BY DEF CallInv, AimIsNotNew, Recycle
  <1>3. CallIsOfPublishable'
    BY DEF CallInv, CallIsOfPublishable, Calling, Recycle
  <1>. QED
    BY <1>1, <1>2, <1>3, <1>4

LEMMA CrashCalls ==
    ASSUME CallInv, NEW s \in Sessions, Crash(s)
    PROVE  FreshIsNew' /\ TodoIsNotNew' /\ AimIsNotNew' /\ CallIsOfPublishable'
  <1>1. FreshIsNew'
    BY SomeTyped DEF CallInv, FreshIsNew, Crash, Ends
  <1>2. TodoIsNotNew'
    BY DEF CallInv, TodoIsNotNew, Crash, Ends
  <1>4. AimIsNotNew'
    BY DEF CallInv, AimIsNotNew, Crash, Ends
  <1>3. CallIsOfPublishable'
    BY DEF CallInv, Inv, Typed, SessionsTyped, CallIsOfPublishable, Calling, Crash, Ends
  <1>. QED
    BY <1>1, <1>2, <1>3, <1>4

LEMMA LoseConnectionCalls ==
    ASSUME CallInv, NEW s \in Sessions, LoseConnection(s)
    PROVE  FreshIsNew' /\ TodoIsNotNew' /\ AimIsNotNew' /\ CallIsOfPublishable'
  <1>1. FreshIsNew'
    BY DEF CallInv, FreshIsNew, LoseConnection
  <1>2. TodoIsNotNew'
    BY DEF CallInv, TodoIsNotNew, LoseConnection
  <1>4. AimIsNotNew'
    BY DEF CallInv, AimIsNotNew, LoseConnection
  <1>3. CallIsOfPublishable'
    BY DEF CallInv, CallIsOfPublishable, Calling, LoseConnection
  <1>. QED
    BY <1>1, <1>2, <1>3, <1>4

LEMMA ScanCounts ==
    ASSUME CallInv, CopiesCounted, NEW w \in Workers, NEW c \in Conns, Scan(w, c)
    PROVE  CopiesCounted'
  <1>1. SameCalls
    BY DEF SameCalls, Scan, IsDue
  <1>2. RowsHeld
    BY DEF RowsTyped, Places, Sessions, Publishable, RowsHeld, Scan
  <1>3. google' = google /\ \A q \in Posts : excused'[q] \in {excused[q], excused[q] + 1}
    BY DEF Scan, IsDue
  <1>. QED
    BY <1>1, <1>2, <1>3, SameCallsKeep DEF CallInv

LEMMA TryLockCounts ==
    ASSUME CallInv, CopiesCounted, NEW w \in Workers, NEW p \in Posts, TryLock(w, p)
    PROVE  CopiesCounted'
  <1>1. SameCalls
    BY DEF Absent, SameCalls, TryLock
  <1>2. RowsHeld
    BY DEF RowsTyped, Places, Sessions, Publishable, Absent, FreshIsNew, AimIsNotNew,
           RowsHeld, HistoryTyped, Overwrites, TryLock
  <1>3. google' = google /\ \A q \in Posts : excused'[q] \in {excused[q], excused[q] + 1}
    BY DEF TryLock
  <1>. QED
    BY <1>1, <1>2, <1>3, SameCallsKeep DEF CallInv

LEMMA SkipCounts ==
    ASSUME CallInv, CopiesCounted, NEW w \in Workers, NEW p \in Posts, Skip(w, p)
    PROVE  CopiesCounted'
  <1>1. SameCalls
    BY DEF Absent, SameCalls, Skip
  <1>2. RowsHeld
    BY DEF RowsTyped, Places, Sessions, Publishable, Absent, FreshIsNew, AimIsNotNew,
           RowsHeld, HistoryTyped, Overwrites, Skip
  <1>3. google' = google /\ \A q \in Posts : excused'[q] \in {excused[q], excused[q] + 1}
    BY DEF Skip
  <1>. QED
    BY <1>1, <1>2, <1>3, SameCallsKeep DEF CallInv

LEMMA PassBreaksCounts ==
    ASSUME CallInv, CopiesCounted, NEW w \in Workers, PassBreaks(w)
    PROVE  CopiesCounted'
  <1>1. SameCalls
    BY DEF SameCalls, PassBreaks, Ends
  <1>2. RowsHeld
    BY DEF RowsTyped, Places, Sessions, Publishable, Absent, FreshIsNew, AimIsNotNew,
           RowsHeld, HistoryTyped, Overwrites, PassBreaks
  <1>3. google' = google /\ \A q \in Posts : excused'[q] \in {excused[q], excused[q] + 1}
    BY DEF PassBreaks, Ends
  <1>. QED
    BY <1>1, <1>2, <1>3, SameCallsKeep DEF CallInv

LEMMA DeleteDueCounts ==
    ASSUME CallInv, CopiesCounted, NEW w \in Workers, DeleteDue(w)
    PROVE  CopiesCounted'
  <1>1. SameCalls
    BY DEF SameCalls, DeleteDue, Ends
  <1>2. RowsHeld
    BY DEF RowsTyped, Places, Sessions, Publishable, RowsHeld, DeleteDue
  <1>3. google' = google /\ \A q \in Posts : excused'[q] \in {excused[q], excused[q] + 1}
    BY DEF DeleteDue, Ends
  <1>. QED
    BY <1>1, <1>2, <1>3, SameCallsKeep DEF CallInv

LEMMA RefuseCounts ==
    ASSUME CallInv, CopiesCounted, NEW s \in Sessions, Refuse(s)
    PROVE  CopiesCounted'
  <1>1. SameCalls
    BY DEF SameCalls, Refuse, Ends
  <1>2. RowsHeld
    BY DEF RowsHeld, Refuse, Ends
  <1>3. google' = google /\ \A q \in Posts : excused'[q] \in {excused[q], excused[q] + 1}
    BY DEF Refuse, Ends
  <1>. QED
    BY <1>1, <1>2, <1>3, SameCallsKeep DEF CallInv

LEMMA PersistTokenCounts ==
    ASSUME CallInv, CopiesCounted, NEW s \in Sessions, PersistToken(s)
    PROVE  CopiesCounted'
  <1>1. SameCalls
    BY DEF Absent, SameCalls, PersistToken
  <1>2. RowsHeld
    BY DEF CallInv, FreshIsNew, RowsHeld, PersistToken
  <1>3. google' = google /\ \A q \in Posts : excused'[q] \in {excused[q], excused[q] + 1}
    BY DEF PersistToken
  <1>. QED
    BY <1>1, <1>2, <1>3, SameCallsKeep DEF CallInv

LEMMA AfterPublishedCounts ==
    ASSUME CallInv, CopiesCounted, NEW s \in Sessions, NEW c \in Conns, AfterPublished(s, c)
    PROVE  CopiesCounted'
  <1>1. SameCalls
    BY DEF SameCalls, AfterPublished, Ends
  <1>2. RowsHeld
    BY DEF RowsHeld, AfterPublished, Ends
  <1>3. google' = google /\ \A q \in Posts : excused'[q] \in {excused[q], excused[q] + 1}
    BY DEF AfterPublished, Ends
  <1>. QED
    BY <1>1, <1>2, <1>3, SameCallsKeep DEF CallInv

LEMMA AfterFailedCounts ==
    ASSUME CallInv, CopiesCounted, NEW s \in Sessions, NEW c \in Conns, AfterFailed(s, c)
    PROVE  CopiesCounted'
  <1>1. SameCalls
    BY DEF SameCalls, AfterFailed, Ends
  <1>2. RowsHeld
    BY DEF RowsHeld, AfterFailed, Ends
  <1>3. google' = google /\ \A q \in Posts : excused'[q] \in {excused[q], excused[q] + 1}
    BY DEF AfterFailed, Ends
  <1>. QED
    BY <1>1, <1>2, <1>3, SameCallsKeep DEF CallInv

LEMMA AfterRollbackCounts ==
    ASSUME CallInv, CopiesCounted, NEW w \in Workers, NEW c \in Conns, AfterRollback(w, c)
    PROVE  CopiesCounted'
  <1>1. SameCalls
    BY DEF Absent, SameCalls, AfterRollback
  <1>2. RowsHeld
    BY DEF RowsTyped, Places, Sessions, Publishable, Absent, FreshIsNew, AimIsNotNew,
           RowsHeld, HistoryTyped, Overwrites, AfterRollback
  <1>3. google' = google /\ \A q \in Posts : excused'[q] \in {excused[q], excused[q] + 1}
    BY DEF AfterRollback
  <1>. QED
    BY <1>1, <1>2, <1>3, SameCallsKeep DEF CallInv

LEMMA AskPublishCounts ==
    ASSUME CallInv, CopiesCounted, NEW o \in Operators, NEW p \in Posts, NEW c \in Conns, AskPublish(o, p, c)
    PROVE  CopiesCounted'
  <1>1. SameCalls
    BY DEF SameCalls, Asks, Loads
  <1>2. RowsHeld
    BY DEF RowsHeld, AskPublish, Loads
  <1>3. google' = google /\ \A q \in Posts : excused'[q] \in {excused[q], excused[q] + 1}
    BY DEF AskPublish, Asks, Loads
  <1>. QED
    BY <1>1, <1>2, <1>3, SameCallsKeep DEF CallInv

LEMMA AskCreateCounts ==
    ASSUME CallInv, CopiesCounted, NEW o \in Operators, NEW p \in Posts, NEW c \in Conns, AskCreate(o, p, c)
    PROVE  CopiesCounted'
  <1>1. SameCalls
    BY DEF SameCalls, Asks, Loads
  <1>2. RowsHeld
    BY DEF RowsHeld, AskCreate, Loads
  <1>3. google' = google /\ \A q \in Posts : excused'[q] \in {excused[q], excused[q] + 1}
    BY DEF AskCreate, Asks, Loads
  <1>. QED
    BY <1>1, <1>2, <1>3, SameCallsKeep DEF CallInv

LEMMA TakeLockCounts ==
    ASSUME CallInv, CopiesCounted, NEW o \in Operators, TakeLock(o)
    PROVE  CopiesCounted'
  <1>1. SameCalls
    BY DEF Absent, SameCalls, TakeLock
  <1>2. RowsHeld
    BY DEF RowsTyped, Places, Sessions, Publishable, Absent, FreshIsNew, AimIsNotNew,
           RowsHeld, HistoryTyped, Overwrites, TakeLock
  <1>3. google' = google /\ \A q \in Posts : excused'[q] \in {excused[q], excused[q] + 1}
    BY DEF TakeLock
  <1>. QED
    BY <1>1, <1>2, <1>3, SameCallsKeep DEF CallInv

LEMMA LockTimesOutCounts ==
    ASSUME CallInv, CopiesCounted, NEW o \in Operators, LockTimesOut(o)
    PROVE  CopiesCounted'
  <1>1. SameCalls
    BY DEF SameCalls, LockTimesOut, Ends
  <1>2. RowsHeld
    BY DEF RowsTyped, Places, Sessions, Publishable, Absent, FreshIsNew, AimIsNotNew,
           RowsHeld, HistoryTyped, Overwrites, LockTimesOut
  <1>3. google' = google /\ \A q \in Posts : excused'[q] \in {excused[q], excused[q] + 1}
    BY DEF LockTimesOut, Ends
  <1>. QED
    BY <1>1, <1>2, <1>3, SameCallsKeep DEF CallInv

LEMMA AskEditCounts ==
    ASSUME CallInv, CopiesCounted, NEW o \in Operators, NEW p \in Posts, NEW c \in Conns, NEW to \in Statuses,
           AskEdit(o, p, c, to)
    PROVE  CopiesCounted'
  <1>1. SameCalls
    BY DEF SameCalls, Targets
  <1>2. RowsHeld
    BY DEF RowsHeld, AskEdit
  <1>3. google' = google /\ \A q \in Posts : excused'[q] \in {excused[q], excused[q] + 1}
    BY DEF AskEdit, Loads, Targets
  <1>. QED
    BY <1>1, <1>2, <1>3, SameCallsKeep DEF CallInv

LEMMA EditCommitsCounts ==
    ASSUME CallInv, CopiesCounted, NEW o \in Operators, NEW due \in BOOLEAN, EditCommits(o, due)
    PROVE  CopiesCounted'
  <1>1. SameCalls
    BY DEF SameCalls, Ends, Found
  <1>2. RowsHeld
    BY DEF CallInv, Inv, Typed, Absent, FreshIsNew, RowsHeld, HistoryTyped, Overwrites,
           EditCommits, Found
  <1>3. google' = google /\ \A q \in Posts : excused'[q] \in {excused[q], excused[q] + 1}
    BY DEF CallInv, Inv, Typed, HistoryTyped, EditCommits
  <1>. QED
    BY <1>1, <1>2, <1>3, SameCallsKeep DEF CallInv

LEMMA EditFailsCounts ==
    ASSUME CallInv, CopiesCounted, NEW o \in Operators, EditFails(o)
    PROVE  CopiesCounted'
  <1>1. SameCalls
    BY DEF SameCalls, EditFails, Ends
  <1>2. RowsHeld
    BY DEF RowsTyped, Places, Sessions, Publishable, Absent, FreshIsNew, AimIsNotNew,
           RowsHeld, HistoryTyped, Overwrites, EditFails
  <1>3. google' = google /\ \A q \in Posts : excused'[q] \in {excused[q], excused[q] + 1}
    BY DEF EditFails, Ends
  <1>. QED
    BY <1>1, <1>2, <1>3, SameCallsKeep DEF CallInv

LEMMA RemoveCounts ==
    ASSUME CallInv, CopiesCounted, NEW o \in Operators, NEW p \in Posts, Remove(o, p)
    PROVE  CopiesCounted'
  <1>1. SameCalls
    BY DEF Absent, SameCalls, Remove
  <1>2. RowsHeld
    BY DEF RowsTyped, Places, Sessions, Publishable, RowsHeld, Remove
  <1>3. google' = google /\ \A q \in Posts : excused'[q] \in {excused[q], excused[q] + 1}
    BY DEF Remove
  <1>. QED
    BY <1>1, <1>2, <1>3, SameCallsKeep DEF CallInv

LEMMA SwitchChannelCounts ==
    ASSUME CallInv, CopiesCounted, NEW p \in Posts, SwitchChannel(p)
    PROVE  CopiesCounted'
  <1>1. SameCalls
    BY DEF Absent, SameCalls, SwitchChannel
  <1>2. RowsHeld
    BY DEF RowsTyped, Places, Sessions, Publishable, Absent, FreshIsNew, AimIsNotNew,
           RowsHeld, HistoryTyped, Overwrites, SwitchChannel
  <1>3. google' = google /\ \A q \in Posts : excused'[q] \in {excused[q], excused[q] + 1}
    BY DEF SwitchChannel
  <1>. QED
    BY <1>1, <1>2, <1>3, SameCallsKeep DEF CallInv

LEMMA ComesDueCounts ==
    ASSUME CallInv, CopiesCounted, NEW p \in Posts, ComesDue(p)
    PROVE  CopiesCounted'
  <1>1. SameCalls
    BY DEF Absent, SameCalls, ComesDue
  <1>2. RowsHeld
    BY DEF RowsTyped, Places, Sessions, Publishable, Absent, FreshIsNew, AimIsNotNew,
           RowsHeld, HistoryTyped, Overwrites, ComesDue
  <1>3. google' = google /\ \A q \in Posts : excused'[q] \in {excused[q], excused[q] + 1}
    BY DEF ComesDue
  <1>. QED
    BY <1>1, <1>2, <1>3, SameCallsKeep DEF CallInv

LEMMA BackoffPassesCounts ==
    ASSUME CallInv, CopiesCounted, NEW p \in Posts, BackoffPasses(p)
    PROVE  CopiesCounted'
  <1>1. SameCalls
    BY DEF Absent, SameCalls, BackoffPasses
  <1>2. RowsHeld
    BY DEF RowsTyped, Places, Sessions, Publishable, Absent, FreshIsNew, AimIsNotNew,
           RowsHeld, HistoryTyped, Overwrites, BackoffPasses
  <1>3. google' = google /\ \A q \in Posts : excused'[q] \in {excused[q], excused[q] + 1}
    BY DEF BackoffPasses
  <1>. QED
    BY <1>1, <1>2, <1>3, SameCallsKeep DEF CallInv

LEMMA OutlivesCounts ==
    ASSUME CallInv, CopiesCounted, NEW p \in Posts, Outlives(p)
    PROVE  CopiesCounted'
  <1>1. SameCalls
    BY DEF Absent, SameCalls, Outlives
  <1>2. RowsHeld
    BY DEF RowsTyped, Places, Sessions, Publishable, RowsHeld, Outlives
  <1>3. google' = google /\ \A q \in Posts : excused'[q] \in {excused[q], excused[q] + 1}
    BY DEF Outlives
  <1>. QED
    BY <1>1, <1>2, <1>3, SameCallsKeep DEF CallInv

LEMMA RecycleCounts ==
    ASSUME CallInv, CopiesCounted, NEW c \in Conns, Recycle(c)
    PROVE  CopiesCounted'
  <1>1. SameCalls
    BY DEF Absent, SameCalls, Recycle
  <1>2. RowsHeld
    BY DEF RowsTyped, Places, Sessions, Publishable, Absent, FreshIsNew, AimIsNotNew,
           RowsHeld, HistoryTyped, Overwrites, Recycle
  <1>3. google' = google /\ \A q \in Posts : excused'[q] \in {excused[q], excused[q] + 1}
    BY DEF Recycle
  <1>. QED
    BY <1>1, <1>2, <1>3, SameCallsKeep DEF CallInv

LEMMA LoseConnectionCounts ==
    ASSUME CallInv, CopiesCounted, NEW s \in Sessions, LoseConnection(s)
    PROVE  CopiesCounted'
  <1>1. SameCalls
    BY DEF Absent, SameCalls, LoseConnection
  <1>2. RowsHeld
    BY DEF RowsHeld, Overwrites, LoseConnection
  <1>3. google' = google /\ \A q \in Posts : excused'[q] \in {excused[q], excused[q] + 1}
    BY DEF LoseConnection
  <1>. QED
    BY <1>1, <1>2, <1>3, SameCallsKeep DEF CallInv

\* One session moves: what that does to the counts of its post.
OnlyCall(s) ==
    /\ \A t \in Sessions \ {s} : pc'[t] = pc[t] /\ cur'[t] = cur[t]
    /\ cur'[s] \in {cur[s], NoPost}
One(b) == IF b THEN 1 ELSE 0

LEMMA OtherPostsCount ==
    ASSUME NEW s \in Sessions, NEW q \in Posts, q # cur[s], OnlyCall(s)
    PROVE  Callers(q)' = Callers(q) /\ Unrecorded(q)' = Unrecorded(q)
  BY SomeTyped DEF OnlyCall, Callers, Unrecorded

LEMMA CountMoves ==
    ASSUME NEW s \in Sessions, NEW p \in Posts, cur[s] = p, OnlyCall(s)
    PROVE  /\ Cardinality(Callers(p))' = Cardinality(Callers(p))
                - One(pc[s] = "calling") + One(pc'[s] = "calling" /\ cur'[s] = p)
           /\ Cardinality(Unrecorded(p))' = Cardinality(Unrecorded(p))
                - One(pc[s] = "accepted") + One(pc'[s] = "accepted" /\ cur'[s] = p)
  <1>1. /\ Callers(p)' = IF pc'[s] = "calling" /\ cur'[s] = p
                         THEN Callers(p) \cup {s} ELSE Callers(p) \ {s}
        /\ Unrecorded(p)' = IF pc'[s] = "accepted" /\ cur'[s] = p
                            THEN Unrecorded(p) \cup {s} ELSE Unrecorded(p) \ {s}
    BY DEF OnlyCall, Callers, Unrecorded
  <1>2. /\ s \in Callers(p) <=> pc[s] = "calling"
        /\ s \in Unrecorded(p) <=> pc[s] = "accepted"
    BY DEF Callers, Unrecorded
  <1>3. ASSUME NEW T, IsFiniteSet(T), Cardinality(T) \in Nat
        PROVE  /\ Cardinality(T \cup {s}) = Cardinality(T) + One(s \notin T)
               /\ Cardinality(T \ {s}) = Cardinality(T) - One(s \in T)
    <2>1. Cardinality(T \cup {s}) = IF s \in T THEN Cardinality(T) ELSE Cardinality(T) + 1
      BY <1>3, FS_AddElement
    <2>2. Cardinality(T \ {s}) = IF s \in T THEN Cardinality(T) - 1 ELSE Cardinality(T)
      BY <1>3, FS_RemoveElement
    <2>. QED
      BY <1>3, <2>1, <2>2 DEF One
  <1>4. /\ Cardinality(Callers(p) \cup {s}) = Cardinality(Callers(p)) + One(s \notin Callers(p))
        /\ Cardinality(Callers(p) \ {s}) = Cardinality(Callers(p)) - One(s \in Callers(p))
    BY <1>3, CallsAreFinite
  <1>5. /\ Cardinality(Unrecorded(p) \cup {s})
             = Cardinality(Unrecorded(p)) + One(s \notin Unrecorded(p))
        /\ Cardinality(Unrecorded(p) \ {s})
             = Cardinality(Unrecorded(p)) - One(s \in Unrecorded(p))
    BY <1>3, CallsAreFinite
  <1>6. Cardinality(Callers(p)) \in Nat /\ Cardinality(Unrecorded(p)) \in Nat
    BY CallsAreFinite
  <1>7. Cardinality(Callers(p)') = Cardinality(Callers(p))
                - One(pc[s] = "calling") + One(pc'[s] = "calling" /\ cur'[s] = p)
    BY <1>1, <1>2, <1>4, <1>6 DEF One
  <1>8. Cardinality(Unrecorded(p)') = Cardinality(Unrecorded(p))
                - One(pc[s] = "accepted") + One(pc'[s] = "accepted" /\ cur'[s] = p)
    BY <1>1, <1>2, <1>5, <1>6 DEF One
  <1>. QED
    BY <1>7, <1>8

\* What a move must pay for: google and excused change at its own post only.
Paid(s, p) ==
    /\ \A q \in Posts \ {p} : /\ google'[q] = google[q] /\ excused'[q] = excused[q]
                              /\ row'[q] = row[q]
    /\ Counted(p)'

LEMMA PaidCounts ==
    ASSUME CopiesCounted, NEW s \in Sessions, NEW p \in Posts, cur[s] = p, OnlyCall(s), Paid(s, p)
    PROVE  CopiesCounted'
  <1>. SUFFICES ASSUME NEW q \in Posts PROVE Counted(q)'
    BY DEF CopiesCounted
  <1>1. CASE q = p
    BY <1>1 DEF Paid
  <1>2. CASE q # p
    <2>1. Callers(q)' = Callers(q) /\ Unrecorded(q)' = Unrecorded(q)
      BY <1>2, OtherPostsCount
    <2>. QED
      BY <1>2, <2>1 DEF Paid, CopiesCounted, Counted
  <1>. QED
    BY <1>1, <1>2

LEMMA StartCallCounts ==
    ASSUME CallInv, CopiesCounted, NEW s \in Sessions, StartCall(s)
    PROVE  CopiesCounted'
  <1>1. PICK p : p \in Posts /\ cur[s] = p
    BY DEF CallInv, Inv, Typed, SessionsTyped, Places, StartCall
  <1>2. OnlyCall(s) /\ pc[s] = "locked" /\ pc'[s] = "calling" /\ cur'[s] = p
    BY <1>1 DEF CallInv, Inv, Typed, SessionsTyped, OnlyCall, StartCall
  <1>3. /\ Cardinality(Callers(p))' = Cardinality(Callers(p)) - One(pc[s] = "calling") + One(pc'[s] = "calling")
        /\ Cardinality(Unrecorded(p))' = Cardinality(Unrecorded(p)) - One(pc[s] = "accepted") + One(pc'[s] = "accepted")
    BY <1>1, <1>2, CountMoves
  <1>4. /\ google[p] \in Nat /\ excused[p] \in Nat
        /\ Cardinality(Callers(p)) \in Nat /\ Cardinality(Unrecorded(p)) \in Nat
    BY <1>1, CallsAreFinite DEF CallInv, Inv, Typed, HistoryTyped
  <1>5. Counted(p)
    BY <1>1 DEF CopiesCounted
  <1>6. /\ google'[p] = google[p] /\ row'[p] = row[p]
        /\ excused'[p] = excused[p] + 1 \/ (excused'[p] = excused[p] /\ google[p] <= excused[p]
                                           /\ Cardinality(Callers(p)) = 0)
    <2>1. google' = google /\ row' = row
      BY DEF StartCall
    <2>2. CASE InCall(p) \/ (s \notin fresh /\ row[p].status # seen[s][p].status)
      BY <1>1, <2>1, <2>2 DEF CallInv, Inv, Typed, HistoryTyped, StartCall
    <2>3. CASE ~(InCall(p) \/ (s \notin fresh /\ row[p].status # seen[s][p].status))
      <3>1. excused'[p] = excused[p]
        BY <1>1, <1>4, <2>3 DEF StartCall
      <3>2. Callers(p) = {} /\ Unrecorded(p) = {}
        BY <2>3 DEF InCall, Calling, Callers, Unrecorded
      <3>3. row[p].status \notin {"published", "deleted"}
        BY <1>1, <2>3 DEF CallInv, FreshIsNew, StartCall, MayPublish, Publishable
      <3>4. google[p] <= excused[p]
        BY <1>4, <1>5, <3>2, <3>3 DEF Counted
      <3>. QED
        BY <2>1, <3>1, <3>2, <3>4, FS_EmptySet
    <2>. QED
      BY <2>2, <2>3
  <1>7. Counted(p)'
    BY <1>2, <1>3, <1>4, <1>5, <1>6 DEF Counted, One
  <1>8. \A q \in Posts \ {p} : google'[q] = google[q] /\ excused'[q] = excused[q] /\ row'[q] = row[q]
    BY <1>1 DEF RowsTyped, StartCall
  <1>. QED
    BY <1>1, <1>2, <1>7, <1>8, PaidCounts DEF Paid

LEMMA GoogleAcceptsCounts ==
    ASSUME CallInv, CopiesCounted, NEW s \in Sessions, GoogleAccepts(s)
    PROVE  CopiesCounted'
  <1>1. PICK p : p \in Posts /\ cur[s] = p
    BY DEF CallInv, Inv, Typed, SessionsTyped, Places, GoogleAccepts
  <1>2. OnlyCall(s) /\ pc[s] = "calling" /\ pc'[s] = "accepted" /\ cur'[s] = p
    BY <1>1 DEF CallInv, Inv, Typed, SessionsTyped, OnlyCall, GoogleAccepts
  <1>3. /\ Cardinality(Callers(p))' = Cardinality(Callers(p)) - One(pc[s] = "calling") + One(pc'[s] = "calling")
        /\ Cardinality(Unrecorded(p))' = Cardinality(Unrecorded(p)) - One(pc[s] = "accepted") + One(pc'[s] = "accepted")
    BY <1>1, <1>2, CountMoves
  <1>4. /\ google[p] \in Nat /\ excused[p] \in Nat
        /\ Cardinality(Callers(p)) \in Nat /\ Cardinality(Unrecorded(p)) \in Nat
    BY <1>1, CallsAreFinite DEF CallInv, Inv, Typed, HistoryTyped
  <1>5. Counted(p)
    BY <1>1 DEF CopiesCounted
  <1>6. google'[p] = google[p] + 1 /\ row' = row /\ excused' = excused
    BY <1>1 DEF CallInv, Inv, Typed, HistoryTyped, GoogleAccepts
  <1>7. Counted(p)'
    BY <1>2, <1>3, <1>4, <1>5, <1>6 DEF Counted, One
  <1>8. \A q \in Posts \ {p} : google'[q] = google[q] /\ excused'[q] = excused[q] /\ row'[q] = row[q]
    BY <1>1 DEF RowsTyped, GoogleAccepts
  <1>. QED
    BY <1>1, <1>2, <1>7, <1>8, PaidCounts DEF Paid

LEMMA GoogleRefusesCounts ==
    ASSUME CallInv, CopiesCounted, NEW s \in Sessions, GoogleRefuses(s)
    PROVE  CopiesCounted'
  <1>1. PICK p : p \in Posts /\ cur[s] = p
    BY DEF CallInv, Inv, Typed, SessionsTyped, Places, GoogleRefuses
  <1>2. OnlyCall(s) /\ pc[s] = "calling" /\ pc'[s] = "rejected" /\ cur'[s] = p
    BY <1>1 DEF CallInv, Inv, Typed, SessionsTyped, OnlyCall, GoogleRefuses
  <1>3. /\ Cardinality(Callers(p))' = Cardinality(Callers(p)) - One(pc[s] = "calling") + One(pc'[s] = "calling")
        /\ Cardinality(Unrecorded(p))' = Cardinality(Unrecorded(p)) - One(pc[s] = "accepted") + One(pc'[s] = "accepted")
    BY <1>1, <1>2, CountMoves
  <1>4. /\ google[p] \in Nat /\ excused[p] \in Nat
        /\ Cardinality(Callers(p)) \in Nat /\ Cardinality(Unrecorded(p)) \in Nat
    BY <1>1, CallsAreFinite DEF CallInv, Inv, Typed, HistoryTyped
  <1>5. Counted(p)
    BY <1>1 DEF CopiesCounted
  <1>6. google' = google /\ row' = row /\ excused' = excused
    BY DEF GoogleRefuses
  <1>7. Counted(p)'
    BY <1>2, <1>3, <1>4, <1>5, <1>6 DEF Counted, One
  <1>8. \A q \in Posts \ {p} : google'[q] = google[q] /\ excused'[q] = excused[q] /\ row'[q] = row[q]
    BY <1>1 DEF RowsTyped, GoogleRefuses
  <1>. QED
    BY <1>1, <1>2, <1>7, <1>8, PaidCounts DEF Paid

LEMMA ReplyLostCounts ==
    ASSUME CallInv, CopiesCounted, NEW s \in Sessions, ReplyLost(s)
    PROVE  CopiesCounted'
  <1>1. PICK p : p \in Posts /\ cur[s] = p
    BY DEF CallInv, Inv, Typed, SessionsTyped, Places, ReplyLost
  <1>2. OnlyCall(s) /\ pc[s] = "calling" /\ pc'[s] = "rejected" /\ cur'[s] = p
    BY <1>1 DEF CallInv, Inv, Typed, SessionsTyped, OnlyCall, ReplyLost
  <1>3. /\ Cardinality(Callers(p))' = Cardinality(Callers(p)) - One(pc[s] = "calling") + One(pc'[s] = "calling")
        /\ Cardinality(Unrecorded(p))' = Cardinality(Unrecorded(p)) - One(pc[s] = "accepted") + One(pc'[s] = "accepted")
    BY <1>1, <1>2, CountMoves
  <1>4. /\ google[p] \in Nat /\ excused[p] \in Nat
        /\ Cardinality(Callers(p)) \in Nat /\ Cardinality(Unrecorded(p)) \in Nat
    BY <1>1, CallsAreFinite DEF CallInv, Inv, Typed, HistoryTyped
  <1>5. Counted(p)
    BY <1>1 DEF CopiesCounted
  <1>6. google'[p] = google[p] + 1 /\ row' = row /\ excused'[p] = excused[p] + 1
    BY <1>1 DEF CallInv, Inv, Typed, HistoryTyped, ReplyLost
  <1>7. Counted(p)'
    BY <1>2, <1>3, <1>4, <1>5, <1>6 DEF Counted, One
  <1>8. \A q \in Posts \ {p} : google'[q] = google[q] /\ excused'[q] = excused[q] /\ row'[q] = row[q]
    BY <1>1 DEF RowsTyped, ReplyLost
  <1>. QED
    BY <1>1, <1>2, <1>7, <1>8, PaidCounts DEF Paid

LEMMA RecordPublishedCounts ==
    ASSUME CallInv, CopiesCounted, NEW s \in Sessions, NEW c \in Conns, RecordPublished(s, c)
    PROVE  CopiesCounted'
  <1>1. PICK p : p \in Posts /\ cur[s] = p
    BY DEF CallInv, Inv, Typed, SessionsTyped, Places, RecordPublished, Commit
  <1>2. OnlyCall(s) /\ pc[s] = "accepted" /\ pc'[s] = "done" /\ cur'[s] = p
    BY <1>1 DEF CallInv, Inv, Typed, SessionsTyped, OnlyCall, RecordPublished, Commit
  <1>3. /\ Cardinality(Callers(p))' = Cardinality(Callers(p)) - One(pc[s] = "calling") + One(pc'[s] = "calling")
        /\ Cardinality(Unrecorded(p))' = Cardinality(Unrecorded(p)) - One(pc[s] = "accepted") + One(pc'[s] = "accepted")
    BY <1>1, <1>2, CountMoves
  <1>4. /\ google[p] \in Nat /\ excused[p] \in Nat
        /\ Cardinality(Callers(p)) \in Nat /\ Cardinality(Unrecorded(p)) \in Nat
    BY <1>1, CallsAreFinite DEF CallInv, Inv, Typed, HistoryTyped
  <1>5. Counted(p)
    BY <1>1 DEF CopiesCounted
  <1>6. /\ google' = google /\ row'[p].status = "published"
        /\ excused'[p] \in {excused[p], excused[p] + 1}
    <2>1. seen[s][p].status \in Publishable
      BY <1>1, <1>2 DEF CallInv, CallIsOfPublishable, Calling
    <2>. DEFINE r == Flushed(s, p, Published(seen[s][p]))
    <2>2. /\ google' = google /\ row' = [row EXCEPT ![p] = r]
          /\ Excuse(p, IF Overwrites(p, r) THEN 1 ELSE 0)
      BY <1>1 DEF RecordPublished, Commit
    <2>3. r.status = "published"
      BY <1>1, <2>1 DEF Flushed, Published, Publishable
    <2>. HIDE DEF r
    <2>. QED
      BY <1>1, <1>4, <2>2, <2>3 DEF CallInv, Inv, Typed, RowsTyped
  <1>7. Counted(p)'
    BY <1>2, <1>3, <1>4, <1>5, <1>6 DEF Counted, One
  <1>8. \A q \in Posts \ {p} : google'[q] = google[q] /\ excused'[q] = excused[q] /\ row'[q] = row[q]
    BY <1>1 DEF RowsTyped, RecordPublished, Commit
  <1>. QED
    BY <1>1, <1>2, <1>7, <1>8, PaidCounts DEF Paid

LEMMA RecordFailureCounts ==
    ASSUME CallInv, CopiesCounted, NEW s \in Sessions, NEW c \in Conns, RecordFailure(s, c)
    PROVE  CopiesCounted'
  <1>1. PICK p : p \in Posts /\ cur[s] = p
    BY DEF CallInv, Inv, Typed, SessionsTyped, Places, RecordFailure, Commit
  <1>2. OnlyCall(s) /\ pc[s] = "rejected" /\ pc'[s] = "failed" /\ cur'[s] = p
    BY <1>1 DEF CallInv, Inv, Typed, SessionsTyped, OnlyCall, RecordFailure, Commit
  <1>3. /\ Cardinality(Callers(p))' = Cardinality(Callers(p)) - One(pc[s] = "calling") + One(pc'[s] = "calling")
        /\ Cardinality(Unrecorded(p))' = Cardinality(Unrecorded(p)) - One(pc[s] = "accepted") + One(pc'[s] = "accepted")
    BY <1>1, <1>2, CountMoves
  <1>4. /\ google[p] \in Nat /\ excused[p] \in Nat
        /\ Cardinality(Callers(p)) \in Nat /\ Cardinality(Unrecorded(p)) \in Nat
    BY <1>1, CallsAreFinite DEF CallInv, Inv, Typed, HistoryTyped
  <1>5. Counted(p)
    BY <1>1 DEF CopiesCounted
  <1>6. /\ google' = google /\ excused'[p] \in {excused[p], excused[p] + 1}
        /\ \/ row'[p].status \in {"published", "deleted"}
           \/ row[p].status \notin {"published", "deleted"}
           \/ excused'[p] = excused[p] + 1
    <2>. DEFINE r == Flushed(s, p, Failed(seen[s][p]))
    <2>2. /\ google' = google /\ row' = [row EXCEPT ![p] = r] /\ Found(s, p)
          /\ Excuse(p, IF Overwrites(p, r) THEN 1 ELSE 0)
      BY <1>1 DEF RecordFailure, Commit
    <2>. HIDE DEF r
    <2>3. row[p].status # "deleted"
      BY <1>1, <2>2 DEF Found, Absent, CallInv, FreshIsNew
    <2>. QED
      BY <1>1, <1>4, <2>2, <2>3 DEF CallInv, Inv, Typed, HistoryTyped, Overwrites
  <1>7. Counted(p)'
    BY <1>2, <1>3, <1>4, <1>5, <1>6 DEF Counted, One
  <1>8. \A q \in Posts \ {p} : google'[q] = google[q] /\ excused'[q] = excused[q] /\ row'[q] = row[q]
    BY <1>1 DEF RowsTyped, RecordFailure, Commit
  <1>. QED
    BY <1>1, <1>2, <1>7, <1>8, PaidCounts DEF Paid

LEMMA CommitFailsCounts ==
    ASSUME CallInv, CopiesCounted, NEW s \in Sessions, CommitFails(s)
    PROVE  CopiesCounted'
  <1>0. /\ pc' = [pc EXCEPT ![s] = "idle"] /\ cur' = [cur EXCEPT ![s] = NoPost]
        /\ google' = google /\ row' = row
    BY DEF CommitFails, Ends
  <1>1. CASE Calling(s)
    <2>1. PICK p : p \in Posts /\ cur[s] = p
      BY <1>1 DEF CallInv, Inv, Typed, SessionsTyped, Places, Calling
    <2>2. OnlyCall(s) /\ pc'[s] = "idle"
      BY <1>0 DEF CallInv, Inv, Typed, SessionsTyped, OnlyCall
    <2>3. /\ Cardinality(Callers(p))' = Cardinality(Callers(p)) - One(pc[s] = "calling")
               + One(pc'[s] = "calling" /\ cur'[s] = p)
          /\ Cardinality(Unrecorded(p))' = Cardinality(Unrecorded(p)) - One(pc[s] = "accepted")
               + One(pc'[s] = "accepted" /\ cur'[s] = p)
      BY <2>1, <2>2, CountMoves
    <2>4. /\ google[p] \in Nat /\ excused[p] \in Nat
          /\ Cardinality(Callers(p)) \in Nat /\ Cardinality(Unrecorded(p)) \in Nat
      BY <2>1, CallsAreFinite DEF CallInv, Inv, Typed, HistoryTyped
    <2>5. Counted(p)
      BY <2>1 DEF CopiesCounted
    <2>6. excused'[p] = excused[p] + One(pc[s] = "accepted")
      BY <2>1, <2>4 DEF CallInv, Inv, Typed, HistoryTyped, CommitFails, One
    <2>7. Counted(p)'
      BY <1>0, <2>2, <2>3, <2>4, <2>5, <2>6 DEF Counted, One
    <2>8. \A q \in Posts \ {p} : excused'[q] = excused[q]
      BY <2>1 DEF CommitFails
    <2>. QED
      BY <1>0, <2>1, <2>2, <2>7, <2>8, PaidCounts DEF Paid
  <1>2. CASE ~Calling(s)
    <2>1. SameCalls
      BY <1>0, <1>2 DEF SameCalls
    <2>2. excused' = excused
      BY <1>2 DEF CommitFails, Calling
    <2>. QED
      BY <1>0, <2>1, <2>2, SameCallsKeep DEF CallInv, RowsHeld
  <1>. QED
    BY <1>1, <1>2

LEMMA CrashCounts ==
    ASSUME CallInv, CopiesCounted, NEW s \in Sessions, Crash(s)
    PROVE  CopiesCounted'
  <1>0. /\ pc' = [pc EXCEPT ![s] = "idle"] /\ cur' = [cur EXCEPT ![s] = NoPost]
        /\ google' = google /\ row' = row
    BY DEF Crash, Ends
  <1>1. CASE Calling(s)
    <2>1. PICK p : p \in Posts /\ cur[s] = p
      BY <1>1 DEF CallInv, Inv, Typed, SessionsTyped, Places, Calling
    <2>2. OnlyCall(s) /\ pc'[s] = "idle"
      BY <1>0 DEF CallInv, Inv, Typed, SessionsTyped, OnlyCall
    <2>3. /\ Cardinality(Callers(p))' = Cardinality(Callers(p)) - One(pc[s] = "calling")
               + One(pc'[s] = "calling" /\ cur'[s] = p)
          /\ Cardinality(Unrecorded(p))' = Cardinality(Unrecorded(p)) - One(pc[s] = "accepted")
               + One(pc'[s] = "accepted" /\ cur'[s] = p)
      BY <2>1, <2>2, CountMoves
    <2>4. /\ google[p] \in Nat /\ excused[p] \in Nat
          /\ Cardinality(Callers(p)) \in Nat /\ Cardinality(Unrecorded(p)) \in Nat
      BY <2>1, CallsAreFinite DEF CallInv, Inv, Typed, HistoryTyped
    <2>5. Counted(p)
      BY <2>1 DEF CopiesCounted
    <2>6. excused'[p] = excused[p] + One(pc[s] = "accepted")
      BY <2>1, <2>4 DEF CallInv, Inv, Typed, HistoryTyped, Crash, One
    <2>7. Counted(p)'
      BY <1>0, <2>2, <2>3, <2>4, <2>5, <2>6 DEF Counted, One
    <2>8. \A q \in Posts \ {p} : excused'[q] = excused[q]
      BY <2>1 DEF CallInv, Inv, Typed, HistoryTyped, Crash
    <2>. QED
      BY <1>0, <2>1, <2>2, <2>7, <2>8, PaidCounts DEF Paid
  <1>2. CASE ~Calling(s)
    <2>1. SameCalls
      BY <1>0, <1>2 DEF SameCalls
    <2>2. excused' = excused
      BY <1>2 DEF Crash, Calling
    <2>. QED
      BY <1>0, <2>1, <2>2, SameCallsKeep DEF CallInv, RowsHeld
  <1>. QED
    BY <1>1, <1>2

-----------------------------------------------------------------------------
(* The invariant of the calls                                              *)

LEMMA CallInvInit == Init => CallInv /\ CopiesCounted
  <1>. SUFFICES ASSUME Init PROVE CallInv /\ CopiesCounted
    OBVIOUS
  <1>1. Inv
    BY InvInit
  <1>2. FreshIsNew /\ TodoIsNotNew /\ AimIsNotNew /\ CallIsOfPublishable
    BY DEF Init, FreshIsNew, TodoIsNotNew, AimIsNotNew, CallIsOfPublishable, Calling
  <1>3. ASSUME NEW p \in Posts PROVE Counted(p)
    <2>1. Callers(p) = {} /\ Unrecorded(p) = {}
      BY DEF Init, Callers, Unrecorded
    <2>. QED
      BY <2>1, FS_EmptySet DEF Init, Counted
  <1>. QED
    BY <1>1, <1>2, <1>3 DEF CallInv, CopiesCounted

LEMMA CallsNext ==
    ASSUME CallInv, [Next]_vars
    PROVE  FreshIsNew' /\ TodoIsNotNew' /\ AimIsNotNew' /\ CallIsOfPublishable'
  <1>1. ASSUME NEW s \in Sessions, PublishStep(s)
        PROVE FreshIsNew' /\ TodoIsNotNew' /\ AimIsNotNew' /\ CallIsOfPublishable'
    BY <1>1, StartCallCalls, RefuseCalls, PersistTokenCalls, GoogleAcceptsCalls,
       GoogleRefusesCalls, CommitFailsCalls, RecordPublishedCalls, RecordFailureCalls,
       AfterPublishedCalls, AfterFailedCalls
    DEF PublishStep
  <1>2. ASSUME NEW w \in Workers, PassStep(w) PROVE FreshIsNew' /\ TodoIsNotNew' /\ AimIsNotNew' /\ CallIsOfPublishable'
    BY <1>2, TryLockCalls, SkipCalls, PassBreaksCalls, DeleteDueCalls, ScanCalls,
       AfterRollbackCalls
    DEF PassStep
  <1>3. ASSUME NEW o \in Operators, RequestStep(o)
        PROVE FreshIsNew' /\ TodoIsNotNew' /\ AimIsNotNew' /\ CallIsOfPublishable'
    BY <1>3, TakeLockCalls, LockTimesOutCalls, EditFailsCalls, EditCommitsCalls
    DEF RequestStep
  <1>4. ASSUME Ask PROVE FreshIsNew' /\ TodoIsNotNew' /\ AimIsNotNew' /\ CallIsOfPublishable'
    BY <1>4, RemoveCalls, AskPublishCalls, AskCreateCalls, AskEditCalls, SwitchChannelCalls
    DEF Ask
  <1>5. ASSUME Clock PROVE FreshIsNew' /\ TodoIsNotNew' /\ AimIsNotNew' /\ CallIsOfPublishable'
    BY <1>5, ComesDueCalls, BackoffPassesCalls, OutlivesCalls DEF Clock
  <1>6. ASSUME Mishap PROVE FreshIsNew' /\ TodoIsNotNew' /\ AimIsNotNew' /\ CallIsOfPublishable'
    BY <1>6, ReplyLostCalls, CrashCalls, LoseConnectionCalls DEF Mishap
  <1>7. ASSUME NEW c \in Conns, Recycle(c) PROVE FreshIsNew' /\ TodoIsNotNew' /\ AimIsNotNew' /\ CallIsOfPublishable'
    BY <1>7, RecycleCalls
  <1>8. ASSUME UNCHANGED vars PROVE FreshIsNew' /\ TodoIsNotNew' /\ AimIsNotNew' /\ CallIsOfPublishable'
    BY <1>8
    DEF vars, CallInv, FreshIsNew, TodoIsNotNew, AimIsNotNew, CallIsOfPublishable, Calling
  <1>. QED
    BY <1>1, <1>2, <1>3, <1>4, <1>5, <1>6, <1>7, <1>8 DEF Next

LEMMA CountsNext ==
    ASSUME CallInv, CopiesCounted, [Next]_vars
    PROVE  CopiesCounted'
  <1>1. ASSUME NEW s \in Sessions, PublishStep(s) PROVE CopiesCounted'
    BY <1>1, StartCallCounts, RefuseCounts, PersistTokenCounts, GoogleAcceptsCounts,
       GoogleRefusesCounts, CommitFailsCounts, RecordPublishedCounts, RecordFailureCounts,
       AfterPublishedCounts, AfterFailedCounts
    DEF PublishStep
  <1>2. ASSUME NEW w \in Workers, PassStep(w) PROVE CopiesCounted'
    BY <1>2, TryLockCounts, SkipCounts, PassBreaksCounts, DeleteDueCounts, ScanCounts,
       AfterRollbackCounts
    DEF PassStep
  <1>3. ASSUME NEW o \in Operators, RequestStep(o) PROVE CopiesCounted'
    BY <1>3, TakeLockCounts, LockTimesOutCounts, EditFailsCounts, EditCommitsCounts
    DEF RequestStep
  <1>4. ASSUME Ask PROVE CopiesCounted'
    BY <1>4, RemoveCounts, AskPublishCounts, AskCreateCounts, AskEditCounts,
       SwitchChannelCounts
    DEF Ask
  <1>5. ASSUME Clock PROVE CopiesCounted'
    BY <1>5, ComesDueCounts, BackoffPassesCounts, OutlivesCounts DEF Clock
  <1>6. ASSUME Mishap PROVE CopiesCounted'
    BY <1>6, ReplyLostCounts, CrashCounts, LoseConnectionCounts DEF Mishap
  <1>7. ASSUME NEW c \in Conns, Recycle(c) PROVE CopiesCounted'
    BY <1>7, RecycleCounts
  <1>8. ASSUME UNCHANGED vars PROVE CopiesCounted'
    BY <1>8 DEF vars, CopiesCounted, Counted, Callers, Unrecorded
  <1>. QED
    BY <1>1, <1>2, <1>3, <1>4, <1>5, <1>6, <1>7, <1>8 DEF Next

\* posts/service.py: Google gets a post a second time only for a named excuse: an answer or an
\* outcome that was lost, a call next to another or on a stale copy, or a stale copy written
\* over a published row.
THEOREM PostCopiesAreExcused == Spec => []CopiesAreExcused
  <1>1. CallInv /\ CopiesCounted => CopiesAreExcused
    BY CallsAreFinite
    DEF CallInv, Inv, Typed, HistoryTyped, CopiesCounted, Counted, CopiesAreExcused
  <1>2. CallInv /\ CopiesCounted /\ [Next]_vars => (CallInv /\ CopiesCounted)'
    BY InvNext, CallsNext, CountsNext DEF CallInv
  <1>. QED
    BY <1>1, <1>2, CallInvInit, PTL DEF Spec

\* posts/service.py: a row that says neither published nor deleted, and whose accepted calls
\* are recorded, is of a post that Google has only as often as is excused: no step of a pass,
\* a request or an operator makes a published post publishable again.
THEOREM UnpublishedPostIsNotOnGoogle == Spec => []UnpublishedIsNotOnGoogle
  <1>1. ASSUME CallInv, CopiesCounted, NEW p \in Posts,
               row[p].status \notin {"published", "deleted"},
               ~ \E s \in Sessions : cur[s] = p /\ pc[s] = "accepted"
        PROVE  google[p] <= excused[p]
    <2>1. Cardinality(Unrecorded(p)) = 0
      BY <1>1, FS_EmptySet DEF Unrecorded
    <2>2. google[p] \in Nat /\ excused[p] \in Nat
      BY <1>1 DEF CallInv, Inv, Typed, HistoryTyped
    <2>3. google[p] <= excused[p] + Cardinality(Unrecorded(p))
      BY <1>1 DEF CopiesCounted, Counted
    <2>. QED
      BY <2>1, <2>2, <2>3
  <1>2. CallInv /\ CopiesCounted => UnpublishedIsNotOnGoogle
    BY <1>1 DEF UnpublishedIsNotOnGoogle
  <1>3. CallInv /\ CopiesCounted /\ [Next]_vars => (CallInv /\ CopiesCounted)'
    BY InvNext, CallsNext, CountsNext DEF CallInv
  <1>. QED
    BY <1>2, <1>3, CallInvInit, PTL DEF Spec
=============================================================================
