--------------------------- MODULE ScheduledPosts ---------------------------
(***************************************************************************)
(* Posts to Google: operators write, schedule, publish and withdraw them;  *)
(* worker passes publish those whose time has come (posts/service.py,      *)
(* posts/worker.py; media/service.py does the same for photos).  A call to *)
(* Google is made under the post's advisory lock (scheduling/__init__.py). *)
(*                                                                         *)
(* The lock belongs to the database connection that took it, and a         *)
(* session has a connection only while it has a transaction open: after a  *)
(* commit its next statement runs on any free one.  A session reads a row  *)
(* once: reading it again under the lock returns the object it has         *)
(* (expire_on_commit=False, no populate_existing), and a commit writes the *)
(* columns that changed since.                                             *)
(***************************************************************************)
EXTENDS Integers, FiniteSets, FiniteSetsExt

CONSTANTS
    NumPosts,    \* the posts, in the order of their scheduled_on
    Begins,      \* Begins[p]: what p may be at the start: new, a draft, or scheduled
    Doomed,      \* posts with a delete_at
    Workers,     \* sessions of publish passes (the loop, an admin's /sync)
    Operators,   \* sessions of requests
    Conns,       \* connections of the pool
    MaxAttempts, \* MAX_PUBLISH_ATTEMPTS
    MaxOrders,   \* bound on requests and changes of a channel
    MaxFaults    \* bound on crashes, lost connections and lost answers

Posts == 1..NumPosts
Sessions == Workers \cup Operators
NoPost == 0
NoConn == "none"   \* no transaction open
Lost == "lost"     \* the server has ended the connection
NoOne == "none"

ASSUME ConstantsAssumption ==
    /\ NumPosts \in Nat
    /\ Begins \in [Posts -> SUBSET {"new", "draft", "scheduled"}]
    /\ Doomed \subseteq Posts
    /\ Workers \cap Operators = {} /\ NoOne \notin Sessions
    /\ IsFiniteSet(Sessions) /\ Conns # {}
    /\ NoConn \notin Conns /\ Lost \notin Conns
    /\ MaxAttempts \in Nat \ {0} /\ MaxOrders \in Nat /\ MaxFaults \in Nat

VARIABLES
    row,      \* row[p]: the location_posts row
    channel,  \* posts whose Google location has an active channel
    outlived, \* posts whose delete_at has passed
    owner,    \* owner[p]: the connection that holds p's advisory lock
    depth,    \* depth[p]: how often it has taken it
    rowlock,  \* rowlock[p]: the session that has written p and not committed
    pc,       \* pc[s]: where session s is
    conn,     \* conn[s]: the connection of its transaction
    todo,     \* todo[w]: what is left of w's pass
    cur,      \* cur[s]: the post it is working on
    seen,     \* seen[s][p]: its copy of p's row
    aim,      \* aim[o]: the status an edit sets
    fresh,    \* sessions whose post is inserted and not committed
    midway,   \* sessions that committed a new token between lock and call
    expired,  \* passes whose session has been rolled back
    google,   \* google[p]: local posts Google made of p
    excused,  \* excused[p]: see CopiesAreExcused
    orders,   \* requests and changes of a channel so far
    faults    \* faults so far

locks == <<owner, depth, rowlock>>
ghosts == <<google, excused>>
bounds == <<orders, faults>>
vars == <<row, channel, outlived, locks, pc, conn, todo, cur, seen, aim, fresh,
          midway, expired, ghosts, bounds>>

Statuses == {"new", "draft", "scheduled", "published", "failed", "archived", "deleted"}
Publishable == {"draft", "scheduled", "failed"}
Absent == {"new", "deleted"}

Views == [status : Statuses, tries : 0..MaxAttempts + 1, backoff : BOOLEAN]
View(r) == [status |-> r.status, tries |-> r.tries, backoff |-> r.backoff]
Draft == [status |-> "draft", tries |-> 0, backoff |-> FALSE]
Unseen == [p \in Posts |-> [Draft EXCEPT !.status = "new"]]

TypeOK ==
    /\ row \in [Posts -> [status : Statuses, tries : 0..MaxAttempts + 1,
                          backoff : BOOLEAN, due : BOOLEAN]]
    /\ channel \subseteq Posts /\ outlived \subseteq Doomed
    /\ owner \in [Posts -> Conns \cup {NoConn}]
    /\ depth \in [Posts -> Nat] /\ \A p \in Posts : depth[p] = 0 <=> owner[p] = NoConn
    /\ rowlock \in [Posts -> Sessions \cup {NoOne}]
    /\ pc \in [Sessions -> {"idle", "pass", "editing", "waiting", "locked", "calling",
                            "accepted", "rejected", "done", "failed", "releasing"}]
    /\ conn \in [Sessions -> Conns \cup {NoConn, Lost}]
    /\ \A s, t \in Sessions : s # t /\ conn[s] = conn[t] => conn[s] \in {NoConn, Lost}
    /\ todo \in [Workers -> SUBSET Posts]
    /\ cur \in [Sessions -> Posts \cup {NoPost}]
    /\ seen \in [Sessions -> [Posts -> Views]]
    /\ aim \in [Operators -> Statuses]
    /\ fresh \subseteq Operators /\ midway \subseteq Sessions /\ expired \subseteq Workers
    /\ google \in [Posts -> Nat] /\ excused \in [Posts -> Nat]
    /\ orders \in 0..MaxOrders /\ faults \in 0..MaxFaults

\* Rows as create_post leaves them: drafts and scheduled posts, or none yet.
Init ==
    /\ \E first \in [Posts -> {"new", "draft", "scheduled"}] :
        /\ \A p \in Posts : first[p] \in Begins[p]
        /\ row = [p \in Posts |-> [status |-> first[p], tries |-> 0, backoff |-> FALSE,
                                   due |-> FALSE]]
    /\ channel = Posts /\ outlived = {}
    /\ owner = [p \in Posts |-> NoConn] /\ depth = [p \in Posts |-> 0]
    /\ rowlock = [p \in Posts |-> NoOne]
    /\ pc = [s \in Sessions |-> "idle"] /\ conn = [s \in Sessions |-> NoConn]
    /\ todo = [w \in Workers |-> {}] /\ cur = [s \in Sessions |-> NoPost]
    /\ seen = [s \in Sessions |-> Unseen] /\ aim = [o \in Operators |-> "draft"]
    /\ fresh = {} /\ midway = {} /\ expired = {}
    /\ google = [p \in Posts |-> 0] /\ excused = [p \in Posts |-> 0]
    /\ orders = 0 /\ faults = 0

-----------------------------------------------------------------------------
(* Connections, advisory locks, row locks                                  *)

\* A statement of s runs on the connection of its transaction, or opens one.
Free(c) == \A s \in Sessions : conn[s] # c
RunsOn(s, c) == c = conn[s] \/ (conn[s] = NoConn /\ Free(c))

\* pg_try_advisory_lock: a connection may take what it holds once more.
\* A mutant: a miss is taken for a hit, as where there are no advisory locks.
TriviallyOpen(p, c) == TRUE
LockOpen(p, c) == depth[p] = 0 \/ owner[p] = c

\* More takes than the sessions can give back are as good as one more.
Deepest == 2 * Cardinality(Workers) + Cardinality(Operators) + 1
Take(p, c, n) ==
    /\ owner' = [owner EXCEPT ![p] = c]
    /\ depth' = [depth EXCEPT ![p] = Min({@ + n, Deepest})]

\* A mutant: any connection gives the lock back.
LeftByAny(p, c, n) == depth[p] - n
\* pg_advisory_unlock, on a connection that does not hold the lock, does nothing.
Left(p, c, n) == IF owner[p] = c THEN Max({depth[p] - n, 0}) ELSE depth[p]
GiveBack(p, left) ==
    /\ depth' = [depth EXCEPT ![p] = left]
    /\ owner' = [owner EXCEPT ![p] = IF left = 0 THEN NoConn ELSE @]

\* What is on the lock when the last session has left it is never given back: whatever
\* the count, one stands for it.
HasLock(s, p) == cur[s] = p /\ pc[s] \notin {"waiting", "editing"}
LeaveLock(s, p, left) ==
    GiveBack(p, IF \E t \in Sessions \ {s} : HasLock(t, p) THEN left ELSE Min({left, 1}))

\* The end of a connection is the end of its advisory locks.
CloseConn(c) ==
    /\ depth' = [p \in Posts |-> IF owner[p] = c THEN 0 ELSE depth[p]]
    /\ owner' = [p \in Posts |-> IF owner[p] = c THEN NoConn ELSE owner[p]]

UnlockRows(s) == rowlock' = [p \in Posts |-> IF rowlock[p] = s THEN NoOne ELSE rowlock[p]]
MayWrite(s, p) == rowlock[p] \in {NoOne, s}

Goto(s, to) == pc' = [pc EXCEPT ![s] = to]
On(s, c) == conn' = [conn EXCEPT ![s] = c]
Excuse(p, n) == excused' = [excused EXCEPT ![p] = @ + n]

\* The session closes: what it has not committed is rolled back, its connection goes
\* back to the pool, and advisory locks stay with the connection.
Ends(s) ==
    /\ Goto(s, "idle") /\ On(s, NoConn) /\ UnlockRows(s)
    /\ cur' = [cur EXCEPT ![s] = NoPost]
    /\ seen' = [seen EXCEPT ![s] = Unseen]
    /\ todo' = [w \in Workers |-> IF w = s THEN {} ELSE todo[w]]
    /\ aim' = [o \in Operators |-> IF o = s THEN "draft" ELSE aim[o]]
    /\ fresh' = fresh \ {s} /\ midway' = midway \ {s} /\ expired' = expired \ {s}

-----------------------------------------------------------------------------
(* A pass over the due posts                                               *)

IsDue(p) == row[p].status = "scheduled" /\ row[p].due /\ ~row[p].backoff

\* publish_due reads the due posts and keeps the transaction open.
Scan(w, c) ==
    /\ pc[w] = "idle" /\ Free(c)
    /\ (\E p \in Posts : IsDue(p)) \/ \E p \in outlived : row[p].status \notin Absent
    /\ Goto(w, "pass") /\ On(w, c)
    /\ todo' = [todo EXCEPT ![w] = {p \in Posts : IsDue(p)}]
    /\ seen' = [seen EXCEPT ![w] = [p \in Posts |-> IF IsDue(p) THEN View(row[p]) ELSE Unseen[p]]]
    /\ UNCHANGED <<row, channel, outlived, locks, cur, aim, fresh, midway, expired,
                   ghosts, bounds>>

Oldest(w, p) == p \in todo[w] /\ \A q \in todo[w] : p <= q

\* The oldest of the pass: publish_due tries its lock and publish_post takes it once more.
TryLock(w, p) ==
    /\ pc[w] = "pass" /\ Oldest(w, p) /\ w \notin expired
    /\ LockOpen(p, conn[w])
    /\ Take(p, conn[w], 2)
    /\ Goto(w, "locked")
    /\ cur' = [cur EXCEPT ![w] = p]
    /\ todo' = [todo EXCEPT ![w] = @ \ {p}]
    /\ UNCHANGED <<row, channel, outlived, rowlock, conn, seen, aim, fresh, midway,
                   expired, ghosts, bounds>>

\* Held elsewhere: the pass goes on to the next.
Skip(w, p) ==
    /\ pc[w] = "pass" /\ Oldest(w, p) /\ w \notin expired
    /\ ~LockOpen(p, conn[w])
    /\ todo' = [todo EXCEPT ![w] = @ \ {p}]
    /\ seen' = [seen EXCEPT ![w][p] = Unseen[p]]
    /\ UNCHANGED <<row, channel, outlived, locks, pc, conn, cur, aim, fresh, midway,
                   expired, ghosts, bounds>>

\* After a rollback the next post.id is a lazy load no one awaits: MissingGreenlet
\* ends the pass, and with it this round of the loop.
PassBreaks(w) ==
    /\ pc[w] = "pass" /\ todo[w] # {} /\ w \in expired
    /\ Ends(w)
    /\ UNCHANGED <<row, channel, outlived, owner, depth, ghosts, bounds>>

\* The end of a pass, and delete_due after it: the schedule wins whatever the status.
\* A row another session has written is left for the next round.
DeleteDue(w) ==
    /\ pc[w] = "pass" /\ todo[w] = {}
    /\ row' = [p \in Posts |->
                 IF p \in outlived /\ row[p].status \notin Absent /\ rowlock[p] = NoOne
                 THEN [row[p] EXCEPT !.status = "deleted"] ELSE row[p]]
    /\ Ends(w)
    /\ UNCHANGED <<channel, outlived, owner, depth, ghosts, bounds>>

-----------------------------------------------------------------------------
(* Publishing one post, in a pass or at a click                            *)

Calling(s) == pc[s] \in {"calling", "accepted", "rejected"}
InCall(p) == \E s \in Sessions : cur[s] = p /\ Calling(s)

Found(s, p) == row[p].status \notin Absent \/ s \in fresh

MayPublish(s, p) ==
    /\ Found(s, p)
    /\ seen[s][p].status \in Publishable
    /\ p \in channel

\* _publish_post_inner reads the row again, under the lock, and goes on with its copy.
StartCall(s) ==
    LET p == cur[s] IN
    /\ pc[s] = "locked" /\ MayPublish(s, p)
    /\ Goto(s, "calling")
    /\ Excuse(p, IF InCall(p) \/ (s \notin fresh /\ row[p].status # seen[s][p].status)
                 THEN 1 ELSE 0)
    /\ UNCHANGED <<row, channel, outlived, locks, conn, todo, cur, seen, aim, fresh,
                   midway, expired, google, bounds>>

\* A ValueError, before anything is written.  The request gives its lock back and ends;
\* the pass gives one back, rolls back, and gives the other back afterwards.
Refuse(s) ==
    LET p == cur[s] IN
    /\ pc[s] = "locked" /\ ~MayPublish(s, p)
    /\ IF s \in Operators
       THEN LeaveLock(s, p, Left(p, conn[s], 1)) /\ Ends(s)
       ELSE /\ GiveBack(p, Left(p, conn[s], 1))
            /\ Goto(s, "releasing") /\ On(s, NoConn)
            /\ expired' = expired \cup {s}
            /\ seen' = [seen EXCEPT ![s] = Unseen]
            /\ UNCHANGED <<rowlock, cur, todo, aim, fresh, midway>>
    /\ UNCHANGED <<row, channel, outlived, ghosts, bounds>>

\* The access token had expired: its refresh commits the session before the call.
PersistToken(s) ==
    LET p == cur[s] IN
    /\ pc[s] = "calling" /\ s \notin midway /\ conn[s] # Lost
    /\ midway' = midway \cup {s}
    /\ row' = IF s \in fresh THEN [row EXCEPT ![p].status = "draft"] ELSE row
    /\ fresh' = fresh \ {s}
    /\ On(s, NoConn) /\ UnlockRows(s)
    /\ UNCHANGED <<channel, outlived, owner, depth, pc, todo, cur, seen, aim, expired,
                   ghosts, bounds>>

GoogleAccepts(s) ==
    /\ pc[s] = "calling"
    /\ Goto(s, "accepted")
    /\ google' = [google EXCEPT ![cur[s]] = @ + 1]
    /\ UNCHANGED <<row, channel, outlived, locks, conn, todo, cur, seen, aim, fresh,
                   midway, expired, excused, bounds>>

GoogleRefuses(s) ==
    /\ pc[s] = "calling"
    /\ Goto(s, "rejected")
    /\ UNCHANGED <<row, channel, outlived, locks, conn, todo, cur, seen, aim, fresh,
                   midway, expired, ghosts, bounds>>

\* The post is made and the answer does not come.
ReplyLost(s) ==
    /\ pc[s] = "calling" /\ faults < MaxFaults
    /\ faults' = faults + 1
    /\ Goto(s, "rejected")
    /\ google' = [google EXCEPT ![cur[s]] = @ + 1]
    /\ Excuse(cur[s], 1)
    /\ UNCHANGED <<row, channel, outlived, locks, conn, todo, cur, seen, aim, fresh,
                   midway, expired, orders>>

\* What the copy's columns become, column by column: unchanged ones are not written.
\* A mutant: a success leaves the status as it was.
PublishedUnmarked(v) == [v EXCEPT !.tries = 0, !.backoff = FALSE]
Published(v) == [status |-> "published", tries |-> 0, backoff |-> FALSE]
\* A mutant: a failure is not counted.
FailedUncounted(v) ==
    IF v.status = "scheduled"
    THEN [v EXCEPT !.backoff = TRUE]
    ELSE [status |-> "failed", tries |-> v.tries, backoff |-> FALSE]
Failed(v) ==
    LET n == Min({v.tries + 1, MaxAttempts + 1}) IN
    IF v.status = "scheduled" /\ v.tries + 1 < MaxAttempts
    THEN [v EXCEPT !.tries = n, !.backoff = TRUE]
    ELSE [status |-> "failed", tries |-> n, backoff |-> FALSE]

Flushed(s, p, new) ==
    LET old == seen[s][p] IN
    IF s \in fresh
    THEN [status |-> new.status, tries |-> new.tries, backoff |-> new.backoff, due |-> FALSE]
    ELSE [row[p] EXCEPT
            !.status = IF new.status = old.status THEN @ ELSE new.status,
            !.tries = IF new.tries = old.tries THEN @ ELSE new.tries,
            !.backoff = new.backoff \/ (@ /\ ~old.backoff)]

Overwrites(p, new) == row[p].status = "published" /\ new.status # "published"

Commit(s, c, from, new, to) ==
    LET p == cur[s]  r == Flushed(s, p, new) IN
    /\ pc[s] = from /\ RunsOn(s, c) /\ Found(s, p) /\ MayWrite(s, p)
    /\ row' = [row EXCEPT ![p] = r]
    /\ Goto(s, to) /\ On(s, NoConn) /\ UnlockRows(s)
    /\ fresh' = fresh \ {s}
    /\ Excuse(p, IF Overwrites(p, r) THEN 1 ELSE 0)
    /\ UNCHANGED <<channel, outlived, owner, depth, todo, cur, seen, aim, midway,
                   expired, google, bounds>>

RecordPublished(s, c) == Commit(s, c, "accepted", Published(seen[s][cur[s]]), "done")
RecordFailure(s, c) == Commit(s, c, "rejected", Failed(seen[s][cur[s]]), "failed")

\* The row or the connection is gone, or the row is locked for longer than lock_timeout (a
\* fault): the session is unusable, the unlocks in the finally blocks are swallowed, and
\* the session closes.
CommitFails(s) ==
    LET p == cur[s] IN
    /\ pc[s] \in {"accepted", "rejected"}
    /\ \/ (~Found(s, p) \/ conn[s] = Lost) /\ UNCHANGED faults
       \/ Found(s, p) /\ ~MayWrite(s, p) /\ faults < MaxFaults /\ faults' = faults + 1
    /\ Excuse(p, IF pc[s] = "accepted" THEN 1 ELSE 0)
    /\ LeaveLock(s, p, depth[p])
    /\ Ends(s)
    /\ UNCHANGED <<row, channel, outlived, google, orders>>

\* After the commit a new transaction, on any free connection, reads the row once more and
\* gives the locks back: a pass goes on in it.
AfterPublished(s, c) ==
    LET p == cur[s] IN
    /\ pc[s] = "done" /\ row[p].status # "deleted" /\ Free(c)
    /\ LeaveLock(s, p, Left(p, c, IF s \in Workers THEN 2 ELSE 1))
    /\ IF s \in Operators
       THEN Ends(s)
       ELSE /\ Goto(s, "pass") /\ On(s, c)
            /\ cur' = [cur EXCEPT ![s] = NoPost]
            /\ seen' = [seen EXCEPT ![s][p] = Unseen[p]]
            /\ midway' = midway \ {s}
            /\ UNCHANGED <<rowlock, todo, aim, fresh, expired>>
    /\ UNCHANGED <<row, channel, outlived, ghosts, bounds>>

\* publish_post gives its lock back, and the pass rolls back what it has opened since: an
\* error, which is also what reading a row that is gone by then gives.
AfterFailed(s, c) ==
    LET p == cur[s] IN
    /\ pc[s] = "failed" \/ (pc[s] = "done" /\ row[p].status = "deleted")
    /\ Free(c)
    /\ IF s \in Operators
       THEN LeaveLock(s, p, Left(p, c, 1)) /\ Ends(s)
       ELSE /\ GiveBack(p, Left(p, c, 1))
            /\ Goto(s, "releasing")
            /\ expired' = expired \cup {s}
            /\ seen' = [seen EXCEPT ![s] = Unseen]
            /\ midway' = midway \ {s}
            /\ UNCHANGED <<rowlock, conn, cur, todo, aim, fresh>>
    /\ UNCHANGED <<row, channel, outlived, ghosts, bounds>>

AfterRollback(w, c) ==
    LET p == cur[w] IN
    /\ pc[w] = "releasing" /\ Free(c)
    /\ LeaveLock(w, p, Left(p, c, 1))
    /\ Goto(w, "pass") /\ On(w, c)
    /\ cur' = [cur EXCEPT ![w] = NoPost]
    /\ UNCHANGED <<row, channel, outlived, rowlock, todo, seen, aim, fresh, midway,
                   expired, ghosts, bounds>>

-----------------------------------------------------------------------------
(* Requests                                                                *)

Asks(o) == pc[o] = "idle" /\ orders < MaxOrders /\ orders' = orders + 1

Loads(o, p, v, c, to) ==
    /\ Free(c) /\ On(o, c) /\ Goto(o, to)
    /\ cur' = [cur EXCEPT ![o] = p]
    /\ seen' = [seen EXCEPT ![o][p] = v]

\* PUT with status published: the row is read, and its edited fields are flushed.
AskPublish(o, p, c) ==
    /\ Asks(o) /\ row[p].status \in Publishable
    /\ Loads(o, p, View(row[p]), c, "waiting")
    /\ \/ UNCHANGED rowlock
       \/ rowlock[p] = NoOne /\ rowlock' = [rowlock EXCEPT ![p] = o]
    /\ UNCHANGED <<row, channel, outlived, owner, depth, todo, aim, fresh, midway,
                   expired, ghosts, faults>>

\* POST with action publish: the row is inserted, and not committed before it is published.
AskCreate(o, p, c) ==
    /\ Asks(o) /\ row[p].status = "new" /\ \A s \in Sessions : cur[s] # p
    /\ Loads(o, p, Draft, c, "waiting")
    /\ fresh' = fresh \cup {o}
    /\ UNCHANGED <<row, channel, outlived, locks, todo, aim, midway, expired, ghosts,
                   faults>>

\* publish_post waits for the lock, for lock_timeout at most.
TakeLock(o) ==
    /\ pc[o] = "waiting" /\ LockOpen(cur[o], conn[o])
    /\ Take(cur[o], conn[o], 1)
    /\ Goto(o, "locked")
    /\ UNCHANGED <<row, channel, outlived, rowlock, conn, todo, cur, seen, aim, fresh,
                   midway, expired, ghosts, bounds>>

LockTimesOut(o) ==
    /\ pc[o] = "waiting" /\ ~LockOpen(cur[o], conn[o])
    /\ Ends(o)
    /\ UNCHANGED <<row, channel, outlived, owner, depth, ghosts, bounds>>

\* PUT with another status.  An archived post is restored to published without a call.
Targets(status) ==
    CASE status = "archived" -> {"draft", "scheduled", "published"}
      [] status \in Publishable -> {"draft", "scheduled", "archived"} \ {status}
      [] OTHER -> {}

AskEdit(o, p, c, to) ==
    /\ Asks(o) /\ to \in Targets(row[p].status)
    /\ Loads(o, p, View(row[p]), c, "editing")
    /\ aim' = [aim EXCEPT ![o] = to]
    /\ UNCHANGED <<row, channel, outlived, locks, todo, fresh, midway, expired, ghosts,
                   faults>>

EditCommits(o, due) ==
    LET p == cur[o]  new == [row[p] EXCEPT !.status = aim[o],
                                           !.due = IF aim[o] = "scheduled" THEN due ELSE @] IN
    /\ pc[o] = "editing" /\ Found(o, p) /\ MayWrite(o, p)
    /\ row' = [row EXCEPT ![p] = new]
    /\ Excuse(p, IF Overwrites(p, new) THEN 1 ELSE 0)
    /\ Ends(o)
    /\ UNCHANGED <<channel, outlived, owner, depth, google, bounds>>

EditFails(o) ==
    /\ pc[o] = "editing" /\ (~Found(o, cur[o]) \/ ~MayWrite(o, cur[o]))
    /\ Ends(o)
    /\ UNCHANGED <<row, channel, outlived, owner, depth, ghosts, bounds>>

\* DELETE: the row goes, what Google has stays.
Remove(o, p) ==
    /\ Asks(o) /\ row[p].status \notin Absent /\ rowlock[p] = NoOne
    /\ row' = [row EXCEPT ![p].status = "deleted"]
    /\ UNCHANGED <<channel, outlived, locks, pc, conn, todo, cur, seen, aim, fresh, midway,
                   expired, ghosts, faults>>

\* The owner disconnects the location, or connects it again.
SwitchChannel(p) ==
    /\ orders < MaxOrders /\ orders' = orders + 1
    /\ channel' = IF p \in channel THEN channel \ {p} ELSE channel \cup {p}
    /\ UNCHANGED <<row, outlived, locks, pc, conn, todo, cur, seen, aim, fresh, midway,
                   expired, ghosts, faults>>

-----------------------------------------------------------------------------
(* Time and faults                                                         *)

ComesDue(p) ==
    /\ row[p].status = "scheduled" /\ ~row[p].due
    /\ row' = [row EXCEPT ![p].due = TRUE]
    /\ UNCHANGED <<channel, outlived, locks, pc, conn, todo, cur, seen, aim, fresh, midway,
                   expired, ghosts, bounds>>

BackoffPasses(p) ==
    /\ row[p].backoff
    /\ row' = [row EXCEPT ![p].backoff = FALSE]
    /\ UNCHANGED <<channel, outlived, locks, pc, conn, todo, cur, seen, aim, fresh, midway,
                   expired, ghosts, bounds>>

\* A delete_at is after the scheduled time.
Outlives(p) ==
    /\ p \in Doomed \ outlived /\ row[p].status \notin Absent
    /\ row[p].status = "scheduled" => row[p].due
    /\ outlived' = outlived \cup {p}
    /\ UNCHANGED <<row, channel, locks, pc, conn, todo, cur, seen, aim, fresh, midway,
                   expired, ghosts, bounds>>

\* pool_recycle: a connection half an hour old is replaced when it is next asked for.
Recycle(c) ==
    /\ Free(c) /\ \E p \in Posts : owner[p] = c
    /\ CloseConn(c)
    /\ UNCHANGED <<row, channel, outlived, rowlock, pc, conn, todo, cur, seen, aim, fresh,
                   midway, expired, ghosts, bounds>>

\* The process dies.
Crash(s) ==
    /\ pc[s] # "idle" /\ faults < MaxFaults
    /\ faults' = faults + 1
    /\ CloseConn(IF conn[s] \in Conns THEN conn[s] ELSE Lost)
    /\ IF pc[s] = "accepted" THEN Excuse(cur[s], 1) ELSE UNCHANGED excused
    /\ Ends(s)
    /\ UNCHANGED <<row, channel, outlived, google, orders>>

\* idle_in_transaction_session_timeout: a minute in a call ends the connection.
LoseConnection(s) ==
    /\ Calling(s) /\ conn[s] \in Conns /\ faults < MaxFaults
    /\ faults' = faults + 1
    /\ CloseConn(conn[s]) /\ UnlockRows(s) /\ On(s, Lost)
    /\ UNCHANGED <<row, channel, outlived, pc, todo, cur, seen, aim, fresh, midway,
                   expired, ghosts, orders>>

-----------------------------------------------------------------------------
PublishStep(s) ==
    \/ StartCall(s) \/ Refuse(s) \/ PersistToken(s)
    \/ GoogleAccepts(s) \/ GoogleRefuses(s) \/ CommitFails(s)
    \/ \E c \in Conns : \/ RecordPublished(s, c) \/ RecordFailure(s, c)
                        \/ AfterPublished(s, c) \/ AfterFailed(s, c)

PassStep(w) ==
    \/ \E p \in Posts : TryLock(w, p) \/ Skip(w, p)
    \/ PassBreaks(w) \/ DeleteDue(w)
    \/ \E c \in Conns : Scan(w, c) \/ AfterRollback(w, c)

RequestStep(o) ==
    \/ TakeLock(o) \/ LockTimesOut(o) \/ EditFails(o)
    \/ \E due \in BOOLEAN : EditCommits(o, due)

Ask ==
    \/ \E o \in Operators, p \in Posts :
          \/ Remove(o, p)
          \/ \E c \in Conns : \/ AskPublish(o, p, c) \/ AskCreate(o, p, c)
                              \/ \E to \in Statuses : AskEdit(o, p, c, to)
    \/ \E p \in Posts : SwitchChannel(p)

Clock == \E p \in Posts : ComesDue(p) \/ BackoffPasses(p) \/ Outlives(p)

Mishap == \E s \in Sessions : ReplyLost(s) \/ Crash(s) \/ LoseConnection(s)

Next ==
    \/ \E s \in Sessions : PublishStep(s)
    \/ \E w \in Workers : PassStep(w)
    \/ \E o \in Operators : RequestStep(o)
    \/ \E c \in Conns : Recycle(c)
    \/ Ask \/ Clock \/ Mishap

Spec == Init /\ [][Next]_vars

\* The loop goes round, a request that has begun is served, time passes, and the pool,
\* which hands its connections out in turn, replaces every one of them some day.
Fairness ==
    /\ \A w \in Workers : WF_vars(PassStep(w) \/ PublishStep(w))
    /\ \A o \in Operators : WF_vars(RequestStep(o) \/ PublishStep(o))
    /\ WF_vars(Clock)
    /\ \A c \in Conns : SF_vars(Recycle(c))

FairSpec == Spec /\ Fairness

-----------------------------------------------------------------------------
(* What holds                                                              *)

\* scheduling/__init__.py: "the same key never runs twice at once".  Two sessions are in a
\* call for one post only if one of them gave the lock's connection up, for a new token or
\* because the server ended it.
OneCallAtATime ==
    \A s, t \in Sessions :
        s # t /\ Calling(s) /\ Calling(t) /\ cur[s] = cur[t] =>
            s \in midway \/ t \in midway \/ conn[s] = Lost \/ conn[t] = Lost

\* Google gets a post twice only for one of these: the outcome of a call was lost, the call
\* was made next to another one or on a copy that had gone stale, or a stale copy was
\* written over a published row.
CopiesAreExcused == \A p \in Posts : google[p] <= 1 + excused[p]

\* A row that says a post has not been published is right about Google once no session has
\* an accepted call to record, but for the copies that are excused: whatever passes, clicks,
\* edits and restores write over each other, no row is offered for publishing again while
\* Google has the post and nothing went wrong.
UnpublishedIsNotOnGoogle ==
    \A p \in Posts :
        /\ row[p].status \notin {"published", "deleted"}
        /\ ~ \E s \in Sessions : cur[s] = p /\ pc[s] = "accepted"
        => google[p] <= excused[p]

\* A due post is published, parked or withdrawn some day, unless its location, or that of
\* an older due post, has no channel: a post that is refused ends every pass it is in.
Refused(q) == IsDue(q) /\ q \notin channel
EveryDuePostSettles ==
    <>[](\A p \in Posts : IsDue(p) => \E q \in 1..p : Refused(q))

=============================================================================
