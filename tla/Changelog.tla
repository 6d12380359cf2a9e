------------------------------ MODULE Changelog ------------------------------
(***************************************************************************)
(* The per-user change feed of TigerSync: server/sync/changelog.py (append *)
(* and read), server/sync/retention.py (the nightly purge) and the two     *)
(* readers in server/routes/sync/snapshot.py.                              *)
(*                                                                         *)
(* Revisions come from one global BIGSERIAL, which hands numbers out at    *)
(* INSERT, not in commit order.  A writer locks its user's user_sync_state *)
(* row before it inserts and holds it until it commits; a reader only goes *)
(* up to the committed current_revision.  A log row is represented by its  *)
(* revision: entity and payload are routing hints no property tells apart. *)
(*                                                                         *)
(* Postgres runs at READ COMMITTED, so a reader's statements each see what *)
(* had committed when that statement began: read_changes, which reads the  *)
(* state row and then the log rows, is two steps.  The full snapshot runs  *)
(* under REPEATABLE READ and is one.                                       *)
(***************************************************************************)
EXTENDS Integers, FiniteSets

CONSTANTS
    Users,        \* accounts
    Writers,      \* concurrent transactions that append (routes, sync runs)
    Clients,      \* devices that follow the feed
    UserOf,       \* the account each client is signed in to
    PageLimit,    \* `limit` of GET /sync
    MaxRevision,  \* bound: numbers the sequence hands out
    NoUser,       \* a writer outside a transaction
    NoOne,        \* an unlocked row
    Purger        \* the retention job

ASSUME ChangelogAssumption ==
    /\ UserOf \in [Clients -> Users]
    /\ PageLimit \in Nat \ {0}
    /\ MaxRevision \in Nat
    /\ NoUser \notin Users
    /\ NoOne \notin Writers
    /\ Purger \notin Writers
    /\ NoOne # Purger

VARIABLES
    seq,        \* last value of user_change_log's sequence
    state,      \* committed user_sync_state rows
    log,        \* committed user_change_log rows of each user
    aged,       \* revisions whose created_at is past the retention cutoff
    holder,     \* who holds the FOR UPDATE lock on each user_sync_state row
    txn,        \* each writer's open transaction
    purge,      \* the retention job's transaction
    client,     \* each client's stored since_revision and request in flight
    published,  \* history: every revision ever committed, per user
    covered,    \* history: what each client was told of, by page or snapshot
    overtaken   \* history: since its last full sync, a purge committed between
                \* the two statements of one of the client's reads and took
                \* rows that read was still to return

vars == <<seq, state, log, aged, holder, txn, purge, client, published,
          covered, overtaken>>

history == <<published, covered, overtaken>>

Revisions == 1..MaxRevision

Idle == [user |-> NoUser, rows |-> {}, current |-> 0]

NoPurge == [running |-> FALSE, watermark |-> [u \in Users |-> 0], locked |-> {}]

\* The one type invariant of this module.
TypeOK ==
    /\ seq \in 0..MaxRevision
    /\ state \in [Users -> [current : 0..MaxRevision, compacted : 0..MaxRevision]]
    /\ log \in [Users -> SUBSET Revisions]
    /\ aged \in SUBSET Revisions
    /\ holder \in [Users -> Writers \cup {NoOne, Purger}]
    /\ txn \in [Writers -> [user : Users \cup {NoUser}, rows : SUBSET Revisions,
                            current : 0..MaxRevision]]
    /\ purge \in [running : BOOLEAN, watermark : [Users -> 0..MaxRevision],
                  locked : SUBSET Users]
    /\ client \in [Clients -> [phase : {"idle", "reading", "expired"},
                               since : 0..MaxRevision, current : 0..MaxRevision]]
    /\ published \in [Users -> SUBSET Revisions]
    /\ covered \in [Clients -> SUBSET Revisions]
    /\ overtaken \in [Clients -> BOOLEAN]

\* A user without a user_sync_state row reads as revision 0, as does a row
\* that was only just created.
Init ==
    /\ seq = 0
    /\ state = [u \in Users |-> [current |-> 0, compacted |-> 0]]
    /\ log = [u \in Users |-> {}]
    /\ aged = {}
    /\ holder = [u \in Users |-> NoOne]
    /\ txn = [w \in Writers |-> Idle]
    /\ purge = NoPurge
    /\ client = [c \in Clients |-> [phase |-> "idle", since |-> 0, current |-> 0]]
    /\ published = [u \in Users |-> {}]
    /\ covered = [c \in Clients |-> {}]
    /\ overtaken = [c \in Clients |-> FALSE]

-----------------------------------------------------------------------------
(* Writers: lock_sync_state, append_change, the caller's commit.           *)

\* Mutant of lock_sync_state: the row is read without FOR UPDATE.
lock_sync_state_unlocked(w, u) ==
    /\ txn[w].user = NoUser
    /\ holder' = [holder EXCEPT ![u] = w]
    /\ txn' = [txn EXCEPT ![w] = [user |-> u, rows |-> {}, current |-> state[u].current]]
    /\ UNCHANGED <<seq, state, log, aged, purge, client, history>>

\* Insert-if-missing, then SELECT ... FOR UPDATE, which waits for the holder.
lock_sync_state(w, u) ==
    /\ txn[w].user = NoUser
    /\ holder[u] = NoOne
    /\ holder' = [holder EXCEPT ![u] = w]
    /\ txn' = [txn EXCEPT ![w] = [user |-> u, rows |-> {}, current |-> state[u].current]]
    /\ UNCHANGED <<seq, state, log, aged, purge, client, history>>

\* The flush draws the next number of the global sequence; the state row's
\* current_revision follows it in the same transaction.
append_change(w) ==
    /\ txn[w].user # NoUser
    /\ seq < MaxRevision
    /\ seq' = seq + 1
    /\ txn' = [txn EXCEPT ![w] = [user |-> @.user, rows |-> @.rows \cup {seq + 1},
                                  current |-> seq + 1]]
    /\ UNCHANGED <<state, log, aged, holder, purge, client, history>>

CommitWriter(w) ==
    LET u == txn[w].user
    IN  /\ u # NoUser
        /\ log' = [log EXCEPT ![u] = @ \cup txn[w].rows]
        /\ published' = [published EXCEPT ![u] = @ \cup txn[w].rows]
        /\ state' = [state EXCEPT ![u] = [current |-> txn[w].current,
                                          compacted |-> @.compacted]]
        /\ holder' = [holder EXCEPT ![u] = NoOne]
        /\ txn' = [txn EXCEPT ![w] = Idle]
        /\ UNCHANGED <<seq, aged, purge, client, covered, overtaken>>

\* session_scope rolls back on any exception; the sequence does not.
RollbackWriter(w) ==
    /\ txn[w].user # NoUser
    /\ holder' = [holder EXCEPT ![txn[w].user] = NoOne]
    /\ txn' = [txn EXCEPT ![w] = Idle]
    /\ UNCHANGED <<seq, state, log, aged, purge, client, history>>

-----------------------------------------------------------------------------
(* Clients: GET /sync and GET /sync/full.                                  *)

\* Mutant of ReadState: the 410 test is off by one.
ReadState_off_by_one(c) ==
    LET row == state[UserOf[c]]
    IN  /\ client[c].phase = "idle"
        /\ client' = [client EXCEPT ![c] =
                        IF client[c].since + 1 < row.compacted
                        THEN [phase |-> "expired", since |-> @.since, current |-> 0]
                        ELSE [phase |-> "reading", since |-> @.since,
                              current |-> row.current]]
        /\ UNCHANGED <<seq, state, log, aged, holder, txn, purge, history>>

\* First statement of read_changes: a since_revision below the compacted
\* watermark is answered 410 (409 on /v4), full_sync_required.
ReadState(c) ==
    LET row == state[UserOf[c]]
    IN  /\ client[c].phase = "idle"
        /\ client' = [client EXCEPT ![c] =
                        IF client[c].since < row.compacted
                        THEN [phase |-> "expired", since |-> @.since, current |-> 0]
                        ELSE [phase |-> "reading", since |-> @.since,
                              current |-> row.current]]
        /\ UNCHANGED <<seq, state, log, aged, holder, txn, purge, history>>

\* WHERE revision > since_revision AND revision <= current
Unread(c) == {r \in log[UserOf[c]] : client[c].since < r /\ r <= client[c].current}

\* ORDER BY revision LIMIT limit, once the extra row has shown has_more.
Page(c) == {r \in Unread(c) : Cardinality({s \in Unread(c) : s < r}) < PageLimit}

HasMore(c) == Cardinality(Unread(c)) > PageLimit

\* Mutant of ReturnedUntil: with more to come, the client's own revision is returned.
ReturnedUntil_since(c, until) ==
    until = IF HasMore(c) THEN client[c].since ELSE client[c].current

\* returned_until_revision: the page's last row when there is more to come.
ReturnedUntil(c, until) ==
    IF HasMore(c)
    THEN until \in Page(c) /\ \A r \in Page(c) : r <= until
    ELSE until = client[c].current

\* Second statement: the rows, at what the database holds by then.  The
\* client stores returned_until_revision and asks again from there.
ReadRows(c) ==
    /\ client[c].phase = "reading"
    /\ \E until \in 0..MaxRevision :
          /\ ReturnedUntil(c, until)
          /\ client' = [client EXCEPT ![c] = [phase |-> "idle", since |-> until,
                                              current |-> 0]]
    /\ covered' = [covered EXCEPT ![c] = @ \cup Page(c)]
    /\ UNCHANGED <<seq, state, log, aged, holder, txn, purge, published, overtaken>>

\* The REPEATABLE READ snapshot: all data and current_revision of one instant,
\* so it stands for every change committed so far.
full_sync(c) ==
    /\ client[c].phase \in {"idle", "expired"}
    /\ client' = [client EXCEPT ![c] = [phase |-> "idle", current |-> 0,
                                        since |-> state[UserOf[c]].current]]
    /\ covered' = [covered EXCEPT ![c] = published[UserOf[c]]]
    /\ overtaken' = [overtaken EXCEPT ![c] = FALSE]
    /\ UNCHANGED <<seq, state, log, aged, holder, txn, purge, published>>

-----------------------------------------------------------------------------
(* Retention: purge_expired_changelog, one transaction over all users.     *)

\* created_at is the writing transaction's start, so rows do not pass the
\* cutoff in revision order.
Age(r) ==
    /\ r \in UNION {log[u] : u \in Users} \ aged
    /\ aged' = aged \cup {r}
    /\ UNCHANGED <<seq, state, log, holder, txn, purge, client, history>>

Expired(u) == log[u] \cap aged

\* max(revision) GROUP BY user_id, before any lock is taken.
PurgeScan ==
    /\ ~purge.running
    /\ \E u \in Users : Expired(u) # {}
    /\ \E watermark \in [Users -> 0..MaxRevision] :
          /\ \A u \in Users :
                IF Expired(u) = {} THEN watermark[u] = 0
                ELSE watermark[u] \in Expired(u) /\ \A r \in Expired(u) : r <= watermark[u]
          /\ purge' = [running |-> TRUE, watermark |-> watermark, locked |-> {}]
    /\ UNCHANGED <<seq, state, log, aged, holder, txn, client, history>>

PurgeUser(u) ==
    /\ purge.running
    /\ purge.watermark[u] > 0
    /\ u \notin purge.locked
    /\ holder[u] = NoOne
    /\ holder' = [holder EXCEPT ![u] = Purger]
    /\ purge' = [purge EXCEPT !.locked = @ \cup {u}]
    /\ UNCHANGED <<seq, state, log, aged, txn, client, history>>

\* DELETE ... WHERE revision <= watermark
Doomed(u) == {r \in log[u] : r <= purge.watermark[u]}

Larger(m, n) == IF m >= n THEN m ELSE n

\* Mutant of PurgeCommit: the rows go, compacted_revision stays.
PurgeCommit_unmarked ==
    /\ purge.running
    /\ \A u \in Users : purge.watermark[u] > 0 => u \in purge.locked
    /\ log' = [u \in Users |-> log[u] \ Doomed(u)]
    /\ holder' = [u \in Users |-> IF u \in purge.locked THEN NoOne ELSE holder[u]]
    /\ purge' = NoPurge
    /\ overtaken' = [c \in Clients |->
                       overtaken[c] \/ /\ client[c].phase = "reading"
                                       /\ Unread(c) \cap Doomed(UserOf[c]) # {}]
    /\ UNCHANGED <<seq, state, aged, txn, client, published, covered>>

PurgeCommit ==
    /\ purge.running
    /\ \A u \in Users : purge.watermark[u] > 0 => u \in purge.locked
    /\ log' = [u \in Users |-> log[u] \ Doomed(u)]
    /\ state' = [u \in Users |->
                   [current |-> state[u].current,
                    compacted |-> Larger(state[u].compacted, purge.watermark[u])]]
    /\ holder' = [u \in Users |-> IF u \in purge.locked THEN NoOne ELSE holder[u]]
    /\ purge' = NoPurge
    /\ overtaken' = [c \in Clients |->
                       overtaken[c] \/ /\ client[c].phase = "reading"
                                       /\ Unread(c) \cap Doomed(UserOf[c]) # {}]
    /\ UNCHANGED <<seq, aged, txn, client, published, covered>>

\* The job fails or the process dies: nothing was committed.
PurgeAbort ==
    /\ purge.running
    /\ holder' = [u \in Users |-> IF u \in purge.locked THEN NoOne ELSE holder[u]]
    /\ purge' = NoPurge
    /\ UNCHANGED <<seq, state, log, aged, txn, client, history>>

-----------------------------------------------------------------------------

Next ==
    \/ \E w \in Writers, u \in Users : lock_sync_state(w, u)
    \/ \E w \in Writers : append_change(w) \/ CommitWriter(w) \/ RollbackWriter(w)
    \/ \E c \in Clients : ReadState(c) \/ ReadRows(c) \/ full_sync(c)
    \/ \E r \in Revisions : Age(r)
    \/ PurgeScan
    \/ \E u \in Users : PurgeUser(u)
    \/ PurgeCommit
    \/ PurgeAbort

Spec == Init /\ [][Next]_vars

(* A transaction that is open ends (statement_timeout and                   *)
(* idle_in_transaction_session_timeout bound it, db.py), and a client that *)
(* follows the feed keeps asking, with a full sync when it is told to.     *)
Fairness ==
    /\ \A w \in Writers : WF_vars(CommitWriter(w) \/ RollbackWriter(w))
    /\ \A c \in Clients :
          /\ WF_vars(ReadState(c) \/ ReadRows(c))
          /\ WF_vars(client[c].phase = "expired" /\ full_sync(c))

FairSpec == Spec /\ Fairness

-----------------------------------------------------------------------------
(* Properties *)

\* The feed never skips a change: whatever a client's since_revision has
\* passed, a page or a snapshot told it of, except where a purge committed
\* inside one of its reads (`overtaken`; see NoSilentGap).
NoGapUnlessOvertaken ==
    \A c \in Clients :
        \/ {r \in published[UserOf[c]] : r <= client[c].since} \subseteq covered[c]
        \/ overtaken[c]

\* retention.py's promise, without the exception: "a client paging concurrently
\* either reads rows before the commit or gets a clean 410 after it, never a
\* silent gap".
NoSilentGap ==
    \A c \in Clients :
        {r \in published[UserOf[c]] : r <= client[c].since} \subseteq covered[c]

\* The 410 test is enough: every committed revision above compacted_revision is
\* still in the log, so a since_revision that passes the test can be served.
LogCompleteAboveCompacted ==
    \A u \in Users : {r \in published[u] : r > state[u].compacted} \subseteq log[u]

\* chk_user_sync_revision, and the purge's comment that compacted_revision can't
\* leapfrog current_revision: with that, full_sync always ends a 410.
CompactedWithinCurrent ==
    \A u \in Users : state[u].compacted <= state[u].current

\* For one user, revisions are committed in increasing order, although the
\* sequence is global and draws numbers inside uncommitted transactions.
CommitOrderIsRevisionOrder ==
    [][\A u \in Users : \A new \in published'[u] \ published[u] :
          \A old \in published[u] : old < new]_vars

\* A client that keeps asking gets past every committed change: pages advance,
\* and a 410 is answered by a full sync that the same purge cannot expire again.
CatchesUp ==
    \A c \in Clients, r \in Revisions :
        r \in published[UserOf[c]] ~> client[c].since >= r

-----------------------------------------------------------------------------
(* The inductive invariant behind the theorems of ChangelogProofs: each    *)
(* part says what one lock, watermark or half-finished read guarantees.    *)

\* The row lock has one holder, and each open transaction is the holder of the
\* row it appends under.
LocksHeld ==
    /\ \A w \in Writers : txn[w].user # NoUser => holder[txn[w].user] = w
    /\ \A u \in purge.locked : holder[u] = Purger

\* An open transaction's revisions are above the user's committed watermark
\* and were all drawn from the sequence.
UncommittedAboveCurrent ==
    \A w \in Writers :
        txn[w].user # NoUser =>
            /\ state[txn[w].user].current <= txn[w].current
            /\ txn[w].current <= seq
            /\ \A r \in txn[w].rows :
                  state[txn[w].user].current < r /\ r <= txn[w].current

\* Committed rows are within the watermark, the log only holds committed rows,
\* and a purge only takes rows it saw committed.
CommittedWithinCurrent ==
    \A u \in Users :
        /\ state[u].current <= seq
        /\ \A r \in published[u] : r <= state[u].current
        /\ log[u] \subseteq published[u]
        /\ purge.watermark[u] <= state[u].current

\* What a client has stored or is reading up to was a committed watermark, and
\* until a purge overtakes the read, the rows it is still to return exist.
ReadsServable ==
    \A c \in Clients :
        /\ client[c].since <= state[UserOf[c]].current
        /\ client[c].current <= state[UserOf[c]].current
        /\ client[c].phase = "reading" =>
              \/ {r \in published[UserOf[c]] :
                     client[c].since < r /\ r <= client[c].current}
                   \subseteq log[UserOf[c]]
              \/ overtaken[c]

IndInv ==
    /\ TypeOK
    /\ LocksHeld
    /\ UncommittedAboveCurrent
    /\ CommittedWithinCurrent
    /\ CompactedWithinCurrent
    /\ LogCompleteAboveCompacted
    /\ ReadsServable
    /\ NoGapUnlessOvertaken
=============================================================================
