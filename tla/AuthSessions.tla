----------------------------- MODULE AuthSessions -----------------------------
(***************************************************************************)
(* The refresh-token lineage of one device: server/auth/service.py         *)
(* (refresh, _rotate, _rotate_again, lock_contest, settle_contest, logout),*)
(* server/auth/dependencies.py (a session's first use), delete_device in   *)
(* server/routes/user_devices.py and server/auth/retention.py.             *)
(*                                                                         *)
(* A refresh token replaced by a rotation is rotated again while nothing   *)
(* used a session it was rotated into.  The sessions that leaves are live, *)
(* linked in a ring by replaced_by_session_id, and the first one used      *)
(* supersedes the others.  Everybody who touches a ring takes row locks    *)
(* one by one, so each lock is a step; what a transaction decides once it  *)
(* holds them, and its commit, is one step.                                *)
(*                                                                         *)
(* The app is modelled from how the server expects it to behave: it sends  *)
(* the token it holds, may time out and send it again, and takes the reply *)
(* only of the request it waits for.                                       *)
(***************************************************************************)
EXTENDS Integers, FiniteSets

CONSTANTS
    Requests,     \* requests that can be in flight at once
    NoRequest,
    MaxSessions,  \* bound: rows of auth_sessions
    Mixes         \* what happens together in a behaviour: records of how many
                  \* `sessions`, how many unused ones are `kept`, which
                  \* `requests` of which `kinds`, and which `events` around them

ASSUME AuthAssumption ==
    /\ NoRequest \notin Requests /\ IsFiniteSet(Requests)
    /\ MaxSessions \in Nat \ {0}
    /\ Mixes \subseteq [sessions : 1..MaxSessions,
                         kept : Nat \ {0},
                         requests : SUBSET Requests,
                         kinds : SUBSET {"refresh", "use", "logout"},
                         events : SUBSET {"login", "remove", "suspend", "expire", "crash"}]

Ids == 1..MaxSessions
NoRow == 0                   \* replaced_by_session_id IS NULL

VARIABLES
    mix,      \* the mix of this behaviour
    sess,     \* auth_sessions, by id
    req,      \* the requests in flight
    remover,  \* a delete_device transaction
    active,   \* users.status is active
    client,   \* the app: the session whose tokens it holds, the refresh it waits for
    cut,      \* history: something ended the lineage on purpose
    removed   \* history: how the device was removed, if it was and has not
              \* signed in since

Kept == mix.kept            \* _UNUSED_SESSIONS_KEPT

vars == <<mix, sess, req, remover, active, client, cut, removed>>

Absent == [status |-> "absent", next |-> NoRow, used |-> FALSE,
           expired |-> FALSE, parent |-> NoRow, root |-> NoRow]

\* A row as _rotate and login insert it; `parent`, the token rotated into it,
\* and `root`, the sign-in it descends from, are history.
Issued(parent, root) ==
    [Absent EXCEPT !.status = "live", !.parent = parent, !.root = root]

Free == [kind |-> "none", target |-> NoRow, phase |-> "free", want |-> {},
         locked |-> {}, answer |-> "none", issued |-> NoRow]

\* Of a pass over the live sessions: the rows it still has to lock, whether it
\* found one live, and, as history, whether it had any to wait for and the
\* newest session there was when it began.
IdleRemover == [running |-> FALSE, want |-> {}, locked |-> {}, found |-> FALSE,
                waited |-> FALSE, seen |-> NoRow]

\* `overtaken`: the last pass waited for sessions and found none of them live.
NotRemoved == [done |-> FALSE, overtaken |-> FALSE, seen |-> NoRow]

\* The device has just signed in.
Init ==
    /\ mix \in Mixes
    /\ sess = [s \in Ids |-> IF s = 1 THEN Issued(NoRow, 1) ELSE Absent]
    /\ req = [r \in Requests |-> Free]
    /\ remover = IdleRemover
    /\ active = TRUE
    /\ client = [held |-> 1, waiting |-> NoRequest]
    /\ cut = FALSE
    /\ removed = NotRemoved

-----------------------------------------------------------------------------
(* What the transactions compute.  S is auth_sessions as the transaction   *)
(* sees it.                                                                *)

Created == {s \in Ids : sess[s].status # "absent"}
NewId == Cardinality(Created) + 1
IsLive(S, s) == S[s].status = "live"
Exists(S, s) == S[s].status \notin {"absent", "pruned"}

\* One step of the recursive walk: on from the start and from live rows only.
Follows(S, start, x) ==
    IF (x = start \/ IsLive(S, x)) /\ S[x].next # NoRow THEN {S[x].next} ELSE {}

\* The least set with `start` that the walk does not leave.
_linked_ids(S, start) ==
    IF ~Exists(S, start) THEN {}
    ELSE {s \in Ids : \A W \in SUBSET Ids :
            (start \in W /\ \A x \in W : Follows(S, start, x) \subseteq W) => s \in W}

\* Only live, unused rows: a used one is in no ring.
_supersede(S, ids, by) ==
    [s \in Ids |-> IF s \in ids /\ IsLive(S, s) /\ ~S[s].used
                   THEN [S[s] EXCEPT !.status = "superseded", !.next = by]
                   ELSE S[s]]

settle_contest(S, winner) ==
    _supersede([S EXCEPT ![winner].next = NoRow],
               _linked_ids(S, winner) \ {winner}, winner)

_rotate(S, old, new) ==
    LET settled == IF IsLive(S, old) /\ S[old].next # NoRow
                   THEN settle_contest(S, old) ELSE S
    IN  [settled EXCEPT ![new] = Issued(old, S[old].root),
                        ![old].status = "rotated", ![old].next = new,
                        ![old].used = TRUE]

\* Mutant of _may_rotate_again: whether the successor was used is not asked.
_may_rotate_again_after_use(S, token) ==
    /\ S[token].status = "rotated"
    /\ S[token].next # NoRow
    /\ IsLive(S, S[token].next)

\* Mutant of _may_rotate_again: nor whether it is still live.
_may_rotate_again_always(S, token) ==
    /\ S[token].status = "rotated"
    /\ S[token].next # NoRow

_may_rotate_again(S, token) ==
    /\ S[token].status = "rotated"
    /\ S[token].next # NoRow
    /\ IsLive(S, S[token].next)
    /\ ~S[S[token].next].used

\* The Kept newest of a ring.
Newest(ring) == {s \in ring : Cardinality({t \in ring : t > s}) < Kept}

\* Mutant of _rotate_again: the new session is not joined to the ring.
_rotate_again_unjoined(S, token, new) == _rotate(S, token, new)

\* Mutant of _rotate_again: the successor is superseded at once.
_rotate_again_ends_successor(S, token, new) ==
    _supersede(_rotate(S, token, new), {S[token].next}, new)

_rotate_again(S, token, new) ==
    LET successor == S[token].next
        rotated == _rotate(S, token, new)
        joined == [rotated EXCEPT
                     ![new].next = IF S[successor].next = NoRow
                                   THEN successor ELSE S[successor].next,
                     ![successor].next = new]
        ring == _linked_ids(joined, new)
        oldest == CHOOSE s \in Newest(ring) : \A t \in Newest(ring) : s <= t
    IN  IF Cardinality(ring) > Kept
        THEN _supersede([joined EXCEPT ![new].next = oldest], ring \ Newest(ring), new)
        ELSE joined

-----------------------------------------------------------------------------
(* Row locks *)

Unlocked(s) ==
    /\ \A r \in Requests : s \notin req[r].locked
    /\ s \notin remover.locked

Lowest(ids) == CHOOSE s \in ids : \A t \in ids : s <= t

\* A transaction that ends: its locks go, and the answer is on its way.
Answered(r, answer, new) ==
    [req EXCEPT ![r] = [@ EXCEPT !.phase = "done", !.want = {}, !.locked = {},
                                 !.answer = answer, !.issued = new]]

-----------------------------------------------------------------------------
(* The app *)

Send(r, kind) ==
    /\ req[r].phase = "free"
    /\ client.held # NoRow
    /\ kind \in mix.kinds /\ r \in mix.requests
    /\ kind = "refresh" => client.waiting = NoRequest
    /\ req' = [req EXCEPT ![r] = [Free EXCEPT
                  !.kind = kind, !.target = client.held,
                  !.phase = IF kind = "refresh" THEN "contest" ELSE "queued"]]
    /\ client' = CASE kind = "refresh" -> [client EXCEPT !.waiting = r]
                   [] kind = "logout"  -> [held |-> NoRow, waiting |-> NoRequest]
                   [] OTHER            -> client
    /\ cut' = (cut \/ kind = "logout")
    /\ UNCHANGED <<mix, sess, remover, active, removed>>

\* The app times out, or the reply is lost; the request goes on as a late
\* duplicate of the next one.
GiveUp ==
    /\ client.waiting # NoRequest
    /\ client' = [client EXCEPT !.waiting = NoRequest]
    /\ UNCHANGED <<mix, sess, req, remover, active, cut, removed>>

\* The app stores the pair it waited for; refused, it is signed out.
Reply(r) ==
    /\ req[r].phase = "done"
    /\ client' = IF client.waiting = r
                 THEN [held |-> req[r].issued, waiting |-> NoRequest]
                 ELSE client
    /\ req' = [req EXCEPT ![r] = Free]
    /\ UNCHANGED <<mix, sess, remover, active, cut, removed>>

\* The process dies or the connection drops: the transaction rolls back.
Abort(r) ==
    /\ "crash" \in mix.events
    /\ req[r].phase \notin {"free", "done"}
    /\ req' = [req EXCEPT ![r] = Free]
    /\ client' = IF client.waiting = r THEN [client EXCEPT !.waiting = NoRequest]
                 ELSE client
    /\ UNCHANGED <<mix, sess, remover, active, cut, removed>>

-----------------------------------------------------------------------------
(* lock_contest: walk, lock what is missing in id order, walk again.       *)

Missing(r) == _linked_ids(sess, req[r].target) \ req[r].locked

Walk(r) ==
    /\ req[r].phase = "contest"
    /\ Missing(r) # {}
    /\ req' = [req EXCEPT ![r].phase = "locking", ![r].want = Missing(r)]
    /\ UNCHANGED <<mix, sess, remover, active, client, cut, removed>>

\* Mutant of LockRow: the SELECT has no ORDER BY.
LockRow_any_order(r) ==
    /\ req[r].phase = "locking"
    /\ \E s \in req[r].want :
          /\ Unlocked(s)
          /\ req' = [req EXCEPT ![r].locked = @ \cup {s}, ![r].want = @ \ {s},
                                ![r].phase = IF req[r].want = {s} THEN "contest" ELSE @]
    /\ UNCHANGED <<mix, sess, remover, active, client, cut, removed>>

\* SELECT ... ORDER BY id FOR UPDATE waits at each row in turn.
LockRow(r) ==
    LET s == Lowest(req[r].want)
    IN  /\ req[r].phase = "locking"
        /\ Unlocked(s)
        /\ req' = [req EXCEPT ![r].locked = @ \cup {s}, ![r].want = @ \ {s},
                              ![r].phase = IF req[r].want = {s} THEN "contest" ELSE @]
        /\ UNCHANGED <<mix, sess, remover, active, client, cut, removed>>

ContestLocked(r) == req[r].phase = "contest" /\ Missing(r) = {}

-----------------------------------------------------------------------------
(* refresh, once lock_contest has returned                                 *)

\* 401s that write nothing: the row is gone, the user is not active, the token
\* was revoked for good or lost to a used session, or it has expired.
Refused(t) ==
    \/ ~Exists(sess, t)
    \/ ~active
    \/ ~IsLive(sess, t) /\ (~_may_rotate_again(sess, t) \/ sess[t].expired)
    \/ IsLive(sess, t) /\ sess[t].expired

\* A live, expired token is revoked with its 401, unless it is in a ring: the
\* walk from its rivals must not end there.
refresh_refused(r) ==
    LET t == req[r].target
    IN  /\ req[r].kind = "refresh"
        /\ ContestLocked(r)
        /\ Refused(t)
        /\ sess' = IF active /\ IsLive(sess, t) /\ sess[t].next = NoRow
                   THEN [sess EXCEPT ![t].status = "expired"] ELSE sess
        /\ req' = Answered(r, "refused", NoRow)
        /\ UNCHANGED <<mix, remover, active, client, cut, removed>>

refresh_rotated(r) ==
    LET t == req[r].target
    IN  /\ req[r].kind = "refresh"
        /\ ContestLocked(r)
        /\ ~Refused(t)
        /\ NewId <= mix.sessions
        /\ sess' = IF IsLive(sess, t) THEN _rotate(sess, t, NewId)
                   ELSE _rotate_again(sess, t, NewId)
        /\ req' = Answered(r, "ok", NewId)
        /\ UNCHANGED <<mix, remover, active, client, cut, removed>>

-----------------------------------------------------------------------------
(* require_user: an access token; _record_first_use and _claim_contest     *)

\* Where an accepted request goes on: logout revokes the session it came with.
Accepted(r) == IF req[r].kind = "logout"
               THEN [req EXCEPT ![r] = [@ EXCEPT !.phase = "logout", !.locked = {}]]
               ELSE Answered(r, "ok", NoRow)

\* The unlocked read at the top.
require_user(r) ==
    LET t == req[r].target
    IN  /\ req[r].phase = "queued"
        /\ req' = CASE ~IsLive(sess, t) \/ ~active -> Answered(r, "refused", NoRow)
                    [] IsLive(sess, t) /\ active /\ sess[t].used -> Accepted(r)
                    [] OTHER -> [req EXCEPT ![r].phase =
                                   IF sess[t].next = NoRow THEN "own" ELSE "contest"]
        /\ UNCHANGED <<mix, sess, remover, active, client, cut, removed>>

\* Not in a ring when it was read: lock the row, read it again.
_record_first_use(r) ==
    LET t == req[r].target
    IN  /\ req[r].phase = "own"
        /\ Unlocked(t)
        /\ \/ /\ ~IsLive(sess, t)
              /\ req' = Answered(r, "refused", NoRow)
              /\ UNCHANGED sess
           \/ /\ IsLive(sess, t)
              /\ sess[t].next # NoRow
              /\ req' = [req EXCEPT ![r].phase = "contest", ![r].locked = {t}]
              /\ UNCHANGED sess
           \/ /\ IsLive(sess, t)
              /\ sess[t].next = NoRow
              /\ sess' = [sess EXCEPT ![t].used = TRUE]
              /\ req' = Accepted(r)
        /\ UNCHANGED <<mix, remover, active, client, cut, removed>>

\* Mutant of _claim_contest: the use is recorded, the rivals are left.
_claim_contest_spares(r) ==
    LET t == req[r].target
    IN  /\ req[r].kind \in {"use", "logout"}
        /\ ContestLocked(r)
        /\ req' = IF IsLive(sess, t) THEN Accepted(r) ELSE Answered(r, "refused", NoRow)
        /\ sess' = IF IsLive(sess, t) THEN [sess EXCEPT ![t].used = TRUE] ELSE sess
        /\ UNCHANGED <<mix, remover, active, client, cut, removed>>

\* In a ring: the first use supersedes the rivals, unless one was used first.
_claim_contest(r) ==
    LET t == req[r].target
    IN  /\ req[r].kind \in {"use", "logout"}
        /\ ContestLocked(r)
        /\ \/ /\ ~IsLive(sess, t)
              /\ req' = Answered(r, "refused", NoRow)
              /\ UNCHANGED sess
           \/ /\ IsLive(sess, t)
              /\ sess' = [(IF sess[t].next # NoRow THEN settle_contest(sess, t) ELSE sess)
                            EXCEPT ![t].used = TRUE]
              /\ req' = Accepted(r)
        /\ UNCHANGED <<mix, remover, active, client, cut, removed>>

\* The row as require_user loaded it was live; the UPDATE waits for its lock
\* and overwrites whatever reason it has been revoked for since.
logout(r) ==
    LET t == req[r].target
    IN  /\ req[r].phase = "logout"
        /\ Unlocked(t)
        /\ sess' = [sess EXCEPT ![t].status = "logout"]
        /\ req' = Answered(r, "ok", NoRow)
        /\ UNCHANGED <<mix, remover, active, client, cut, removed>>

-----------------------------------------------------------------------------
(* delete_device: passes over the live sessions until one finds none.      *)

Live == {s \in Ids : IsLive(sess, s)}

\* A session that outlived a removal may have brought the device back
\* (_bring_back), so that it can be removed again.
delete_device ==
    /\ "remove" \in mix.events
    /\ ~remover.running
    /\ removed.done => Live # {}
    /\ remover' = [IdleRemover EXCEPT !.running = TRUE, !.found = TRUE]
    /\ UNCHANGED <<mix, sess, req, active, client, cut, removed>>

\* A pass reads what is live now; its own revocations are not committed yet.
RemoverPass ==
    /\ remover.running
    /\ remover.want = {}
    /\ remover.found
    /\ remover' = [remover EXCEPT !.want = Live \ remover.locked, !.found = FALSE,
                                  !.waited = Live \ remover.locked # {},
                                  !.seen = Cardinality(Created)]
    /\ UNCHANGED <<mix, sess, req, active, client, cut, removed>>

\* A row revoked while the pass waited for it no longer matches.
RemoverLock ==
    LET s == Lowest(remover.want)
    IN  /\ remover.want # {}
        /\ Unlocked(s)
        /\ remover' = [remover EXCEPT
                         !.want = @ \ {s},
                         !.locked = IF IsLive(sess, s) THEN @ \cup {s} ELSE @,
                         !.found = @ \/ IsLive(sess, s)]
        /\ UNCHANGED <<mix, sess, req, active, client, cut, removed>>

\* The revocations of all the passes.
Revoked(locked) ==
    [s \in Ids |-> IF s \in locked THEN [sess[s] EXCEPT !.status = "admin_revoked"]
                   ELSE sess[s]]

RemovalDone ==
    [done |-> TRUE, overtaken |-> remover.waited /\ ~remover.found, seen |-> remover.seen]

\* Mutant of RemoverCommit: one pass over the live sessions, then commit.
RemoverCommit_one_pass ==
    /\ remover.running
    /\ remover.want = {}
    /\ remover.seen # NoRow
    /\ sess' = Revoked(remover.locked)
    /\ remover' = IdleRemover
    /\ cut' = TRUE
    /\ removed' = RemovalDone
    /\ UNCHANGED <<mix, req, active, client>>

\* A pass that locked nothing is the last, though what it waited for may have
\* been rotated away and its successor be live.
RemoverCommit ==
    /\ remover.running
    /\ remover.want = {}
    /\ ~remover.found
    /\ sess' = Revoked(remover.locked)
    /\ remover' = IdleRemover
    /\ cut' = TRUE
    /\ removed' = RemovalDone
    /\ UNCHANGED <<mix, req, active, client>>

-----------------------------------------------------------------------------
(* Sign-in, suspension, time and retention                                 *)

\* Waits for the account lock a removal holds.  Earlier sessions stay.
login ==
    /\ "login" \in mix.events
    /\ client.held = NoRow
    /\ active
    /\ ~remover.running
    /\ NewId <= mix.sessions
    /\ sess' = [sess EXCEPT ![NewId] = Issued(NoRow, NewId)]
    /\ client' = [held |-> NewId, waiting |-> NoRequest]
    /\ cut' = FALSE
    /\ removed' = NotRemoved
    /\ UNCHANGED <<mix, req, remover, active>>

SetStatus ==
    /\ "suspend" \in mix.events
    /\ active' = ~active
    /\ cut' = TRUE
    /\ UNCHANGED <<mix, sess, req, remover, client, removed>>

\* expires_at is a fixed time after the insert: older tokens expire first.
Expire(s) ==
    /\ "expire" \in mix.events
    /\ s \in Created
    /\ ~sess[s].expired
    /\ \A t \in Created : t < s => sess[t].expired
    /\ sess' = [sess EXCEPT ![s].expired = TRUE]
    /\ cut' = TRUE
    /\ UNCHANGED <<mix, req, remover, active, client, removed>>

\* A retention batch of one row: more rows are as many steps.  The delete waits
\* for a row that is locked and judges it as it then is; the foreign key clears
\* replaced_by_session_id of the rows that pointed at it.
_delete_batch(s) ==
    /\ Unlocked(s)
    /\ sess' = [t \in Ids |-> IF t = s THEN [sess[s] EXCEPT !.status = "pruned", !.next = NoRow]
                              ELSE IF sess[t].next = s THEN [sess[t] EXCEPT !.next = NoRow]
                              ELSE sess[t]]

\* Long after expiry, so no access token of it is in flight.
prune_expired_sessions(s) ==
    /\ Exists(sess, s)
    /\ sess[s].expired
    /\ ~IsLive(sess, s) \/ sess[s].next = NoRow
    /\ \A r \in Requests : req[r].target = s => req[r].kind = "refresh"
    /\ _delete_batch(s)
    /\ UNCHANGED <<mix, req, remover, active, client, cut, removed>>

-----------------------------------------------------------------------------

RequestStep(r) ==
    \/ Walk(r)
    \/ LockRow(r)
    \/ refresh_refused(r)
    \/ refresh_rotated(r)
    \/ require_user(r)
    \/ _record_first_use(r)
    \/ _claim_contest(r)
    \/ logout(r)

Next ==
    \/ \E r \in Requests, kind \in mix.kinds : Send(r, kind)
    \/ GiveUp
    \/ \E r \in Requests : Reply(r) \/ Abort(r) \/ RequestStep(r)
    \/ delete_device \/ RemoverPass \/ RemoverLock \/ RemoverCommit
    \/ login
    \/ SetStatus
    \/ \E s \in Ids : Expire(s) \/ prune_expired_sessions(s)

Spec == Init /\ [][Next]_vars

-----------------------------------------------------------------------------
(* Properties *)

\* A lineage never forks: the live sessions that descend from one sign-in are
\* all rotations of one token, so at most one of them can go on.
LineageDoesNotFork ==
    \A s, t \in Live : sess[s].root = sess[t].root => sess[s].parent = sess[t].parent

\* The ring reaches everybody: from any of the live sessions one token was
\* rotated into, the walk of _linked_ids finds all the others, so its first
\* use or rotation locks and supersedes them all; and at most
\* _UNUSED_SESSIONS_KEPT of them stay live.
RingReachesRivals ==
    /\ \A s, t \in Live :
          sess[s].parent = sess[t].parent /\ sess[s].parent # NoRow
              => t \in _linked_ids(sess, s)
    /\ \A p \in Ids : Cardinality({s \in Live : sess[s].parent = p}) <= Kept

\* README: a late duplicate of a refresh does not invalidate the pair the app
\* holds.  An app that only ever sends the token it holds is never refused,
\* unless it was signed out, suspended or expired.
LateDuplicateHarmless ==
    Cardinality(mix.requests) <= Kept =>
        \A r \in Requests :
            client.waiting = r /\ req[r].answer = "refused" => cut

\* The first session used decides the contest: of the sessions one token was
\* rotated into, a used live one has no live rival, and from then on the token
\* yields no further session (_claim_contest, _may_rotate_again).
FirstUseDecides ==
    /\ [](\A s, t \in Live :
            sess[s].used /\ sess[s].parent = sess[t].parent /\ sess[s].parent # NoRow
                => s = t)
    /\ [][\A s \in Ids :
             /\ sess[s].status = "absent"
             /\ sess'[s].status = "live"
             /\ sess'[s].parent # NoRow
             => \A t \in Ids : sess[t].parent = sess'[s].parent => ~sess[t].used]_vars

\* lock_contest's claim that two first uses, a refresh and a removal cannot
\* deadlock: whoever waits for a row holds only rows with lower ids.
LocksInIdOrder ==
    /\ \A r \in Requests : \A held \in req[r].locked, next \in req[r].want : held < next
    /\ \A held \in remover.locked, next \in remover.want : held < next

\* delete_device revokes every session its last pass could see: one survives
\* only if refreshes took everything that pass waited for, and then it is newer
\* than the pass; a pass that waits for no row leaves no session behind.
OnlyOvertakersSurvive ==
    removed.done => \A s \in Live : removed.overtaken /\ s > removed.seen
=============================================================================
