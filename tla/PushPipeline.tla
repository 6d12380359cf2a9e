---------------------------- MODULE PushPipeline ----------------------------
(***************************************************************************)
(* The push pipeline: server/push/pipeline.py (claim, check, materialise,  *)
(* deliver, recover), push/presend.py, push/submission_cancel.py, and what *)
(* moves a push job from outside: the reminder scan, /schedule/sync,       *)
(* /live-activities/register, a full sync, a deleted device and the        *)
(* portal's push-clear.                                                    *)
(*                                                                         *)
(* A tick is one call of run_push_tick.  The scheduler runs one at a time, *)
(* but a sync request and the portal start others in the same process,     *)
(* under the same worker id.  A round holds the job's row lock from the    *)
(* moment it is opened to its commit, and what it sent cannot be rolled    *)
(* back with it.                                                           *)
(*                                                                         *)
(* One user, and one assignment: reminders, countdown starts and ends are  *)
(* about it.  job[k] is the newest push_jobs row with dedupe key k, and    *)
(* `id` tells it from the rows that held the key before.  Times are what a *)
(* comparison with now answers: `fired` is fire_at <= now, `avail` is      *)
(* available_at <= now, `stale` is locked_at < cutoff, `late` is past the  *)
(* pre-send grace, `waited` is available_at >= fire_at + _COUNTDOWN_WAIT;   *)
(* a delivery rests while next_retry_at > now.  The start and the reminder  *)
(* are for one moment: the start went out inside the dedupe window.         *)
(***************************************************************************)
EXTENDS Integers, Sequences, FiniteSets

CONSTANTS
    Jobs,         \* dedupe keys
    Kind,         \* what a job is, by channel, scenario and payload kind
    Priority,     \* push_jobs.priority, the lowest first
    Target,       \* push_jobs.device_id
    AnyDevice,    \* device_id IS NULL as filed
    Tokens,       \* device_push_tokens
    TokenKind,
    DeviceOf,
    Ticks,        \* calls of run_push_tick that can overlap
    NoTick,
    Worker,       \* the worker id a tick runs under
    NoWorker,
    BatchSize,    \* push_pipeline_batch_size
    MaxAttempts,  \* push_jobs.max_attempts
    MaxTries,     \* push_deliveries.max_attempts
    MaxId,        \* bound: rows producers file under each key
    MaxCrashes,   \* bound: times a process dies
    Mixes         \* what happens together in a behaviour: records of which
                  \* `jobs` are filed, which `tokens` there are, which `ticks`
                  \* run, how many `tries` a delivery has, how many rows (`ids`) a key
                  \* gets, which `events` happen around the pipeline, and whether there is a countdown dedupe
                  \* `window`

Kinds == {"reminder", "start", "end", "class", "course", "trigger", "reauth", "plain"}
AllEvents == {"crash", "raise", "submit", "mark", "register", "schedule",
              "delete_device", "full_sync", "clear"}
Devices == {DeviceOf[tok] : tok \in Tokens}
Workers == {Worker[t] : t \in Ticks}

ASSUME PushPipelineAssumption ==
    /\ Kind \in [Jobs -> Kinds]
    /\ Priority \in [Jobs -> Nat]
    /\ Target \in [Jobs -> Devices \cup {AnyDevice}]
    /\ AnyDevice \notin Devices
    /\ \A j, k \in Jobs :                \* the key of an end names its device and activity
          Kind[j] = "end" /\ Kind[k] = "end" /\ Target[j] = Target[k] => j = k
    /\ TokenKind \in [Tokens -> {"standard", "push_to_start", "live_activity_update"}]
    /\ NoTick \notin Ticks
    /\ NoWorker \notin Workers
    /\ BatchSize \in Nat \ {0}
    /\ MaxAttempts \in Nat \ {0}
    /\ MaxTries \in Nat \ {0}
    /\ MaxId \in Nat \ {0}
    /\ MaxCrashes \in Nat
    /\ Mixes \subseteq [jobs : SUBSET Jobs, tokens : SUBSET Tokens, ticks : SUBSET Ticks, tries : 1..MaxTries,
                         ids : [Jobs -> 1..MaxId],
                         events : SUBSET AllEvents, window : BOOLEAN]

VARIABLES
    mix,       \* the mix of this behaviour
    job,       \* push_jobs
    dlv,       \* push_deliveries of the row job[k]
    token,     \* status of a device_push_tokens row, "absent" without one
    deleted,   \* devices whose user_devices row is gone
    row,       \* what the user's rows say of the assignment
    turnedIn,  \* Moodle has the submission
    tick,      \* where each tick is
    holder,    \* the tick whose open transaction holds a job's row
    round,     \* that transaction's uncommitted deliveries
    crashes,
    rang,      \* history: times a token's phone got the row's push, 2 for more
    unsure,    \* history: it got one the database never learned of
    vouched,   \* history: jobs Moodle said "still open" of since they were filed
    begun,     \* history: jobs whose first round opened before a submission was recorded
    spared,    \* history: devices a reminder left to their countdown start
    counting   \* history: update tokens registered with their countdown ahead, not ended since

rows == <<job, dlv, token, deleted, row>>
history == <<rang, unsure, vouched, begun, spared, counting>>
vars == <<mix, job, dlv, token, deleted, row, turnedIn, tick, holder, round, crashes,
          rang, unsure, vouched, begun, spared, counting>>

\* A delivery is none, pending, resting (pending with next_retry_at ahead), sent,
\* failed or skipped.
NoDelivery == [status |-> "none", tries |-> 0]

Verdicts == {"send", "submitted", "gone", "unverified"}
NoCheck == [k \in Jobs |-> "none"]
IdleTick == [pc |-> "idle", batch |-> <<>>, handled |-> {}, check |-> NoCheck]

NoRound == [dlv |-> [tok \in Tokens |-> NoDelivery], todo |-> {}, tried |-> FALSE,
            dead |-> {}]

Unfiled == [id |-> 0, status |-> "none", attempts |-> 0, by |-> NoWorker,
            stale |-> FALSE, fired |-> FALSE, avail |-> TRUE, late |-> FALSE, waited |-> FALSE]

\* Devices have their standard and push-to-start tokens; nothing is filed.
Init ==
    /\ mix \in Mixes
    /\ job = [k \in Jobs |-> Unfiled]
    /\ dlv = [k \in Jobs |-> [tok \in Tokens |-> NoDelivery]]
    /\ token = [tok \in Tokens |-> IF \/ TokenKind[tok] = "live_activity_update"
                                      \/ tok \notin mix.tokens
                                   THEN "absent" ELSE "active"]
    /\ deleted = {}
    /\ row = "open"
    /\ turnedIn = FALSE
    /\ tick = [t \in Ticks |-> IdleTick]
    /\ holder = [k \in Jobs |-> NoTick]
    /\ round = [t \in Ticks |-> NoRound]
    /\ crashes = 0
    /\ rang = [k \in Jobs |-> [tok \in Tokens |-> 0]]
    /\ unsure = [k \in Jobs |-> [tok \in Tokens |-> FALSE]]
    /\ vouched = {}
    /\ begun = {}
    /\ spared = {}
    /\ counting = {}

-----------------------------------------------------------------------------
(* Rows of a job.                                                          *)

Unlocked(k) == holder[k] = NoTick
HasDeliveries(k) == \E tok \in Tokens : dlv[k][tok].status # "none"
KeyTaken(k) == job[k].status \in {"pending", "processing", "sent", "partial_failed"}
Settled(k) == job[k].status \in {"sent", "partial_failed", "failed", "cancelled"}
OfAssignment(k) == Kind[k] \in {"reminder", "start"}

\* The job is for one device whose row is gone: device_id has become NULL, which
\* reads as "every device of the user".
DeviceLost(k) == Kind[k] # "reauth" /\ Target[k] \in deleted

\* A start whose device is gone names nobody to check for.
needs_check(k) == OfAssignment(k) /\ ~DeviceLost(k)

\* What the user's rows settle of the assignment, or "ask" for Moodle to say.
_rows_verdict == IF row = "open" THEN "ask" ELSE row

\* The row of k back at pending, or settled; either way its lock columns are
\* cleared.
Unclaimed(k, status, attempts, avail) ==
    [id |-> job[k].id, status |-> status, attempts |-> attempts, by |-> NoWorker,
     stale |-> FALSE, fired |-> job[k].fired, avail |-> avail, late |-> job[k].late,
     waited |-> job[k].waited]

PutBack(k) == Unclaimed(k, "pending", job[k].attempts, FALSE)
_settle(k, status) == Unclaimed(k, status, job[k].attempts, job[k].avail)

\* An attempt spent on a claim that came to nothing: stale, or crashed.
SpendAttempt(k) ==
    IF job[k].attempts + 1 >= MaxAttempts
    THEN Unclaimed(k, "failed", job[k].attempts + 1, job[k].avail)
    ELSE Unclaimed(k, "pending", job[k].attempts + 1, FALSE)

\* A row inserted under key k.
NewRow(k, fired) ==
    [id |-> job[k].id + 1, status |-> "pending", attempts |-> 0, by |-> NoWorker,
     stale |-> FALSE, fired |-> fired, avail |-> TRUE, late |-> FALSE, waited |-> FALSE]

\* Nothing that was said of the rows that held the keys in K before is said of
\* the rows now inserted, and they have no deliveries.
Inserts(K) ==
    /\ dlv' = [k \in Jobs |-> IF k \in K THEN [tok \in Tokens |-> NoDelivery] ELSE dlv[k]]
    /\ rang' = [k \in Jobs |-> IF k \in K THEN [tok \in Tokens |-> 0] ELSE rang[k]]
    /\ unsure' = [k \in Jobs |-> IF k \in K THEN [tok \in Tokens |-> FALSE] ELSE unsure[k]]
    /\ vouched' = vouched \ K
    /\ begun' = begun \ K
    /\ spared' = spared \ {Target[k] : k \in {k \in K : Kind[k] = "start"}}

-----------------------------------------------------------------------------
(* A tick: recover, claim, check.                                          *)

\* The tick begins: jobs whose lock is stale are taken back, but for rows an
\* open transaction holds (SKIP LOCKED).
_recover_stale_jobs(t) ==
    /\ t \in mix.ticks
    /\ tick[t].pc = "idle"
    /\ job' = [k \in Jobs |-> IF job[k].status = "processing" /\ job[k].stale /\ Unlocked(k)
                              THEN SpendAttempt(k) ELSE job[k]]
    /\ tick' = [tick EXCEPT ![t] = [IdleTick EXCEPT !.pc = "claim"]]
    /\ UNCHANGED <<mix, dlv, token, deleted, row, turnedIn, holder, round, crashes, history>>

\* Mutant of _due: what the tick handled may be claimed again.
_due_again(t) == {k \in Jobs : job[k].status = "pending" /\ job[k].fired /\ job[k].avail}

_due(t) == {k \in Jobs : /\ job[k].status = "pending" /\ job[k].fired /\ job[k].avail
                         /\ <<k, job[k].id>> \notin tick[t].handled}

\* The orders in which a claim may take the jobs K: the most urgent first.
Batches(K) ==
    {b \in UNION {[1..n -> K] : n \in 0..BatchSize} :
        /\ Len(b) = BatchSize \/ Len(b) = Cardinality(K)
        /\ \A i, j \in 1..Len(b) : i < j => b[i] # b[j] /\ Priority[b[i]] <= Priority[b[j]]
        /\ \A k \in K \ {b[i] : i \in 1..Len(b)} :
              \A i \in 1..Len(b) : Priority[b[i]] <= Priority[k]}

\* One claim; with nothing due the tick is over.
_claim_due_jobs(t) ==
    /\ tick[t].pc = "claim"
    /\ \E b \in Batches({k \in _due(t) : Unlocked(k)}) :
         LET K == {b[i] : i \in 1..Len(b)} IN
         /\ job' = [k \in Jobs |-> IF k \in K
                      THEN [job[k] EXCEPT !.status = "processing", !.by = Worker[t], !.stale = FALSE]
                      ELSE job[k]]
         /\ tick' = [tick EXCEPT ![t] =
                IF b = <<>> THEN IdleTick
                ELSE [pc |-> "process", batch |-> [i \in 1..Len(b) |-> <<b[i], job[b[i]].id>>],
                      handled |-> tick[t].handled,
                      check |-> [k \in Jobs |-> IF k \in K /\ needs_check(k) THEN "started" ELSE "none"]]]
    /\ UNCHANGED <<mix, dlv, token, deleted, row, turnedIn, holder, round, crashes, history>>

Checked(t, k, verdict) == tick' = [tick EXCEPT ![t].check[k] = verdict]

Owned(t, k, id) ==
    job[k].id = id /\ job[k].status = "processing" /\ job[k].by = Worker[t]

\* A check reads the claim and the rows in one transaction; what they do not
\* settle is asked of Moodle with no transaction open.
check_before_send(t) ==
    \E i \in 1..Len(tick[t].batch) :
      LET k == tick[t].batch[i][1] IN
      /\ tick[t].check[k] = "started"
      /\ Checked(t, k, CASE ~Owned(t, k, tick[t].batch[i][2]) -> "void"
                         [] ~needs_check(k) \/ HasDeliveries(k) -> "void"
                         [] _rows_verdict # "ask" -> _rows_verdict
                         [] OTHER -> "asking")
      /\ UNCHANGED <<mix, rows, turnedIn, holder, round, crashes, history>>

\* Moodle answers, or does not: an outage, a dead token, a timeout, or the
\* tick's breaker open.
_ask_moodle(t) ==
    \E i \in 1..Len(tick[t].batch) :
      LET k == tick[t].batch[i][1] IN
      /\ tick[t].check[k] = "asking"
      /\ \E answer \in {"unverified", "gone", IF turnedIn THEN "submitted" ELSE "send"} :
           /\ Checked(t, k, answer)
           /\ vouched' = IF answer = "send" /\ job[k].id = tick[t].batch[i][2]
                         THEN vouched \cup {k} ELSE vouched
      /\ UNCHANGED <<mix, rows, turnedIn, holder, round, crashes, rang, unsure, begun, spared, counting>>

-----------------------------------------------------------------------------
(* The jobs of a batch, one by one.                                        *)

Head1(t) == tick[t].batch[1][1]
HeadId(t) == tick[t].batch[1][2]

\* The head of the batch is done with; before the next, the tick looks whether
\* something more urgent came due.
NextOfBatch(t) ==
    LET b == Tail(tick[t].batch) IN
    tick' = [tick EXCEPT ![t] =
        [pc |-> IF b = <<>> THEN "claim" ELSE "outrank", batch |-> b,
         handled |-> tick[t].handled \cup {tick[t].batch[1]},
         check |-> [tick[t].check EXCEPT ![Head1(t)] = "none"]]]

_outranked(t) ==
    /\ tick[t].pc = "outrank"
    /\ tick' = [tick EXCEPT ![t].pc =
           IF \E k \in _due(t) : Priority[k] < Priority[Head1(t)] THEN "release" ELSE "process"]
    /\ UNCHANGED <<mix, rows, turnedIn, holder, round, crashes, history>>

\* The rest of the batch goes back untouched; the UPDATE waits for locked rows.
_release_claimed(t) ==
    LET b == tick[t].batch
        K == {b[i][1] : i \in {i \in 1..Len(b) : Owned(t, b[i][1], b[i][2])}} IN
    /\ tick[t].pc = "release"
    /\ \A k \in K : Unlocked(k)
    /\ job' = [k \in Jobs |-> IF k \in K
                 THEN Unclaimed(k, "pending", job[k].attempts, job[k].avail) ELSE job[k]]
    /\ tick' = [tick EXCEPT ![t] = [pc |-> "claim", batch |-> <<>>,
                                    handled |-> tick[t].handled, check |-> NoCheck]]
    /\ UNCHANGED <<mix, dlv, token, deleted, row, turnedIn, holder, round, crashes, history>>

\* Mutant of Locks: the row is read without FOR UPDATE.
Locks_unlocked(t) ==
    /\ tick[t].pc = "process"
    /\ tick[t].check[Head1(t)] \notin {"started", "asking"}

\* _process_job has its check's outcome and takes the head's row lock.
Locks(t) ==
    /\ tick[t].pc = "process"
    /\ tick[t].check[Head1(t)] \notin {"started", "asking"}
    /\ Unlocked(Head1(t))

LocksOwned(t) == Locks(t) /\ Owned(t, Head1(t), HeadId(t))

\* The claim was taken back, or the row settled, since it was made.
Reclaimed(t) ==
    /\ Locks(t)
    /\ ~Owned(t, Head1(t), HeadId(t))
    /\ NextOfBatch(t)
    /\ UNCHANGED <<mix, rows, turnedIn, holder, round, crashes, history>>

\* A "send" stands only if the rows still say so, and within the grace.
recheck_rows(verdict, k) ==
    IF verdict # "send" THEN verdict
    ELSE IF _rows_verdict # "ask" THEN _rows_verdict
    ELSE IF job[k].late THEN "gone" ELSE "send"

\* End jobs cancel_for_submitted files or brings forward: those of a device
\* with an active update token, unless one already went out.
EndsNow == {k \in Jobs : /\ Kind[k] = "end"
                         /\ job[k].status \notin {"sent", "partial_failed"}
                         /\ \E tok \in Tokens : /\ token[tok] = "active"
                                                /\ TokenKind[tok] = "live_activity_update"
                                                /\ DeviceOf[tok] = Target[k]}
EndsFiled == {k \in EndsNow : job[k].status \notin {"pending", "processing"}}

\* Pending reminders are cancelled, but for rows a claim or a round holds; ends
\* are brought forward, waiting for rows that are locked.  `settled` is the job
\* the caller has already written, if any.
cancel_for_submitted(settled) ==
    /\ \A k \in EndsNow : Unlocked(k)
    /\ Inserts(EndsFiled)
    /\ job' = [k \in Jobs |->
         CASE k \in settled -> _settle(k, "cancelled")
           [] k \in EndsFiled -> NewRow(k, TRUE)
           [] k \in EndsNow \ EndsFiled -> [job[k] EXCEPT !.status = "pending", !.fired = TRUE]
           [] Kind[k] = "reminder" /\ job[k].status = "pending" /\ Unlocked(k) /\ k \notin settled ->
                [job[k] EXCEPT !.status = "cancelled"]
           [] OTHER -> job[k]]

\* The check says submitted: the job is cancelled and the submission recorded
\* as the probe records it.  (The sync trigger it asks for is one that file_jobs
\* may file at any time.)
HeldBack_submitted(t) ==
    LET k == Head1(t) IN
    /\ LocksOwned(t)
    /\ tick[t].check[k] \in Verdicts
    /\ recheck_rows(tick[t].check[k], k) = "submitted"
    /\ cancel_for_submitted({k})
    /\ row' = "submitted"
    /\ NextOfBatch(t)
    /\ UNCHANGED <<mix, token, deleted, turnedIn, holder, round, crashes, counting>>

\* Mutant of _held_back: an unverified job is put back whatever the time.
_held_back_for_ever(t) ==
    LET k == Head1(t) IN
    /\ LocksOwned(t)
    /\ tick[t].check[k] \in Verdicts
    /\ recheck_rows(tick[t].check[k], k) \in {"gone", "unverified"}
    /\ job' = [job EXCEPT ![k] = IF recheck_rows(tick[t].check[k], k) = "unverified"
                                 THEN PutBack(k) ELSE _settle(k, "cancelled")]
    /\ NextOfBatch(t)
    /\ UNCHANGED <<mix, dlv, token, deleted, row, turnedIn, holder, round, crashes, history>>

\* Any other verdict than "send": cancelled when gone, put back without an
\* attempt while unverified within the grace.
_held_back(t) ==
    LET k == Head1(t) IN
    /\ LocksOwned(t)
    /\ tick[t].check[k] \in Verdicts
    /\ recheck_rows(tick[t].check[k], k) \in {"gone", "unverified"}
    /\ job' = [job EXCEPT ![k] =
           IF recheck_rows(tick[t].check[k], k) = "unverified" /\ ~job[k].late
           THEN PutBack(k) ELSE _settle(k, "cancelled")]
    /\ NextOfBatch(t)
    /\ UNCHANGED <<mix, dlv, token, deleted, row, turnedIn, holder, round, crashes, history>>

\* The check saw the job unclaimed, so nobody checked it for this claim.
CheckMissed(t) ==
    LET k == Head1(t) IN
    /\ LocksOwned(t)
    /\ tick[t].check[k] \notin Verdicts
    /\ needs_check(k) /\ ~HasDeliveries(k)
    /\ job' = [job EXCEPT ![k] = Unclaimed(k, "pending", job[k].attempts, job[k].avail)]
    /\ NextOfBatch(t)
    /\ UNCHANGED <<mix, dlv, token, deleted, row, turnedIn, holder, round, crashes, history>>

-----------------------------------------------------------------------------
(* Materialising and delivering a round.                                   *)

\* Mutant of Cleared: a claim that no check saw goes ahead.
Cleared_unchecked(t) ==
    LET k == Head1(t) IN
    /\ LocksOwned(t)
    /\ tick[t].check[k] \in Verdicts => recheck_rows(tick[t].check[k], k) = "send"

\* Nothing stands between the job and _materialize.
Cleared(t) ==
    LET k == Head1(t) IN
    /\ LocksOwned(t)
    /\ IF tick[t].check[k] \in Verdicts
       THEN recheck_rows(tick[t].check[k], k) = "send"
       ELSE ~needs_check(k) \/ HasDeliveries(k)

\* The end job of an activity on d is waiting for its countdown: the app there
\* shows that activity already.
_registered(d) ==
    \E e \in Jobs : /\ Kind[e] = "end" /\ Target[e] = d
                    /\ job[e].status = "pending" /\ ~job[e].fired

_activity_already_registered(k) == _registered(Target[k])

TokenKindOf(k) == CASE Kind[k] \in {"start", "class"} -> "push_to_start"
                    [] Kind[k] = "end" -> "live_activity_update"
                    [] OTHER -> "standard"

\* Which tokens get a delivery row, but for the countdown dedupe.
TokenQuery(k) ==
    {tok \in Tokens : /\ token[tok] = "active"
                      /\ TokenKind[tok] = TokenKindOf(k)
                      /\ Target[k] \in {AnyDevice, DeviceOf[tok]} \cup deleted}

\* Mutant of _countdown_starts: a start that is going out counts as one on screen.
_countdown_starts_hasty(k) ==
    LET going == {Target[s] : s \in {s \in Jobs : Kind[s] = "start" /\ KeyTaken(s)}}
        reached == IF Kind[k] = "reminder" /\ mix.window THEN {DeviceOf[tok] : tok \in TokenQuery(k)}
                   ELSE {} IN
    [covered |-> reached \cap going, waiting |-> {}]

\* The devices of reminder k whose countdown start rang for the same moment:
\* `covered` where the app registered the activity, `waiting` where it did not
\* yet, or where the start is only going out.
_countdown_starts(k) ==
    LET reached == IF Kind[k] = "reminder" /\ mix.window
                   THEN {DeviceOf[tok] : tok \in TokenQuery(k)} ELSE {}
        StartsOf(d) == {s \in Jobs : Kind[s] = "start" /\ Target[s] = d}
        sent == {d \in reached : \E s \in StartsOf(d) :
                    KeyTaken(s) /\ \E tok \in Tokens : DeviceOf[tok] = d /\ dlv[s][tok].status = "sent"}
        going == {d \in reached : \E s \in StartsOf(d) : job[s].status = "processing"} IN
    [covered |-> {d \in sent : _registered(d)},
     waiting |-> {d \in sent : ~_registered(d)} \cup (going \ sent)]

\* Who of TokenQuery gets a delivery row.
Receivers(k) == {tok \in TokenQuery(k) : DeviceOf[tok] \notin _countdown_starts(k).covered}

\* What _materialize may find that settles the job or puts it back.  A class or
\* a course reminder is held by the school's calendar and course changes, a sync
\* trigger by the pace of the others, a session push by the night or a fresh
\* announce; a session push is cancelled in any round once its device has signed
\* in again.  A reminder may wait once for a countdown to show, and goes to nobody
\* whose countdown does.
Hindrances(k) ==
    CASE DeviceLost(k) /\ ~HasDeliveries(k) -> {"cancelled"}
      [] Kind[k] = "start" /\ ~HasDeliveries(k) /\ _activity_already_registered(k) -> {"cancelled"}
      [] Kind[k] \in {"class", "course"} /\ ~HasDeliveries(k) -> {"cancelled", "put_back", "none"}
      [] Kind[k] = "trigger" -> {"put_back", "none"}
      [] Kind[k] = "reauth" -> IF Target[k] \in deleted THEN {"stale"}
                              ELSE {"stale", "put_back", "none"}
      [] Kind[k] = "reminder" /\ ~HasDeliveries(k) ->
           LET starts == _countdown_starts(k) IN
           {IF starts.covered # {} /\ Receivers(k) = {} THEN "cancelled" ELSE "none"}
             \cup (IF starts.waiting # {} /\ ~job[k].waited THEN {"wait"} ELSE {})
      [] OTHER -> {"none"}

Hindered(t) ==
    LET k == Head1(t) IN
    /\ Cleared(t)
    /\ \E found \in Hindrances(k) \ {"none"} :
         /\ job' = [job EXCEPT ![k] =
                CASE found = "put_back" -> PutBack(k)
                  [] found = "wait" -> [PutBack(k) EXCEPT !.waited = TRUE]
                  [] OTHER -> _settle(k, "cancelled")]
         /\ spared' = IF found = "cancelled" THEN spared \cup _countdown_starts(k).covered
                      ELSE spared
         /\ dlv' = [dlv EXCEPT ![k] = [tok \in Tokens |->
                IF found = "stale" /\ dlv[k][tok].status \in {"pending", "resting"}
                THEN [dlv[k][tok] EXCEPT !.status = "skipped"] ELSE dlv[k][tok]]]
    /\ NextOfBatch(t)
    /\ UNCHANGED <<mix, token, deleted, row, turnedIn, holder, round, crashes,
                   rang, unsure, vouched, begun, counting>>

\* The round opens: new deliveries, and the due ones whose token is still good
\* are to be sent.  A delivery whose token is gone is skipped on its turn.
_materialize(t) ==
    LET k == Head1(t)
        made == [tok \in Tokens |->
                   IF dlv[k][tok].status = "none" /\ tok \in Receivers(k) /\ ~DeviceLost(k)
                   THEN [status |-> "pending", tries |-> 0] ELSE dlv[k][tok]]
        due == {tok \in Tokens : made[tok].status = "pending"} IN
    /\ Cleared(t)
    /\ "none" \in Hindrances(k)
    /\ round' = [round EXCEPT ![t] =
           [dlv |-> [tok \in Tokens |-> IF tok \in due /\ token[tok] # "active"
                                        THEN [made[tok] EXCEPT !.status = "skipped"]
                                        ELSE made[tok]],
            todo |-> {tok \in due : token[tok] = "active"},
            tried |-> due # {}, dead |-> {}]]
    /\ holder' = [holder EXCEPT ![k] = t]
    /\ tick' = [tick EXCEPT ![t].pc = "deliver"]
    /\ begun' = IF row = "submitted" \/ HasDeliveries(k) THEN begun ELSE begun \cup {k}
    /\ spared' = spared \cup _countdown_starts(k).covered
    /\ UNCHANGED <<mix, rows, turnedIn, crashes, rang, unsure, vouched, counting>>

Outcomes == {"ok", "unregistered", "failed", "answer_lost"}

\* One send.  A provider that breaks off may have delivered all the same.
_send_one(t, tok, outcome) ==
    LET k == Head1(t)
        tries == round[t].dlv[tok].tries + 1
        status == CASE outcome = "ok" -> "sent"
                    [] outcome = "unregistered" -> "failed"
                    [] OTHER -> IF tries >= mix.tries THEN "failed" ELSE "resting"
        rings == outcome \in {"ok", "answer_lost"} IN
    /\ tick[t].pc = "deliver"
    /\ tok \in round[t].todo
    /\ round' = [round EXCEPT ![t] =
           [dlv |-> [round[t].dlv EXCEPT ![tok] = [status |-> status, tries |-> tries]],
            todo |-> round[t].todo \ {tok}, tried |-> round[t].tried,
            dead |-> IF outcome = "unregistered" THEN round[t].dead \cup {tok}
                     ELSE round[t].dead]]
    /\ rang' = IF rings /\ rang[k][tok] < 2 THEN [rang EXCEPT ![k][tok] = @ + 1] ELSE rang
    /\ unsure' = IF outcome = "answer_lost" THEN [unsure EXCEPT ![k][tok] = TRUE] ELSE unsure
    /\ counting' = IF rings THEN counting \ {tok} ELSE counting
    /\ UNCHANGED <<mix, rows, turnedIn, tick, holder, crashes, vouched, begun, spared>>

StatusesOf(d) == {d[tok].status : tok \in Tokens} \ {"none"}

\* Mutant of Aggregate: no delivery at all counts as all delivered.
Aggregate_vacuous(k, d, tried) ==
    LET S == StatusesOf(d) IN
    IF S \cap {"pending", "resting"} # {} /\ job[k].attempts + 1 < MaxAttempts
    THEN Unclaimed(k, "pending", job[k].attempts + 1, FALSE)
    ELSE _settle(k, IF S \subseteq {"sent", "skipped"} THEN "sent"
                    ELSE IF "sent" \in S THEN "partial_failed" ELSE "failed")

\* What the round's deliveries make of the job: another round, or the end.
Aggregate(k, d, tried) ==
    LET S == StatusesOf(d)
        open == S \cap {"pending", "resting"} # {} IN
    CASE S = {} -> _settle(k, "failed")
      [] open /\ job[k].attempts + 1 < MaxAttempts ->
           Unclaimed(k, "pending", job[k].attempts + 1, FALSE)
      [] open /\ job[k].attempts + 1 >= MaxAttempts /\ ~tried -> PutBack(k)
      [] OTHER -> _settle(k, IF "sent" \notin S THEN "failed"
                             ELSE IF "failed" \in S \/ open THEN "partial_failed" ELSE "sent")

\* On the last round what is still pending has failed.
Exhausted(k, d, tried) ==
    [tok \in Tokens |->
        IF d[tok].status \in {"pending", "resting"} /\ tried /\ job[k].attempts + 1 >= MaxAttempts
        THEN [d[tok] EXCEPT !.status = "failed"] ELSE d[tok]]

\* The round commits.  It writes the status and tries of what it changed: a
\* delivery a full sync skipped meanwhile stays skipped unless the round settled
\* it, and one the round left resting may have come due again.
_deliver_round(t) ==
    LET k == Head1(t)
        r == round[t]
        final == Exhausted(k, r.dlv, r.tried) IN
    /\ tick[t].pc = "deliver"
    /\ r.todo = {}
    /\ job' = [job EXCEPT ![k] = Aggregate(k, r.dlv, r.tried)]
    /\ dlv' = [dlv EXCEPT ![k] = [tok \in Tokens |->
           IF /\ final[tok].status \in {"pending", "resting"}
              /\ \/ dlv[k][tok].status = "skipped"
                 \/ dlv[k][tok].status # "none" /\ final[tok].tries = dlv[k][tok].tries
           THEN dlv[k][tok] ELSE final[tok]]]
    /\ token' = [tok \in Tokens |-> IF tok \in r.dead /\ token[tok] = "active"
                                    THEN "invalidated" ELSE token[tok]]
    /\ holder' = [holder EXCEPT ![k] = NoTick]
    /\ round' = [round EXCEPT ![t] = NoRound]
    /\ NextOfBatch(t)
    /\ UNCHANGED <<mix, deleted, row, turnedIn, crashes, history>>

\* The open rounds of the ticks T are rolled back; what they sent stays sent.
RollBack(T) ==
    /\ holder' = [k \in Jobs |-> IF holder[k] \in T THEN NoTick ELSE holder[k]]
    /\ round' = [t \in Ticks |-> IF t \in T THEN NoRound ELSE round[t]]
    /\ unsure' = [k \in Jobs |-> [tok \in Tokens |->
           \/ unsure[k][tok]
           \/ /\ holder[k] \in T
              /\ round[holder[k]].dlv[tok].status = "sent"
              /\ dlv[k][tok].status # "sent"]]

\* Something in _process_job raises: the round is rolled back ...
Raises(t) ==
    /\ "raise" \in mix.events
    /\ tick[t].pc = "deliver" \/ Locks(t)
    /\ RollBack({t})
    /\ tick' = [tick EXCEPT ![t].pc = "handler"]
    /\ UNCHANGED <<mix, rows, turnedIn, crashes, rang, vouched, begun, spared, counting>>

\* ... and its handler, in a transaction of its own, spends an attempt on the
\* job if it is still being processed, by whomever.
_process_job_except(t) ==
    LET k == Head1(t) IN
    /\ tick[t].pc = "handler"
    /\ Unlocked(k)
    /\ job' = IF job[k].id = HeadId(t) /\ job[k].status = "processing"
              THEN [job EXCEPT ![k] = SpendAttempt(k)] ELSE job
    /\ NextOfBatch(t)
    /\ UNCHANGED <<mix, dlv, token, deleted, row, turnedIn, holder, round, crashes, history>>

\* A process dies with all its ticks, and comes back under the same id.
Crash(w) ==
    LET T == {t \in Ticks : Worker[t] = w} IN
    /\ "crash" \in mix.events
    /\ crashes < MaxCrashes
    /\ \E t \in T : tick[t].pc # "idle"
    /\ RollBack(T)
    /\ tick' = [t \in Ticks |-> IF t \in T THEN IdleTick ELSE tick[t]]
    /\ crashes' = crashes + 1
    /\ UNCHANGED <<mix, rows, turnedIn, rang, vouched, begun, spared, counting>>

-----------------------------------------------------------------------------
(* What else moves jobs, and the world around.                             *)

\* A producer files k: the reminder and course scans, the session scan,
\* enqueue_sync_trigger.  The insert leaves a key alone that is taken; a
\* reminder is only filed while its assignment is open.
file_jobs(k) ==
    /\ k \in mix.jobs
    /\ Kind[k] \in {"reminder", "course", "trigger", "reauth", "plain"}
    /\ ~KeyTaken(k)
    /\ Kind[k] = "reminder" => row = "open"
    /\ job[k].id < mix.ids[k]
    /\ Inserts({k})
    /\ job' = [job EXCEPT ![k] = NewRow(k, Kind[k] \notin {"reminder", "course"})]
    /\ UNCHANGED <<mix, token, deleted, row, turnedIn, tick, holder, round, crashes, counting>>

\* The reminder scan cancels pending reminders of what is no longer open.
scan_assignment_reminders(k) ==
    /\ Kind[k] = "reminder"
    /\ row # "open"
    /\ job[k].status = "pending" /\ Unlocked(k)
    /\ job' = [job EXCEPT ![k].status = "cancelled"]
    /\ UNCHANGED <<mix, dlv, token, deleted, row, turnedIn, tick, holder, round, crashes, history>>

\* A device posts its schedule without k: a pending start is cancelled.
sync_schedule_left_out(k) ==
    /\ "schedule" \in mix.events
    /\ Kind[k] \in {"start", "class"}
    /\ job[k].status = "pending" /\ Unlocked(k)
    /\ job' = [job EXCEPT ![k].status = "cancelled"]
    /\ UNCHANGED <<mix, dlv, token, deleted, row, turnedIn, tick, holder, round, crashes, history>>

\* The app takes a source off its schedule.
cancel_schedule(k) == sync_schedule_left_out(k)

\* The schedule posted has a new time ahead for k: the pending start moves to it.
sync_schedule_moved(k) ==
    /\ "schedule" \in mix.events
    /\ Kind[k] \in {"start", "class"}
    /\ job[k].status = "pending" /\ Unlocked(k)
    /\ job' = [job EXCEPT ![k].fired = FALSE, ![k].avail = FALSE, ![k].late = FALSE]
    /\ UNCHANGED <<mix, dlv, token, deleted, row, turnedIn, tick, holder, round, crashes, history>>

\* ... with a k that holds no row yet.
sync_schedule_new(k) ==
    /\ k \in mix.jobs
    /\ Kind[k] \in {"start", "class"}
    /\ Target[k] \notin deleted
    /\ ~KeyTaken(k)
    /\ job[k].id < mix.ids[k]
    /\ Inserts({k})
    /\ job' = [job EXCEPT ![k] = NewRow(k, FALSE)]
    /\ UNCHANGED <<mix, token, deleted, row, turnedIn, tick, holder, round, crashes, counting>>

\* Mutant of _retire_finished_end_job: a finished end keeps the key.
_retire_finished_end_job_never(k) == FALSE

\* A finished end gives up its key, so that the next one can be filed.
_retire_finished_end_job(k) == job[k].status \in {"sent", "partial_failed"}

\* The app registers the activity's update token tok; with its countdown ahead,
\* an end job waits for it.  Every row holding the key is locked first, so an
\* end that is going out is waited for, and one that went out leaves the key.
register_live_activity(k, tok, ahead) ==
    /\ k \in mix.jobs /\ tok \in mix.tokens
    /\ "register" \in mix.events
    /\ Kind[k] = "end" /\ TokenKind[tok] = "live_activity_update"
    /\ DeviceOf[tok] = Target[k] /\ Target[k] \notin deleted
    /\ token[tok] # "invalidated"
    /\ ahead => Unlocked(k)
    /\ token' = [x \in Tokens |->
           IF x = tok THEN "active"
           ELSE IF /\ TokenKind[x] = "live_activity_update" /\ DeviceOf[x] = DeviceOf[tok]
                   /\ token[x] = "active"
                THEN "invalidated" ELSE token[x]]
    /\ counting' = IF ahead THEN counting \cup {tok} ELSE counting \ {tok}
    /\ IF ahead /\ (~KeyTaken(k) \/ _retire_finished_end_job(k))
       THEN /\ job[k].id < mix.ids[k]
            /\ Inserts({k})
            /\ job' = [job EXCEPT ![k] = NewRow(k, FALSE)]
       ELSE /\ job' = IF ahead /\ job[k].status \in {"pending", "processing"}
                      THEN [job EXCEPT ![k].status = "pending", ![k].fired = FALSE] ELSE job
            /\ UNCHANGED <<dlv, rang, unsure, vouched, begun, spared>>
    /\ UNCHANGED <<mix, deleted, row, turnedIn, tick, holder, round, crashes>>

\* The student submits at Moodle ...
TurnIn ==
    /\ "submit" \in mix.events
    /\ ~turnedIn
    /\ turnedIn' = TRUE
    /\ UNCHANGED <<mix, rows, tick, holder, round, crashes, history>>

\* ... and the sync's probe or an app's upload records it.
RecordSubmission ==
    /\ turnedIn
    /\ row # "submitted"
    /\ row' = "submitted"
    /\ cancel_for_submitted({})
    /\ UNCHANGED <<mix, token, deleted, turnedIn, tick, holder, round, crashes, counting>>

\* The student marks the assignment done or ignored, or takes the mark back.
Mark ==
    /\ "mark" \in mix.events
    /\ row # "submitted"
    /\ row' = IF row = "open" THEN "gone" ELSE "open"
    /\ UNCHANGED <<mix, job, dlv, token, deleted, turnedIn, tick, holder, round, crashes, history>>

\* Another account signs in on the phone: its device row is deleted, with its
\* tokens, and its jobs' device_id becomes NULL.
DeleteDevice(d) ==
    /\ "delete_device" \in mix.events
    /\ d \notin deleted
    /\ \A k \in Jobs : Target[k] = d => Unlocked(k)
    /\ deleted' = deleted \cup {d}
    /\ token' = [tok \in Tokens |-> IF DeviceOf[tok] = d THEN "absent" ELSE token[tok]]
    /\ UNCHANGED <<mix, job, dlv, row, turnedIn, tick, holder, round, crashes, history>>

\* A device that has fully synced needs no account-wide push any more.
_cancel_pending_deliveries_for_device(d) ==
    LET Skipped(k, tok) ==
          /\ Target[k] = AnyDevice /\ job[k].status \in {"pending", "processing"}
          /\ DeviceOf[tok] = d /\ dlv[k][tok].status \in {"pending", "resting"} IN
    /\ "full_sync" \in mix.events
    /\ d \notin deleted
    /\ \E k \in Jobs, tok \in Tokens : Skipped(k, tok)
    /\ dlv' = [k \in Jobs |-> [tok \in Tokens |->
           IF Skipped(k, tok) THEN [dlv[k][tok] EXCEPT !.status = "skipped"] ELSE dlv[k][tok]]]
    /\ UNCHANGED <<mix, job, token, deleted, row, turnedIn, tick, holder, round, crashes, history>>

\* The portal clears the user's queue.
clear_push_queue ==
    LET K == {k \in Jobs : job[k].status \in {"pending", "processing"}} IN
    /\ "clear" \in mix.events
    /\ K # {}
    /\ \A k \in K : Unlocked(k)
    /\ job' = [k \in Jobs |-> IF k \in K THEN [job[k] EXCEPT !.status = "cancelled"] ELSE job[k]]
    /\ UNCHANGED <<mix, dlv, token, deleted, row, turnedIn, tick, holder, round, crashes, history>>

\* Time passes for one job.
ComesDue(k) ==
    /\ job[k].status = "pending"
    /\ ~job[k].fired \/ ~job[k].avail
    /\ job' = [job EXCEPT ![k].fired = TRUE, ![k].avail = TRUE]
    /\ UNCHANGED <<mix, dlv, token, deleted, row, turnedIn, tick, holder, round, crashes, history>>

GrowsStale(k) ==
    /\ job[k].status = "processing" /\ ~job[k].stale /\ Unlocked(k)
    /\ job' = [job EXCEPT ![k].stale = TRUE]
    /\ UNCHANGED <<mix, dlv, token, deleted, row, turnedIn, tick, holder, round, crashes, history>>

GraceEnds(k) ==
    /\ OfAssignment(k)
    /\ job[k].status \in {"pending", "processing"} /\ job[k].fired /\ ~job[k].late
    /\ job' = [job EXCEPT ![k].late = TRUE]
    /\ UNCHANGED <<mix, dlv, token, deleted, row, turnedIn, tick, holder, round, crashes, history>>

RetryComesDue(k) ==
    /\ \E tok \in Tokens : dlv[k][tok].status = "resting"
    /\ dlv' = [dlv EXCEPT ![k] = [tok \in Tokens |->
           IF dlv[k][tok].status = "resting" THEN [dlv[k][tok] EXCEPT !.status = "pending"]
           ELSE dlv[k][tok]]]
    /\ UNCHANGED <<mix, job, token, deleted, row, turnedIn, tick, holder, round, crashes, history>>

Process(t) ==
    \/ Reclaimed(t) \/ HeldBack_submitted(t) \/ _held_back(t) \/ CheckMissed(t)
    \/ Hindered(t) \/ _materialize(t)

TickStep(t) ==
    \/ _recover_stale_jobs(t)
    \/ _claim_due_jobs(t)
    \/ check_before_send(t)
    \/ _ask_moodle(t)
    \/ _outranked(t)
    \/ _deliver_round(t)
    \/ \E tok \in Tokens, outcome \in Outcomes : _send_one(t, tok, outcome)

Next ==
    \/ \E t \in Ticks : TickStep(t) \/ Process(t) \/ _release_claimed(t)
                        \/ Raises(t) \/ _process_job_except(t)
    \/ \E w \in Workers : Crash(w)
    \/ \E k \in Jobs : file_jobs(k)
    \/ \E k \in Jobs : scan_assignment_reminders(k)
    \/ \E k \in Jobs : sync_schedule_left_out(k)
    \/ \E k \in Jobs : cancel_schedule(k)
    \/ \E k \in Jobs : sync_schedule_moved(k)
    \/ \E k \in Jobs : sync_schedule_new(k)
    \/ \E k \in Jobs, tok \in Tokens, ahead \in BOOLEAN : register_live_activity(k, tok, ahead)
    \/ TurnIn
    \/ RecordSubmission
    \/ Mark
    \/ \E d \in Devices : DeleteDevice(d)
    \/ \E d \in Devices : _cancel_pending_deliveries_for_device(d)
    \/ clear_push_queue
    \/ \E k \in Jobs : ComesDue(k)
    \/ \E k \in Jobs : GrowsStale(k)
    \/ \E k \in Jobs : GraceEnds(k)
    \/ \E k \in Jobs : RetryComesDue(k)

Spec == Init /\ [][Next]_vars

\* A tick that is not killed goes on, and Postgres hands a row lock to those who
\* wait for it in turn; the scheduler starts the next tick; time passes.
FairSpec ==
    /\ Spec
    /\ \A t \in Ticks : /\ WF_vars(TickStep(t))
                        /\ SF_vars(Process(t))
                        /\ SF_vars(_release_claimed(t))
                        /\ SF_vars(_process_job_except(t))
    /\ \A k \in Jobs : /\ WF_vars(ComesDue(k)) /\ WF_vars(GrowsStale(k))
                       /\ WF_vars(GraceEnds(k)) /\ WF_vars(RetryComesDue(k))

-----------------------------------------------------------------------------
(* Properties.                                                             *)

\* A phone gets a filed push a second time only if the database cannot know of
\* the first: the provider's answer was lost, or the round was rolled back after
\* the send.  Overlapping ticks, stale recovery, releases and retries do not
\* ring twice (_process_job: "never double-process").  And a reminder leaves out
\* only phones that the countdown start did ring (_countdown_starts), however the
\* rounds of the two interleave.
RingsOnce ==
    /\ \A k \in Jobs, tok \in Tokens : rang[k][tok] = 2 => unsure[k][tok]
    /\ \A d \in spared : \E s \in Jobs, tok \in Tokens :
          Kind[s] = "start" /\ Target[s] = d /\ DeviceOf[tok] = d /\ rang[s][tok] > 0

\* An assignment reminder or countdown start rings only after Moodle said the
\* assignment is open, and only if its first round opened before a submission
\* was recorded (presend.py), whichever tick checked it and whichever sent it;
\* and a push filed for one device never rings on another, also when that
\* device's row is deleted while the job waits (_materialize, device_gone).
RingsOnlyAsFiled ==
    \A k \in Jobs, tok \in Tokens : rang[k][tok] > 0 =>
        /\ OfAssignment(k) => k \in vouched /\ k \in begun
        /\ Target[k] \in {AnyDevice, DeviceOf[tok]}

\* An activity registered with its countdown ahead is never passed over by an end
\* job that went out: the job sent to its token, or tried as often as it may
\* (_retire_finished_end_job, _materialize).
EndReachesRunning ==
    \A k \in Jobs, tok \in counting :
        (/\ Kind[k] = "end" /\ token[tok] = "active" /\ DeviceOf[tok] = Target[k]
         /\ job[k].status \in {"sent", "partial_failed"})
            => dlv[k][tok].status \in {"sent", "failed"}

\* A job reported as sent reached a phone and left no delivery failed or open;
\* partly failed says the same but for failures (_deliver_round), whatever a
\* full sync or a re-registration did to the deliveries during a round.
OutcomeTruthful ==
    \A k \in Jobs :
        /\ job[k].status \in {"sent", "partial_failed"} =>
              /\ \E tok \in Tokens : dlv[k][tok].status = "sent" /\ rang[k][tok] > 0
              /\ \A tok \in Tokens : dlv[k][tok].status \notin {"pending", "resting"}
        /\ job[k].status = "sent" => \A tok \in Tokens : dlv[k][tok].status # "failed"

TicksOverlap ==
    \E t, u \in Ticks : t # u /\ tick[t].pc # "idle" /\ tick[u].pc # "idle"

\* The drain ends: a tick does not claim for ever, even if what it handled
\* comes due again meanwhile (run_push_tick).  And a push that is due is settled
\* in the end, or moved to a later time: crashes, stale claims and checks that get
\* no answer never leave it pending or processing.  (Classes, sync triggers and
\* session pushes may wait for as long as what holds them.)  Ticks that overlap for ever can pass a checked job to and
\* fro: each finds it unclaimed when it checks it, and claimed under their common
\* worker id when its turn comes.
Settles ==
    /\ \A t \in Ticks : tick[t].pc # "idle" ~> tick[t].pc = "idle"
    /\ <>[]~TicksOverlap =>
         \A k \in Jobs : Kind[k] \in {"reminder", "start", "end", "plain"} =>
             (job[k].status = "pending" /\ job[k].fired ~> Settled(k) \/ ~job[k].fired)

=============================================================================
