------------------------------- MODULE SyncJobs -------------------------------
(***************************************************************************)
(* The server-side Moodle sync: server/syncjobs/executor.py (claim, run,   *)
(* probe, stale-lock recovery, failure taxonomy), credentials.py,          *)
(* provisioning.py, and everything else that moves a job: run-now, PATCH   *)
(* /v3/auth/credentials, sign-in, sign-out, a client upload's push-back    *)
(* and the portal's retry-all.                                             *)
(*                                                                         *)
(* A run is a chain of short transactions with Moodle awaited in between,  *)
(* so every transaction is a step of its own, and a run can lose its claim *)
(* before any of them: stale-lock recovery takes a job back when its       *)
(* worker died, or merely could not refresh the lock in time ("stall").    *)
(*                                                                         *)
(* Times are abstracted to what a comparison with now answers: `due` is    *)
(* run_after <= now, `fresh` is last_success_at + interval > now.          *)
(***************************************************************************)
EXTENDS Integers, FiniteSets

CONSTANTS
    Users,
    Jobs,         \* sync_jobs rows, one per user and job type
    Owner,        \* sync_jobs.user_id
    Kind,         \* sync_jobs.job_type, "assignments" or "courses"
    Runs,         \* claims that can be in flight, or crashed, at once
    NoRun,        \* locked_by IS NULL
    MaxAttempts,  \* sync_jobs.max_attempts
    GlobalCap,    \* sync_job_global_concurrency
    MaxNonce,     \* bound: credentials a user ever stores
    MaxVersion,   \* bound: times a user's Moodle content changes
    Mixes         \* the sets of events that may happen around the worker in
                  \* one behaviour

AllEvents == {"crash", "stall", "ours", "school", "window", "policy", "revoke",
              "device", "patch", "run_now", "upload", "portal", "change"}

ASSUME SyncJobsAssumption ==
    /\ Jobs # {}
    /\ Owner \in [Jobs -> Users]
    /\ Kind \in [Jobs -> {"assignments", "courses"}]
    /\ NoRun \notin Runs
    /\ MaxAttempts \in Nat \ {0}
    /\ GlobalCap \in Nat \ {0}
    /\ MaxNonce \in Nat \ {0}
    /\ MaxVersion \in Nat
    /\ Mixes \subseteq SUBSET AllEvents

VARIABLES
    mix,       \* the mix of this behaviour
    job,       \* sync_jobs
    run,       \* sync_runs, and where the coroutine of each is
    account,   \* external_accounts and its credential row
    signedIn,  \* the user has a device syncing
    dead,      \* Moodle rejects the user's tokens stored up to this nonce
    moodle,    \* version of the user's content at Moodle
    stored,    \* version of a job's listing that the server's rows show
    gate       \* why jobs may not be claimed, or why Moodle may be down

vars == <<mix, job, run, account, signedIn, dead, moodle, stored, gate>>

NoCredential == 0   \* also the credential_nonce None of a run that read none
Nonces == 0..MaxNonce
Versions == 0..MaxVersion
Errors == {"rejected", "rate", "school", "ours"}
Gates == {"policy_off", "suspended", "window", "paused"}

JobRecord == [status : {"pending", "running", "disabled", "failed"},
              lock : Runs \cup {NoRun}, attempts : 0..MaxAttempts,
              due : BOOLEAN, fresh : BOOLEAN]

Pcs == {"idle", "start", "fetch", "drop", "apply", "probe", "finish", "failing",
        "postpone", "record"}
Rows == {"none", "running", "succeeded", "failed", "cancelled"}

RunRecord == [pc : Pcs, job : Jobs, nonce : Nonces, seen : Versions,
              error : Errors \cup {"none"}, row : Rows]

AccountRecord == [valid : BOOLEAN, nonce : Nonces, issued : Nonces]

\* The one type invariant of this module.
TypeOK ==
    /\ job \in [Jobs -> JobRecord]
    /\ run \in [Runs -> RunRecord]
    /\ account \in [Users -> AccountRecord]
    /\ signedIn \in [Users -> BOOLEAN]
    /\ dead \in [Users -> Nonces]
    /\ moodle \in [Users -> Versions]
    /\ stored \in [Jobs -> Versions]
    /\ gate \in SUBSET Gates

Idle(j, row) == [pc |-> "idle", job |-> j, nonce |-> NoCredential, seen |-> 0,
                 error |-> "none", row |-> row]

\* Every user has signed in once: a credential is stored, the jobs are due.
Init ==
    /\ mix \in Mixes
    /\ job = [j \in Jobs |-> [status |-> "pending", lock |-> NoRun, attempts |-> 0,
                              due |-> TRUE, fresh |-> FALSE]]
    /\ run = [r \in Runs |-> Idle(CHOOSE j \in Jobs : TRUE, "none")]
    /\ account = [u \in Users |-> [valid |-> TRUE, nonce |-> 1, issued |-> 1]]
    /\ signedIn = [u \in Users |-> TRUE]
    /\ dead = [u \in Users |-> 0]
    /\ moodle = [u \in Users |-> 0]
    /\ stored = [j \in Jobs |-> 0]
    /\ gate = {}

-----------------------------------------------------------------------------
(* Claiming.                                                               *)

\* The row of job j with these columns written.
Job(j, status, lock, attempts, due) ==
    [status |-> status, lock |-> lock, attempts |-> attempts, due |-> due,
     fresh |-> job[j].fresh]

Running == {j \in Jobs : job[j].status = "running"}
Suspended == gate \cap {"policy_off", "suspended", "paused"} # {}
MoodleUnavailable == gate \cap {"suspended", "window"} # {}

Busy(u) == \E j \in Running : Owner[j] = u

\* Mutant of _claim_due_job: the user's running job is not counted.
_claim_due_job_beside(j, r) ==
    /\ run[r].pc = "idle" /\ run[r].row # "running"
    /\ ~Suspended
    /\ Cardinality(Running) < GlobalCap
    /\ job[j].status = "pending" /\ job[j].due
    /\ signedIn[Owner[j]]
    /\ job' = [job EXCEPT ![j] = Job(j, "running", r, job[j].attempts, job[j].due)]
    /\ run' = [run EXCEPT ![r] = [pc |-> "start", job |-> j, nonce |-> NoCredential,
                                  seen |-> 0, error |-> "none", row |-> "running"]]
    /\ UNCHANGED <<mix, account, signedIn, dead, moodle, stored, gate>>

\* The advisory lock makes the counts and the claim one step.  Which due job
\* goes first, by priority and run_after, is left open.
_claim_due_job(j, r) ==
    /\ run[r].pc = "idle" /\ run[r].row # "running"
    /\ ~Suspended
    /\ Cardinality(Running) < GlobalCap
    /\ job[j].status = "pending" /\ job[j].due
    /\ signedIn[Owner[j]]
    /\ ~Busy(Owner[j])
    /\ job' = [job EXCEPT ![j] = Job(j, "running", r, job[j].attempts, job[j].due)]
    /\ run' = [run EXCEPT ![r] = [pc |-> "start", job |-> j, nonce |-> NoCredential,
                                  seen |-> 0, error |-> "none", row |-> "running"]]
    /\ UNCHANGED <<mix, account, signedIn, dead, moodle, stored, gate>>

\* Mutant of _owned: running is enough, whoever runs it.
_owned_by_anyone(r) == job[run[r].job].status = "running"

\* Whether the job is still this run's: locked_by is new with every claim.
_owned(r) == job[run[r].job].status = "running" /\ job[run[r].job].lock = r

\* Mutant of _recover_stale_jobs: the interrupted run's row stays open.
_recover_stale_jobs_row_open(j) ==
    LET attempts == job[j].attempts + 1 IN
    /\ job[j].status = "running"
    /\ run[job[j].lock].pc = "idle" \/ "stall" \in mix
    /\ job' = [job EXCEPT ![j] =
                 Job(j, IF attempts >= MaxAttempts THEN "failed" ELSE "pending",
                     NoRun, attempts, job[j].due)]
    /\ UNCHANGED <<mix, run, account, signedIn, dead, moodle, stored, gate>>

\* Mutant of _recover_stale_jobs: a job on its last attempt is passed over.
_recover_stale_jobs_not_last(j) ==
    /\ job[j].attempts + 1 < MaxAttempts
    /\ job[j].status = "running"
    /\ run[job[j].lock].pc = "idle" \/ "stall" \in mix
    /\ job' = [job EXCEPT ![j] = Job(j, "pending", NoRun, job[j].attempts + 1, job[j].due)]
    /\ run' = [r \in Runs |-> IF run[r].job = j /\ run[r].row = "running"
                              THEN [run[r] EXCEPT !.row = "failed"] ELSE run[r]]
    /\ UNCHANGED <<mix, account, signedIn, dead, moodle, stored, gate>>

\* A lock goes stale when its worker is gone, or is late to refresh it.
_recover_stale_jobs(j) ==
    LET attempts == job[j].attempts + 1 IN
    /\ job[j].status = "running"
    /\ run[job[j].lock].pc = "idle" \/ "stall" \in mix
    /\ job' = [job EXCEPT ![j] =
                 Job(j, IF attempts >= MaxAttempts THEN "failed" ELSE "pending",
                     NoRun, attempts, job[j].due)]
    /\ run' = [r \in Runs |-> IF run[r].job = j /\ run[r].row = "running"
                              THEN [run[r] EXCEPT !.row = "failed"] ELSE run[r]]
    /\ UNCHANGED <<mix, account, signedIn, dead, moodle, stored, gate>>

\* The coroutine of a run ends; what it had in memory goes.
Stop(r, row) == run' = [run EXCEPT ![r] = Idle(run[r].job, row)]

\* It closes its sync_runs row too, unless recovery has.
Close(r, row) == Stop(r, IF run[r].row = "running" THEN row ELSE run[r].row)

\* The worker dies, or the transaction that records the outcome fails: the
\* job and its sync_runs row stay running until recovery.
Crash(r) ==
    /\ "crash" \in mix
    /\ run[r].pc # "idle"
    /\ Stop(r, run[r].row)
    /\ UNCHANGED <<mix, job, account, signedIn, dead, moodle, stored, gate>>

-----------------------------------------------------------------------------
(* One run, transaction by transaction.                                    *)

UserOf(r) == Owner[run[r].job]
TokenRejected(r) == run[r].nonce <= dead[UserOf(r)]

\* The coroutine goes on at pc with these in memory.  Until a run fails,
\* `error` is what it will fail with once its listing is stored.
Resume(r, pc, nonce, seen, error) ==
    run' = [run EXCEPT ![r] = [pc |-> pc, job |-> run[r].job, nonce |-> nonce,
                               seen |-> seen, error |-> error, row |-> run[r].row]]

Goto(r, pc) == Resume(r, pc, run[r].nonce, run[r].seen, run[r].error)
Raise(r, pc, error) == Resume(r, pc, run[r].nonce, run[r].seen, error)

\* A failure that _handle_moodle_failure looks at first, and one it does not.
Fails(r, error) ==
    /\ error \in {"school", "rate"} => "school" \in mix
    /\ error = "ours" => "ours" \in mix
    /\ Raise(r, IF error \in {"rejected", "school"} THEN "failing" ELSE "record", error)
    /\ gate' = IF error = "rate" THEN gate \cup {"paused"} ELSE gate

\* A transaction fails for a reason of ours, and is rolled back.
Breaks(r) ==
    /\ Fails(r, "ours")
    /\ UNCHANGED <<mix, job, stored>>

\* _lock_owned_job found the claim taken back: close the run and stop.
Reclaimed(r) ==
    /\ ~_owned(r)
    /\ Close(r, "cancelled")
    /\ UNCHANGED <<mix, job, stored>>

_start_run(r) ==
    LET a == account[UserOf(r)] IN
    /\ run[r].pc = "start"
    /\ \/ Reclaimed(r) /\ UNCHANGED gate
       \/ Breaks(r)
       \/ /\ _owned(r)
          /\ IF a.valid /\ a.nonce # NoCredential
             THEN Resume(r, "fetch", a.nonce, 0, "none")
             ELSE Resume(r, "failing", NoCredential, 0, "rejected")
          /\ UNCHANGED <<mix, job, stored, gate>>
    /\ UNCHANGED <<mix, account, signedIn, dead, moodle>>

\* No transaction is open while Moodle answers.
Read(r, pc, error) == Resume(r, pc, run[r].nonce, moodle[UserOf(r)], error)

Fetch(r) ==
    /\ run[r].pc = "fetch"
    /\ \/ TokenRejected(r) /\ Fails(r, "rejected")
       \/ \E error \in {"school", "rate", "ours"} : Fails(r, error)
       \/ ~TokenRejected(r) /\ Read(r, "apply", "none") /\ UNCHANGED gate
       \/ /\ Kind[run[r].job] = "assignments" /\ ~TokenRejected(r)
          /\ "school" \in mix
          /\ \/ Read(r, "drop", "none") /\ UNCHANGED gate
             \/ Read(r, "apply", "school") /\ UNCHANGED gate
             \/ Read(r, "apply", "rate") /\ gate' = gate \cup {"paused"}
    /\ UNCHANGED <<mix, job, account, signedIn, dead, moodle, stored>>

\* The answer lost every course: what it left out goes, then the run fails.
_drop_courses_left_out(r) ==
    /\ run[r].pc = "drop"
    /\ \/ Reclaimed(r) /\ UNCHANGED gate
       \/ Breaks(r)
       \/ /\ _owned(r)
          /\ stored' = [stored EXCEPT ![run[r].job] = run[r].seen]
          /\ Raise(r, "failing", "school")
          /\ UNCHANGED <<mix, job, gate>>
    /\ UNCHANGED <<mix, account, signedIn, dead, moodle>>

_mark_succeeded(r) ==
    /\ job' = [job EXCEPT ![run[r].job] = [status |-> "pending", lock |-> NoRun,
                                           attempts |-> 0, due |-> FALSE,
                                           fresh |-> TRUE]]
    /\ Stop(r, "succeeded")

\* Stores the listing under the job's row lock.  A courses run succeeds in
\* the same transaction; an assignments run goes on to probe, except after a
\* 429 of the course list, which fails it here.
Apply(r) ==
    /\ run[r].pc = "apply"
    /\ \/ Reclaimed(r) /\ UNCHANGED gate
       \/ Breaks(r)
       \/ /\ _owned(r)
          /\ stored' = [stored EXCEPT ![run[r].job] = run[r].seen]
          /\ \/ Kind[run[r].job] = "courses" /\ _mark_succeeded(r) /\ UNCHANGED gate
             \/ /\ Kind[run[r].job] = "assignments" /\ UNCHANGED job
                /\ \/ run[r].error = "rate" /\ Fails(r, "rate")
                   \/ run[r].error # "rate" /\ Goto(r, "probe") /\ UNCHANGED gate
    /\ UNCHANGED <<mix, account, signedIn, dead, moodle>>

\* Its own transactions, which do not ask whether the run still owns the job:
\* the dates apply_extensions writes are those of this run's listing.
_refresh_submission_status(r) ==
    /\ run[r].pc = "probe"
    /\ \/ /\ TokenRejected(r) /\ Fails(r, "rejected") /\ UNCHANGED stored
       \/ /\ \E error \in {"school", "rate", "ours"} : Fails(r, error)
          /\ UNCHANGED stored
       \/ /\ stored' \in {stored, [stored EXCEPT ![run[r].job] = run[r].seen]}
          /\ IF run[r].error = "school" THEN Fails(r, "school")
             ELSE Goto(r, "finish") /\ UNCHANGED gate
    /\ UNCHANGED <<mix, job, account, signedIn, dead, moodle>>

_finish_after_probe(r) ==
    /\ run[r].pc = "finish"
    /\ \/ _owned(r) /\ _mark_succeeded(r) /\ UNCHANGED <<mix, stored, gate>>
       \/ ~_owned(r) /\ Stop(r, run[r].row) /\ UNCHANGED <<mix, job, stored, gate>>
       \/ Breaks(r)
    /\ UNCHANGED <<mix, account, signedIn, dead, moodle>>

-----------------------------------------------------------------------------
(* Failures.                                                               *)

_handle_moodle_failure(r) ==
    /\ run[r].pc = "failing"
    /\ Goto(r, IF MoodleUnavailable THEN "postpone" ELSE "record")
    /\ UNCHANGED <<mix, job, account, signedIn, dead, moodle, stored, gate>>

\* In a window: back to pending until it ends, and no attempt is counted.
Postpone(r) ==
    /\ run[r].pc = "postpone"
    /\ \/ ~_owned(r) /\ Stop(r, run[r].row) /\ UNCHANGED job
       \/ /\ _owned(r)
          /\ job' = [job EXCEPT ![run[r].job] =
                       Job(run[r].job, "pending", NoRun, job[run[r].job].attempts, FALSE)]
          /\ Close(r, "failed")
    /\ UNCHANGED <<mix, account, signedIn, dead, moodle, stored, gate>>

\* Mutant of _rejected_token_still_stored: the nonce is not compared.
_rejected_token_still_stored_assumed(r) == TRUE

_rejected_token_still_stored(r) ==
    run[r].nonce \in {NoCredential, account[UserOf(r)].nonce}

mark_credentials_invalid(u) ==
    /\ account' = [account EXCEPT ![u] = [valid |-> FALSE, nonce |-> account[u].nonce,
                                          issued |-> account[u].issued]]
    /\ job' = [j \in Jobs |-> IF Owner[j] = u
                              THEN Job(j, "disabled", NoRun, job[j].attempts, job[j].due)
                              ELSE job[j]]

\* Mutant of Retry: the school's faults end the job like ours.
Retry_gives_up(j, keepRetrying) ==
    LET attempts == job[j].attempts + 1 IN
    job' = [job EXCEPT ![j] =
              IF attempts < MaxAttempts THEN Job(j, "pending", NoRun, attempts, FALSE)
              ELSE Job(j, "failed", NoRun, attempts, job[j].due)]

\* Past max_attempts the school's faults wait for the next interval; ours end
\* the job.
Retry(j, keepRetrying) ==
    LET attempts == job[j].attempts + 1 IN
    job' = [job EXCEPT ![j] =
              IF attempts < MaxAttempts THEN Job(j, "pending", NoRun, attempts, FALSE)
              ELSE IF keepRetrying THEN Job(j, "pending", NoRun, 0, FALSE)
              ELSE Job(j, "failed", NoRun, attempts, job[j].due)]

_record_failure(r) ==
    /\ run[r].pc = "record"
    /\ \/ ~_owned(r) /\ Stop(r, run[r].row) /\ UNCHANGED <<mix, job, account>>
       \/ /\ _owned(r) /\ Close(r, "failed")
          /\ IF run[r].error = "rejected" /\ _rejected_token_still_stored(r)
             THEN mark_credentials_invalid(UserOf(r))
             ELSE Retry(run[r].job, run[r].error # "ours") /\ UNCHANGED account
    /\ UNCHANGED <<mix, signedIn, dead, moodle, stored, gate>>

-----------------------------------------------------------------------------
(* Everything else that moves a job or a credential.                       *)

Revived(j) == Job(j, "pending", NoRun, 0, TRUE)

ReviveDisabled(u) ==
    job' = [j \in Jobs |-> IF Owner[j] = u /\ job[j].status = "disabled"
                           THEN Revived(j) ELSE job[j]]

\* A new nonce with every write of the credential row.
StoreToken(u) ==
    /\ account[u].issued < MaxNonce
    /\ account' = [account EXCEPT ![u] = [valid |-> TRUE,
                                          nonce |-> account[u].issued + 1,
                                          issued |-> account[u].issued + 1]]

\* Mutant of update_credentials: the token is stored, the jobs stay disabled.
update_credentials_unrevived(u) ==
    /\ "patch" \in mix
    /\ signedIn[u]
    /\ StoreToken(u)
    /\ UNCHANGED <<mix, job, run, signedIn, dead, moodle, stored, gate>>

\* The app opens: Moodle accepted the token it sends.  Revives only if the
\* account was invalid.
update_credentials(u) ==
    /\ "patch" \in mix
    /\ signedIn[u]
    /\ StoreToken(u)
    /\ IF account[u].valid THEN UNCHANGED job ELSE ReviveDisabled(u)
    /\ UNCHANGED <<mix, run, signedIn, dead, moodle, stored, gate>>

\* A sign-in stores its token and revives (ensure_sync_jobs).
login(u) ==
    /\ "device" \in mix
    /\ StoreToken(u)
    /\ ReviveDisabled(u)
    /\ signedIn' = [signedIn EXCEPT ![u] = TRUE]
    /\ UNCHANGED <<mix, run, dead, moodle, stored, gate>>

\* The last device signs out, and the stored token goes with it.
forget_credentials_once_signed_out(u) ==
    /\ "device" \in mix
    /\ signedIn[u]
    /\ signedIn' = [signedIn EXCEPT ![u] = FALSE]
    /\ account' = [account EXCEPT ![u] = [valid |-> account[u].valid,
                                          nonce |-> NoCredential,
                                          issued |-> account[u].issued]]
    /\ UNCHANGED <<mix, job, run, dead, moodle, stored, gate>>

\* The per-user cooldown only makes this rarer.
run_now(j) ==
    /\ "run_now" \in mix
    /\ signedIn[Owner[j]]
    /\ Kind[j] = "assignments"
    /\ "policy_off" \notin gate
    /\ job[j].status \in {"pending", "failed"}
    /\ job' = [job EXCEPT ![j] =
                 Job(j, "pending", job[j].lock,
                     IF job[j].status = "failed" THEN 0 ELSE job[j].attempts, TRUE)]
    /\ UNCHANGED <<mix, run, account, signedIn, dead, moodle, stored, gate>>

\* A client upload holds the server's run off, while the last success is
\* within the policy interval.
_push_back_sync_jobs(j) ==
    /\ "upload" \in mix
    /\ signedIn[Owner[j]]
    /\ job[j].status = "pending" /\ job[j].fresh
    /\ job' = [job EXCEPT ![j] = Job(j, "pending", job[j].lock, job[j].attempts, FALSE)]
    /\ UNCHANGED <<mix, run, account, signedIn, dead, moodle, stored, gate>>

\* The portal's two retry-all buttons: every job that is not running, or all
\* of them but the pending ones without a last_error.  Not asked: whether the
\* account is still invalid.
retry_all(Spared) ==
    /\ "portal" \in mix
    /\ \A j \in Spared : job[j].status = "pending"
    /\ job' = [j \in Jobs |-> IF job[j].status = "running" \/ j \in Spared
                              THEN job[j] ELSE Revived(j)]
    /\ UNCHANGED <<mix, run, account, signedIn, dead, moodle, stored, gate>>

-----------------------------------------------------------------------------
(* The world around: time, Moodle, the operator.                           *)

\* run_after comes.
ComeDue(j) ==
    /\ job[j].status = "pending" /\ ~job[j].due
    /\ job' = [job EXCEPT ![j] = Job(j, "pending", job[j].lock, job[j].attempts, TRUE)]
    /\ UNCHANGED <<mix, run, account, signedIn, dead, moodle, stored, gate>>

\* A policy interval has passed since the last success.
IntervalPasses(j) ==
    /\ job[j].fresh
    /\ job' = [job EXCEPT ![j] = [status |-> job[j].status, lock |-> job[j].lock,
                                  attempts |-> job[j].attempts, due |-> job[j].due,
                                  fresh |-> FALSE]]
    /\ UNCHANGED <<mix, run, account, signedIn, dead, moodle, stored, gate>>

MoodleRevokes(u) ==
    /\ "revoke" \in mix
    /\ \E n \in (dead[u] + 1)..account[u].issued : dead' = [dead EXCEPT ![u] = n]
    /\ UNCHANGED <<mix, job, run, account, signedIn, moodle, stored, gate>>

MoodleChanges(u) ==
    /\ "change" \in mix
    /\ moodle[u] < MaxVersion
    /\ moodle' = [moodle EXCEPT ![u] = moodle[u] + 1]
    /\ UNCHANGED <<mix, job, run, account, signedIn, dead, stored, gate>>

\* An operator disables a policy or suspends sync; a maintenance window opens.
GateShuts(g) ==
    /\ g \notin gate
    /\ \/ g \in {"window", "suspended"} /\ "window" \in mix
       \/ g = "policy_off" /\ "policy" \in mix
    /\ gate' = gate \cup {g}
    /\ UNCHANGED <<mix, job, run, account, signedIn, dead, moodle, stored>>

GateOpens(g) ==
    /\ g \in gate
    /\ gate' = gate \ {g}
    /\ UNCHANGED <<mix, job, run, account, signedIn, dead, moodle, stored>>

-----------------------------------------------------------------------------
RunStep(r) ==
    \/ _start_run(r) \/ Fetch(r) \/ _drop_courses_left_out(r) \/ Apply(r)
    \/ _refresh_submission_status(r) \/ _finish_after_probe(r)
    \/ _handle_moodle_failure(r) \/ Postpone(r) \/ _record_failure(r)

Next ==
    \/ \E j \in Jobs, r \in Runs : _claim_due_job(j, r)
    \/ \E r \in Runs : RunStep(r)
    \/ \E r \in Runs : Crash(r)
    \/ \E j \in Jobs : _recover_stale_jobs(j)
    \/ \E u \in Users : update_credentials(u)
    \/ \E u \in Users : login(u)
    \/ \E u \in Users : forget_credentials_once_signed_out(u)
    \/ \E j \in Jobs : run_now(j)
    \/ \E j \in Jobs : _push_back_sync_jobs(j)
    \/ \E Spared \in SUBSET Jobs : retry_all(Spared)
    \/ \E j \in Jobs : ComeDue(j)
    \/ \E j \in Jobs : IntervalPasses(j)
    \/ \E u \in Users : MoodleRevokes(u)
    \/ \E u \in Users : MoodleChanges(u)
    \/ \E g \in Gates : GateShuts(g)
    \/ \E g \in Gates : GateOpens(g)

Spec == Init /\ [][Next]_vars

\* A job that stays due is not passed over for ever, although its user is busy
\* or a gate shut in between: a tick claims until nothing is due, and a job that
\* ran is not due again at once.  A job due only at times may be missed by every
\* tick.
ClaimFairness(j) ==
    \/ SF_vars(\E r \in Runs : _claim_due_job(j, r))
    \/ []<>~(job[j].status = "pending" /\ job[j].due)

\* A worker that is up finishes its runs, ticks, and recovers stale locks; time
\* passes and gates open again.  While uploads can push a job back, its
\* run_after need never come.
FairSpec ==
    /\ Spec
    /\ \A r \in Runs : WF_vars(RunStep(r))
    /\ \A j \in Jobs : ClaimFairness(j)
    /\ \A j \in Jobs : WF_vars(_recover_stale_jobs(j))
    /\ \A j \in Jobs : WF_vars(~job[j].fresh /\ ComeDue(j)) /\ WF_vars(IntervalPasses(j))
    /\ \A g \in Gates : WF_vars(GateOpens(g))

-----------------------------------------------------------------------------
(* What has to hold.                                                       *)

\* A claim, its run's row and the job agree: a sync_runs row says running only
\* while that run holds its job, and a running job is held by a run whose row
\* says so.  A run that lost its job to recovery, to a rejected token or to a
\* crash leaves no row running for ever, and none is closed early.
RunRowsFollowClaims ==
    /\ \A r \in Runs : run[r].row = "running" => _owned(r)
    /\ \A j \in Running : /\ job[j].lock \in Runs
                          /\ run[job[j].lock].job = j
                          /\ run[job[j].lock].row = "running"

\* Two jobs of one user never run at once, whatever recovery, run-now, a
\* sign-in or the portal did to them: both write the user's rows, and a
\* rejected token disables both.
OneRunningPerUser ==
    \A i, j \in Running : Owner[i] = Owner[j] => i = j

\* A disabled job belongs to an invalid account.  PATCH /v3/auth/credentials
\* revives jobs only if the account was invalid, so a disabled job under a
\* valid account would stay off until the next sign-in.
DisabledHeals ==
    \A j \in Jobs : job[j].status = "disabled" => ~account[Owner[j]].valid

\* A credential is marked invalid only if Moodle does reject the token stored
\* now: a rejection that arrives after the app stored a fresh token leaves it
\* alone (_record_failure).
FreshTokenLeftAlone ==
    [][\A u \in Users : account[u].valid /\ ~account'[u].valid
         => account[u].nonce <= dead[u]]_vars

\* A run that found no token to read is about to record its failure.
ReadNone(u) ==
    \E r \in Runs : run[r].pc = "record" /\ UserOf(r) = u /\ run[r].nonce = NoCredential

\* The same for the runs that read a token.  A run that found none has no nonce
\* to compare, and invalidates whatever is stored by then.
ReadTokenDecides ==
    [][\A u \in Users : account[u].valid /\ ~account'[u].valid
         => account[u].nonce <= dead[u] \/ ReadNone(u)]_vars

\* A run that lost its claim does not put an older listing over a newer one,
\* but for the dates its submission probe writes, which asks nobody.
ListingNeverGoesBack ==
    [][\A j \in Jobs : stored'[j] < stored[j]
         => \E r \in Runs : run[r].pc = "probe" /\ run[r].job = j /\ ~_owned(r)]_vars

\* No job stays running for ever, whatever dies while holding it; and the
\* school's faults, however many, and client uploads, however frequent, never
\* stop a signed-in user's job: without a fault of the server's own it runs again
\* and again unless its token is rejected.
KeepsSyncing ==
    \A j \in Jobs :
        /\ []<>(job[j].status # "running")
        /\ mix \cap {"crash", "stall", "ours"} = {} =>
             []<>(job[j].status \in {"running", "disabled"} \/ ~signedIn[Owner[j]])

-----------------------------------------------------------------------------
(* The inductive invariant behind the safety properties (SyncJobsProofs).  *)

\* A job that may run has attempts left.
AttemptsLeft ==
    \A j \in Jobs : job[j].status \in {"pending", "running"} => job[j].attempts < MaxAttempts

\* Moodle did reject the token of a run that fails for it (or there was none).
RejectionsAreReal == \A r \in Runs : run[r].error = "rejected" => TokenRejected(r)

\* What was read, or stored, is never ahead of Moodle.
NotAhead ==
    /\ \A r \in Runs : run[r].seen <= moodle[UserOf(r)]
    /\ \A j \in Jobs : stored[j] <= moodle[Owner[j]]

\* The run that holds a job has read it later than every run that may still
\* write to it.
HolderReadLast ==
    \A r \in Runs : _owned(r) /\ run[r].pc \in {"drop", "apply", "probe"} =>
        /\ stored[run[r].job] <= run[r].seen
        /\ \A s \in Runs : run[s].job = run[r].job /\ run[s].pc = "probe"
                             => run[s].seen <= run[r].seen

IndInv ==
    /\ TypeOK
    /\ AttemptsLeft
    /\ RunRowsFollowClaims
    /\ OneRunningPerUser
    /\ DisabledHeals
    /\ RejectionsAreReal
    /\ NotAhead
    /\ HolderReadLast
=============================================================================
