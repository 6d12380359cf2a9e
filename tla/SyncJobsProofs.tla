---------------------------- MODULE SyncJobsProofs ----------------------------
(* Proofs about SyncJobs, for every number of users, jobs, runs in flight,   *)
(* attempts and credentials.  A run's transactions do one of three things:   *)
(* the run goes on, it leaves a job it has lost, or it gives its job back.   *)
(* A lemma for each says what that takes to keep the inductive invariant;    *)
(* the proof of an action then says which of them it is.                     *)
EXTENDS SyncJobs, TLAPS

-----------------------------------------------------------------------------
(* The two ways a transaction writes its run.                                *)

\* A run that goes on changes its own record only.
LEMMA ResumeEffect ==
    ASSUME TypeOK, NEW r \in Runs, NEW pc \in Pcs, NEW nonce \in Nonces,
           NEW seen \in Versions, NEW error \in Errors \cup {"none"},
           Resume(r, pc, nonce, seen, error)
    PROVE  /\ run' \in [Runs -> RunRecord]
           /\ run'[r] = [pc |-> pc, job |-> run[r].job, nonce |-> nonce,
                         seen |-> seen, error |-> error, row |-> run[r].row]
           /\ \A s \in Runs \ {r} : run'[s] = run[s]
  BY DEF TypeOK, RunRecord, Resume

\* So does one that stops.
LEMMA StopEffect ==
    ASSUME TypeOK, NEW r \in Runs, NEW row \in Rows, Stop(r, row)
    PROVE  /\ run' \in [Runs -> RunRecord]
           /\ run'[r] = Idle(run[r].job, row)
           /\ \A s \in Runs \ {r} : run'[s] = run[s]
  BY SyncJobsAssumption DEF TypeOK, RunRecord, Stop, Idle, Pcs, Nonces, Versions,
     NoCredential, Errors

\* A run's fields have their types, and its user is one.
LEMMA RunFields ==
    ASSUME TypeOK, NEW r \in Runs
    PROVE  /\ run[r].pc \in Pcs /\ run[r].job \in Jobs /\ run[r].nonce \in Nonces
           /\ run[r].seen \in Versions /\ run[r].error \in Errors \cup {"none"}
           /\ run[r].row \in Rows
           /\ UserOf(r) \in Users /\ UserOf(r) = Owner[run[r].job]
           /\ dead[UserOf(r)] \in Nonces /\ moodle[UserOf(r)] \in Versions
           /\ account[UserOf(r)].nonce \in Nonces
           /\ stored[run[r].job] \in Versions
  BY SyncJobsAssumption DEF TypeOK, RunRecord, UserOf, AccountRecord

-----------------------------------------------------------------------------
(* What keeps the invariant.                                                 *)

\* A run goes on: what it raises as rejected was, what it has read is not ahead
\* of Moodle, it stores only its own listing, and only if it holds the job or
\* is probing; and if it holds the job, nobody has read it later.
LEMMA GoesOn ==
    ASSUME IndInv, NEW r \in Runs, NEW pc \in Pcs, NEW nonce \in Nonces,
           NEW seen \in Versions, NEW error \in Errors \cup {"none"},
           Resume(r, pc, nonce, seen, error),
           error = "rejected" => nonce <= dead[UserOf(r)],
           seen <= moodle[UserOf(r)],
           pc = "probe" => _owned(r),
           \/ stored' = stored
           \/ /\ stored' = [stored EXCEPT ![run[r].job] = run[r].seen]
              /\ _owned(r) \/ run[r].pc = "probe",
           _owned(r) /\ pc \in {"drop", "apply", "probe"} =>
             /\ stored'[run[r].job] <= seen
             /\ \A s \in Runs : run[s].job = run[r].job /\ run[s].pc = "probe"
                                  => run[s].seen <= seen,
           UNCHANGED <<job, account, signedIn, dead, moodle>>,
           gate' \in SUBSET Gates
    PROVE  IndInv'
<1> USE DEF IndInv
<1>1. /\ run' \in [Runs -> RunRecord]
      /\ run'[r] = [pc |-> pc, job |-> run[r].job, nonce |-> nonce,
                    seen |-> seen, error |-> error, row |-> run[r].row]
      /\ \A s \in Runs \ {r} : run'[s] = run[s]
  BY ResumeEffect
<1>2. /\ run[r].job \in Jobs /\ run[r].seen \in Versions
      /\ UserOf(r) \in Users /\ UserOf(r) = Owner[run[r].job]
  BY RunFields
<1>3. TypeOK'
  BY <1>1, <1>2 DEF TypeOK
<1>4. (AttemptsLeft /\ OneRunningPerUser /\ DisabledHeals)'
  BY DEF AttemptsLeft, OneRunningPerUser, DisabledHeals, Running
<1>5. RunRowsFollowClaims'
  BY <1>1 DEF TypeOK, RunRowsFollowClaims, Running, _owned
<1>6. RejectionsAreReal'
  BY <1>1 DEF RejectionsAreReal, TokenRejected, UserOf
<1>7. NotAhead'
  BY <1>1, <1>2 DEF NotAhead, TypeOK, UserOf
<1>8. HolderReadLast'
  <2> SUFFICES ASSUME NEW h \in Runs, _owned(h)', run'[h].pc \in {"drop", "apply", "probe"}
               PROVE  /\ stored'[run'[h].job] <= run'[h].seen
                      /\ \A s \in Runs : run'[s].job = run'[h].job /\ run'[s].pc = "probe"
                                           => run'[s].seen <= run'[h].seen
    BY DEF HolderReadLast
  <2>1. _owned(h)
    BY <1>1 DEF _owned
  <2>2. CASE h = r
    BY <1>1, <2>1, <2>2 DEF Versions
  <2>3. CASE h # r
    <3>1. /\ run'[h] = run[h] /\ run[h].pc \in {"drop", "apply", "probe"}
          /\ stored[run[h].job] <= run[h].seen
          /\ \A s \in Runs : run[s].job = run[h].job /\ run[s].pc = "probe"
                               => run[s].seen <= run[h].seen
      BY <1>1, <2>1, <2>3 DEF HolderReadLast
    <3>2. run[r].job = run[h].job => ~_owned(r)
      BY <2>1, <2>3 DEF _owned
    <3>3. stored'[run[h].job] <= run[h].seen
      <4>1. CASE stored' = stored
        BY <3>1, <4>1
      <4>2. CASE /\ stored' = [stored EXCEPT ![run[r].job] = run[r].seen]
                 /\ _owned(r) \/ run[r].pc = "probe"
        <5>1. run[h].job \in Jobs
          BY RunFields
        <5>2. CASE run[r].job = run[h].job
          BY <3>1, <3>2, <4>2, <5>1, <5>2 DEF TypeOK
        <5>3. CASE run[r].job # run[h].job
          BY <3>1, <4>2, <5>1, <5>3 DEF TypeOK
        <5> QED BY <5>2, <5>3
      <4> QED BY <4>1, <4>2
    <3>4. \A s \in Runs : run'[s].job = run[h].job /\ run'[s].pc = "probe"
                            => run'[s].seen <= run[h].seen
      BY <1>1, <3>1, <3>2
    <3> QED BY <3>1, <3>3, <3>4
  <2> QED BY <2>2, <2>3
<1> QED BY <1>3, <1>4, <1>5, <1>6, <1>7, <1>8

\* A run that has lost its job, or dies, stops and leaves the job alone.  Its row
\* says running only if the job is still its own.
LEMMA Leaves ==
    ASSUME IndInv, NEW r \in Runs, NEW row \in Rows, Stop(r, row),
           row = "running" => run[r].row = "running",
           _owned(r) => row = run[r].row,
           UNCHANGED <<job, account, signedIn, dead, moodle, stored, gate>>
    PROVE  IndInv'
<1> USE DEF IndInv
<1>1. /\ run' \in [Runs -> RunRecord]
      /\ run'[r] = Idle(run[r].job, row)
      /\ \A s \in Runs \ {r} : run'[s] = run[s]
  BY StopEffect
<1>2. /\ UserOf(r) \in Users /\ UserOf(r) = Owner[run[r].job]
      /\ moodle[UserOf(r)] \in Versions
  BY RunFields
<1>3. TypeOK'
  BY <1>1 DEF TypeOK
<1>4. (AttemptsLeft /\ OneRunningPerUser /\ DisabledHeals)'
  BY DEF AttemptsLeft, OneRunningPerUser, DisabledHeals, Running
<1>5. RunRowsFollowClaims'
  BY <1>1 DEF TypeOK, RunRowsFollowClaims, Running, _owned, Idle
<1>6. RejectionsAreReal'
  BY <1>1 DEF RejectionsAreReal, TokenRejected, UserOf, Idle
<1>7. NotAhead'
  BY <1>1, <1>2 DEF NotAhead, UserOf, Idle, Versions
<1>8. HolderReadLast'
  BY <1>1 DEF HolderReadLast, _owned, Idle
<1> QED BY <1>3, <1>4, <1>5, <1>6, <1>7, <1>8

\* A run that holds its job gives it back, pending with attempts left or failed,
\* and closes its row; a courses run has stored its listing in the same step.
LEMMA GivesBack ==
    ASSUME IndInv, NEW r \in Runs, NEW row \in Rows, Stop(r, row), row # "running",
           _owned(r), NEW new \in JobRecord, new.status \in {"pending", "failed"},
           new.status = "pending" => new.attempts < MaxAttempts,
           job' = [job EXCEPT ![run[r].job] = new],
           stored' \in {stored, [stored EXCEPT ![run[r].job] = run[r].seen]},
           UNCHANGED <<account, signedIn, dead, moodle, gate>>
    PROVE  IndInv'
<1> USE DEF IndInv
<1>1. /\ run' \in [Runs -> RunRecord]
      /\ run'[r] = Idle(run[r].job, row)
      /\ \A s \in Runs \ {r} : run'[s] = run[s]
  BY StopEffect
<1>2. /\ run[r].job \in Jobs /\ run[r].seen \in Versions
      /\ UserOf(r) \in Users /\ UserOf(r) = Owner[run[r].job]
      /\ moodle[UserOf(r)] \in Versions
  BY RunFields
<1>3. /\ job' \in [Jobs -> JobRecord] /\ job'[run[r].job] = new
      /\ \A j \in Jobs \ {run[r].job} : job'[j] = job[j]
  BY <1>2 DEF TypeOK
<1>4. TypeOK'
  BY <1>1, <1>2, <1>3 DEF TypeOK
<1>5. (AttemptsLeft /\ DisabledHeals)'
  BY <1>2, <1>3 DEF AttemptsLeft, DisabledHeals
<1>6. OneRunningPerUser'
  BY <1>2, <1>3 DEF OneRunningPerUser, Running
<1>7. RunRowsFollowClaims'
  <2>1. ASSUME NEW s \in Runs, run'[s].row = "running" PROVE _owned(s)'
    <3>1. s # r /\ run'[s] = run[s] /\ _owned(s)
      BY <1>1, <2>1 DEF RunRowsFollowClaims, Idle
    <3>2. run[s].job # run[r].job /\ run[s].job \in Jobs
      BY <3>1, RunFields DEF _owned
    <3> QED BY <3>1, <3>2, <1>3 DEF _owned
  <2>2. ASSUME NEW j \in Running' PROVE /\ job'[j].lock \in Runs
                                        /\ run'[job'[j].lock].job = j
                                        /\ run'[job'[j].lock].row = "running"
    <3>1. j \in Running /\ j # run[r].job /\ job'[j] = job[j]
      BY <2>2, <1>2, <1>3 DEF Running
    <3>2. /\ job[j].lock \in Runs /\ run[job[j].lock].job = j
          /\ run[job[j].lock].row = "running"
      BY <3>1 DEF RunRowsFollowClaims
    <3> QED BY <3>1, <3>2, <1>1
  <2> QED BY <2>1, <2>2 DEF RunRowsFollowClaims
<1>8. RejectionsAreReal'
  BY <1>1 DEF RejectionsAreReal, TokenRejected, UserOf, Idle
<1>9. NotAhead'
  BY <1>1, <1>2 DEF NotAhead, TypeOK, UserOf, Idle, Versions
<1>10. HolderReadLast'
  <2> SUFFICES ASSUME NEW h \in Runs, _owned(h)', run'[h].pc \in {"drop", "apply", "probe"}
               PROVE  /\ stored'[run'[h].job] <= run'[h].seen
                      /\ \A s \in Runs : run'[s].job = run'[h].job /\ run'[s].pc = "probe"
                                           => run'[s].seen <= run'[h].seen
    BY DEF HolderReadLast
  <2>1. h # r /\ run'[h] = run[h] /\ run[h].job \in Jobs
    BY <1>1, RunFields DEF Idle
  <2>2. run[h].job # run[r].job
    BY <1>2, <1>3, <2>1 DEF _owned
  <2>3. _owned(h)
    BY <1>3, <2>1, <2>2 DEF _owned
  <2>4. /\ stored[run[h].job] <= run[h].seen
        /\ \A s \in Runs : run[s].job = run[h].job /\ run[s].pc = "probe"
                             => run[s].seen <= run[h].seen
    BY <2>1, <2>3 DEF HolderReadLast
  <2>5. stored'[run[h].job] = stored[run[h].job]
    BY <1>2, <2>1, <2>2 DEF TypeOK
  <2> QED BY <1>1, <2>1, <2>2, <2>4, <2>5 DEF Idle
<1> QED BY <1>4, <1>5, <1>6, <1>7, <1>8, <1>9, <1>10

\* Jobs change only their times, or are not running and become pending with
\* attempts left.  The runs do not notice.
LEMMA RestingJobs ==
    ASSUME IndInv, job' \in [Jobs -> JobRecord],
           \A j \in Jobs : \/ /\ job'[j].status = job[j].status
                              /\ job'[j].lock = job[j].lock
                              /\ job'[j].attempts = job[j].attempts
                           \/ /\ job[j].status # "running"
                              /\ job'[j].status = "pending"
                              /\ job'[j].attempts < MaxAttempts,
           account' \in [Users -> AccountRecord],
           \A j \in Jobs : job'[j].status = "disabled" => ~account'[Owner[j]].valid,
           signedIn' \in [Users -> BOOLEAN],
           UNCHANGED <<run, dead, moodle, stored, gate>>
    PROVE  IndInv'
<1> USE DEF IndInv
<1>1. TypeOK'
  BY DEF TypeOK
<1>2. \A j \in Jobs : job'[j].status = "running" <=> job[j].status = "running"
  OBVIOUS
<1>3. \A j \in Jobs : job[j].status = "running" => job'[j].lock = job[j].lock
  OBVIOUS
<1>4. (AttemptsLeft /\ DisabledHeals)'
  BY DEF AttemptsLeft, DisabledHeals
<1>5. OneRunningPerUser'
  BY <1>2 DEF OneRunningPerUser, Running
<1>6. \A r \in Runs : _owned(r)' <=> _owned(r)
  BY <1>2, <1>3, RunFields DEF _owned
<1>7. RunRowsFollowClaims'
  BY <1>2, <1>3, <1>6 DEF RunRowsFollowClaims, Running
<1>8. (RejectionsAreReal /\ NotAhead)'
  BY DEF RejectionsAreReal, NotAhead, TokenRejected, UserOf
<1>9. HolderReadLast'
  BY <1>6 DEF HolderReadLast
<1> QED BY <1>1, <1>4, <1>5, <1>7, <1>8, <1>9

-----------------------------------------------------------------------------
(* The transactions of a run.                                                *)

\* A run that finds its claim taken back stops (_lock_owned_job).
LEMMA ReclaimedKeeps ==
    ASSUME IndInv, NEW r \in Runs, Reclaimed(r),
           UNCHANGED <<account, signedIn, dead, moodle, gate>>
    PROVE  IndInv'
<1> DEFINE row == IF run[r].row = "running" THEN "cancelled" ELSE run[r].row
<1>1. row \in Rows /\ row # "running"
  BY RunFields DEF IndInv, Rows
<1>2. Stop(r, row)
  BY DEF Reclaimed, Close
<1> QED BY <1>1, <1>2, Leaves DEF Reclaimed

\* A run may fail at any point before it has probed (the handlers of
\* _execute_job): the rejection is real, and nothing else changes.
LEMMA FailsKeeps ==
    ASSUME IndInv, NEW r \in Runs, NEW error \in Errors, Fails(r, error),
           error = "rejected" => TokenRejected(r),
           \/ stored' = stored
           \/ /\ stored' = [stored EXCEPT ![run[r].job] = run[r].seen]
              /\ _owned(r) \/ run[r].pc = "probe",
           UNCHANGED <<job, account, signedIn, dead, moodle>>
    PROVE  IndInv'
<1> DEFINE pc == IF error \in {"rejected", "school"} THEN "failing" ELSE "record"
<1>1. Resume(r, pc, run[r].nonce, run[r].seen, error)
  BY DEF Fails, Raise
<1>2. pc \in Pcs /\ pc \notin {"drop", "apply", "probe"}
  BY DEF Pcs
<1>3. gate' \in SUBSET Gates
  BY DEF Fails, IndInv, TypeOK, Gates
<1>4. run[r].seen <= moodle[UserOf(r)]
  BY DEF IndInv, NotAhead
<1>5. /\ run[r].nonce \in Nonces /\ run[r].seen \in Versions
      /\ error \in Errors \cup {"none"}
  BY RunFields DEF IndInv
<1>6. error = "rejected" => run[r].nonce <= dead[UserOf(r)]
  BY DEF TokenRejected
<1> HIDE DEF pc
<1> QED BY <1>1, <1>2, <1>3, <1>4, <1>5, <1>6, GoesOn

\* Success closes the run and puts the job back on its schedule.
LEMMA SucceedsKeeps ==
    ASSUME IndInv, NEW r \in Runs, _owned(r), _mark_succeeded(r),
           stored' \in {stored, [stored EXCEPT ![run[r].job] = run[r].seen]},
           UNCHANGED <<account, signedIn, dead, moodle, gate>>
    PROVE  IndInv'
<1> DEFINE new == [status |-> "pending", lock |-> NoRun, attempts |-> 0,
                   due |-> FALSE, fresh |-> TRUE]
<1>1. /\ new \in JobRecord /\ new.status = "pending" /\ new.attempts < MaxAttempts
      /\ "succeeded" \in Rows
  BY SyncJobsAssumption DEF JobRecord, Rows
<1>2. job' = [job EXCEPT ![run[r].job] = new] /\ Stop(r, "succeeded")
  BY DEF _mark_succeeded
<1> HIDE DEF new
<1> QED BY <1>1, <1>2, GivesBack

\* The first transaction, which reads the token.
LEMMA StartKeeps == ASSUME IndInv, NEW r \in Runs, _start_run(r) PROVE IndInv'
<1> DEFINE a == account[UserOf(r)]
<1>1. CASE Reclaimed(r) /\ UNCHANGED gate
  BY <1>1, ReclaimedKeeps DEF _start_run
<1>2. CASE /\ _owned(r) /\ Resume(r, "fetch", a.nonce, 0, "none")
           /\ UNCHANGED <<job, stored, gate>>
  <2>1. "fetch" \in Pcs /\ a.nonce \in Nonces /\ 0 \in Versions /\ "none" \in Errors \cup {"none"}
    BY RunFields, SyncJobsAssumption DEF IndInv, Pcs, Versions
  <2>2. 0 <= moodle[UserOf(r)] /\ gate' \in SUBSET Gates
    BY <1>2, RunFields DEF IndInv, TypeOK, Versions
  <2> QED BY <1>2, <2>1, <2>2, GoesOn DEF _start_run
<1>3. CASE /\ _owned(r) /\ Resume(r, "failing", NoCredential, 0, "rejected")
           /\ UNCHANGED <<job, stored, gate>>
  <2>1. /\ NoCredential \in Nonces /\ 0 \in Versions
        /\ "failing" \in Pcs /\ "rejected" \in Errors \cup {"none"}
    BY SyncJobsAssumption DEF NoCredential, Nonces, Versions, Pcs, Errors
  <2>2. /\ NoCredential <= dead[UserOf(r)] /\ 0 <= moodle[UserOf(r)]
        /\ gate' \in SUBSET Gates
    BY <1>3, RunFields DEF IndInv, TypeOK, NoCredential, Nonces, Versions
  <2> QED BY <1>3, <2>1, <2>2, GoesOn DEF _start_run
<1>4. CASE Breaks(r)
  BY <1>4, FailsKeeps DEF _start_run, Breaks, Errors
<1> QED BY <1>1, <1>2, <1>3, <1>4 DEF _start_run

\* Moodle's answer.  Who reads now has read last.
LEMMA ReadKeeps ==
    ASSUME IndInv, NEW r \in Runs, NEW pc \in {"drop", "apply"},
           NEW error \in {"none", "school", "rate"}, Read(r, pc, error),
           UNCHANGED <<job, account, signedIn, dead, moodle, stored>>,
           gate' \in SUBSET Gates
    PROVE  IndInv'
<1> USE DEF IndInv
<1> DEFINE seen == moodle[UserOf(r)]
<1>1. Resume(r, pc, run[r].nonce, seen, error)
  BY DEF Read
<1>2. /\ run[r].nonce \in Nonces /\ seen \in Versions /\ pc \in Pcs /\ pc # "probe"
      /\ error \in Errors \cup {"none"} /\ error # "rejected" /\ seen <= moodle[UserOf(r)]
  BY RunFields DEF Pcs, Errors, Versions
<1>3. stored'[run[r].job] <= seen
  BY RunFields DEF NotAhead
<1>4. \A s \in Runs : run[s].job = run[r].job => run[s].seen <= seen
  BY DEF NotAhead, UserOf
<1> HIDE DEF seen
<1> QED BY <1>1, <1>2, <1>3, <1>4, GoesOn

\* What a fetch may end in.
LEMMA FetchKeeps == ASSUME IndInv, NEW r \in Runs, Fetch(r) PROVE IndInv'
<1>1. CASE TokenRejected(r) /\ Fails(r, "rejected")
  BY <1>1, FailsKeeps DEF Fetch, Errors
<1>2. CASE \E error \in {"school", "rate", "ours"} : Fails(r, error)
  BY <1>2, FailsKeeps DEF Fetch, Errors
<1>3. gate \in SUBSET Gates /\ gate \cup {"paused"} \in SUBSET Gates
  BY DEF IndInv, TypeOK, Gates
<1>4. CASE \E pc \in {"drop", "apply"}, error \in {"none", "school", "rate"} :
              Read(r, pc, error) /\ gate' \in {gate, gate \cup {"paused"}}
  BY <1>3, <1>4, ReadKeeps DEF Fetch
<1> QED BY <1>1, <1>2, <1>4 DEF Fetch

\* Dropping the courses an answer left out, before the run fails.
LEMMA DropKeeps == ASSUME IndInv, NEW r \in Runs, _drop_courses_left_out(r) PROVE IndInv'
<1>1. CASE Reclaimed(r) /\ UNCHANGED gate
  BY <1>1, ReclaimedKeeps DEF _drop_courses_left_out
<1>2. CASE /\ _owned(r) /\ Raise(r, "failing", "school") /\ UNCHANGED <<job, gate>>
           /\ stored' = [stored EXCEPT ![run[r].job] = run[r].seen]
  <2>1. /\ run[r].nonce \in Nonces /\ run[r].seen \in Versions
        /\ "failing" \in Pcs /\ "school" \in Errors \cup {"none"}
    BY RunFields DEF IndInv, Pcs, Errors
  <2>2. run[r].seen <= moodle[UserOf(r)] /\ gate' \in SUBSET Gates
    BY <1>2 DEF IndInv, NotAhead, TypeOK
  <2> QED BY <1>2, <2>1, <2>2, GoesOn DEF _drop_courses_left_out, Raise
<1>3. CASE Breaks(r)
  BY <1>3, FailsKeeps DEF _drop_courses_left_out, Breaks, Errors
<1> QED BY <1>1, <1>2, <1>3 DEF _drop_courses_left_out

\* Storing the listing.
LEMMA ApplyKeeps == ASSUME IndInv, NEW r \in Runs, Apply(r) PROVE IndInv'
<1> DEFINE Stored == stored' = [stored EXCEPT ![run[r].job] = run[r].seen]
<1>1. CASE Reclaimed(r) /\ UNCHANGED gate
  BY <1>1, ReclaimedKeeps DEF Apply
<1>2. CASE Breaks(r)
  BY <1>2, FailsKeeps DEF Apply, Breaks, Errors
<1>3. CASE _owned(r) /\ Stored /\ _mark_succeeded(r) /\ UNCHANGED gate
  BY <1>3, SucceedsKeeps DEF Apply
<1>4. CASE _owned(r) /\ Stored /\ Fails(r, "rate") /\ UNCHANGED job
  BY <1>4, FailsKeeps DEF Apply, Errors
<1>5. CASE _owned(r) /\ Stored /\ Goto(r, "probe") /\ UNCHANGED <<job, gate>>
  <2>1. /\ run[r].nonce \in Nonces /\ run[r].seen \in Versions /\ "probe" \in Pcs
        /\ run[r].error \in Errors \cup {"none"}
    BY RunFields DEF IndInv, Pcs
  <2>2. run[r].error = "rejected" => run[r].nonce <= dead[UserOf(r)]
    BY DEF IndInv, RejectionsAreReal, TokenRejected
  <2>3. run[r].seen <= moodle[UserOf(r)] /\ gate' \in SUBSET Gates
    BY <1>5 DEF IndInv, NotAhead, TypeOK
  <2>4. stored'[run[r].job] <= run[r].seen
    BY <1>5, RunFields DEF IndInv, TypeOK, Versions
  <2>5. \A s \in Runs : run[s].job = run[r].job /\ run[s].pc = "probe"
                          => run[s].seen <= run[r].seen
    BY <1>5 DEF Apply, IndInv, HolderReadLast
  <2> QED BY <1>5, <2>1, <2>2, <2>3, <2>4, <2>5, GoesOn DEF Apply, Goto
<1> QED BY <1>1, <1>2, <1>3, <1>4, <1>5 DEF Apply

\* The probe, whoever holds the job.
LEMMA ProbeKeeps == ASSUME IndInv, NEW r \in Runs, _refresh_submission_status(r) PROVE IndInv'
<1> DEFINE Probed == stored' \in {stored, [stored EXCEPT ![run[r].job] = run[r].seen]}
<1>1. CASE TokenRejected(r) /\ Fails(r, "rejected") /\ UNCHANGED stored
  BY <1>1, FailsKeeps DEF _refresh_submission_status, Errors
<1>2. CASE (\E error \in {"school", "rate", "ours"} : Fails(r, error)) /\ UNCHANGED stored
  BY <1>2, FailsKeeps DEF _refresh_submission_status, Errors
<1>3. CASE Probed /\ Fails(r, "school")
  BY <1>3, FailsKeeps DEF _refresh_submission_status, Errors
<1>4. CASE Probed /\ Goto(r, "finish") /\ UNCHANGED gate
  <2>1. /\ run[r].nonce \in Nonces /\ run[r].seen \in Versions /\ "finish" \in Pcs
        /\ run[r].error \in Errors \cup {"none"}
    BY RunFields DEF IndInv, Pcs
  <2>2. run[r].error = "rejected" => run[r].nonce <= dead[UserOf(r)]
    BY DEF IndInv, RejectionsAreReal, TokenRejected
  <2>3. run[r].seen <= moodle[UserOf(r)] /\ gate' \in SUBSET Gates
    BY <1>4 DEF IndInv, NotAhead, TypeOK
  <2> QED BY <1>4, <2>1, <2>2, <2>3, GoesOn DEF _refresh_submission_status, Goto
<1> QED BY <1>1, <1>2, <1>3, <1>4 DEF _refresh_submission_status

\* Recording the success after the probe.
LEMMA FinishKeeps == ASSUME IndInv, NEW r \in Runs, _finish_after_probe(r) PROVE IndInv'
<1>1. CASE _owned(r) /\ _mark_succeeded(r) /\ UNCHANGED <<stored, gate>>
  BY <1>1, SucceedsKeeps DEF _finish_after_probe
<1>2. CASE ~_owned(r) /\ Stop(r, run[r].row) /\ UNCHANGED <<job, stored, gate>>
  <2>1. run[r].row \in Rows
    BY RunFields DEF IndInv
  <2> QED BY <1>2, <2>1, Leaves DEF _finish_after_probe
<1>3. CASE Breaks(r)
  BY <1>3, FailsKeeps DEF _finish_after_probe, Breaks, Errors
<1> QED BY <1>1, <1>2, <1>3 DEF _finish_after_probe

\* Asking whether a window explains the failure.
LEMMA HandleKeeps == ASSUME IndInv, NEW r \in Runs, _handle_moodle_failure(r) PROVE IndInv'
<1> DEFINE pc == IF MoodleUnavailable THEN "postpone" ELSE "record"
<1>1. /\ run[r].nonce \in Nonces /\ run[r].seen \in Versions
      /\ run[r].error \in Errors \cup {"none"}
  BY RunFields DEF IndInv
<1>2. pc \in Pcs /\ pc \notin {"drop", "apply", "probe"}
  BY DEF Pcs
<1>3. run[r].error = "rejected" => run[r].nonce <= dead[UserOf(r)]
  BY DEF IndInv, RejectionsAreReal, TokenRejected
<1>4. run[r].seen <= moodle[UserOf(r)] /\ gate' \in SUBSET Gates
  BY DEF IndInv, NotAhead, TypeOK, _handle_moodle_failure
<1>5. Resume(r, pc, run[r].nonce, run[r].seen, run[r].error)
  BY DEF _handle_moodle_failure, Goto
<1> HIDE DEF pc
<1> QED BY <1>1, <1>2, <1>3, <1>4, <1>5, GoesOn DEF _handle_moodle_failure

\* A run that ends closes its row with one of the closed states.
LEMMA ClosedRow ==
    ASSUME TypeOK, NEW r \in Runs, Close(r, "failed")
    PROVE  \E row \in Rows : row # "running" /\ Stop(r, row)
<1> DEFINE row == IF run[r].row = "running" THEN "failed" ELSE run[r].row
<1>1. row \in Rows /\ row # "running"
  BY RunFields DEF Rows
<1>2. Stop(r, row)
  BY DEF Close
<1> QED BY <1>1, <1>2

\* Back to pending until the window ends.
LEMMA PostponeKeeps == ASSUME IndInv, NEW r \in Runs, Postpone(r) PROVE IndInv'
<1> DEFINE new == Job(run[r].job, "pending", NoRun, job[run[r].job].attempts, FALSE)
<1>1. CASE ~_owned(r) /\ Stop(r, run[r].row) /\ UNCHANGED job
  <2>1. run[r].row \in Rows
    BY RunFields DEF IndInv
  <2> QED BY <1>1, <2>1, Leaves DEF Postpone
<1>2. CASE _owned(r) /\ job' = [job EXCEPT ![run[r].job] = new] /\ Close(r, "failed")
  <2>1. /\ new \in JobRecord /\ new.status = "pending" /\ new.attempts < MaxAttempts
    BY <1>2, RunFields DEF IndInv, TypeOK, JobRecord, Job, AttemptsLeft, _owned
  <2>2. PICK row \in Rows : row # "running" /\ Stop(r, row)
    BY <1>2, ClosedRow DEF IndInv
  <2> HIDE DEF new
  <2> QED BY <1>2, <2>1, <2>2, GivesBack DEF Postpone
<1> QED BY <1>1, <1>2 DEF Postpone

\* A rejected token takes every job of its user.  The run that reports it holds
\* the only one running (OneRunningPerUser), so no other run's row is left open.
LEMMA InvalidateKeeps ==
    ASSUME IndInv, NEW r \in Runs, _owned(r), NEW row \in Rows, row # "running",
           Stop(r, row), mark_credentials_invalid(UserOf(r)),
           UNCHANGED <<signedIn, dead, moodle, stored, gate>>
    PROVE  IndInv'
<1> USE DEF IndInv
<1> DEFINE u == UserOf(r)
<1>1. /\ run' \in [Runs -> RunRecord]
      /\ run'[r] = Idle(run[r].job, row)
      /\ \A s \in Runs \ {r} : run'[s] = run[s]
  BY StopEffect
<1>2. /\ run[r].job \in Jobs /\ u \in Users /\ u = Owner[run[r].job]
      /\ moodle[u] \in Versions
  BY RunFields
<1>3. /\ job' \in [Jobs -> JobRecord]
      /\ \A j \in Jobs : Owner[j] = u => job'[j].status = "disabled"
      /\ \A j \in Jobs : Owner[j] # u => job'[j] = job[j]
  BY DEF mark_credentials_invalid, TypeOK, JobRecord, Job
<1>4. /\ account' \in [Users -> AccountRecord] /\ ~account'[u].valid
      /\ \A v \in Users \ {u} : account'[v] = account[v]
  BY <1>2 DEF mark_credentials_invalid, TypeOK, AccountRecord
<1>5. TypeOK'
  BY <1>1, <1>3, <1>4 DEF TypeOK
<1>6. AttemptsLeft'
  BY <1>3 DEF AttemptsLeft
<1>7. DisabledHeals'
  BY <1>3, <1>4, SyncJobsAssumption DEF DisabledHeals
<1>8. OneRunningPerUser'
  BY <1>3 DEF OneRunningPerUser, Running
<1>9. RunRowsFollowClaims'
  <2>1. ASSUME NEW s \in Runs, run'[s].row = "running" PROVE _owned(s)'
    <3>1. s # r /\ run'[s] = run[s] /\ _owned(s) /\ run[s].job \in Jobs
      BY <1>1, <2>1, RunFields DEF RunRowsFollowClaims, Idle
    <3>2. run[s].job # run[r].job
      BY <3>1 DEF _owned
    <3>3. Owner[run[s].job] # u
      BY <1>2, <3>1, <3>2 DEF OneRunningPerUser, Running, _owned
    <3> QED BY <3>1, <3>3, <1>3 DEF _owned
  <2>2. ASSUME NEW j \in Running' PROVE /\ job'[j].lock \in Runs
                                        /\ run'[job'[j].lock].job = j
                                        /\ run'[job'[j].lock].row = "running"
    <3>1. j \in Running /\ Owner[j] # u /\ job'[j] = job[j] /\ j # run[r].job
      BY <2>2, <1>2, <1>3 DEF Running
    <3>2. /\ job[j].lock \in Runs /\ run[job[j].lock].job = j
          /\ run[job[j].lock].row = "running"
      BY <3>1 DEF RunRowsFollowClaims
    <3> QED BY <3>1, <3>2, <1>1
  <2> QED BY <2>1, <2>2 DEF RunRowsFollowClaims
<1>10. RejectionsAreReal'
  BY <1>1 DEF RejectionsAreReal, TokenRejected, UserOf, Idle
<1>11. NotAhead'
  BY <1>1, <1>2 DEF NotAhead, UserOf, Idle, Versions
<1>12. HolderReadLast'
  <2>1. \A h \in Runs : _owned(h)' => _owned(h)
    BY <1>1, <1>3, RunFields DEF _owned, Idle
  <2> QED BY <1>1, <2>1 DEF HolderReadLast, Idle
<1> QED BY <1>5, <1>6, <1>7, <1>8, <1>9, <1>10, <1>11, <1>12

\* Recording a failure: the job retried, failed, or disabled with all the others.
LEMMA RecordKeeps == ASSUME IndInv, NEW r \in Runs, _record_failure(r) PROVE IndInv'
<1>1. CASE ~_owned(r) /\ Stop(r, run[r].row) /\ UNCHANGED <<job, account>>
  <2>1. run[r].row \in Rows
    BY RunFields DEF IndInv
  <2> QED BY <1>1, <2>1, Leaves DEF _record_failure
<1>2. CASE _owned(r) /\ Close(r, "failed")
  <2>1. PICK row \in Rows : row # "running" /\ Stop(r, row)
    BY <1>2, ClosedRow DEF IndInv
  <2>2. CASE mark_credentials_invalid(UserOf(r))
    BY <1>2, <2>1, <2>2, InvalidateKeeps DEF _record_failure
  <2>3. CASE Retry(run[r].job, run[r].error # "ours") /\ UNCHANGED account
    <3>1. /\ run[r].job \in Jobs /\ job[run[r].job] \in JobRecord
          /\ job[run[r].job].attempts < MaxAttempts
      BY <1>2, RunFields DEF IndInv, TypeOK, AttemptsLeft, _owned
    <3> DEFINE attempts == job[run[r].job].attempts + 1
    <3> DEFINE new == IF attempts < MaxAttempts
                      THEN Job(run[r].job, "pending", NoRun, attempts, FALSE)
                      ELSE IF run[r].error # "ours"
                      THEN Job(run[r].job, "pending", NoRun, 0, FALSE)
                      ELSE Job(run[r].job, "failed", NoRun, attempts, job[run[r].job].due)
    <3>2. attempts \in 0..MaxAttempts /\ 0 \in 0..MaxAttempts /\ 0 < MaxAttempts
      BY <3>1, SyncJobsAssumption DEF JobRecord
    <3>3. \A status \in {"pending", "failed"}, n \in 0..MaxAttempts, due \in BOOLEAN :
             /\ Job(run[r].job, status, NoRun, n, due) \in JobRecord
             /\ Job(run[r].job, status, NoRun, n, due).status = status
             /\ Job(run[r].job, status, NoRun, n, due).attempts = n
      BY <3>1 DEF Job, JobRecord
    <3>4. job[run[r].job].due \in BOOLEAN
      BY <3>1 DEF JobRecord
    <3>5. job' = [job EXCEPT ![run[r].job] = new]
      BY <2>3 DEF Retry
    <3> HIDE DEF attempts
    <3>6. /\ new \in JobRecord /\ new.status \in {"pending", "failed"}
          /\ new.status = "pending" => new.attempts < MaxAttempts
      <4>1. CASE attempts < MaxAttempts
        BY <4>1, <3>2, <3>3
      <4>2. CASE ~(attempts < MaxAttempts) /\ run[r].error # "ours"
        BY <4>2, <3>2, <3>3
      <4>3. CASE ~(attempts < MaxAttempts) /\ run[r].error = "ours"
        BY <4>3, <3>2, <3>3, <3>4
      <4> QED BY <4>1, <4>2, <4>3
    <3> HIDE DEF new
    <3> QED BY <1>2, <2>1, <2>3, <3>5, <3>6, GivesBack DEF _record_failure
  <2> QED BY <1>2, <2>2, <2>3 DEF _record_failure
<1> QED BY <1>1, <1>2 DEF _record_failure

\* A crash leaves job and row as they are.
LEMMA CrashKeeps == ASSUME IndInv, NEW r \in Runs, Crash(r) PROVE IndInv'
<1>1. run[r].row \in Rows
  BY RunFields DEF IndInv
<1> QED BY <1>1, Leaves DEF Crash

-----------------------------------------------------------------------------
(* Claims, and what takes them back.                                         *)

\* A claim: the user had no job running and the run no row, so the new pair is
\* the only one that changes.
LEMMA ClaimKeeps ==
    ASSUME IndInv, NEW j \in Jobs, NEW r \in Runs, _claim_due_job(j, r)
    PROVE  IndInv'
<1> USE DEF IndInv
<1> DEFINE new == Job(j, "running", r, job[j].attempts, job[j].due)
<1> DEFINE begun == [pc |-> "start", job |-> j, nonce |-> NoCredential, seen |-> 0,
                     error |-> "none", row |-> "running"]
<1>1. /\ new \in JobRecord /\ new.status = "running" /\ new.lock = r
      /\ new.attempts = job[j].attempts
  BY DEF TypeOK, JobRecord, Job
<1>2. /\ begun \in RunRecord /\ begun.job = j /\ begun.pc = "start" /\ begun.seen = 0
      /\ begun.error = "none" /\ begun.row = "running"
  BY SyncJobsAssumption DEF RunRecord, Pcs, Rows, Nonces, Versions, NoCredential, Errors
<1>3. /\ job' = [job EXCEPT ![j] = new] /\ run' = [run EXCEPT ![r] = begun]
      /\ UNCHANGED <<account, signedIn, dead, moodle, stored, gate>>
      /\ job[j].status = "pending" /\ ~Busy(Owner[j])
      /\ run[r].pc = "idle" /\ run[r].row # "running"
  BY DEF _claim_due_job
<1> HIDE DEF new, begun
<1>4. /\ job' \in [Jobs -> JobRecord] /\ job'[j] = new
      /\ \A i \in Jobs \ {j} : job'[i] = job[i]
  BY <1>1, <1>3 DEF TypeOK
<1>5. /\ run' \in [Runs -> RunRecord] /\ run'[r] = begun
      /\ \A s \in Runs \ {r} : run'[s] = run[s]
  BY <1>2, <1>3 DEF TypeOK
<1>6. TypeOK'
  BY <1>3, <1>4, <1>5 DEF TypeOK
<1>7. (AttemptsLeft /\ DisabledHeals)'
  BY <1>1, <1>3, <1>4 DEF AttemptsLeft, DisabledHeals
<1>8. OneRunningPerUser'
  BY <1>3, <1>4 DEF OneRunningPerUser, Running, Busy
<1>9. \A i \in Running : job[i].lock # r
  BY <1>3 DEF RunRowsFollowClaims
<1>10. \A s \in Runs \ {r} : _owned(s)' => _owned(s) /\ run[s].job # j
  BY <1>1, <1>4, <1>5, RunFields DEF _owned
<1>11. RunRowsFollowClaims'
  <2>1. ASSUME NEW s \in Runs, run'[s].row = "running" PROVE _owned(s)'
    <3>1. CASE s = r
      BY <3>1, <1>1, <1>2, <1>4, <1>5 DEF _owned
    <3>2. CASE s # r
      <4>1. run'[s] = run[s] /\ _owned(s) /\ run[s].job \in Jobs
        BY <1>5, <2>1, <3>2, RunFields DEF RunRowsFollowClaims
      <4>2. run[s].job # j
        BY <1>3, <4>1 DEF _owned
      <4> QED BY <4>1, <4>2, <1>4 DEF _owned
    <3> QED BY <3>1, <3>2
  <2>2. ASSUME NEW i \in Running' PROVE /\ job'[i].lock \in Runs
                                        /\ run'[job'[i].lock].job = i
                                        /\ run'[job'[i].lock].row = "running"
    <3>1. CASE i = j
      BY <3>1, <1>1, <1>2, <1>4, <1>5
    <3>2. CASE i # j
      <4>1. i \in Running /\ job'[i] = job[i]
        BY <2>2, <3>2, <1>4 DEF Running
      <4> QED BY <4>1, <1>5, <1>9 DEF RunRowsFollowClaims
    <3> QED BY <3>1, <3>2
  <2> QED BY <2>1, <2>2 DEF RunRowsFollowClaims
<1>12. RejectionsAreReal'
  BY <1>2, <1>3, <1>5 DEF RejectionsAreReal, TokenRejected, UserOf
<1>13. NotAhead'
  <2>1. moodle[Owner[j]] \in Versions
    BY SyncJobsAssumption DEF TypeOK
  <2> QED BY <1>2, <1>3, <1>5, <2>1 DEF NotAhead, UserOf, Versions
<1>14. HolderReadLast'
  BY <1>2, <1>3, <1>5, <1>10 DEF HolderReadLast
<1> QED BY <1>6, <1>7, <1>8, <1>11, <1>12, <1>13, <1>14

\* Recovery: the job goes back, or is out of attempts, and the row of the run
\* that held it is closed.  The run itself may be alive, and has not noticed.
LEMMA RecoverKeeps ==
    ASSUME IndInv, NEW j \in Jobs, _recover_stale_jobs(j)
    PROVE  IndInv'
<1> USE DEF IndInv
<1> DEFINE attempts == job[j].attempts + 1
<1> DEFINE new == Job(j, IF attempts >= MaxAttempts THEN "failed" ELSE "pending",
                      NoRun, attempts, job[j].due)
<1>1. job[j] \in JobRecord /\ job[j].attempts < MaxAttempts
  BY DEF _recover_stale_jobs, TypeOK, AttemptsLeft
<1>2. attempts \in 0..MaxAttempts
  BY <1>1, SyncJobsAssumption DEF JobRecord
<1>3. /\ new \in JobRecord /\ new.status \in {"pending", "failed"}
      /\ new.status = "pending" => new.attempts < MaxAttempts
  <2> HIDE DEF attempts
  <2>1. CASE attempts >= MaxAttempts
    BY <1>1, <1>2, <2>1 DEF JobRecord, Job
  <2>2. CASE ~(attempts >= MaxAttempts)
    BY <1>1, <1>2, <2>2, SyncJobsAssumption DEF JobRecord, Job
  <2> QED BY <2>1, <2>2
<1>4. /\ job' = [job EXCEPT ![j] = new]
      /\ UNCHANGED <<account, signedIn, dead, moodle, stored, gate>>
      /\ job[j].status = "running"
  BY DEF _recover_stale_jobs
<1> HIDE DEF new, attempts
<1>5. /\ job' \in [Jobs -> JobRecord] /\ job'[j] = new
      /\ \A i \in Jobs \ {j} : job'[i] = job[i]
  BY <1>3, <1>4 DEF TypeOK
<1>6. /\ run' \in [Runs -> RunRecord]
      /\ \A s \in Runs : /\ run'[s].pc = run[s].pc /\ run'[s].job = run[s].job
                         /\ run'[s].nonce = run[s].nonce /\ run'[s].seen = run[s].seen
                         /\ run'[s].error = run[s].error
                         /\ run'[s].row = IF run[s].job = j /\ run[s].row = "running"
                                          THEN "failed" ELSE run[s].row
  BY DEF _recover_stale_jobs, TypeOK, RunRecord, Rows
<1>7. TypeOK'
  BY <1>4, <1>5, <1>6 DEF TypeOK
<1>8. (AttemptsLeft /\ DisabledHeals)'
  BY <1>3, <1>4, <1>5 DEF AttemptsLeft, DisabledHeals
<1>9. OneRunningPerUser'
  BY <1>3, <1>5 DEF OneRunningPerUser, Running
<1>10. \A s \in Runs : _owned(s)' <=> _owned(s) /\ run[s].job # j
  BY <1>3, <1>5, <1>6, RunFields DEF _owned
<1>11. RunRowsFollowClaims'
  <2>1. ASSUME NEW s \in Runs, run'[s].row = "running" PROVE _owned(s)'
    BY <2>1, <1>6, <1>10 DEF RunRowsFollowClaims
  <2>2. ASSUME NEW i \in Running' PROVE /\ job'[i].lock \in Runs
                                        /\ run'[job'[i].lock].job = i
                                        /\ run'[job'[i].lock].row = "running"
    <3>1. i \in Running /\ i # j /\ job'[i] = job[i]
      BY <2>2, <1>3, <1>5 DEF Running
    <3> QED BY <3>1, <1>6 DEF RunRowsFollowClaims
  <2> QED BY <2>1, <2>2 DEF RunRowsFollowClaims
<1>12. RejectionsAreReal'
  BY <1>4, <1>6 DEF RejectionsAreReal, TokenRejected, UserOf
<1>13. NotAhead'
  BY <1>4, <1>6 DEF NotAhead, UserOf
<1>14. HolderReadLast'
  BY <1>4, <1>6, <1>10 DEF HolderReadLast
<1> QED BY <1>7, <1>8, <1>9, <1>11, <1>12, <1>13, <1>14

-----------------------------------------------------------------------------
(* Credentials, requests, the portal and the clock.                          *)

\* Reviving what a rejected token had disabled.
LEMMA ReviveEffect ==
    ASSUME IndInv, NEW u \in Users, ReviveDisabled(u)
    PROVE  /\ job' \in [Jobs -> JobRecord]
           /\ \A j \in Jobs :
                \/ job'[j] = job[j] /\ (Owner[j] = u => job[j].status # "disabled")
                \/ /\ job[j].status # "running"
                   /\ job'[j].status = "pending"
                   /\ job'[j].attempts < MaxAttempts
  BY SyncJobsAssumption DEF ReviveDisabled, Revived, Job, JobRecord, IndInv, TypeOK

\* A new token makes the account valid.
LEMMA StoreEffect ==
    ASSUME TypeOK, NEW u \in Users, StoreToken(u)
    PROVE  /\ account' \in [Users -> AccountRecord]
           /\ \A v \in Users \ {u} : account'[v] = account[v]
<1> DEFINE new == [valid |-> TRUE, nonce |-> account[u].issued + 1,
                   issued |-> account[u].issued + 1]
<1>1. account[u].issued \in Nonces /\ account[u].issued < MaxNonce
  BY DEF TypeOK, AccountRecord, StoreToken
<1>2. account[u].issued + 1 \in Nonces
  BY <1>1, SyncJobsAssumption DEF Nonces
<1>3. new \in AccountRecord
  BY <1>2 DEF AccountRecord
<1>4. account' = [account EXCEPT ![u] = new]
  BY DEF StoreToken
<1> HIDE DEF new
<1> QED BY <1>3, <1>4 DEF TypeOK

\* Opening the app, signing in: revived, or nothing was disabled.
LEMMA CredentialsKeep ==
    ASSUME IndInv, NEW u \in Users, StoreToken(u),
           ReviveDisabled(u) \/ (account[u].valid /\ UNCHANGED job),
           signedIn' \in [Users -> BOOLEAN],
           UNCHANGED <<run, dead, moodle, stored, gate>>
    PROVE  IndInv'
<1>1. /\ account' \in [Users -> AccountRecord]
      /\ \A v \in Users \ {u} : account'[v] = account[v]
  BY StoreEffect DEF IndInv
<1>2. CASE ReviveDisabled(u)
  <2>1. \A j \in Jobs : job'[j].status = "disabled" => ~account'[Owner[j]].valid
    BY <1>1, <1>2, ReviveEffect, SyncJobsAssumption DEF IndInv, DisabledHeals
  <2>2. \A j \in Jobs : \/ /\ job'[j].status = job[j].status
                           /\ job'[j].lock = job[j].lock
                           /\ job'[j].attempts = job[j].attempts
                        \/ /\ job[j].status # "running"
                           /\ job'[j].status = "pending"
                           /\ job'[j].attempts < MaxAttempts
    BY <1>2, ReviveEffect
  <2>3. job' \in [Jobs -> JobRecord]
    BY <1>2, ReviveEffect
  <2> QED BY <1>1, <2>1, <2>2, <2>3, RestingJobs
<1>3. CASE account[u].valid /\ UNCHANGED job
  <2>1. \A j \in Jobs : job'[j].status = "disabled" => ~account'[Owner[j]].valid
    BY <1>1, <1>3, SyncJobsAssumption DEF IndInv, DisabledHeals
  <2>2. job' \in [Jobs -> JobRecord]
    BY <1>3 DEF IndInv, TypeOK
  <2> QED BY <1>1, <1>3, <2>1, <2>2, RestingJobs
<1> QED BY <1>2, <1>3

\* The last device signs out.
LEMMA SignOutKeeps ==
    ASSUME IndInv, NEW u \in Users, forget_credentials_once_signed_out(u)
    PROVE  IndInv'
<1> USE DEF IndInv
<1>1. /\ account' \in [Users -> AccountRecord]
      /\ \A v \in Users : account'[v].valid = account[v].valid
  BY SyncJobsAssumption DEF forget_credentials_once_signed_out, TypeOK, AccountRecord,
     NoCredential, Nonces
<1>2. /\ signedIn' \in [Users -> BOOLEAN] /\ job' = job /\ job' \in [Jobs -> JobRecord]
      /\ UNCHANGED <<run, dead, moodle, stored, gate>>
  BY DEF forget_credentials_once_signed_out, TypeOK
<1>3. \A j \in Jobs : job'[j].status = "disabled" => ~account'[Owner[j]].valid
  BY <1>1, <1>2, SyncJobsAssumption DEF DisabledHeals
<1> QED BY <1>1, <1>2, <1>3, RestingJobs

\* One job is written: its times, or a pending row over one that is not running.
LEMMA OneRowKeeps ==
    ASSUME IndInv, NEW j \in Jobs, NEW new \in JobRecord,
           job' = [job EXCEPT ![j] = new],
           \/ /\ new.status = job[j].status /\ new.lock = job[j].lock
              /\ new.attempts = job[j].attempts
           \/ /\ job[j].status # "running" /\ new.status = "pending"
              /\ new.attempts < MaxAttempts,
           UNCHANGED <<run, account, signedIn, dead, moodle, stored, gate>>
    PROVE  IndInv'
<1> USE DEF IndInv
<1>1. /\ job' \in [Jobs -> JobRecord] /\ job'[j] = new
      /\ \A i \in Jobs \ {j} : job'[i] = job[i]
  BY DEF TypeOK
<1>2. \A i \in Jobs : job'[i].status = "disabled" => ~account'[Owner[i]].valid
  BY <1>1 DEF DisabledHeals
<1>3. account' \in [Users -> AccountRecord] /\ signedIn' \in [Users -> BOOLEAN]
  BY DEF TypeOK
<1>4. \A i \in Jobs : \/ /\ job'[i].status = job[i].status
                         /\ job'[i].lock = job[i].lock
                         /\ job'[i].attempts = job[i].attempts
                      \/ /\ job[i].status # "running"
                         /\ job'[i].status = "pending"
                         /\ job'[i].attempts < MaxAttempts
  BY <1>1
<1> QED BY <1>1, <1>2, <1>3, <1>4, RestingJobs

\* Run-now, an upload's push-back, and the clock.
LEMMA RequestsKeep ==
    ASSUME IndInv, NEW j \in Jobs,
           run_now(j) \/ _push_back_sync_jobs(j) \/ ComeDue(j) \/ IntervalPasses(j)
    PROVE  IndInv'
<1> USE DEF IndInv
<1>1. /\ job[j] \in JobRecord /\ 0 < MaxAttempts
      /\ job[j].status = "pending" => job[j].attempts < MaxAttempts
  BY SyncJobsAssumption DEF TypeOK, AttemptsLeft
<1>2. CASE run_now(j)
  <2> DEFINE n == IF job[j].status = "failed" THEN 0 ELSE job[j].attempts
  <2> DEFINE new == Job(j, "pending", job[j].lock, n, TRUE)
  <2>1. n \in 0..MaxAttempts /\ n < MaxAttempts
    BY <1>1, <1>2, SyncJobsAssumption DEF run_now, JobRecord
  <2>2. job' = [job EXCEPT ![j] = new]
    BY <1>2 DEF run_now
  <2> HIDE DEF n
  <2>3. new \in JobRecord /\ new.status = "pending" /\ new.attempts < MaxAttempts
    BY <1>1, <2>1 DEF JobRecord, Job
  <2> HIDE DEF new
  <2> QED BY <1>2, <2>2, <2>3, OneRowKeeps DEF run_now
<1>3. CASE _push_back_sync_jobs(j)
  <2> DEFINE new == Job(j, "pending", job[j].lock, job[j].attempts, FALSE)
  <2>1. job' = [job EXCEPT ![j] = new] /\ job[j].status = "pending"
    BY <1>3 DEF _push_back_sync_jobs
  <2>2. new \in JobRecord /\ new.status = "pending" /\ new.attempts < MaxAttempts
    BY <1>1, <2>1 DEF JobRecord, Job
  <2> HIDE DEF new
  <2> QED BY <1>3, <2>1, <2>2, OneRowKeeps DEF _push_back_sync_jobs
<1>4. CASE ComeDue(j)
  <2> DEFINE new == Job(j, "pending", job[j].lock, job[j].attempts, TRUE)
  <2>1. job' = [job EXCEPT ![j] = new] /\ job[j].status = "pending"
    BY <1>4 DEF ComeDue
  <2>2. new \in JobRecord /\ new.status = "pending" /\ new.attempts < MaxAttempts
    BY <1>1, <2>1 DEF JobRecord, Job
  <2> HIDE DEF new
  <2> QED BY <1>4, <2>1, <2>2, OneRowKeeps DEF ComeDue
<1>5. CASE IntervalPasses(j)
  <2> DEFINE new == [status |-> job[j].status, lock |-> job[j].lock,
                     attempts |-> job[j].attempts, due |-> job[j].due, fresh |-> FALSE]
  <2>1. job' = [job EXCEPT ![j] = new]
    BY <1>5 DEF IntervalPasses
  <2>2. /\ new \in JobRecord /\ new.status = job[j].status /\ new.lock = job[j].lock
        /\ new.attempts = job[j].attempts
    BY <1>1 DEF JobRecord
  <2> HIDE DEF new
  <2> QED BY <1>5, <2>1, <2>2, OneRowKeeps DEF IntervalPasses
<1> QED BY <1>2, <1>3, <1>4, <1>5

\* The portal's retry-all buttons.
LEMMA RetryAllKeeps ==
    ASSUME IndInv, NEW Spared \in SUBSET Jobs, retry_all(Spared)
    PROVE  IndInv'
<1> USE DEF IndInv
<1>1. \A j \in Jobs : /\ Revived(j) \in JobRecord /\ Revived(j).status = "pending"
                      /\ Revived(j).attempts < MaxAttempts
  BY SyncJobsAssumption DEF Revived, Job, JobRecord, TypeOK
<1>2. \A j \in Jobs : job'[j] = IF job[j].status = "running" \/ j \in Spared
                                THEN job[j] ELSE Revived(j)
  BY DEF retry_all
<1>3. job' \in [Jobs -> JobRecord]
  BY <1>1 DEF retry_all, TypeOK
<1>4. \A j \in Jobs : job'[j].status = "disabled" => ~account'[Owner[j]].valid
  BY <1>1, <1>2 DEF retry_all, DisabledHeals
<1>5. \A j \in Jobs : \/ /\ job'[j].status = job[j].status
                         /\ job'[j].lock = job[j].lock
                         /\ job'[j].attempts = job[j].attempts
                      \/ /\ job[j].status # "running"
                         /\ job'[j].status = "pending"
                         /\ job'[j].attempts < MaxAttempts
  BY <1>1, <1>2
<1>6. account' \in [Users -> AccountRecord] /\ signedIn' \in [Users -> BOOLEAN]
  BY DEF TypeOK, retry_all
<1> QED BY <1>3, <1>4, <1>5, <1>6, RestingJobs DEF retry_all

\* Moodle revokes tokens and its content changes; gates shut and open.
LEMMA WorldKeeps ==
    ASSUME IndInv, UNCHANGED <<job, run, account, signedIn, stored>>,
           dead' \in [Users -> Nonces], \A u \in Users : dead[u] <= dead'[u],
           moodle' \in [Users -> Versions], \A u \in Users : moodle[u] <= moodle'[u],
           gate' \in SUBSET Gates
    PROVE  IndInv'
<1> USE DEF IndInv
<1>1. TypeOK'
  BY DEF TypeOK
<1>2. (AttemptsLeft /\ RunRowsFollowClaims /\ OneRunningPerUser /\ DisabledHeals)'
  BY DEF AttemptsLeft, RunRowsFollowClaims, OneRunningPerUser, DisabledHeals, Running, _owned
<1>3. \A r \in Runs : /\ UserOf(r) \in Users /\ UserOf(r)' = UserOf(r)
                      /\ run[r].nonce \in Nat /\ run[r].seen \in Nat
                      /\ dead[UserOf(r)] \in Nat /\ dead'[UserOf(r)] \in Nat
                      /\ moodle[UserOf(r)] \in Nat /\ moodle'[UserOf(r)] \in Nat
  BY RunFields DEF UserOf, Nonces, Versions
<1>4. RejectionsAreReal'
  BY <1>3 DEF RejectionsAreReal, TokenRejected
<1>5. \A j \in Jobs : /\ Owner[j] \in Users /\ stored[j] \in Nat
                      /\ moodle[Owner[j]] \in Nat /\ moodle'[Owner[j]] \in Nat
  BY SyncJobsAssumption DEF TypeOK, Versions
<1>6. NotAhead'
  BY <1>3, <1>5 DEF NotAhead
<1>7. HolderReadLast'
  BY DEF HolderReadLast, _owned
<1> QED BY <1>1, <1>2, <1>4, <1>6, <1>7

\* The instances of WorldKeeps.
LEMMA OutsideKeeps ==
    ASSUME IndInv, \/ \E u \in Users : MoodleRevokes(u) \/ MoodleChanges(u)
                   \/ \E g \in Gates : GateShuts(g) \/ GateOpens(g)
    PROVE  IndInv'
<1> USE DEF IndInv
<1>1. /\ \A v \in Users : dead[v] \in Nat /\ moodle[v] \in Nat
      /\ gate \in SUBSET Gates
  BY DEF TypeOK, Nonces, Versions
<1>2. ASSUME NEW u \in Users, MoodleRevokes(u) PROVE IndInv'
  <2>1. PICK n \in (dead[u] + 1)..account[u].issued : dead' = [dead EXCEPT ![u] = n]
    BY <1>2 DEF MoodleRevokes
  <2>2. account[u].issued \in Nonces
    BY DEF TypeOK, AccountRecord
  <2>3. n \in Nonces /\ dead[u] <= n
    BY <1>1, <2>1, <2>2, SyncJobsAssumption DEF Nonces
  <2>4. dead' \in [Users -> Nonces] /\ \A v \in Users : dead[v] <= dead'[v]
    BY <1>1, <2>1, <2>3 DEF TypeOK
  <2>5. moodle' \in [Users -> Versions] /\ \A v \in Users : moodle[v] <= moodle'[v]
    BY <1>1, <1>2 DEF TypeOK, MoodleRevokes
  <2> QED BY <1>1, <1>2, <2>4, <2>5, WorldKeeps DEF MoodleRevokes
<1>3. ASSUME NEW u \in Users, MoodleChanges(u) PROVE IndInv'
  <2>1. moodle[u] + 1 \in Versions /\ moodle[u] <= moodle[u] + 1
    BY <1>1, <1>3, SyncJobsAssumption DEF MoodleChanges, Versions
  <2>2. moodle' \in [Users -> Versions] /\ \A v \in Users : moodle[v] <= moodle'[v]
    BY <1>1, <1>3, <2>1 DEF TypeOK, MoodleChanges
  <2>3. dead' \in [Users -> Nonces] /\ \A v \in Users : dead[v] <= dead'[v]
    BY <1>1, <1>3 DEF TypeOK, MoodleChanges
  <2> QED BY <1>1, <1>3, <2>2, <2>3, WorldKeeps DEF MoodleChanges
<1>4. ASSUME NEW g \in Gates, GateShuts(g) \/ GateOpens(g) PROVE IndInv'
  <2>1. gate' \in SUBSET Gates
    BY <1>1, <1>4 DEF GateShuts, GateOpens
  <2>2. UNCHANGED <<job, run, account, signedIn, dead, moodle, stored>>
    BY <1>4 DEF GateShuts, GateOpens
  <2>3. /\ dead' \in [Users -> Nonces] /\ \A v \in Users : dead[v] <= dead'[v]
        /\ moodle' \in [Users -> Versions] /\ \A v \in Users : moodle[v] <= moodle'[v]
    BY <1>1, <2>2 DEF TypeOK
  <2> QED BY <2>1, <2>2, <2>3, WorldKeeps
<1> QED BY <1>2, <1>3, <1>4

-----------------------------------------------------------------------------
(* The invariant, and the theorems.                                          *)

\* It holds when every user has just signed in.
LEMMA InitIndInv == ASSUME Init PROVE IndInv
<1>1. (CHOOSE j \in Jobs : TRUE) \in Jobs
  BY SyncJobsAssumption
<1>2. TypeOK
  BY <1>1, SyncJobsAssumption DEF Init, TypeOK, JobRecord, RunRecord, AccountRecord, Idle,
     Pcs, Rows, Errors, Nonces, Versions, NoCredential
<1>3. \A r \in Runs : run[r].pc = "idle" /\ run[r].seen = 0 /\ run[r].row = "none"
                      /\ run[r].error = "none"
  BY DEF Init, Idle
<1>4. \A j \in Jobs : job[j].status = "pending" /\ job[j].attempts = 0 /\ stored[j] = 0
                      /\ moodle[Owner[j]] = 0
  BY SyncJobsAssumption DEF Init
<1>5. AttemptsLeft /\ RunRowsFollowClaims /\ OneRunningPerUser /\ DisabledHeals
  BY <1>3, <1>4, SyncJobsAssumption
     DEF AttemptsLeft, RunRowsFollowClaims, OneRunningPerUser, DisabledHeals, Running
<1>6. NotAhead
  BY <1>2, <1>3, <1>4, RunFields DEF NotAhead, UserOf
<1>7. RejectionsAreReal /\ HolderReadLast
  BY <1>3 DEF RejectionsAreReal, HolderReadLast
<1> QED BY <1>2, <1>5, <1>6, <1>7 DEF IndInv

\* Every step keeps it.
LEMMA NextIndInv == ASSUME IndInv, [Next]_vars PROVE IndInv'
<1>1. ASSUME NEW r \in Runs, RunStep(r) PROVE IndInv'
  BY <1>1, StartKeeps, FetchKeeps, DropKeeps, ApplyKeeps, ProbeKeeps, FinishKeeps,
     HandleKeeps, PostponeKeeps, RecordKeeps DEF RunStep
<1>2. ASSUME NEW u \in Users, update_credentials(u) PROVE IndInv'
  BY <1>2, CredentialsKeep DEF update_credentials, IndInv, TypeOK
<1>3. ASSUME NEW u \in Users, login(u) PROVE IndInv'
  BY <1>3, CredentialsKeep DEF login, IndInv, TypeOK
<1>4. CASE UNCHANGED vars
  BY <1>4 DEF vars, IndInv, TypeOK, AttemptsLeft, RunRowsFollowClaims, OneRunningPerUser,
     DisabledHeals, RejectionsAreReal, NotAhead, HolderReadLast, Running, _owned,
     TokenRejected, UserOf
<1> QED BY <1>1, <1>2, <1>3, <1>4, ClaimKeeps, CrashKeeps, RecoverKeeps, SignOutKeeps,
           RequestsKeep, RetryAllKeeps, OutsideKeeps DEF Next

\* The inductive invariant holds throughout: claims and rows agree, attempts
\* are left to what may run, rejections are real, and the holder of a job has
\* read it last.
THEOREM Invariance == Spec => []IndInv
<1>1. Init => IndInv
  BY InitIndInv
<1>2. IndInv /\ [Next]_vars => IndInv'
  BY NextIndInv
<1> QED BY <1>1, <1>2, PTL DEF Spec

\* The tables' columns and the coroutines' memory keep their types; attempts
\* never exceed max_attempts.
THEOREM TypeCorrect == Spec => []TypeOK
<1>1. IndInv => TypeOK
  BY DEF IndInv
<1> QED BY <1>1, Invariance, PTL

\* A sync_runs row says running exactly while its run holds the job, however
\* recovery, crashes, rejected tokens and late runs interleave.
THEOREM RowsSound == Spec => []RunRowsFollowClaims
<1>1. IndInv => RunRowsFollowClaims
  BY DEF IndInv
<1> QED BY <1>1, Invariance, PTL

\* No user has two jobs running (the claim's in-flight count under the advisory
\* lock is enough, whatever else moves jobs without it).
THEOREM OneAtATime == Spec => []OneRunningPerUser
<1>1. IndInv => OneRunningPerUser
  BY DEF IndInv
<1> QED BY <1>1, Invariance, PTL

\* A disabled job's account is invalid, so the next token the app stores revives
\* it: update_credentials may skip the revival for a valid account.
THEOREM Heals == Spec => []DisabledHeals
<1>1. IndInv => DisabledHeals
  BY DEF IndInv
<1> QED BY <1>1, Invariance, PTL

\* One transaction of a run makes an account invalid only for the token the run
\* read, which Moodle rejected, or for want of one.
LEMMA TokenDecidesStep ==
    ASSUME IndInv, [Next]_vars, NEW u \in Users, account[u].valid, ~account'[u].valid
    PROVE  account[u].nonce <= dead[u] \/ ReadNone(u)
<1>1. ASSUME NEW v \in Users, StoreToken(v) PROVE FALSE
  BY <1>1 DEF StoreToken, IndInv, TypeOK
<1>2. ASSUME NEW v \in Users, forget_credentials_once_signed_out(v) PROVE FALSE
  BY <1>2 DEF forget_credentials_once_signed_out, IndInv, TypeOK
<1>3. account' # account
  OBVIOUS
<1>4. PICK r \in Runs : _record_failure(r)
  BY <1>1, <1>2, <1>3 DEF Next, vars, RunStep, _claim_due_job, _start_run, Fetch,
     _drop_courses_left_out, Apply, _refresh_submission_status, _finish_after_probe,
     _handle_moodle_failure, Postpone, Crash, _recover_stale_jobs, update_credentials,
     login, run_now, _push_back_sync_jobs, retry_all, ComeDue, IntervalPasses,
     MoodleRevokes, MoodleChanges, GateShuts, GateOpens
<1>5. /\ run[r].pc = "record" /\ run[r].error = "rejected"
      /\ _rejected_token_still_stored(r) /\ mark_credentials_invalid(UserOf(r))
  BY <1>3, <1>4 DEF _record_failure
<1>6. UserOf(r) = u
  BY <1>5 DEF mark_credentials_invalid, IndInv, TypeOK
<1>7. run[r].nonce <= dead[u]
  BY <1>5, <1>6 DEF IndInv, RejectionsAreReal, TokenRejected
<1> QED BY <1>5, <1>6, <1>7 DEF _rejected_token_still_stored, ReadNone

\* A credential is marked invalid only for a token that Moodle rejects, or by a
\* run that found none: a token stored after the rejected one was read survives.
THEOREM TokenDecides == Spec => ReadTokenDecides
<1>1. IndInv /\ [Next]_vars =>
        [\A u \in Users : account[u].valid /\ ~account'[u].valid
           => account[u].nonce <= dead[u] \/ ReadNone(u)]_vars
  BY TokenDecidesStep
<1> QED BY <1>1, Invariance, PTL DEF Spec, ReadTokenDecides

\* A run that goes back on a listing is probing, and has lost its job.
LEMMA NoGoingBackStep ==
    ASSUME IndInv, [Next]_vars, NEW j \in Jobs, stored'[j] < stored[j]
    PROVE  \E r \in Runs : run[r].pc = "probe" /\ run[r].job = j /\ ~_owned(r)
<1>1. stored[j] \in Versions /\ stored' # stored
  BY DEF IndInv, TypeOK, Versions
<1>2. PICK r \in Runs : \/ _drop_courses_left_out(r) \/ Apply(r)
                        \/ _refresh_submission_status(r)
  BY <1>1 DEF Next, vars, RunStep, _claim_due_job, _start_run, Reclaimed, Breaks, Fetch,
     _finish_after_probe, _handle_moodle_failure, Postpone, _record_failure, Crash,
     _recover_stale_jobs, update_credentials, login, forget_credentials_once_signed_out,
     run_now, _push_back_sync_jobs, retry_all, ComeDue, IntervalPasses, MoodleRevokes,
     MoodleChanges, GateShuts, GateOpens
<1>3. /\ stored' = [stored EXCEPT ![run[r].job] = run[r].seen]
      /\ run[r].pc \in {"drop", "apply", "probe"}
      /\ run[r].pc # "probe" => _owned(r)
  BY <1>1, <1>2 DEF _drop_courses_left_out, Apply, _refresh_submission_status, Reclaimed,
     Breaks
<1>4. run[r].job = j /\ run[r].seen < stored[j] /\ run[r].seen \in Versions
  BY <1>1, <1>3, RunFields DEF IndInv, TypeOK, Versions
<1>5. ~_owned(r)
  BY <1>1, <1>3, <1>4 DEF IndInv, HolderReadLast, Versions
<1> QED BY <1>3, <1>4, <1>5

\* The ownership checks keep late runs from storing an older listing over a
\* newer one; the submission probe, which has none, is the only exception.
THEOREM NoGoingBack == Spec => ListingNeverGoesBack
<1>1. IndInv /\ [Next]_vars =>
        [\A j \in Jobs : stored'[j] < stored[j]
           => \E r \in Runs : run[r].pc = "probe" /\ run[r].job = j /\ ~_owned(r)]_vars
  BY NoGoingBackStep
<1> QED BY <1>1, Invariance, PTL DEF Spec, ListingNeverGoesBack
=============================================================================
