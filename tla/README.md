# TLA+ specifications of tigerduck-backend

This directory models the parts of the TigerDuck backend in which several
requests, workers, devices or transactions interleave. Every module is
translated from the Python under `src/server` and `src/portal`; definitions
keep the names of the functions they model, and `PROJECT.json` maps each one to
its lines.

## The system and its parts

| part | state it keeps | operations | hard because |
|---|---|---|---|
| Change feed (`server/sync/changelog.py`, `retention.py`, `routes/sync/snapshot.py`) | `user_sync_state` (current and compacted revision), `user_change_log` | append under the user's row lock, paged read, full snapshot, nightly purge | one global sequence, READ COMMITTED readers, a purge between two statements |
| Refresh-token sessions (`server/auth`) | `auth_sessions`: live, revoked, linked in rings | login, refresh, re-rotation, first use, logout, pruning | lost and late replies, row locks taken one by one, rings that grow and are cut |
| Device registry (`routes/user_devices.py`, `auth/retirement.py`, `auth/service.py`, `portal/app/routes/deregister.py`) | `user_devices`, push tokens, the stored Moodle token, `device_registrations` | sign-in taking a phone over, register, announce, delete, preferences, retirement | removals against requests in flight |
| Moodle sync jobs (`server/syncjobs`) | `sync_jobs`, `sync_runs`, the account and its encrypted token | claim, run, probe, recover, fail, run-now, push-back, retry-all | no transaction while Moodle answers; claims are lost and taken back; tokens change under a run |
| Assignment and course application (`syncjobs/assignments.py`, `courses.py`, `submissions.py`) | the user's academic rows | apply a listing, take a placeholder over, apply probe results | late runs, rows that come and go under their marks |
| Push pipeline (`server/push/pipeline.py`, `presend.py`) | `push_jobs`, `push_deliveries` | claim, check, materialise, deliver, recover | a send cannot be rolled back |
| Push producers (`push/reminders.py`, `course_reminders.py`, `session_reauth.py`, ...) | rows in `push_jobs` | enqueue with a dedupe key, cancel on submission | claims in flight |
| TigerSync uploads and merge (`sync/merge.py`, `upload.py`, `membership.py`, `routes/sync`, `routes/overrides.py`, `settings_docs.py`, `bulletins_v3.py`) | courses, tombstones, resets, assignments, overrides, settings documents, bulletin rules and flags | merge what several devices upload and edit with the server's own listing | three generations of apps, clocks, tombstones, replays, racing creates |
| Bulletins (`server/bulletins`, `portal/app/routes/custom_push.py`, `announcement.py`) | `bulletins`, `bulletin_dispatches`, match runs and matches | scrape, claim, classify, drop reposts, two fan-outs, hide, prune | work between transactions, two workers, sends that cannot be rolled back |
| TLS pins (`server/tls_pins`) | `tls_pin_sets`, signed documents | hourly watch, operator edits and approvals, re-signing | stale pages, a missing key, serials after a restore |
| Academic calendar (`server/academic_calendar`, `portal/app/routes/course_changes.py`, `academic_calendar.py`, `routes/holiday_overrides.py`) | terms, holidays, opt-ins, course changes | operators edit, students opt in, class pushes read | two operators on one course, scans and checks that read while others edit |
| Catalogue, links | documents | periodic refresh | one writer each |
| Scheduler, process, portal, monitoring, migrations | configuration | ticks with `max_instances=1`, operator actions | not state machines of their own |

The parts meet in three places. Writers of every kind append to the change
feed inside their own transaction, so they all wait for the same per-user row
lock. Sign-in, `PATCH /v3/auth/credentials`, sign-out and the sync executor all
write the account, its credential and the jobs; sign-in and sign-out also move devices,
their push tokens and sessions, and link a phone's anonymous registration, which
decides which of the two bulletin tracks serves it. And what the executor, an
upload or a bulletin changes makes push jobs.

What has to hold, per part: a client following the feed misses nothing; one
refresh lineage never forks and a late duplicate harms nobody; a removed device
keeps no session but one a refresh took from the removal, and does not come back, and nobody's Moodle token outlives
their devices; a sync job is run by one run at a time, is never stuck, and is
only stopped for a token that Moodle does reject; a push is sent once or its
duplicate is explained; the last choice by stamp wins whatever order edits and
rosters arrive in, and what the server accepted it keeps; a bulletin rings each
device once, on one track unless its account changed or it is signed in without a
link, and a bad one does not hold up the rest; an app with
a pin document accepts the next, and no document carries a pin nobody answers
for; no class has two changes of a kind; a reminder follows the class it announces,
and a start held back for a moved class does not oversleep.

## Modules

| module | models | state |
|---|---|---|
| `Changelog` | the change feed | `seq`, `state`, `log`, `aged`, `holder` (row locks), `txn`, `purge`, `client`, and the histories `published`, `covered`, `overtaken` |
| `ChangelogProofs` | its theorems | |
| `AuthSessions` | the refresh-token lineage of one device | `sess`, `req` (requests in flight), `remover` (a `delete_device`), `active`, `client` (the app), histories `cut`, `removed` (what the last removal's passes saw) |
| `AuthSessionsProofs` | its theorems | |
| `SyncJobs` | the Moodle sync and everything that moves a job or a credential | `job`, `run`, `account`, `signedIn`, `dead` (tokens Moodle rejects), `moodle` and `stored` (versions of a listing), `gate` |
| `SyncJobsProofs` | its theorems | |
| `PushPipeline` | the push pipeline and everything that files, moves, cancels or ends a push job | `job` (`push_jobs`), `dlv` (`push_deliveries`), `token`, `deleted` devices, `row` (what the user's rows say of the assignment), `turnedIn` (what Moodle knows), `tick`, `holder` (row locks), `round` (uncommitted deliveries), histories `rang`, `unsure`, `vouched`, `begun`, `counting` |
| `PushPipelineProofs` | its theorems | |
| `Devices` | the device registry | `device`, `login` (sessions), `token` (push tokens), `moodleKey`, `silent`, `anonymous`, `linked`, `wants`, `courses`, `call` (requests in flight), histories `swept`, `ousted` |
| `DevicesProofs` | its theorems | |
| `LastChoice` | what TigerSync promises about course membership | `choice`, `sent` |
| `CourseSync` | a user's courses and every request that changes them; implements `LastChoice` | `row`, `tomb`, `reset`, `clock`, `sent` |
| `AssignmentRows` | one assignment: its two possible rows, the marks on them, and the runs that list and probe it | `arow`, `moodle`, `fetch`, `holder`, `time`, history `chosen` |
| `AccountEdits` | settings documents, bulletin rules and bulletin flags under overlapping requests | `doc`, `rules`, `flag`, `syncLock`, `docLock`, `req`, histories `accepted`, `asked`, `newest`, `raced` |
| `AccountDataProofs` | theorems about `CourseSync` (the refinement of `LastChoice` among them), `AccountEdits` and `AssignmentRows` | |
| `BulletinIntake` | the bulletins table up to classification | `board`, `post`, `work` (where a worker is), histories `spoiled`, `outrun` |
| `BulletinFanout` | extends it by both fan-out tracks | `notified`, `matched`, `putOff`, `disp`, `token`, `signedIn`, `linked`, `fan`, histories `rang`, `unsure`, `filed`, `moved`, `unlinked` |
| `BulletinProofs` | theorems about both | |
| `TlsPins` | the TLS pin document and who changes it | `pinned`, `watched`, `auto`, `validTo`, `document`, `key`, `now`, `probes`, `chain`, `app`, `saved` (a backup) |
| `CourseChanges` | the changes of one course that operators write | `timetable`, `change`, `courseLock`, `rowLock`, `writer` (requests) |
| `ClassPushes` | what is filed and sent for one class of one day | the calendar (`term`, `holiday`, `called`), the student's rows, `reminder`, `start`, `seen` (what a scan has read), `asked` (what a check has read), `edits`, histories `standing`, `dueSince` |
| `OperatorProofs` | theorems about `TlsPins`, `CourseChanges` and `ClassPushes` | |
| `MC*` | the small instances TLC checks; `MCAccountData` puts `CourseSync`, `AssignmentRows` and `AccountEdits` side by side, `MCFeeds` `Changelog` and `TlsPins`, `MCCalendar` `CourseChanges` and `ClassPushes` | |

Most modules have a variable `mix` (`setting`, `pinMix`, `focus`), chosen once in
`Init`: which requests, rows and events meet in this behaviour. A run then checks
several small questions in one state space instead of one product of all of them.
What a mix leaves out never happens in it, and the runs' mixes together fire every
action.

Definitions named `<operation>_<what differs>` and introduced by "Mutant of" are
deliberate bugs: each is a plausible slip in that operation which the property
named in `PROJECT.json` must catch. No specification uses them.

### Changelog

A log row is its revision. `lock_sync_state`, `append_change` and the caller's
commit or rollback are steps of a writer; the sequence moves even if the writer
rolls back. `GET /sync` is two steps, `ReadState` and `ReadRows`, because
`read_changes` runs two statements at READ COMMITTED; the full snapshot is one,
because it runs under REPEATABLE READ. The purge scans, locks user by user and
commits once. `covered` is what a client was told of; the safety property
compares it with everything `published` up to the client's revision.

### AuthSessions

A row lock is a step wherever the code takes one (`LockRow`, `RemoverLock`, the
first use of a session outside a ring); what a transaction decides once it holds
its locks is one step with its commit. `_linked_ids` is the least set closed
under the recursive query's step. Times are abstracted to `used` and `expired`.
The app sends the token it holds, may give up and send again, and takes only the
reply it waits for; the abandoned request goes on as a late duplicate.

`delete_device` repeats its pass until one locks no row. A pass reads the live
sessions of its snapshot and waits for them one by one; a row that a refresh rotated
away meanwhile no longer matches, and the session that refresh inserted is not in the
snapshot. So `RemoverCommit` may come with a session still live, and `removed` keeps
what the last pass saw (`seen`) and whether it waited in vain (`overtaken`).

### SyncJobs

Each transaction of a run is a step: `_start_run`, `Fetch` (no transaction),
`_drop_courses_left_out`, `Apply`, `_refresh_submission_status`,
`_finish_after_probe`, `_handle_moodle_failure`, `Postpone`, `_record_failure`.
Every one that asks `_lock_owned_job` may find its claim taken back. `Fails`
sorts errors as the handlers of `_execute_job` do: rejected tokens and school
faults go through the maintenance-window check, 429s pause the worker, anything
else is a fault of ours. Recovery takes a job whose run is gone, and, with the
event `stall`, also one whose run is alive and late with its heartbeat. Times
are abstracted to what a comparison with now answers: `due`, `fresh`. The
listing a run reads and stores is the version of the user's Moodle content.
The constant `Events` selects what may happen around the worker, so that a run
can ask one question at a time.

### PushPipeline

A tick is a call of `run_push_tick`: `_recover_stale_jobs`, then claims until
nothing is due. The checks of a batch run beside its jobs (`check_before_send`
reads the claim and the rows, `_ask_moodle` waits for Moodle with no transaction
open). `_process_job` takes the row lock (`Locks`) and goes one of the ways the
code has: `Reclaimed`, `HeldBack_submitted`, `_held_back`, `CheckMissed`,
`Hindered` (what `_materialize` may find that cancels or puts back the job), or
`_materialize`, which opens a round. `_send_one` happens at once and for good;
what it records is in `round` until `_deliver_round` commits. A crash or an
exception rolls the round back and leaves `rang` as it is.

The scheduler runs one tick at a time, but `/sync` and the portal start others
in the same process under the same worker id, so a claim does not tell its tick
apart from another: the runs with two ticks are about that. `job[k]` is the
newest row with dedupe key `k`, told from earlier ones by `id`, and a tick that
still has an earlier row in its batch finds it changed.

The countdown dedupe (`_countdown_starts`) is off in the default settings; the
mixes with `window` have it on: a reminder leaves out the phones the countdown
start of the same moment rang (`spared`) and waits once for a start that is on
its way (`waited`), and no phone is left out that was not rung. The window is
only asked about a start and a reminder of one moment.

Left out: the wording and the skip of a delivery without copy, per-device
notification switches. The sync trigger that `record_submitted` asks for is one
that `file_jobs` may file at any time. `cancel_schedule` does to each job what
`sync_schedule_left_out` does. What holds a class, a course reminder, a sync
trigger or a session push is a choice in `Hindrances`; the checked instances have
reminders, starts and ends, whose rules are spelled out.

### Devices

Everything that signs a device in or out holds the account locks from before its
first write, and is one step (`SignIn`, `deregister_devices`, `_delete_account`,
`retire_dead_devices`). A request of an app is several: `require_user` lets it
in, `_bring_back` finds its device (and undeletes a deleted one under the account
lock), the handler reads and writes. `PATCH /v3/auth/credentials` (`update_credentials`)
commits before it asks Moodle and locks the account again with the answer, so a
sign-out may fall between. A session whose device row a takeover
deleted stays `loose`. `ousted` remembers whether a removal had a request of the
device in flight, a refresh included: only then may the device come back, which the code accepts
because the request proves a session that was live when it started.

### CourseSync and LastChoice

Every handler holds the user's sync lock (`lock_sync_state`) from its first read
to its commit, so a request is one step; which edits it carries, when it arrived
and when it is served are free, so edits come late, twice and out of order.
`upload_courses_v4`, `delete_course` and `_reset_by_stamp` are what protocol-2
and `/v4` apps call; `upload_courses`, `delete_course` with the arrival time and
`delete_all_courses` are what released apps call. `apply_fetched_courses` is the
server's own mirror. `process_initial_upload` is the first-run import, which reads
the clock before it waits for the lock: it stamps and clamps by a time that may be long
past when it is served (`Arrivals`).

`LastChoice` says the same without rows and tombstones: per course one choice
(add, hide, remove, reset) with its stamp; a stamped edit replaces it exactly
when it is later. The refinement mapping `ChoiceOf` reads the choice back from
the row's `added_at`, the tombstone and the resets. Adds and resets of released
apps carry no stamp and win on arrival, which `LastChoice` allows as a step of
its own (`ByArrival`), and a roster of a released app may take back that device's
own removal (`BySchool`). `ChoicesHonoured` says the rest: rows follow the
choice, override fields move only forward, resets hold and spare what is later.
A first-run import that waited is its one exception: it may clamp a time that is too
far ahead to one behind a reset made while it waited.
`SnapshotAgreesWithUpload` says what the two places that resolve tombstones for
released apps agree on: what the snapshot hides the next upload is refused for, and
what is refused is hidden, as long as the tombstone is younger than `TombstoneDays`.

### AssignmentRows

Two row ids: the placeholder an app makes (course id 0) and the server's. A run
is `List` (no lock), `apply_fetched_assignments`, `fetch_submission_status` (no
lock), `_refresh_submission_status`; the last one asks for no ownership. Marks go
to the row the apps see; the last part of the module is which marks `/sync/full`
sends with a key. Stamps start above `merge.OLDEST`; titles, links and the other
copied columns are left out.

### AccountEdits

Statements, not requests, are steps here: reads and writes of a settings document
or of `/v3` rules are not under the sync lock. An `INSERT` waits for another
transaction's row of the same key, an `UPDATE ... WHERE revision =` waits for the
row and then compares, and `DeadlockDetected` aborts one of a `PUT` (document,
then sync state) and an initial upload (sync state, then document). An edit is
named by its request, a document is the set of edits in it.

### BulletinIntake and BulletinFanout

A claim is a committed transaction; fetching, comparing and classifying are steps
with nothing locked. `LookForContent` and `attach_body_and_dedup` are two steps
because the look and the write are two statements, between which another worker
may store the same content. `_mark_failed` is two as well: it reads the attempts
without a lock, and `FailureWritten` sets the state by id alone. `outrun` are the posts
whose last attempt was claimed in between. `Body` is what the content hash sees. The anonymous
track (`dispatch_pending_bulletins` to `FinishPost`) takes one bulletin at a time:
audience, pending rows, then a send and its commit, the Android rows in one
request. The users' track is one transaction a tick. The two tracks ask
different rows who a handset belongs to: the users' track whether its device is signed
in (`UserDevice.deleted_at`), the anonymous one whether its registration is linked
(`linked_user_id`). A login changes the first alone, `register_device` links, a removal
unlinks or, when the daily job retires the device, does not. `unlinked` remembers what a
track took while it was for both. Times are ticks
(`putOff`). `bad` posts are ones whose fan-out always raises.

### TlsPins

`StartWatch` probes with no transaction open, `run_pin_watch` applies the results
and publishes what the served document lacks. Operators edit (`add_pin`,
`remove_pin`, `set_monitored_hosts`, `set_auto_publish`, `extend_expiry`), open a
page (`OpenPage`) and approve what it showed. The clock counts as serials do;
`Restore` takes longer than serials run ahead of the clock.

### CourseChanges

One course of one term and, in a behaviour, one kind of change: changes of
different kinds never clash. A request takes the row it edits, the advisory lock
of the course, checks against the timetable and the other changes, and writes;
it may fail anywhere. The term's days are few and each has its own timetable, so
an upload also stands for a term whose dates an operator moves: both decide on
which days the course meets. A `note` is never compared with anything and is
left out, as are rooms, times and wording; a start or an end has to be of one
meeting. `under`, a history, is the timetable a change was checked by.

### ClassPushes

One class of one day, the reminders the scan files for it and the Live Activity
start the app files. `scan_course_reminders` runs at READ COMMITTED, so each statement
is a step and everyone may edit in between: `ScanBegins` takes the time, then come the
term dates, the current terms, courses, holidays, opt-ins, changes, the pending jobs
(`LockPending`, with `SKIP LOCKED`: the pipeline cannot claim those until the scan
commits, and the scan does not touch those a tick has claimed), preferences, devices,
the jobs on their way and the skipped dates, and `ScanFiles` with the commit. `seen.rows`
is the picture the statements put together, which may be of no single instant. The
check before a send is two statements, the course (`_held_by_course_changes`) and its
changes (`recheck_class_reminder`); `asked` is what the first one read. `standing` follows each
reminder's class by `Due`, a definition of its own and not the scan's: what the
last scan saw of it, and since when nothing has changed it. `Misled` says that an edit
fell between two statements and the picture disagrees with the class; `OutOfReach` that
the scan could not cancel the job. `PushPipeline` has the
delivery; here `_claim_due_jobs` and `_deliver_round`
are single steps with the outcomes they can have. `recheck_class_start` puts a
start back as `HeldUntil` says; its reads of calendar and changes are one step, because
a start is looked at again within the recheck time whatever it read.

## Runs

| run | question | result |
|---|---|---|
| `feeds` | can a page of the change feed skip a change; do revisions commit in order; is the log complete above the 410 floor; does a client that keeps asking catch up; is every published pin answered for, does an app accept the next document, does a renewed chain reach the document | holds |
| `changelog_gap` | is retention.py's "never a silent gap" true | **violated** |
| `auth` | lost and duplicated refreshes, aborts, removals, logouts, new sign-ins, expiry, suspension, pruning: one lineage, one survivor, no circle of waiters | holds |
| `sync` | do rows follow claims, is a job ever stuck or stopped for anything but a rejected token, is a token stored since left alone | holds |
| `sync_fresh_token` | is a token stored since *always* left alone | **violated** |
| `push_safety` | is anyone rung twice, unasked, instead of another device, or left out for a start that never rang; does an end that goes out pass over a registered Live Activity | holds |
| `push_live` | does a tick end, is a reminder settled, does its outcome say what happened | holds |
| `account_data` | do courses implement one last choice each; do marks, submissions, extended dates, settings, rules and flags survive every order of edits and runs | holds |
| `devices` | does a removed device stay out; is a Moodle token kept only for a student with a device | holds |
| `bulletins` | does a row wait only for a worker that comes, is a repost silent, is nobody rung twice or on both tracks, do bad bulletins hold up the others | holds |
| `bulletins_race` | do two workers never decide the same row | **violated** |
| `calendar` | can two operators give a class two changes; do reminders follow their classes through edits between any two statements of a scan or a check; does a held start wake | holds |

### The three violations

*Silent gap.* A client's `GET /sync` reads `user_sync_state`, passes the 410
test, and then a purge commits; the rows the page was to return are gone, the
page is empty and `returned_until_revision` is the current revision. The window
is two statements wide and the rows are at the end of retention, so a client
has to be that far behind; but the docstring promises it cannot happen.
`NoGapUnlessOvertaken` says that this is the only way to miss a change.

*Fresh token.* A run claimed before the student signs out finds no credential
and fails as rejected with no nonce. If the student signs in before the failure
is recorded, the fresh token is marked invalid and the jobs it had just revived
are disabled. `ReadTokenDecides` says that a run that did read a token never
does that.

*Bulletins race.* `claim_pending_bulletins` locks the rows, counts an attempt and
commits, which ends the locks; the rows stay pending. The next claim, of the
backfill script beside the scheduler, takes the same rows while the first worker
is waiting for the page or the LLM. Both classify, and the final `UPDATE` of the
slower one asks for no state, so a processed bulletin can become failed, skipped
or pending again, or get another class after its fan-out. `SKIP LOCKED` only
keeps apart two claims that overlap.

### Other observations

What the models show beside the properties, where no document promises otherwise
or the effect is small:

- `bulletins/models.py:13` says a bulletin is sent to a device at most once; a
  crash between the send and its commit sends it again. `AnonymousOnce` says that
  this, and a lost answer, are the only ways.
- `_mark_failed` runs only when a worker reports. A crash during the last attempt
  leaves the row pending with its attempts used up, for ever. And its docstring
  (`jobs.py:369`) says that a row it keeps pending "will retry next tick", but it reads
  the attempts and updates the state by id in two statements. The first
  worker reads that one is left; a second one claims the row, which is still pending, uses
  that attempt up and sets the row failed; the first one's update sets it pending
  again. No claim takes it then, and nobody sees it failed. `PendingIsWorkedOn` excepts
  both and an exception, and nothing else.
- `user_devices.py:546` says that the passes of a removal "repeat until one finds
  none". When a pass waits for the one live session while a refresh rotates it, the row
  read again is not live, so the pass returns nothing and the loop ends, and the session
  the refresh has issued stays live; its first use undeletes the device (`_bring_back`).
  `OnlyOvertakersSurvive` says that this is the only way: refreshes took every row the
  last pass waited for, and what survives is newer than that pass. The portal's
  `_sign_out` repeats the loop.
- A repost of a bulletin that failed or was hidden is skipped too: the content
  hash stays.
- `_suppress_future_push` of the backfill script stamps `notified_at` only; the
  users' track still matches the bulletins.
- Two overlapping `PUT` requests for one flag of one bulletin keep whichever
  commits last, not the later stamp; a `/v3` rule `DELETE` compares the revision
  it read and then writes by id; a `/v3` replace deletes the rows it read, and two
  that overlap keep both sets.
- `_cleanup_orphaned_sync_data` counts the calling device with what was loaded
  before the wait for the sync lock, so a switch another request of the same
  device changed meanwhile is not seen.
- An activity registered again under the same update token may get no second end.
  While another token of the device rests between two tries, the end job is still
  waiting, so `_retire_finished_end_job` leaves it and the registration moves it; the
  delivery to this token stays as it was sent before, and a later round passes it by.
  `EndReachesRunning` therefore accepts a delivery already sent, or one the provider
  refused as often as it may be tried.
- `_finish` of the TLS routes says a change made without a key "goes out with the
  next document"; the hourly re-signing signs the old document's sets again, so
  an operator's change waits for the next edit, and only the watch of an
  `auto_publish` set compares the document with the pins.

- `changes.py:79` says a kind has at most one change per course, day and period.
  `_check` ensures it for the timetable it reads. A student's upload that becomes
  the latest row, or a term whose dates move, can bring two changes together that
  met on no common day when they were checked; then a reader takes the one that
  starts later. `OneChangePerMeeting` says this is the only way.
- A class moved to an earlier start does not wake the Live Activity start already
  filed for the later one: `HeldUntil` looks only at a start whose time has come.
  Only the app's next `/schedule/sync` brings it forward.
- A scan may put together a class as it never was. A holiday deleted
  between the statement that reads the holidays and the one that reads the opt-ins
  takes its opt-ins with it: the scan sees the holiday without the opt-in and cancels
  the filed reminder of a class that was on throughout. The next scan files it again
  only if its time is still ahead. An edit between other statements (a course and its
  changes, a term and its courses), or between the two of the check before a send, can do the
  same. `RemindersFollowClasses` excepts exactly what an edit misled (`Misled`).
  What a scan filed by mistake is put right by the next one, and a wrong start also by the
  check before the first delivery.
- A snapshot sends released apps the tombstones of 30 days, an upload is refused for
  tombstones of any age and none is purged. An app that takes its first snapshot later
  than that shows a course the server refuses to take from it.
- A phone that signed in and has not registered since is served by both bulletin
  tracks, so a bulletin may reach it twice; one whose device was retired and whose
  registration is still linked is served by neither until it registers.

### Bounds

- `Changelog`: two users, two writers, one client, page limit 1, 3 revisions.
  Two writers are enough to reorder commits, a second user to interleave the
  sequence, three revisions for a page, a purge and a later commit. Clients do not
  affect each other.
- `AuthSessions`: 2 or 3 requests in flight, 3 or 4 sessions, 2 or 3 kept. A
  request, its duplicate and a use of the result need three; a ring that drops a
  member needs one session more than are kept.
- `SyncJobs`: one user with both job types, two runs at once so that a lost run
  meets its successor, two attempts, two tokens, two versions. `MaxNonce` and
  `MaxVersion` bound counters that have no bound in the code.
- `PushPipeline`: up to three jobs (start, reminder, end), two attempts per job
  and one or two per delivery, one crash. The mix about ends has one tick, a
  reminder and an end that can be filed twice, and the update tokens of two
  activities on one device; another has the end alone with two tries per delivery, so
  that a token rests while its app registers again. The mixes about starts have two ticks and tokens of
  two devices. Those with the dedupe window have one tick and one row per key, and
  the tokens of one device: standard, start, and the update token of its activity.
  `push_live` has one reminder and two ticks. A second attempt is the last round, a
  second id is a row refiled under a key a tick still knows, and a third tick would
  only repeat what the second does to the first. `MaxId` bounds what producers
  file; the ends a submission files are not bounded by it.
- `CourseSync`: two courses of one term, one of them edited, and one mirrored
  course; four requests; stamps from before the first request to one ahead of the
  clock. An edit, one it overtakes, a reset and a roster take four requests; terms
  only meet in a full reset. One override field with one value beside unset. An import waits
  not at all or for two ticks, longer than the skew a stamp may have, so that it clamps
  behind a reset; a tombstone is sent for two ticks, and the clock starts late enough
  for one to be older.
- `AssignmentRows`: two runs, two dates, one kind of mark; two marks, or one mark
  and one change at the school.
- `AccountEdits`: three requests; two client ids, two flags and two stamps.
- `Devices`: two students, one phone, one push token, two requests. Two students
  are a takeover, two requests a race; phones do not affect each other. Requests meet
  in pairs: registration, or a fresh Moodle token, against deletion, preferences
  against an upload.
- `Bulletins`: three posts, two of which share their content, two workers, two
  attempts, batches of two, three handsets (one Apple, two Android), one fault.
  Three bulletins fill a batch and leave one behind it. One Apple and one Android
  handset sign in and are linked; the third stays anonymous.
- `TlsPins`: two sets of one host, or one set where the clock or a backup moves;
  four ticks of the clock, three serials, two chains.
- `CourseChanges`: two operators, two changes, two days of two periods, three
  timetables: one meeting, two periods back to back, and a day more. Two changes are
  a clash, two periods a whole day against one of its periods.
- `ClassPushes`: two starts, one offset, two overlapping holidays, four ticks of
  the clock, two edits in a behaviour, `_HELD_START_RECHECK` and the lead of a start
  one tick each. Two edits are a change and its withdrawal, or one that happens
  during a scan and one that makes up for it; a class moves by two ticks, so a held
  start sleeps and wakes at least once before it is due. With scans in the
  mix the class starts at the later time, so that a second scan comes before its
  reminder. Two edits do not mislead the check before a send, which takes three; that
  it is excepted as the scan is rests on the theorem.

Symmetry is used for writers, requests, runs, ticks, students and devices, which
are interchangeable, not in runs that check liveness. `AccountView` and
`DevicesView` leave out variables no handler reads. Deadlock is checked in
`feeds` and off where bounded counters, or a signed-out user with nothing left
to do, really stop.

### Fairness

- Feed: an open transaction ends (`statement_timeout`,
  `idle_in_transaction_session_timeout` in `db.py`), and a client that follows
  the feed keeps asking. Nothing is assumed of writers or the purge otherwise.
- Sync jobs: a run's next step happens unless it crashes; the tick recovers
  stale locks; gates open again. A job that stays pending and due is claimed:
  a tick claims until nothing is due and a job that ran is not due at once, so
  a due job is not passed over for ever although others keep the user busy. A
  job that is due only now and then may be missed each time. `run_after` passes
  once uploads can no longer push it back; while they can, nothing is assumed.

- Bulletins: the scheduler runs both fan-outs every minute and an awaited call
  returns (weak fairness of `Fanout` and of `dispatch_user_bulletins`). Nothing is
  assumed of workers, the provider's verdict, operators or apps; a fan-out of a
  `bad` post always raises.
- TLS pins: the scheduler runs the watch every hour and probes time out (weak
  fairness of `StartWatch` and `run_pin_watch`).
- Course changes and class pushes: none. `HeldStartWakes` is a bound on time and
  not liveness: the clock of `ClassPushes` waits for a start that is available to
  be claimed and checked, as ticks run every few seconds against minutes.
  Reminders may wait any time.
- Push: a tick that is not killed takes its next step, and one that waits for a
  row lock gets it in the end although others take it meanwhile (Postgres queues
  waiters), hence strong fairness for the steps that lock; the scheduler starts
  the next tick; times come. Nothing is assumed of Moodle's answers, of the
  providers or of users. `Settles` is stated for behaviours in which ticks stop
  overlapping at some point: two ticks that overlap for ever can pass a checked
  job to and fro, each finding it unclaimed when it checks and claimed under
  their common worker id when its turn comes (`push.presend_check_missed`).

## Proofs

TLAPS proves the following for every number of users, writers, clients, jobs, ticks,
workers, runs, attempts, sessions, students, phones, push tokens, requests, courses,
assignments, bulletins, pin sets, hosts, operators and changes. The assumptions are
`ChangelogAssumption`, `AuthAssumption`, `SyncJobsAssumption`, `PushPipelineAssumption`,
`DeviceConstants`, `CourseConstants`, `CourseNulls`, `AssignmentConstants`,
`EditConstants`, `IntakeConstants`, `FanoutConstants`, `PinConstants`,
`ChangeConstants` and `ClassConstants`. Most of what they say is that constants have
their types and that the "nobody" and NULL values are not members of the sets they
stand outside of. The rest, and why the code justifies it:

- `IntakeConstants`: a page of the school and a row made by hand are different bulletins
  (their ids are made differently).
- `AuthAssumption`: finitely many requests can be under way.
- `AssignmentConstants`: requests arrive after `merge.OLDEST`, which is year one.
- `PushPipelineAssumption`: two end jobs are of different devices. An end's dedupe key
  names its device and activity (`activity_end_key`), and the model has one assignment.
- `EditConstants`: in one behaviour a device's app speaks `/v3` or `/v4` about its
  bulletin rules, as an app of one version does. A `/v4` replace that overlaps a guarded
  `/v3` edit of the same rule could give a row a revision the edit read before, and the
  guard would not see the difference.

`ChangelogProofs`: `TypeCorrect`, `NoGap`, `RetentionSound`, `CommitOrder`.
None of the properties is inductive by itself. `IndInv` adds who holds which row
lock (`LocksHeld`), that an open transaction's revisions are above the user's
committed watermark (`UncommittedAboveCurrent`, which is why commits are in
order), that a purge's watermark was committed (`CommittedWithinCurrent`), and
that rows a half-finished read is still to return exist until a purge overtakes
it (`ReadsServable`).

`AuthSessionsProofs`: `NeverForks`, `RingsAreWhole`, `FirstUseIsFinal`, `LocksByAge`,
`RemovalCutsAccess`, `LateDuplicatesAreHarmless`, for any number of requests and
sessions and any limit on the unused ones. What carries all of them is the shape of the ring (`Ringed`): the live
sessions one token was rotated into follow each other by age, each links to the next
younger one and the youngest to the oldest, and a used session is in no ring
(`UsedIsAlone`). `WalkOfRing` shows that the least set closed under the step of the
recursive query is then exactly the ring, from whichever of its members the walk
starts: the least member the walk left out would be next to one it found.
`settle_contest`, `_rotate`, and `_rotate_again` in its two halves, the new session
joining the ring (`JoinStep`) and the ring cut back to its newest
(`ShortenStep`), each keep that shape. `LocksInIdOrder` is the less obvious one: a
request walks again after each round of locks, and rows may have joined since. It
holds because a step never makes a walk reach an older row than it reached before
(`Onwards`), so what is found by a later walk is younger than everything locked
(`RequestSound`). Only the pruning of a row a removal has locked needs that a lock
excludes others; every other decision is taken on the table as it is in the step that
commits it. `RemovalCutsAccess` states `OnlyOvertakersSurvive`. `PassSound` says of a pass that has
locked nothing so far that a live session is one it still waits for, one it has locked, or
newer than its snapshot, and then it did wait; `CutSound` that this stays so of what was live when the
removal committed. A refresh that takes a row a pass waits for, `RefreshOvertakes`, is the
step on which it turns.

`LateDuplicatesAreHarmless` needs more, `LateInv`: while nothing has cut the app's
sign-in off, the session it holds is live, or was rotated and has a live, unused newest
successor (`Going`, `GoesOn`). A duplicate of the refresh that issued this session adds
a younger rival each time, and the ring keeps only the newest, so the app's session
could be dropped. `Room` counts both: its younger rivals and the requests that
still carry the parent's token are together fewer than the limit. A duplicate that is
answered moves from one count to the other, and no new one appears, since the app sends
only the token it holds. The count is below the limit when the app takes a session
over: nothing is younger yet, and of at most as many requests as the limit the one that
issued the session is answered. A first use closes the ring, and `Targets` says that only the app's own
session can be used then. Each action has a lemma (`RotatedLate`, `ReplyLate`, ...);
`RefreshElsewhere`, `RefreshOfParent` and `RefreshOfHeld` are the three places in which
another request's refresh can fall.

`SyncJobsProofs`: `TypeCorrect`, `RowsSound`, `OneAtATime`, `Heals`,
`TokenDecides`, `NoGoingBack`. The proof rests on three lemmas about what a
run's transaction can do: go on (`GoesOn`), leave a job it lost (`Leaves`), or
give back the job it holds (`GivesBack`); a fourth (`RestingJobs`) covers
everything that touches jobs which are not running. `RowsSound` needs
`OneRunningPerUser`: invalidating a token disables all of a user's jobs, and the
run that reports it holds the only one running (`OneAtATime`, which no run checks by
itself: a second one shows in the rows left open). `NoGoingBack` needs
`HolderReadLast`: whoever holds a job has read Moodle later than any run that
may still be probing for it. `TokenDecides` needs `RejectionsAreReal`.

`DevicesProofs`: `StaysOut`, `TokenNeedsDevice`. `MoodleTokenNeedsDevice` is
inductive with the types: every way of removing the last device forgets the
credential in the same transaction, and the sign-in that stores one leaves a live
device. `RemovedStaysOut` is not: a request that passed authentication
before the removal could bring the row back. `OutForGood` adds that a device
removed while nothing of it was in flight has no session, hence no way to start
a request, and no request under way. `SignOutKeeps` is the one lemma for all the
requests that sign a device out.

`AccountDataProofs`, courses: `ChoicesImplemented`, the refinement of `LastChoice`, and
`ChoicesAreHonoured` and `SnapshotsAgree`. Three facts make the tables a register of last choices
(`CourseInv`). A tombstone that a reset wrote is covered by a reset of its term, so
lifting the tombstone changes no choice. No reset lies as far ahead as an edit may:
clamping an override's stamp never takes it back behind a reset. And a
course mirrored from the school is never added by hand too. Every request maps to one
step of the register or to none; the steps differ by what orders them: the edit's
stamp (`ByStamp`), its arrival for released apps (`ByArrival`), or the school's
roster (`BySchool`).

`AccountDataProofs`, settings, rules and flags: `EditsKept`, `FlagsNewest`. `EditInv`
follows what each request has read and not yet written. A document write that has
looked (`DocumentGuarded`) either carries every edit accepted when the revision it will
compare with was current, or will fail the comparison, since revisions only grow; a
guarded patch of a rule is the same with the rule's row (`PatchGuarded`). A `/v4` replace
decides from rows it read under the sync lock (`UnderLock`), and nobody else writes the
device's rules then (`V4Sole`). For a flag, `FlagsHoldNewest` has to hold although a
request's copy of the other flag is stale: what is written is one column, and for that
column no other request is about, or the pair is in `raced`.

`AccountDataProofs`, assignments: `MarksShown`, `AssignmentsKept`. What an app sees is
decided by two rows, four soft-delete and receipt times and the stamps of two marks; the
proof finds that one row always stands for the assignment, the server's if there is one
(`RowOfUpload`), and has the mark stamped last (`MainMarked`). Beside it there can only be a
placeholder the merge of the database left, soft-deleted, and if a clear has been
received for it since, its stamp is not newer. So `_get_assignment_by_moodle_id`, which asks
what is live first, always finds that row (`SeenIsMain`), and `ShownFollows` works out
what `/sync/full` sends a key for. `MainChanges` says what a handler may do to the row;
`TakesOver` is the one step at which another row becomes it. That the action
properties of `AssignmentKept` hold comes with each step (`Keeps`); a late run's
answer needs that whoever asked Moodle saw a server row, which never goes
(`ExtensionsServed`).

`PushPipelineProofs`: `PushesRingOnce`, `PushesRingAsFiled`, `EndsReach`,
`OutcomesTruthful`. None of the four is inductive, and they need each other's parts.
`IndInv` says of each push that it was rung once and is recorded as sent, committed or
in the open round, or is `unsure` (`RungOnce`); of each round that it holds the row of the
job its tick is at (`Holding`), owes only deliveries that are pending, and has not lost
what was committed as sent (`RoundsSound`), and that one of an end job has a delivery for
every activity counting on its device (`EndsCover`); and of each batch what its tick may
still believe of the rows in it (`Batched`): a row id never comes back, so a
job that changed under the tick is found changed, and a check that answered "send" vouches
only for the row it was made for. A step either goes on beside the open rounds (`Beside`: a job keeps its row or
gets a new one while no round holds it) or opens, continues, commits or rolls back one
round. `EndsReach` was first stated of the property as it then was, that an activity
registered ahead is not left with an end job that went out. With two tries
and three attempts that is false (see the observation on update tokens above), which the
run did not show because its mix about ends had one try. The property is now what
the code does promise, and the run has a mix with two.

`BulletinProofs`: `NoRowForgotten`, `RepostsAreSilent`, `RingsOnlyOnce`,
`TracksStayApart`, about `BulletinFanout`, which extends `BulletinIntake`.
`RepostsAreSilent` rests on the unique index and on a worker having stored its row's
content before it asks the LLM (`AskedIsStored`). For `NoRowForgotten`, a row a worker
read as pending stays so until the worker records what came of it or the post is
pruned, and a pruned post never returns; what a worker read in `_mark_failed` still allows
a retry unless the row was claimed for its last attempt since (`RetryIsAllowed`,
`outrun`). For `RingsOnlyOnce`, a handset that heard a
bulletin has a row that says so, is in the hand of the dispatcher that sent, or is
`unsure`, which takes over what was in flight when a send is cut short (`RungOnce`).
For `TracksStayApart`, a handset one track has taken and the other can still reach
has changed its account or link since, or was signed in without a link when it was
taken (`TracksApart`).

`OperatorProofs`, pins: `TakesTheNewest`. It is not inductive because a restored
document may be older than the one the apps hold. `Ordered` says that then the
clock has passed the serial they hold, and `PublishIsNewest` that a document
signed next, whose serial is the larger of the clock and the last serial plus
one, is above it.

`OperatorProofs`, changes: `OneChangeEach`. `OneChangePerMeeting` speaks of the
present timetable, which the next upload may replace by one that two changes were
checked by earlier. `Separate` says of any two changes checked by one timetable,
present or past, that they do not meet in it; `Guarded` that a request between its check
and its write holds the course's lock and meets no stored change in the timetable
it was checked by. It holds because others that check wait for the lock, while a
delete or an upload meanwhile only takes changes away or leaves them.

`OperatorProofs`, class pushes: `RemindersFollow`, `HeldStartsWake`. `HeldInv` says when a
waiting start is looked at: at its own time, or within the recheck time from now. A
start that becomes due was put back before that, so the recheck bounds the wait, and the
clock stops at it. `FollowInv` follows a scan and a check through their statements. As long as
nothing was edited since a scan began, what it has read of each row is the row
(`StatementsAgree`), so that what its code makes of them (`ValidIsDue`) is what the
class is. If something was, either the picture still agrees with the class or the scan leaves no
word on it (`Misled`, `standing`). The check is the same with the course it asked for
first: while nothing was edited since, that is the course; if it cancels after an edit, the
class counts as off. `Due` is a definition of its own, beside the scan's.

Only model-checked: all liveness (`CatchesUp`, `KeepsSyncing`, `Settles`,
`KeepsNotifying`, `KeepsMatching`), which the installed prover cannot do; and
`DocumentAnsweredFor`, because the pins a list of probes leads to are a fold, whose
value for every list needs induction. Every other property of a passing run is a
theorem.

## Hazards and what is left

`PROJECT.json` lists the hazards with the line where each bites and the
properties that would catch it. Two have none. `_record_failure` holds the job
row and waits for the account while sign-in holds the account and waits for the
job row (`executor.py:941`); each is one step of `SyncJobs`. And the comment at
`pipeline.py:1032` says that a job with a sent delivery keeps one of the statuses
that hold its dedupe key, while stale recovery and the exception handler mark
such a job failed once its attempts are spent. The model shows the job; stating
the consequence needs the earlier rows of a key, which it does not keep.

Worth adding next, in order:

1. `LockOrder`: the transactions of sign-in, run failure, deregistration and
   account removal statement by statement, over the locks of account, device,
   session and job rows.
2. `PushPipeline`: the earlier rows of a key; an abstract specification of a push
   job (pending, settled once) that the pipeline refines; instances with classes,
   triggers and session pushes, composed with `ClassPushes`.
3. The snapshot of skipped reminder dates and the repair of misfiled courses.
4. The dispatcher of operator pushes, which repeats that of bulletins without the
   tracks.

Not modelled, and not planned: HTTP clients, payload layout and wording,
scraping and LLM calls, certificate parsing, cryptography, dashboards,
migrations and the portal's user interface. They are I/O or formatting; where
their outcome matters it is a nondeterministic choice of a module.
