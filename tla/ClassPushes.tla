----------------------------- MODULE ClassPushes -----------------------------
(***************************************************************************)
(* What a student's phone is told of one class of one day: the reminders   *)
(* scan_course_reminders files before it, and the Live Activity start the  *)
(* app files itself.  The scan reads the student's rows, the school's      *)
(* calendar and its course changes one statement after another (READ       *)
(* COMMITTED) in a transaction that locks none of them, and corrects       *)
(* pending jobs only; the pipeline reads the course and the school's       *)
(* changes once more right before a first delivery.  Students and          *)
(* operators edit at any time, between two statements too.                 *)
(*                                                                         *)
(* One meeting, and changes of the whole day, of which CourseChanges       *)
(* allows one of each kind.  Sending itself is PushPipeline's.             *)
(*                                                                         *)
(* Source: server/push/course_reminders.py, class_starts.py, pipeline.py,  *)
(* server/academic_calendar, routes/academics.py, holiday_overrides.py,    *)
(* portal/app/routes/academic_calendar.py, course_changes.py.              *)
(***************************************************************************)
EXTENDS Integers, FiniteSets

CONSTANTS
  Starts,       \* when the class may start, in units of the clock
  Offsets,      \* reminder_offsets_minutes a student may choose
  Lead,         \* how long before the class its Live Activity starts
  Wait,         \* _HELD_START_RECHECK
  Holidays,
  Unset,        \* no start, no time
  LastMinute,   \* bound: the end of the day
  MaxEdits,     \* bound: edits by the student and by operators
  ClassMixes    \* what meets in a behaviour: the scan or the start, and edits

ClassEvents ==
  {"scan", "term", "holiday", "change", "schedule", "skip", "prefs", "reach", "start"}

ASSUME ClassConstants ==
  /\ Starts \subseteq 1..LastMinute /\ Unset \notin Int
  /\ Offsets \subseteq Nat \ {0} /\ Lead \in Nat \ {0} /\ Wait \in Nat \ {0}
  /\ ClassMixes \subseteq SUBSET ClassEvents

VARIABLES
  classMix,
  minute,       \* the clock
  regular,      \* user_courses.schedule_json: the start of the meeting, Unset if dropped
  rival,        \* a course of a later semester: "none"; "school", the school's or filed
                \* under a term's code; "added" by hand under another name
  term,         \* semester_terms on that day: "unpublished", "runs", "break", "other"
  holiday,      \* academic_holidays: "absent", "covers" the day, "elsewhere"
  optedIn,      \* user_holiday_overrides with notify
  called,       \* course_changes of the day: [off : BOOLEAN, moved : a start]
  skipped,      \* user_course_skipped_dates has the day
  offsets,      \* courses.reminder_offsets_minutes; {} while disabled
  reach,        \* an iPhone "with" a usable token, "without" one, or "none"
  reminder,     \* <<offset, start>> -> its push job
  asked,        \* key -> what the check before its send has read of the course
  start,        \* the push job of the class's Live Activity start
  seen,         \* the scan under way: its last statement, the jobs it locked, and
                \* the rows it goes by
  edits,
  standing,     \* history: key -> what the last scans saw of its class
  dueSince      \* history: since when the waiting start has been due

school == <<term, holiday, called>>
student == <<regular, rival, optedIn, skipped, offsets, reach>>
jobs == <<reminder, asked, start>>
classVars == <<classMix, minute, school, student, jobs, seen, edits, standing, dueSince>>

Keys == Offsets \X Starts
fire_at(k) == k[2] - k[1]
NotFiled == [status |-> "none", tried |-> FALSE]
NoStart == [status |-> "none", fire |-> 0, filed |-> Unset, at |-> 0]
NotAsked == [start |-> Unset, edits |-> 0]
Idle == [at |-> "rest", locked |-> {}]

(***************************************************************************)
(* The calendar.                                                           *)
(***************************************************************************)
\* No published term runs on the day.
outside_term(dates) == dates = "break"

\* The term both apps take as current that day is the course's.
current_term_code(dates) == dates \in {"runs", "break"}

Covering(days) == {h \in Holidays : days[h] = "covers"}

\* Mutant of is_quiet: every holiday of the day must be opted in to.
is_quiet_unless_all(days, chosen) == ~(Covering(days) \subseteq chosen)

\* The scan's rule: one holiday put back un-silences the day.
is_quiet(days, chosen) == Covering(days) # {} /\ Covering(days) \intersect chosen = {}

\* The pipeline's rule, by its own queries: "a change here belongs there too".
_classes_quiet ==
  IF outside_term(term) THEN "outside_term"
  ELSE IF Covering(holiday) = {} THEN "none"
  ELSE IF \E h \in Covering(holiday) : h \in optedIn THEN "none" ELSE "holiday"

\* With no term published: the latest semester, but a name that is no term's
\* code counts only among courses added by hand.
latest_semester(other) == other # "school"

\* The start the school's changes leave the meeting; Unset if cancelled.
changed_meeting(calls, at) ==
  IF calls.off THEN Unset ELSE IF calls.moved # Unset THEN calls.moved ELSE at

ClassInit ==
  /\ classMix \in ClassMixes
  /\ minute = 0
  /\ regular \in Starts /\ rival = "none" /\ term = "runs"
  /\ holiday \in [Holidays -> {"absent", "covers"}] /\ optedIn = {}
  /\ called = [off |-> FALSE, moved |-> Unset]
  /\ skipped = FALSE /\ offsets = Offsets /\ reach = "with"
  /\ reminder = [k \in Keys |-> NotFiled] /\ asked = [k \in Keys |-> NotAsked]
  /\ start = NoStart
  /\ seen = Idle /\ edits = 0
  /\ standing = [k \in Keys |-> "off"] /\ dueSince = Unset

(***************************************************************************)
(* History.  A key's class is due while it meets, is still to begin, and   *)
(* the student wants the reminder and has a phone.  This is the reference  *)
(* the scan and the checks are held to, not their code.                    *)
(***************************************************************************)
DueIn(k, rows) ==
  /\ k[1] \in rows.offsets /\ rows.reach # "none" /\ rows.minute < k[2]
  /\ ~rows.skipped /\ ~rows.called.off /\ rows.regular # Unset
  /\ k[2] = IF rows.called.moved = Unset THEN rows.regular ELSE rows.called.moved
  /\ \/ rows.dates \notin {"unpublished", "break"} /\ rows.shown \in {"runs", "break"}
     \/ rows.dates = "unpublished" /\ rows.rival # "school"
  /\ \A h \in Holidays : rows.holiday[h] = "covers" =>
       \E g \in Holidays : g \in rows.optedIn /\ rows.holiday[g] = "covers"

\* The rows as they are.  The term is asked for twice: for its dates, and for
\* the one the apps show that day.
RowsNow ==
  [minute |-> minute, dates |-> term, shown |-> term, regular |-> regular, rival |-> rival,
   holiday |-> holiday, optedIn |-> optedIn, called |-> called, offsets |-> offsets,
   reach |-> reach, skipped |-> skipped]

Due(k) == DueIn(k, RowsNow)

\* "on": due; "read": and a scan has read it so; "filed": and filed its jobs.
\* "off", "unread", "gone": the same of a class that is not due.
Kept(k, mark) ==
  IF Due(k)' THEN IF mark \in {"on", "read", "filed"} THEN mark ELSE "on"
  ELSE IF mark \in {"off", "unread", "gone"} THEN mark ELSE "off"

\* The waiting start is due, by the rows as they are: not before the time it
\* was filed for, and with the class it announces.
StartDue ==
  /\ start.status = "pending" /\ minute >= start.fire
  /\ minute >= start.fire + (IF called.moved = Unset \/ term = "other" THEN 0
                             ELSE called.moved - start.filed)

Recorded(marks) ==
  /\ standing' = [k \in Keys |-> Kept(k, marks[k])]
  /\ dueSince' = IF ~StartDue' THEN Unset ELSE IF dueSince = Unset THEN minute' ELSE dueSince

(***************************************************************************)
(* scan_course_reminders, every ten minutes, one at a time.                *)
(***************************************************************************)
\* It takes the time.  Of the rows it goes by, each part counts from the
\* statement that reads it; before, it is what it was now.
ScanBegins ==
  /\ "scan" \in classMix /\ seen = Idle
  /\ seen' = [at |-> "begun", edits |-> edits, locked |-> {}, rows |-> RowsNow]
  /\ UNCHANGED <<classMix, minute, school, student, jobs, edits>>
  /\ Recorded([k \in Keys |-> CASE standing[k] = "on" -> "read"
                                [] standing[k] = "off" -> "unread"
                                [] OTHER -> standing[k]])

Statement(from, to, locked, rows) ==
  /\ seen.at = from
  /\ seen' = [at |-> to, edits |-> seen.edits, locked |-> locked, rows |-> rows]
  /\ UNCHANGED <<classMix, minute, school, student, jobs, edits>>
  /\ Recorded(standing)

Reads(from, to, rows) == Statement(from, to, seen.locked, rows)

load_term_dates == Reads("begun", "dates", [seen.rows EXCEPT !.dates = term])

\* The term the apps show that day; not asked while none is published.
_current_terms ==
  Reads("dates", "shown", IF seen.rows.dates = "unpublished" THEN seen.rows
                          ELSE [seen.rows EXCEPT !.shown = term])

ReadCourses == Reads("shown", "courses", [seen.rows EXCEPT !.regular = regular, !.rival = rival])
ReadHolidays == Reads("courses", "holidays", [seen.rows EXCEPT !.holiday = holiday])
ReadOverrides == Reads("holidays", "overrides", [seen.rows EXCEPT !.optedIn = optedIn])
load_course_changes == Reads("overrides", "changes", [seen.rows EXCEPT !.called = called])

\* FOR UPDATE SKIP LOCKED: a job a tick has claimed is left alone.
LockPending ==
  Statement("changes", "locked", {k \in Keys : reminder[k].status = "pending"}, seen.rows)

_course_prefs == Reads("locked", "prefs", [seen.rows EXCEPT !.offsets = offsets])
_users_with_a_recipient == Reads("prefs", "reachable", [seen.rows EXCEPT !.reach = reach])

\* Of the others, who has a phone at all: a token that came since is too late.
AwaitingToken ==
  Reads("reachable", "awaiting",
        IF seen.rows.reach = "with" THEN seen.rows
        ELSE [seen.rows EXCEPT !.reach = IF reach = "with" THEN "without" ELSE reach])

ReadSkipped == Reads("awaiting", "skips", [seen.rows EXCEPT !.skipped = skipped])

ScanReads ==
  \/ load_term_dates \/ _current_terms \/ ReadCourses \/ ReadHolidays \/ ReadOverrides
  \/ load_course_changes \/ LockPending \/ _course_prefs \/ _users_with_a_recipient
  \/ AwaitingToken \/ ReadSkipped

eligible == IF seen.rows.dates = "unpublished" THEN latest_semester(seen.rows.rival)
            ELSE current_term_code(seen.rows.shown)

\* Mutant of meetings: from now on, so one that moves later is missed.
meetings_ahead ==
  IF seen.rows.regular = Unset \/ seen.rows.regular <= seen.rows.minute THEN {}
  ELSE {changed_meeting(seen.rows.called, seen.rows.regular)} \ {Unset}

\* The start of the meeting as it was read, today's begun meetings included.
meetings == IF seen.rows.regular = Unset THEN {}
            ELSE {changed_meeting(seen.rows.called, seen.rows.regular)} \ {Unset}

valid_keys ==
  {k \in Keys :
     /\ k[1] \in seen.rows.offsets /\ seen.rows.reach # "none"
     /\ eligible /\ k[2] \in meetings /\ ~seen.rows.skipped
     /\ ~outside_term(seen.rows.dates) /\ ~is_quiet(seen.rows.holiday, seen.rows.optedIn)
     /\ seen.rows.minute < k[2]}

\* A dedupe key is taken in these statuses; "processing" has three stages here.
Working == {"claimed", "asked", "cleared"}
Taken == Working \union {"pending", "sent"}

\* Only a future reminder, and only where a device can receive it now.
Fileable(k) == fire_at(k) > seen.rows.minute /\ seen.rows.reach = "with"
Filed(k) == k \in valid_keys /\ Fileable(k) /\ reminder[k].status \notin Taken

\* Mutant of Rescanned: without a token the reminders already filed go too.
Rescanned_by_token(k) ==
  IF Filed(k) THEN [status |-> "pending", tried |-> FALSE]
  ELSE IF k \in seen.locked /\ (k \notin valid_keys \/ seen.rows.reach = "without")
       THEN [reminder[k] EXCEPT !.status = "cancelled"] ELSE reminder[k]

Rescanned(k) ==
  IF Filed(k) THEN [status |-> "pending", tried |-> FALSE]
  ELSE IF k \in seen.locked /\ k \notin valid_keys
       THEN [reminder[k] EXCEPT !.status = "cancelled"] ELSE reminder[k]

\* An edit that fell between its statements may leave the scan with parts of
\* two days' truth, and they with a class that was not: it cannot know.
Misled(k) == seen.edits # edits /\ DueIn(k, seen.rows) # Due(k)

\* A tick has the job, or has had it since the scan locked what was pending.
OutOfReach(k) == reminder[k].status \in Working \union {"pending"} /\ k \notin seen.locked

\* The jobs are filed and cancelled, and the scan commits.
ScanFiles ==
  /\ seen.at = "skips"
  /\ reminder' = [k \in Keys |-> Rescanned(k)]
  /\ seen' = Idle
  /\ UNCHANGED <<classMix, minute, school, student, asked, start, edits>>
  /\ Recorded([k \in Keys |->
       CASE standing[k] = "read" -> IF Misled(k) \/ ~Fileable(k) THEN "on" ELSE "filed"
         [] standing[k] = "filed" -> IF Misled(k) THEN "on" ELSE "filed"
         [] standing[k] \in {"unread", "gone"} ->
              IF Misled(k) \/ OutOfReach(k) THEN "off" ELSE "gone"
         [] OTHER -> standing[k]])

\* The scan fails or the process stops: its transaction rolls back.
ScanAborts ==
  /\ seen # Idle
  /\ seen' = Idle
  /\ UNCHANGED <<classMix, minute, school, student, jobs, edits>>
  /\ Recorded([k \in Keys |-> CASE standing[k] = "read" -> "on"
                                [] standing[k] = "unread" -> "off"
                                [] OTHER -> standing[k]])

(***************************************************************************)
(* The pipeline.                                                           *)
(***************************************************************************)
PipelineStep(marks) ==
  UNCHANGED <<classMix, minute, school, student, seen, edits>> /\ Recorded(marks)

_claim_due_jobs ==
  /\ \/ /\ \E k \in Keys :
            /\ reminder[k].status = "pending" /\ fire_at(k) <= minute /\ k \notin seen.locked
            /\ reminder' = [reminder EXCEPT ![k].status = "claimed"]
         /\ UNCHANGED start
     \/ /\ start.status = "pending" /\ start.at <= minute
        /\ start' = [start EXCEPT !.status = "claimed"]
        /\ UNCHANGED reminder
  /\ UNCHANGED asked /\ PipelineStep(standing)

\* Before the first delivery only: the course first, then its changes.  What is
\* gone is cancelled, and so is what the check fails to confirm.
_held_by_course_changes(k) ==
  /\ reminder[k].status = "claimed"
  /\ \/ /\ reminder[k].tried
        /\ reminder' = [reminder EXCEPT ![k].status = "cleared"]
        /\ UNCHANGED asked
     \/ /\ ~reminder[k].tried /\ regular = Unset
        /\ reminder' = [reminder EXCEPT ![k].status = "cancelled"]
        /\ UNCHANGED asked
     \/ /\ ~reminder[k].tried /\ regular # Unset
        /\ reminder' = [reminder EXCEPT ![k].status = "asked"]
        /\ asked' = [asked EXCEPT ![k] = [start |-> regular, edits |-> edits]]
  /\ UNCHANGED start /\ PipelineStep(standing)

\* The reminder's class still starts when it was filed for.  The course it read
\* may be another by now, and the class called off at no time.
recheck_class_reminder(k) ==
  LET still == changed_meeting(called, asked[k].start) = k[2] IN
  /\ reminder[k].status = "asked"
  /\ reminder' = [reminder EXCEPT ![k].status = IF still THEN "cleared" ELSE "cancelled"]
  /\ asked' = [asked EXCEPT ![k] = NotAsked]
  /\ UNCHANGED start
  /\ PipelineStep(IF still \/ asked[k].edits = edits THEN standing
                  ELSE [standing EXCEPT ![k] = "off"])

unverified_before_send(k) ==
  /\ reminder[k].status = "asked" \/ (reminder[k].status = "claimed" /\ ~reminder[k].tried)
  /\ reminder' = [reminder EXCEPT ![k].status = "cancelled"]
  /\ asked' = [asked EXCEPT ![k] = NotAsked]
  /\ UNCHANGED start /\ PipelineStep([standing EXCEPT ![k] = "off"])

\* Sent, to be tried again once, or failed: for good, or without a token.
_deliver_round(k) ==
  /\ reminder[k].status = "cleared"
  /\ \E status \in IF reach # "with" THEN {"failed"}
                  ELSE IF reminder[k].tried THEN {"sent", "failed"}
                  ELSE {"sent", "failed", "pending"} :
        reminder' = [reminder EXCEPT ![k] = [status |-> status, tried |-> TRUE]]
  /\ UNCHANGED <<asked, start>> /\ PipelineStep(standing)

Smaller(a, b) == IF a < b THEN a ELSE b

\* The changes of the term the apps show that day.
Moved == IF current_term_code(term) THEN called.moved ELSE Unset
Off == current_term_code(term) /\ called.off

delay == IF Moved = Unset THEN 0 ELSE Moved - start.filed

\* Mutant of HeldUntil: until its new time, however the change is edited.
HeldUntil_moved == start.fire + delay

HeldUntil == Smaller(start.fire + delay, minute + Wait)

\* The class start, before its first delivery: cancelled on a quiet day, with
\* its class or once the moved class has begun; put back while it is early.
recheck_class_start ==
  /\ start.status = "claimed"
  /\ \/ start' = [start EXCEPT !.status = "cancelled"]   \* unverified_before_send
     \/ start' =
              IF _classes_quiet # "none" \/ Off \/ (Moved # Unset /\ Moved <= minute)
              THEN [start EXCEPT !.status = "cancelled"]
              ELSE IF start.fire + delay > minute
              THEN [start EXCEPT !.status = "pending", !.at = HeldUntil]
              ELSE [start EXCEPT !.status = "sent"]
  /\ UNCHANGED <<reminder, asked>> /\ PipelineStep(standing)

(***************************************************************************)
(* The student and the operators.                                          *)
(***************************************************************************)
Edit(event) ==
  /\ event \in classMix /\ edits < MaxEdits
  /\ edits' = edits + 1
  /\ UNCHANGED <<classMix, minute, seen>>
  /\ Recorded(standing)

AppFiles ==
  /\ "start" \in classMix
  /\ UNCHANGED <<classMix, minute, school, student, reminder, asked, seen, edits>>
  /\ Recorded(standing)

\* The app's starts, filed by the times it knows.  A new fire time ends a
\* wait set against the old one; an event in the past is not filed, and one
\* moved there goes.  A claimed job is passed over.
sync_schedule ==
  /\ \E at \in {regular, called.moved} \ {Unset} :
       LET fire == at - Lead IN
       start' = IF start.status = "pending"
                THEN IF fire # start.fire /\ fire <= minute
                     THEN [start EXCEPT !.status = "cancelled"]
                     ELSE [status |-> "pending", fire |-> fire, filed |-> at,
                           at |-> IF fire # start.fire THEN fire ELSE start.at]
                ELSE IF start.status \notin Taken /\ fire > minute
                THEN [status |-> "pending", fire |-> fire, filed |-> at, at |-> fire]
                ELSE start
  /\ AppFiles

sync_schedule_without ==
  /\ start.status = "pending" /\ start' = [start EXCEPT !.status = "cancelled"]
  /\ AppFiles

upsert_term(dates) ==
  /\ dates \in {"runs", "break", "other"} \ {term} /\ term' = dates
  /\ UNCHANGED <<holiday, called, student, jobs>> /\ Edit("term")

\* Refused while a course change refers to the term.
delete_term ==
  /\ term # "unpublished" /\ called = [off |-> FALSE, moved |-> Unset]
  /\ term' = "unpublished"
  /\ UNCHANGED <<holiday, called, student, jobs>> /\ Edit("term")

\* A course of a later semester is uploaded, or goes.
UploadLaterCourse(other) ==
  /\ other # rival /\ rival' = other
  /\ UNCHANGED <<school, regular, optedIn, skipped, offsets, reach, jobs>> /\ Edit("term")

\* create_holiday and update_holiday.
put_holiday(h, days) ==
  /\ days # holiday[h] /\ holiday' = [holiday EXCEPT ![h] = days]
  /\ UNCHANGED <<term, called, student, jobs>> /\ Edit("holiday")

\* The students' choices go with it.
delete_holiday(h) ==
  /\ holiday[h] # "absent" /\ holiday' = [holiday EXCEPT ![h] = "absent"]
  /\ optedIn' = optedIn \ {h}
  /\ UNCHANGED <<term, called, regular, rival, skipped, offsets, reach, jobs>> /\ Edit("holiday")

set_override(h) ==
  /\ holiday[h] # "absent"
  /\ optedIn' \in {optedIn \union {h}, optedIn \ {h}} \ {optedIn}
  /\ UNCHANGED <<school, regular, rival, skipped, offsets, reach, jobs>> /\ Edit("holiday")

\* A change needs a class day of the published term.
RecordChange ==
  /\ term = "runs" /\ Covering(holiday) = {}
  /\ \/ ~called.off /\ called' = [called EXCEPT !.off = TRUE]
     \/ \E at \in Starts \ {called.moved} : called' = [called EXCEPT !.moved = at]
  /\ UNCHANGED <<term, holiday, student, jobs>> /\ Edit("change")

WithdrawChange ==
  /\ called' \in {[called EXCEPT !.off = FALSE], [called EXCEPT !.moved = Unset]} \ {called}
  /\ UNCHANGED <<term, holiday, student, jobs>> /\ Edit("change")

\* The course is dropped, taken again, or meets at another time.
upload_courses(at) ==
  /\ at # regular /\ regular' = at
  /\ UNCHANGED <<school, rival, optedIn, skipped, offsets, reach, jobs>> /\ Edit("schedule")

\* put_skipped_date and delete_skipped_date.
SkipDate ==
  /\ skipped' = ~skipped
  /\ UNCHANGED <<school, regular, rival, optedIn, offsets, reach, jobs>> /\ Edit("skip")

SetOffsets(chosen) ==
  /\ chosen # offsets /\ offsets' = chosen
  /\ UNCHANGED <<school, regular, rival, optedIn, skipped, reach, jobs>> /\ Edit("prefs")

\* A token is dropped or registered, the device removed or signed in.
Reaches(status) ==
  /\ status # reach /\ reach' = status
  /\ UNCHANGED <<school, regular, rival, optedIn, skipped, offsets, jobs>> /\ Edit("reach")

\* Ticks run every few seconds: no start that is available waits a minute.
\* Reminders may wait, as when the server is down.
MinutePasses ==
  /\ minute < LastMinute
  /\ start.status # "claimed" /\ ~(start.status = "pending" /\ start.at <= minute)
  /\ minute' = minute + 1
  /\ UNCHANGED <<classMix, school, student, jobs, seen, edits>>
  /\ Recorded(standing)

ClassNext ==
  \/ ScanBegins \/ ScanReads \/ ScanFiles \/ ScanAborts
  \/ _claim_due_jobs
  \/ \E k \in Keys : \/ _held_by_course_changes(k) \/ recheck_class_reminder(k)
                      \/ unverified_before_send(k) \/ _deliver_round(k)
  \/ recheck_class_start
  \/ sync_schedule \/ sync_schedule_without
  \/ \E dates \in {"runs", "break", "other"} : upsert_term(dates)
  \/ delete_term
  \/ \E other \in {"none", "school", "added"} : UploadLaterCourse(other)
  \/ \E h \in Holidays : \/ \E days \in {"covers", "elsewhere"} : put_holiday(h, days)
                         \/ delete_holiday(h) \/ set_override(h)
  \/ RecordChange \/ WithdrawChange
  \/ \E at \in Starts \union {Unset} : upload_courses(at)
  \/ SkipDate
  \/ \E chosen \in SUBSET Offsets : SetOffsets(chosen)
  \/ \E status \in {"with", "without", "none"} : Reaches(status)
  \/ MinutePasses

ClassSpec == ClassInit /\ [][ClassNext]_classVars

(***************************************************************************)
(* Properties.                                                             *)
(***************************************************************************)
(* A scan's last word holds until the rows change again.  A class a scan   *)
(* found off is not announced any more, and one it filed a reminder for,   *)
(* and that stayed on, keeps it: no later scan, no lost token and no check *)
(* before the send takes it away, unless it was edited between two of      *)
(* their statements so that what they put together has the class off.      *)
(* (scan_course_reminders against recheck_class_reminder, and everything   *)
(* that edits what both read.)                                             *)
RemindersFollowClasses ==
  \A k \in Keys :
    /\ standing[k] = "gone" => reminder[k].status \notin Working \union {"pending"}
    /\ standing[k] = "filed" => reminder[k].status \in Taken \union {"failed"}

(* A start held for a class that begins later does not sleep through an    *)
(* edit that takes the change back: once due it waits at most              *)
(* _HELD_START_RECHECK (pipeline.py).                                      *)
HeldStartWakes == dueSince # Unset => minute - dueSince <= Wait
=============================================================================
