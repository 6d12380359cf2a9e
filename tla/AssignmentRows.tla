-------------------------- MODULE AssignmentRows --------------------------
(***************************************************************************)
(* One assignment of one user: its rows, the marks on them, and everything *)
(* that writes either.  Apps upload it without its Moodle course (a        *)
(* placeholder of course id 0), the server's run lists it under its real   *)
(* course and then asks for its submission and extension, and devices mark *)
(* it done or ignored.  Requests and the two transactions of a run hold    *)
(* the sync lock, so each is one step; Moodle changes between them, and a  *)
(* run that lost its job may still write what its probe answered.          *)
(*                                                                         *)
(* Source: server/routes/sync/assignments.py, snapshot.py,                 *)
(* server/syncjobs/assignments.py, submissions.py, executor.py,            *)
(* server/routes/overrides.py, academics.py, server/sync/upload.py.        *)
(***************************************************************************)
EXTENDS Integers

CONSTANTS
  Fetches,          \* runs of the user's assignment job
  Dates,            \* due dates and extensions
  FirstDue,         \* the due date first listed
  Marks,            \* what a user marks an assignment: done, ignored
  MarkSkew,         \* MAX_CLOCK_SKEW of a mark's stamp
  MarkDelay,        \* how long a request may wait for the sync lock
  MarkStart,        \* the time of the first request
  MaxMarkTime,      \* bound: no request is served later
  MaxMoodleChanges  \* bound: how often the school's data changes

NoDate == 0
NoTime == 0         \* the NULL time; also deleted_at of a live row
Oldest == 1         \* merge.OLDEST
Placeholder == "placeholder"
Server == "server"
RowIds == {Placeholder, Server}
Statuses == Marks \union {"none"}
NoAssignment == [status |-> "absent"]
NoMark == [status |-> "none", at |-> NoTime, received |-> NoTime]

ASSUME AssignmentConstants ==
  /\ Dates \subseteq Nat \ {NoDate} /\ FirstDue \in Dates
  /\ MarkSkew \in Nat /\ MarkDelay \in Nat
  /\ MaxMarkTime \in Nat /\ MarkStart \in Nat /\ MarkStart - MarkDelay > Oldest

VARIABLES
  arow,       \* row id -> its user_assignments row with its mark
  moodle,     \* what the school has: listed due date, extension, submission
  changes,    \* how often moodle has changed
  fetch,      \* run -> how far it is and what it holds in memory
  holder,     \* the run that holds the job
  time,       \* the server's time, later at every request that records a mark
  chosen      \* the latest-stamped mark a device got accepted (read by no handler)

assignmentVars == <<arow, moodle, changes, fetch, holder, time, chosen>>

Exists(c) == arow[c] # NoAssignment
Live(c) == Exists(c) /\ arow[c].deleted_at = NoTime
Later(a, b) == IF a > b THEN a ELSE b
Idle == [at |-> "idle"]

AssignmentRow(due, submitted) ==
  [due_at |-> due, extension_due_at |-> NoDate, submitted |-> submitted,
   deleted_at |-> NoTime, mark |-> NoMark]

(* What the placeholder merge of the database left beside a live server row*)
(* without an override: a soft-deleted placeholder whose mark the apps     *)
(* dropped long ago.                                                       *)
Leftover(due, old) ==
  [c \in RowIds |->
     IF c = Placeholder
     THEN [AssignmentRow(due, FALSE) EXCEPT
             !.deleted_at = Oldest,
             !.mark = [status |-> old, at |-> Oldest + 1, received |-> Oldest]]
     ELSE AssignmentRow(due, FALSE)]

AssignmentInit ==
  /\ moodle \in [due : {FirstDue}, extension : Dates \union {NoDate}, submitted : {FALSE}]
  /\ arow \in {[c \in RowIds |-> NoAssignment]}
       \union {Leftover(moodle.due, old) : old \in Marks}
  /\ changes \in 0 .. MaxMoodleChanges
  /\ fetch = [r \in Fetches |-> Idle]
  /\ holder \in Fetches
  /\ time \in MarkStart .. MaxMarkTime
  /\ chosen = NoMark

(***************************************************************************)
(* The school.                                                             *)
(***************************************************************************)
MoodleChanges ==
  /\ changes < MaxMoodleChanges /\ changes' = changes + 1
  /\ \/ \E d \in Dates : moodle' = [moodle EXCEPT !.due = d]
     \/ \E e \in Dates \union {NoDate} : moodle' = [moodle EXCEPT !.extension = e]
     \/ moodle' = [moodle EXCEPT !.submitted = TRUE]
  /\ UNCHANGED <<arow, fetch, holder, time, chosen>>

(***************************************************************************)
(* The rows an app or a request means.                                     *)
(***************************************************************************)
(* Uploads prefer the server's row, live or not.                           *)
RowOfUpload ==
  IF Exists(Server) THEN Server ELSE Placeholder

(* Marks and the first-run import prefer a live row, then the server's.    *)
_get_assignment_by_moodle_id ==
  IF Live(Server) THEN Server
  ELSE IF Live(Placeholder) THEN Placeholder
  ELSE RowOfUpload

Ticks == time < MaxMarkTime /\ time' = time + 1
Arrived == (time - MarkDelay) .. time

(* An app reports the assignments it shows: the student's own date, a      *)
(* submission it saw at the school.                                        *)
upload_assignments ==
  \E due \in Dates, is_submitted \in BOOLEAN :
    LET row == IF Exists(RowOfUpload) THEN arow[RowOfUpload]
               ELSE AssignmentRow(due, FALSE)
    IN /\ is_submitted => moodle.submitted
       /\ arow' = [arow EXCEPT ![RowOfUpload] =
            [row EXCEPT !.due_at = IF RowOfUpload = Placeholder THEN due ELSE @,
                        !.submitted = @ \/ is_submitted]]
       /\ UNCHANGED <<moodle, changes, fetch, holder, time, chosen>>

(* Per-field merge of a mark by stamp (apply_field).                       *)
Stamped(mark, status, ts, now, received) ==
  LET at == IF ts > now + MarkSkew THEN now + MarkSkew ELSE ts
  IN IF at > mark.at
     THEN [status |-> status, at |-> at, received |-> received] ELSE mark

Chosen(status, ts, now) == chosen' = Stamped(chosen, status, ts, now, NoTime)

(* PATCH: a mark goes to the row the apps see, a clear to every row.       *)
patch_assignment_override ==
  \E status \in Statuses, now \in Arrived, ts \in (Oldest + 1) .. (time + MarkSkew) :
    LET target == _get_assignment_by_moodle_id
        rows == IF status = "none" THEN {c \in RowIds : Exists(c)} ELSE {target}
    IN /\ Ticks
       /\ Exists(target)
       /\ arow' = [c \in RowIds |->
            IF c \in rows
            THEN [arow[c] EXCEPT !.mark = Stamped(@, status, ts, now, now)]
            ELSE arow[c]]
       /\ Chosen(status, ts, now)
       /\ UNCHANGED <<moodle, changes, fetch, holder>>

(* PUT by row id: only a live row takes a mark.                            *)
put_assignment_override ==
  \E c \in RowIds, status \in Statuses, ts \in (Oldest + 1) .. (time + MarkSkew) :
    /\ Ticks
    /\ Live(c)
    /\ arow' = [arow EXCEPT ![c].mark = Stamped(@, status, ts, time, time)]
    /\ Chosen(status, ts, time)
    /\ UNCHANGED <<moodle, changes, fetch, holder>>

(* First-run import: a known assignment only gains a submission; an        *)
(* unknown one becomes a row; marks without a time count as the oldest.    *)
import_assignments ==
  \E due \in Dates, is_submitted \in BOOLEAN, status \in Statuses,
     now \in Arrived, ts \in {Oldest} \union ((Oldest + 1) .. (time + MarkSkew)) :
    LET target == _get_assignment_by_moodle_id
        row == IF Exists(target)
               THEN [arow[target] EXCEPT !.submitted = @ \/ is_submitted]
               ELSE AssignmentRow(due, is_submitted)
    IN /\ Ticks
       /\ is_submitted => moodle.submitted
       /\ arow' = [arow EXCEPT ![target] =
            [row EXCEPT !.mark = Stamped(@, status, ts, now, time)]]
       /\ Chosen(status, ts, now)
       /\ UNCHANGED <<moodle, changes, fetch, holder>>

(***************************************************************************)
(* A run of the assignment job: list, store the listing, ask about         *)
(* submissions and extensions, store the answers.                          *)
(***************************************************************************)
with_extension(due, extension) == IF extension = NoDate THEN due ELSE Later(due, extension)

kept_extension(due, extension) == IF extension <= due THEN NoDate ELSE extension

(* The answer of the listing: the assignment, an answer without it, or one *)
(* that refused its course or (only) others.                               *)
Answers == {"lists", "leaves_out", "refused", "refused_other"}

List(r) ==
  /\ fetch[r] = Idle
  /\ \E answer \in Answers :
       fetch' = [fetch EXCEPT ![r] =
                   [at |-> "listed", answer |-> answer, due |-> moodle.due]]
  /\ holder' = r
  /\ UNCHANGED <<arow, moodle, changes, time, chosen>>

(* A run that was taken over stores nothing (_lock_owned_job).             *)
Lost(r) ==
  /\ fetch[r].at = "listed" /\ holder # r
  /\ fetch' = [fetch EXCEPT ![r] = Idle]
  /\ UNCHANGED <<arow, moodle, changes, holder, time, chosen>>

\* Mutant of TakenOver: a listed assignment gets a row of its own beside its placeholder.
TakenOver_new(due) == arow[Server]

(* The row a listed assignment goes to: the server's, or the placeholder   *)
(* taken over, whose later date counts as an extension.                    *)
TakenOver(due) ==
  IF Exists(Server) \/ ~Exists(Placeholder) THEN arow[Server]
  ELSE [arow[Placeholder] EXCEPT
          !.extension_due_at = IF arow[Placeholder].due_at > due
                               THEN arow[Placeholder].due_at ELSE @]

ListedRow(due) ==
  LET row == TakenOver(due)
      extension == kept_extension(due, row.extension_due_at)
  IN IF row = NoAssignment THEN AssignmentRow(due, FALSE)
     ELSE [row EXCEPT !.extension_due_at = extension,
                      !.due_at = with_extension(due, extension),
                      !.deleted_at = NoTime]

SoftDeleted(row, now) ==
  IF row # NoAssignment /\ row.deleted_at = NoTime
  THEN [row EXCEPT !.deleted_at = now] ELSE row

(* Asked about next: a live row that is not submitted and whose due date   *)
(* is near, extended or just moved back.  Which dates are near is the      *)
(* clock's choice; a request in between can only leave less to ask.        *)
select_assignment_ids == \E c \in RowIds : Live(c) /\ ~arow[c].submitted

apply_fetched_assignments(r) ==
  \E now \in Arrived :
    LET answer == fetch[r].answer
        due == fetch[r].due
    IN /\ fetch[r].at = "listed" /\ holder = r
       /\ arow' = [c \in RowIds |->
            CASE answer = "lists" /\ c = Server -> ListedRow(due)
              [] answer = "lists" /\ c = Placeholder ->
                   IF Exists(Server) THEN SoftDeleted(arow[c], now) ELSE NoAssignment
              [] answer = "leaves_out" -> SoftDeleted(arow[c], now)
              [] answer = "refused" -> arow[c]
              [] answer = "refused_other" ->
                   IF c = Server THEN SoftDeleted(arow[c], now) ELSE arow[c]]
       /\ \/ fetch' = [fetch EXCEPT ![r] = Idle]
          \/ /\ answer = "lists" /\ select_assignment_ids'
             /\ fetch' = [fetch EXCEPT ![r] = [at |-> "asking", due |-> due]]
       /\ UNCHANGED <<moodle, changes, holder, time, chosen>>

fetch_submission_status(r) ==
  /\ fetch[r].at = "asking"
  /\ \/ fetch' = [fetch EXCEPT ![r] =
           [at |-> "answered", due |-> fetch[r].due,
            extension |-> moodle.extension, submitted |-> moodle.submitted]]
     \/ fetch' = [fetch EXCEPT ![r] = Idle]
  /\ UNCHANGED <<arow, moodle, changes, holder, time, chosen>>

apply_submission_status(row, answer) ==
  [row EXCEPT !.submitted = @ \/ answer.submitted]

apply_extensions(row, answer) ==
  LET extension == kept_extension(answer.due, answer.extension)
  IN [row EXCEPT !.extension_due_at = extension,
                 !.due_at = with_extension(answer.due, extension)]

(* No ownership check here: a run that lost its job stores its answers.    *)
_refresh_submission_status(r) ==
  /\ fetch[r].at = "answered"
  /\ arow' = [c \in RowIds |->
       IF Live(c)
       THEN apply_extensions(apply_submission_status(arow[c], fetch[r]), fetch[r])
       ELSE arow[c]]
  /\ fetch' = [fetch EXCEPT ![r] = Idle]
  /\ UNCHANGED <<moodle, changes, holder, time, chosen>>

FetchStep(r) == \/ List(r) \/ Lost(r) \/ apply_fetched_assignments(r)
                \/ fetch_submission_status(r)
                \/ _refresh_submission_status(r)

AssignmentNext ==
  \/ MoodleChanges
  \/ upload_assignments
  \/ patch_assignment_override
  \/ put_assignment_override
  \/ import_assignments
  \/ \E r \in Fetches : FetchStep(r)

AssignmentSpec == AssignmentInit /\ [][AssignmentNext]_assignmentVars

\* Mutant of _hidden_since_received: every mark on a soft-deleted row can be keyed.
_hidden_since_received_never(c) == FALSE

(***************************************************************************)
(* The marks GET /sync/full sends with a key; an app reads a mark without  *)
(* one as cleared.                                                         *)
(***************************************************************************)
_hidden_since_received(c) ==
  /\ Exists(Server)
  /\ arow[Server].deleted_at > Later(arow[c].deleted_at, arow[c].mark.received)

(* A mark's stamp, then its id: the server row's override is the newer.    *)
_marked_at(c) == 2 * arow[c].mark.at + IF c = Server THEN 1 ELSE 0

(* Candidates on soft-deleted rows, the newest of which is keyed.          *)
_keys_for_marks_on_deleted_rows ==
  LET orphans == {c \in RowIds : /\ Exists(c) /\ ~Live(c)
                                 /\ arow[c].mark # NoMark
                                 /\ ~_hidden_since_received(c)}
  IN IF \E c \in RowIds : Live(c) THEN {}
     ELSE {c \in orphans : \A d \in orphans : _marked_at(d) <= _marked_at(c)}

Keyed == {c \in RowIds : Live(c) /\ arow[c].mark # NoMark}
           \union _keys_for_marks_on_deleted_rows

(***************************************************************************)
(* Properties.                                                             *)
(***************************************************************************)
(* One assignment keeps one row: whatever order uploads, imports, listings *)
(* and refusals come in, none adds a row beside another (upload_assignments*)
(* and the takeover of a placeholder by apply_fetched_assignments).        *)
RowsNeverMultiply ==
  [][(\A c \in RowIds : Exists(c)') => \A c \in RowIds : Exists(c)]_assignmentVars

(* A submission an app or a probe recorded on the row the apps see is      *)
(* never lost, through takeovers, soft-deletes, returns and late answers.  *)
SubmissionStays ==
  [][LET seen == _get_assignment_by_moodle_id
     IN Exists(seen) /\ arow[seen].submitted
          => arow'[_get_assignment_by_moodle_id'].submitted]_assignmentVars

(* What /sync/full shows of the assignment is the mark stamped last of all *)
(* that were accepted: a mark cleared, or dropped by the apps, never comes *)
(* back from a soft-deleted row, and a mark is not lost with its row.      *)
ShownMarkIsLastChoice ==
  /\ \A c \in Keyed : arow[c].mark.status = chosen.status
  /\ chosen # NoMark => Keyed # {}

(* A stored extension always means the due date comes from it              *)
(* (kept_extension), whichever of listing, takeover and probe wrote last.  *)
ExtensionGivesDate ==
  \A c \in RowIds : Exists(c) /\ arow[c].extension_due_at # NoDate
                       => arow[c].due_at = arow[c].extension_due_at

(* An extended date moves back only on an answer of Moodle about the       *)
(* extension: a failed probe, a new listing or an upload never does it     *)
(* (apply_extensions, the takeover of an uploaded date).                   *)
ExtendedDateMovesBackOnAnswer ==
  [][LET seen == _get_assignment_by_moodle_id
     IN /\ Exists(seen) /\ arow[seen].extension_due_at # NoDate
        /\ arow'[_get_assignment_by_moodle_id'].due_at < arow[seen].due_at
       => \E r \in Fetches : fetch[r].at = "answered" /\ fetch'[r] = Idle]_assignmentVars

(* Uploads, imports, listings and probes of several runs together keep     *)
(* what was stored: one row, its submission, and an extended date.         *)
AssignmentKept ==
  /\ RowsNeverMultiply /\ SubmissionStays
  /\ []ExtensionGivesDate /\ ExtendedDateMovesBackOnAnswer
=============================================================================
