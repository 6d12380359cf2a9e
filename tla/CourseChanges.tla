---------------------------- MODULE CourseChanges ----------------------------
(***************************************************************************)
(* The changes operators record for one course of a term: cancelled        *)
(* classes, other rooms, starts or ends, on some days and in some periods. *)
(* The apps' feed and the pushes take the one change of a kind that        *)
(* applies to a meeting, so no two may; _check sees to that by the         *)
(* timetable it reads, and holds a lock on the course until the write      *)
(* commits.  The timetable is the students': the latest upload of an       *)
(* enrolled row.                                                           *)
(*                                                                         *)
(* Source: portal/app/routes/course_changes.py, and the reader in          *)
(* server/academic_calendar/changes.py.                                    *)
(***************************************************************************)
EXTENDS Integers, FiniteSets

CONSTANTS
  Weekdays,      \* days of the term
  Periods,       \* of a day, in NTUST's order
  Timetables,    \* day -> periods the course meets in: what students may upload
  Bodies,        \* what operators ask for: days of a change, and periods or the whole day
  Kinds,         \* the kinds a behaviour may be about, notes left out
  Operators,
  ChangeIds,     \* bound: changes ever inserted
  NoChange, Nobody

ASSUME ChangeConstants ==
  /\ Periods \subseteq Nat /\ Timetables \subseteq [Weekdays -> SUBSET Periods]
  /\ Bodies \subseteq [days : (SUBSET Weekdays) \ {{}}, periods : SUBSET Periods]
  /\ Kinds \subseteq {"cancelled", "room", "start", "end"}
  /\ Nobody \notin Operators /\ ChangeIds \subseteq Nat /\ NoChange \notin ChangeIds

VARIABLES
  kind,         \* the kind of this behaviour's changes
  timetable,    \* the schedule of the latest row
  change,       \* course_changes: id -> [days, periods, under]; periods = {} is the
                \* whole day, under is the history of the timetable it was checked by
  courseLock,   \* who holds the advisory lock of the course
  rowLock,      \* id -> who holds the row
  writer        \* operator -> his request

changeVars == <<kind, timetable, change, courseLock, rowLock, writer>>

Stored == {i \in ChangeIds : change[i] # NoChange}
Unused == ChangeIds \ {i \in ChangeIds : \E j \in Stored : j >= i}
Resting == [at |-> "rest"]

ChangesInit ==
  /\ kind \in Kinds /\ timetable \in Timetables
  /\ change = [i \in ChangeIds |-> NoChange]
  /\ courseLock = Nobody /\ rowLock = [i \in ChangeIds |-> Nobody]
  /\ writer = [o \in Operators |-> Resting]

(***************************************************************************)
(* What a change covers.                                                   *)
(***************************************************************************)
\* The days of a change the course meets on.
_meeting_days(table, body) == {d \in body.days : table[d] # {}}

\* A day's periods as meetings: the longest runs back to back.
_meetings(periods) ==
  {run \in (SUBSET periods) \ {{}} :
     \E first, last \in periods :
       /\ run = {p \in periods : first <= p /\ p <= last}
       /\ \A p \in first..last : p \in periods
       /\ first - 1 \notin periods /\ last + 1 \notin periods}

\* A start or an end belongs to one meeting.
OneMeeting(table, body) ==
  kind \in {"start", "end"} =>
    \A d \in _meeting_days(table, body) :
      IF body.periods = {} THEN Cardinality(_meetings(table[d])) <= 1
      ELSE body.periods \in _meetings(table[d])

Sound(table, body) ==
  /\ _meeting_days(table, body) # {}
  /\ \A d \in _meeting_days(table, body) : body.periods \subseteq table[d]
  /\ OneMeeting(table, body)

Apart(body, other) ==
  body.periods # {} /\ other.periods # {} /\ body.periods \intersect other.periods = {}

\* Mutant of Clashes: a change of the whole day clashes with none of a period.
Clashes_by_period(table, body, other) ==
  /\ body.periods = other.periods \/ body.periods \intersect other.periods # {}
  /\ \E d \in _meeting_days(table, body) \intersect _meeting_days(table, other) :
       other.periods \subseteq table[d]

Clashes(table, body, other) ==
  /\ ~Apart(body, other)
  /\ \E d \in _meeting_days(table, body) \intersect _meeting_days(table, other) :
       other.periods \subseteq table[d]

(***************************************************************************)
(* The requests.                                                           *)
(***************************************************************************)
Goes(o, to) == writer' = [writer EXCEPT ![o] = to]

\* A new change; the operator's form sends every field.
create_change(o) ==
  /\ writer[o].at = "rest" /\ Unused # {}
  /\ \E body \in Bodies : Goes(o, [at |-> "asked", body |-> body, id |-> NoChange])
  /\ UNCHANGED <<kind, timetable, change, courseLock, rowLock>>

\* The row first, FOR NO KEY UPDATE; one that is gone is a 404.
update_change(o) ==
  /\ writer[o].at = "rest"
  /\ \E i \in Stored, body \in Bodies :
       /\ rowLock[i] = Nobody
       /\ rowLock' = [rowLock EXCEPT ![i] = o]
       /\ Goes(o, [at |-> "asked", body |-> body, id |-> i])
  /\ UNCHANGED <<kind, timetable, change, courseLock>>

delete_change(o) ==
  /\ writer[o].at = "rest"
  /\ \E i \in Stored : rowLock[i] = Nobody /\ change' = [change EXCEPT ![i] = NoChange]
  /\ UNCHANGED <<kind, timetable, courseLock, rowLock, writer>>

\* Mutant of LockCourse: nobody is waited for.
LockCourse_unlocked(o) ==
  /\ writer[o].at = "asked"
  /\ Goes(o, [writer[o] EXCEPT !.at = "locked"])
  /\ UNCHANGED <<kind, timetable, change, courseLock, rowLock>>

\* pg_advisory_xact_lock.
LockCourse(o) ==
  /\ writer[o].at = "asked" /\ courseLock = Nobody
  /\ courseLock' = o
  /\ Goes(o, [writer[o] EXCEPT !.at = "locked"])
  /\ UNCHANGED <<kind, timetable, change, rowLock>>

Ended(o) ==
  /\ Goes(o, Resting)
  /\ courseLock' = IF courseLock = o THEN Nobody ELSE courseLock
  /\ rowLock' = [i \in ChangeIds |-> IF rowLock[i] = o THEN Nobody ELSE rowLock[i]]

\* Against the timetable and the other changes as they are read here.
_check(o) ==
  LET body == writer[o].body
      others == Stored \ {writer[o].id}
  IN  /\ writer[o].at = "locked"
      /\ IF Sound(timetable, body) /\ \A i \in others : ~Clashes(timetable, body, change[i])
         THEN /\ Goes(o, [at |-> "checked", id |-> writer[o].id,
                          body |-> [days |-> body.days, periods |-> body.periods,
                                    under |-> timetable]])
              /\ UNCHANGED <<courseLock, rowLock>>
         ELSE Ended(o)
      /\ UNCHANGED <<kind, timetable, change>>

\* INSERT or UPDATE, and commit.
Write(o) ==
  LET id == IF writer[o].id = NoChange THEN CHOOSE i \in Unused : \A j \in Unused : i <= j
            ELSE writer[o].id
  IN  /\ writer[o].at = "checked"
      /\ writer[o].id # NoChange \/ Unused # {}
      /\ change' = [change EXCEPT ![id] = writer[o].body]
      /\ Ended(o)
      /\ UNCHANGED <<kind, timetable>>

\* The transaction fails.
Fails(o) ==
  /\ writer[o].at # "rest" /\ Ended(o)
  /\ UNCHANGED <<kind, timetable, change>>

\* A student's upload makes another schedule the latest.
Upload ==
  /\ timetable' \in Timetables \ {timetable}
  /\ UNCHANGED <<kind, change, courseLock, rowLock, writer>>

ChangesNext ==
  \/ \E o \in Operators : \/ create_change(o) \/ update_change(o) \/ delete_change(o)
                          \/ LockCourse(o) \/ _check(o) \/ Write(o) \/ Fails(o)
  \/ Upload

ChangesSpec == ChangesInit /\ [][ChangesNext]_changeVars

(***************************************************************************)
(* Properties.                                                             *)
(***************************************************************************)
\* meeting_changes: the changes that reach the meeting of that day that
\* starts in that period.
meeting_changes(d, first) ==
  {i \in Stored : /\ d \in change[i].days
                  /\ timetable[d] # {} /\ change[i].periods \subseteq timetable[d]
                  /\ change[i].periods = {} \/ first \in change[i].periods}

(* "The portal takes one change of a kind per course, day and period":     *)
(* however the requests of operators overlap, a meeting has two only if    *)
(* the timetable changed since one of them was checked (_check).           *)
OneChangePerMeeting ==
  \A d \in Weekdays, first \in Periods : \A i, j \in meeting_changes(d, first) :
    i # j => change[i].under # timetable \/ change[j].under # timetable
=============================================================================
