---------------------------- MODULE MCCalendar ----------------------------
(***************************************************************************)
(* What operators change of a course and students are told of it: the      *)
(* changes of one course, and the class pushes of one day.  The two share  *)
(* no rows but the changes, of which ClassPushes takes only what           *)
(* CourseChanges allows, so a behaviour moves one.                         *)
(***************************************************************************)
EXTENDS CourseChanges, ClassPushes, TLC

CONSTANTS o1, o2, h1, h2

VARIABLE focus      \* what this behaviour is about

Table(first, second) == [d \in Weekdays |-> IF d = 1 THEN first ELSE second]
MCTimetables == {Table({1}, {}), Table({1, 2}, {2}), Table({1, 2}, {1, 2})}
Days(days, periods) == [days |-> days, periods |-> periods]
MCBodies == {Days({1}, {}), Days({1, 2}, {1}), Days({2}, {2}), Days({1}, {1, 2})}

MCClassMixes ==
  {{"scan", "term"}, {"scan", "holiday"}, {"scan", "change", "schedule"},
   {"scan", "reach", "prefs", "skip"},
   {"start", "change", "holiday"}, {"start", "change", "term"}}

CalendarInit ==
  /\ focus \in {"changes", "classes"}
  /\ ChangesInit /\ ClassInit
  /\ focus # "changes" => kind = "start" /\ timetable = Table({1}, {})
  /\ focus # "classes" => classMix = {"scan", "term"}
  \* The later start leaves time for a second scan.
  /\ "scan" \in classMix => regular = 4
  /\ "holiday" \notin classMix => holiday = [h \in Holidays |-> "absent"]

ChangesTurn == focus = "changes" /\ ChangesNext /\ UNCHANGED <<focus, classVars>>
ClassTurn == focus = "classes" /\ ClassNext /\ UNCHANGED <<focus, changeVars>>

CalendarNext == ChangesTurn \/ ClassTurn

CalendarSpec == CalendarInit /\ [][CalendarNext]_<<focus, changeVars, classVars>>
=============================================================================
