---------------------------- MODULE MCAccountData ----------------------------
(***************************************************************************)
(* What the devices of one account edit: its courses (two of a term and    *)
(* one of the Moodle mirror), one assignment, and its settings, bulletin   *)
(* rules and flags.  The three share no rows, so a behaviour moves one.    *)
(***************************************************************************)
EXTENDS CourseSync, AssignmentRows, AccountEdits, TLC

CONSTANTS c1, c2, m1, t1, d1, d2, f1, f2, r1, r2, r3

VARIABLE focus      \* the data this behaviour is about

TermOfCourses == c1 :> t1 @@ c2 :> t1 @@ m1 :> NoTerm

EditMixes ==
  {{"settings", "initial"}, {"v4"}, {"create", "replace", "patch", "delete"}, {"state"}}

AccountSymmetry == Permutations(Fetches) \union Permutations(Devices)

\* No handler reads sent.
AccountView == <<focus, row, tomb, reset, clock, assignmentVars, editVars>>

AccountInit ==
  /\ focus \in {"courses", "assignment", "edits"}
  /\ CourseInit /\ AssignmentInit /\ EditInit
  /\ focus # "edits" => mix = {"v4"}
  /\ IF focus = "assignment"
     THEN \/ time = MarkStart /\ changes = MaxMoodleChanges /\ moodle.extension = NoDate
                                                               \* two marks
          \/ time = MaxMarkTime - 1 /\ changes = 0 /\ moodle.extension # FirstDue
                                                               \* a change and a mark
     ELSE /\ moodle.extension = NoDate /\ holder = f1 /\ \A c \in RowIds : ~Exists(c)
          /\ time = MarkStart /\ changes = 0

CourseTurn ==
  focus = "courses" /\ CourseNext /\ UNCHANGED <<focus, assignmentVars, editVars>>
AssignmentTurn ==
  focus = "assignment" /\ AssignmentNext /\ UNCHANGED <<focus, courseVars, editVars>>
EditTurn ==
  focus = "edits" /\ EditNext /\ UNCHANGED <<focus, courseVars, assignmentVars>>

AccountNext == CourseTurn \/ AssignmentTurn \/ EditTurn

AccountSpec ==
  AccountInit /\ [][AccountNext]_<<focus, courseVars, assignmentVars, editVars>>
=============================================================================
