---------------------------- MODULE LastChoice ----------------------------
(***************************************************************************)
(* What TigerSync promises about course membership, without rows,          *)
(* tombstones or rosters: per course key there is one last choice, and it  *)
(* is the latest by stamp of all the edits the server was sent, in         *)
(* whatever order they came (server/sync/membership.py).  CourseSync       *)
(* implements this module.                                                 *)
(***************************************************************************)
EXTENDS Integers

CONSTANT Courses      \* course keys

VARIABLES
  choice,             \* course key -> the last choice: an operation and its stamp
  sent                \* the request served last: its edits, and how they count

(* Stamps are clock values; 0 stands for no stamp.                         *)
None == 0
NoChoice == [op |-> "none", at |-> None]
NoEdits == [k \in Courses |-> NoChoice]

LastChoiceInit ==
  /\ choice = NoEdits
  /\ sent = [by |-> "school", edits |-> NoEdits]

(* An edit wins when stamped later than what it would replace; a reset     *)
(* also clears what is stamped exactly at it.                              *)
Wins(e, c) == \/ e.at > c.at
              \/ e.op = "reset" /\ e.at = c.at /\ e.at # None

Merged(c, e) == [k \in Courses |-> IF Wins(e[k], c[k]) THEN e[k] ELSE c[k]]

(* A request whose edits are compared by stamp.                            *)
ByStamp == sent'.by = "stamp" /\ choice' = Merged(choice, sent'.edits)

(* The released apps' adds and resets are not compared: they stand against *)
(* every earlier or later add, hide and removal, though not against a      *)
(* reset recorded with a later stamp.                                      *)
ByArrival ==
  /\ sent'.by = "arrival"
  /\ \A k \in Courses :
       LET e == sent'.edits[k] IN
       IF e = NoChoice THEN choice'[k] = choice[k]
       ELSE \/ choice'[k] = e
            \/ choice'[k].op = "reset" /\ choice'[k].at >= e.at

(* A roster makes no choice.  One of the released app that removed a       *)
(* hand-added course takes its own removal back, and what was chosen       *)
(* before stands.                                                          *)
BySchool ==
  /\ sent'.by = "school"
  /\ \A k \in Courses :
       \/ choice'[k] = choice[k]
       \/ /\ choice[k].op = "remove" /\ choice'[k].op # "remove"
          /\ choice'[k].at <= choice[k].at

LastChoiceNext == ByStamp \/ ByArrival \/ BySchool
LastChoiceSpec ==
  LastChoiceInit /\ [][LastChoiceNext]_<<choice, sent>>
============================================================================
