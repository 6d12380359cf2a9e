---------------------------- MODULE CourseSync ----------------------------
(***************************************************************************)
(* One user's courses on the server, and every request that changes them:  *)
(* protocol-2 and /v4 apps stamp their edits, released apps do not, school *)
(* rosters carry no choice.  Every handler holds the user's sync lock from *)
(* its first read to its commit (lock_sync_state), so a request is one     *)
(* step; the order in which requests get the lock is free, an edit may     *)
(* arrive long after it was made and again after a lost reply, and the     *)
(* arrival time a handler works with may be earlier than what was served   *)
(* before it.                                                              *)
(*                                                                         *)
(* Source: server/sync/merge.py, membership.py, upload.py,                 *)
(* server/routes/sync/uploads.py, courses.py, snapshot.py,                 *)
(* server/routes/overrides.py, academics.py, server/syncjobs/courses.py.   *)
(***************************************************************************)
EXTENDS Integers

CONSTANTS
  Keys,             \* course keys the apps upload ("client:...")
  Mirrored,         \* course keys of the server's own Moodle mirror ("moodle:...")
  Terms,            \* the terms of Keys
  Term,             \* key -> its term
  NoTerm,           \* the term of a mirrored course: the empty string
  Full,             \* the scope of a full reset
  Edited,           \* the courses the user edits; rosters list the others too
  Devices,
  Fields,           \* override fields: "color_hex", "ignore_assignments", a locale's name
  Values,           \* what an override field can be set to
  Empty,            \* the empty value of an override field
  NoRow, NoTombstone,
  MAX_CLOCK_SKEW,   \* how far ahead of the server a stamp may be
  Waits,            \* how long a request may wait for the lock
  TombstoneDays,    \* how far back released apps are sent tombstones
  Start, MaxClock   \* the first and the last time a request is served

None == 0           \* no stamp
OLDEST == 1         \* what a value sent without a time counts as
Courses == Keys \union Mirrored

ASSUME CourseConstants ==
  /\ Keys \cap Mirrored = {} /\ Edited \subseteq Courses
  /\ Term \in [Courses -> Terms \union {NoTerm}]
  /\ \A k \in Courses : Term[k] = NoTerm <=> k \in Mirrored
  /\ NoTerm \notin Terms /\ Full \notin Terms \union {NoTerm}
  /\ MAX_CLOCK_SKEW \in Nat /\ TombstoneDays \in Nat
  /\ Start \in Nat /\ MaxClock \in Nat
  /\ 0 \in Waits /\ \A wait \in Waits : wait \in Nat /\ Start - wait > OLDEST

\* What the tables hold: user_courses rows with their override, and tombstones.
FieldStates == [value : Values \union {Empty}, at : Nat]
Rows == [source : {"user_added", "ntust_portal"}, added_at : Nat,
         status : {"enrolled", "dropped"}, fields : [Fields -> FieldStates]]
Tombstones == [deleted_at : Nat, by : Devices, deleted_by_reset : BOOLEAN,
               user_added : BOOLEAN]

ASSUME CourseNulls == NoRow \notin Rows /\ NoTombstone \notin Tombstones

VARIABLES
  row,        \* course key -> its user_courses row with its override, or NoRow
  tomb,       \* course key -> its tombstone, or NoTombstone
  reset,      \* users.courses_reset_at and user_semester_resets, by scope
  clock,      \* the server's time, later at every request
  sent        \* the request served last (read by no handler)

courseVars == <<row, tomb, reset, clock, sent>>

(***************************************************************************)
(* Stamps and choices: merge.py and membership.py.                         *)
(***************************************************************************)
Hide == "hide"
Remove == "remove"
Reset == "reset"

tombstone_kind(t) == IF t = NoTombstone THEN "none"
                     ELSE IF t.deleted_by_reset THEN Reset
                     ELSE IF t.user_added THEN Remove ELSE Hide

latest(a, b) == IF a > b THEN a ELSE b

covering(term) == latest(reset[Full], reset[term])

AddedAt(k) == IF row[k] = NoRow THEN None ELSE row[k].added_at
DeletedAt(k) == IF tomb[k] = NoTombstone THEN None ELSE tomb[k].deleted_at

\* Mutant of membership_stamp: the tombstone is not among the stamps an edit must beat.
membership_stamp_untombed(k) == latest(AddedAt(k), covering(Term[k]))

membership_stamp(k) == latest(latest(AddedAt(k), DeletedAt(k)), covering(Term[k]))

(* The stamps an edit can carry when it is served: its device's clock      *)
(* value, or its arrival less its age; later ones get 409 clock_ahead.     *)
edit_time == (OLDEST + 1) .. (clock + MAX_CLOCK_SKEW)

clamp_ts(ts, now) == IF ts > now + MAX_CLOCK_SKEW THEN now + MAX_CLOCK_SKEW ELSE ts

(* One field of an override: a value and its stamp.                        *)
Unset == [value |-> Empty, at |-> None]

\* Mutant of apply_field: the edit that arrives last wins.
apply_field_by_arrival(field, value, ts, now) == [value |-> value, at |-> clamp_ts(ts, now)]

apply_field(field, value, ts, now) ==
  IF clamp_ts(ts, now) > field.at
  THEN [value |-> value, at |-> clamp_ts(ts, now)] ELSE field

\* Mutant of override_outlasts: later override values are not looked at.
override_outlasts_never(r, at) == FALSE

override_outlasts(r, at) == \E f \in Fields : r.fields[f].at > at

clear_before(r, at) ==
  [r EXCEPT !.added_at = IF @ <= at THEN None ELSE @,
            !.fields = [f \in Fields |->
               IF r.fields[f] # Unset /\ r.fields[f].at <= at
               THEN [value |-> Empty, at |-> at] ELSE r.fields[f]]]

Row(source, added_at, status) ==
  [source |-> source, added_at |-> added_at, status |-> status,
   fields |-> [f \in Fields |-> Unset]]

Tombstone(at, device, by_reset, user_added) ==
  [deleted_at |-> at, by |-> device, deleted_by_reset |-> by_reset,
   user_added |-> user_added]

(***************************************************************************)
(* Requests.  now is when the request arrived; it is served at clock.      *)
(***************************************************************************)
Arrivals == {clock - wait : wait \in Waits}
Serve == clock <= MaxClock /\ clock' = clock + 1

Choice(op, at) == [op |-> op, at |-> at]
NoEdits == [k \in Courses |-> Choice("none", None)]
Sent(by, edits) ==
  sent' = [by |-> by,
           edits |-> [k \in Courses |->
                        IF k \in DOMAIN edits THEN edits[k] ELSE NoEdits[k]]]

CourseInit ==
  /\ row = [k \in Courses |-> NoRow]
  /\ tomb = [k \in Courses |-> NoTombstone]
  /\ reset = [s \in Terms \union {NoTerm, Full} |-> None]
  /\ clock = Start
  /\ sent = [by |-> "school", edits |-> NoEdits]

(* The upsert of one uploaded course: its row afterwards.  A stamp of None *)
(* leaves added_at as it is.                                               *)
Upserted(k, by_hand, back_by_hand, by_school, added_at, enrol) ==
  IF row[k] = NoRow
  THEN Row(IF by_hand THEN "user_added" ELSE "ntust_portal", added_at, "enrolled")
  ELSE [row[k] EXCEPT
          !.source = IF back_by_hand THEN "user_added"
                     ELSE IF by_school THEN "ntust_portal" ELSE @,
          !.added_at = IF added_at # None THEN added_at ELSE @,
          !.status = IF enrol THEN "enrolled" ELSE @]

(* A roster leaves out what the student dropped: a school course of its    *)
(* term that no hand added, nothing deleted and the upload does not list.  *)
Dropped(uploaded, hand_keys, roster_terms) ==
  LET rostered == roster_terms \cap {Term[k] : k \in uploaded \ hand_keys} IN
  {k \in Courses \ uploaded :
     /\ Term[k] \in rostered
     /\ row[k] # NoRow
     /\ row[k].source = "ntust_portal"
     /\ row[k].added_at = None
     /\ row[k].status = "enrolled"
     /\ tomb[k] = NoTombstone}

(* Protocol 2's membership rules for an upload: the adds that win, the     *)
(* keys it skips and the tombstones it lifts.                              *)
Won(adds) == {k \in DOMAIN adds : adds[k] > membership_stamp(k)}

\* Mutant of SkippedByStamp: a roster is not bound by a hide.
SkippedByStamp_adds_only(uploaded, adds) == DOMAIN adds \ Won(adds)

SkippedByStamp(uploaded, adds) ==
  (DOMAIN adds \ Won(adds))
    \union {k \in uploaded \ DOMAIN adds : tombstone_kind(tomb[k]) = Hide}
LiftedByStamp(uploaded, adds) ==
  Won(adds) \union
    {k \in uploaded \ DOMAIN adds : tombstone_kind(tomb[k]) = Reset}

(* POST /courses/upload under protocol 2 and /v4.                          *)
upload_courses_v4(uploaded, adds, roster_terms) ==
  LET won == Won(adds)
      school_back == {k \in won : tomb[k] # NoTombstone /\ ~tomb[k].user_added}
      enrol == won \union {k \in uploaded : Term[k] \in roster_terms}
      dropped == Dropped(uploaded, DOMAIN adds, roster_terms)
  IN /\ Serve
     /\ row' = [k \in Courses |->
          IF k \in uploaded \ SkippedByStamp(uploaded, adds)
          THEN Upserted(k, k \in won \ school_back, FALSE,
                        k \notin DOMAIN adds,
                        IF k \in won THEN adds[k] ELSE None, k \in enrol)
          ELSE IF k \in dropped THEN [row[k] EXCEPT !.status = "dropped"]
          ELSE row[k]]
     /\ tomb' = [k \in Courses |-> IF k \in LiftedByStamp(uploaded, adds)
                                   THEN NoTombstone ELSE tomb[k]]
     /\ Sent("stamp", [k \in DOMAIN adds |-> Choice("add", adds[k])])
     /\ UNCHANGED reset

(* What a released app's upload does to tombstones: a forced key's goes,   *)
(* and so does one of its own device, if a reset's or, in an upload that   *)
(* forces nothing, a removal's.                                            *)
TombAfterRelease(d, uploaded, force_keys) ==
  [k \in Courses |->
     IF \/ k \in force_keys
        \/ /\ k \in uploaded /\ tomb[k] # NoTombstone /\ tomb[k].by = d
           /\ tomb[k].deleted_by_reset \/ (force_keys = {} /\ tomb[k].user_added)
     THEN NoTombstone ELSE tomb[k]]

(* The keys a released app's upload leaves out: a removal beside a row     *)
(* binds nobody.                                                           *)
SkippedByTombstone(d, uploaded, force_keys) ==
  {k \in uploaded :
     LET t == TombAfterRelease(d, uploaded, force_keys)[k] IN
     /\ t # NoTombstone
     /\ ~(tombstone_kind(t) = Remove /\ row[k] # NoRow)}

(* A released app's colour fills a course without one, as the oldest       *)
(* value; a course the server had refuses it under a reset.                *)
Filled(k, r, fill) ==
  IF /\ "color_hex" \in Fields /\ fill # Empty
     /\ ~(row[k] # NoRow /\ covering(Term[k]) # None)
     /\ r.fields["color_hex"].value = Empty
  THEN [r EXCEPT !.fields["color_hex"] = apply_field(@, fill, OLDEST, clock)]
  ELSE r

(* POST /courses/upload from a released app.                               *)
upload_courses(d, now, uploaded, force_keys, roster_terms, fill) ==
  LET cleared == {k \in force_keys : tomb[k] # NoTombstone}
      added_by_hand == force_keys \ {k \in cleared : ~tomb[k].user_added}
      back_by_hand == {k \in cleared : tomb[k].user_added}
      enrol == force_keys \union {k \in uploaded : Term[k] \in roster_terms}
      dropped == Dropped(uploaded, force_keys, roster_terms)
      accepted == uploaded \ SkippedByTombstone(d, uploaded, force_keys)
  IN /\ Serve
     /\ row' = [k \in Courses |->
          IF k \in accepted
          THEN Filled(k, Upserted(k, k \in added_by_hand, k \in back_by_hand, FALSE,
                                  IF k \in force_keys THEN now ELSE None,
                                  k \in enrol), fill)
          ELSE IF k \in dropped THEN [row[k] EXCEPT !.status = "dropped"]
          ELSE IF k \in uploaded /\ row[k] # NoRow THEN Filled(k, row[k], fill)
          ELSE row[k]]
     /\ tomb' = TombAfterRelease(d, uploaded, force_keys)
     /\ IF force_keys = {} THEN Sent("school", NoEdits)
        ELSE Sent("arrival", [k \in force_keys |-> Choice("add", now)])
     /\ UNCHANGED reset

(* DELETE /courses/{key}: kind is what the app says, or "none".            *)
delete_course(d, k, stamp, kind, speaks_clock) ==
  LET by_hand == row[k] # NoRow /\ row[k].source = "user_added"
      meant == IF kind # "none" THEN kind ELSE IF by_hand THEN Remove ELSE Hide
      kept == meant = Remove /\ row[k] # NoRow /\ ~by_hand
      known == row[k] # NoRow \/ (speaks_clock /\ (tomb[k] # NoTombstone \/ k \in Keys))
  IN /\ Serve
     /\ IF known /\ stamp > membership_stamp(k)
        THEN /\ row' = [row EXCEPT ![k] =
                          IF kept THEN [@ EXCEPT !.added_at = None] ELSE NoRow]
             /\ tomb' = [tomb EXCEPT ![k] = Tombstone(stamp, d, FALSE, meant = Remove)]
        ELSE UNCHANGED <<row, tomb>>
     /\ Sent("stamp", IF known THEN [j \in {k} |-> Choice(meant, stamp)] ELSE NoEdits)
     /\ UNCHANGED reset

InScope(scope) == {k \in Courses : scope = Full \/ Term[k] = scope}

_record_reset(scope, stamp) == [reset EXCEPT ![scope] = latest(@, stamp)]

(* DELETE /courses under protocol 2: scope is a term or Full.              *)
_reset_by_stamp(d, scope, stamp) ==
  LET stored == IF scope = Full THEN reset[Full] ELSE covering(scope)
      rows == {k \in InScope(scope) : row[k] # NoRow}
      gone == {k \in rows :
                 /\ row[k].added_at <= stamp
                 /\ \/ row[k].source = "user_added"
                    \/ ~override_outlasts(row[k], stamp)}
      covered == {k \in InScope(scope) :
                    tomb[k] # NoTombstone /\ tomb[k].deleted_at <= stamp}
  IN /\ Serve
     /\ IF stamp <= stored
        THEN UNCHANGED <<row, tomb, reset>>
        ELSE /\ reset' = _record_reset(scope, stamp)
             /\ row' = [k \in Courses |->
                  IF k \in gone THEN NoRow
                  ELSE IF k \in rows THEN clear_before(row[k], stamp) ELSE row[k]]
             /\ tomb' = [k \in Courses |->
                  IF scope = Full
                  THEN IF k \in covered THEN NoTombstone ELSE tomb[k]
                  ELSE IF k \in covered /\ k \in rows \ gone THEN NoTombstone
                  ELSE IF k \in covered THEN
                         Tombstone(stamp, d, TRUE, tomb[k].user_added)
                  ELSE IF k \in gone /\ tomb[k] = NoTombstone THEN
                         Tombstone(stamp, d, TRUE, row[k].source = "user_added")
                  ELSE tomb[k]]
     /\ Sent("stamp", [k \in InScope(scope) |-> Choice("reset", stamp)])

(* DELETE /courses from a released app: everything in scope goes.          *)
delete_all_courses(d, now, scope) ==
  /\ Serve
  /\ reset' = _record_reset(scope, now)
  /\ row' = [k \in Courses |-> IF k \in InScope(scope) THEN NoRow ELSE row[k]]
  /\ tomb' = [k \in Courses |->
       IF k \notin InScope(scope) THEN tomb[k]
       ELSE IF scope = Full THEN NoTombstone
       ELSE IF row[k] # NoRow THEN Tombstone(now, d, TRUE, row[k].source = "user_added")
       ELSE IF tomb[k] # NoTombstone THEN Tombstone(now, d, TRUE, tomb[k].user_added)
       ELSE NoTombstone]
  /\ Sent("arrival", [k \in InScope(scope) |-> Choice("reset", now)])

SetField(k, f, value, ts, now) ==
  row' = [row EXCEPT ![k].fields[f] = apply_field(@, value, ts, now)]

(* PATCH override, which a released app's arrival time stamps too; and the *)
(* academics PUT, whose times may lie ahead and are clamped.  Either is    *)
(* refused by a reset it does not outlast.                                 *)
_override_course(k, f, value, stamp) ==
  /\ Serve
  /\ row[k] # NoRow
  /\ IF stamp > covering(Term[k]) THEN SetField(k, f, value, stamp, clock)
     ELSE UNCHANGED row
  /\ Sent("school", NoEdits)
  /\ UNCHANGED <<tomb, reset>>

\* Mutant of put_course_override: the reset of the term is not asked.
put_course_override_unreset(k, f, value, ts) ==
  /\ Serve
  /\ row[k] # NoRow
  /\ SetField(k, f, value, ts, clock)
  /\ Sent("school", NoEdits)
  /\ UNCHANGED <<tomb, reset>>

put_course_override(k, f, value, ts) ==
  /\ Serve
  /\ row[k] # NoRow
  /\ IF ts > covering(Term[k]) THEN SetField(k, f, value, ts, clock)
     ELSE UNCHANGED row
  /\ Sent("school", NoEdits)
  /\ UNCHANGED <<tomb, reset>>

(* POST /initial-upload of one course: the server's row stays; a row it    *)
(* lacks is imported, and only then is the course's reset left aside.  A   *)
(* field without a time (None) is the oldest, and no decision about        *)
(* ignore_assignments.  It stamps and clamps by the time it arrived.       *)
process_initial_upload(k, now, source, status, f, value, ts) ==
  LET imported == row[k] = NoRow
      by_hand == imported /\ source = "user_added"
      base == IF imported
              THEN Row(source, IF by_hand THEN now ELSE None, status) ELSE row[k]
      time == IF ts = None THEN OLDEST ELSE ts
      merges == /\ imported \/ time > covering(Term[k])
                /\ f = "ignore_assignments" => ts # None
  IN /\ Serve
     /\ row' = [row EXCEPT ![k] =
          IF merges THEN [base EXCEPT !.fields[f] = apply_field(@, value, time, now)]
          ELSE base]
     /\ Sent("stamp", IF by_hand THEN [j \in {k} |-> Choice("add", now)] ELSE NoEdits)
     /\ UNCHANGED <<tomb, reset>>

(* What it says of a course the server has is not read.                    *)
InitialUpload ==
  \E k \in Keys \cap Edited, now \in Arrivals, source \in {"user_added", "ntust_portal"},
     status \in {"enrolled", "dropped"}, f \in Fields, value \in Values,
     ts \in {None} \union (OLDEST + 1) .. (clock + MAX_CLOCK_SKEW + 1) :
    /\ row[k] # NoRow => source = "ntust_portal" /\ status = "enrolled"
    /\ process_initial_upload(k, now, source, status, f, value, ts)

(* The server's own fetch of the Moodle course list: only "moodle:" rows.  *)
apply_fetched_courses(fetched) ==
  /\ Serve
  /\ row' = [k \in Courses |->
       IF k \in Keys THEN row[k]
       ELSE IF k \notin fetched THEN NoRow
       ELSE IF row[k] = NoRow THEN Row("ntust_portal", None, "enrolled") ELSE row[k]]
  /\ Sent("school", NoEdits)
  /\ UNCHANGED <<tomb, reset>>

(* GET /full for a released app: the tombstones of the last 30 days, those *)
(* of them it is sent, and the courses it hides for them.                  *)
RecentTombstones ==
  {k \in Courses : tomb[k] # NoTombstone /\ tomb[k].deleted_at > clock - TombstoneDays}

\* Mutant of _released_tombstones: a removal beside a roster row is sent too.
_released_tombstones_all(d) == RecentTombstones

_released_tombstones(d) ==
  {k \in RecentTombstones :
     ~(tombstone_kind(tomb[k]) = Remove /\ (row[k] # NoRow \/ tomb[k].by = d))}

HiddenOn(d) == {k \in _released_tombstones(d) :
                  ~(tomb[k].deleted_by_reset /\ tomb[k].by = d)}
(***************************************************************************)
(* Next and the specification.                                             *)
(***************************************************************************)
Scopes == Terms \union {Full}

(* Apps that stamp their edits: protocol 2 and /v4.                        *)
StampedRequest ==
  \/ \E uploaded \in (SUBSET Keys) \ {{}}, roster_terms \in SUBSET Terms :
       \E added \in SUBSET (uploaded \cap Edited) :
         \E adds \in [added -> edit_time] :
           upload_courses_v4(uploaded, adds, roster_terms)
  \/ \E d \in Devices, k \in Edited, stamp \in edit_time,
        kind \in {"none", Hide, Remove} :
       delete_course(d, k, stamp, kind, TRUE)
  \/ \E d \in Devices, scope \in Scopes, stamp \in edit_time :
       _reset_by_stamp(d, scope, stamp)
  \/ \E k \in Edited, f \in Fields, value \in Values, stamp \in edit_time :
       _override_course(k, f, value, stamp)

(* Released apps: arrival times, or times of their own that are clamped.   *)
ReleasedRequest ==
  \/ \E d \in Devices, now \in Arrivals :
       \/ \E uploaded \in (SUBSET Keys) \ {{}}, roster_terms \in SUBSET Terms,
             fill \in Values \union {Empty} :
            \E force_keys \in SUBSET (uploaded \cap Edited) :
              /\ force_keys = {} => now = clock        \* only hand-adds are stamped
              /\ upload_courses(d, now, uploaded, force_keys, roster_terms, fill)
       \/ \E k \in Edited : delete_course(d, k, now, "none", FALSE)
       \/ \E scope \in Scopes : delete_all_courses(d, now, scope)
  \/ \E k \in Edited, f \in Fields, value \in Values,
        ts \in (OLDEST + 1) .. (clock + MAX_CLOCK_SKEW + 1) :
       put_course_override(k, f, value, ts)
  \/ InitialUpload

CourseNext ==
  \/ StampedRequest
  \/ ReleasedRequest
  \/ \E fetched \in SUBSET Mirrored : apply_fetched_courses(fetched)

CourseSpec == CourseInit /\ [][CourseNext]_courseVars

(***************************************************************************)
(* Properties.                                                             *)
(***************************************************************************)
(* The last choice the tables hold for a course: the operation its latest  *)
(* stamp belongs to.                                                       *)
ChoiceOf(k) ==
  LET added == AddedAt(k)
      deleted == DeletedAt(k)
      cleared == covering(Term[k])
  IN IF added > deleted /\ added > cleared THEN Choice("add", added)
     ELSE IF deleted > cleared THEN Choice(tombstone_kind(tomb[k]), deleted)
     ELSE IF cleared # None THEN Choice("reset", cleared) ELSE Choice("none", None)

LC == INSTANCE LastChoice WITH choice <- [k \in Courses |-> ChoiceOf(k)]

(* Rows, tombstones and resets implement one last choice per course,       *)
(* decided by stamps alone: a late, repeated or overtaken add, hide,       *)
(* removal or reset leaves what the latest one left, whichever handler     *)
(* serves it and whatever rosters come between.                            *)
ImplementsLastChoice == LC!LastChoiceSpec

(* A row its course's last choice speaks against: one beside a tombstone   *)
(* that hides or resets it, or added by hand and removed since.            *)
Astray(k) ==
  IF row[k] = NoRow THEN FALSE
  ELSE \/ tombstone_kind(tomb[k]) \in {Hide, Reset}
       \/ row[k].source = "user_added" /\ ChoiceOf(k).op = Remove

(* An add a later choice speaks against.                                   *)
StaleAdd(k) == AddedAt(k) # None /\ ChoiceOf(k).op # "add"

(* No request makes a row disagree with the last choice: no roster, stale  *)
(* upload or overtaken edit brings a hidden or reset course back, no add   *)
(* is stored against a later choice, and nothing hides a course and leaves *)
(* it.  Only the first-run import, which reads no tombstones, can put a    *)
(* row beside one.                                                         *)
RowsFollowChoice ==
  [][(\E k \in Keys :
        \/ ~Astray(k) /\ Astray(k)'
        \/ sent'.by = "stamp" /\ ~StaleAdd(k) /\ StaleAdd(k)')
      => InitialUpload]_courseVars

(* An override field only ever moves to a later stamp while its row lives, *)
(* whichever writer moves it: an edit from behind never replaces a later   *)
(* one, nor a reset's clearing.                                            *)
FieldsInStampOrder ==
  [][\A k \in Courses : row[k] # NoRow /\ row'[k] # NoRow =>
       \A f \in Fields :
         row'[k].fields[f] # row[k].fields[f]
           => row'[k].fields[f].at > row[k].fields[f].at
              \/ row'[k].fields[f] = [value |-> Empty, at |-> row[k].fields[f].at]]_courseVars

(* No writer gives a course the server holds a value from before the reset *)
(* of its term: what the reset cleared, or found unset, stays so.  A time  *)
(* too far ahead may be clamped behind the reset it is later than, by an   *)
(* import that waited for the lock since before the reset.                 *)
ResetHolds ==
  [][\A k \in Courses : row[k] # NoRow /\ row'[k] # NoRow =>
       \A f \in Fields :
         row'[k].fields[f].value \notin {Empty, row[k].fields[f].value}
           => \/ row'[k].fields[f].at > covering(Term[k])'
              \/ /\ row'[k].fields[f].at \in {now + MAX_CLOCK_SKEW : now \in Arrivals}
                 /\ InitialUpload]_courseVars

(* A reset spares what was chosen after it: a course added later, and a    *)
(* school course with a later override.                                    *)
ResetSparesLater ==
  [][\A k \in Courses :
       /\ sent'.by = "stamp" /\ sent'.edits[k].op = "reset" /\ row[k] # NoRow
       /\ \/ row[k].added_at > sent'.edits[k].at
          \/ /\ row[k].source = "ntust_portal"
             /\ \E f \in Fields : row[k].fields[f].at > sent'.edits[k].at
       => row'[k] # NoRow]_courseVars

(* A released app and the server agree: of a course its snapshot hides its *)
(* next roster upload is refused, and what is refused is hidden, as long   *)
(* as the tombstone is recent enough to be sent: an older one still binds  *)
(* uploads (_released_tombstones, upload_courses).                         *)
SnapshotAgreesWithUpload ==
  \A d \in Devices :
    LET refused == SkippedByTombstone(d, Keys, {}) IN
    /\ HiddenOn(d) \cap Keys \subseteq refused
    /\ \A k \in refused \ HiddenOn(d) : tomb[k].deleted_at <= clock - TombstoneDays

(* Rows and override fields stay on the side of the user's last choice     *)
(* through every order of edits, rosters and resets (the four above).      *)
ChoicesHonoured ==
  /\ RowsFollowChoice /\ FieldsInStampOrder /\ ResetHolds /\ ResetSparesLater
============================================================================
