------------------------ MODULE AccountDataProofs -------------------------
(*************************************************************************)
(* Proofs about what the devices of one account edit: its courses        *)
(* (CourseSync), its settings, bulletin rules and flags (AccountEdits),  *)
(* and one assignment (AssignmentRows).                                  *)
(*************************************************************************)
EXTENDS CourseSync, AccountEdits, AssignmentRows, TLAPS

(*************************************************************************)
(* Proofs about CourseSync, for any courses, terms, devices, fields and  *)
(* clocks: its requests implement LastChoice, and rows, fields, resets   *)
(* and snapshots stay on the side of the last choice.                    *)
(*                                                                       *)
(* The invariant is short: a tombstone a reset left is covered by a      *)
(* reset of its term (ResetTombsCovered), so lifting it changes no       *)
(* choice; and no reset is stamped as late as an edit may be             *)
(* (ResetsBehind), so the clamping of an override's time never takes it  *)
(* back behind a reset.                                                  *)
(*************************************************************************)

CourseType ==
  /\ row \in [Courses -> Rows \union {NoRow}]
  /\ tomb \in [Courses -> Tombstones \union {NoTombstone}]
  /\ reset \in [Terms \union {NoTerm, Full} -> Nat]
  /\ clock \in Nat /\ clock >= Start

TombsStamped == \A k \in Courses : tomb[k] # NoTombstone => tomb[k].deleted_at > 0

ResetTombsCovered ==
  \A k \in Courses :
    tombstone_kind(tomb[k]) = Reset => tomb[k].deleted_at <= covering(Term[k])

MirrorUnadded == \A k \in Mirrored : row[k] # NoRow => row[k].added_at = None

ResetsBehind == \A s \in Terms \union {NoTerm, Full} : reset[s] < clock + MAX_CLOCK_SKEW

CourseInv == CourseType /\ TombsStamped /\ ResetTombsCovered /\ MirrorUnadded /\ ResetsBehind

-----------------------------------------------------------------------------
(* Operators.                                                              *)

\* What a stamp can be.
LEMMA EditTimes ==
  ASSUME CourseType
  PROVE  /\ \A t \in edit_time : t \in Nat /\ t > OLDEST /\ t <= clock + MAX_CLOCK_SKEW
         /\ \A t \in Arrivals : t \in Nat /\ t > OLDEST /\ t <= clock
         /\ clock \in Arrivals
BY CourseConstants DEF CourseType, edit_time, Arrivals, OLDEST

\* A reset covers its term, and a full one every term.
LEMMA CoveringType ==
  ASSUME CourseType, NEW k \in Courses
  PROVE  /\ Term[k] \in Terms \union {NoTerm, Full}
         /\ covering(Term[k]) \in Nat
         /\ covering(Term[k]) >= reset[Full] /\ covering(Term[k]) >= reset[Term[k]]
         /\ covering(Term[k]) \in {reset[Full], reset[Term[k]]}
BY CourseConstants DEF CourseType, covering, latest

\* apply_field keeps the later of two stamps, whatever lies ahead clamped.
LEMMA ApplyField ==
  ASSUME NEW field \in FieldStates, NEW value \in Values \union {Empty},
         NEW ts \in Nat, NEW now \in Nat
  PROVE  LET applied == apply_field(field, value, ts, now) IN
         /\ applied \in FieldStates
         /\ applied # field =>
              /\ applied.at > field.at /\ applied.value = value
              /\ applied.at \in {ts, now + MAX_CLOCK_SKEW}
              /\ applied.at <= ts /\ applied.at <= now + MAX_CLOCK_SKEW
BY CourseConstants DEF apply_field, clamp_ts, FieldStates

\* clear_before empties what is set by then and stamps it; later adds and fields stay.
LEMMA ClearBefore ==
  ASSUME NEW r \in Rows, NEW at \in Nat
  PROVE  LET cleared == clear_before(r, at) IN
         /\ cleared \in Rows
         /\ cleared.source = r.source /\ cleared.status = r.status
         /\ cleared.added_at = IF r.added_at <= at THEN None ELSE r.added_at
         /\ \A f \in Fields :
              cleared.fields[f] \in {r.fields[f], [value |-> Empty, at |-> at]}
              /\ (cleared.fields[f] # r.fields[f] => r.fields[f].at <= at)
<1> DEFINE fields == [f \in Fields |->
               IF r.fields[f] # Unset /\ r.fields[f].at <= at
               THEN [value |-> Empty, at |-> at] ELSE r.fields[f]]
<1>1. fields \in [Fields -> FieldStates]
  BY DEF Rows, FieldStates
<1> DEFINE added == IF r.added_at <= at THEN None ELSE r.added_at
<1>2. clear_before(r, at) = [[r EXCEPT !.added_at = added] EXCEPT !.fields = fields]
  BY DEF clear_before, Rows
<1>3. added \in Nat
  BY DEF Rows, None
<1>4. \A f \in Fields :
         fields[f] \in {r.fields[f], [value |-> Empty, at |-> at]}
         /\ (fields[f] # r.fields[f] => r.fields[f].at <= at)
  OBVIOUS
<1>5. added = IF r.added_at <= at THEN None ELSE r.added_at
  OBVIOUS
<1> HIDE DEF fields, added
<1>6. /\ clear_before(r, at) \in Rows
      /\ clear_before(r, at).source = r.source
      /\ clear_before(r, at).status = r.status
      /\ clear_before(r, at).added_at = added
      /\ clear_before(r, at).fields = fields
  BY <1>1, <1>2, <1>3 DEF Rows
<1> QED BY <1>4, <1>5, <1>6

\* A released app's colour changes the colour alone, of a course with no
\* colour and, if the server had it, no reset over it.
LEMMA FilledRow ==
  ASSUME CourseType, NEW k \in Courses, NEW r \in Rows, NEW fill \in Values \union {Empty}
  PROVE  LET filled == Filled(k, r, fill) IN
         /\ filled \in Rows
         /\ filled.source = r.source /\ filled.status = r.status
         /\ filled.added_at = r.added_at
         /\ \A f \in Fields : filled.fields[f] # r.fields[f] =>
              /\ filled.fields[f].at > r.fields[f].at
              /\ filled.fields[f].at = OLDEST
              /\ row[k] = NoRow \/ covering(Term[k]) = None
<1>1. CASE "color_hex" \in Fields
  <2> DEFINE applied == apply_field(r.fields["color_hex"], fill, OLDEST, clock)
  <2>1. r.fields \in [Fields -> FieldStates] /\ r.fields["color_hex"] \in FieldStates
    BY <1>1 DEF Rows
  <2>2. applied \in FieldStates
    BY <2>1, ApplyField DEF CourseType, OLDEST
  <2>3. applied # r.fields["color_hex"] =>
          applied.at > r.fields["color_hex"].at /\ applied.at = OLDEST
    BY <2>1, CourseConstants DEF CourseType, apply_field, clamp_ts, FieldStates, OLDEST
  <2>4. Filled(k, r, fill) \in {r, [r EXCEPT !.fields["color_hex"] = applied]}
    BY DEF Filled
  <2>5. Filled(k, r, fill) # r => row[k] = NoRow \/ covering(Term[k]) = None
    BY DEF Filled
  <2> HIDE DEF applied
  <2> QED BY <1>1, <2>1, <2>2, <2>3, <2>4, <2>5 DEF Rows
<1>2. CASE "color_hex" \notin Fields
  BY <1>2 DEF Filled
<1> QED BY <1>1, <1>2

-----------------------------------------------------------------------------
(* What a request leaves of one course.                                    *)

\* The steps the action properties allow.
FollowsChoice(k) ==
  /\ Astray(k)' => Astray(k)
  /\ sent'.by = "stamp" /\ StaleAdd(k)' => StaleAdd(k)

FieldsForward(k) ==
  row[k] # NoRow /\ row'[k] # NoRow =>
    \A f \in Fields :
      row'[k].fields[f] # row[k].fields[f]
        => row'[k].fields[f].at > row[k].fields[f].at
           \/ row'[k].fields[f] = [value |-> Empty, at |-> row[k].fields[f].at]

HoldsReset(k) ==
  row[k] # NoRow /\ row'[k] # NoRow =>
    \A f \in Fields :
      row'[k].fields[f].value \notin {Empty, row[k].fields[f].value}
        => \/ row'[k].fields[f].at > covering(Term[k])'
           \/ /\ row'[k].fields[f].at \in {now + MAX_CLOCK_SKEW : now \in Arrivals}
              /\ InitialUpload

SparesLater(k) ==
  /\ sent'.by = "stamp" /\ sent'.edits[k].op = "reset" /\ row[k] # NoRow
  /\ \/ row[k].added_at > sent'.edits[k].at
     \/ /\ row[k].source = "ntust_portal"
        /\ \E f \in Fields : row[k].fields[f].at > sent'.edits[k].at
  => row'[k] # NoRow

\* What the invariant says of one course.
Sound(k) ==
  /\ row[k] \in Rows \union {NoRow}
  /\ tomb[k] \in Tombstones \union {NoTombstone}
  /\ tomb[k] # NoTombstone => tomb[k].deleted_at > 0
  /\ tombstone_kind(tomb[k]) = Reset => tomb[k].deleted_at <= covering(Term[k])
  /\ k \in Mirrored /\ row[k] # NoRow => row[k].added_at = None

Honoured(k) == FieldsForward(k) /\ HoldsReset(k) /\ SparesLater(k)

LEMMA SoundCourses ==
  ASSUME CourseInv, NEW k \in Courses
  PROVE  Sound(k) /\ AddedAt(k) \in Nat /\ DeletedAt(k) \in Nat
BY DEF CourseInv, CourseType, TombsStamped, ResetTombsCovered, MirrorUnadded, Sound, AddedAt,
       DeletedAt, Rows, Tombstones, None

\* A request that makes a row map and a tombstone map that are sound course by
\* course, and records no reset ahead of the clock, keeps the invariant.
LEMMA SoundStep ==
  ASSUME CourseInv, NEW rows, NEW tombs,
         row' = [k \in Courses |-> rows[k]], tomb' = [k \in Courses |-> tombs[k]],
         \A k \in Courses : Sound(k)',
         reset' \in [Terms \union {NoTerm, Full} -> Nat],
         \A s \in Terms \union {NoTerm, Full} :
           reset'[s] = reset[s] \/ reset'[s] <= clock + MAX_CLOCK_SKEW,
         clock' = clock + 1
  PROVE  CourseInv'
<1>1. CourseType'
  BY CourseConstants DEF CourseInv, CourseType, Sound
<1>2. ResetsBehind'
  BY CourseConstants DEF CourseInv, CourseType, ResetsBehind
<1> QED BY <1>1, <1>2 DEF CourseInv, Sound, TombsStamped, ResetTombsCovered, MirrorUnadded, Courses

\* A course whose stamps and tombstone stay keeps its choice.
LEMMA ChoiceKept ==
  ASSUME NEW k \in Courses,
         AddedAt(k)' = AddedAt(k), tomb'[k] = tomb[k],
         covering(Term[k])' = covering(Term[k])
  PROVE  ChoiceOf(k)' = ChoiceOf(k) /\ DeletedAt(k)' = DeletedAt(k)
BY DEF ChoiceOf, DeletedAt

\* Lifting a reset's tombstone changes no choice: the reset itself covers it.
LEMMA LiftingKeepsChoice ==
  ASSUME CourseInv, NEW k \in Courses, tombstone_kind(tomb[k]) = Reset,
         AddedAt(k)' = AddedAt(k), tomb'[k] = NoTombstone, reset' = reset
  PROVE  ChoiceOf(k)' = ChoiceOf(k) /\ covering(Term[k])' = covering(Term[k])
<1>1. DeletedAt(k) <= covering(Term[k]) /\ DeletedAt(k) \in Nat /\ AddedAt(k) \in Nat
  BY SoundCourses DEF Sound, DeletedAt, tombstone_kind, Reset
<1>2. covering(Term[k])' = covering(Term[k]) /\ covering(Term[k]) \in Nat
  BY CoveringType DEF covering, CourseInv
<1>3. DeletedAt(k)' = 0
  BY DEF DeletedAt, None
<1> QED BY <1>1, <1>2, <1>3 DEF ChoiceOf

\* The choice of a course carries its membership stamp, and is an add exactly
\* when the add is later than tombstone and reset.
LEMMA ChoiceStamp ==
  ASSUME CourseInv, NEW k \in Courses
  PROVE  /\ ChoiceOf(k).at = membership_stamp(k) /\ membership_stamp(k) \in Nat
         /\ membership_stamp(k) >= AddedAt(k) /\ membership_stamp(k) >= DeletedAt(k)
         /\ membership_stamp(k) >= covering(Term[k])
         /\ ChoiceOf(k).op = "add" <=>
              AddedAt(k) > DeletedAt(k) /\ AddedAt(k) > covering(Term[k])
<1>1. AddedAt(k) \in Nat /\ DeletedAt(k) \in Nat /\ covering(Term[k]) \in Nat
  BY SoundCourses, CoveringType DEF CourseInv
<1> QED BY <1>1 DEF ChoiceOf, Choice, membership_stamp, latest, None, tombstone_kind, Reset,
                    Remove, Hide

-----------------------------------------------------------------------------
(* One lemma per request.                                                  *)

\* A request that sound courses, and edits that win by stamp, make by stamp.
LEMMA ByStampOf ==
  ASSUME sent'.by = "stamp",
         \A k \in Courses :
           ChoiceOf(k)' = IF LC!Wins(sent'.edits[k], ChoiceOf(k)) THEN sent'.edits[k]
                          ELSE ChoiceOf(k)
  PROVE  LC!LastChoiceNext
BY DEF LC!LastChoiceNext, LC!ByStamp, LC!Merged

\* A request that makes no choice, or takes a removal back.
LEMMA BySchoolOf ==
  ASSUME sent'.by = "school",
         \A k \in Courses :
           \/ ChoiceOf(k)' = ChoiceOf(k)
           \/ /\ ChoiceOf(k).op = Remove /\ ChoiceOf(k)'.op # Remove
              /\ ChoiceOf(k)'.at <= ChoiceOf(k).at
  PROVE  LC!LastChoiceNext
BY DEF LC!LastChoiceNext, LC!BySchool, Remove

\* A request whose edits stand by their arrival.
LEMMA ByArrivalOf ==
  ASSUME sent'.by = "arrival",
         \A k \in Courses :
           \/ sent'.edits[k] = Choice("none", None) /\ ChoiceOf(k)' = ChoiceOf(k)
           \/ /\ sent'.edits[k].op # "none"
              /\ \/ ChoiceOf(k)' = sent'.edits[k]
                 \/ ChoiceOf(k)'.op = "reset" /\ ChoiceOf(k)'.at >= sent'.edits[k].at
  PROVE  LC!LastChoiceNext
BY DEF LC!LastChoiceNext, LC!ByArrival, LC!NoChoice, LC!None, Choice, None

StepHonours ==
  /\ CourseInv'
  /\ LC!LastChoiceNext
  /\ \A k \in Courses : Honoured(k)
  /\ InitialUpload \/ \A k \in Keys : FollowsChoice(k)

\* POST /courses/upload by stamp: what it does to one course.
LEMMA StampedUploadOf ==
  ASSUME CourseInv, NEW uploaded \in SUBSET Keys, NEW roster_terms,
         NEW added \in SUBSET uploaded, NEW adds \in [added -> edit_time],
         upload_courses_v4(uploaded, adds, roster_terms), NEW k \in Courses
  PROVE  /\ Sound(k)' /\ Honoured(k) /\ FollowsChoice(k)
         /\ sent'.edits[k] = IF k \in added THEN Choice("add", adds[k]) ELSE Choice("none", None)
         /\ ChoiceOf(k)' = IF k \in Won(adds) THEN Choice("add", adds[k]) ELSE ChoiceOf(k)
<1> DEFINE skipped == SkippedByStamp(uploaded, adds)
           lifted == LiftedByStamp(uploaded, adds)
           school_back == {j \in Won(adds) : tomb[j] # NoTombstone /\ ~tomb[j].user_added}
           enrol == Won(adds) \union {j \in uploaded : Term[j] \in roster_terms}
           added_at == IF k \in Won(adds) THEN adds[k] ELSE None
           by_hand == Won(adds) \ school_back
           none == {}
           by_school == Courses \ DOMAIN adds
           upserted == Upserted(k, k \in by_hand, k \in none, k \in by_school, added_at, k \in enrol)
<1>1. Sound(k) /\ AddedAt(k) \in Nat /\ DeletedAt(k) \in Nat /\ covering(Term[k]) \in Nat
  BY SoundCourses, CoveringType DEF CourseInv
<1>2. reset' = reset /\ covering(Term[k])' = covering(Term[k])
  BY DEF upload_courses_v4, covering
<1>3. sent'.by = "stamp"
      /\ sent'.edits[k] = IF k \in added THEN Choice("add", adds[k]) ELSE Choice("none", None)
  BY DEF upload_courses_v4, Sent, NoEdits
<1>4. tomb'[k] = IF k \in lifted THEN NoTombstone ELSE tomb[k]
  BY DEF upload_courses_v4
<1>5. sent'.edits[k].op # "reset"
  BY <1>3 DEF Choice
<1>6. \A j \in Won(adds) : j \in added /\ adds[j] \in Nat /\ adds[j] > 0 /\ adds[j] > membership_stamp(j)
  BY EditTimes DEF Won, CourseInv, OLDEST
<1>7. row'[k] = IF k \in uploaded \ skipped THEN upserted
                ELSE IF k \in Dropped(uploaded, DOMAIN adds, roster_terms)
                THEN [row[k] EXCEPT !.status = "dropped"] ELSE row[k]
  BY DEF upload_courses_v4, Upserted
<1> HIDE DEF none, upserted, skipped, lifted, added_at, enrol, by_hand, by_school
<1>8. /\ upserted \in Rows
      /\ upserted.added_at = IF added_at # None THEN added_at ELSE AddedAt(k)
      /\ row[k] # NoRow => upserted.fields = row[k].fields
      /\ upserted.source = IF row[k] = NoRow
                           THEN IF k \in by_hand THEN "user_added" ELSE "ntust_portal"
                           ELSE IF k \in none THEN "user_added"
                           ELSE IF k \in by_school THEN "ntust_portal" ELSE row[k].source
  <2>1. added_at \in Nat
    BY <1>6 DEF None, added_at
  <2>2. CASE row[k] = NoRow
    BY <2>1, <2>2 DEF upserted, Upserted, Row, Rows, FieldStates, Unset, AddedAt, None
  <2>3. CASE row[k] # NoRow
    <3>1. row[k] \in Rows
      BY <1>1, <2>3 DEF Sound
    <3> QED BY <2>1, <2>3, <3>1 DEF upserted, Upserted, Rows, AddedAt, none
  <2> QED BY <2>2, <2>3
<1>9. CASE k \in Won(adds)
  <2>1. k \in added /\ adds[k] \in Nat /\ adds[k] > 0 /\ adds[k] > membership_stamp(k)
    BY <1>9, EditTimes DEF Won, CourseInv, OLDEST
  <2>2. k \in uploaded \ skipped /\ k \in lifted /\ k \in Keys
    BY <1>9, <2>1 DEF SkippedByStamp, LiftedByStamp, skipped, lifted
  <2>4. /\ row'[k] \in Rows /\ row'[k].added_at = adds[k]
        /\ row[k] # NoRow => row'[k].fields = row[k].fields
    BY <1>9, <1>7, <1>8, <2>1, <2>2 DEF None, added_at
  <2>5. row'[k] # NoRow /\ tomb'[k] = NoTombstone
    BY <1>4, <2>2, <2>4, CourseNulls
  <2>6. AddedAt(k)' = adds[k] /\ DeletedAt(k)' = 0
    BY <2>4, <2>5 DEF AddedAt, DeletedAt, None
  <2>7. adds[k] > covering(Term[k])
    BY <2>1, ChoiceStamp, <1>1
  <2>8. ChoiceOf(k)' = Choice("add", adds[k])
    BY <1>2, <2>1, <2>6, <2>7 DEF ChoiceOf
  <2>9. Sound(k)'
    BY <2>2, <2>4, <2>5, CourseConstants DEF Sound, tombstone_kind, Reset
  <2>10. Honoured(k)
    BY <1>5, <2>4, <2>5 DEF Honoured, FieldsForward, HoldsReset, SparesLater
  <2>11. FollowsChoice(k)
    BY <2>5, <2>8 DEF FollowsChoice, Astray, StaleAdd, Choice, tombstone_kind, Hide, Reset, Remove
  <2> QED BY <1>3, <1>9, <2>8, <2>9, <2>10, <2>11
<1>10. CASE k \notin Won(adds)
  <2>1. \/ row'[k] = row[k]
        \/ row[k] # NoRow /\ row'[k] = [row[k] EXCEPT !.status = "dropped"]
        \/ k \in uploaded \ skipped /\ row'[k] = upserted
    BY <1>7 DEF Dropped
  <2>2. /\ AddedAt(k)' = AddedAt(k)
        /\ row'[k] \in Rows \union {NoRow}
        /\ row[k] # NoRow => row'[k] # NoRow
        /\ row[k] # NoRow => row'[k].fields = row[k].fields
        /\ row'[k] # NoRow /\ (row[k] = NoRow \/ row'[k].source # row[k].source) =>
             k \in uploaded \ skipped /\ row'[k].source = "ntust_portal"
    <3>1. CASE row'[k] = row[k]
      BY <1>1, <3>1 DEF Sound, AddedAt
    <3>2. CASE row[k] # NoRow /\ row'[k] = [row[k] EXCEPT !.status = "dropped"]
      BY <1>1, <3>2, CourseNulls DEF Sound, AddedAt, Rows
    <3>3. CASE k \in uploaded \ skipped /\ row'[k] = upserted
      <4>1. k \in by_school /\ k \notin by_hand /\ k \notin none /\ added_at = None
        BY <1>10, <3>3 DEF none, SkippedByStamp, skipped, by_school, by_hand, added_at
      <4>2. row'[k] \in Rows /\ row'[k] # NoRow
        BY <1>8, <3>3, CourseNulls
      <4> QED BY <1>8, <3>3, <4>1, <4>2 DEF AddedAt
    <3> QED BY <2>1, <3>1, <3>2, <3>3
  <2>3. k \in lifted => tombstone_kind(tomb[k]) = Reset
    BY <1>10 DEF LiftedByStamp, lifted
  <2>4. ChoiceOf(k)' = ChoiceOf(k)
    BY <1>2, <1>4, <2>2, <2>3, ChoiceKept, LiftingKeepsChoice
  <2>5. k \in uploaded \ skipped => tombstone_kind(tomb'[k]) \notin {Hide, Reset}
    <3>1. k \in uploaded \ skipped => k \notin DOMAIN adds /\ tombstone_kind(tomb[k]) # Hide
      BY <1>10 DEF SkippedByStamp, skipped
    <3> QED BY <1>4, <3>1 DEF LiftedByStamp, lifted, tombstone_kind, Hide, Reset, Remove
  <2>6. tomb'[k] = tomb[k] \/ tomb'[k] = NoTombstone
    BY <1>4
  <2>7. Sound(k)'
    <3>1. tomb'[k] # NoTombstone => tomb'[k] = tomb[k]
      BY <2>6
    <3>2. row'[k] # NoRow /\ k \in Mirrored => row'[k].added_at = None
      BY <1>1, <2>2 DEF Sound, AddedAt
    <3> QED BY <1>1, <1>2, <2>2, <3>1, <3>2 DEF Sound, tombstone_kind, Reset
  <2>8. Honoured(k)
    BY <1>5, <2>2 DEF Honoured, FieldsForward, HoldsReset, SparesLater
  <2>9. FollowsChoice(k)
    BY <2>2, <2>4, <2>5, <2>6 DEF FollowsChoice, Astray, StaleAdd, tombstone_kind, Hide, Reset, Remove
  <2> QED BY <1>3, <1>10, <2>4, <2>7, <2>8, <2>9
<1> QED BY <1>9, <1>10

LEMMA StampedUpload ==
  ASSUME CourseInv, NEW uploaded \in SUBSET Keys, NEW roster_terms,
         NEW added \in SUBSET uploaded, NEW adds \in [added -> edit_time],
         upload_courses_v4(uploaded, adds, roster_terms)
  PROVE  StepHonours
<1>1. \A k \in Courses :
        /\ Sound(k)' /\ Honoured(k) /\ FollowsChoice(k)
        /\ sent'.edits[k] = IF k \in added THEN Choice("add", adds[k]) ELSE Choice("none", None)
        /\ ChoiceOf(k)' = IF k \in Won(adds) THEN Choice("add", adds[k]) ELSE ChoiceOf(k)
  BY StampedUploadOf
<1>2. CourseInv'
  <2>1. row' = [k \in Courses |-> row'[k]] /\ tomb' = [k \in Courses |-> tomb'[k]]
    BY DEF upload_courses_v4
  <2>2. reset' = reset /\ clock' = clock + 1
    BY DEF upload_courses_v4, Serve
  <2> QED BY <1>1, <2>1, <2>2, SoundStep DEF CourseInv, CourseType
<1>3. LC!LastChoiceNext
  <2>1. sent'.by = "stamp"
    BY DEF upload_courses_v4, Sent
  <2>2. ASSUME NEW k \in Courses
        PROVE  ChoiceOf(k)' = IF LC!Wins(sent'.edits[k], ChoiceOf(k)) THEN sent'.edits[k]
                              ELSE ChoiceOf(k)
    <3>1. ChoiceOf(k).at = membership_stamp(k) /\ membership_stamp(k) \in Nat
      BY ChoiceStamp
    <3>2. k \in added => adds[k] \in Nat
      BY EditTimes DEF CourseInv
    <3>3. CASE k \in added
      <4>1. sent'.edits[k] = Choice("add", adds[k])
        BY <1>1, <3>3
      <4>2. LC!Wins(sent'.edits[k], ChoiceOf(k)) <=> k \in Won(adds)
        BY <3>1, <3>2, <3>3, <4>1 DEF LC!Wins, LC!None, Won, Choice
      <4> QED BY <1>1, <4>1, <4>2
    <3>4. CASE k \notin added
      <4>1. sent'.edits[k] = Choice("none", None)
        BY <1>1, <3>4
      <4>2. ~LC!Wins(sent'.edits[k], ChoiceOf(k)) /\ k \notin Won(adds)
        BY <3>1, <3>4, <4>1 DEF LC!Wins, LC!None, Won, Choice, None
      <4> QED BY <1>1, <4>1, <4>2
    <3> QED BY <3>3, <3>4
  <2> QED BY <2>1, <2>2, ByStampOf
<1> QED BY <1>1, <1>2, <1>3 DEF StepHonours, Courses

\* DELETE /courses/{key}: what it does to one course.
LEMMA DeletionOf ==
  ASSUME CourseInv, NEW d \in Devices, NEW j \in Edited, NEW stamp \in Nat, stamp > OLDEST,
         NEW kind \in {"none", Hide, Remove}, NEW speaks_clock \in BOOLEAN,
         delete_course(d, j, stamp, kind, speaks_clock), NEW k \in Courses
  PROVE  /\ Sound(k)' /\ Honoured(k) /\ FollowsChoice(k)
         /\ ChoiceOf(k)' = IF LC!Wins(sent'.edits[k], ChoiceOf(k)) THEN sent'.edits[k]
                           ELSE ChoiceOf(k)
<1> DEFINE by_hand == row[j] # NoRow /\ row[j].source = "user_added"
           meant == IF kind # "none" THEN kind ELSE IF by_hand THEN Remove ELSE Hide
           kept == meant = Remove /\ row[j] # NoRow /\ ~by_hand
           known == row[j] # NoRow \/ (speaks_clock /\ (tomb[j] # NoTombstone \/ j \in Keys))
<1>1. Sound(k) /\ AddedAt(k) \in Nat /\ DeletedAt(k) \in Nat /\ covering(Term[k]) \in Nat
  BY SoundCourses, CoveringType DEF CourseInv
<1>2. reset' = reset /\ covering(Term[k])' = covering(Term[k])
  BY DEF delete_course, covering
<1>3. meant \in {Hide, Remove}
  OBVIOUS
<1>4. /\ sent'.by = "stamp"
      /\ sent'.edits[k] = IF known /\ k = j THEN Choice(meant, stamp) ELSE Choice("none", None)
  BY DEF delete_course, Sent, NoEdits
<1>5. ChoiceOf(k).at = membership_stamp(k) /\ membership_stamp(k) \in Nat
  BY ChoiceStamp
<1>6. j \in Courses
  BY CourseConstants
<1>7. sent'.edits[k].op # "reset"
  BY <1>3, <1>4 DEF Choice, Hide, Remove
<1>8. LC!Wins(sent'.edits[k], ChoiceOf(k)) <=> k = j /\ known /\ stamp > membership_stamp(k)
  <2>1. CASE known /\ k = j
    BY <1>4, <1>5, <1>7, <2>1 DEF LC!Wins, Choice
  <2>2. CASE ~(known /\ k = j)
    BY <1>4, <1>5, <1>7, <2>2 DEF LC!Wins, Choice, None
  <2> QED BY <2>1, <2>2
<1>9. CASE ~(k = j /\ known /\ stamp > membership_stamp(k))
  <2>1. row'[k] = row[k] /\ tomb'[k] = tomb[k]
    BY <1>6, <1>9 DEF delete_course, CourseInv, CourseType
  <2>2. AddedAt(k)' = AddedAt(k)
    BY <2>1 DEF AddedAt
  <2>3. ChoiceOf(k)' = ChoiceOf(k)
    BY <1>2, <2>1, <2>2, ChoiceKept
  <2>4. Sound(k)'
    BY <1>1, <1>2, <2>1 DEF Sound
  <2>5. Honoured(k)
    BY <1>7, <2>1 DEF Honoured, FieldsForward, HoldsReset, SparesLater
  <2>6. FollowsChoice(k)
    BY <2>1, <2>2, <2>3 DEF FollowsChoice, Astray, StaleAdd
  <2> QED BY <1>8, <1>9, <2>3, <2>4, <2>5, <2>6
<1>10. CASE k = j /\ known /\ stamp > membership_stamp(k)
  <2>1. /\ row'[k] = IF kept THEN [row[k] EXCEPT !.added_at = None] ELSE NoRow
        /\ tomb'[k] = Tombstone(stamp, d, FALSE, meant = Remove)
    BY <1>6, <1>10 DEF delete_course, CourseInv, CourseType
  <2> HIDE DEF meant
  <2>2. /\ tomb'[k] \in Tombstones /\ tomb'[k] # NoTombstone
        /\ tomb'[k].deleted_at = stamp /\ tombstone_kind(tomb'[k]) = meant
    <3>1. /\ tomb'[k] \in Tombstones /\ tomb'[k].deleted_at = stamp
          /\ ~tomb'[k].deleted_by_reset /\ (tomb'[k].user_added <=> meant = Remove)
      <4>1. CASE meant = Remove
        <5>1. tomb'[k] = [deleted_at |-> stamp, by |-> d, deleted_by_reset |-> FALSE,
                          user_added |-> TRUE]
          BY <2>1, <4>1 DEF Tombstone
        <5> QED BY <4>1, <5>1 DEF Tombstones
      <4>2. CASE meant # Remove
        <5>1. tomb'[k] = [deleted_at |-> stamp, by |-> d, deleted_by_reset |-> FALSE,
                          user_added |-> FALSE]
          BY <2>1, <4>2 DEF Tombstone
        <5> QED BY <4>2, <5>1 DEF Tombstones
      <4> QED BY <4>1, <4>2
    <3> QED BY <1>3, <3>1, CourseNulls DEF tombstone_kind, Hide, Remove
  <2>3. row'[k] # NoRow => /\ kept /\ row'[k] \in Rows /\ row'[k].added_at = None
                           /\ row'[k].source = row[k].source /\ row'[k].fields = row[k].fields
    BY <1>1, <1>10, <2>1 DEF Sound, Rows, None
  <2>4. AddedAt(k)' = 0 /\ DeletedAt(k)' = stamp
    BY <2>2, <2>3 DEF AddedAt, DeletedAt, None
  <2>5. stamp > covering(Term[k])
    BY <1>1, <1>5, <1>10, ChoiceStamp
  <2>6. ChoiceOf(k)' = Choice(meant, stamp)
    BY <1>1, <1>2, <2>2, <2>4, <2>5 DEF ChoiceOf
  <2>7. Sound(k)'
    BY <1>1, <1>3, <2>2, <2>3 DEF Sound, OLDEST, Reset, Hide, Remove
  <2>8. Honoured(k)
    BY <1>7, <2>3 DEF Honoured, FieldsForward, HoldsReset, SparesLater
  <2>9. FollowsChoice(k)
    <3>1. ~Astray(k)'
      BY <1>10, <2>2, <2>3 DEF Astray, Hide, Remove, Reset
    <3>2. ~StaleAdd(k)'
      BY <2>4 DEF StaleAdd, None
    <3> QED BY <3>1, <3>2 DEF FollowsChoice
  <2> QED BY <1>4, <1>8, <1>10, <2>6, <2>7, <2>8, <2>9
<1> QED BY <1>9, <1>10

LEMMA Deletion ==
  ASSUME CourseInv, NEW d \in Devices, NEW j \in Edited, NEW stamp \in Nat, stamp > OLDEST,
         NEW kind \in {"none", Hide, Remove}, NEW speaks_clock \in BOOLEAN,
         delete_course(d, j, stamp, kind, speaks_clock)
  PROVE  StepHonours
<1>1. \A k \in Courses :
        /\ Sound(k)' /\ Honoured(k) /\ FollowsChoice(k)
        /\ ChoiceOf(k)' = IF LC!Wins(sent'.edits[k], ChoiceOf(k)) THEN sent'.edits[k]
                          ELSE ChoiceOf(k)
  BY DeletionOf
<1>2. CourseInv'
  <2>1. row' = [k \in Courses |-> row'[k]] /\ tomb' = [k \in Courses |-> tomb'[k]]
    BY DEF delete_course, CourseInv, CourseType
  <2>2. reset' = reset /\ clock' = clock + 1
    BY DEF delete_course, Serve
  <2> QED BY <1>1, <2>1, <2>2, SoundStep DEF CourseInv, CourseType
<1>3. sent'.by = "stamp"
  BY DEF delete_course, Sent
<1> QED BY <1>1, <1>2, <1>3, ByStampOf DEF StepHonours, Courses

\* A request that leaves a course and its reset alone, and sends it no edit that wins.
LEMMA Untouched ==
  ASSUME CourseInv, NEW k \in Courses, row'[k] = row[k], tomb'[k] = tomb[k],
         covering(Term[k])' = covering(Term[k])
  PROVE  /\ Sound(k)' /\ Honoured(k) /\ FollowsChoice(k) /\ ChoiceOf(k)' = ChoiceOf(k)
<1>1. Sound(k)
  BY SoundCourses
<1>2. AddedAt(k)' = AddedAt(k)
  BY DEF AddedAt
<1>3. ChoiceOf(k)' = ChoiceOf(k)
  BY <1>2, ChoiceKept
<1>4. Honoured(k)
  BY DEF Honoured, FieldsForward, HoldsReset, SparesLater
<1>5. FollowsChoice(k)
  BY <1>2, <1>3 DEF FollowsChoice, Astray, StaleAdd
<1> QED BY <1>1, <1>3, <1>4, <1>5 DEF Sound

\* DELETE /courses under protocol 2: what it does to the rows and tombstones it covers.
LEMMA StampedResetOf ==
  ASSUME CourseInv, NEW d \in Devices, NEW scope \in Scopes, NEW stamp \in Nat, stamp > OLDEST,
         _reset_by_stamp(d, scope, stamp),
         ~(stamp <= IF scope = Full THEN reset[Full] ELSE covering(scope)),
         NEW k \in InScope(scope)
  PROVE  /\ covering(Term[k])' = latest(covering(Term[k]), stamp)
         /\ row'[k] \in {NoRow, clear_before(row[k], stamp)}
         /\ row[k] = NoRow => row'[k] = NoRow
         /\ row'[k] = NoRow /\ row[k] # NoRow =>
              /\ row[k].added_at <= stamp
              /\ row[k].source = "user_added" \/ ~override_outlasts(row[k], stamp)
         /\ IF DeletedAt(k) > stamp THEN tomb'[k] = tomb[k]
            ELSE \/ tomb'[k] = NoTombstone
                 \/ /\ row'[k] = NoRow /\ tomb'[k] \in Tombstones
                    /\ tomb'[k].deleted_at = stamp /\ tomb'[k].deleted_by_reset
<1> DEFINE rows == {j \in InScope(scope) : row[j] # NoRow}
           gone == {j \in rows :
                      /\ row[j].added_at <= stamp
                      /\ \/ row[j].source = "user_added"
                         \/ ~override_outlasts(row[j], stamp)}
           covered == {j \in InScope(scope) :
                         tomb[j] # NoTombstone /\ tomb[j].deleted_at <= stamp}
<1>1. k \in Courses /\ (scope = Full \/ Term[k] = scope)
  BY DEF InScope
<1>2. Sound(k) /\ DeletedAt(k) \in Nat
  BY <1>1, SoundCourses
<1>3. covering(Term[k])' = latest(covering(Term[k]), stamp)
  <2>1. reset' = [reset EXCEPT ![scope] = latest(reset[scope], stamp)]
    BY DEF _reset_by_stamp, _record_reset
  <2>2. scope \in Terms \union {NoTerm, Full} /\ Term[k] \in Terms \union {NoTerm, Full}
    BY <1>1, CoveringType DEF CourseInv, Scopes
  <2> QED BY <1>1, <2>1, <2>2, CourseConstants DEF covering, latest, CourseInv, CourseType
<1>4. row'[k] = IF k \in gone THEN NoRow
                ELSE IF k \in rows THEN clear_before(row[k], stamp) ELSE row[k]
  BY <1>1 DEF _reset_by_stamp
<1>5. tomb'[k] = IF scope = Full
                 THEN IF k \in covered THEN NoTombstone ELSE tomb[k]
                 ELSE IF k \in covered /\ k \in rows \ gone THEN NoTombstone
                 ELSE IF k \in covered THEN
                        Tombstone(stamp, d, TRUE, tomb[k].user_added)
                 ELSE IF k \in gone /\ tomb[k] = NoTombstone THEN
                        Tombstone(stamp, d, TRUE, row[k].source = "user_added")
                 ELSE tomb[k]
  BY <1>1 DEF _reset_by_stamp
<1>6. k \in rows <=> row[k] # NoRow
  OBVIOUS
<1>7. k \in covered <=> tomb[k] # NoTombstone /\ tomb[k].deleted_at <= stamp
  OBVIOUS
<1>8. IF DeletedAt(k) > stamp THEN tomb'[k] = tomb[k]
      ELSE \/ tomb'[k] = NoTombstone
           \/ /\ row'[k] = NoRow /\ tomb'[k] \in Tombstones
              /\ tomb'[k].deleted_at = stamp /\ tomb'[k].deleted_by_reset
  <2> HIDE DEF rows, gone, covered
  <2>1. \A user_added \in BOOLEAN :
          LET t == Tombstone(stamp, d, TRUE, user_added) IN
          t \in Tombstones /\ t.deleted_at = stamp /\ t.deleted_by_reset
    BY DEF Tombstone, Tombstones
  <2>2. k \in gone => k \in rows
    BY DEF gone
  <2>3. CASE k \in covered
    <3>1. ~(DeletedAt(k) > stamp) /\ tomb[k] \in Tombstones
      BY <1>2, <1>7, <2>3 DEF DeletedAt, Sound, Tombstones
    <3>2. CASE scope = Full \/ k \in rows \ gone
      BY <1>5, <2>3, <3>1, <3>2
    <3>3. CASE ~(scope = Full \/ k \in rows \ gone)
      <4>1. tomb'[k] = Tombstone(stamp, d, TRUE, tomb[k].user_added)
        BY <1>5, <2>3, <3>3
      <4>2. row'[k] = NoRow
        BY <1>4, <1>6, <3>3
      <4>3. tomb[k].user_added \in BOOLEAN
        BY <3>1 DEF Tombstones
      <4> QED BY <2>1, <3>1, <4>1, <4>2, <4>3
    <3> QED BY <3>2, <3>3
  <2>4. CASE k \notin covered
    <3>1. DeletedAt(k) > stamp \/ tomb[k] = NoTombstone
      BY <1>2, <1>7, <2>4 DEF DeletedAt, Sound, Tombstones
    <3>2. CASE scope # Full /\ k \in gone /\ tomb[k] = NoTombstone
      <4>1. tomb'[k] = Tombstone(stamp, d, TRUE, row[k].source = "user_added")
        BY <1>5, <2>4, <3>2
      <4>2. row'[k] = NoRow
        BY <1>4, <3>2
      <4>3. (row[k].source = "user_added") \in BOOLEAN
        OBVIOUS
      <4>4. ~(DeletedAt(k) > stamp)
        BY <3>2 DEF DeletedAt, None
      <4> QED BY <2>1, <4>1, <4>2, <4>3, <4>4
    <3>3. CASE ~(scope # Full /\ k \in gone /\ tomb[k] = NoTombstone)
      <4>1. tomb'[k] = tomb[k]
        BY <1>5, <2>4, <3>3
      <4> QED BY <3>1, <4>1
    <3> QED BY <3>2, <3>3
  <2> QED BY <2>3, <2>4
<1>9. k \in gone => /\ row[k].added_at <= stamp
                    /\ row[k].source = "user_added" \/ ~override_outlasts(row[k], stamp)
  OBVIOUS
<1>10. row[k] # NoRow => clear_before(row[k], stamp) # NoRow
  BY <1>2, ClearBefore, CourseNulls DEF Sound
<1> HIDE DEF rows, gone, covered
<1>11. /\ row'[k] \in {NoRow, clear_before(row[k], stamp)}
       /\ row[k] = NoRow => row'[k] = NoRow
       /\ row'[k] = NoRow /\ row[k] # NoRow => k \in gone
  <2>1. k \in gone => k \in rows
    BY DEF gone
  <2> QED BY <1>4, <1>6, <1>10, <2>1
<1> QED BY <1>3, <1>8, <1>9, <1>11

LEMMA StampedResetKeeps ==
  ASSUME CourseInv, NEW d \in Devices, NEW scope \in Scopes, NEW stamp \in Nat, stamp > OLDEST,
         _reset_by_stamp(d, scope, stamp), NEW k \in Courses
  PROVE  /\ Sound(k)' /\ Honoured(k) /\ FollowsChoice(k)
         /\ ChoiceOf(k)' = IF LC!Wins(sent'.edits[k], ChoiceOf(k)) THEN sent'.edits[k]
                           ELSE ChoiceOf(k)
<1> DEFINE stored == IF scope = Full THEN reset[Full] ELSE covering(scope)
           cov == covering(Term[k])
<1>1. /\ Sound(k) /\ AddedAt(k) \in Nat /\ DeletedAt(k) \in Nat /\ cov \in Nat
      /\ stored \in Nat /\ (k \in InScope(scope) => stored <= cov)
  <2>1. stored \in Nat
    BY CourseConstants DEF CourseInv, CourseType, covering, latest, Scopes
  <2>2. k \in InScope(scope) => stored <= cov
    BY CoveringType DEF InScope, CourseInv, CourseType
  <2> QED BY <2>1, <2>2, SoundCourses, CoveringType DEF CourseInv
<1>2. /\ sent'.by = "stamp"
      /\ sent'.edits[k] = IF k \in InScope(scope) THEN Choice("reset", stamp)
                          ELSE Choice("none", None)
  BY DEF _reset_by_stamp, Sent, NoEdits
<1>3. /\ ChoiceOf(k).at = membership_stamp(k) /\ membership_stamp(k) \in Nat
      /\ membership_stamp(k) >= AddedAt(k) /\ membership_stamp(k) >= DeletedAt(k)
      /\ membership_stamp(k) >= cov
  BY ChoiceStamp
<1>4. LC!Wins(sent'.edits[k], ChoiceOf(k)) <=> k \in InScope(scope) /\ stamp >= membership_stamp(k)
  <2>1. CASE k \in InScope(scope)
    BY <1>2, <1>3, <2>1 DEF LC!Wins, LC!None, Choice, OLDEST
  <2>2. CASE k \notin InScope(scope)
    BY <1>2, <1>3, <2>2 DEF LC!Wins, LC!None, Choice, None
  <2> QED BY <2>1, <2>2
<1> HIDE DEF stored
<1>5. CASE stamp <= stored
  <2>1. row'[k] = row[k] /\ tomb'[k] = tomb[k] /\ covering(Term[k])' = covering(Term[k])
    BY <1>5 DEF _reset_by_stamp, stored, covering
  <2>2. ASSUME k \in InScope(scope), stamp >= membership_stamp(k)
        PROVE  ChoiceOf(k) = Choice("reset", stamp)
    BY <1>1, <1>3, <1>5, <2>2 DEF ChoiceOf, None, OLDEST
  <2>3. /\ Sound(k)' /\ Honoured(k) /\ FollowsChoice(k) /\ ChoiceOf(k)' = ChoiceOf(k)
    BY <2>1, Untouched
  <2> QED BY <1>2, <1>4, <2>2, <2>3
<1>6. CASE stamp > stored /\ k \notin InScope(scope)
  <2>1. row'[k] = row[k] /\ tomb'[k] = tomb[k]
    BY <1>6 DEF _reset_by_stamp
  <2>2. covering(Term[k])' = covering(Term[k])
    <3>1. reset' = [reset EXCEPT ![scope] = latest(reset[scope], stamp)] \/ reset' = reset
      BY DEF _reset_by_stamp, _record_reset
    <3>2. scope # Full /\ Term[k] # scope
      BY <1>6 DEF InScope
    <3> QED BY <3>1, <3>2, CoveringType DEF covering, CourseInv, CourseType
  <2>3. /\ Sound(k)' /\ Honoured(k) /\ FollowsChoice(k) /\ ChoiceOf(k)' = ChoiceOf(k)
    BY <2>1, <2>2, Untouched
  <2> QED BY <1>4, <1>6, <2>3
<1>7. CASE stamp > stored /\ k \in InScope(scope)
  <2>1. /\ covering(Term[k])' = latest(cov, stamp)
        /\ row'[k] \in {NoRow, clear_before(row[k], stamp)}
        /\ row[k] = NoRow => row'[k] = NoRow
        /\ row'[k] = NoRow /\ row[k] # NoRow =>
             /\ row[k].added_at <= stamp
             /\ row[k].source = "user_added" \/ ~override_outlasts(row[k], stamp)
        /\ IF DeletedAt(k) > stamp THEN tomb'[k] = tomb[k]
           ELSE \/ tomb'[k] = NoTombstone
                \/ /\ row'[k] = NoRow /\ tomb'[k] \in Tombstones
                   /\ tomb'[k].deleted_at = stamp /\ tomb'[k].deleted_by_reset
    BY <1>1, <1>7, StampedResetOf DEF stored
  <2>2. row[k] # NoRow /\ row'[k] # NoRow =>
          /\ row'[k] = clear_before(row[k], stamp) /\ row[k] \in Rows /\ row'[k] \in Rows
          /\ row'[k].source = row[k].source
          /\ row'[k].added_at = IF row[k].added_at <= stamp THEN None ELSE row[k].added_at
          /\ \A f \in Fields :
               /\ row'[k].fields[f] \in {row[k].fields[f], [value |-> Empty, at |-> stamp]}
               /\ row'[k].fields[f] # row[k].fields[f] => row[k].fields[f].at <= stamp
    <3> SUFFICES ASSUME row[k] # NoRow, row'[k] # NoRow
                 PROVE  /\ row'[k] = clear_before(row[k], stamp) /\ row[k] \in Rows /\ row'[k] \in Rows
                        /\ row'[k].source = row[k].source
                        /\ row'[k].added_at = IF row[k].added_at <= stamp THEN None ELSE row[k].added_at
                        /\ \A f \in Fields :
                             /\ row'[k].fields[f] \in {row[k].fields[f], [value |-> Empty, at |-> stamp]}
                             /\ row'[k].fields[f] # row[k].fields[f] => row[k].fields[f].at <= stamp
      OBVIOUS
    <3>1. row'[k] = clear_before(row[k], stamp) /\ row[k] \in Rows
      BY <1>1, <2>1 DEF Sound
    <3> QED BY <3>1, ClearBefore
  <2>3. AddedAt(k)' = IF AddedAt(k) <= stamp THEN 0 ELSE AddedAt(k)
    BY <2>1, <2>2 DEF AddedAt, None
  <2>4. IF DeletedAt(k) > stamp THEN DeletedAt(k)' = DeletedAt(k) ELSE DeletedAt(k)' \in {0, stamp}
    BY <2>1, CourseNulls DEF DeletedAt, None
  <2>5. covering(Term[k])' \in Nat /\ covering(Term[k])' >= stamp /\ covering(Term[k])' >= cov
        /\ covering(Term[k])' \in {stamp, cov}
    BY <1>1, <2>1 DEF latest
  <2>6. ChoiceOf(k)' = IF stamp >= membership_stamp(k) THEN Choice("reset", stamp) ELSE ChoiceOf(k)
    <3>1. CASE stamp >= membership_stamp(k)
      BY <1>1, <1>3, <2>3, <2>4, <2>5, <3>1 DEF ChoiceOf, None, OLDEST
    <3>2. CASE stamp < membership_stamp(k)
      <4>1. DeletedAt(k) > stamp => tombstone_kind(tomb'[k]) = tombstone_kind(tomb[k])
        BY <2>1
      <4> QED BY <1>1, <1>3, <2>3, <2>4, <2>5, <3>2, <4>1 DEF ChoiceOf, None, Choice, membership_stamp, latest
    <3> QED BY <1>3, <3>1, <3>2
  <2>7. Sound(k)'
    <3>1. row'[k] \in Rows \union {NoRow}
      BY <2>1, <2>2
    <3>2. /\ tomb'[k] \in Tombstones \union {NoTombstone}
          /\ tomb'[k] # NoTombstone => tomb'[k].deleted_at > 0
          /\ tombstone_kind(tomb'[k]) = Reset => tomb'[k].deleted_at <= covering(Term[k])'
      <4>1. CASE tomb'[k] = tomb[k]
        BY <1>1, <2>5, <4>1 DEF Sound, DeletedAt, Tombstones, tombstone_kind, Reset
      <4>2. CASE tomb'[k] = NoTombstone
        BY <4>2 DEF tombstone_kind, Reset
      <4>3. CASE tomb'[k] \in Tombstones /\ tomb'[k].deleted_at = stamp
        BY <2>5, <4>3 DEF OLDEST
      <4> QED BY <2>1, <4>1, <4>2, <4>3
    <3>3. k \in Mirrored /\ row'[k] # NoRow => row'[k].added_at = None
      BY <1>1, <2>1, <2>2 DEF Sound, None
    <3> QED BY <3>1, <3>2, <3>3 DEF Sound
  <2>8. Honoured(k)
    <3>1. FieldsForward(k)
      <4> SUFFICES ASSUME row[k] # NoRow, row'[k] # NoRow, NEW f \in Fields,
                          row'[k].fields[f] # row[k].fields[f]
                   PROVE  \/ row'[k].fields[f].at > row[k].fields[f].at
                          \/ row'[k].fields[f] = [value |-> Empty, at |-> row[k].fields[f].at]
        BY DEF FieldsForward
      <4>1. row'[k].fields[f] = [value |-> Empty, at |-> stamp] /\ row[k].fields[f].at <= stamp
        BY <2>2
      <4>2. row[k].fields[f].at \in Nat
        BY <2>2 DEF Rows, FieldStates
      <4> QED BY <4>1, <4>2
    <3>2. HoldsReset(k)
      BY <2>2 DEF HoldsReset
    <3>3. SparesLater(k)
      <4>1. row[k] # NoRow /\ row'[k] = NoRow =>
              /\ ~(row[k].added_at > stamp)
              /\ \/ row[k].source = "user_added"
                 \/ ~\E f \in Fields : row[k].fields[f].at > stamp
        BY <1>1, <2>1 DEF override_outlasts, Sound, Rows
      <4>2. sent'.edits[k].at = stamp
        BY <1>2, <1>7 DEF Choice
      <4> QED BY <4>1, <4>2 DEF SparesLater
    <3> QED BY <3>1, <3>2, <3>3 DEF Honoured
  <2>9. FollowsChoice(k)
    <3>1. Astray(k)' => Astray(k)
      <4> SUFFICES ASSUME Astray(k)' PROVE Astray(k)
        OBVIOUS
      <4>1. row'[k] # NoRow /\ row[k] # NoRow /\ row'[k].source = row[k].source
        BY <2>1, <2>2 DEF Astray
      <4>2. tomb'[k] = NoTombstone \/ (tomb'[k] = tomb[k] /\ DeletedAt(k) > stamp)
        BY <2>1, <4>1
      <4>3. tomb'[k] = NoTombstone => DeletedAt(k)' = 0 /\ tombstone_kind(tomb'[k]) = "none"
        BY DEF DeletedAt, tombstone_kind, None
      <4>4. tomb'[k] = NoTombstone => ChoiceOf(k)'.op # Remove
        BY <2>5, <4>3 DEF ChoiceOf, Choice, Remove
      <4>5. tomb'[k] = tomb[k] /\ DeletedAt(k) > stamp
        BY <4>1, <4>2, <4>3, <4>4 DEF Astray, Hide, Reset
      <4>6. ChoiceOf(k)' = ChoiceOf(k)
        BY <1>1, <1>3, <2>6, <4>5
      <4> QED BY <4>1, <4>5, <4>6 DEF Astray
    <3>2. StaleAdd(k)' => StaleAdd(k)
      <4> SUFFICES ASSUME StaleAdd(k)' PROVE StaleAdd(k)
        OBVIOUS
      <4>1. AddedAt(k)' = AddedAt(k) /\ AddedAt(k) > stamp
        BY <1>1, <2>3 DEF StaleAdd, None
      <4>2. ChoiceOf(k)' = ChoiceOf(k)
        BY <1>1, <1>3, <2>6, <4>1
      <4> QED BY <4>1, <4>2 DEF StaleAdd
    <3> QED BY <3>1, <3>2 DEF FollowsChoice
  <2> QED BY <1>2, <1>4, <1>7, <2>6, <2>7, <2>8, <2>9
<1> QED BY <1>1, <1>5, <1>6, <1>7

LEMMA StampedReset ==
  ASSUME CourseInv, NEW d \in Devices, NEW scope \in Scopes, NEW stamp \in edit_time,
         _reset_by_stamp(d, scope, stamp)
  PROVE  StepHonours
<1>1. stamp \in Nat /\ stamp > OLDEST /\ stamp <= clock + MAX_CLOCK_SKEW
  BY EditTimes DEF CourseInv
<1>2. \A k \in Courses :
        /\ Sound(k)' /\ Honoured(k) /\ FollowsChoice(k)
        /\ ChoiceOf(k)' = IF LC!Wins(sent'.edits[k], ChoiceOf(k)) THEN sent'.edits[k]
                          ELSE ChoiceOf(k)
  BY <1>1, StampedResetKeeps
<1>3. CourseInv'
  <2>1. row' = [k \in Courses |-> row'[k]] /\ tomb' = [k \in Courses |-> tomb'[k]]
    BY DEF _reset_by_stamp, CourseInv, CourseType
  <2>2. clock' = clock + 1
    BY DEF _reset_by_stamp, Serve
  <2>3. reset' = reset \/ reset' = [reset EXCEPT ![scope] = latest(reset[scope], stamp)]
    BY DEF _reset_by_stamp, _record_reset
  <2>4. /\ reset' \in [Terms \union {NoTerm, Full} -> Nat]
        /\ \A s \in Terms \union {NoTerm, Full} :
             reset'[s] = reset[s] \/ reset'[s] <= clock + MAX_CLOCK_SKEW
    BY <1>1, <2>3 DEF CourseInv, CourseType, latest, Scopes
  <2> QED BY <1>2, <2>1, <2>2, <2>4, SoundStep
<1>4. sent'.by = "stamp"
  BY DEF _reset_by_stamp, Sent
<1> QED BY <1>2, <1>3, <1>4, ByStampOf DEF StepHonours, Courses

\* A request that changes at most the fields of a course.
LEMMA FieldsOnly ==
  ASSUME CourseInv, NEW k \in Courses, tomb'[k] = tomb[k], covering(Term[k])' = covering(Term[k]),
         row[k] = NoRow => row'[k] = NoRow,
         row[k] # NoRow => /\ row'[k] \in Rows /\ row'[k].source = row[k].source
                          /\ row'[k].added_at = row[k].added_at
  PROVE  /\ Sound(k)' /\ FollowsChoice(k) /\ ChoiceOf(k)' = ChoiceOf(k)
         /\ AddedAt(k)' = AddedAt(k) /\ SparesLater(k)
<1>1. Sound(k)
  BY SoundCourses
<1>2. row[k] # NoRow => row'[k] # NoRow
  BY CourseNulls
<1>3. AddedAt(k)' = AddedAt(k)
  BY <1>2 DEF AddedAt
<1>4. ChoiceOf(k)' = ChoiceOf(k)
  BY <1>3, ChoiceKept
<1>5. Sound(k)'
  BY <1>1, <1>2 DEF Sound
<1>6. FollowsChoice(k)
  BY <1>2, <1>3, <1>4 DEF FollowsChoice, Astray, StaleAdd
<1>7. SparesLater(k)
  BY <1>2 DEF SparesLater
<1> QED BY <1>3, <1>4, <1>5, <1>6, <1>7

\* An override that its course's reset lets through moves one field, forward,
\* and to a stamp past the reset, or one clamped by an import.
LEMMA OverrideOf ==
  ASSUME CourseInv, NEW j \in Courses, row[j] # NoRow, NEW f \in Fields, NEW value \in Values,
         NEW ts \in Nat, NEW now \in Arrivals, now = clock \/ InitialUpload,
         \/ ts > covering(Term[j]) /\ SetField(j, f, value, ts, now)
         \/ row' = row,
         tomb' = tomb, reset' = reset, NEW k \in Courses
  PROVE  Sound(k)' /\ Honoured(k) /\ FollowsChoice(k) /\ ChoiceOf(k)' = ChoiceOf(k)
<1> DEFINE applied == apply_field(row[j].fields[f], value, ts, now)
           passes == \/ applied.at > covering(Term[k])
                     \/ /\ applied.at \in {n + MAX_CLOCK_SKEW : n \in Arrivals}
                        /\ InitialUpload
<1>1. tomb'[k] = tomb[k] /\ covering(Term[k])' = covering(Term[k])
  BY DEF covering
<1>2. CASE row'[k] = row[k]
  BY <1>1, <1>2, Untouched
<1>3. CASE row'[k] # row[k]
  <2>1. k = j /\ ts > covering(Term[j]) /\ row'[k] = [row[k] EXCEPT !.fields[f] = applied]
    BY <1>3 DEF SetField, CourseInv, CourseType
  <2>2. row[k] \in Rows /\ row[k].fields[f] \in FieldStates /\ now \in Nat
    BY <2>1, EditTimes DEF CourseInv, CourseType, Rows
  <2>3. /\ applied \in FieldStates
        /\ applied # row[k].fields[f] =>
             /\ applied.at > row[k].fields[f].at
             /\ applied.at \in {ts, now + MAX_CLOCK_SKEW}
    BY <2>1, <2>2, ApplyField
  <2>4. now = clock => now + MAX_CLOCK_SKEW > covering(Term[k])
    BY CoveringType, CourseConstants DEF CourseInv, ResetsBehind
  <2>5. applied # row[k].fields[f] => passes
    BY <2>1, <2>3, <2>4
  <2> HIDE DEF applied
  <2>6. /\ row'[k] \in Rows /\ row'[k].source = row[k].source
        /\ row'[k].added_at = row[k].added_at
        /\ \A g \in Fields : row'[k].fields[g] # row[k].fields[g] => g = f /\ row'[k].fields[g] = applied
    BY <2>1, <2>2, <2>3 DEF Rows
  <2>7. /\ Sound(k)' /\ FollowsChoice(k) /\ ChoiceOf(k)' = ChoiceOf(k) /\ SparesLater(k)
    BY <1>1, <2>1, <2>6, FieldsOnly
  <2>8. FieldsForward(k)
    BY <2>3, <2>6 DEF FieldsForward
  <2>9. HoldsReset(k)
    BY <1>1, <2>5, <2>6 DEF HoldsReset
  <2> QED BY <2>7, <2>8, <2>9 DEF Honoured
<1> QED BY <1>2, <1>3

LEMMA Override ==
  ASSUME CourseInv, NEW j \in Courses, NEW f \in Fields, NEW value \in Values,
         NEW ts \in Nat,
         _override_course(j, f, value, ts) \/ put_course_override(j, f, value, ts)
  PROVE  StepHonours
<1>1. /\ row[j] # NoRow /\ tomb' = tomb /\ reset' = reset /\ clock' = clock + 1
      /\ (ts > covering(Term[j]) /\ SetField(j, f, value, ts, clock)) \/ row' = row
      /\ sent'.by = "school"
  BY DEF _override_course, put_course_override, Serve, Sent
<1>2. \A k \in Courses :
        Sound(k)' /\ Honoured(k) /\ FollowsChoice(k) /\ ChoiceOf(k)' = ChoiceOf(k)
  BY <1>1, EditTimes, OverrideOf DEF CourseInv
<1>3. CourseInv'
  <2>1. row' = [k \in Courses |-> row'[k]] /\ tomb' = [k \in Courses |-> tomb'[k]]
    BY <1>1 DEF SetField, CourseInv, CourseType
  <2> QED BY <1>1, <1>2, <2>1, SoundStep DEF CourseInv, CourseType
<1> QED BY <1>1, <1>2, <1>3, BySchoolOf DEF StepHonours, Courses

\* POST /initial-upload: a row the server lacks is imported, and counts as an
\* add of its arrival when it was added by hand; a row it has is edited like an override.
LEMMA ImportOf ==
  ASSUME CourseInv, NEW j \in Keys, NEW source \in {"user_added", "ntust_portal"},
         NEW status \in {"enrolled", "dropped"}, NEW f \in Fields, NEW value \in Values,
         NEW ts \in Nat, NEW now \in Arrivals,
         process_initial_upload(j, now, source, status, f, value, ts),
         row[j] = NoRow
  PROVE  /\ row'[j] \in Rows /\ row' = [row EXCEPT ![j] = row'[j]]
         /\ row'[j].added_at = IF source = "user_added" THEN now ELSE None
<1> DEFINE made == Row(source, IF source = "user_added" THEN now ELSE None, status)
           stamp == IF ts = None THEN OLDEST ELSE ts
           applied == apply_field(made.fields[f], value, stamp, now)
<1>1. now \in Nat /\ j \in Courses
  BY EditTimes DEF CourseInv, Courses
<1>2. made \in Rows /\ made.added_at = (IF source = "user_added" THEN now ELSE None)
      /\ made.fields[f] \in FieldStates
  BY <1>1 DEF Row, Rows, FieldStates, Unset, None
<1> HIDE DEF made
<1>3. applied \in FieldStates
  BY <1>1, <1>2, ApplyField DEF OLDEST
<1>4. row' = [row EXCEPT ![j] = made] \/ row' = [row EXCEPT ![j] = [made EXCEPT !.fields[f] = applied]]
  BY DEF process_initial_upload, made
<1> HIDE DEF applied
<1>5. [made EXCEPT !.fields[f] = applied] \in Rows
      /\ [made EXCEPT !.fields[f] = applied].added_at = made.added_at
  BY <1>2, <1>3 DEF Rows
<1> QED BY <1>1, <1>2, <1>4, <1>5 DEF CourseInv, CourseType

LEMMA ImportKeeps ==
  ASSUME CourseInv, NEW j \in Keys, NEW source \in {"user_added", "ntust_portal"},
         NEW status \in {"enrolled", "dropped"}, NEW f \in Fields, NEW value \in Values,
         NEW ts \in Nat, NEW now \in Arrivals,
         process_initial_upload(j, now, source, status, f, value, ts),
         InitialUpload, NEW k \in Courses
  PROVE  /\ Sound(k)' /\ Honoured(k)
         /\ ChoiceOf(k)' = IF LC!Wins(sent'.edits[k], ChoiceOf(k)) THEN sent'.edits[k]
                           ELSE ChoiceOf(k)
<1> DEFINE stamp == IF ts = None THEN OLDEST ELSE ts
<1>1. /\ Sound(k) /\ AddedAt(k) \in Nat /\ DeletedAt(k) \in Nat /\ covering(Term[k]) \in Nat
      /\ ChoiceOf(k).at = membership_stamp(k) /\ membership_stamp(k) \in Nat
      /\ j \in Courses /\ now \in Nat
  BY SoundCourses, CoveringType, ChoiceStamp, EditTimes DEF CourseInv, CourseType, Courses
<1>2. /\ tomb' = tomb /\ reset' = reset /\ covering(Term[k])' = covering(Term[k])
      /\ DeletedAt(k)' = DeletedAt(k)
  BY DEF process_initial_upload, covering, DeletedAt
<1>3. /\ sent'.by = "stamp"
      /\ sent'.edits[k] = IF k = j /\ row[j] = NoRow /\ source = "user_added"
                          THEN Choice("add", now) ELSE Choice("none", None)
  BY DEF process_initial_upload, Sent, NoEdits
<1>4. sent'.edits[k].op # "reset"
  BY <1>3 DEF Choice
<1>5. LC!Wins(sent'.edits[k], ChoiceOf(k)) <=>
        k = j /\ row[j] = NoRow /\ source = "user_added" /\ now > membership_stamp(k)
  <2>1. CASE k = j /\ row[j] = NoRow /\ source = "user_added"
    BY <1>1, <1>3, <1>4, <2>1 DEF LC!Wins, Choice
  <2>2. CASE ~(k = j /\ row[j] = NoRow /\ source = "user_added")
    BY <1>1, <1>3, <1>4, <2>2 DEF LC!Wins, Choice, None
  <2> QED BY <2>1, <2>2
<1>6. CASE row[j] # NoRow
  <2>1. \/ stamp > covering(Term[j]) /\ SetField(j, f, value, stamp, now)
        \/ row' = row
    BY <1>1, <1>6 DEF process_initial_upload, SetField, CourseInv, CourseType
  <2>2. stamp \in Nat
    BY DEF OLDEST
  <2> HIDE DEF stamp
  <2>3. Sound(k)' /\ Honoured(k) /\ ChoiceOf(k)' = ChoiceOf(k)
    BY <1>1, <1>2, <1>6, <2>1, <2>2, OverrideOf
  <2> QED BY <1>5, <1>6, <2>3
<1>7. CASE row[j] = NoRow /\ k # j
  <2>1. row'[k] = row[k]
    BY <1>7 DEF process_initial_upload, CourseInv, CourseType
  <2>2. Sound(k)' /\ Honoured(k) /\ ChoiceOf(k)' = ChoiceOf(k)
    BY <1>2, <2>1, Untouched
  <2> QED BY <1>5, <1>7, <2>2
<1>8. CASE row[j] = NoRow /\ k = j
  <2>1. /\ row'[k] \in Rows /\ row'[k] # NoRow
        /\ row'[k].added_at = IF source = "user_added" THEN now ELSE None
    BY <1>8, ImportOf, CourseNulls
  <2>2. Sound(k)'
    BY <1>1, <1>2, <1>8, <2>1, CourseConstants DEF Sound
  <2>3. Honoured(k)
    BY <1>8 DEF Honoured, FieldsForward, HoldsReset, SparesLater
  <2>4. /\ AddedAt(k) = 0
        /\ AddedAt(k)' = IF source = "user_added" THEN now ELSE 0
    BY <1>8, <2>1 DEF AddedAt, None
  <2>5. ChoiceOf(k)' = IF source = "user_added" /\ now > membership_stamp(k)
                       THEN Choice("add", now) ELSE ChoiceOf(k)
    <3>1. tomb'[k] = tomb[k]
      BY <1>2
    <3> QED BY <1>1, <1>2, <2>4, <3>1 DEF ChoiceOf, membership_stamp, latest
  <2> QED BY <1>3, <1>5, <1>8, <2>2, <2>3, <2>5
<1> QED BY <1>6, <1>7, <1>8

LEMMA Import ==
  ASSUME CourseInv, InitialUpload
  PROVE  StepHonours
<1>1. PICK j \in Keys, source \in {"user_added", "ntust_portal"},
           status \in {"enrolled", "dropped"}, f \in Fields, value \in Values, ts \in Nat,
           now \in Arrivals :
         process_initial_upload(j, now, source, status, f, value, ts)
  <2>1. \A ts \in {None} \union (OLDEST + 1) .. (clock + MAX_CLOCK_SKEW + 1) : ts \in Nat
    BY CourseConstants DEF CourseInv, CourseType, OLDEST, None
  <2> QED BY <2>1 DEF InitialUpload
<1>2. \A k \in Courses :
        /\ Sound(k)' /\ Honoured(k)
        /\ ChoiceOf(k)' = IF LC!Wins(sent'.edits[k], ChoiceOf(k)) THEN sent'.edits[k]
                          ELSE ChoiceOf(k)
  BY <1>1, ImportKeeps
<1>3. tomb' = tomb /\ reset' = reset /\ clock' = clock + 1 /\ sent'.by = "stamp"
  BY <1>1 DEF process_initial_upload, Serve, Sent
<1>4. CourseInv'
  <2>1. row' = [k \in Courses |-> row'[k]] /\ tomb' = [k \in Courses |-> tomb'[k]]
    BY <1>1 DEF process_initial_upload, CourseInv, CourseType
  <2> QED BY <1>2, <1>3, <2>1, SoundStep DEF CourseInv, CourseType
<1> QED BY <1>2, <1>3, <1>4, ByStampOf DEF StepHonours

\* The server's own fetch of the course list.
LEMMA Fetching ==
  ASSUME CourseInv, NEW fetched, apply_fetched_courses(fetched)
  PROVE  StepHonours
<1>1. /\ tomb' = tomb /\ reset' = reset /\ clock' = clock + 1 /\ sent'.by = "school"
      /\ \A k \in Courses : covering(Term[k])' = covering(Term[k])
  BY DEF apply_fetched_courses, Serve, Sent, covering
<1>2. \A k \in Keys :
        Sound(k)' /\ Honoured(k) /\ FollowsChoice(k) /\ ChoiceOf(k)' = ChoiceOf(k)
  <2> SUFFICES ASSUME NEW k \in Keys
               PROVE  Sound(k)' /\ Honoured(k) /\ FollowsChoice(k) /\ ChoiceOf(k)' = ChoiceOf(k)
    OBVIOUS
  <2>1. row'[k] = row[k] /\ k \in Courses
    BY DEF apply_fetched_courses, Courses
  <2> QED BY <1>1, <2>1, Untouched
<1>3. \A k \in Mirrored : Sound(k)' /\ Honoured(k) /\ ChoiceOf(k)' = ChoiceOf(k)
  <2> SUFFICES ASSUME NEW k \in Mirrored
               PROVE  Sound(k)' /\ Honoured(k) /\ ChoiceOf(k)' = ChoiceOf(k)
    OBVIOUS
  <2>1. k \in Courses /\ k \notin Keys
    BY CourseConstants DEF Courses
  <2>2. Sound(k)
    BY <2>1, SoundCourses
  <2>3. \/ row'[k] = NoRow
        \/ row[k] = NoRow /\ row'[k] = Row("ntust_portal", None, "enrolled")
        \/ row'[k] = row[k]
    BY <2>1 DEF apply_fetched_courses
  <2>4. /\ Row("ntust_portal", None, "enrolled") \in Rows
        /\ Row("ntust_portal", None, "enrolled").added_at = None
    BY DEF Row, Rows, FieldStates, Unset, None
  <2>5. AddedAt(k) = 0 /\ AddedAt(k)' = 0
    BY <2>2, <2>3, <2>4 DEF Sound, AddedAt, None
  <2>6. ChoiceOf(k)' = ChoiceOf(k)
    BY <1>1, <2>1, <2>5, ChoiceKept
  <2>7. Sound(k)'
    BY <1>1, <2>1, <2>2, <2>3, <2>4 DEF Sound
  <2>8. Honoured(k)
    BY <1>1, <2>3 DEF Honoured, FieldsForward, HoldsReset, SparesLater
  <2> QED BY <2>6, <2>7, <2>8
<1>4. \A k \in Courses : Sound(k)' /\ Honoured(k) /\ ChoiceOf(k)' = ChoiceOf(k)
  BY <1>2, <1>3 DEF Courses
<1>5. CourseInv'
  <2>1. row' = [k \in Courses |-> row'[k]] /\ tomb' = [k \in Courses |-> tomb'[k]]
    BY <1>1 DEF apply_fetched_courses, CourseInv, CourseType
  <2> QED BY <1>1, <1>4, <2>1, SoundStep DEF CourseInv, CourseType
<1> QED BY <1>1, <1>2, <1>4, <1>5, BySchoolOf DEF StepHonours

\* POST /courses/upload from a released app: the rows it writes.
RowAfterRelease(d, k, now, uploaded, force_keys) ==
  /\ row[k] # NoRow => row'[k] # NoRow
  /\ row'[k] # NoRow =>
       /\ row'[k] \in Rows
       /\ row'[k].added_at = IF k \in force_keys THEN now ELSE AddedAt(k)
       /\ row[k] # NoRow => \A f \in Fields : row'[k].fields[f] # row[k].fields[f] =>
            /\ row'[k].fields[f].at > row[k].fields[f].at
            /\ row'[k].fields[f].at = OLDEST /\ covering(Term[k]) = None
       /\ row[k] # NoRow /\ k \notin force_keys => row'[k].source = row[k].source
       /\ row[k] = NoRow /\ k \notin force_keys => row'[k].source = "ntust_portal"
  /\ row[k] = NoRow /\ row'[k] # NoRow =>
       k \in uploaded \ SkippedByTombstone(d, uploaded, force_keys)
  /\ k \in force_keys => row'[k] # NoRow

LEMMA ReleasedUploadRow ==
  ASSUME CourseInv, NEW d \in Devices, NEW now \in Nat, now > OLDEST,
         NEW uploaded \in SUBSET Keys, NEW force_keys \in SUBSET uploaded, NEW roster_terms,
         NEW fill \in Values \union {Empty},
         upload_courses(d, now, uploaded, force_keys, roster_terms, fill), NEW k \in Courses
  PROVE  RowAfterRelease(d, k, now, uploaded, force_keys)
<1> DEFINE cleared == {j \in force_keys : tomb[j] # NoTombstone}
           added_by_hand == force_keys \ {j \in cleared : ~tomb[j].user_added}
           back_by_hand == {j \in cleared : tomb[j].user_added}
           enrol == force_keys \union {j \in uploaded : Term[j] \in roster_terms}
           taken == uploaded \ SkippedByTombstone(d, uploaded, force_keys)
           none == {}
           added_at == IF k \in force_keys THEN now ELSE None
           upserted == Upserted(k, k \in added_by_hand, k \in back_by_hand, k \in none, added_at,
                                k \in enrol)
<1>1. Sound(k) /\ CourseType
  BY SoundCourses DEF CourseInv
<1>2. row'[k] = IF k \in taken THEN Filled(k, upserted, fill)
                ELSE IF k \in Dropped(uploaded, force_keys, roster_terms)
                     THEN [row[k] EXCEPT !.status = "dropped"]
                ELSE IF k \in uploaded /\ row[k] # NoRow THEN Filled(k, row[k], fill)
                ELSE row[k]
  BY DEF upload_courses, Upserted
<1>3. k \in force_keys => k \in taken
  BY DEF SkippedByTombstone, TombAfterRelease
<1>4. added_at \in Nat
  BY DEF None
<1>5. k \notin force_keys => k \notin added_by_hand /\ k \notin back_by_hand
  OBVIOUS
<1>6. k \notin none
  OBVIOUS
<1> HIDE DEF upserted, added_at, enrol, none, added_by_hand, back_by_hand
<1>7. /\ upserted \in Rows
      /\ upserted.added_at = IF added_at # None THEN added_at ELSE AddedAt(k)
      /\ row[k] # NoRow => upserted.fields = row[k].fields
      /\ upserted.source = IF row[k] = NoRow
                           THEN IF k \in added_by_hand THEN "user_added" ELSE "ntust_portal"
                           ELSE IF k \in back_by_hand THEN "user_added" ELSE row[k].source
  <2>1. CASE row[k] = NoRow
    BY <1>4, <2>1 DEF upserted, Upserted, Row, Rows, FieldStates, Unset, AddedAt, None
  <2>2. CASE row[k] # NoRow
    <3>1. row[k] \in Rows
      BY <1>1, <2>2 DEF Sound
    <3> QED BY <1>4, <1>6, <2>2, <3>1 DEF upserted, Upserted, Rows, AddedAt
  <2> QED BY <2>1, <2>2
<1>8. CASE k \in taken
  <2> DEFINE filled == Filled(k, upserted, fill)
  <2>1. /\ filled \in Rows /\ filled.source = upserted.source
        /\ filled.added_at = upserted.added_at
        /\ \A f \in Fields : filled.fields[f] # upserted.fields[f] =>
             /\ filled.fields[f].at > upserted.fields[f].at
             /\ filled.fields[f].at = OLDEST
             /\ row[k] = NoRow \/ covering(Term[k]) = None
    BY <1>1, <1>7, FilledRow
  <2>2. row'[k] = filled
    BY <1>2, <1>8
  <2> HIDE DEF filled, taken
  <2>3. row'[k] # NoRow
    BY <2>1, <2>2, CourseNulls
  <2>4. row'[k].added_at = IF k \in force_keys THEN now ELSE AddedAt(k)
    BY <1>7, <2>1, <2>2 DEF added_at, None, OLDEST
  <2>5. row[k] # NoRow => \A f \in Fields : row'[k].fields[f] # row[k].fields[f] =>
          /\ row'[k].fields[f].at > row[k].fields[f].at
          /\ row'[k].fields[f].at = OLDEST /\ covering(Term[k]) = None
    BY <1>7, <2>1, <2>2
  <2>6. k \notin force_keys =>
          row'[k].source = IF row[k] = NoRow THEN "ntust_portal" ELSE row[k].source
    BY <1>5, <1>7, <2>1, <2>2
  <2> QED BY <1>8, <2>1, <2>2, <2>3, <2>4, <2>5, <2>6 DEF taken, RowAfterRelease
<1>9. CASE k \notin taken
  <2>1. k \notin force_keys
    BY <1>3, <1>9
  <2>2. CASE row'[k] = row[k]
    BY <1>1, <2>1, <2>2 DEF Sound, AddedAt, RowAfterRelease
  <2>3. CASE row[k] # NoRow /\ row'[k] = [row[k] EXCEPT !.status = "dropped"]
    BY <1>1, <2>1, <2>3, CourseNulls DEF Sound, AddedAt, Rows, RowAfterRelease
  <2>4. CASE row[k] # NoRow /\ row'[k] = Filled(k, row[k], fill)
    <3> DEFINE filled == Filled(k, row[k], fill)
    <3>1. row[k] \in Rows
      BY <1>1, <2>4 DEF Sound
    <3>2. /\ filled \in Rows /\ filled.source = row[k].source
          /\ filled.added_at = row[k].added_at
          /\ \A f \in Fields : filled.fields[f] # row[k].fields[f] =>
               /\ filled.fields[f].at > row[k].fields[f].at
               /\ filled.fields[f].at = OLDEST
               /\ row[k] = NoRow \/ covering(Term[k]) = None
      BY <1>1, <3>1, FilledRow
    <3> HIDE DEF filled
    <3>3. row'[k] = filled
      BY <2>4 DEF filled
    <3> QED BY <2>1, <2>4, <3>2, <3>3, CourseNulls DEF AddedAt, RowAfterRelease
  <2>5. \/ row'[k] = row[k]
        \/ row[k] # NoRow /\ row'[k] = [row[k] EXCEPT !.status = "dropped"]
        \/ row[k] # NoRow /\ row'[k] = Filled(k, row[k], fill)
    BY <1>2, <1>9 DEF Dropped
  <2> QED BY <2>2, <2>3, <2>4, <2>5
<1> QED BY <1>8, <1>9

\* ... and what it does to one course.
LEMMA ReleasedUploadKeeps ==
  ASSUME CourseInv, NEW d \in Devices, NEW now \in Nat, now > OLDEST,
         NEW uploaded \in SUBSET Keys, NEW force_keys \in SUBSET uploaded, NEW roster_terms,
         NEW fill \in Values \union {Empty},
         upload_courses(d, now, uploaded, force_keys, roster_terms, fill), NEW k \in Courses
  PROVE  /\ Sound(k)' /\ Honoured(k) /\ FollowsChoice(k)
         /\ k \in force_keys =>
              \/ ChoiceOf(k)' = Choice("add", now)
              \/ ChoiceOf(k)'.op = "reset" /\ ChoiceOf(k)'.at >= now
         /\ k \notin force_keys =>
              \/ ChoiceOf(k)' = ChoiceOf(k)
              \/ /\ force_keys = {}
                 /\ ChoiceOf(k).op = Remove /\ ChoiceOf(k)'.op # Remove
                 /\ ChoiceOf(k)'.at <= ChoiceOf(k).at
<1> DEFINE taken == uploaded \ SkippedByTombstone(d, uploaded, force_keys)
           lifted == \/ k \in force_keys
                     \/ /\ k \in uploaded /\ tomb[k] # NoTombstone /\ tomb[k].by = d
                        /\ tomb[k].deleted_by_reset \/ (force_keys = {} /\ tomb[k].user_added)
<1>1. /\ Sound(k) /\ AddedAt(k) \in Nat /\ DeletedAt(k) \in Nat /\ covering(Term[k]) \in Nat
      /\ ChoiceOf(k).at = membership_stamp(k)
  BY SoundCourses, CoveringType, ChoiceStamp DEF CourseInv
<1>2. /\ row[k] # NoRow => row'[k] # NoRow
      /\ row'[k] # NoRow =>
           /\ row'[k] \in Rows
           /\ row'[k].added_at = IF k \in force_keys THEN now ELSE AddedAt(k)
           /\ row[k] # NoRow => \A f \in Fields : row'[k].fields[f] # row[k].fields[f] =>
                /\ row'[k].fields[f].at > row[k].fields[f].at
                /\ row'[k].fields[f].at = OLDEST /\ covering(Term[k]) = None
           /\ row[k] # NoRow /\ k \notin force_keys => row'[k].source = row[k].source
           /\ row[k] = NoRow /\ k \notin force_keys => row'[k].source = "ntust_portal"
      /\ row[k] = NoRow /\ row'[k] # NoRow => k \in taken
      /\ k \in force_keys => row'[k] # NoRow
  <2>1. RowAfterRelease(d, k, now, uploaded, force_keys)
    BY ReleasedUploadRow
  <2> QED BY <2>1 DEF RowAfterRelease
<1>3. tomb'[k] = IF lifted THEN NoTombstone ELSE tomb[k]
  BY DEF upload_courses, TombAfterRelease
<1>4. /\ reset' = reset /\ covering(Term[k])' = covering(Term[k])
      /\ sent'.by \in {"school", "arrival"}
  BY DEF upload_courses, covering, Sent
<1>5. k \in taken => tomb'[k] = NoTombstone \/ (tombstone_kind(tomb[k]) = Remove /\ row[k] # NoRow)
  <2>1. TombAfterRelease(d, uploaded, force_keys)[k] = IF lifted THEN NoTombstone ELSE tomb[k]
    BY DEF TombAfterRelease
  <2> QED BY <1>3, <2>1 DEF SkippedByTombstone
<1> HIDE DEF taken
<1>6. AddedAt(k)' = IF k \in force_keys THEN now ELSE AddedAt(k)
  BY <1>2 DEF AddedAt, None
<1>7. Sound(k)'
  <2>1. tomb'[k] # NoTombstone => tomb'[k] = tomb[k]
    BY <1>3
  <2>2. k \in Mirrored /\ row'[k] # NoRow => row'[k].added_at = None
    BY <1>1, <1>2, CourseConstants DEF Sound, AddedAt
  <2> QED BY <1>1, <1>2, <1>4, <2>1, <2>2 DEF Sound, tombstone_kind, Reset
<1>8. Honoured(k)
  <2>1. FieldsForward(k)
    BY <1>2 DEF FieldsForward
  <2>2. HoldsReset(k)
    BY <1>1, <1>2, <1>4 DEF HoldsReset, OLDEST, None
  <2>3. SparesLater(k)
    BY <1>4 DEF SparesLater
  <2> QED BY <2>1, <2>2, <2>3 DEF Honoured
<1>9. tomb'[k] = NoTombstone =>
        DeletedAt(k)' = 0 /\ tombstone_kind(tomb'[k]) = "none" /\ ChoiceOf(k)'.op # Remove
  <2> SUFFICES ASSUME tomb'[k] = NoTombstone
               PROVE  /\ DeletedAt(k)' = 0 /\ tombstone_kind(tomb'[k]) = "none"
                      /\ ChoiceOf(k)'.op # Remove
    OBVIOUS
  <2>1. DeletedAt(k)' = 0 /\ tombstone_kind(tomb'[k]) = "none"
    BY DEF DeletedAt, tombstone_kind, None
  <2> QED BY <1>1, <1>4, <2>1 DEF ChoiceOf, Choice, Remove
<1>10. CASE k \in force_keys
  <2>1. tomb'[k] = NoTombstone
    BY <1>3, <1>10
  <2>2. \/ ChoiceOf(k)' = Choice("add", now)
        \/ ChoiceOf(k)'.op = "reset" /\ ChoiceOf(k)'.at >= now
    BY <1>1, <1>4, <1>6, <1>9, <1>10, <2>1 DEF ChoiceOf, Choice, OLDEST, None
  <2>3. FollowsChoice(k)
    BY <1>4, <1>9, <2>1 DEF FollowsChoice, Astray, Hide, Reset
  <2> QED BY <1>7, <1>8, <1>10, <2>2, <2>3
<1>11. CASE k \notin force_keys
  <2>1. AddedAt(k)' = AddedAt(k)
    BY <1>6, <1>11
  <2>2. CASE tomb'[k] = tomb[k]
    <3>1. ChoiceOf(k)' = ChoiceOf(k)
      BY <1>4, <2>1, <2>2, ChoiceKept
    <3>2. Astray(k)' => Astray(k)
      <4>1. CASE row[k] # NoRow
        BY <1>2, <1>11, <2>2, <3>1, <4>1 DEF Astray
      <4>2. CASE row[k] = NoRow /\ row'[k] # NoRow
        BY <1>2, <1>5, <1>9, <4>2 DEF Astray, Hide, Reset
      <4>3. CASE row'[k] = NoRow
        BY <4>3 DEF Astray
      <4> QED BY <4>1, <4>2, <4>3
    <3> QED BY <1>4, <1>7, <1>8, <1>11, <3>1, <3>2 DEF FollowsChoice
  <2>3. CASE tomb'[k] # tomb[k]
    <3>1. tomb'[k] = NoTombstone /\ tomb[k] # NoTombstone
          /\ (tomb[k].deleted_by_reset \/ (force_keys = {} /\ tomb[k].user_added))
      BY <1>3, <1>11, <2>3
    <3>2. FollowsChoice(k)
      BY <1>4, <1>9, <3>1 DEF FollowsChoice, Astray, Hide, Reset
    <3>3. CASE tomb[k].deleted_by_reset
      <4>1. tombstone_kind(tomb[k]) = Reset
        BY <3>1, <3>3 DEF tombstone_kind
      <4>2. ChoiceOf(k)' = ChoiceOf(k)
        BY <1>4, <2>1, <3>1, <4>1, LiftingKeepsChoice
      <4> QED BY <1>7, <1>8, <1>11, <3>2, <4>2
    <3>4. CASE force_keys = {} /\ tomb[k].user_added /\ ~tomb[k].deleted_by_reset
      <4>1. tombstone_kind(tomb[k]) = Remove
        BY <3>1, <3>4 DEF tombstone_kind
      <4>2. \/ ChoiceOf(k)' = ChoiceOf(k)
            \/ /\ ChoiceOf(k).op = Remove /\ ChoiceOf(k)'.op # Remove
               /\ ChoiceOf(k)'.at <= ChoiceOf(k).at
        <5>1. DeletedAt(k)' = 0 /\ ChoiceOf(k)'.op # Remove
          BY <1>9, <3>1
        <5>2. CASE DeletedAt(k) > covering(Term[k]) /\ ~(AddedAt(k) > DeletedAt(k))
          <6>1. ChoiceOf(k) = Choice(Remove, DeletedAt(k))
            BY <1>1, <4>1, <5>2 DEF ChoiceOf
          <6>2. ChoiceOf(k)'.at <= DeletedAt(k)
            BY <1>1, <1>4, <2>1, <5>1, <5>2 DEF ChoiceOf, Choice, None
          <6> QED BY <5>1, <6>1, <6>2 DEF Choice
        <5>3. CASE ~(DeletedAt(k) > covering(Term[k]) /\ ~(AddedAt(k) > DeletedAt(k)))
          BY <1>1, <1>4, <2>1, <5>1, <5>3 DEF ChoiceOf
        <5> QED BY <5>2, <5>3
      <4> QED BY <1>7, <1>8, <1>11, <3>2, <3>4, <4>2
    <3> QED BY <3>1, <3>3, <3>4
  <2> QED BY <2>2, <2>3
<1> QED BY <1>10, <1>11

LEMMA ReleasedUpload ==
  ASSUME CourseInv, NEW d \in Devices, NEW now \in Arrivals,
         NEW uploaded \in SUBSET Keys, NEW force_keys \in SUBSET uploaded, NEW roster_terms,
         NEW fill \in Values \union {Empty},
         upload_courses(d, now, uploaded, force_keys, roster_terms, fill)
  PROVE  StepHonours
<1>1. now \in Nat /\ now > OLDEST
  BY EditTimes DEF CourseInv
<1>2. \A k \in Courses :
        /\ Sound(k)' /\ Honoured(k) /\ FollowsChoice(k)
        /\ k \in force_keys =>
             \/ ChoiceOf(k)' = Choice("add", now)
             \/ ChoiceOf(k)'.op = "reset" /\ ChoiceOf(k)'.at >= now
        /\ k \notin force_keys =>
             \/ ChoiceOf(k)' = ChoiceOf(k)
             \/ /\ force_keys = {}
                /\ ChoiceOf(k).op = Remove /\ ChoiceOf(k)'.op # Remove
                /\ ChoiceOf(k)'.at <= ChoiceOf(k).at
  BY <1>1, ReleasedUploadKeeps
<1>3. CourseInv'
  <2>1. row' = [k \in Courses |-> row'[k]] /\ tomb' = [k \in Courses |-> tomb'[k]]
    BY DEF upload_courses, TombAfterRelease
  <2>2. reset' = reset /\ clock' = clock + 1
    BY DEF upload_courses, Serve
  <2> QED BY <1>2, <2>1, <2>2, SoundStep DEF CourseInv, CourseType
<1>4. LC!LastChoiceNext
  <2>1. CASE force_keys = {}
    <3>1. sent'.by = "school"
      BY <2>1 DEF upload_courses, Sent
    <3> QED BY <1>2, <2>1, <3>1, BySchoolOf
  <2>2. CASE force_keys # {}
    <3>1. /\ sent'.by = "arrival"
          /\ \A k \in Courses :
               sent'.edits[k] = IF k \in force_keys THEN Choice("add", now) ELSE Choice("none", None)
      BY <2>2 DEF upload_courses, Sent, NoEdits
    <3>2. Choice("add", now).op # "none" /\ Choice("add", now).at = now
      BY DEF Choice
    <3> QED BY <1>2, <2>2, <3>1, <3>2, ByArrivalOf
  <2> QED BY <2>1, <2>2
<1> QED BY <1>2, <1>3, <1>4 DEF StepHonours, Courses

\* DELETE /courses from a released app: what it does to one course.
LEMMA ReleasedResetKeeps ==
  ASSUME CourseInv, NEW d \in Devices, NEW now \in Nat, now > OLDEST, NEW scope \in Scopes,
         delete_all_courses(d, now, scope), NEW k \in Courses
  PROVE  /\ Sound(k)' /\ Honoured(k) /\ FollowsChoice(k)
         /\ IF k \in InScope(scope)
            THEN ChoiceOf(k)'.op = "reset" /\ ChoiceOf(k)'.at >= now
            ELSE ChoiceOf(k)' = ChoiceOf(k)
<1>1. Sound(k) /\ covering(Term[k]) \in Nat
  BY SoundCourses, CoveringType DEF CourseInv
<1>2. sent'.by = "arrival"
  BY DEF delete_all_courses, Sent
<1>3. reset' = [reset EXCEPT ![scope] = latest(reset[scope], now)]
  BY DEF delete_all_courses, _record_reset
<1>4. scope \in Terms \union {NoTerm, Full} /\ Term[k] \in Terms \union {NoTerm, Full}
  BY CoveringType DEF CourseInv, Scopes
<1>5. CASE k \notin InScope(scope)
  <2>1. row'[k] = row[k] /\ tomb'[k] = tomb[k]
    BY <1>5 DEF delete_all_courses
  <2>2. covering(Term[k])' = covering(Term[k])
    BY <1>3, <1>4, <1>5 DEF InScope, covering, CourseInv, CourseType
  <2> QED BY <1>5, <2>1, <2>2, Untouched
<1>6. CASE k \in InScope(scope)
  <2>1. row'[k] = NoRow
    BY <1>6 DEF delete_all_courses
  <2>2. covering(Term[k])' = latest(covering(Term[k]), now)
    BY <1>3, <1>4, <1>6, CourseConstants DEF InScope, covering, latest, CourseInv, CourseType
  <2>3. covering(Term[k])' \in Nat /\ covering(Term[k])' >= now
    BY <1>1, <2>2 DEF latest
  <2>4. \/ tomb'[k] = NoTombstone
        \/ tomb'[k] \in Tombstones /\ tomb'[k].deleted_at = now
    <3>1. \A user_added \in BOOLEAN :
            LET t == Tombstone(now, d, TRUE, user_added) IN
            t \in Tombstones /\ t.deleted_at = now
      BY DEF Tombstone, Tombstones
    <3>2. tomb[k] # NoTombstone => tomb[k].user_added \in BOOLEAN
      BY <1>1 DEF Sound, Tombstones
    <3>3. (row[k].source = "user_added") \in BOOLEAN
      OBVIOUS
    <3>4. \/ tomb'[k] = NoTombstone
          \/ tomb'[k] = Tombstone(now, d, TRUE, row[k].source = "user_added")
          \/ tomb[k] # NoTombstone /\ tomb'[k] = Tombstone(now, d, TRUE, tomb[k].user_added)
      BY <1>6 DEF delete_all_courses
    <3> QED BY <3>1, <3>2, <3>3, <3>4
  <2>5. AddedAt(k)' = 0 /\ DeletedAt(k)' \in Nat /\ DeletedAt(k)' <= now
    BY <2>1, <2>4 DEF AddedAt, DeletedAt, None
  <2>6. ChoiceOf(k)' = Choice("reset", covering(Term[k])')
    BY <2>3, <2>5 DEF ChoiceOf, None, OLDEST
  <2>7. Sound(k)'
    BY <2>1, <2>3, <2>4 DEF Sound, tombstone_kind, Reset, OLDEST
  <2>8. Honoured(k)
    BY <1>2, <2>1 DEF Honoured, FieldsForward, HoldsReset, SparesLater
  <2>9. FollowsChoice(k)
    BY <1>2, <2>1 DEF FollowsChoice, Astray
  <2> QED BY <1>6, <2>3, <2>6, <2>7, <2>8, <2>9 DEF Choice
<1> QED BY <1>5, <1>6

LEMMA ReleasedReset ==
  ASSUME CourseInv, NEW d \in Devices, NEW now \in Arrivals, NEW scope \in Scopes,
         delete_all_courses(d, now, scope)
  PROVE  StepHonours
<1>1. now \in Nat /\ now > OLDEST /\ now <= clock /\ clock \in Nat
  BY EditTimes DEF CourseInv, CourseType
<1>2. \A k \in Courses :
        /\ Sound(k)' /\ Honoured(k) /\ FollowsChoice(k)
        /\ IF k \in InScope(scope)
           THEN ChoiceOf(k)'.op = "reset" /\ ChoiceOf(k)'.at >= now
           ELSE ChoiceOf(k)' = ChoiceOf(k)
  BY <1>1, ReleasedResetKeeps
<1>3. CourseInv'
  <2>1. row' = [k \in Courses |-> row'[k]] /\ tomb' = [k \in Courses |-> tomb'[k]]
    BY DEF delete_all_courses
  <2>2. clock' = clock + 1 /\ reset' = [reset EXCEPT ![scope] = latest(reset[scope], now)]
    BY DEF delete_all_courses, Serve, _record_reset
  <2>3. /\ reset' \in [Terms \union {NoTerm, Full} -> Nat]
        /\ \A s \in Terms \union {NoTerm, Full} :
             reset'[s] = reset[s] \/ reset'[s] <= clock + MAX_CLOCK_SKEW
    BY <1>1, <2>2, CourseConstants DEF CourseInv, CourseType, latest, Scopes
  <2> QED BY <1>2, <2>1, <2>2, <2>3, SoundStep
<1>4. /\ sent'.by = "arrival"
      /\ \A k \in Courses : sent'.edits[k] = IF k \in InScope(scope) THEN Choice("reset", now)
                                            ELSE Choice("none", None)
  BY DEF delete_all_courses, Sent, NoEdits
<1>5. Choice("reset", now).op # "none" /\ Choice("reset", now).at = now
  BY DEF Choice
<1>6. LC!LastChoiceNext
  BY <1>2, <1>4, <1>5, ByArrivalOf
<1> QED BY <1>2, <1>3, <1>6 DEF StepHonours, Courses

-----------------------------------------------------------------------------
(* The theorems.                                                           *)

LEMMA InitSound == CourseInit => CourseInv /\ LC!LastChoiceInit
<1> SUFFICES ASSUME CourseInit PROVE CourseInv /\ LC!LastChoiceInit
  OBVIOUS
<1>1. CourseType
  BY CourseConstants DEF CourseInit, CourseType, None
<1>2. TombsStamped /\ ResetTombsCovered /\ MirrorUnadded /\ ResetsBehind
  BY CourseConstants DEF CourseInit, TombsStamped, ResetTombsCovered, MirrorUnadded,
     ResetsBehind, tombstone_kind, Reset, None, Courses, OLDEST
<1>3. ASSUME NEW k \in Courses PROVE ChoiceOf(k) = Choice("none", None)
  <2>1. covering(Term[k]) = 0
    BY CourseConstants DEF CourseInit, covering, latest, None
  <2> QED BY <2>1 DEF CourseInit, ChoiceOf, AddedAt, DeletedAt, None
<1>4. LC!LastChoiceInit
  BY <1>3 DEF CourseInit, LC!LastChoiceInit, LC!NoEdits, LC!NoChoice, LC!None, NoEdits, Choice, None
<1> QED BY <1>1, <1>2, <1>4 DEF CourseInv

\* Every request does.
LEMMA NextHonours ==
  ASSUME CourseInv, CourseNext
  PROVE  StepHonours
<1>1. ASSUME NEW uploaded \in (SUBSET Keys) \ {{}}, NEW roster_terms \in SUBSET Terms,
             NEW added \in SUBSET (uploaded \cap Edited), NEW adds \in [added -> edit_time],
             upload_courses_v4(uploaded, adds, roster_terms)
      PROVE  StepHonours
  BY <1>1, StampedUpload
<1>2. ASSUME NEW d \in Devices, NEW k \in Edited, NEW stamp \in edit_time,
             NEW kind \in {"none", Hide, Remove}, delete_course(d, k, stamp, kind, TRUE)
      PROVE  StepHonours
  <2>1. stamp \in Nat /\ stamp > OLDEST
    BY EditTimes DEF CourseInv
  <2> QED BY <1>2, <2>1, Deletion
<1>3. ASSUME NEW d \in Devices, NEW scope \in Scopes, NEW stamp \in edit_time,
             _reset_by_stamp(d, scope, stamp)
      PROVE  StepHonours
  BY <1>3, StampedReset
<1>4. ASSUME NEW k \in Edited, NEW f \in Fields, NEW value \in Values, NEW stamp \in edit_time,
             _override_course(k, f, value, stamp)
      PROVE  StepHonours
  <2>1. stamp \in Nat /\ k \in Courses
    BY EditTimes, CourseConstants DEF CourseInv
  <2> QED BY <1>4, <2>1, Override
<1>5. ASSUME NEW d \in Devices, NEW now \in Arrivals,
             NEW uploaded \in (SUBSET Keys) \ {{}}, NEW roster_terms \in SUBSET Terms,
             NEW fill \in Values \union {Empty}, NEW force_keys \in SUBSET (uploaded \cap Edited),
             upload_courses(d, now, uploaded, force_keys, roster_terms, fill)
      PROVE  StepHonours
  BY <1>5, ReleasedUpload
<1>6. ASSUME NEW d \in Devices, NEW now \in Arrivals, NEW k \in Edited,
             delete_course(d, k, now, "none", FALSE)
      PROVE  StepHonours
  <2>1. now \in Nat /\ now > OLDEST
    BY EditTimes DEF CourseInv
  <2> QED BY <1>6, <2>1, Deletion
<1>7. ASSUME NEW d \in Devices, NEW now \in Arrivals, NEW scope \in Scopes,
             delete_all_courses(d, now, scope)
      PROVE  StepHonours
  BY <1>7, ReleasedReset
<1>8. ASSUME NEW k \in Edited, NEW f \in Fields, NEW value \in Values,
             NEW ts \in (OLDEST + 1) .. (clock + MAX_CLOCK_SKEW + 1),
             put_course_override(k, f, value, ts)
      PROVE  StepHonours
  <2>1. ts \in Nat /\ k \in Courses
    BY CourseConstants DEF CourseInv, CourseType, OLDEST
  <2> QED BY <1>8, <2>1, Override
<1>9. ASSUME NEW fetched \in SUBSET Mirrored, apply_fetched_courses(fetched)
      PROVE  StepHonours
  BY <1>9, Fetching
<1>10. StampedRequest => StepHonours
  BY <1>1, <1>2, <1>3, <1>4 DEF StampedRequest
<1>11. ReleasedRequest => StepHonours
  BY <1>5, <1>6, <1>7, <1>8, Import DEF ReleasedRequest
<1> QED BY <1>9, <1>10, <1>11 DEF CourseNext

LEMMA StutterKeeps ==
  ASSUME UNCHANGED courseVars
  PROVE  /\ CourseInv => CourseInv'
         /\ UNCHANGED <<[k \in Courses |-> ChoiceOf(k)], sent>>
BY DEF courseVars, CourseInv, CourseType, TombsStamped, ResetTombsCovered, MirrorUnadded, ResetsBehind,
       covering, ChoiceOf, AddedAt, DeletedAt

\* Rows, tombstones and resets are what they should be, a reset's tombstone is
\* covered by a reset of its term, a mirrored course is never added by hand and
\* no reset lies as far ahead as an edit may (merge.py, membership.py,
\* models/courses.py).
THEOREM CoursesSound == CourseSpec => []CourseInv
<1>1. CourseInv /\ [CourseNext]_courseVars => CourseInv'
  BY NextHonours, StutterKeeps DEF StepHonours
<1> QED BY InitSound, <1>1, PTL DEF CourseSpec

\* Whatever requests are served in whatever order, the tables hold one last
\* choice per course, the latest by stamp of the edits the server was sent:
\* uploads, deletions and resets of protocol 2 and /v4, the import, and the
\* released apps' requests each are a step of LastChoice (membership_stamp,
\* upload_courses, delete_course, reset by stamp and by arrival).
THEOREM ChoicesImplemented == CourseSpec => ImplementsLastChoice
<1>1. CourseInit => LC!LastChoiceInit
  BY InitSound
<1>2. CourseInv /\ [CourseNext]_courseVars
        => [LC!LastChoiceNext]_<<[k \in Courses |-> ChoiceOf(k)], sent>>
  BY NextHonours, StutterKeeps DEF StepHonours
<1> QED BY <1>1, <1>2, CoursesSound, PTL DEF CourseSpec, ImplementsLastChoice, LC!LastChoiceSpec

\* What a released app hides its next roster upload is refused for, and what it
\* is refused for it hides while the tombstone is recent.
LEMMA SnapshotAgrees == CourseType => SnapshotAgreesWithUpload
<1> SUFFICES ASSUME CourseType, NEW d \in Devices
             PROVE  LET refused == SkippedByTombstone(d, Keys, {}) IN
                    /\ HiddenOn(d) \cap Keys \subseteq refused
                    /\ \A k \in refused \ HiddenOn(d) :
                         tomb[k].deleted_at <= clock - TombstoneDays
  BY DEF SnapshotAgreesWithUpload
<1>1. ASSUME NEW k \in Keys
      PROVE  k \in HiddenOn(d) <=> /\ k \in SkippedByTombstone(d, Keys, {})
                                  /\ tomb[k].deleted_at > clock - TombstoneDays
  <2> DEFINE t == TombAfterRelease(d, Keys, {})[k]
  <2>1. k \in Courses
    BY DEF Courses
  <2>2. t = IF /\ tomb[k] # NoTombstone /\ tomb[k].by = d
               /\ tomb[k].deleted_by_reset \/ tomb[k].user_added
            THEN NoTombstone ELSE tomb[k]
    BY <2>1 DEF TombAfterRelease
  <2>3. k \in SkippedByTombstone(d, Keys, {}) <=>
          t # NoTombstone /\ ~(tombstone_kind(t) = Remove /\ row[k] # NoRow)
    BY DEF SkippedByTombstone
  <2>4. k \in HiddenOn(d) <=>
          /\ tomb[k] # NoTombstone
          /\ tomb[k].deleted_at > clock - TombstoneDays
          /\ ~(tombstone_kind(tomb[k]) = Remove /\ (row[k] # NoRow \/ tomb[k].by = d))
          /\ ~(tomb[k].deleted_by_reset /\ tomb[k].by = d)
    BY <2>1 DEF HiddenOn, _released_tombstones, RecentTombstones
  <2> HIDE DEF t
  <2> QED BY <2>2, <2>3, <2>4 DEF tombstone_kind, Remove, Reset, Hide
<1>2. SkippedByTombstone(d, Keys, {}) \subseteq Keys
  BY DEF SkippedByTombstone
<1>3. ASSUME NEW k \in Keys, k \in SkippedByTombstone(d, Keys, {})
      PROVE  tomb[k].deleted_at \in Nat
  <2>1. k \in Courses /\ tomb[k] # NoTombstone
    BY <1>3 DEF SkippedByTombstone, TombAfterRelease, Courses
  <2> QED BY <2>1 DEF CourseType, Tombstones
<1>4. clock - TombstoneDays \in Int
  BY CourseConstants DEF CourseType
<1> QED BY <1>1, <1>2, <1>3, <1>4

\* A released app is shown what its roster upload will be taken for, up to the
\* tombstones too old to be sent (_released_tombstones, upload_courses).
THEOREM SnapshotsAgree == CourseSpec => []SnapshotAgreesWithUpload
<1>1. CourseInv => SnapshotAgreesWithUpload
  BY SnapshotAgrees DEF CourseInv
<1> QED BY <1>1, CoursesSound, PTL

\* No request makes a row disagree with its course's last choice but the
\* first-run import; fields move forward in stamp order and, but for a time the
\* import clamps, never to behind a reset; and a reset spares what was chosen
\* after it (upload_courses, apply_field, clear_before, _reset_by_stamp).
THEOREM ChoicesAreHonoured == CourseSpec => ChoicesHonoured
<1> DEFINE Astrays == \E k \in Keys :
                        \/ ~Astray(k) /\ Astray(k)'
                        \/ sent'.by = "stamp" /\ ~StaleAdd(k) /\ StaleAdd(k)'
           Forward == \A k \in Courses : FieldsForward(k)
           Holds == \A k \in Courses : HoldsReset(k)
           Spares == \A k \in Courses : SparesLater(k)
<1>1. CourseInv /\ [CourseNext]_courseVars =>
        /\ [Astrays => InitialUpload]_courseVars
        /\ [Forward]_courseVars /\ [Holds]_courseVars /\ [Spares]_courseVars
  <2> SUFFICES ASSUME CourseInv, CourseNext
               PROVE  /\ Astrays => InitialUpload
                      /\ Forward /\ Holds /\ Spares
    OBVIOUS
  <2>1. StepHonours
    BY NextHonours
  <2>2. Astrays => InitialUpload
    BY <2>1 DEF StepHonours, FollowsChoice
  <2>3. Forward /\ Holds /\ Spares
    BY <2>1 DEF StepHonours, Honoured
  <2> QED BY <2>2, <2>3
<1>2. CourseSpec => [][Astrays => InitialUpload]_courseVars /\ [][Forward]_courseVars
                    /\ [][Holds]_courseVars /\ [][Spares]_courseVars
  BY <1>1, CoursesSound, PTL DEF CourseSpec
<1>3. /\ [][Astrays => InitialUpload]_courseVars <=> RowsFollowChoice
      /\ [][Forward]_courseVars <=> FieldsInStampOrder
      /\ [][Holds]_courseVars <=> ResetHolds
      /\ [][Spares]_courseVars <=> ResetSparesLater
  BY DEF RowsFollowChoice, FieldsInStampOrder, ResetHolds, ResetSparesLater, FieldsForward,
         HoldsReset, SparesLater
<1> QED BY <1>2, <1>3 DEF ChoicesHonoured

(*************************************************************************)
(* Proofs about AccountEdits, for any requests, clients, flags and       *)
(* stamps. An edit accepted is one the stored document, or a stored      *)
(* rule, still has (RulesSound, and what each request holds between its  *)
(* statements: DocumentGuarded, PatchGuarded); a request that replaces   *)
(* rules holds the lock its reads were made under (UnderLock), and a     *)
(* device's app speaks one version of the interface (V4Sole).            *)
(*************************************************************************)

DocumentAts == {"look", "insert", "cas", "append", "commit", "import", "import_insert"}
EditSets == SUBSET Requests
RuleTuples == [id : Requests \X (Requests \union Clients), client : Requests \union Clients,
               edits : EditSets, accepted : EditSets, revision : Nat]
RuleRows == {rule \in RuleTuples : rule.id[2] = rule.client}
FlagEdits == [value : BOOLEAN, at : Nat]
FlagRows == [Flags -> FlagEdits]
SentSets == UNION {[S -> EditSets] : S \in SUBSET Clients}
DocumentRows == [at : DocumentAts, base : Nat, edits : EditSets]
ReplaceRows == [at : {"replace"}, live : SUBSET RuleRows]
PatchRows == [at : {"patch"}, id : Requests \X (Requests \union Clients), guarded : BOOLEAN,
              base : Nat, edits : EditSets]
DeleteRows == [at : {"delete"}, id : Requests \X (Requests \union Clients)]
V4Rows == [at : {"v4"}, sent : SentSets, live : SUBSET RuleRows]
StateRows == [at : {"state"}, field : Flags, edit : FlagEdits, flag : FlagRows,
              first_read : BOOLEAN]
RequestRows == {Waiting, Answered} \union DocumentRows \union ReplaceRows \union PatchRows
                 \union DeleteRows \union V4Rows \union StateRows

EditType ==
  /\ mix \in Mixes
  /\ doc \in [revision : Nat, edits : EditSets]
  /\ rules \in SUBSET RuleRows
  /\ flag \in FlagRows
  /\ first_read \in BOOLEAN
  /\ docLock \in Requests \union {Nobody} /\ syncLock \in Requests \union {Nobody}
  /\ req \in [Requests -> RequestRows]
  /\ accepted \in EditSets
  /\ newest \in FlagRows

\* A request on the document carries what it read with its own edit, and the
\* revision moves only under the lock of the one that had read the newest.
DocumentGuarded ==
  /\ doc.revision = 0 => doc.edits = {}
  /\ \A r \in Requests : req[r].at \in DocumentAts =>
        /\ r \in req[r].edits /\ req[r].base <= doc.revision
        /\ req[r].base = doc.revision => doc.edits \subseteq req[r].edits
        /\ docLock = r => req[r].base = doc.revision
  /\ \A r \in Requests : docLock = r => req[r].at \in {"append", "commit"}

\* A guarded PATCH carries what it read, as long as nobody moved the revision.
PatchGuarded ==
  \A r \in Requests : req[r].at = "patch" => \A rule \in rules : rule.id = req[r].id =>
     /\ req[r].base <= rule.revision
     /\ r \in req[r].edits
     /\ req[r].base = rule.revision => rule.edits \subseteq req[r].edits

\* Who holds the sync lock from the start.
UnderLock ==
  \A r \in Requests : req[r].at \in {"import", "import_insert", "commit", "v4"} => syncLock = r

\* Which handlers a behaviour has.
OfMix ==
  \A r \in Requests : /\ req[r].at \in DocumentAts => mix \intersect {"settings", "initial"} # {}
                      /\ req[r].at \in {"replace", "patch", "delete", "v4", "state"} => req[r].at \in mix

\* A rule is known by the request that inserted it, which is answered, and its client id.
IdsUsed ==
  /\ \A rule \in rules : req[rule.id[1]] = Answered
  /\ \A a, b \in rules : a.id = b.id => a = b
  /\ \A r \in Requests :
       /\ req[r].at = "patch" => req[req[r].id[1]] = Answered
       /\ req[r].at = "v4" => \A old \in req[r].live : req[old.id[1]] = Answered

\* A rule has every edit accepted for it; a /v4 rule is what was sent.
RulesSound ==
  /\ \A rule \in rules : rule.accepted \subseteq rule.edits
  /\ "v4" \in mix => \A rule \in rules : rule.accepted = rule.edits
  /\ \A r \in Requests : req[r].at = "v4" => \A rule \in req[r].live : rule.accepted = rule.edits

\* With /v4 alone, the lock makes read and write one.
V4Sole ==
  mix = {"v4"} =>
    /\ {<<rule.client, rule.edits>> : rule \in rules} = asked
    /\ \A r \in Requests : req[r].at = "v4" => req[r].live = rules

EditInv ==
  /\ EditType /\ DocumentGuarded /\ SettingsKept /\ PatchGuarded /\ UnderLock /\ OfMix
  /\ IdsUsed /\ RulesSound /\ V4Sole /\ FlagsHoldNewest

-----------------------------------------------------------------------------
LEMMA RowOf ==
  ASSUME EditInv, NEW r \in Requests
  PROVE  /\ req[r] \in RequestRows
         /\ req[r].at \in DocumentAts => req[r] \in DocumentRows
         /\ req[r].at = "replace" => req[r] \in ReplaceRows
         /\ req[r].at = "patch" => req[r] \in PatchRows
         /\ req[r].at = "delete" => req[r] \in DeleteRows
         /\ req[r].at = "v4" => req[r] \in V4Rows
         /\ req[r].at = "state" => req[r] \in StateRows
         /\ req[r].at = "answered" <=> req[r] = Answered
         /\ req[r].at = "unsent" <=> req[r] = Waiting
<1>1. req[r] \in RequestRows
  BY DEF EditInv, EditType
<1> QED BY <1>1 DEF RequestRows, Waiting, Answered, DocumentRows, ReplaceRows, PatchRows,
                    DeleteRows, V4Rows, StateRows, DocumentAts

\* A request not answered yet takes the row `to`.
Becomes(r, to) ==
  /\ req[r] # Answered /\ to \in RequestRows
  /\ req' = [req EXCEPT ![r] = to]

LEMMA BecomesIs ==
  ASSUME EditInv, NEW r \in Requests, NEW to, Becomes(r, to)
  PROVE  /\ req' \in [Requests -> RequestRows] /\ req'[r] = to
         /\ \A q \in Requests \ {r} : req'[q] = req[q]
         /\ \A q \in Requests : req[q] = Answered => req'[q] = Answered
BY DEF EditInv, EditType, Becomes

\* The rules are as they were.
LEMMA RulesStay ==
  ASSUME EditInv, NEW r \in Requests, NEW to, Becomes(r, to), to.at \notin {"patch", "v4"},
         UNCHANGED <<mix, rules, asked>>
  PROVE  PatchGuarded' /\ IdsUsed' /\ RulesSound' /\ V4Sole'
<1>1. \A q \in Requests : req'[q].at \in {"patch", "v4"} => req'[q] = req[q]
  BY BecomesIs
<1>2. \A q \in Requests : req[q] = Answered => req'[q] = Answered
  BY BecomesIs
<1>3. \A rule \in rules : rule.id[1] \in Requests
  BY DEF EditInv, EditType, RuleRows, RuleTuples
<1>4. \A q \in Requests : req[q].at = "patch" => req[q].id[1] \in Requests
  BY RowOf DEF PatchRows
<1>5. PatchGuarded'
  BY <1>1 DEF EditInv, PatchGuarded
<1>6. IdsUsed'
  <2>1. \A q \in Requests : req[q].at = "v4" => \A old \in req[q].live : old.id[1] \in Requests
    BY RowOf DEF V4Rows, RuleRows, RuleTuples
  <2> QED BY <1>1, <1>2, <1>3, <1>4, <2>1 DEF EditInv, IdsUsed
<1>7. RulesSound' /\ V4Sole'
  BY <1>1 DEF EditInv, RulesSound, V4Sole
<1> QED BY <1>5, <1>6, <1>7

LEMMA FlagsStay ==
  ASSUME EditInv, UNCHANGED flagVars
  PROVE  FlagsHoldNewest' /\ flag' \in FlagRows /\ first_read' \in BOOLEAN /\ newest' \in FlagRows
BY DEF EditInv, EditType, FlagsHoldNewest, flagVars

LEMMA DocumentStays ==
  ASSUME EditInv, NEW r \in Requests, NEW to, Becomes(r, to),
         req[r].at \notin DocumentAts, to.at \notin DocumentAts, UNCHANGED documentVars
  PROVE  /\ DocumentGuarded' /\ SettingsKept'
         /\ doc' \in [revision : Nat, edits : EditSets]
         /\ docLock' \in Requests \union {Nobody} /\ accepted' \in EditSets
<1>1. \A q \in Requests : q = r \/ req'[q] = req[q]
  BY BecomesIs
<1>2. req'[r] = to /\ docLock # r
  BY BecomesIs DEF EditInv, DocumentGuarded, DocumentAts
<1> QED BY <1>1, <1>2 DEF EditInv, EditType, DocumentGuarded, SettingsKept, documentVars

\* A step of a request of another kind.
LEMMA OutsideDocument ==
  ASSUME EditInv, NEW r \in Requests, NEW to, Becomes(r, to),
         req[r].at \notin DocumentAts, to.at \notin DocumentAts,
         UNCHANGED <<mix, documentVars>>, syncLock' \in Requests \union {Nobody},
         rules' \in SUBSET RuleRows,
         flag' \in FlagRows /\ first_read' \in BOOLEAN /\ newest' \in FlagRows,
         to.at \in mix \union {"answered"}, UnderLock',
         PatchGuarded' /\ IdsUsed' /\ RulesSound' /\ V4Sole' /\ FlagsHoldNewest'
  PROVE  EditInv'
<1>1. EditType'
  BY BecomesIs, DocumentStays DEF EditInv, EditType
<1>2. OfMix'
  BY BecomesIs DEF EditInv, OfMix
<1> QED BY <1>1, <1>2, DocumentStays DEF EditInv

\* A step of a request on the document.
LEMMA OnDocument ==
  ASSUME EditInv, NEW r \in Requests, NEW to, Becomes(r, to), to.at \in DocumentAts \union {"answered"},
         mix \intersect {"settings", "initial"} # {},
         UNCHANGED <<mix, ruleVars, flagVars>>, syncLock' \in Requests \union {Nobody},
         doc' \in [revision : Nat, edits : EditSets],
         docLock' \in Requests \union {Nobody}, accepted' \in EditSets,
         DocumentGuarded' /\ SettingsKept' /\ UnderLock'
  PROVE  EditInv'
<1>1. EditType'
  BY BecomesIs, FlagsStay DEF EditInv, EditType, ruleVars
<1>2. OfMix'
  BY BecomesIs DEF EditInv, OfMix, DocumentAts
<1>3. PatchGuarded' /\ IdsUsed' /\ RulesSound' /\ V4Sole'
  BY RulesStay DEF ruleVars, DocumentAts
<1> QED BY <1>1, <1>2, <1>3, FlagsStay DEF EditInv

-----------------------------------------------------------------------------
\* A request moves on without moving the document, its lock or its bases.
LEMMA DocumentAsRead ==
  ASSUME EditInv, NEW r \in Requests, NEW to \in DocumentRows, Becomes(r, to),
         UNCHANGED documentVars,
         r \in to.edits, to.base <= doc.revision,
         to.base = doc.revision => doc.edits \subseteq to.edits,
         docLock = r => to.base = doc.revision /\ to.at \in {"append", "commit"}
  PROVE  DocumentGuarded' /\ SettingsKept'
<1>1. req'[r] = to /\ \A q \in Requests : q = r \/ req'[q] = req[q]
  BY BecomesIs
<1> QED BY <1>1 DEF EditInv, DocumentGuarded, SettingsKept, documentVars

LEMMA ReadDocumentKeeps ==
  ASSUME EditInv, NEW r \in Requests, read_document(r)
  PROVE  EditInv'
<1> DEFINE to == [at |-> IF doc.revision = 0 THEN "look" ELSE "cas",
                  base |-> doc.revision, edits |-> doc.edits \union {r}]
<1>1. doc.revision \in Nat /\ doc.edits \in EditSets
  BY DEF EditInv, EditType
<1>2. to \in DocumentRows /\ to.at \in {"look", "cas"}
  BY <1>1 DEF DocumentRows, DocumentAts, EditSets
<1>3. Becomes(r, to) /\ req[r].at = "unsent"
  BY <1>2 DEF read_document, Unsent, Becomes, RequestRows, Waiting, Answered
<1>4. docLock # r
  BY <1>3 DEF EditInv, DocumentGuarded
<1>5. DocumentGuarded' /\ SettingsKept'
  BY <1>1, <1>2, <1>3, <1>4, DocumentAsRead DEF read_document
<1>6. UnderLock'
  BY <1>2, <1>3, BecomesIs DEF read_document, EditInv, UnderLock
<1>7. "settings" \in mix
  BY DEF read_document, Unsent
<1> QED BY <1>2, <1>3, <1>5, <1>6, <1>7, OnDocument
        DEF read_document, EditInv, EditType, documentVars, DocumentAts

\* A request on the document is answered; its locks, if it had any, are given back.
LEMMA AnsweredKeeps ==
  ASSUME EditInv, NEW r \in Requests, req[r].at \in DocumentAts,
         req' = [req EXCEPT ![r] = Answered],
         UNCHANGED <<mix, doc, accepted, ruleVars, flagVars>>,
         docLock' = IF docLock = r THEN Nobody ELSE docLock,
         syncLock' \in {syncLock, IF syncLock = r THEN Nobody ELSE syncLock}
  PROVE  EditInv'
<1>1. Becomes(r, Answered)
  BY DEF Becomes, RequestRows, Answered, DocumentAts
<1>2. req'[r] = Answered /\ \A q \in Requests : q = r \/ req'[q] = req[q]
  BY <1>1, BecomesIs
<1>3. docLock' # r /\ (docLock' \in Requests => docLock' = docLock)
  BY EditConstants
<1>4. DocumentGuarded' /\ SettingsKept'
  BY <1>2, <1>3 DEF EditInv, DocumentGuarded, SettingsKept, Answered, DocumentAts
<1>5. UnderLock'
  BY <1>2 DEF EditInv, UnderLock, Answered
<1>6. mix \intersect {"settings", "initial"} # {}
  BY DEF EditInv, OfMix
<1> QED BY <1>1, <1>4, <1>5, <1>6, OnDocument DEF EditInv, EditType, Answered

LEMMA ConflictKeeps ==
  ASSUME EditInv, NEW r \in Requests, NEW from \in {"look", "insert", "cas"},
         _conflict_response(r, from), UNCHANGED <<mix, ruleVars, flagVars>>
  PROVE  EditInv'
<1>1. req[r].at = from /\ docLock # r
  BY DEF _conflict_response, Step, EditInv, DocumentGuarded
<1> QED BY <1>1, AnsweredKeeps DEF _conflict_response, Step, DocumentAts

\* A request on the document goes on to its next statement.
LEMMA GoesIs ==
  ASSUME EditInv, NEW r \in Requests, NEW from \in DocumentAts, NEW at \in DocumentAts,
         Goes(r, from, at)
  PROVE  /\ req[r] \in DocumentRows /\ req[r].at = from
         /\ [req[r] EXCEPT !.at = at] \in DocumentRows
         /\ Becomes(r, [req[r] EXCEPT !.at = at])
<1>1. req[r] \in DocumentRows /\ req[r].at = from /\ from # "answered"
  BY RowOf DEF Goes, DocumentAts
<1>2. [req[r] EXCEPT !.at = at] \in DocumentRows
  BY <1>1 DEF DocumentRows
<1> QED BY <1>1, <1>2 DEF Becomes, Goes, RequestRows, Answered

\* It takes the document's lock, or keeps its hands off it.
LEMMA GoesKeeps ==
  ASSUME EditInv, NEW r \in Requests, NEW from \in DocumentAts, NEW at \in DocumentAts,
         Goes(r, from, at), UNCHANGED <<mix, doc, accepted, ruleVars, flagVars>>,
         \/ docLock' = docLock
         \/ docLock = Nobody /\ docLock' = r /\ req[r].base = doc.revision,
         docLock' = r => at \in {"append", "commit"},
         syncLock' = syncLock \/ (syncLock = Nobody /\ syncLock' = r),
         at \in {"import", "import_insert", "commit"} => syncLock' = r
  PROVE  EditInv'
<1> DEFINE to == [req[r] EXCEPT !.at = at]
<1>1. /\ req[r] \in DocumentRows /\ req[r].at = from /\ to \in DocumentRows /\ Becomes(r, to)
      /\ to.at = at /\ to.base = req[r].base /\ to.edits = req[r].edits
  BY GoesIs DEF DocumentRows
<1>2. req'[r] = to /\ \A q \in Requests : q = r \/ req'[q] = req[q]
  BY <1>1, BecomesIs
<1>3. \A q \in Requests : docLock' = q => q = r \/ docLock = q
  BY EditConstants
<1>4. DocumentGuarded' /\ SettingsKept'
  <2>1. /\ r \in req[r].edits /\ req[r].base <= doc.revision
        /\ req[r].base = doc.revision => doc.edits \subseteq req[r].edits
        /\ docLock = r => req[r].base = doc.revision
    BY <1>1 DEF EditInv, DocumentGuarded
  <2>2. docLock' = r => req[r].base = doc.revision /\ at \in {"append", "commit"}
    BY <2>1
  <2> HIDE DEF to
  <2>3. \A q \in Requests : req'[q].at \in DocumentAts =>
          /\ q \in req'[q].edits /\ req'[q].base <= doc.revision
          /\ req'[q].base = doc.revision => doc.edits \subseteq req'[q].edits
          /\ docLock' = q => req'[q].base = doc.revision
    BY <1>1, <1>2, <1>3, <2>1, <2>2 DEF EditInv, DocumentGuarded
  <2>4. \A q \in Requests : docLock' = q => req'[q].at \in {"append", "commit"}
    BY <1>1, <1>2, <1>3, <2>2 DEF EditInv, DocumentGuarded
  <2> QED BY <2>3, <2>4 DEF EditInv, DocumentGuarded, SettingsKept
<1>5. UnderLock'
  <2> HIDE DEF to
  <2>1. from \in {"import", "import_insert", "commit"} => syncLock = r
    BY <1>1 DEF EditInv, UnderLock
  <2> QED BY <1>1, <1>2, EditConstants DEF EditInv, UnderLock, DocumentAts
<1>6. mix \intersect {"settings", "initial"} # {}
  BY <1>1 DEF EditInv, OfMix
<1>7. docLock' \in Requests \union {Nobody} /\ syncLock' \in Requests \union {Nobody}
  BY DEF EditInv, EditType
<1> QED BY <1>1, <1>4, <1>5, <1>6, <1>7, OnDocument DEF EditInv, EditType

\* doc.revision = 0 and a request's base is no newer: it is 0 as well.
LEMMA InsertsKeeps ==
  ASSUME EditInv, NEW r \in Requests, NEW from \in {"insert", "import_insert"},
         Inserts(r, from), UNCHANGED <<mix, doc, accepted, syncLock, ruleVars, flagVars>>
  PROVE  EditInv'
<1>1. req[r] \in DocumentRows /\ req[r].at = from
  BY GoesIs DEF Inserts, DocumentAts
<1>2. req[r].base \in Nat /\ req[r].base <= doc.revision
  BY <1>1 DEF EditInv, DocumentGuarded, DocumentRows
<1>3. req[r].base = doc.revision
  BY <1>2 DEF Inserts
<1> QED BY <1>3, GoesKeeps DEF Inserts, DocumentAts

LEMMA CreatesKeep ==
  ASSUME EditInv, NEW r \in Requests, CreateLooks(r) \/ CreateInserts(r)
  PROVE  EditInv'
<1>1. CASE doc.revision # 0 /\ (_conflict_response(r, "look") \/ _conflict_response(r, "insert"))
  BY <1>1, ConflictKeeps DEF CreateLooks, CreateInserts
<1>2. CASE CreateLooks(r) /\ doc.revision = 0
  <2>1. docLock # r
    BY <1>2 DEF CreateLooks, Goes, EditInv, DocumentGuarded, _conflict_response, Step
  <2> QED BY <1>2, <2>1, GoesKeeps DEF CreateLooks, DocumentAts, documentVars
<1>3. CASE CreateInserts(r) /\ doc.revision = 0
  BY <1>3, InsertsKeeps DEF CreateInserts
<1> QED BY <1>1, <1>2, <1>3 DEF CreateLooks, CreateInserts, Inserts

LEMMA CompareAndSwapKeeps ==
  ASSUME EditInv, NEW r \in Requests, CompareAndSwap(r)
  PROVE  EditInv'
<1>1. CASE doc.revision # req[r].base
  BY <1>1, ConflictKeeps DEF CompareAndSwap
<1>2. CASE doc.revision = req[r].base
  BY <1>2, GoesKeeps DEF CompareAndSwap, DocumentAts
<1> QED BY <1>1, <1>2

LEMMA AppendChangeKeeps ==
  ASSUME EditInv, NEW r \in Requests, AppendChange(r)
  PROVE  EditInv'
BY GoesKeeps DEF AppendChange, Free, DocumentAts, documentVars

LEMMA ImportSettingsKeeps ==
  ASSUME EditInv, NEW r \in Requests, import_settings(r)
  PROVE  EditInv'
<1> DEFINE to == [at |-> "import", base |-> 0, edits |-> {r}]
<1>1. to \in DocumentRows /\ Becomes(r, to) /\ req[r].at = "unsent"
  BY DEF import_settings, Unsent, Becomes, DocumentRows, DocumentAts, EditSets, RequestRows,
         Waiting, Answered
<1>2. docLock # r /\ doc.revision \in Nat /\ (doc.revision = 0 => doc.edits = {})
  BY <1>1 DEF EditInv, EditType, DocumentGuarded
<1>3. DocumentGuarded' /\ SettingsKept'
  BY <1>1, <1>2, DocumentAsRead DEF import_settings
<1>4. UnderLock'
  BY <1>1, BecomesIs, EditConstants DEF import_settings, EditInv, UnderLock
<1>5. "initial" \in mix /\ syncLock' = r
  BY DEF import_settings, Unsent
<1> QED BY <1>1, <1>3, <1>4, <1>5, OnDocument
        DEF import_settings, EditInv, EditType, documentVars, DocumentAts

LEMMA ImportsKeep ==
  ASSUME EditInv, NEW r \in Requests, ImportLooks(r) \/ ImportInserts(r)
  PROVE  EditInv'
<1>1. CASE ImportLooks(r)
  <2> DEFINE at == IF doc.revision # 0 THEN "commit" ELSE "import_insert"
  <2>1. at \in {"commit", "import_insert"} /\ Goes(r, "import", at)
    BY <1>1 DEF ImportLooks
  <2>2. req[r].at = "import" /\ docLock # r /\ syncLock = r
    BY <2>1 DEF Goes, EditInv, DocumentGuarded, UnderLock
  <2> HIDE DEF at
  <2> QED BY <1>1, <2>1, <2>2, GoesKeeps DEF ImportLooks, DocumentAts, documentVars
<1>2. CASE ImportInserts(r) /\ Inserts(r, "import_insert")
  BY <1>2, InsertsKeeps DEF ImportInserts, Inserts, RollBack
<1>3. CASE req[r].at = "import_insert" /\ RollBack(r)
  BY <1>3, AnsweredKeeps DEF RollBack, DocumentAts
<1> QED BY <1>1, <1>2, <1>3 DEF ImportInserts

\* Under the lock the base is the revision: what is written has what was there.
LEMMA CommitDocumentKeeps ==
  ASSUME EditInv, NEW r \in Requests, CommitDocument(r)
  PROVE  EditInv'
<1>1. req[r].at = "commit" /\ syncLock = r /\ req[r] \in DocumentRows
  BY RowOf DEF CommitDocument, Step, EditInv, UnderLock, DocumentAts
<1>2. CASE docLock # r
  BY <1>1, <1>2, AnsweredKeeps DEF CommitDocument, Step, documentVars, DocumentAts
<1>3. CASE docLock = r
  <2>1. Becomes(r, Answered)
    BY <1>1 DEF CommitDocument, Step, Becomes, RequestRows, Answered
  <2>2. req'[r] = Answered /\ \A q \in Requests : q = r \/ req'[q] = req[q]
    BY <2>1, BecomesIs
  <2>3. /\ doc.revision \in Nat /\ req[r].edits \in EditSets /\ r \in req[r].edits
        /\ doc.edits \subseteq req[r].edits
    BY <1>1, <1>3 DEF EditInv, EditType, DocumentGuarded, DocumentRows, DocumentAts
  <2>4. /\ doc' = [revision |-> doc.revision + 1, edits |-> req[r].edits]
        /\ accepted' = accepted \union {r} /\ docLock' = Nobody /\ syncLock' = Nobody
    BY <1>3 DEF CommitDocument
  <2>5. \A q \in Requests : req[q].at \in DocumentAts =>
           q \in req[q].edits /\ req[q].base \in Nat /\ req[q].base < doc'.revision
    <3> TAKE q \in Requests
    <3> HAVE req[q].at \in DocumentAts
    <3>1. req[q].base \in Nat /\ q \in req[q].edits /\ req[q].base <= doc.revision
      BY RowOf DEF EditInv, DocumentGuarded, DocumentRows
    <3> QED BY <2>3, <2>4, <3>1
  <2>6. DocumentGuarded'
    <3>1. doc'.revision # 0
      BY <2>3, <2>4
    <3>2. \A q \in Requests : docLock' # q
      BY <2>4, EditConstants
    <3>3. \A q \in Requests : req'[q].at \in DocumentAts =>
            q \in req'[q].edits /\ req'[q].base \in Nat /\ req'[q].base < doc'.revision
      BY <2>2, <2>5 DEF Answered, DocumentAts
    <3>4. doc'.revision \in Nat
      BY <2>3, <2>4
    <3> QED BY <3>1, <3>2, <3>3, <3>4 DEF DocumentGuarded
  <2>7. SettingsKept'
    BY <2>3, <2>4 DEF EditInv, SettingsKept
  <2>8. UnderLock'
    BY <1>1, <2>2, <2>4 DEF EditInv, UnderLock, Answered
  <2>9. mix \intersect {"settings", "initial"} # {}
    BY <1>1 DEF EditInv, OfMix, DocumentAts
  <2>10. doc' \in [revision : Nat, edits : EditSets] /\ accepted' \in EditSets
    BY <2>3, <2>4 DEF EditInv, EditType, EditSets
  <2> QED BY <2>1, <2>4, <2>6, <2>7, <2>8, <2>9, <2>10, OnDocument DEF CommitDocument, Answered
<1> QED BY <1>2, <1>3

LEMMA SettingsStepKeeps ==
  ASSUME EditInv, NEW r \in Requests, SettingsStep(r)
  PROVE  EditInv'
BY ReadDocumentKeeps, CreatesKeep, CompareAndSwapKeeps, ImportSettingsKeeps, ImportsKeep,
   AppendChangeKeeps, CommitDocumentKeeps DEF SettingsStep

LEMMA DeadlockDetectedKeeps ==
  ASSUME EditInv, DeadlockDetected
  PROVE  EditInv'
<1>1. PICK victim \in Requests : RollBack(victim) /\ req[victim].at \in DocumentAts
  BY DEF DeadlockDetected, Deadlocked, DocumentAts
<1> QED BY <1>1, AnsweredKeeps DEF RollBack

-----------------------------------------------------------------------------
\* The sync lock is as it was, and nobody new needs it.
LEMMA UnderLockStays ==
  ASSUME EditInv, NEW r \in Requests, NEW to, Becomes(r, to),
         to.at \in {"answered", "replace", "patch", "delete", "state"},
         syncLock' = syncLock
  PROVE  UnderLock' /\ syncLock' \in Requests \union {Nobody}
<1>1. req'[r] = to /\ \A q \in Requests : q = r \/ req'[q] = req[q]
  BY BecomesIs
<1> QED BY <1>1 DEF EditInv, EditType, UnderLock

\* A request that only reads the rules.
LEMMA ReadsKeep ==
  ASSUME EditInv, NEW r \in Requests, NEW to, Becomes(r, to),
         req[r].at \notin DocumentAts, to.at \in {"answered", "replace", "delete"},
         to.at \in mix \union {"answered"},
         UNCHANGED <<mix, syncLock, ruleVars, documentVars, flagVars>>
  PROVE  EditInv'
<1>1. UnderLock' /\ syncLock' \in Requests \union {Nobody}
  BY UnderLockStays
<1>2. PatchGuarded' /\ IdsUsed' /\ RulesSound' /\ V4Sole'
  BY RulesStay DEF ruleVars
<1>3. rules' \in SUBSET RuleRows
  BY DEF EditInv, EditType, ruleVars
<1> QED BY <1>1, <1>2, <1>3, FlagsStay, OutsideDocument DEF DocumentAts

LEMMA NewRule ==
  ASSUME EditInv, NEW r \in Requests, NEW c \in Requests \union Clients,
         NEW edits \in EditSets
  PROVE  /\ Rule(r, c, edits) \in RuleRows
         /\ Rule(r, c, edits).id = <<r, c>> /\ Rule(r, c, edits).id[1] = r
         /\ Rule(r, c, edits).accepted = Rule(r, c, edits).edits
         /\ Rule(r, c, edits).client = c /\ Rule(r, c, edits).edits = edits
BY DEF Rule, RuleRows, RuleTuples, EditSets

\* A /v3 request is answered: of the rules it keeps some, and adds its own.
LEMMA V3Keeps ==
  ASSUME EditInv, NEW r \in Requests, req[r].at \notin DocumentAts, req[r] # Answered,
         req' = [req EXCEPT ![r] = Answered],
         mix \intersect {"create", "replace", "patch", "delete"} # {},
         NEW kept \in SUBSET rules,
         rules' = kept \/ rules' = kept \union {Rule(r, r, {r})},
         UNCHANGED <<mix, syncLock, asked, documentVars, flagVars>>
  PROVE  EditInv'
<1>1. Becomes(r, Answered) /\ Answered.at = "answered"
  BY DEF Becomes, RequestRows, Answered
<1>2. req'[r] = Answered /\ \A q \in Requests : req'[q] = Answered \/ req'[q] = req[q]
  BY <1>1, BecomesIs
<1>3. "v4" \notin mix
  BY EditConstants DEF EditInv, EditType
<1>4. \A q \in Requests : req'[q].at # "v4"
  BY <1>1, <1>2, <1>3 DEF EditInv, OfMix
<1>5. Rule(r, r, {r}) \in RuleRows /\ Rule(r, r, {r}).id[1] = r
      /\ Rule(r, r, {r}).accepted = Rule(r, r, {r}).edits
  BY NewRule DEF EditSets
<1>6. \A rule \in rules' : rule \in rules \/ rule = Rule(r, r, {r})
  OBVIOUS
<1>7. \A q \in Requests : req'[q].at = "patch" => req'[q] = req[q] /\ req[req[q].id[1]] = Answered
  BY <1>1, <1>2 DEF EditInv, IdsUsed
<1>8. PatchGuarded'
  <2> SUFFICES ASSUME NEW q \in Requests, req'[q].at = "patch", NEW rule \in rules',
                      rule.id = req'[q].id
               PROVE  /\ req[q].base <= rule.revision
                      /\ q \in req[q].edits
                      /\ req[q].base = rule.revision => rule.edits \subseteq req[q].edits
    BY <1>7 DEF PatchGuarded
  <2>1. rule \in rules
    BY <1>5, <1>6, <1>7
  <2> QED BY <1>7, <2>1 DEF EditInv, PatchGuarded
<1>9. \A q \in Requests : req[q] = Answered => req'[q] = Answered
  BY <1>1, BecomesIs
<1>10. IdsUsed'
  <2>1. \A rule \in rules : req'[rule.id[1]] = Answered
    BY <1>9 DEF EditInv, EditType, IdsUsed, RuleRows, RuleTuples
  <2>2. \A q \in Requests : req'[q].at = "patch" => req'[req'[q].id[1]] = Answered
    <3>1. \A q \in Requests : req[q].at = "patch" => req[q].id[1] \in Requests
      BY RowOf DEF PatchRows
    <3> QED BY <1>7, <1>9, <3>1
  <2>3. \A a, b \in rules' : a.id = b.id => a = b
    <3>1. \A a \in rules : a.id[1] # r
      BY DEF EditInv, IdsUsed
    <3> QED BY <1>5, <1>6, <3>1 DEF EditInv, IdsUsed
  <2> QED BY <1>2, <1>4, <1>5, <1>6, <2>1, <2>2, <2>3 DEF IdsUsed
<1>11. RulesSound'
  BY <1>3, <1>4, <1>5, <1>6 DEF EditInv, RulesSound
<1>12. V4Sole'
  BY <1>3 DEF V4Sole
<1>13. UnderLock' /\ syncLock' \in Requests \union {Nobody}
  BY <1>1, UnderLockStays
<1>14. rules' \in SUBSET RuleRows
  BY <1>5, <1>6 DEF EditInv, EditType
<1> QED BY <1>1, <1>8, <1>10, <1>11, <1>12, <1>13, <1>14, FlagsStay, OutsideDocument
        DEF Answered, DocumentAts

LEMMA ReplaceReadsKeeps ==
  ASSUME EditInv, NEW r \in Requests, ReplaceReads(r)
  PROVE  EditInv'
<1> DEFINE to == [at |-> "replace", live |-> _live_subscriptions]
<1>1. Becomes(r, to) /\ to.at = "replace" /\ req[r].at = "unsent" /\ "replace" \in mix
  BY DEF ReplaceReads, Unsent, Becomes, RequestRows, ReplaceRows, _live_subscriptions, EditInv,
         EditType, Waiting, Answered
<1> HIDE DEF to
<1> QED BY <1>1, ReadsKeep DEF ReplaceReads, DocumentAts

LEMMA DeleteReadsKeeps ==
  ASSUME EditInv, NEW r \in Requests, DeleteReads(r)
  PROVE  EditInv'
<1>1. req[r] = Waiting /\ "delete" \in mix
  BY DEF DeleteReads, Unsent
<1>2. PICK rule \in rules : \/ req' = [req EXCEPT ![r] = [at |-> "delete", id |-> rule.id]]
                            \/ req' = [req EXCEPT ![r] = Answered]
  BY DEF DeleteReads
<1> DEFINE to == [at |-> "delete", id |-> rule.id]
<1>3. to \in RequestRows /\ to.at = "delete"
  BY DEF RequestRows, DeleteRows, EditInv, EditType, RuleRows, RuleTuples
<1>4. Answered \in RequestRows /\ Answered.at = "answered"
  BY DEF RequestRows, Answered
<1>5. req[r] # Answered /\ req[r].at \notin DocumentAts
  BY <1>1 DEF Waiting, Answered, DocumentAts
<1> HIDE DEF to
<1>6. CASE req' = [req EXCEPT ![r] = to]
  BY <1>1, <1>3, <1>5, <1>6, ReadsKeep DEF DeleteReads, Becomes
<1>7. CASE req' = [req EXCEPT ![r] = Answered]
  BY <1>1, <1>4, <1>5, <1>7, ReadsKeep DEF DeleteReads, Becomes
<1> QED BY <1>2, <1>6, <1>7 DEF to

LEMMA V3WritesKeep ==
  ASSUME EditInv, NEW r \in Requests,
         create_subscription(r) \/ replace_subscriptions(r) \/ delete_subscription(r)
  PROVE  EditInv'
<1>1. CASE create_subscription(r)
  <2>1. req[r] # Answered /\ req[r].at \notin DocumentAts /\ "create" \in mix
    BY <1>1 DEF create_subscription, Unsent, Waiting, Answered, DocumentAts
  <2> QED BY <1>1, <2>1, V3Keeps DEF create_subscription
<1>2. CASE replace_subscriptions(r)
  <2>1. req[r] # Answered /\ req[r].at \notin DocumentAts /\ "replace" \in mix
    BY <1>2 DEF replace_subscriptions, Step, EditInv, OfMix, Answered, DocumentAts
  <2> DEFINE kept == {rule \in rules : \A old \in req[r].live : old.id # rule.id}
  <2>2. kept \in SUBSET rules
    OBVIOUS
  <2> QED BY <1>2, <2>1, <2>2, V3Keeps DEF replace_subscriptions, Step
<1>3. CASE delete_subscription(r)
  <2>1. req[r] # Answered /\ req[r].at \notin DocumentAts /\ "delete" \in mix
    BY <1>3 DEF delete_subscription, Step, EditInv, OfMix, Answered, DocumentAts
  <2> DEFINE kept == {rule \in rules : rule.id # req[r].id}
  <2>2. kept \in SUBSET rules
    OBVIOUS
  <2> QED BY <1>3, <2>1, <2>2, V3Keeps DEF delete_subscription, Step
<1> QED BY <1>1, <1>2, <1>3

LEMMA EditRuleKeeps ==
  ASSUME EditInv, NEW r \in Requests, EditRule(r)
  PROVE  EditInv'
<1>1. req[r] = Waiting /\ "patch" \in mix
  BY DEF EditRule, Unsent
<1>2. PICK rule \in rules, guarded \in BOOLEAN :
        req' = [req EXCEPT ![r] = [at |-> "patch", id |-> rule.id, guarded |-> guarded,
                                   base |-> rule.revision, edits |-> rule.edits \union {r}]]
  BY DEF EditRule
<1> DEFINE to == [at |-> "patch", id |-> rule.id, guarded |-> guarded,
                  base |-> rule.revision, edits |-> rule.edits \union {r}]
<1>3. rule \in RuleRows /\ rule.revision \in Nat
  BY DEF EditInv, EditType, RuleRows, RuleTuples
<1>4. /\ to \in RequestRows /\ to.at = "patch" /\ to.id = rule.id /\ to.base = rule.revision
      /\ to.edits = rule.edits \union {r}
  BY <1>3 DEF RequestRows, PatchRows, RuleRows, RuleTuples, EditSets
<1>5. req[r] # Answered /\ req[r].at \notin DocumentAts
  BY <1>1 DEF Waiting, Answered, DocumentAts
<1> HIDE DEF to
<1>6. Becomes(r, to)
  BY <1>2, <1>4, <1>5 DEF Becomes, to
<1>7. req'[r] = to /\ \A q \in Requests : q = r \/ req'[q] = req[q]
  BY <1>6, BecomesIs
<1>8. \A q \in Requests : req[q] = Answered => req'[q] = Answered
  BY <1>6, BecomesIs
<1>9. rules' = rules /\ asked' = asked
  BY DEF EditRule, ruleVars
<1>10. PatchGuarded'
  <2>1. \A other \in rules : other.id = rule.id => other = rule
    BY DEF EditInv, IdsUsed
  <2> QED BY <1>3, <1>4, <1>7, <1>9, <2>1 DEF EditInv, PatchGuarded
<1>11. IdsUsed'
  <2>1. \A one \in rules : one.id[1] \in Requests /\ req[one.id[1]] = Answered
    BY DEF EditInv, EditType, IdsUsed, RuleRows, RuleTuples
  <2>2. \A q \in Requests : req[q].at = "patch" => req[q].id[1] \in Requests /\ req[req[q].id[1]] = Answered
    BY RowOf DEF PatchRows, EditInv, IdsUsed
  <2>3. "v4" \notin mix
    BY <1>1, EditConstants DEF EditInv, EditType
  <2>4. \A q \in Requests : req'[q].at # "v4"
    BY <1>4, <1>7, <2>3 DEF EditInv, OfMix
  <2> QED BY <1>4, <1>7, <1>8, <1>9, <2>1, <2>2, <2>4 DEF EditInv, IdsUsed
<1>12. RulesSound' /\ V4Sole'
  <2>1. \A q \in Requests : req'[q].at = "v4" => req'[q] = req[q]
    BY <1>4, <1>7
  <2> QED BY <1>9, <2>1 DEF EditRule, EditInv, RulesSound, V4Sole
<1>13. UnderLock' /\ syncLock' \in Requests \union {Nobody}
  BY <1>4, <1>6, UnderLockStays DEF EditRule
<1>14. rules' \in SUBSET RuleRows
  BY <1>9 DEF EditInv, EditType
<1> QED BY <1>1, <1>4, <1>5, <1>6, <1>10, <1>11, <1>12, <1>13, <1>14, FlagsStay, OutsideDocument
        DEF EditRule, DocumentAts

\* A guarded PATCH that matches carries every edit of the rule it had read.
LEMMA PatchSubscriptionKeeps ==
  ASSUME EditInv, NEW r \in Requests, patch_subscription(r)
  PROVE  EditInv'
<1> DEFINE patched(rule) == [rule EXCEPT !.edits = req[r].edits, !.revision = @ + 1,
                                         !.accepted = IF req[r].guarded THEN @ \union {r}
                                                      ELSE req[r].edits]
           become(rule) == IF rule \in Matching(r) THEN patched(rule) ELSE rule
<1>1. req[r] \in PatchRows /\ req[r].at = "patch" /\ "patch" \in mix
  BY RowOf DEF patch_subscription, Step, EditInv, OfMix
<1>2. Becomes(r, Answered) /\ Answered.at = "answered" /\ req[r].at \notin DocumentAts
  <2>1. req[r].at # "answered" /\ req[r].at \notin DocumentAts
    BY <1>1 DEF DocumentAts
  <2>2. Answered.at = "answered" /\ Answered \in RequestRows
    BY DEF Answered, RequestRows
  <2> QED BY <2>1, <2>2 DEF Becomes, patch_subscription, Step
<1>3. req'[r] = Answered /\ \A q \in Requests : req'[q] = Answered \/ req'[q] = req[q]
  BY <1>2, BecomesIs
<1>4. \A q \in Requests : req[q] = Answered => req'[q] = Answered
  BY <1>2, BecomesIs
<1>5. "v4" \notin mix
  BY <1>1, EditConstants DEF EditInv, EditType
<1>6. \A q \in Requests : req'[q].at # "v4"
  BY <1>2, <1>3, <1>5 DEF EditInv, OfMix
<1>7. rules' = {become(rule) : rule \in rules}
  BY DEF patch_subscription
<1>8. \A rule \in rules : rule \in RuleRows /\ rule.accepted \subseteq rule.edits
  BY DEF EditInv, EditType, RulesSound
<1>9. \A rule \in Matching(r) :
        /\ rule.id = req[r].id
        /\ req[r].guarded => rule.edits \subseteq req[r].edits /\ r \in req[r].edits
  BY <1>1 DEF Matching, WithId, EditInv, PatchGuarded
<1>10. \A rule \in rules : /\ become(rule) \in RuleRows /\ become(rule).id = rule.id
                           /\ become(rule).accepted \subseteq become(rule).edits
  <2> SUFFICES ASSUME NEW rule \in rules, rule \in Matching(r)
               PROVE  /\ patched(rule) \in RuleRows /\ patched(rule).id = rule.id
                      /\ patched(rule).accepted \subseteq patched(rule).edits
    BY <1>8
  <2>1. req[r].edits \in EditSets
    BY <1>1 DEF PatchRows
  <2>2. /\ patched(rule).id = rule.id /\ patched(rule).client = rule.client
        /\ patched(rule).edits = req[r].edits
        /\ patched(rule).accepted = IF req[r].guarded THEN rule.accepted \union {r} ELSE req[r].edits
    BY <1>8 DEF RuleRows, RuleTuples
  <2>3. patched(rule) \in RuleRows
    <3>1. rule \in RuleTuples /\ rule.id[2] = rule.client
      BY <1>8 DEF RuleRows, RuleTuples
    <3>2. rule.accepted \union {r} \in EditSets /\ rule.revision + 1 \in Nat
      BY <3>1 DEF EditSets, RuleTuples
    <3>3. patched(rule) \in RuleTuples
      BY <2>1, <3>1, <3>2 DEF RuleTuples
    <3> QED BY <2>2, <3>1, <3>3 DEF RuleRows, RuleTuples
  <2>4. patched(rule).accepted \subseteq patched(rule).edits
    BY <1>8, <1>9, <2>2
  <2> QED BY <2>2, <2>3, <2>4
<1>11. \A rule \in rules : become(rule) = rule \/ become(rule).revision = rule.revision + 1
  BY <1>8 DEF RuleRows, RuleTuples
<1> HIDE DEF become
<1>12. PatchGuarded'
  <2> SUFFICES ASSUME NEW q \in Requests, req'[q].at = "patch", NEW rule \in rules,
                      become(rule).id = req'[q].id
               PROVE  /\ req'[q].base <= become(rule).revision
                      /\ q \in req'[q].edits
                      /\ req'[q].base = become(rule).revision => become(rule).edits \subseteq req'[q].edits
    BY <1>7 DEF PatchGuarded
  <2>1. req'[q] = req[q] /\ req[q] \in PatchRows /\ req[q].at = "patch"
    BY <1>2, <1>3, RowOf
  <2>2. /\ req[q].base <= rule.revision /\ q \in req[q].edits
        /\ req[q].base = rule.revision => rule.edits \subseteq req[q].edits
    BY <1>10, <2>1 DEF EditInv, PatchGuarded
  <2>3. req[q].base \in Nat /\ rule.revision \in Nat
    BY <1>8, <2>1 DEF PatchRows, RuleRows, RuleTuples
  <2>4. become(rule) = rule \/ (become(rule).revision = rule.revision + 1)
    BY <1>11
  <2> QED BY <2>1, <2>2, <2>3, <2>4
<1>13. IdsUsed'
  <2>1. \A rule \in rules : req'[rule.id[1]] = Answered
    BY <1>4, <1>8 DEF EditInv, IdsUsed, RuleRows, RuleTuples
  <2>2. \A q \in Requests : req'[q].at = "patch" => req'[req'[q].id[1]] = Answered
    <3>1. \A q \in Requests : req[q].at = "patch" => req[q].id[1] \in Requests
      BY RowOf DEF PatchRows
    <3> QED BY <1>2, <1>3, <1>4, <3>1 DEF EditInv, IdsUsed
  <2>3. \A one, other \in rules' : one.id = other.id => one = other
    BY <1>7, <1>10 DEF EditInv, IdsUsed
  <2>4. \A rule \in rules' : req'[rule.id[1]] = Answered
    BY <1>7, <1>10, <2>1
  <2> QED BY <1>6, <2>2, <2>3, <2>4 DEF IdsUsed
<1>14. RulesSound' /\ V4Sole'
  BY <1>5, <1>6, <1>7, <1>10 DEF patch_subscription, RulesSound, V4Sole
<1>15. UnderLock' /\ syncLock' \in Requests \union {Nobody}
  BY <1>2, UnderLockStays DEF patch_subscription
<1>16. rules' \in SUBSET RuleRows
  BY <1>7, <1>10
<1> QED BY <1>2, <1>12, <1>13, <1>14, <1>15, <1>16, FlagsStay, OutsideDocument
        DEF patch_subscription, DocumentAts

-----------------------------------------------------------------------------
LEMMA ReplaceReadsV4Keeps ==
  ASSUME EditInv, NEW r \in Requests, ReplaceReadsV4(r)
  PROVE  EditInv'
<1>1. req[r] = Waiting /\ "v4" \in mix /\ syncLock = Nobody /\ syncLock' = r
  BY DEF ReplaceReadsV4, Unsent, lock_sync_state
<1>2. PICK wire \in SentRules(r) :
        req' = [req EXCEPT ![r] = [at |-> "v4", sent |-> wire, live |-> _live_subscriptions]]
  BY DEF ReplaceReadsV4
<1> DEFINE to == [at |-> "v4", sent |-> wire, live |-> _live_subscriptions]
<1>3. wire \in SentSets
  BY DEF SentRules, SentSets, EditSets
<1>4. to \in RequestRows /\ to.at = "v4" /\ to.live = rules
  BY <1>3 DEF RequestRows, V4Rows, EditInv, EditType, _live_subscriptions
<1>5. req[r] # Answered /\ req[r].at \notin DocumentAts
  BY <1>1 DEF Waiting, Answered, DocumentAts
<1> HIDE DEF to
<1>6. Becomes(r, to)
  BY <1>2, <1>4, <1>5 DEF Becomes, to
<1>7. req'[r] = to /\ \A q \in Requests : q = r \/ req'[q] = req[q]
  BY <1>6, BecomesIs
<1>8. \A q \in Requests : req[q] = Answered => req'[q] = Answered
  BY <1>6, BecomesIs
<1>9. rules' = rules /\ asked' = asked /\ mix' = mix
  BY DEF ReplaceReadsV4, ruleVars
<1>10. \A q \in Requests : req[q].at # "patch"
  BY <1>1, EditConstants DEF EditInv, EditType, OfMix
<1>11. \A q \in Requests : req'[q].at = "v4" => req'[q].live = rules \/ req'[q] = req[q]
  BY <1>4, <1>7
<1>12. \A q \in Requests : req'[q].at # "patch"
  BY <1>4, <1>7, <1>10
<1>13. PatchGuarded'
  BY <1>12 DEF PatchGuarded
<1>14. IdsUsed'
  <2>1. \A q \in Requests : req[q].at = "v4" => \A old \in req[q].live : old.id[1] \in Requests
    BY RowOf DEF V4Rows, RuleRows, RuleTuples
  <2>2. \A rule \in rules : rule.id[1] \in Requests /\ req'[rule.id[1]] = Answered
    BY <1>8 DEF EditInv, EditType, IdsUsed, RuleRows, RuleTuples
  <2>3. \A q \in Requests : req'[q].at = "v4" => \A old \in req'[q].live : req'[old.id[1]] = Answered
    BY <1>8, <1>11, <2>1, <2>2 DEF EditInv, IdsUsed
  <2> QED BY <1>9, <1>12, <2>2, <2>3 DEF EditInv, IdsUsed
<1>15. RulesSound' /\ V4Sole'
  <2>1. \A rule \in rules : rule.accepted = rule.edits
    BY <1>1 DEF EditInv, RulesSound
  <2> QED BY <1>9, <1>11, <2>1 DEF EditInv, RulesSound, V4Sole
<1>16. UnderLock'
  BY <1>1, <1>7, EditConstants DEF EditInv, UnderLock
<1>17. rules' \in SUBSET RuleRows
  BY <1>9 DEF EditInv, EditType
<1> QED BY <1>1, <1>4, <1>5, <1>6, <1>13, <1>14, <1>15, <1>16, <1>17, FlagsStay, OutsideDocument
        DEF ReplaceReadsV4, DocumentAts

\* What a PUT makes of the rules it read: one row per client id it sent, or more
\* where the rows it read had more.
LEMMA ReplacedIs ==
  ASSUME EditInv, NEW r \in Requests, req[r].at = "v4"
  PROVE  /\ Replaced(req[r].live, req[r].sent, r) \in SUBSET RuleRows
         /\ \A rule \in Replaced(req[r].live, req[r].sent, r) :
              /\ rule.client \in DOMAIN req[r].sent
              /\ rule.edits = req[r].sent[rule.client]
              /\ rule.accepted = rule.edits
              /\ rule.id[1] = r \/ \E old \in req[r].live : rule.id = old.id
         /\ \A c \in DOMAIN req[r].sent :
              \E rule \in Replaced(req[r].live, req[r].sent, r) : rule.client = c
<1> DEFINE live == req[r].live
           wire == req[r].sent
           kept(rule) == IF rule.edits = wire[rule.client] THEN rule
                         ELSE [rule EXCEPT !.edits = wire[rule.client],
                                           !.accepted = wire[rule.client], !.revision = @ + 1]
           old == {l \in live : l.client \in DOMAIN wire}
           new == {c \in DOMAIN wire : \A l \in live : l.client # c}
<1>1. req[r] \in V4Rows
  BY RowOf
<1>2. live \in SUBSET RuleRows /\ wire \in SentSets
  BY <1>1 DEF V4Rows
<1>3. DOMAIN wire \subseteq Clients /\ \A c \in DOMAIN wire : wire[c] \in EditSets
  BY <1>2 DEF SentSets
<1>4. \A l \in live : l.accepted = l.edits
  BY DEF EditInv, RulesSound
<1>5. Replaced(live, wire, r) = {kept(rule) : rule \in old} \union {Rule(r, c, wire[c]) : c \in new}
  BY DEF Replaced
<1>6. \A rule \in old : /\ kept(rule) \in RuleRows /\ kept(rule).client = rule.client
                        /\ kept(rule).id = rule.id /\ kept(rule).edits = wire[rule.client]
                        /\ kept(rule).accepted = kept(rule).edits
  <2> SUFFICES ASSUME NEW rule \in old
               PROVE  /\ kept(rule) \in RuleRows /\ kept(rule).client = rule.client
                      /\ kept(rule).id = rule.id /\ kept(rule).edits = wire[rule.client]
                      /\ kept(rule).accepted = kept(rule).edits
    OBVIOUS
  <2> DEFINE moved == [rule EXCEPT !.edits = wire[rule.client],
                                   !.accepted = wire[rule.client], !.revision = @ + 1]
  <2>1. /\ rule \in RuleRows /\ rule.id \in Requests \X (Requests \union Clients)
        /\ rule.id[2] = rule.client /\ rule.client \in Requests \union Clients
        /\ rule.revision \in Nat /\ rule.accepted = rule.edits
    BY <1>2, <1>4 DEF RuleRows, RuleTuples
  <2>2. wire[rule.client] \in EditSets
    BY <1>3
  <2>3. moved \in RuleTuples
    <3>1. rule \in RuleTuples /\ rule.revision + 1 \in Nat
      BY <2>1 DEF RuleRows
    <3> HIDE DEF wire
    <3> QED BY <2>2, <3>1 DEF RuleTuples
  <2>4. /\ moved.id = rule.id /\ moved.client = rule.client
        /\ moved.edits = wire[rule.client] /\ moved.accepted = wire[rule.client]
    BY <2>1 DEF RuleRows, RuleTuples
  <2>5. (kept(rule) = rule /\ rule.edits = wire[rule.client]) \/ kept(rule) = moved
    OBVIOUS
  <2> HIDE DEF moved, kept, wire
  <2>6. moved \in RuleRows
    BY <2>1, <2>3, <2>4 DEF RuleRows, RuleTuples
  <2> QED BY <2>1, <2>4, <2>5, <2>6
<1>7. \A c \in new : /\ Rule(r, c, wire[c]) \in RuleRows
                     /\ Rule(r, c, wire[c]).client = c /\ Rule(r, c, wire[c]).id[1] = r
                     /\ Rule(r, c, wire[c]).edits = wire[c]
                     /\ Rule(r, c, wire[c]).accepted = Rule(r, c, wire[c]).edits
  BY <1>3, NewRule
<1>8. \A c \in DOMAIN wire : c \in new \/ \E rule \in old : rule.client = c
  OBVIOUS
<1> HIDE DEF kept, wire, live
<1>9. \A rule \in Replaced(live, wire, r) :
        \/ \E l \in old : rule = kept(l)
        \/ \E c \in new : rule = Rule(r, c, wire[c])
  BY <1>5
<1>10. /\ \A l \in old : kept(l) \in Replaced(live, wire, r)
       /\ \A c \in new : Rule(r, c, wire[c]) \in Replaced(live, wire, r)
  BY <1>5
<1>11. Replaced(live, wire, r) \in SUBSET RuleRows
  BY <1>6, <1>7, <1>9
<1>12. \A rule \in Replaced(live, wire, r) :
         /\ rule.client \in DOMAIN wire /\ rule.edits = wire[rule.client]
         /\ rule.accepted = rule.edits
         /\ rule.id[1] = r \/ \E l \in live : rule.id = l.id
  BY <1>6, <1>7, <1>9
<1>13. \A c \in DOMAIN wire : \E rule \in Replaced(live, wire, r) : rule.client = c
  BY <1>6, <1>7, <1>8, <1>10
<1> QED BY <1>11, <1>12, <1>13 DEF wire, live

\* Rules of other rows stay; one row per client id, or nothing is written.
LEMMA ReplaceSubscriptionsV4Keeps ==
  ASSUME EditInv, NEW r \in Requests, replace_subscriptions_v4(r)
  PROVE  EditInv'
<1> DEFINE made == Replaced(req[r].live, req[r].sent, r)
           others == {rule \in rules : \A old \in req[r].live : old.id # rule.id}
           after == others \union made
           unique == \A a, b \in after : a.client = b.client => a = b
<1>1. /\ req[r].at = "v4" /\ "v4" \in mix /\ req[r] \in V4Rows /\ syncLock = r
      /\ req' = [req EXCEPT ![r] = Answered]
  BY RowOf DEF replace_subscriptions_v4, Step, EditInv, OfMix, UnderLock
<1>2. /\ rules' = IF unique THEN after ELSE rules
      /\ asked' = IF unique THEN {<<c, req[r].sent[c]>> : c \in DOMAIN req[r].sent} ELSE asked
      /\ syncLock' = Nobody /\ UNCHANGED <<mix, documentVars, flagVars>>
  BY <1>1 DEF replace_subscriptions_v4
<1>3. /\ made \in SUBSET RuleRows
      /\ \A rule \in made : /\ rule.client \in DOMAIN req[r].sent
                            /\ rule.edits = req[r].sent[rule.client]
                            /\ rule.accepted = rule.edits
                            /\ rule.id[1] = r \/ \E old \in req[r].live : rule.id = old.id
      /\ \A c \in DOMAIN req[r].sent : \E rule \in made : rule.client = c
  BY <1>1, ReplacedIs
<1>4. Answered.at = "answered" /\ Answered \in RequestRows
  BY DEF Answered, RequestRows
<1>5. Becomes(r, Answered) /\ req[r].at \notin DocumentAts
  <2>1. req[r].at # "answered" /\ req[r].at \notin DocumentAts
    BY <1>1 DEF DocumentAts
  <2> QED BY <1>1, <1>4, <2>1 DEF Becomes
<1>6. req'[r] = Answered /\ \A q \in Requests : req'[q] = Answered \/ req'[q] = req[q]
  BY <1>5, BecomesIs
<1>7. \A q \in Requests : req[q] = Answered => req'[q] = Answered
  BY <1>5, BecomesIs
<1>8. \A q \in Requests : req'[q].at \notin {"patch", "v4"}
  <2>1. \A q \in Requests : req[q].at # "patch"
    BY <1>1, EditConstants DEF EditInv, EditType, OfMix
  <2>2. \A q \in Requests : req'[q].at = "v4" => req[q].at = "v4" /\ q # r
    BY <1>4, <1>6
  <2>3. \A q \in Requests : req[q].at = "v4" => q = r
    BY <1>1 DEF EditInv, UnderLock
  <2> QED BY <1>4, <1>6, <2>1, <2>2, <2>3
<1> HIDE DEF made
<1>9. \A rule \in after : rule \in rules \/ rule \in made
  OBVIOUS
<1>10. \A rule \in rules : rule \in RuleRows /\ rule.id[1] \in Requests /\ req'[rule.id[1]] = Answered
  BY <1>7 DEF EditInv, EditType, IdsUsed, RuleRows, RuleTuples
<1>11. \A rule \in made : req'[rule.id[1]] = Answered
  <2>1. \A old \in req[r].live : old.id[1] \in Requests /\ req[old.id[1]] = Answered
    BY <1>1 DEF V4Rows, RuleRows, RuleTuples, EditInv, IdsUsed
  <2> QED BY <1>3, <1>6, <1>7, <2>1
<1>12. rules' \in SUBSET RuleRows
  BY <1>2, <1>3, <1>10
<1>13. \A rule \in rules' : req'[rule.id[1]] = Answered /\ rule.accepted = rule.edits
  BY <1>1, <1>2, <1>3, <1>9, <1>10, <1>11 DEF EditInv, RulesSound
<1>14. \A a, b \in rules' : a.id = b.id => a = b
  <2>1. CASE unique
    BY <1>2, <1>12, <2>1 DEF RuleRows, RuleTuples
  <2>2. CASE ~unique
    BY <1>2, <2>2 DEF EditInv, IdsUsed
  <2> QED BY <2>1, <2>2
<1>15. IdsUsed' /\ RulesSound' /\ PatchGuarded'
  BY <1>8, <1>13, <1>14 DEF IdsUsed, RulesSound, PatchGuarded
<1>16. V4Sole'
  <2> SUFFICES ASSUME mix = {"v4"}
               PROVE  {<<rule.client, rule.edits>> : rule \in rules'} = asked'
    BY <1>2, <1>8 DEF V4Sole
  <2>1. req[r].live = rules /\ {<<rule.client, rule.edits>> : rule \in rules} = asked
    BY <1>1 DEF EditInv, V4Sole
  <2>2. after = made
    BY <2>1
  <2>3. CASE unique
    <3>1. {<<rule.client, rule.edits>> : rule \in made}
            = {<<c, req[r].sent[c]>> : c \in DOMAIN req[r].sent}
      <4>1. \A rule \in made : /\ rule.client \in DOMAIN req[r].sent
                               /\ rule.edits = req[r].sent[rule.client]
        BY <1>3
      <4>2. \A c \in DOMAIN req[r].sent : \E rule \in made : rule.client = c /\ rule.edits = req[r].sent[c]
        BY <1>3
      <4>3. ASSUME NEW c \in DOMAIN req[r].sent
            PROVE  <<c, req[r].sent[c]>> \in {<<rule.client, rule.edits>> : rule \in made}
        <5>1. PICK rule \in made : rule.client = c /\ rule.edits = req[r].sent[c]
          BY <4>2
        <5> QED BY <5>1
      <4> QED BY <4>1, <4>3
    <3> QED BY <1>2, <2>2, <2>3, <3>1
  <2>4. CASE ~unique
    BY <1>2, <2>1, <2>4
  <2> QED BY <2>3, <2>4
<1>17. UnderLock'
  <2>1. \A q \in Requests : q # r => req[q].at \notin {"import", "import_insert", "commit", "v4"}
    BY <1>1 DEF EditInv, UnderLock
  <2> QED BY <1>4, <1>5, <2>1, BecomesIs DEF UnderLock
<1> QED BY <1>2, <1>4, <1>5, <1>12, <1>15, <1>16, <1>17, FlagsStay, OutsideDocument
        DEF DocumentAts

LEMMA RuleStepKeeps ==
  ASSUME EditInv, NEW r \in Requests, RuleStep(r)
  PROVE  EditInv'
BY V3WritesKeep, ReplaceReadsKeeps, EditRuleKeeps, PatchSubscriptionKeeps, DeleteReadsKeeps,
   ReplaceReadsV4Keeps, ReplaceSubscriptionsV4Keeps DEF RuleStep

-----------------------------------------------------------------------------
LEMMA StateReadsKeeps ==
  ASSUME EditInv, NEW r \in Requests, StateReads(r)
  PROVE  EditInv'
<1>1. req[r] = Waiting /\ "state" \in mix
  BY DEF StateReads, Unsent
<1>2. PICK f \in Flags, value \in BOOLEAN, ts \in SentStamps, now \in Nows :
        req' = [req EXCEPT ![r] = [at |-> "state", field |-> f,
                                   edit |-> [value |-> value, at |-> clamp(ts, now)],
                                   flag |-> flag, first_read |-> first_read]]
  BY DEF StateReads
<1> DEFINE to == [at |-> "state", field |-> f, edit |-> [value |-> value, at |-> clamp(ts, now)],
                  flag |-> flag, first_read |-> first_read]
<1>3. clamp(ts, now) \in Nat
  BY EditConstants DEF clamp
<1>4. [value |-> value, at |-> clamp(ts, now)] \in FlagEdits
  BY <1>3 DEF FlagEdits
<1>5. to \in RequestRows /\ to.at = "state"
  BY <1>4 DEF RequestRows, StateRows, EditInv, EditType
<1>6. req[r] # Answered /\ req[r].at \notin DocumentAts
  BY <1>1 DEF Waiting, Answered, DocumentAts
<1> HIDE DEF to
<1>7. Becomes(r, to)
  BY <1>2, <1>5, <1>6 DEF Becomes, to
<1>8. UnderLock' /\ syncLock' \in Requests \union {Nobody}
  BY <1>5, <1>7, UnderLockStays DEF StateReads
<1>9. PatchGuarded' /\ IdsUsed' /\ RulesSound' /\ V4Sole'
  BY <1>5, <1>7, RulesStay DEF StateReads, ruleVars
<1>10. rules' \in SUBSET RuleRows
  BY DEF EditInv, EditType, ruleVars, StateReads
<1> QED BY <1>1, <1>5, <1>6, <1>7, <1>8, <1>9, <1>10, FlagsStay, OutsideDocument
        DEF StateReads, DocumentAts

\* A field nobody wrote meanwhile is compared with what it still holds.
LEMMA PutStateKeeps ==
  ASSUME EditInv, NEW r \in Requests, put_state(r)
  PROVE  EditInv'
<1> DEFINE q == req[r]
           merged == apply_field_boolean(q.flag[q.field], q.edit)
<1>1. q \in StateRows /\ q.at = "state" /\ req' = [req EXCEPT ![r] = Answered]
  BY RowOf DEF put_state, Step
<1>2. q.field \in Flags /\ q.edit \in FlagEdits /\ q.flag \in FlagRows
  BY <1>1 DEF StateRows
<1>3. Answered.at = "answered" /\ Answered \in RequestRows
  BY DEF Answered, RequestRows
<1>4. Becomes(r, Answered) /\ q.at \notin DocumentAts
  <2>1. q.at # "answered" /\ q.at \notin DocumentAts
    BY <1>1 DEF DocumentAts
  <2> QED BY <1>1, <1>3, <2>1 DEF Becomes
<1>5. /\ flag' = IF merged = q.flag[q.field] THEN flag ELSE [flag EXCEPT ![q.field] = merged]
      /\ first_read' = (first_read \/ (q.field = "read"
                          /\ apply_field_boolean(q.flag["read"], q.edit).value))
      /\ newest' = [newest EXCEPT ![q.field] = IF Newer(q.edit, newest[q.field]) THEN q.edit
                                               ELSE newest[q.field]]
      /\ raced' = IF flag[q.field] # q.flag[q.field] THEN raced \union {q.field} ELSE raced
  BY DEF put_state, Written
<1>6. flag \in FlagRows /\ newest \in FlagRows /\ first_read \in BOOLEAN
  BY DEF EditInv, EditType
<1>7. merged \in FlagEdits
  BY <1>2 DEF apply_field_boolean, FlagRows
<1>8. merged = IF Newer(q.edit, q.flag[q.field]) THEN q.edit ELSE q.flag[q.field]
  BY DEF apply_field_boolean
<1>9. q.field = "read" => merged.value = apply_field_boolean(q.flag["read"], q.edit).value
  OBVIOUS
<1> HIDE DEF q, merged
<1>10. /\ flag' \in FlagRows /\ newest' \in FlagRows
       /\ \A f \in Flags : f # q.field => flag'[f] = flag[f] /\ newest'[f] = newest[f]
       /\ flag'[q.field] = IF merged = q.flag[q.field] THEN flag[q.field] ELSE merged
       /\ newest'[q.field] = IF Newer(q.edit, newest[q.field]) THEN q.edit ELSE newest[q.field]
  BY <1>2, <1>5, <1>6, <1>7 DEF FlagRows
<1>11. first_read' \in BOOLEAN
  <2>1. "read" \in Flags => q.flag["read"] \in FlagEdits
    BY <1>2 DEF FlagRows
  <2>2. q.field = "read" => apply_field_boolean(q.flag["read"], q.edit).value \in BOOLEAN
    BY <1>2, <1>7, <1>9 DEF FlagEdits
  <2> QED BY <1>5, <1>6, <2>2
<1>12. \A f \in Flags \ raced' : flag'[f] = newest'[f]
  <2> SUFFICES ASSUME NEW f \in Flags, f \notin raced'
               PROVE  flag'[f] = newest'[f]
    OBVIOUS
  <2>1. f \notin raced /\ flag[f] = newest[f]
    BY <1>5 DEF EditInv, FlagsHoldNewest
  <2>2. CASE f # q.field
    BY <1>10, <2>1, <2>2
  <2>3. CASE f = q.field
    <3>1. flag[f] = q.flag[f]
      BY <1>5, <2>3
    <3> QED BY <1>8, <1>10, <2>1, <2>3, <3>1
  <2> QED BY <2>2, <2>3
<1>13. ("read" \in Flags /\ flag'["read"].value) => first_read'
  <2> SUFFICES ASSUME "read" \in Flags, flag'["read"].value
               PROVE  first_read'
    OBVIOUS
  <2>1. flag["read"].value => first_read
    BY DEF EditInv, FlagsHoldNewest
  <2>2. CASE q.field # "read" \/ merged = q.flag[q.field]
    BY <1>5, <1>10, <2>1, <2>2
  <2>3. CASE q.field = "read" /\ merged # q.flag[q.field]
    BY <1>5, <1>9, <1>10, <2>3
  <2> QED BY <2>2, <2>3
<1>14. FlagsHoldNewest'
  BY <1>12, <1>13 DEF FlagsHoldNewest
<1>15. UnderLock' /\ syncLock' \in Requests \union {Nobody}
  BY <1>3, <1>4, UnderLockStays DEF put_state
<1>16. PatchGuarded' /\ IdsUsed' /\ RulesSound' /\ V4Sole'
  BY <1>3, <1>4, RulesStay DEF put_state, ruleVars
<1>17. rules' \in SUBSET RuleRows
  BY DEF EditInv, EditType, ruleVars, put_state
<1> QED BY <1>3, <1>4, <1>10, <1>11, <1>14, <1>15, <1>16, <1>17, OutsideDocument
        DEF put_state, DocumentAts, q

-----------------------------------------------------------------------------
LEMMA EditInitSound == EditInit => EditInv
<1> SUFFICES ASSUME EditInit PROVE EditInv
  OBVIOUS
<1>1. EditType
  BY EditConstants DEF EditInit, EditType, NoDocument, NoStamp, FlagRows, FlagEdits, EditSets,
                       RequestRows
<1>2. \A r \in Requests : req[r] = Waiting /\ req[r].at = "unsent"
  BY DEF EditInit, Waiting
<1>3. DocumentGuarded /\ SettingsKept
  BY <1>2, EditConstants DEF EditInit, DocumentGuarded, SettingsKept, NoDocument, DocumentAts
<1>4. PatchGuarded /\ UnderLock /\ OfMix
  BY <1>2 DEF PatchGuarded, UnderLock, OfMix, DocumentAts
<1>5. IdsUsed /\ RulesSound /\ V4Sole
  BY <1>2 DEF EditInit, IdsUsed, RulesSound, V4Sole
<1>6. FlagsHoldNewest
  BY DEF EditInit, FlagsHoldNewest, NoStamp
<1> QED BY <1>1, <1>3, <1>4, <1>5, <1>6 DEF EditInv

LEMMA EditNextKeeps == EditInv /\ [EditNext]_editVars => EditInv'
<1> SUFFICES ASSUME EditInv, [EditNext]_editVars PROVE EditInv'
  OBVIOUS
<1>1. CASE UNCHANGED editVars
  BY <1>1 DEF editVars, EditInv, EditType, DocumentGuarded, SettingsKept, PatchGuarded,
              UnderLock, OfMix, IdsUsed, RulesSound, V4Sole, FlagsHoldNewest
<1>2. CASE EditNext
  BY <1>2, SettingsStepKeeps, RuleStepKeeps, StateReadsKeeps, PutStateKeeps,
     DeadlockDetectedKeeps DEF EditNext
<1> QED BY <1>1, <1>2

LEMMA EditsSound == EditSpec => []EditInv
<1> QED BY EditInitSound, EditNextKeeps, PTL DEF EditSpec

(* However the requests of an account interleave, wait for each other's locks
   or are rolled back, every edit the server accepted is in the settings
   document or the rule it was made to, and between /v4 requests the device's
   rules are the ones of the last PUT (put_document, process_initial_upload,
   patch_subscription, replace_subscriptions_v4). *)
THEOREM EditsKept == EditSpec => []AcceptedEditsKept
<1>1. EditInv => AcceptedEditsKept
  BY DEF EditInv, AcceptedEditsKept, RulesKept, RulesSound, V4Sole
<1> QED BY <1>1, EditsSound, PTL

(* A flag no two overlapping requests wrote holds the newest edit the server
   accepted, and a read bulletin has its first reading (put_state). *)
THEOREM FlagsNewest == EditSpec => []FlagsHoldNewest
<1>1. EditInv => FlagsHoldNewest
  BY DEF EditInv
<1> QED BY <1>1, EditsSound, PTL

(*************************************************************************)
(* Proofs about AssignmentRows, for any runs, dates, marks, skew and     *)
(* waits. One row stands for the assignment (RowOfUpload): it has the    *)
(* mark stamped last (MainMarked), and only a row the placeholder merge  *)
(* left can be beside it.  Extensions, and answers about them, are the   *)
(* server row's (ExtensionsServed).  Each step keeps that and, with it,  *)
(* one row, its submission and an extended date (Keeps).                 *)
(*************************************************************************)

MarkRows == [status : Statuses, at : Nat, received : Int]
StoredRows == [due_at : Nat, extension_due_at : Nat, submitted : BOOLEAN,
               deleted_at : Int, mark : MarkRows]
FetchRows ==
  {Idle} \union [at : {"listed"}, answer : Answers, due : Nat]
    \union [at : {"asking"}, due : Nat]
    \union [at : {"answered"}, due : Nat, extension : Nat, submitted : BOOLEAN]

AssignmentType ==
  /\ arow \in [RowIds -> StoredRows \union {NoAssignment}]
  /\ moodle \in [due : Nat, extension : Nat, submitted : BOOLEAN]
  /\ fetch \in [Fetches -> FetchRows]
  /\ time \in Int /\ time >= MarkStart
  /\ chosen \in MarkRows

\* The row that stands for the assignment, RowOfUpload, has the mark chosen
\* last; a placeholder beside a server row is one the apps dropped, and says
\* nothing newer.
MainMarked ==
  /\ \A c \in RowIds : Exists(c) /\ arow[c].mark.at = 0 => arow[c].mark = NoMark
  /\ chosen.at = 0 => chosen = NoMark
  /\ IF Exists(RowOfUpload)
     THEN arow[RowOfUpload].mark.status = chosen.status /\ arow[RowOfUpload].mark.at = chosen.at
     ELSE chosen = NoMark
  /\ Exists(Placeholder) /\ Exists(Server) =>
       /\ arow[Placeholder].deleted_at = Oldest
       /\ arow[Server].deleted_at = NoTime \/ arow[Server].deleted_at > Oldest
       /\ arow[Placeholder].mark.received > Oldest => arow[Placeholder].mark.at <= chosen.at

\* Extensions are the server row's, and so are the answers about them.
ExtensionsServed ==
  /\ Exists(Placeholder) => arow[Placeholder].extension_due_at = NoDate
  /\ Exists(Server) /\ arow[Server].extension_due_at # NoDate
       => arow[Server].due_at = arow[Server].extension_due_at
  /\ \A r \in Fetches : fetch[r].at \in {"asking", "answered"} => Exists(Server)

RowsInv == AssignmentType /\ MainMarked /\ ExtensionsServed

LEMMA TwoRows ==
  /\ RowIds = {Placeholder, Server} /\ Placeholder # Server
  /\ NoDate = 0 /\ NoTime = 0 /\ Oldest = 1
  /\ NoAssignment \notin StoredRows
<1>1. ASSUME NoAssignment \in StoredRows PROVE FALSE
  <2>1. DOMAIN NoAssignment = {"due_at", "extension_due_at", "submitted", "deleted_at", "mark"}
    BY <1>1 DEF StoredRows
  <2>2. DOMAIN NoAssignment = {"status"}
    BY DEF NoAssignment
  <2> QED BY <2>1, <2>2
<1> QED BY <1>1 DEF RowIds, Placeholder, Server, NoDate, NoTime, Oldest

LEMMA RowsTyped ==
  ASSUME RowsInv, NEW c \in RowIds
  PROVE  /\ Exists(c) <=> arow[c] \in StoredRows
         /\ Exists(c) => /\ arow[c].mark \in MarkRows /\ arow[c].mark.at \in Nat
                         /\ arow[c].mark.received \in Int /\ arow[c].deleted_at \in Int
                         /\ arow[c].due_at \in Nat /\ arow[c].extension_due_at \in Nat
                         /\ arow[c].submitted \in BOOLEAN
<1>1. arow[c] \in StoredRows \union {NoAssignment}
  BY DEF RowsInv, AssignmentType
<1> QED BY <1>1, TwoRows DEF Exists, StoredRows, MarkRows

\* Live rows are the one that stands for the assignment.
LEMMA SeenIsMain ==
  ASSUME RowsInv
  PROVE  /\ _get_assignment_by_moodle_id = RowOfUpload /\ RowOfUpload \in RowIds
         /\ \A c \in RowIds : Live(c) => c = RowOfUpload
<1>1. ~(Exists(Server) /\ Live(Placeholder))
  BY TwoRows DEF RowsInv, MainMarked, Live
<1> QED BY <1>1, TwoRows DEF _get_assignment_by_moodle_id, RowOfUpload, Live

(*************************************************************************)
(* What /sync/full shows.                                                *)
(*************************************************************************)
LEMMA ShownFollows ==
  ASSUME RowsInv
  PROVE  ShownMarkIsLastChoice
<1> DEFINE main == RowOfUpload
           orphans == {c \in RowIds : /\ Exists(c) /\ ~Live(c) /\ arow[c].mark # NoMark
                                      /\ ~_hidden_since_received(c)}
<1>1. chosen \in MarkRows /\ chosen.at \in Nat /\ NoMark.at = 0
  BY DEF RowsInv, AssignmentType, MarkRows, NoMark, NoTime
<1>2. \A c \in RowIds : Exists(c) /\ arow[c].mark # NoMark => arow[c].mark.at > 0
  BY RowsTyped DEF RowsInv, MainMarked
<1>3. chosen # NoMark => chosen.at > 0
  BY <1>1 DEF RowsInv, MainMarked
<1>4. Exists(main) => /\ arow[main].mark.status = chosen.status
                      /\ arow[main].mark.at = chosen.at
                      /\ arow[main].mark = NoMark <=> chosen = NoMark
  BY <1>1, <1>2, <1>3, SeenIsMain DEF RowsInv, MainMarked
<1>5. ~Exists(main) => chosen = NoMark /\ \A c \in RowIds : ~Exists(c)
  BY TwoRows DEF RowsInv, MainMarked, RowOfUpload
<1>6. ASSUME \A c \in RowIds : ~Live(c), NEW c \in orphans, c # main
      PROVE  _marked_at(c) < _marked_at(main) /\ chosen # NoMark
  <2>1. main = Server /\ c = Placeholder /\ Exists(Server) /\ Exists(Placeholder)
    <3>1. c \in {Placeholder, Server} /\ Exists(c) /\ c # RowOfUpload
      BY <1>6, TwoRows
    <3>2. RowOfUpload = Server /\ Exists(Server)
      BY <3>1 DEF RowOfUpload
    <3> QED BY <3>1, <3>2
  <2>2. arow[Server].deleted_at <= Later(arow[c].deleted_at, arow[c].mark.received)
    BY <2>1, RowsTyped, TwoRows DEF _hidden_since_received, Later
  <2>3. arow[Server].deleted_at > 1
    BY <1>6, <2>1, TwoRows DEF RowsInv, MainMarked, Live
  <2>4. arow[c].mark.received > 1
    BY <2>1, <2>2, <2>3, RowsTyped, TwoRows DEF RowsInv, MainMarked, Later
  <2>5. arow[c].mark.at <= chosen.at /\ arow[c].mark.at > 0
    BY <1>2, <2>1, <2>4, TwoRows DEF RowsInv, MainMarked
  <2>6. arow[c].mark.at \in Nat
    BY RowsTyped
  <2> QED BY <1>1, <1>4, <2>1, <2>5, <2>6, TwoRows DEF _marked_at, NoMark
<1>7. Exists(main) => ~_hidden_since_received(main)
  <2>1. Exists(Server) => main = Server
    BY DEF RowOfUpload
  <2> QED BY <2>1, RowsTyped, TwoRows DEF _hidden_since_received, Later
<1>8. Keyed = IF chosen = NoMark THEN {} ELSE {main}
  <2>1. CASE Live(main)
    <3>1. _keys_for_marks_on_deleted_rows = {}
      BY <2>1, SeenIsMain DEF _keys_for_marks_on_deleted_rows
    <3>2. Keyed = {c \in RowIds : c = main /\ arow[c].mark # NoMark}
      BY <2>1, <3>1, SeenIsMain DEF Keyed
    <3> QED BY <1>4, <2>1, <3>2, SeenIsMain DEF Live
  <2>2. CASE ~Live(main)
    <3>1. \A c \in RowIds : ~Live(c)
      BY <2>2, SeenIsMain
    <3>2. Keyed = {c \in orphans : \A d \in orphans : _marked_at(d) <= _marked_at(c)}
      BY <3>1 DEF Keyed, _keys_for_marks_on_deleted_rows
    <3>3. chosen # NoMark => main \in orphans
      BY <1>4, <1>5, <1>7, <3>1, SeenIsMain
    <3>4. main \in orphans => chosen # NoMark
      BY <1>4
    <3>5. \A c \in orphans : _marked_at(c) \in Int
      BY RowsTyped DEF _marked_at
    <3> HIDE DEF orphans, main
    <3>6. CASE chosen = NoMark
      <4>1. orphans = {}
        BY <1>6, <3>1, <3>4, <3>6
      <4> QED BY <3>2, <3>6, <4>1
    <3>7. CASE chosen # NoMark
      <4>1. \A c \in orphans : c = main \/ _marked_at(c) < _marked_at(main)
        BY <1>6, <3>1
      <4>2. \A c \in orphans : _marked_at(c) <= _marked_at(main)
        BY <3>3, <3>5, <3>7, <4>1
      <4>3. \A c \in orphans : c # main => ~(_marked_at(main) <= _marked_at(c))
        BY <3>3, <3>5, <3>7, <4>1
      <4> QED BY <3>2, <3>3, <3>7, <4>2, <4>3
    <3> QED BY <3>6, <3>7
  <2> QED BY <2>1, <2>2
<1> QED BY <1>4, <1>5, <1>8 DEF ShownMarkIsLastChoice

(*************************************************************************)
(* What a step keeps.                                                    *)
(*************************************************************************)
Multiplies == ~((\A c \in RowIds : Exists(c)') => \A c \in RowIds : Exists(c))

SubmissionLost ==
  LET seen == _get_assignment_by_moodle_id
  IN ~(Exists(seen) /\ arow[seen].submitted => arow'[_get_assignment_by_moodle_id'].submitted)

DateMovedBack ==
  LET seen == _get_assignment_by_moodle_id
  IN ~(/\ Exists(seen) /\ arow[seen].extension_due_at # NoDate
       /\ arow'[_get_assignment_by_moodle_id'].due_at < arow[seen].due_at
       => \E r \in Fetches : fetch[r].at = "answered" /\ fetch'[r] = Idle)

Keeps == RowsInv' /\ ~Multiplies /\ ~SubmissionLost /\ ~DateMovedBack

LEMMA StampedIs ==
  ASSUME NEW mark \in MarkRows, NEW status \in Statuses, NEW ts \in Nat \ {0}, NEW now \in Nat,
         NEW received \in Int, MarkSkew \in Nat
  PROVE  LET at == IF ts > now + MarkSkew THEN now + MarkSkew ELSE ts
             s == Stamped(mark, status, ts, now, received)
         IN /\ at \in Nat /\ s \in MarkRows
            /\ at > mark.at => s.status = status /\ s.at = at /\ s.received = received
            /\ ~(at > mark.at) => s = mark
            /\ s.at >= mark.at
            /\ (mark.at = 0 => mark = NoMark) => (s.at = 0 => s = NoMark)
BY DEF Stamped, MarkRows

\* A mark and the one chosen last, of one stamp, stay of one stamp.
LEMMA StampedAlike ==
  ASSUME NEW mark \in MarkRows, NEW status \in Statuses, NEW ts \in Nat \ {0}, NEW now \in Nat,
         NEW received \in Int, RowsInv, Chosen(status, ts, now), MarkSkew \in Nat
  PROVE  LET s == Stamped(mark, status, ts, now, received)
         IN /\ chosen' \in MarkRows /\ chosen'.at >= chosen.at /\ (chosen'.at = 0 => chosen' = NoMark)
            /\ s \in MarkRows
            /\ mark.status = chosen.status /\ mark.at = chosen.at
                 => s.status = chosen'.status /\ s.at = chosen'.at
            /\ (mark.at = 0 => mark = NoMark) => (s.at = 0 => s = NoMark)
            /\ s = mark \/ (s.received = received /\ s.at <= chosen'.at /\ s.status = status)
<1>1. chosen \in MarkRows /\ (chosen.at = 0 => chosen = NoMark)
  BY DEF RowsInv, AssignmentType, MainMarked
<1>2. chosen' = Stamped(chosen, status, ts, now, NoTime)
  BY DEF Chosen
<1>3. mark.at \in Nat /\ chosen.at \in Nat /\ NoTime \in Int
  BY <1>1, TwoRows DEF MarkRows
<1> DEFINE at == IF ts > now + MarkSkew THEN now + MarkSkew ELSE ts
           s == Stamped(mark, status, ts, now, received)
<1>4. /\ at \in Nat /\ s \in MarkRows
      /\ at > mark.at => s.status = status /\ s.at = at /\ s.received = received
      /\ ~(at > mark.at) => s = mark
      /\ (mark.at = 0 => mark = NoMark) => (s.at = 0 => s = NoMark)
  BY StampedIs
<1>5. /\ chosen' \in MarkRows
      /\ at > chosen.at => chosen'.status = status /\ chosen'.at = at
      /\ ~(at > chosen.at) => chosen' = chosen
      /\ chosen'.at >= chosen.at /\ (chosen'.at = 0 => chosen' = NoMark)
  <2> DEFINE c == Stamped(chosen, status, ts, now, NoTime)
  <2>1. /\ c \in MarkRows
        /\ at > chosen.at => c.status = status /\ c.at = at
        /\ ~(at > chosen.at) => c = chosen
        /\ c.at >= chosen.at /\ (c.at = 0 => c = NoMark)
    BY <1>1, <1>3, StampedIs
  <2> HIDE DEF c, at
  <2> QED BY <1>2, <2>1 DEF c
<1> HIDE DEF at, s
<1>6. mark.status = chosen.status /\ mark.at = chosen.at
        => s.status = chosen'.status /\ s.at = chosen'.at
  BY <1>3, <1>4, <1>5
<1>7. s = mark \/ (s.received = received /\ s.at <= chosen'.at /\ s.status = status)
  BY <1>3, <1>4, <1>5
<1> QED BY <1>4, <1>5, <1>6, <1>7 DEF s

\* A row beside the one that stands for the assignment: as it was, or with a
\* mark of a stamp that counts.
Beside(c) ==
  \/ arow'[c] = arow[c]
  \/ /\ Exists(c) /\ arow'[c] \in StoredRows
     /\ arow'[c].deleted_at = arow[c].deleted_at
     /\ arow'[c].extension_due_at = arow[c].extension_due_at
     /\ arow'[c].mark.at = 0 => arow'[c].mark = NoMark
     /\ arow'[c].mark.at <= chosen'.at

\* The row that stands for the assignment changes, or is made.
LEMMA MainChanges ==
  ASSUME RowsInv, NEW main \in RowIds, main = RowOfUpload, NEW entry \in StoredRows,
         arow' \in [RowIds -> StoredRows \union {NoAssignment}],
         arow'[main] = entry, \A c \in RowIds \ {main} : Beside(c),
         moodle' = moodle, fetch' \in [Fetches -> FetchRows],
         \A r \in Fetches : fetch'[r].at \in {"asking", "answered"}
                              => fetch[r].at \in {"asking", "answered"} \/ main = Server,
         time' \in Int /\ time' >= time,
         chosen' \in MarkRows, chosen'.at >= chosen.at, chosen'.at = 0 => chosen' = NoMark,
         entry.mark.status = chosen'.status /\ entry.mark.at = chosen'.at,
         entry.mark.at = 0 => entry.mark = NoMark,
         Exists(main) /\ arow[main].submitted => entry.submitted,
         main = Placeholder => entry.extension_due_at = NoDate,
         main = Server =>
           /\ \/ entry.deleted_at \in {NoTime, arow[Server].deleted_at}
              \/ entry.deleted_at > Oldest
           /\ entry.extension_due_at # NoDate => entry.due_at = entry.extension_due_at
           /\ \/ arow[Server].extension_due_at # NoDate => entry.due_at >= arow[Server].due_at
              \/ \E r \in Fetches : fetch[r].at = "answered" /\ fetch'[r] = Idle
  PROVE  Keeps
<1>1. /\ main \in {Placeholder, Server} /\ Placeholder # Server
      /\ main = Server <=> Exists(Server)
  BY TwoRows DEF RowOfUpload
<1>2. Exists(main)' /\ \A c \in RowIds \ {main} : Exists(c)' <=> Exists(c)
  BY TwoRows DEF Exists, Beside
<1>3. RowOfUpload' = main
  BY <1>1, <1>2, TwoRows DEF RowOfUpload
<1>4. AssignmentType'
  <2>1. time' >= MarkStart
    BY AssignmentConstants DEF RowsInv, AssignmentType
  <2> QED BY <2>1 DEF RowsInv, AssignmentType
<1>5. MainMarked'
  <2>1. \A c \in RowIds : Exists(c)' /\ arow'[c].mark.at = 0 => arow'[c].mark = NoMark
    BY <1>2 DEF RowsInv, MainMarked, Beside
  <2>2. arow'[RowOfUpload'].mark.status = chosen'.status /\ arow'[RowOfUpload'].mark.at = chosen'.at
    BY <1>3
  <2>3. ASSUME Exists(Placeholder)' /\ Exists(Server)'
        PROVE  /\ arow'[Placeholder].deleted_at = Oldest
               /\ arow'[Server].deleted_at = NoTime \/ arow'[Server].deleted_at > Oldest
               /\ arow'[Placeholder].mark.received > Oldest => arow'[Placeholder].mark.at <= chosen'.at
    <3>1. main = Server /\ Exists(Server) /\ Exists(Placeholder)
      BY <1>1, <1>2, <2>3, TwoRows
    <3>2. Beside(Placeholder)
      BY <3>1, TwoRows
    <3>3. chosen.at \in Nat /\ chosen'.at \in Nat /\ arow[Placeholder].mark.at \in Nat
      BY <3>1, RowsTyped, TwoRows DEF RowsInv, AssignmentType, MarkRows
    <3>4. arow'[Placeholder].deleted_at = arow[Placeholder].deleted_at
      BY <3>2 DEF Beside
    <3> QED BY <3>1, <3>2, <3>3, <3>4 DEF RowsInv, MainMarked, Beside
  <2> QED BY <1>2, <1>3, <2>1, <2>2, <2>3 DEF MainMarked
<1>6. ExtensionsServed'
  <2>1. CASE main = Server
    <3>1. Exists(Server) /\ Exists(Server)' /\ (Exists(Placeholder)' <=> Exists(Placeholder))
      BY <1>1, <1>2, <2>1, TwoRows
    <3>2. Exists(Placeholder) => arow'[Placeholder].extension_due_at = NoDate
      BY <2>1, TwoRows DEF RowsInv, ExtensionsServed, Beside
    <3> QED BY <2>1, <3>1, <3>2 DEF ExtensionsServed
  <2>2. CASE main = Placeholder
    <3>1. ~Exists(Server) /\ ~Exists(Server)'
      BY <1>1, <1>2, <2>2, TwoRows
    <3> QED BY <1>1, <2>2, <3>1 DEF RowsInv, ExtensionsServed
  <2> QED BY <1>1, <2>1, <2>2
<1>7. RowsInv'
  BY <1>4, <1>5, <1>6 DEF RowsInv
<1>8. ~Multiplies
  BY <1>1, <1>2, TwoRows DEF Multiplies
<1>9. _get_assignment_by_moodle_id = main /\ _get_assignment_by_moodle_id' = main
  <2>1. ~(Exists(Server)' /\ arow'[Placeholder].deleted_at = NoTime /\ Exists(Placeholder)')
    BY <1>5, TwoRows DEF MainMarked
  <2>2. _get_assignment_by_moodle_id' = RowOfUpload'
    BY <2>1 DEF _get_assignment_by_moodle_id, RowOfUpload, Live
  <2> QED BY <1>3, <2>2, SeenIsMain
<1>10. ~SubmissionLost
  <2>1. entry.submitted \in BOOLEAN /\ (Exists(main) => arow[main].submitted \in BOOLEAN)
    BY RowsTyped DEF StoredRows
  <2> QED BY <1>9, <2>1 DEF SubmissionLost
<1>11. ~DateMovedBack
  <2>1. entry.due_at \in Nat /\ (Exists(Server) => arow[Server].due_at \in Nat)
    BY RowsTyped, TwoRows DEF StoredRows
  <2>2. main = Placeholder /\ Exists(Placeholder) => arow[Placeholder].extension_due_at = NoDate
    BY DEF RowsInv, ExtensionsServed
  <2> QED BY <1>1, <1>9, <2>1, <2>2 DEF DateMovedBack
<1> QED BY <1>7, <1>8, <1>10, <1>11 DEF Keeps

\* Nothing changes but the school, the clock and what runs hold.
LEMMA RowsStay ==
  ASSUME RowsInv, UNCHANGED <<arow, chosen>>, time' \in Int /\ time' >= time,
         moodle' \in [due : Nat, extension : Nat, submitted : BOOLEAN],
         fetch' \in [Fetches -> FetchRows],
         \A r \in Fetches : fetch'[r].at \in {"asking", "answered"} => fetch[r].at \in {"asking", "answered"}
  PROVE  Keeps
<1>1. \A c \in RowIds : Exists(c)' <=> Exists(c)
  BY DEF Exists
<1>2. Exists(Placeholder)' <=> Exists(Placeholder)
  BY DEF Exists
<1>3. Exists(Server)' <=> Exists(Server)
  BY DEF Exists
<1>4. RowOfUpload' = RowOfUpload
  BY <1>3 DEF RowOfUpload
<1>5. AssignmentType'
  BY AssignmentConstants DEF RowsInv, AssignmentType
<1>6. MainMarked'
  BY <1>1, <1>2, <1>3, <1>4, SeenIsMain DEF RowsInv, MainMarked
<1>7. ExtensionsServed'
  BY <1>2, <1>3 DEF RowsInv, ExtensionsServed
<1>8. RowsInv'
  BY <1>5, <1>6, <1>7 DEF RowsInv
<1>9. _get_assignment_by_moodle_id' = _get_assignment_by_moodle_id
  BY <1>2, <1>3, <1>4 DEF _get_assignment_by_moodle_id, Live
<1>10. Exists(_get_assignment_by_moodle_id) =>
         arow[_get_assignment_by_moodle_id].due_at \in Nat
  BY RowsTyped, SeenIsMain
<1> QED BY <1>1, <1>8, <1>9, <1>10 DEF Keeps, Multiplies, SubmissionLost, DateMovedBack

LEMMA NewRow ==
  ASSUME NEW due \in Nat, NEW submitted \in BOOLEAN
  PROVE  LET entry == AssignmentRow(due, submitted)
         IN /\ entry \in StoredRows /\ entry.mark = NoMark /\ entry.due_at = due
            /\ entry.extension_due_at = NoDate /\ entry.deleted_at = NoTime /\ entry.submitted = submitted
<1>1. NoMark \in MarkRows
  BY DEF NoMark, MarkRows, Statuses, NoTime
<1> QED BY <1>1, TwoRows DEF AssignmentRow, StoredRows

\* The listing meets no server row: it takes a placeholder over, or makes one.
LEMMA TakesOver ==
  ASSUME RowsInv, ~Exists(Server), NEW entry \in StoredRows,
         arow' \in [RowIds -> StoredRows \union {NoAssignment}],
         arow'[Server] = entry, arow'[Placeholder] = NoAssignment,
         fetch' \in [Fetches -> FetchRows], UNCHANGED <<moodle, time, chosen>>,
         entry.mark = IF Exists(Placeholder) THEN arow[Placeholder].mark ELSE NoMark,
         Exists(Placeholder) /\ arow[Placeholder].submitted => entry.submitted,
         entry.extension_due_at # NoDate => entry.due_at = entry.extension_due_at
  PROVE  Keeps
<1>1. /\ RowOfUpload = Placeholder /\ RowOfUpload' = Server /\ Placeholder # Server
      /\ Exists(Server)' /\ ~Exists(Placeholder)'
  BY TwoRows DEF RowOfUpload, Exists
<1>2. AssignmentType'
  BY DEF RowsInv, AssignmentType
<1>3. MainMarked'
  <2>1. chosen \in MarkRows /\ (chosen.at = 0 => chosen = NoMark) /\ NoMark.at = 0
    BY DEF RowsInv, AssignmentType, MainMarked, NoMark, NoTime
  <2>2. entry.mark.status = chosen.status /\ entry.mark.at = chosen.at /\ (entry.mark.at = 0 => entry.mark = NoMark)
    BY <1>1, TwoRows DEF RowsInv, MainMarked
  <2> QED BY <1>1, <2>1, <2>2, TwoRows DEF MainMarked
<1>4. ExtensionsServed'
  BY <1>1 DEF ExtensionsServed
<1>5. RowsInv'
  BY <1>2, <1>3, <1>4 DEF RowsInv
<1>6. _get_assignment_by_moodle_id = Placeholder /\ _get_assignment_by_moodle_id' = Server
  <2>1. _get_assignment_by_moodle_id' = RowOfUpload'
    BY <1>1 DEF _get_assignment_by_moodle_id, RowOfUpload, Live
  <2> QED BY <1>1, <2>1, SeenIsMain
<1>7. ~Multiplies /\ ~DateMovedBack
  BY <1>1, <1>6, TwoRows DEF Multiplies, DateMovedBack, RowsInv, ExtensionsServed
<1>8. ~SubmissionLost
  <2>1. entry.submitted \in BOOLEAN /\ (Exists(Placeholder) => arow[Placeholder].submitted \in BOOLEAN)
    BY RowsTyped, TwoRows DEF StoredRows
  <2> QED BY <1>6, <2>1 DEF SubmissionLost
<1> QED BY <1>5, <1>7, <1>8 DEF Keeps

-----------------------------------------------------------------------------
\* Its mark stays, or it has none yet.
LEMMA MainServed ==
  ASSUME RowsInv, NEW main \in RowIds, main = RowOfUpload, NEW entry \in StoredRows,
         arow' = [arow EXCEPT ![main] = entry], UNCHANGED <<moodle, time, chosen>>,
         fetch' \in [Fetches -> FetchRows],
         \A r \in Fetches : fetch'[r].at \in {"asking", "answered"}
                              => fetch[r].at \in {"asking", "answered"} \/ main = Server,
         entry.mark = IF Exists(main) THEN arow[main].mark ELSE NoMark,
         Exists(main) /\ arow[main].submitted => entry.submitted,
         main = Placeholder => entry.extension_due_at = NoDate,
         main = Server =>
           /\ \/ entry.deleted_at \in {NoTime, arow[Server].deleted_at}
              \/ entry.deleted_at > Oldest
           /\ entry.extension_due_at # NoDate => entry.due_at = entry.extension_due_at
           /\ \/ arow[Server].extension_due_at # NoDate => entry.due_at >= arow[Server].due_at
              \/ \E r \in Fetches : fetch[r].at = "answered" /\ fetch'[r] = Idle
  PROVE  Keeps
<1>1. /\ arow' \in [RowIds -> StoredRows \union {NoAssignment}] /\ arow'[main] = entry
      /\ \A c \in RowIds \ {main} : Beside(c)
  BY DEF RowsInv, AssignmentType, Beside
<1>2. /\ chosen' \in MarkRows /\ chosen'.at >= chosen.at /\ (chosen'.at = 0 => chosen' = NoMark)
      /\ time' \in Int /\ time' >= time
  BY DEF RowsInv, AssignmentType, MainMarked, MarkRows
<1>3. /\ entry.mark.status = chosen'.status /\ entry.mark.at = chosen'.at
      /\ entry.mark.at = 0 => entry.mark = NoMark
  BY DEF RowsInv, MainMarked
<1> QED BY <1>1, <1>2, <1>3, MainChanges

LEMMA UploadKeeps ==
  ASSUME RowsInv, upload_assignments
  PROVE  Keeps
<1>1. PICK due \in Dates, is_submitted \in BOOLEAN :
        LET entry == IF Exists(RowOfUpload) THEN arow[RowOfUpload] ELSE AssignmentRow(due, FALSE)
        IN /\ arow' = [arow EXCEPT ![RowOfUpload] =
                        [entry EXCEPT !.due_at = IF RowOfUpload = Placeholder THEN due ELSE @,
                                    !.submitted = @ \/ is_submitted]]
           /\ UNCHANGED <<moodle, changes, fetch, holder, time, chosen>>
  BY DEF upload_assignments
<1>2. PICK main \in RowIds : main = RowOfUpload
  BY SeenIsMain
<1>3. due \in Nat
  BY AssignmentConstants
<1> DEFINE old == IF Exists(main) THEN arow[main] ELSE AssignmentRow(due, FALSE)
           entry == [old EXCEPT !.due_at = IF main = Placeholder THEN due ELSE @,
                              !.submitted = @ \/ is_submitted]
<1>4. /\ old \in StoredRows
      /\ main = Placeholder => old.extension_due_at = NoDate
      /\ main = Server => old = arow[Server] /\ Exists(Server)
      /\ Exists(main) => old = arow[main]
  BY <1>2, <1>3, NewRow, RowsTyped, TwoRows DEF RowsInv, ExtensionsServed, RowOfUpload
<1>5. arow' = [arow EXCEPT ![main] = entry]
  BY <1>1, <1>2
<1>6. old.mark = IF Exists(main) THEN arow[main].mark ELSE NoMark
  BY <1>3, NewRow
<1> HIDE DEF old
<1>7. /\ entry \in StoredRows /\ entry.mark = old.mark /\ entry.deleted_at = old.deleted_at
      /\ entry.extension_due_at = old.extension_due_at /\ (old.submitted => entry.submitted)
      /\ entry.due_at = IF main = Placeholder THEN due ELSE old.due_at
  <2> DEFINE date == IF main = Placeholder THEN due ELSE old.due_at
             reported == old.submitted \/ is_submitted
  <2>1. /\ old.submitted \in BOOLEAN /\ reported \in BOOLEAN /\ (old.submitted => reported)
        /\ date \in Nat
    BY <1>3, <1>4 DEF StoredRows
  <2>2. entry = [old EXCEPT !.due_at = date, !.submitted = reported]
    OBVIOUS
  <2> HIDE DEF date, reported, entry
  <2>3. /\ entry \in StoredRows /\ entry.mark = old.mark /\ entry.deleted_at = old.deleted_at
        /\ entry.due_at = date /\ entry.extension_due_at = old.extension_due_at
        /\ entry.submitted = reported
    <3>1. old \in StoredRows
      BY <1>4
    <3> QED BY <2>1, <2>2, <3>1 DEF StoredRows
  <2> QED BY <2>1, <2>3 DEF date
<1> HIDE DEF entry
<1>8. main = Server =>
         /\ entry.deleted_at = arow[Server].deleted_at
         /\ entry.extension_due_at # NoDate => entry.due_at = entry.extension_due_at
         /\ entry.due_at >= arow[Server].due_at
  BY <1>4, <1>7, RowsTyped, TwoRows DEF RowsInv, ExtensionsServed
<1>9. Exists(main) /\ arow[main].submitted => entry.submitted
  BY <1>4, <1>7
<1>10. /\ UNCHANGED <<moodle, time, chosen>> /\ fetch' \in [Fetches -> FetchRows]
       /\ \A r \in Fetches : fetch'[r].at \in {"asking", "answered"}
                              => fetch[r].at \in {"asking", "answered"}
  BY <1>1 DEF RowsInv, AssignmentType
<1>11. /\ entry \in StoredRows
       /\ entry.mark = (IF Exists(main) THEN arow[main].mark ELSE NoMark)
       /\ main = Placeholder => entry.extension_due_at = NoDate
  BY <1>4, <1>6, <1>7
<1> QED BY <1>2, <1>5, <1>8, <1>9, <1>10, <1>11, MainServed

\* A mark is stamped on the row that stands for the assignment, and a clear on
\* the one beside it.
LEMMA MarkKeeps ==
  ASSUME RowsInv, NEW main \in RowIds, main = RowOfUpload, NEW entry \in StoredRows,
         NEW status \in Statuses, NEW ts \in Nat \ {0}, NEW now \in Nat, NEW received \in Int,
         Chosen(status, ts, now), time' = time + 1, UNCHANGED <<moodle, fetch>>,
         entry.mark.status = chosen'.status /\ entry.mark.at = chosen'.at,
         entry.mark.at = 0 => entry.mark = NoMark,
         arow' \in [RowIds -> StoredRows \union {NoAssignment}],
         arow'[main] = entry, \A c \in RowIds \ {main} : Beside(c),
         IF Exists(main)
         THEN /\ entry.deleted_at = arow[main].deleted_at /\ entry.due_at = arow[main].due_at
              /\ entry.extension_due_at = arow[main].extension_due_at
              /\ arow[main].submitted => entry.submitted
         ELSE entry.extension_due_at = NoDate
  PROVE  Keeps
<1>1. /\ chosen' \in MarkRows /\ chosen'.at >= chosen.at /\ (chosen'.at = 0 => chosen' = NoMark)
  BY StampedAlike, AssignmentConstants DEF RowsInv, AssignmentType
<1>2. time' \in Int /\ time' >= time /\ fetch' \in [Fetches -> FetchRows]
  BY DEF RowsInv, AssignmentType
<1>3. main = Placeholder => entry.extension_due_at = NoDate
  BY DEF RowsInv, ExtensionsServed
<1>4. main = Server =>
        /\ entry.deleted_at = arow[Server].deleted_at
        /\ entry.extension_due_at # NoDate => entry.due_at = entry.extension_due_at
        /\ entry.due_at >= arow[Server].due_at
  <2>1. main = Server => Exists(Server)
    BY TwoRows DEF RowOfUpload
  <2> QED BY <2>1, RowsTyped, TwoRows DEF RowsInv, ExtensionsServed
<1> QED BY <1>1, <1>2, <1>3, <1>4, MainChanges

LEMMA Stamps ==
  ASSUME RowsInv
  PROVE  /\ \A now \in Arrived : now \in Nat /\ now > Oldest
         /\ time \in Nat /\ time > Oldest
         /\ \A ts \in {Oldest} \union ((Oldest + 1) .. (time + MarkSkew)) : ts \in Nat \ {0}
BY AssignmentConstants, TwoRows DEF RowsInv, AssignmentType, Arrived

\* Marking one row with a mark of its own stamp.
LEMMA MarkedRow ==
  ASSUME NEW entry \in StoredRows, NEW mark \in MarkRows
  PROVE  LET marked == [entry EXCEPT !.mark = mark]
         IN /\ marked \in StoredRows /\ marked.mark = mark
            /\ marked.deleted_at = entry.deleted_at /\ marked.due_at = entry.due_at
            /\ marked.extension_due_at = entry.extension_due_at /\ marked.submitted = entry.submitted
BY DEF StoredRows

LEMMA PutKeeps ==
  ASSUME RowsInv, put_assignment_override
  PROVE  Keeps
<1>1. PICK main \in RowIds, status \in Statuses, ts \in (Oldest + 1) .. (time + MarkSkew) :
        /\ Ticks /\ Live(main)
        /\ arow' = [arow EXCEPT ![main].mark = Stamped(@, status, ts, time, time)]
        /\ Chosen(status, ts, time) /\ UNCHANGED <<moodle, changes, fetch, holder>>
  BY DEF put_assignment_override
<1> DEFINE mark == Stamped(arow[main].mark, status, ts, time, time)
           entry == [arow[main] EXCEPT !.mark = mark]
<1>2. main = RowOfUpload /\ Exists(main)
  BY <1>1, SeenIsMain DEF Live
<1>3. arow[main] \in StoredRows /\ arow[main].mark \in MarkRows
  BY <1>2, RowsTyped
<1>4. ts \in Nat \ {0} /\ time \in Nat /\ time' = time + 1
  BY <1>1, Stamps DEF Ticks
<1>5. /\ arow[main].mark.status = chosen.status /\ arow[main].mark.at = chosen.at
      /\ arow[main].mark.at = 0 => arow[main].mark = NoMark
  BY <1>2 DEF RowsInv, MainMarked
<1>6. /\ mark \in MarkRows /\ mark.status = chosen'.status /\ mark.at = chosen'.at
      /\ mark.at = 0 => mark = NoMark
  BY <1>1, <1>3, <1>4, <1>5, StampedAlike, AssignmentConstants
<1>7. arow' = [arow EXCEPT ![main] = entry]
  BY <1>1
<1> HIDE DEF mark
<1>8. /\ entry \in StoredRows /\ entry.mark = mark /\ entry.deleted_at = arow[main].deleted_at
      /\ entry.due_at = arow[main].due_at /\ entry.extension_due_at = arow[main].extension_due_at
      /\ entry.submitted = arow[main].submitted
  BY <1>3, <1>6, MarkedRow
<1> HIDE DEF entry
<1>9. /\ arow' \in [RowIds -> StoredRows \union {NoAssignment}] /\ arow'[main] = entry
      /\ \A c \in RowIds \ {main} : Beside(c)
  BY <1>7, <1>8 DEF RowsInv, AssignmentType, Beside
<1> QED BY <1>1, <1>2, <1>4, <1>6, <1>8, <1>9, MarkKeeps

LEMMA ImportedKeeps ==
  ASSUME RowsInv, import_assignments
  PROVE  Keeps
<1>1. PICK due \in Dates, is_submitted \in BOOLEAN, status \in Statuses, now \in Arrived,
           ts \in {Oldest} \union ((Oldest + 1) .. (time + MarkSkew)) :
        LET target == _get_assignment_by_moodle_id
            entry == IF Exists(target)
                   THEN [arow[target] EXCEPT !.submitted = @ \/ is_submitted]
                   ELSE AssignmentRow(due, is_submitted)
        IN /\ Ticks
           /\ is_submitted => moodle.submitted
           /\ arow' = [arow EXCEPT ![target] =
                        [entry EXCEPT !.mark = Stamped(@, status, ts, now, time)]]
           /\ Chosen(status, ts, now)
           /\ UNCHANGED <<moodle, changes, fetch, holder>>
  BY DEF import_assignments
<1>2. PICK main \in RowIds : main = RowOfUpload /\ main = _get_assignment_by_moodle_id
  BY SeenIsMain
<1> DEFINE old == IF Exists(main) THEN [arow[main] EXCEPT !.submitted = @ \/ is_submitted]
                  ELSE AssignmentRow(due, is_submitted)
           mark == Stamped(old.mark, status, ts, now, time)
           entry == [old EXCEPT !.mark = mark]
<1>3. due \in Nat /\ ts \in Nat \ {0} /\ now \in Nat /\ time \in Nat
  BY AssignmentConstants, Stamps
<1>4. Ticks /\ Chosen(status, ts, now) /\ UNCHANGED <<moodle, fetch>> /\ time' = time + 1
  BY <1>1 DEF Ticks
<1>5. arow' = [arow EXCEPT ![main] = entry]
  BY <1>1, <1>2
<1>6. /\ old \in StoredRows
      /\ IF Exists(main)
         THEN /\ old.deleted_at = arow[main].deleted_at /\ old.due_at = arow[main].due_at
              /\ old.extension_due_at = arow[main].extension_due_at
              /\ (arow[main].submitted => old.submitted) /\ old.mark = arow[main].mark
         ELSE old.extension_due_at = NoDate /\ old.mark = NoMark
  <2>1. CASE Exists(main)
    <3>1. /\ arow[main] \in StoredRows /\ arow[main].submitted \in BOOLEAN
          /\ (arow[main].submitted \/ is_submitted) \in BOOLEAN
      BY <2>1, RowsTyped
    <3>2. old = [arow[main] EXCEPT !.submitted = arow[main].submitted \/ is_submitted]
      BY <2>1
    <3> HIDE DEF old
    <3>3. /\ old \in StoredRows /\ old.submitted = (arow[main].submitted \/ is_submitted)
          /\ old.deleted_at = arow[main].deleted_at /\ old.due_at = arow[main].due_at
          /\ old.extension_due_at = arow[main].extension_due_at /\ old.mark = arow[main].mark
      BY <3>1, <3>2 DEF StoredRows
    <3> QED BY <2>1, <3>1, <3>3
  <2>2. CASE ~Exists(main)
    BY <1>3, <2>2, NewRow
  <2> QED BY <2>1, <2>2
<1> HIDE DEF old
<1>7. /\ old.mark.status = chosen.status /\ old.mark.at = chosen.at
      /\ old.mark.at = 0 => old.mark = NoMark
  BY <1>2, <1>6 DEF RowsInv, MainMarked
<1>8. old.mark \in MarkRows
  BY <1>6 DEF StoredRows
<1>9. /\ mark \in MarkRows /\ mark.status = chosen'.status /\ mark.at = chosen'.at
      /\ mark.at = 0 => mark = NoMark
  BY <1>3, <1>4, <1>7, <1>8, StampedAlike, AssignmentConstants
<1> HIDE DEF mark
<1>10. /\ entry \in StoredRows /\ entry.mark = mark /\ entry.deleted_at = old.deleted_at
       /\ entry.due_at = old.due_at /\ entry.extension_due_at = old.extension_due_at
       /\ entry.submitted = old.submitted
  BY <1>6, <1>9, MarkedRow
<1> HIDE DEF entry
<1>11. /\ arow' \in [RowIds -> StoredRows \union {NoAssignment}] /\ arow'[main] = entry
       /\ \A c \in RowIds \ {main} : Beside(c)
  BY <1>5, <1>10 DEF RowsInv, AssignmentType, Beside
<1> QED BY <1>2, <1>3, <1>4, <1>6, <1>9, <1>10, <1>11, MarkKeeps

LEMMA PatchKeeps ==
  ASSUME RowsInv, patch_assignment_override
  PROVE  Keeps
<1>1. PICK status \in Statuses, now \in Arrived, ts \in (Oldest + 1) .. (time + MarkSkew) :
        LET target == _get_assignment_by_moodle_id
            rows == IF status = "none" THEN {c \in RowIds : Exists(c)} ELSE {target}
        IN /\ Ticks /\ Exists(target)
           /\ arow' = [c \in RowIds |->
                IF c \in rows
                THEN [arow[c] EXCEPT !.mark = Stamped(@, status, ts, now, now)]
                ELSE arow[c]]
           /\ Chosen(status, ts, now) /\ UNCHANGED <<moodle, changes, fetch, holder>>
  BY DEF patch_assignment_override
<1>2. PICK main \in RowIds : main = RowOfUpload /\ main = _get_assignment_by_moodle_id
  BY SeenIsMain
<1> DEFINE mark(c) == Stamped(arow[c].mark, status, ts, now, now)
           marked(c) == [arow[c] EXCEPT !.mark = mark(c)]
<1>3. ts \in Nat \ {0} /\ now \in Nat
  BY Stamps
<1>4. /\ Exists(main) /\ Chosen(status, ts, now) /\ UNCHANGED <<moodle, fetch>> /\ time' = time + 1
  BY <1>1, <1>2 DEF Ticks
<1>5. /\ arow'[main] = marked(main)
      /\ \A c \in RowIds : arow'[c] = arow[c] \/ (Exists(c) /\ arow'[c] = marked(c))
      /\ \E f : arow' = [c \in RowIds |-> f[c]]
  <2>1. \E f : arow' = [c \in RowIds |-> f[c]]
    BY <1>1
  <2> QED BY <1>1, <1>2, <1>4, <2>1
<1>6. ASSUME NEW c \in RowIds, Exists(c)
      PROVE  /\ mark(c) \in MarkRows /\ marked(c) \in StoredRows /\ marked(c).mark = mark(c)
             /\ marked(c).deleted_at = arow[c].deleted_at /\ marked(c).due_at = arow[c].due_at
             /\ marked(c).extension_due_at = arow[c].extension_due_at
             /\ marked(c).submitted = arow[c].submitted
             /\ mark(c).at = 0 => mark(c) = NoMark
             /\ mark(c) = arow[c].mark \/ mark(c).at <= chosen'.at
             /\ arow[c].mark.status = chosen.status /\ arow[c].mark.at = chosen.at
                  => mark(c).status = chosen'.status /\ mark(c).at = chosen'.at
  <2>1. arow[c] \in StoredRows /\ arow[c].mark \in MarkRows /\ (arow[c].mark.at = 0 => arow[c].mark = NoMark)
    BY <1>6, RowsTyped DEF RowsInv, MainMarked
  <2>2. /\ mark(c) \in MarkRows
        /\ mark(c).at = 0 => mark(c) = NoMark
        /\ mark(c) = arow[c].mark \/ mark(c).at <= chosen'.at
        /\ arow[c].mark.status = chosen.status /\ arow[c].mark.at = chosen.at
             => mark(c).status = chosen'.status /\ mark(c).at = chosen'.at
    <3> DEFINE m == arow[c].mark
    <3>1. m \in MarkRows /\ mark(c) = Stamped(m, status, ts, now, now) /\ now \in Int
      BY <1>3, <2>1
    <3> HIDE DEF m
    <3> DEFINE s == Stamped(m, status, ts, now, now)
    <3>2. /\ s \in MarkRows
          /\ (m.at = 0 => m = NoMark) => (s.at = 0 => s = NoMark)
          /\ s = m \/ s.at <= chosen'.at
          /\ m.status = chosen.status /\ m.at = chosen.at
               => s.status = chosen'.status /\ s.at = chosen'.at
      BY <1>3, <1>4, <3>1, StampedAlike, AssignmentConstants
    <3> HIDE DEF s
    <3>3. mark(c) = s
      BY <3>1 DEF s
    <3> HIDE DEF mark
    <3> QED BY <2>1, <3>2, <3>3 DEF m
  <2> HIDE DEF mark
  <2> QED BY <2>1, <2>2, MarkedRow
<1> HIDE DEF mark, marked
<1>7. mark(main).status = chosen'.status /\ mark(main).at = chosen'.at
  BY <1>2, <1>4, <1>6 DEF RowsInv, MainMarked
<1>8. \A c \in RowIds : arow'[c] \in StoredRows \union {NoAssignment}
  BY <1>5, <1>6 DEF RowsInv, AssignmentType
<1>9. arow' \in [RowIds -> StoredRows \union {NoAssignment}]
  BY <1>5, <1>8
<1>10. ASSUME NEW c \in RowIds, c # main PROVE Beside(c)
  <2>1. CASE arow'[c] = arow[c]
    BY <2>1 DEF Beside
  <2>2. CASE Exists(c) /\ arow'[c] = marked(c) /\ mark(c) # arow[c].mark
    BY <1>6, <2>2 DEF Beside
  <2>3. CASE Exists(c) /\ arow'[c] = marked(c) /\ mark(c) = arow[c].mark
    <3>1. marked(c) = arow[c]
      BY <2>3, RowsTyped DEF marked, StoredRows
    <3> QED BY <2>3, <3>1 DEF Beside
  <2> QED BY <1>5, <2>1, <2>2, <2>3
<1> QED BY <1>2, <1>3, <1>4, <1>5, <1>6, <1>7, <1>9, <1>10, MarkKeeps

(*************************************************************************)
(* The school, and a run until it stores what it learned.                *)
(*************************************************************************)
LEMMA SchoolKeeps ==
  ASSUME RowsInv, MoodleChanges
  PROVE  Keeps
<1>1. moodle \in [due : Nat, extension : Nat, submitted : BOOLEAN]
  BY DEF RowsInv, AssignmentType
<1>2. moodle' \in [due : Nat, extension : Nat, submitted : BOOLEAN]
  <2>1. CASE \E d \in Dates : moodle' = [moodle EXCEPT !.due = d]
    BY <1>1, <2>1, AssignmentConstants
  <2>2. CASE \E e \in Dates \union {NoDate} : moodle' = [moodle EXCEPT !.extension = e]
    BY <1>1, <2>2, AssignmentConstants, TwoRows
  <2>3. CASE moodle' = [moodle EXCEPT !.submitted = TRUE]
    BY <1>1, <2>3
  <2> QED BY <2>1, <2>2, <2>3 DEF MoodleChanges
<1> QED BY <1>2, RowsStay DEF MoodleChanges, RowsInv, AssignmentType

\* A run's own entry changes, and no rows.
LEMMA FetchStays ==
  ASSUME RowsInv, NEW r \in Fetches, NEW held \in FetchRows,
         fetch' = [fetch EXCEPT ![r] = held],
         held.at \in {"asking", "answered"} => fetch[r].at \in {"asking", "answered"},
         UNCHANGED <<arow, moodle, time, chosen>>
  PROVE  Keeps
<1>1. /\ fetch' \in [Fetches -> FetchRows]
      /\ \A q \in Fetches : fetch'[q].at \in {"asking", "answered"}
                              => fetch[q].at \in {"asking", "answered"}
  BY DEF RowsInv, AssignmentType
<1> QED BY <1>1, RowsStay DEF RowsInv, AssignmentType

LEMMA ListKeeps ==
  ASSUME RowsInv, NEW r \in Fetches, List(r)
  PROVE  Keeps
<1>1. PICK answer \in Answers :
        fetch' = [fetch EXCEPT ![r] = [at |-> "listed", answer |-> answer, due |-> moodle.due]]
  BY DEF List
<1>2. [at |-> "listed", answer |-> answer, due |-> moodle.due] \in FetchRows
  BY DEF RowsInv, AssignmentType, FetchRows
<1> QED BY <1>1, <1>2, FetchStays DEF List

LEMMA LostKeeps ==
  ASSUME RowsInv, NEW r \in Fetches, Lost(r)
  PROVE  Keeps
<1>1. Idle \in FetchRows /\ Idle.at = "idle"
  BY DEF FetchRows, Idle
<1> QED BY <1>1, FetchStays DEF Lost

LEMMA HeldByRun ==
  ASSUME RowsInv, NEW r \in Fetches
  PROVE  /\ fetch[r].at = "listed" => fetch[r].answer \in Answers /\ fetch[r].due \in Nat
         /\ fetch[r].at = "asking" => fetch[r].due \in Nat
         /\ fetch[r].at = "answered" => /\ fetch[r].due \in Nat /\ fetch[r].extension \in Nat
                                        /\ fetch[r].submitted \in BOOLEAN
<1>1. fetch[r] \in FetchRows
  BY DEF RowsInv, AssignmentType
<1> QED BY <1>1 DEF FetchRows, Idle

LEMMA StatusKeeps ==
  ASSUME RowsInv, NEW r \in Fetches, fetch_submission_status(r)
  PROVE  Keeps
<1> DEFINE held == [at |-> "answered", due |-> fetch[r].due,
                    extension |-> moodle.extension, submitted |-> moodle.submitted]
<1>1. fetch[r].at = "asking" /\ UNCHANGED <<arow, moodle, time, chosen>>
  BY DEF fetch_submission_status
<1>2. held \in FetchRows
  BY <1>1, HeldByRun DEF RowsInv, AssignmentType, FetchRows
<1>3. Idle \in FetchRows
  BY DEF FetchRows
<1>4. CASE fetch' = [fetch EXCEPT ![r] = held]
  BY <1>1, <1>2, <1>4, FetchStays
<1>5. CASE fetch' = [fetch EXCEPT ![r] = Idle]
  BY <1>1, <1>3, <1>5, FetchStays
<1> QED BY <1>4, <1>5 DEF fetch_submission_status

(*************************************************************************)
(* A run stores its listing, then its answers.                           *)
(*************************************************************************)
LEMMA SoftDeletedIs ==
  ASSUME NEW entry \in StoredRows, NEW now \in Nat
  PROVE  LET gone == SoftDeleted(entry, now)
         IN /\ gone \in StoredRows /\ gone.mark = entry.mark /\ gone.submitted = entry.submitted
            /\ gone.due_at = entry.due_at /\ gone.extension_due_at = entry.extension_due_at
            /\ gone.deleted_at = IF entry.deleted_at = NoTime THEN now ELSE entry.deleted_at
            /\ entry.deleted_at # NoTime => gone = entry
<1>1. entry # NoAssignment /\ entry.deleted_at \in Int
  BY TwoRows DEF StoredRows
<1> QED BY <1>1 DEF SoftDeleted, StoredRows

LEMMA ExtendedDate ==
  ASSUME NEW due \in Nat, NEW extension \in Nat
  PROVE  LET kept == kept_extension(due, extension)
             date == with_extension(due, kept)
         IN /\ kept \in Nat /\ date \in Nat /\ date >= due /\ date >= extension
            /\ kept # NoDate => date = kept
BY TwoRows DEF kept_extension, with_extension, Later

\* A row with its extension and date set together, and one made live by it.
LEMMA DatedRow ==
  ASSUME NEW entry \in StoredRows, NEW extension \in Nat, NEW date \in Nat, NEW dated,
         \/ dated = [entry EXCEPT !.extension_due_at = extension, !.due_at = date]
         \/ dated = [entry EXCEPT !.extension_due_at = extension, !.due_at = date,
                               !.deleted_at = NoTime]
  PROVE  /\ dated \in StoredRows /\ dated.mark = entry.mark /\ dated.submitted = entry.submitted
         /\ dated.deleted_at \in {entry.deleted_at, NoTime}
         /\ dated.extension_due_at = extension /\ dated.due_at = date
<1>1. CASE dated = [entry EXCEPT !.extension_due_at = extension, !.due_at = date]
  BY <1>1 DEF StoredRows
<1>2. CASE dated = [entry EXCEPT !.extension_due_at = extension, !.due_at = date,
                               !.deleted_at = NoTime]
  <2>1. NoTime \in Int
    BY TwoRows
  <2> QED BY <1>2, <2>1 DEF StoredRows
<1> QED BY <1>1, <1>2

LEMMA ListedIs ==
  ASSUME RowsInv, NEW due \in Nat
  PROVE  LET entry == ListedRow(due)
         IN /\ entry \in StoredRows /\ entry.deleted_at = NoTime
            /\ entry.extension_due_at # NoDate => entry.due_at = entry.extension_due_at
            /\ IF \E c \in RowIds : Exists(c)
               THEN /\ entry.mark = arow[RowOfUpload].mark
                    /\ arow[RowOfUpload].submitted => entry.submitted
               ELSE entry.mark = NoMark
            /\ Exists(Server) /\ arow[Server].extension_due_at # NoDate
                 => entry.due_at >= arow[Server].due_at
<1> DEFINE entry == TakenOver(due)
           extension == kept_extension(due, entry.extension_due_at)
           date == with_extension(due, extension)
<1>1. /\ RowOfUpload \in {Server, Placeholder} /\ Server \in RowIds /\ Placeholder \in RowIds
      /\ \A c \in RowIds : c \in {Server, Placeholder}
  BY TwoRows, SeenIsMain
<1>2. CASE \E c \in RowIds : Exists(c)
  <2>1. Exists(RowOfUpload) /\ arow[RowOfUpload] \in StoredRows
    BY <1>1, <1>2, RowsTyped DEF RowOfUpload
  <2>2. /\ entry \in StoredRows /\ entry.mark = arow[RowOfUpload].mark
        /\ entry.submitted = arow[RowOfUpload].submitted
        /\ Exists(Server) => entry = arow[Server]
    <3>1. CASE Exists(Server)
      BY <2>1, <3>1 DEF TakenOver, RowOfUpload
    <3>2. CASE ~Exists(Server)
      <4> DEFINE p == arow[Placeholder]
                 later == IF p.due_at > due THEN p.due_at ELSE p.extension_due_at
      <4>1. RowOfUpload = Placeholder /\ p \in StoredRows /\ entry = [p EXCEPT !.extension_due_at = later]
        BY <2>1, <3>2 DEF TakenOver, RowOfUpload
      <4>2. later \in Nat
        BY <4>1 DEF StoredRows
      <4> HIDE DEF later, entry
      <4> QED BY <3>2, <4>1, <4>2 DEF StoredRows
    <3> QED BY <3>1, <3>2
  <2> HIDE DEF entry
  <2>3. entry.extension_due_at \in Nat /\ entry # NoAssignment
    BY <2>2, TwoRows DEF StoredRows
  <2>4. /\ extension \in Nat /\ date \in Nat /\ date >= entry.extension_due_at
        /\ extension # NoDate => date = extension
    BY <2>3, ExtendedDate
  <2> HIDE DEF extension, date
  <2>5. ListedRow(due) = [entry EXCEPT !.extension_due_at = extension, !.due_at = date,
                                     !.deleted_at = NoTime]
    BY <2>3 DEF ListedRow, entry, extension, date
  <2>6. /\ ListedRow(due) \in StoredRows /\ ListedRow(due).mark = entry.mark
        /\ ListedRow(due).submitted = entry.submitted /\ ListedRow(due).deleted_at = NoTime
        /\ ListedRow(due).extension_due_at = extension /\ ListedRow(due).due_at = date
    <3>1. entry \in StoredRows
      BY <2>2
    <3>2. ListedRow(due).deleted_at = NoTime
      BY <2>5, <3>1 DEF StoredRows
    <3>3. PICK listed : listed = ListedRow(due)
      OBVIOUS
    <3>4. listed = [entry EXCEPT !.extension_due_at = extension, !.due_at = date,
                               !.deleted_at = NoTime]
      BY <2>5, <3>3
    <3>5. /\ listed \in StoredRows /\ listed.mark = entry.mark /\ listed.submitted = entry.submitted
          /\ listed.extension_due_at = extension /\ listed.due_at = date
      <4>1. NoTime \in Int
        BY TwoRows
      <4> QED BY <2>4, <3>1, <3>4, <4>1 DEF StoredRows
    <3> QED BY <3>2, <3>3, <3>5
  <2>7. Exists(Server) /\ arow[Server].extension_due_at # NoDate
          => entry.extension_due_at = arow[Server].due_at
    BY <2>2 DEF RowsInv, ExtensionsServed
  <2> QED BY <1>2, <2>2, <2>4, <2>6, <2>7
<1>3. CASE ~\E c \in RowIds : Exists(c)
  <2>1. entry = NoAssignment /\ ~Exists(Server)
    BY <1>1, <1>3 DEF TakenOver, Exists
  <2>2. ListedRow(due) = AssignmentRow(due, FALSE)
    BY <2>1 DEF ListedRow
  <2> QED BY <1>3, <2>1, <2>2, NewRow
<1> QED BY <1>2, <1>3

\* The row that stands for the assignment is soft-deleted, or left alone.
LEMMA GoneKeeps ==
  ASSUME RowsInv, NEW now \in Arrived, NEW r \in Fetches,
         fetch' = [fetch EXCEPT ![r] = Idle], UNCHANGED <<moodle, time, chosen>>,
         \/ arow' = [arow EXCEPT ![RowOfUpload] = SoftDeleted(@, now)]
         \/ arow' = arow
  PROVE  Keeps
<1>1. Idle \in FetchRows /\ Idle.at = "idle"
  BY DEF FetchRows, Idle
<1>2. CASE arow' = arow \/ ~Exists(RowOfUpload)
  <2>1. arow' = arow
    BY <1>2, SeenIsMain DEF SoftDeleted, Exists, RowsInv, AssignmentType
  <2> QED BY <1>1, <2>1, FetchStays
<1>3. CASE arow' = [arow EXCEPT ![RowOfUpload] = SoftDeleted(@, now)] /\ Exists(RowOfUpload)
  <2>1. PICK main \in RowIds : main = RowOfUpload
    BY SeenIsMain
  <2> DEFINE old == arow[main]
             entry == SoftDeleted(old, now)
  <2>2. /\ old \in StoredRows /\ Exists(main) /\ now \in Nat /\ now > Oldest
        /\ arow' = [arow EXCEPT ![main] = entry]
    BY <1>3, <2>1, RowsTyped, Stamps
  <2>3. /\ entry \in StoredRows /\ entry.mark = old.mark /\ entry.submitted = old.submitted
        /\ entry.due_at = old.due_at /\ entry.extension_due_at = old.extension_due_at
        /\ entry.deleted_at = old.deleted_at \/ entry.deleted_at > Oldest
    BY <2>2, SoftDeletedIs
  <2> HIDE DEF entry
  <2>4. /\ main = Placeholder => entry.extension_due_at = NoDate
        /\ main = Server =>
             /\ entry.extension_due_at # NoDate => entry.due_at = entry.extension_due_at
             /\ entry.due_at >= arow[Server].due_at
             /\ entry.deleted_at = arow[Server].deleted_at \/ entry.deleted_at > Oldest
    BY <2>2, <2>3, RowsTyped DEF RowsInv, ExtensionsServed
  <2>5. /\ fetch' \in [Fetches -> FetchRows]
        /\ \A q \in Fetches : fetch'[q].at \in {"asking", "answered"}
                                => fetch[q].at \in {"asking", "answered"}
    BY <1>1 DEF RowsInv, AssignmentType
  <2> QED BY <2>1, <2>2, <2>3, <2>4, <2>5, MainServed
<1> QED BY <1>2, <1>3

\* The listing has it: the server's row takes it, and a placeholder beside it
\* was soft-deleted before, or a placeholder is taken over, or a row is made.
LEMMA ListedKeeps ==
  ASSUME RowsInv, NEW r \in Fetches, NEW now \in Arrived, NEW due \in Nat, NEW held \in FetchRows,
         held.at \in {"idle", "asking"}, fetch[r].at = "listed",
         fetch' = [fetch EXCEPT ![r] = held], UNCHANGED <<moodle, time, chosen>>,
         arow' = [c \in RowIds |->
                    IF c = Server THEN ListedRow(due)
                    ELSE IF Exists(Server) THEN SoftDeleted(arow[c], now) ELSE NoAssignment]
  PROVE  Keeps
<1>1. PICK entry : entry = ListedRow(due)
  OBVIOUS
<1>2. /\ entry \in StoredRows /\ entry.deleted_at = NoTime
      /\ entry.extension_due_at # NoDate => entry.due_at = entry.extension_due_at
      /\ IF \E c \in RowIds : Exists(c)
         THEN /\ entry.mark = arow[RowOfUpload].mark
              /\ arow[RowOfUpload].submitted => entry.submitted
         ELSE entry.mark = NoMark
      /\ Exists(Server) /\ arow[Server].extension_due_at # NoDate
           => entry.due_at >= arow[Server].due_at
  BY <1>1, ListedIs
<1>3. fetch' \in [Fetches -> FetchRows]
  BY DEF RowsInv, AssignmentType
<1>4. /\ Server \in RowIds /\ Placeholder \in RowIds /\ Placeholder # Server
      /\ \A c \in RowIds : c = Server \/ c = Placeholder
  BY TwoRows
<1>5. CASE Exists(Server)
  <2>1. RowOfUpload = Server
    BY <1>5 DEF RowOfUpload
  <2>2. SoftDeleted(arow[Placeholder], now) = arow[Placeholder]
    <3>1. CASE Exists(Placeholder)
      <4>1. arow[Placeholder].deleted_at # NoTime
        BY <1>5, <3>1, TwoRows DEF RowsInv, MainMarked
      <4> QED BY <4>1 DEF SoftDeleted
    <3>2. CASE ~Exists(Placeholder)
      BY <3>2 DEF SoftDeleted, Exists
    <3> QED BY <3>1, <3>2
  <2>3. arow' = [arow EXCEPT ![Server] = entry]
    <3>1. arow = [c \in RowIds |-> arow[c]]
      BY DEF RowsInv, AssignmentType
    <3>2. \A c \in RowIds : c # Server => c = Placeholder /\ SoftDeleted(arow[c], now) = arow[c]
      BY <1>4, <2>2
    <3> QED BY <1>1, <1>5, <3>1, <3>2
  <2>4. \A q \in Fetches : fetch'[q].at \in {"asking", "answered"}
                             => fetch[q].at \in {"asking", "answered"} \/ RowOfUpload = Server
    BY <2>1
  <2>5. PICK main \in RowIds : main = Server
    BY <1>4
  <2> QED BY <1>2, <1>3, <1>4, <1>5, <2>1, <2>3, <2>4, <2>5, MainServed
<1>6. CASE ~Exists(Server)
  <2>1. RowOfUpload = Placeholder
    BY <1>6 DEF RowOfUpload
  <2>2. /\ arow'[Server] = entry /\ arow'[Placeholder] = NoAssignment
        /\ arow' \in [RowIds -> StoredRows \union {NoAssignment}]
    BY <1>1, <1>2, <1>4, <1>6
  <2>3. /\ entry.mark = IF Exists(Placeholder) THEN arow[Placeholder].mark ELSE NoMark
        /\ Exists(Placeholder) /\ arow[Placeholder].submitted => entry.submitted
    BY <1>2, <1>4, <1>6, <2>1
  <2> QED BY <1>2, <1>3, <1>6, <2>2, <2>3, TakesOver
<1> QED BY <1>5, <1>6

LEMMA AppliedKeeps ==
  ASSUME RowsInv, NEW r \in Fetches, apply_fetched_assignments(r)
  PROVE  Keeps
<1> DEFINE answer == fetch[r].answer
           due == fetch[r].due
<1>1. PICK now \in Arrived :
        /\ fetch[r].at = "listed"
        /\ arow' = [c \in RowIds |->
             CASE answer = "lists" /\ c = Server -> ListedRow(due)
               [] answer = "lists" /\ c = Placeholder ->
                    IF Exists(Server) THEN SoftDeleted(arow[c], now) ELSE NoAssignment
               [] answer = "leaves_out" -> SoftDeleted(arow[c], now)
               [] answer = "refused" -> arow[c]
               [] answer = "refused_other" ->
                    IF c = Server THEN SoftDeleted(arow[c], now) ELSE arow[c]]
        /\ \/ fetch' = [fetch EXCEPT ![r] = Idle]
           \/ /\ answer = "lists"
              /\ fetch' = [fetch EXCEPT ![r] = [at |-> "asking", due |-> due]]
        /\ UNCHANGED <<moodle, time, chosen>>
  BY DEF apply_fetched_assignments
<1>2. answer \in {"lists", "leaves_out", "refused", "refused_other"} /\ due \in Nat
  BY <1>1, HeldByRun DEF Answers
<1> HIDE DEF answer, due
<1>3. /\ Server \in RowIds /\ Placeholder \in RowIds /\ Placeholder # Server
      /\ \A c \in RowIds : c = Server \/ c = Placeholder
  BY TwoRows
<1>4. arow = [c \in RowIds |-> arow[c]]
  BY DEF RowsInv, AssignmentType
<1>5. CASE answer = "lists"
  <2>1. arow' = [c \in RowIds |->
                   IF c = Server THEN ListedRow(due)
                   ELSE IF Exists(Server) THEN SoftDeleted(arow[c], now) ELSE NoAssignment]
    BY <1>1, <1>3, <1>5
  <2>2. PICK held \in FetchRows :
          held.at \in {"idle", "asking"} /\ fetch' = [fetch EXCEPT ![r] = held]
    <3>1. Idle \in FetchRows /\ Idle.at = "idle"
      BY DEF FetchRows, Idle
    <3>2. [at |-> "asking", due |-> due] \in FetchRows
      BY <1>2 DEF FetchRows
    <3> QED BY <1>1, <3>1, <3>2
  <2> QED BY <1>1, <1>2, <2>1, <2>2, ListedKeeps
<1>6. CASE answer # "lists"
  <2>1. \/ arow' = [arow EXCEPT ![RowOfUpload] = SoftDeleted(@, now)]
        \/ arow' = arow
    <3>1. CASE answer = "refused"
      BY <1>1, <1>4, <3>1
    <3>2. CASE answer = "leaves_out"
      <4>1. arow' = [c \in RowIds |-> SoftDeleted(arow[c], now)]
        BY <1>1, <3>2
      <4>2. \A c \in RowIds : c # RowOfUpload => SoftDeleted(arow[c], now) = arow[c]
        <5>1. \A c \in RowIds : c # RowOfUpload => ~Live(c)
          BY SeenIsMain
        <5> QED BY <5>1 DEF SoftDeleted, Live, Exists
      <4> QED BY <1>4, <4>1, <4>2, SeenIsMain DEF RowsInv, AssignmentType
    <3>3. CASE answer = "refused_other"
      <4>1. arow' = [c \in RowIds |-> IF c = Server THEN SoftDeleted(arow[c], now) ELSE arow[c]]
        BY <1>1, <3>3
      <4>2. CASE Exists(Server)
        BY <1>4, <4>1, <4>2 DEF RowOfUpload, RowsInv, AssignmentType
      <4>3. CASE ~Exists(Server)
        BY <1>4, <4>1, <4>3 DEF SoftDeleted, Exists
      <4> QED BY <4>2, <4>3
    <3> QED BY <1>2, <1>6, <3>1, <3>2, <3>3
  <2> QED BY <1>1, <1>6, <2>1, GoneKeeps
<1> QED BY <1>5, <1>6

LEMMA RefreshKeeps ==
  ASSUME RowsInv, NEW r \in Fetches, _refresh_submission_status(r)
  PROVE  Keeps
<1> DEFINE answer == fetch[r]
           stored(c) == apply_extensions(apply_submission_status(arow[c], answer), answer)
<1>1. /\ answer.at = "answered"
      /\ arow' = [c \in RowIds |-> IF Live(c) THEN stored(c) ELSE arow[c]]
      /\ fetch' = [fetch EXCEPT ![r] = Idle] /\ UNCHANGED <<moodle, time, chosen>>
  BY DEF _refresh_submission_status
<1>2. answer.due \in Nat /\ answer.extension \in Nat /\ answer.submitted \in BOOLEAN
  BY <1>1, HeldByRun
<1>3. Exists(Server) /\ RowOfUpload = Server /\ Server \in RowIds
  BY <1>1, TwoRows DEF RowsInv, ExtensionsServed, RowOfUpload
<1>4. Idle \in FetchRows /\ Idle.at = "idle"
  BY DEF FetchRows, Idle
<1>5. arow = [c \in RowIds |-> arow[c]]
  BY DEF RowsInv, AssignmentType
<1>6. CASE ~Live(Server)
  <2>1. arow' = arow
    BY <1>1, <1>3, <1>5, <1>6, SeenIsMain
  <2> QED BY <1>1, <1>4, <2>1, FetchStays
<1>7. CASE Live(Server)
  <2> DEFINE old == arow[Server]
             reported == old.submitted \/ answer.submitted
             probed == [old EXCEPT !.submitted = reported]
             extension == kept_extension(answer.due, answer.extension)
             date == with_extension(answer.due, extension)
  <2>1. PICK entry : entry = stored(Server)
    OBVIOUS
  <2>2. old \in StoredRows /\ old.submitted \in BOOLEAN /\ reported \in BOOLEAN
    BY <1>2, <1>3, RowsTyped
  <2>3. extension \in Nat /\ date \in Nat /\ (extension # NoDate => date = extension)
    BY <1>2, ExtendedDate
  <2>4. entry = [probed EXCEPT !.extension_due_at = extension, !.due_at = date]
    BY <2>1 DEF apply_extensions, apply_submission_status
  <2> HIDE DEF extension, date, reported
  <2>5. /\ probed \in StoredRows /\ probed.mark = old.mark /\ probed.submitted = reported
        /\ probed.deleted_at = old.deleted_at
    BY <2>2 DEF StoredRows
  <2> HIDE DEF probed
  <2>6. /\ entry \in StoredRows /\ entry.mark = old.mark /\ entry.submitted = reported
        /\ entry.deleted_at = old.deleted_at
        /\ entry.extension_due_at = extension /\ entry.due_at = date
    BY <2>3, <2>4, <2>5 DEF StoredRows
  <2>7. arow' = [arow EXCEPT ![Server] = entry]
    BY <1>1, <1>3, <1>5, <1>7, <2>1, SeenIsMain
  <2>8. /\ fetch' \in [Fetches -> FetchRows]
        /\ \A q \in Fetches : fetch'[q].at \in {"asking", "answered"}
                                => fetch[q].at \in {"asking", "answered"} \/ Server = Server
        /\ \E q \in Fetches : fetch[q].at = "answered" /\ fetch'[q] = Idle
    BY <1>1, <1>4 DEF RowsInv, AssignmentType
  <2>9. PICK main \in RowIds : main = Server /\ main # Placeholder
    BY TwoRows
  <2>10. old.submitted => entry.submitted
    BY <2>2, <2>6 DEF reported
  <2>11. entry.extension_due_at # NoDate => entry.due_at = entry.extension_due_at
    BY <2>3, <2>6
  <2> HIDE DEF answer
  <2> QED BY <1>1, <1>3, <2>6, <2>7, <2>8, <2>9, <2>10, <2>11, MainServed
<1> QED BY <1>6, <1>7

LEMMA RowsStart ==
  ASSUME AssignmentInit
  PROVE  RowsInv
<1>1. FirstDue \in Nat /\ Dates \subseteq Nat /\ MarkStart \in Nat /\ NoDate \in Nat
  BY AssignmentConstants, TwoRows
<1>2. /\ moodle \in [due : Nat, extension : Nat, submitted : BOOLEAN]
      /\ moodle.due \in Nat
  BY <1>1 DEF AssignmentInit
<1>3. /\ chosen = NoMark /\ NoMark \in MarkRows /\ NoMark.at = 0 /\ NoMark.status = "none"
  BY TwoRows DEF AssignmentInit, NoMark, MarkRows, Statuses
<1>4. fetch \in [Fetches -> FetchRows] /\ \A r \in Fetches : fetch[r].at = "idle"
  BY DEF AssignmentInit, FetchRows, Idle
<1>5. time \in Int /\ time >= MarkStart
  BY <1>1 DEF AssignmentInit
<1>6. CASE arow = [c \in RowIds |-> NoAssignment]
  <2>1. \A c \in RowIds : ~Exists(c)
    BY <1>6 DEF Exists
  <2>2. ~Exists(Placeholder) /\ ~Exists(Server) /\ RowOfUpload = Placeholder
    BY <2>1, TwoRows DEF RowOfUpload
  <2> QED BY <1>2, <1>3, <1>4, <1>5, <1>6, <2>1, <2>2
          DEF RowsInv, AssignmentType, MainMarked, ExtensionsServed
<1>7. CASE \E old \in Marks : arow = Leftover(moodle.due, old)
  <2>1. PICK old \in Marks : arow = Leftover(moodle.due, old)
    BY <1>7
  <2> DEFINE mark == [status |-> old, at |-> Oldest + 1, received |-> Oldest]
             fresh == AssignmentRow(moodle.due, FALSE)
             dropped == [fresh EXCEPT !.deleted_at = Oldest, !.mark = mark]
  <2>2. /\ fresh \in StoredRows /\ fresh.mark = NoMark
        /\ fresh.extension_due_at = NoDate /\ fresh.deleted_at = NoTime
    BY <1>2, NewRow
  <2>3. arow = [c \in RowIds |-> IF c = Placeholder THEN dropped ELSE fresh]
    BY <2>1 DEF Leftover
  <2>4. mark \in MarkRows /\ mark.at = 2 /\ mark.received = Oldest /\ Oldest \in Int
    BY TwoRows DEF MarkRows, Statuses
  <2> HIDE DEF fresh, mark
  <2>5. /\ dropped \in StoredRows /\ dropped.deleted_at = Oldest /\ dropped.mark = mark
        /\ dropped.extension_due_at = NoDate
    BY <2>2, <2>4 DEF StoredRows
  <2> HIDE DEF dropped
  <2>6. arow[Placeholder] = dropped /\ arow[Server] = fresh
    BY <2>3, TwoRows
  <2>7. Exists(Placeholder) /\ Exists(Server) /\ RowOfUpload = Server
    BY <2>2, <2>5, <2>6, TwoRows DEF Exists, RowOfUpload
  <2>8. AssignmentType
    BY <1>2, <1>3, <1>4, <1>5, <2>2, <2>3, <2>5 DEF AssignmentType
  <2>9. MainMarked
    <3>1. \A c \in RowIds : arow[c].mark.at = 0 => arow[c].mark = NoMark
      BY <2>2, <2>3, <2>4, <2>5
    <3> QED BY <1>3, <2>2, <2>4, <2>5, <2>6, <2>7, <3>1, TwoRows DEF MainMarked
  <2>10. ExtensionsServed
    BY <1>4, <2>2, <2>5, <2>6, <2>7 DEF ExtensionsServed
  <2> QED BY <2>8, <2>9, <2>10 DEF RowsInv
<1> QED BY <1>6, <1>7 DEF AssignmentInit

LEMMA RowsStep ==
  ASSUME RowsInv, [AssignmentNext]_assignmentVars
  PROVE  Keeps
<1>1. CASE UNCHANGED assignmentVars
  BY <1>1, RowsStay DEF assignmentVars, RowsInv, AssignmentType
<1>2. CASE \E r \in Fetches : FetchStep(r)
  BY <1>2, ListKeeps, LostKeeps, AppliedKeeps, StatusKeeps, RefreshKeeps DEF FetchStep
<1> QED
  BY <1>1, <1>2, SchoolKeeps, UploadKeeps, PatchKeeps, PutKeeps, ImportedKeeps DEF AssignmentNext

LEMMA RowsSound ==
  AssignmentSpec => []RowsInv
<1>1. AssignmentInit => RowsInv
  BY RowsStart
<1>2. RowsInv /\ [AssignmentNext]_assignmentVars => RowsInv'
  BY RowsStep DEF Keeps
<1> QED BY <1>1, <1>2, PTL DEF AssignmentSpec

(*************************************************************************)
(* The theorems.                                                         *)
(*************************************************************************)
(* What /sync/full shows of an assignment is the mark stamped last of all  *)
(* that were accepted, for any number of runs, marks, dates, skew and wait *)
(* (_hidden_since_received and _keys_for_marks_on_deleted_rows over what   *)
(* PATCH, PUT, import, listings and takeovers left on its two rows).       *)
THEOREM MarksShown ==
  AssignmentSpec => []ShownMarkIsLastChoice
<1>1. RowsInv => ShownMarkIsLastChoice
  BY ShownFollows
<1> QED BY <1>1, RowsSound, PTL

(* Uploads, imports, listings and late answers of any number of runs add no*)
(* second row, lose no submission, keep an extension's date and move it    *)
(* back only on Moodle's answer (upload_assignments, the takeover of a     *)
(* placeholder by apply_fetched_assignments, apply_extensions).            *)
THEOREM AssignmentsKept ==
  AssignmentSpec => AssignmentKept
<1>1. RowsInv => ExtensionGivesDate
  BY TwoRows DEF RowsInv, ExtensionsServed, ExtensionGivesDate
<1>2. RowsInv /\ [AssignmentNext]_assignmentVars =>
        [(\A c \in RowIds : Exists(c)') => \A c \in RowIds : Exists(c)]_assignmentVars
  BY RowsStep DEF Keeps, Multiplies
<1>3. RowsInv /\ [AssignmentNext]_assignmentVars =>
        [LET seen == _get_assignment_by_moodle_id
         IN Exists(seen) /\ arow[seen].submitted
              => arow'[_get_assignment_by_moodle_id'].submitted]_assignmentVars
  BY RowsStep DEF Keeps, SubmissionLost
<1>4. RowsInv /\ [AssignmentNext]_assignmentVars =>
        [LET seen == _get_assignment_by_moodle_id
         IN /\ Exists(seen) /\ arow[seen].extension_due_at # NoDate
            /\ arow'[_get_assignment_by_moodle_id'].due_at < arow[seen].due_at
           => \E r \in Fetches : fetch[r].at = "answered" /\ fetch'[r] = Idle]_assignmentVars
  BY RowsStep DEF Keeps, DateMovedBack
<1>5. AssignmentSpec => RowsNeverMultiply
  BY <1>2, RowsSound, PTL DEF AssignmentSpec, RowsNeverMultiply
<1>6. AssignmentSpec => SubmissionStays
  BY <1>3, RowsSound, PTL DEF AssignmentSpec, SubmissionStays
<1>7. AssignmentSpec => []ExtensionGivesDate
  BY <1>1, RowsSound, PTL
<1>8. AssignmentSpec => ExtendedDateMovesBackOnAnswer
  BY <1>4, RowsSound, PTL DEF AssignmentSpec, ExtendedDateMovesBackOnAnswer
<1> QED BY <1>5, <1>6, <1>7, <1>8 DEF AssignmentKept
===========================================================================
