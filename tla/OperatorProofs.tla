-------------------------- MODULE OperatorProofs --------------------------
(*************************************************************************)
(* Proofs about what operators do: the serials of TlsPins, the changes   *)
(* of CourseChanges and the pushes of ClassPushes, each for any values   *)
(* of its constants and by an inductive invariant of its own.            *)
(*************************************************************************)
EXTENDS TlsPins, CourseChanges, ClassPushes, TLAPS

(*************************************************************************)
(* Proofs about TlsPins, for any sets, pins, hosts, chains and bounds:   *)
(* the order of serials.  AppTakesTheNewest is not inductive: after a    *)
(* restore the document may be older than the app's, and what saves the  *)
(* next one is that the clock has passed every serial the apps hold      *)
(* (Ordered).                                                            *)
(*************************************************************************)

SetEntries == [PinSets -> [pins : SUBSET Pins, expires : Nat]]
Documents == [serial : Nat, sets : SetEntries, until : Nat]

SerialType ==
  /\ document \in Documents \union {NoDocument}
  /\ app \in Documents \union {NoDocument}
  /\ saved[5] \in Documents \union {NoDocument}
  /\ validTo \in [PinSets -> Nat] /\ saved[4] \in [PinSets -> Nat]
  /\ now \in Nat /\ current \in BOOLEAN

(* What an app holds is the served document or an older one; after a       *)
(* restore, the served document or one the clock has passed.               *)
Ordered ==
  app # NoDocument =>
    \/ app = document
    \/ app.serial < now /\ ~current
    \/ current /\ document # NoDocument /\ app.serial < document.serial

SerialInv == SerialType /\ Ordered

(* The larger of two numbers.                                              *)
LEMMA MaxOfTwo ==
  ASSUME NEW a \in Nat, NEW b \in Nat
  PROVE  Max({a, b}) \in Nat /\ Max({a, b}) >= a /\ Max({a, b}) >= b
<1>1. \E x \in {a, b} : \A y \in {a, b} : x >= y
  OBVIOUS
<1> QED BY <1>1 DEF Max

(* What the tables say of the sets is what a document can carry.           *)
LEMMA EntriesType ==
  ASSUME NEW pins, NEW expiry \in [PinSets -> Nat]
  PROVE  Entries(pins, expiry) \in SetEntries
BY DEF Entries, set_entry, published_pins, SetEntries

(* A new document is newer than any an app holds (publish).                *)
LEMMA PublishIsNewest ==
  ASSUME SerialInv, NEW entries \in SetEntries, publish(entries)
  PROVE  /\ document' \in Documents /\ document' # NoDocument /\ current'
         /\ app # NoDocument => app.serial < document'.serial
<1> DEFINE after == IF document = NoDocument THEN 0 ELSE document.serial + 1
<1>1. after \in Nat /\ now \in Nat
  BY DEF SerialInv, SerialType, Documents
<1>2. NextSerial \in Nat /\ NextSerial >= now /\ NextSerial >= after
  <2> HIDE DEF after
  <2>1. Max({now, after}) \in Nat /\ Max({now, after}) >= now /\ Max({now, after}) >= after
    BY <1>1, MaxOfTwo
  <2> QED BY <2>1 DEF NextSerial, after
<1>3. document' = [serial |-> NextSerial, sets |-> entries, until |-> now + Validity] /\ current'
  BY DEF publish
<1>4. document' \in Documents /\ document'.serial = NextSerial
  BY <1>1, <1>2, <1>3, PinConstants DEF Documents
<1>5. document' # NoDocument
  BY <1>4, PinConstants DEF Documents, SetEntries
<1>6. ASSUME app # NoDocument PROVE app.serial < NextSerial
  <2>1. app \in Documents
    BY <1>6 DEF SerialInv, SerialType
  <2>2. CASE app = document
    BY <1>2, <1>6, <2>1, <2>2 DEF Documents
  <2>3. CASE app.serial < now
    BY <1>1, <1>2, <2>1, <2>3 DEF Documents
  <2>4. CASE document # NoDocument /\ app.serial < document.serial
    <3>1. document \in Documents
      BY <2>4 DEF SerialInv, SerialType
    <3> QED BY <1>2, <2>1, <2>4, <3>1 DEF Documents
  <2> QED BY <1>6, <2>2, <2>3, <2>4 DEF SerialInv, Ordered
<1> QED BY <1>3, <1>4, <1>5, <1>6

(* A step that signs or leaves the document, and does not touch the apps,  *)
(* the clock or the backup.                                                *)
LEMMA SigningKeeps ==
  ASSUME SerialInv, UNCHANGED <<app, now, saved>>, validTo' \in [PinSets -> Nat],
         \/ UNCHANGED <<document, current>>
         \/ \E entries \in SetEntries : publish(entries)
  PROVE  SerialInv'
<1>1. CASE UNCHANGED <<document, current>>
  BY <1>1 DEF SerialInv, SerialType, Ordered
<1>2. ASSUME NEW entries \in SetEntries, publish(entries) PROVE SerialInv'
  BY <1>2, PublishIsNewest DEF SerialInv, SerialType, Ordered
<1> QED BY <1>1, <1>2

LEMMA StepInv == SerialInv /\ [PinNext]_pinVars => SerialInv'
<1> SUFFICES ASSUME SerialInv, [PinNext]_pinVars PROVE SerialInv'
  OBVIOUS
<1> USE DEF stored
<1>0. document # NoDocument => document.sets \in SetEntries
  BY DEF SerialInv, SerialType, Documents
<1>1. CASE ensure_current_document
  <2>1. Entries(pinned, validTo) \in SetEntries
    BY EntriesType DEF SerialInv, SerialType
  <2> QED BY <1>0, <1>1, <2>1, SigningKeeps DEF ensure_current_document, SerialInv, SerialType
<1>2. CASE run_pin_watch
  <2>1. Entries(Applied, validTo) \in SetEntries
    BY EntriesType DEF SerialInv, SerialType
  <2> QED BY <1>2, <2>1, SigningKeeps DEF run_pin_watch, _finish, SerialInv, SerialType
<1>3. ASSUME NEW s \in PinSets, NEW p \in Pins, add_pin(s, p) \/ remove_pin(s, p) PROVE SerialInv'
  <2>1. \A pins : Entries(pins, validTo) \in SetEntries
    BY EntriesType DEF SerialInv, SerialType
  <2> QED BY <1>3, <2>1, SigningKeeps DEF add_pin, remove_pin, _finish, SerialInv, SerialType
<1>4. ASSUME NEW s \in PinSets, NEW time \in 1..MaxExpiry, extend_expiry(s, time) PROVE SerialInv'
  <2>1. [validTo EXCEPT ![s] = time] \in [PinSets -> Nat]
    BY PinConstants DEF SerialInv, SerialType
  <2>2. Entries(pinned, [validTo EXCEPT ![s] = time]) \in SetEntries
    BY <2>1, EntriesType
  <2> QED BY <1>4, <2>1, <2>2, SigningKeeps DEF extend_expiry, _finish
<1>5. CASE publish_document
  <2>1. \A pins : Entries(pins, validTo) \in SetEntries
    BY EntriesType DEF SerialInv, SerialType
  <2> QED BY <1>5, <2>1, SigningKeeps DEF publish_document, _finish, SerialInv, SerialType
<1>6. CASE resign_document
  BY <1>0, <1>6, SigningKeeps DEF resign_document, _finish, SerialInv, SerialType
<1>7. CASE tls_pin_document
  BY <1>7 DEF tls_pin_document, SerialInv, SerialType, Ordered
<1>8. CASE Passes
  BY <1>8 DEF Passes, SerialInv, SerialType, Ordered, Documents
<1>9. CASE BackUp
  BY <1>9 DEF BackUp, SerialInv, SerialType, Ordered
<1>10. CASE Restore
  <2> DEFINE lost == IF document = NoDocument THEN 0 ELSE document.serial
  <2>1. lost \in Nat /\ now \in Nat
    BY DEF SerialInv, SerialType, Documents
  <2>2. now' \in Nat /\ now' > now /\ now' > lost
    <3> HIDE DEF lost
    <3>1. Max({now, lost}) \in Nat /\ Max({now, lost}) >= now /\ Max({now, lost}) >= lost
      BY <2>1, MaxOfTwo
    <3>2. now' = Max({now, lost}) + 1
      BY <1>10 DEF Restore, lost
    <3> QED BY <2>1, <3>1, <3>2
  <2>3. SerialType'
    BY <1>10, <2>2 DEF Restore, SerialInv, SerialType
  <2>4. ASSUME app' # NoDocument PROVE app'.serial < now' /\ ~current'
    <3>1. app' = app /\ ~current' /\ app \in Documents
      BY <1>10, <2>4 DEF Restore, SerialInv, SerialType
    <3>2. app.serial \in Nat /\ (document # NoDocument => document.serial \in Nat)
      BY <3>1 DEF SerialInv, SerialType, Documents
    <3>3. app.serial < now \/ app.serial <= lost
      BY <2>4, <3>1, <3>2 DEF SerialInv, Ordered
    <3> HIDE DEF lost
    <3>4. app.serial < now'
      BY <2>1, <2>2, <3>2, <3>3
    <3> QED BY <3>1, <3>4
  <2>5. Ordered'
    BY <2>4 DEF Ordered
  <2> QED BY <2>3, <2>5 DEF SerialInv
<1>11. CASE UNCHANGED <<document, app, saved, validTo, now, current>>
  BY <1>11 DEF SerialInv, SerialType, Ordered
<1> QED BY <1>1, <1>2, <1>3, <1>4, <1>5, <1>6, <1>7, <1>8, <1>9, <1>10, <1>11
        DEF PinNext, pinVars, StartWatch, set_monitored_hosts, set_auto_publish, OpenPage,
            UpOrDown, RenewChain, load_signer

LEMMA InitInv == PinInit => SerialInv
<1> SUFFICES ASSUME PinInit PROVE SerialInv
  OBVIOUS
<1>1. /\ document = NoDocument /\ app = NoDocument /\ now = 0 /\ current = FALSE
      /\ validTo = [s \in PinSets |-> 1]
      /\ saved = <<pinned, watched, auto, validTo, document>>
  BY DEF PinInit, stored
<1>2. saved[4] = validTo /\ saved[5] = document
  BY <1>1
<1>3. validTo \in [PinSets -> Nat]
  BY <1>1
<1> QED BY <1>1, <1>2, <1>3 DEF SerialInv, SerialType, Ordered

(* The order of serials, however documents, backups and the clock move.    *)
THEOREM SerialsSound == PinSpec => []SerialInv
BY InitInv, StepInv, PTL DEF PinSpec

(* Whatever was signed since a restore, an app takes: it holds no higher   *)
(* serial, and under the same serial no other document (publish).          *)
THEOREM TakesTheNewest == PinSpec => []AppTakesTheNewest
<1>1. SerialInv => AppTakesTheNewest
  BY DEF SerialInv, SerialType, Ordered, Documents, AppTakesTheNewest
<1> QED BY <1>1, SerialsSound, PTL

(*************************************************************************)
(* Proofs about CourseChanges, for any days, periods, timetables, kinds  *)
(* and operators.  OneChangePerMeeting speaks of the timetable as it is  *)
(* now; what the steps keep is that two changes checked by one timetable *)
(* do not meet in that timetable (Separate), and that the change an      *)
(* operator is about to write meets none, under the lock of the course   *)
(* (Guarded).                                                            *)
(*************************************************************************)

Changes == [days : SUBSET Weekdays, periods : SUBSET Periods, under : Timetables]
Ids == ChangeIds \union {NoChange}
Requests ==
  {Resting} \union [at : {"asked", "locked"}, body : Bodies, id : Ids]
    \union [at : {"checked"}, body : Changes, id : Ids]

ChangesType ==
  /\ timetable \in Timetables
  /\ change \in [ChangeIds -> Changes \union {NoChange}]
  /\ courseLock \in Operators \union {Nobody}
  /\ writer \in [Operators -> Requests]

\* Some meeting of the timetable has both changes.
Together(table, one, other) ==
  /\ ~Apart(one, other)
  /\ \E d \in _meeting_days(table, one) \intersect _meeting_days(table, other) :
       one.periods \subseteq table[d] /\ other.periods \subseteq table[d]

Separate ==
  \A i, j \in Stored :
    i # j /\ change[i].under = change[j].under
      => ~Together(change[i].under, change[i], change[j])

Guarded ==
  \A o \in Operators :
    /\ writer[o].at \in {"locked", "checked"} => courseLock = o
    /\ writer[o].at = "checked" =>
         \A i \in Stored \ {writer[o].id} :
           ~Together(writer[o].body.under, writer[o].body, change[i])

ChangesInv == ChangesType /\ Separate /\ Guarded

\* Meeting is mutual.
LEMMA TogetherSymmetric ==
  ASSUME NEW table, NEW one, NEW other, Together(table, one, other)
  PROVE  Together(table, other, one)
BY DEF Together, Apart

\* Changes that meet clash (_check).
LEMMA TogetherClashes ==
  ASSUME NEW table, NEW one, NEW other, Together(table, one, other)
  PROVE  Clashes(table, one, other)
BY DEF Together, Clashes

LEMMA InitSeparate == ChangesInit => ChangesInv
BY ChangeConstants DEF ChangesInit, ChangesInv, ChangesType, Separate, Guarded, Stored, Resting,
                       Requests

\* A request that ends writes no change and gives up only its own lock.
LEMMA EndedKeeps ==
  ASSUME ChangesInv, NEW o \in Operators, Ended(o), UNCHANGED <<timetable, change>>
  PROVE  ChangesInv'
<1>1. writer' = [writer EXCEPT ![o] = Resting]
  BY DEF Ended, Goes
<1>2. courseLock' = IF courseLock = o THEN Nobody ELSE courseLock
  BY DEF Ended
<1>3. ChangesType'
  BY <1>1, <1>2 DEF ChangesInv, ChangesType, Requests
<1>4. Separate'
  BY DEF ChangesInv, Separate, Stored
<1>5. Guarded'
  <2> SUFFICES ASSUME NEW p \in Operators, writer'[p].at \in {"locked", "checked"}
               PROVE  /\ courseLock' = p
                      /\ writer'[p].at = "checked" =>
                           \A i \in Stored' \ {writer'[p].id} :
                             ~Together(writer'[p].body.under, writer'[p].body, change'[i])
    BY DEF Guarded
  <2>1. p # o /\ writer'[p] = writer[p]
    BY <1>1 DEF ChangesInv, ChangesType, Resting
  <2>2. courseLock = p
    BY <2>1 DEF ChangesInv, Guarded
  <2> QED BY <1>2, <2>1, <2>2 DEF ChangesInv, Guarded, Stored
<1> QED BY <1>3, <1>4, <1>5 DEF ChangesInv

\* So does one that comes or takes the lock of the course.
LEMMA RequestKeeps ==
  ASSUME ChangesInv, NEW o \in Operators, NEW request \in Requests,
         Goes(o, request), UNCHANGED <<timetable, change>>,
         request.at # "checked",
         request.at = "locked" => courseLock' = o,
         courseLock' = courseLock \/ (courseLock = Nobody /\ courseLock' = o)
  PROVE  ChangesInv'
<1>1. writer' = [writer EXCEPT ![o] = request]
  BY DEF Goes
<1>2. ChangesType'
  BY <1>1 DEF ChangesInv, ChangesType
<1>3. Separate'
  BY DEF ChangesInv, Separate, Stored
<1>4. Guarded'
  <2> SUFFICES ASSUME NEW p \in Operators, writer'[p].at \in {"locked", "checked"}
               PROVE  /\ courseLock' = p
                      /\ writer'[p].at = "checked" =>
                           \A i \in Stored' \ {writer'[p].id} :
                             ~Together(writer'[p].body.under, writer'[p].body, change'[i])
    BY DEF Guarded
  <2>1. CASE p = o
    <3>1. writer'[p] = request
      BY <1>1, <2>1 DEF ChangesInv, ChangesType
    <3> QED BY <2>1, <3>1
  <2>2. CASE p # o
    <3>1. writer'[p] = writer[p]
      BY <1>1, <2>2 DEF ChangesInv, ChangesType
    <3>2. courseLock = p
      BY <3>1 DEF ChangesInv, Guarded
    <3>3. courseLock' = p
      BY <3>2, ChangeConstants
    <3> QED BY <3>1, <3>3 DEF ChangesInv, Guarded, Stored
  <2> QED BY <2>1, <2>2
<1> QED BY <1>2, <1>3, <1>4 DEF ChangesInv

\* A check that succeeds found no change the new one meets.
LEMMA CheckKeeps ==
  ASSUME ChangesInv, NEW o \in Operators, _check(o)
  PROVE  ChangesInv'
<1> DEFINE body == writer[o].body
           checked == [days |-> body.days, periods |-> body.periods, under |-> timetable]
           request == [at |-> "checked", id |-> writer[o].id, body |-> checked]
<1>1. writer[o] \in [at : {"asked", "locked"}, body : Bodies, id : Ids] /\ courseLock = o
      /\ writer[o].at = "locked"
  BY DEF ChangesInv, ChangesType, Guarded, Requests, Resting, _check
<1>2. CASE Ended(o)
  BY <1>2, EndedKeeps DEF _check
<1>3. CASE ~Ended(o)
  <2>1. /\ \A i \in Stored \ {writer[o].id} : ~Clashes(timetable, body, change[i])
        /\ writer' = [writer EXCEPT ![o] = request]
        /\ UNCHANGED <<timetable, change, courseLock>>
    BY <1>3 DEF _check, Goes
  <2>2. checked \in Changes
    BY <1>1, ChangeConstants DEF ChangesInv, ChangesType, Changes
  <2>3. /\ request \in [at : {"checked"}, body : Changes, id : Ids]
        /\ request.body = checked /\ request.id = writer[o].id
    <3> HIDE DEF checked
    <3> QED BY <1>1, <2>2
  <2>4. ChangesType'
    <3>1. request \in Requests
      BY <2>3 DEF Requests
    <3> HIDE DEF request
    <3> QED BY <2>1, <3>1 DEF ChangesInv, ChangesType
  <2>5. Separate'
    BY <2>1 DEF ChangesInv, Separate, Stored
  <2>6. ASSUME NEW i \in Stored \ {writer[o].id}
        PROVE  ~Together(timetable, checked, change[i])
    <3>1. ~Together(timetable, body, change[i])
      BY <2>1, TogetherClashes
    <3> QED BY <3>1 DEF Together, Apart, _meeting_days
  <2>7. Guarded'
    <3> SUFFICES ASSUME NEW p \in Operators, writer'[p].at \in {"locked", "checked"}
                 PROVE  /\ courseLock' = p
                        /\ writer'[p].at = "checked" =>
                             \A i \in Stored' \ {writer'[p].id} :
                               ~Together(writer'[p].body.under, writer'[p].body, change'[i])
      BY DEF Guarded
    <3>1. p = o
      <4> SUFFICES ASSUME p # o PROVE FALSE
        OBVIOUS
      <4> HIDE DEF request
      <4>1. writer'[p] = writer[p]
        BY <2>1 DEF ChangesInv, ChangesType
      <4> QED BY <1>1, <4>1 DEF ChangesInv, Guarded
    <3>2. writer'[o] = request
      <4> HIDE DEF request
      <4> QED BY <2>1 DEF ChangesInv, ChangesType
    <3>3. writer'[o].body = checked /\ writer'[o].id = writer[o].id
      BY <2>3, <3>2
    <3>4. writer'[o].body.under = timetable
      BY <3>3
    <3>5. Stored' = Stored
      BY <2>1 DEF Stored
    <3> HIDE DEF checked
    <3> QED BY <1>1, <2>1, <2>6, <3>1, <3>3, <3>4, <3>5
  <2> QED BY <2>4, <2>5, <2>7 DEF ChangesInv
<1> QED BY <1>2, <1>3

\* What is written meets no other change, and nobody else is about to write.
LEMMA WriteKeeps ==
  ASSUME ChangesInv, NEW o \in Operators, Write(o)
  PROVE  ChangesInv'
<1> DEFINE least == CHOOSE i \in Unused : \A j \in Unused : i <= j
           id == IF writer[o].id = NoChange THEN least ELSE writer[o].id
           body == writer[o].body
<1>1. /\ writer[o].at = "checked" /\ courseLock = o
      /\ change' = [change EXCEPT ![id] = body]
      /\ Ended(o) /\ timetable' = timetable
  BY DEF ChangesInv, Guarded, Write
<1>2. writer' = [writer EXCEPT ![o] = Resting]
  BY <1>1 DEF Ended, Goes
<1>3. body \in Changes /\ \A i \in Stored \ {writer[o].id} : ~Together(body.under, body, change[i])
  BY <1>1 DEF ChangesInv, ChangesType, Guarded, Requests, Resting
<1> HIDE DEF least
<1>4. ChangesType'
  <2>1. courseLock' = Nobody
    BY <1>1 DEF Ended
  <2> HIDE DEF id, body
  <2> QED BY <1>1, <1>2, <1>3, <2>1 DEF ChangesInv, ChangesType, Requests
<1>5. \A i \in ChangeIds : change'[i] = IF i = id THEN body ELSE change[i]
  <2> HIDE DEF id, body
  <2> QED BY <1>1 DEF ChangesInv, ChangesType
<1>6. \A i \in Stored' \ {id} : i \in Stored /\ change'[i] = change[i]
                                /\ ~Together(body.under, body, change[i])
  <2> SUFFICES ASSUME NEW i \in Stored', i # id
               PROVE  i \in Stored /\ change'[i] = change[i]
                      /\ ~Together(body.under, body, change[i])
    OBVIOUS
  <2>1. i \in ChangeIds /\ change'[i] = change[i] /\ i \in Stored
    <3> HIDE DEF id, body
    <3> QED BY <1>5 DEF Stored
  <2>2. i # writer[o].id
    BY <2>1, ChangeConstants
  <2> QED BY <1>3, <2>1, <2>2
<1> HIDE DEF id, body
<1>7. Separate'
  <2> SUFFICES ASSUME NEW i \in Stored', NEW j \in Stored', i # j,
                      change'[i].under = change'[j].under
               PROVE  ~Together(change'[i].under, change'[i], change'[j])
    BY DEF Separate
  <2>1. \A k \in Stored' : k = id => change'[k] = body
    BY <1>5 DEF Stored
  <2>2. CASE i = id
    BY <1>6, <2>1, <2>2
  <2>3. CASE j = id
    <3>1. ~Together(change'[i].under, change'[j], change'[i])
      BY <1>6, <2>1, <2>3
    <3> QED BY <3>1, TogetherSymmetric
  <2>4. CASE i # id /\ j # id
    BY <1>6, <2>4 DEF ChangesInv, Separate
  <2> QED BY <2>2, <2>3, <2>4
<1>8. Guarded'
  <2> SUFFICES ASSUME NEW p \in Operators
               PROVE  writer'[p].at \notin {"locked", "checked"}
    BY DEF Guarded
  <2>1. CASE p = o
    BY <1>2, <2>1 DEF ChangesInv, ChangesType, Resting
  <2>2. CASE p # o
    <3>1. writer'[p] = writer[p]
      BY <1>2, <2>2 DEF ChangesInv, ChangesType
    <3> QED BY <1>1, <2>2, <3>1 DEF ChangesInv, Guarded
  <2> QED BY <2>1, <2>2
<1> QED BY <1>4, <1>7, <1>8 DEF ChangesInv

\* Every step keeps the invariant.
LEMMA StepKeepsSeparate == ChangesInv /\ [ChangesNext]_changeVars => ChangesInv'
<1> SUFFICES ASSUME ChangesInv, [ChangesNext]_changeVars
             PROVE  ChangesInv'
  OBVIOUS
<1>1. ASSUME NEW o \in Operators, create_change(o) PROVE ChangesInv'
  <2>1. PICK body \in Bodies : Goes(o, [at |-> "asked", body |-> body, id |-> NoChange])
    BY <1>1 DEF create_change
  <2> DEFINE request == [at |-> "asked", body |-> body, id |-> NoChange]
  <2>2. request \in Requests /\ request.at # "locked" /\ request.at # "checked"
    BY DEF Requests, Ids
  <2>3. Goes(o, request) /\ UNCHANGED <<timetable, change>> /\ courseLock' = courseLock
    BY <1>1, <2>1 DEF create_change
  <2> HIDE DEF request
  <2> QED BY <2>2, <2>3, RequestKeeps
<1>2. ASSUME NEW o \in Operators, update_change(o) PROVE ChangesInv'
  <2>1. PICK i \in Stored, body \in Bodies : Goes(o, [at |-> "asked", body |-> body, id |-> i])
    BY <1>2 DEF update_change
  <2> DEFINE request == [at |-> "asked", body |-> body, id |-> i]
  <2>2. request \in Requests /\ request.at # "locked" /\ request.at # "checked"
    BY DEF Requests, Ids, Stored
  <2>3. Goes(o, request) /\ UNCHANGED <<timetable, change>> /\ courseLock' = courseLock
    BY <1>2, <2>1 DEF update_change
  <2> HIDE DEF request
  <2> QED BY <2>2, <2>3, RequestKeeps
<1>3. ASSUME NEW o \in Operators, delete_change(o) PROVE ChangesInv'
  <2>1. PICK i \in Stored : change' = [change EXCEPT ![i] = NoChange]
    BY <1>3 DEF delete_change
  <2>2. \A j \in Stored' : j \in Stored /\ change'[j] = change[j]
    BY <2>1 DEF ChangesInv, ChangesType, Stored
  <2>3. UNCHANGED <<timetable, courseLock, writer>>
    BY <1>3 DEF delete_change
  <2> QED BY <2>1, <2>2, <2>3 DEF ChangesInv, ChangesType, Separate, Guarded
<1>4. ASSUME NEW o \in Operators, LockCourse(o) PROVE ChangesInv'
  <2> DEFINE request == [writer[o] EXCEPT !.at = "locked"]
  <2>1. request \in Requests /\ request.at = "locked"
    BY <1>4 DEF LockCourse, ChangesInv, ChangesType, Requests, Resting
  <2>2. Goes(o, request) /\ UNCHANGED <<timetable, change>> /\ courseLock = Nobody
        /\ courseLock' = o
    BY <1>4 DEF LockCourse
  <2> HIDE DEF request
  <2> QED BY <2>1, <2>2, RequestKeeps
<1>5. ASSUME NEW o \in Operators, Fails(o) PROVE ChangesInv'
  BY <1>5, EndedKeeps DEF Fails
<1>6. CASE Upload
  BY <1>6 DEF Upload, ChangesInv, ChangesType, Separate, Guarded, Stored
<1>7. CASE UNCHANGED changeVars
  BY <1>7 DEF changeVars, ChangesInv, ChangesType, Separate, Guarded, Stored
<1> QED
  BY <1>1, <1>2, <1>3, <1>4, <1>5, <1>6, <1>7, CheckKeeps, WriteKeeps DEF ChangesNext

\* Two changes that reach one meeting meet in the timetable as it is now.
LEMMA SeparateSuffices == ChangesInv => OneChangePerMeeting
<1> SUFFICES ASSUME ChangesInv, NEW d \in Weekdays, NEW first \in Periods,
                    NEW i \in meeting_changes(d, first), NEW j \in meeting_changes(d, first),
                    i # j, change[i].under = timetable, change[j].under = timetable
             PROVE  FALSE
  BY DEF OneChangePerMeeting
<1>1. i \in Stored /\ j \in Stored
  BY DEF meeting_changes
<1>2. Together(timetable, change[i], change[j])
  BY DEF meeting_changes, Together, Apart, _meeting_days
<1> QED BY <1>1, <1>2 DEF ChangesInv, Separate

(* However the requests of operators and the uploads of students overlap,  *)
(* two changes on one meeting were checked by different timetables: the    *)
(* lock of _check leaves no other way.                                     *)
THEOREM OneChangeEach == ChangesSpec => []OneChangePerMeeting
<1>1. ChangesSpec => []ChangesInv
  BY InitSeparate, StepKeepsSeparate, PTL DEF ChangesSpec
<1> QED BY <1>1, SeparateSuffices, PTL

(*************************************************************************)
(* Proofs about ClassPushes, for any weekday, lead, wait and bounds on   *)
(* edits. A start that waits is woken in time because of where its wait  *)
(* began: who finds it due marks the minute, and no minute passes while  *)
(* the tick that takes it is owed (HeldInv).  Reminders and class-end    *)
(* pushes follow the timetable by what is asked for it before they are   *)
(* sent (FollowInv).                                                     *)
(*************************************************************************)

StartRows == [status : {"none", "pending", "claimed", "cancelled", "sent"},
              fire : Int, filed : Int \union {Unset}, at : Int]

\* A start that waits is woken at its time or after Wait, and once it is due
\* the tick that takes it comes before another minute.
HeldInv ==
  /\ minute \in Nat /\ regular \in Int \union {Unset} /\ called.moved \in Int \union {Unset}
  /\ start \in StartRows
  /\ start.status \in {"pending", "claimed"} => start.filed \in Int
  /\ start.status = "pending" => start.at <= start.fire \/ start.at <= minute + Wait
  /\ dueSince # Unset =>
       /\ StartDue /\ dueSince \in Int /\ dueSince <= minute
       /\ start.at <= dueSince + Wait /\ minute <= dueSince + Wait

LEMMA HeldInit == ClassInit => HeldInv
BY ClassConstants DEF ClassInit, HeldInv, NoStart, StartRows

\* Who moves neither the start nor the clock: the wait goes on, or begins.
LEMMA WaitGoesOn ==
  ASSUME HeldInv, UNCHANGED <<minute, start>>, NEW marks, Recorded(marks),
         regular' \in Int \union {Unset}, called'.moved \in Int \union {Unset}
  PROVE  HeldInv'
<1>1. dueSince' = IF ~StartDue' THEN Unset ELSE IF dueSince = Unset THEN minute' ELSE dueSince
  BY DEF Recorded
<1>2. StartDue' => start.status = "pending" /\ minute >= start.fire
  BY DEF StartDue
<1>3. /\ minute \in Nat /\ start.fire \in Int /\ start.at \in Int /\ Wait \in Nat
      /\ start.status = "pending" => start.at <= start.fire \/ start.at <= minute + Wait
      /\ dueSince # Unset => /\ dueSince \in Int /\ dueSince <= minute
                             /\ start.at <= dueSince + Wait /\ minute <= dueSince + Wait
  BY ClassConstants DEF HeldInv, StartRows
<1>4. dueSince' # Unset =>
        /\ StartDue' /\ dueSince' \in Int /\ dueSince' <= minute
        /\ start.at <= dueSince' + Wait /\ minute <= dueSince' + Wait
  <2>1. CASE ~StartDue'
    BY <1>1, <2>1
  <2>2. CASE StartDue' /\ dueSince # Unset
    BY <1>1, <1>3, <2>2
  <2>3. CASE StartDue' /\ dueSince = Unset
    BY <1>1, <1>2, <1>3, <2>3
  <2> QED BY <2>1, <2>2, <2>3
<1> QED BY <1>3, <1>4 DEF HeldInv

\* Who takes a start that was not due, or sets another time to one that was.
LEMMA StartMoves ==
  ASSUME HeldInv, UNCHANGED <<minute, regular, called>>, NEW marks, Recorded(marks),
         start' \in StartRows,
         start'.status \in {"pending", "claimed"} => start'.filed \in Int,
         start'.status = "pending" => start'.at <= start'.fire \/ start'.at <= minute + Wait,
         start'.status = "pending" => \/ start.status # "pending"
                                      \/ start'.fire > minute
                                      \/ start'.at = start.at /\ start'.fire = start.fire
  PROVE  HeldInv'
<1>1. dueSince' = IF ~StartDue' THEN Unset ELSE IF dueSince = Unset THEN minute' ELSE dueSince
  BY DEF Recorded
<1>2. StartDue' => start'.status = "pending" /\ minute >= start'.fire
  BY DEF StartDue
<1>3. /\ minute \in Nat /\ start'.fire \in Int /\ start'.at \in Int /\ Wait \in Nat
      /\ dueSince # Unset => /\ start.status = "pending" /\ dueSince \in Int /\ dueSince <= minute
                             /\ start.at <= dueSince + Wait /\ minute <= dueSince + Wait
  BY ClassConstants DEF HeldInv, StartRows, StartDue
<1>4. dueSince' # Unset =>
        /\ StartDue' /\ dueSince' \in Int /\ dueSince' <= minute
        /\ start'.at <= dueSince' + Wait /\ minute <= dueSince' + Wait
  <2>1. CASE ~StartDue'
    BY <1>1, <2>1
  <2>2. CASE StartDue' /\ dueSince # Unset
    <3>1. start'.at = start.at
      BY <1>2, <1>3, <2>2
    <3> QED BY <1>1, <1>3, <2>2, <3>1
  <2>3. CASE StartDue' /\ dueSince = Unset
    BY <1>1, <1>2, <1>3, <2>3
  <2> QED BY <2>1, <2>2, <2>3
<1>5. minute' = minute
  OBVIOUS
<1> QED BY <1>3, <1>4, <1>5 DEF HeldInv

LEMMA RecheckStartHeld ==
  ASSUME HeldInv, recheck_class_start
  PROVE  HeldInv'
<1>1. start.status = "claimed" /\ start \in StartRows /\ start.filed \in Int
  BY DEF recheck_class_start, HeldInv
<1>2. minute \in Nat /\ Wait \in Nat /\ start.fire \in Int /\ start.at \in Int
  BY <1>1, ClassConstants DEF HeldInv, StartRows
<1>3. delay \in Int
  BY <1>1 DEF delay, Moved, HeldInv
<1>4. HeldUntil \in Int /\ HeldUntil <= minute + Wait
  BY <1>2, <1>3 DEF HeldUntil, Smaller
<1> HIDE DEF HeldUntil, delay
<1>5. \/ start' = [start EXCEPT !.status = "cancelled"]
      \/ start' = [start EXCEPT !.status = "sent"]
      \/ start' = [start EXCEPT !.status = "pending", !.at = HeldUntil]
  BY DEF recheck_class_start
<1>6. /\ start' \in StartRows /\ start'.filed = start.filed
      /\ start'.status = "pending" => start'.at = HeldUntil
  BY <1>1, <1>4, <1>5 DEF StartRows
<1>7. UNCHANGED <<minute, regular, called>> /\ Recorded(standing)
  BY DEF recheck_class_start, PipelineStep, school, student
<1> QED BY <1>1, <1>4, <1>6, <1>7, StartMoves

LEMMA SyncScheduleHeld ==
  ASSUME HeldInv, sync_schedule \/ sync_schedule_without
  PROVE  HeldInv'
<1>1. UNCHANGED <<minute, regular, called>> /\ Recorded(standing)
  BY DEF sync_schedule, sync_schedule_without, AppFiles, school, student
<1>2. start \in StartRows /\ minute \in Nat /\ Lead \in Nat
  BY ClassConstants DEF HeldInv
<1>3. CASE sync_schedule_without
  <2>1. start' = [start EXCEPT !.status = "cancelled"]
    BY <1>3 DEF sync_schedule_without
  <2>2. start' \in StartRows /\ start'.status = "cancelled"
    BY <1>2, <2>1 DEF StartRows
  <2> QED BY <1>1, <2>2, StartMoves
<1>4. CASE sync_schedule
  <2>1. PICK at \in {regular, called.moved} \ {Unset} :
          LET fire == at - Lead IN
          start' = IF start.status = "pending"
                   THEN IF fire # start.fire /\ fire <= minute
                        THEN [start EXCEPT !.status = "cancelled"]
                        ELSE [status |-> "pending", fire |-> fire, filed |-> at,
                              at |-> IF fire # start.fire THEN fire ELSE start.at]
                   ELSE IF start.status \notin Taken /\ fire > minute
                   THEN [status |-> "pending", fire |-> fire, filed |-> at, at |-> fire]
                   ELSE start
    BY <1>4 DEF sync_schedule
  <2> DEFINE fire == at - Lead
  <2>2. at \in Int /\ fire \in Int
    BY <1>2 DEF HeldInv
  <2> HIDE DEF fire
  <2>3. \/ start' = [start EXCEPT !.status = "cancelled"]
        \/ start' = start
        \/ /\ start.status = "pending" /\ (fire = start.fire \/ fire > minute)
           /\ start' = [status |-> "pending", fire |-> fire, filed |-> at,
                        at |-> IF fire # start.fire THEN fire ELSE start.at]
        \/ /\ fire > minute /\ start' = [status |-> "pending", fire |-> fire, filed |-> at, at |-> fire]
    BY <1>2, <2>1, <2>2 DEF fire
  <2>4. CASE start' = [start EXCEPT !.status = "cancelled"]
    <3>1. start' \in StartRows /\ start'.status = "cancelled"
      BY <1>2, <2>4 DEF StartRows
    <3> QED BY <1>1, <3>1, StartMoves
  <2>5. CASE start' = start
    BY <1>1, <2>5, StartMoves DEF HeldInv
  <2>6. CASE /\ start.status = "pending" /\ (fire = start.fire \/ fire > minute)
             /\ start' = [status |-> "pending", fire |-> fire, filed |-> at,
                          at |-> IF fire # start.fire THEN fire ELSE start.at]
    <3>1. start.at \in Int /\ start.fire \in Int
      BY <1>2 DEF StartRows
    <3>2. start.at <= start.fire \/ start.at <= minute + Wait
      BY <2>6 DEF HeldInv
    <3>3. /\ start' \in StartRows /\ start'.filed = at /\ start'.fire = fire
          /\ start'.at = IF fire # start.fire THEN fire ELSE start.at
      BY <2>2, <2>6, <3>1 DEF StartRows
    <3>4. start'.at <= start'.fire \/ start'.at <= minute + Wait
      BY <2>2, <3>2, <3>3
    <3> QED BY <1>1, <2>2, <2>6, <3>3, <3>4, StartMoves
  <2>7. CASE /\ fire > minute
             /\ start' = [status |-> "pending", fire |-> fire, filed |-> at, at |-> fire]
    <3>1. start' \in StartRows /\ start'.filed = at /\ start'.fire = fire /\ start'.at = fire
      BY <2>2, <2>7 DEF StartRows
    <3> QED BY <1>1, <2>2, <2>7, <3>1, StartMoves
  <2> QED BY <2>3, <2>4, <2>5, <2>6, <2>7
<1> QED BY <1>3, <1>4

LEMMA ClaimHeld ==
  ASSUME HeldInv, _claim_due_jobs
  PROVE  HeldInv'
<1>1. UNCHANGED <<minute, regular, called>> /\ Recorded(standing)
  BY DEF _claim_due_jobs, PipelineStep, school, student
<1>2. CASE start' = start
  BY <1>1, <1>2, WaitGoesOn DEF HeldInv
<1>3. CASE start.status = "pending" /\ start' = [start EXCEPT !.status = "claimed"]
  <2>1. start' \in StartRows /\ start'.status = "claimed" /\ start'.filed \in Int
    BY <1>3 DEF HeldInv, StartRows
  <2> QED BY <1>1, <2>1, StartMoves
<1> QED BY <1>2, <1>3 DEF _claim_due_jobs

\* No minute passes over a start that is available.
LEMMA MinuteHeld ==
  ASSUME HeldInv, MinutePasses
  PROVE  HeldInv'
<1>1. /\ minute' = minute + 1 /\ UNCHANGED <<start, regular, called, term>>
      /\ start.status = "pending" => start.at > minute
      /\ dueSince' = IF ~StartDue' THEN Unset ELSE IF dueSince = Unset THEN minute' ELSE dueSince
  <2>1. minute \in Int /\ start.at \in Int
    BY DEF HeldInv, StartRows
  <2> QED BY <2>1 DEF MinutePasses, Recorded, school, student, jobs
<1>2. StartDue' => start.status = "pending" /\ minute' >= start.fire
  BY <1>1 DEF StartDue
<1>3. /\ minute \in Nat /\ start.fire \in Int /\ start.at \in Int /\ Wait \in Nat \ {0}
      /\ start.status = "pending" => start.at <= start.fire \/ start.at <= minute + Wait
      /\ dueSince # Unset => /\ dueSince \in Int /\ dueSince <= minute
                             /\ start.at <= dueSince + Wait /\ minute <= dueSince + Wait
  BY ClassConstants DEF HeldInv, StartRows
<1>4. dueSince' # Unset =>
        /\ StartDue' /\ dueSince' \in Int /\ dueSince' <= minute'
        /\ start.at <= dueSince' + Wait /\ minute' <= dueSince' + Wait
  <2>1. CASE ~StartDue'
    BY <1>1, <2>1
  <2>2. CASE StartDue' /\ dueSince # Unset
    BY <1>1, <1>2, <1>3, <2>2
  <2>3. CASE StartDue' /\ dueSince = Unset
    BY <1>1, <1>2, <1>3, <2>3
  <2> QED BY <2>1, <2>2, <2>3
<1>5. start.status = "pending" => start.at <= start.fire \/ start.at <= minute' + Wait
  BY <1>1, <1>3
<1> QED BY <1>1, <1>3, <1>4, <1>5 DEF HeldInv

LEMMA EditsHeld ==
  ASSUME HeldInv, UNCHANGED <<minute, start>>, Recorded(standing),
         \/ UNCHANGED regular /\ (UNCHANGED called \/ RecordChange \/ WithdrawChange)
         \/ UNCHANGED called /\ \E at \in Starts \union {Unset} : regular' = at
  PROVE  HeldInv'
<1>1. regular' \in Int \union {Unset}
  BY ClassConstants DEF HeldInv
<1>2. called'.moved \in Int \union {Unset}
  <2>1. CASE UNCHANGED called
    BY <2>1 DEF HeldInv
  <2>2. ASSUME NEW at \in Starts, called' = [called EXCEPT !.moved = at]
        PROVE  called'.moved \in Int \union {Unset}
    <3>1. called'.moved = at \/ called'.moved = called.moved
      BY <2>2
    <3> QED BY <3>1, ClassConstants DEF HeldInv
  <2>3. ASSUME NEW off, called' = [called EXCEPT !.off = off]
        PROVE  called'.moved \in Int \union {Unset}
    BY <2>3 DEF HeldInv
  <2>4. ASSUME called' = [called EXCEPT !.moved = Unset]
        PROVE  called'.moved \in Int \union {Unset}
    <3>1. called'.moved = Unset \/ called'.moved = called.moved
      BY <2>4
    <3> QED BY <3>1 DEF HeldInv
  <2> QED BY <2>1, <2>2, <2>3, <2>4 DEF RecordChange, WithdrawChange
<1> QED BY <1>1, <1>2, WaitGoesOn

ReminderStep(k) ==
  \/ _held_by_course_changes(k) \/ recheck_class_reminder(k) \/ unverified_before_send(k)
  \/ _deliver_round(k)

\* What the statements of a scan have in common.
LEMMA ReadsLeave ==
  ASSUME ScanReads
  PROVE  /\ UNCHANGED <<classMix, minute, school, student, jobs, edits>> /\ Recorded(standing)
         /\ seen.at # "rest" /\ seen'.edits = seen.edits
BY DEF ScanReads, load_term_dates, _current_terms, ReadCourses, ReadHolidays, ReadOverrides,
       load_course_changes, LockPending, _course_prefs, _users_with_a_recipient, AwaitingToken,
       ReadSkipped, Reads, Statement

LEMMA ScansHeld ==
  ASSUME HeldInv, ScanBegins \/ ScanReads \/ ScanFiles \/ ScanAborts \/ \E k \in Keys : ReminderStep(k)
  PROVE  HeldInv'
<1>1. UNCHANGED <<minute, start, regular, called>>
  BY ReadsLeave DEF ScanBegins, ScanFiles, ScanAborts, ReminderStep, _held_by_course_changes,
         recheck_class_reminder, unverified_before_send, _deliver_round, PipelineStep,
         school, student, jobs
<1>2. \E marks : Recorded(marks)
  BY ReadsLeave DEF ScanBegins, ScanFiles, ScanAborts, ReminderStep, _held_by_course_changes,
         recheck_class_reminder, unverified_before_send, _deliver_round, PipelineStep
<1> QED BY <1>1, <1>2, WaitGoesOn DEF HeldInv

-----------------------------------------------------------------------------
(*************************************************************************)
(* Reminders.                                                            *)
(*************************************************************************)
ReminderRows == [status : Taken \union {"none", "cancelled", "failed"}, tried : BOOLEAN]

Standings == {"on", "read", "filed", "off", "unread", "gone"}

\* A class that stands is due.  As long as no row was edited under it, a scan
\* goes by the rows as they are, but for the time, and takes a class for on or
\* off as it was recorded when it began.
FollowInv ==
  /\ reminder \in [Keys -> ReminderRows] /\ standing \in [Keys -> Standings]
  /\ asked = [k \in Keys |-> asked[k]] /\ edits \in Nat
  /\ seen # Idle => seen.edits \in Nat /\ seen.edits <= edits
  /\ seen # Idle /\ seen.edits = edits =>
       /\ seen.rows = [RowsNow EXCEPT !.minute = seen.rows.minute]
       /\ \A k \in Keys : /\ standing[k] \in {"read", "filed"} => DueIn(k, seen.rows)
                          /\ standing[k] \in {"unread", "gone"} => ~DueIn(k, seen.rows)
  /\ seen.locked \subseteq Keys /\ \A k \in seen.locked : reminder[k].status = "pending"
  /\ \A k \in Keys : /\ standing[k] \in {"on", "read", "filed"} => Due(k)
                     /\ reminder[k].status = "asked" => asked[k].start # Unset
                     /\ reminder[k].status = "asked" /\ asked[k].edits = edits => asked[k].start = regular
                     /\ asked[k].edits \in Nat /\ asked[k].edits <= edits
  /\ RemindersFollowClasses

\* Recording moves a mark only to the other side, or as the step says.
LEMMA MarkMoves ==
  ASSUME NEW marks, Recorded(marks), NEW k \in Keys
  PROVE  /\ standing'[k] \in {"on", "read", "filed"} => Due(k)'
         /\ standing'[k] \in {"unread", "gone"} => ~Due(k)'
         /\ standing'[k] \in {"unread", "gone", "read", "filed"} => marks[k] = standing'[k]
<1>1. standing'[k] = Kept(k, marks[k])
  BY DEF Recorded
<1> QED BY <1>1 DEF Kept

LEMMA MarksAreMarks ==
  ASSUME NEW marks, Recorded(marks)
  PROVE  standing' \in [Keys -> Standings]
<1>1. \A k \in Keys : Kept(k, marks[k]) \in Standings
  BY DEF Kept, Standings
<1> QED BY <1>1 DEF Recorded

\* Writing what is there changes nothing.
LEMMA SameValue ==
  ASSUME NEW S, NEW f, f = [x \in S |-> f[x]], NEW a, NEW b, b = f[a]
  PROVE  [f EXCEPT ![a] = b] = f
OBVIOUS

\* What the scan's code makes of the rows it goes by is what they say.
LEMMA ValidIsDue ==
  ASSUME NEW k \in Keys
  PROVE  k \in valid_keys <=> DueIn(k, seen.rows)
<1> DEFINE rows == seen.rows
<1>1. k[2] \in Starts /\ Starts \subseteq Int /\ Unset \notin Int
  BY ClassConstants DEF Keys
<1>2. k[2] \in meetings <=>
        /\ rows.regular # Unset /\ ~rows.called.off
        /\ k[2] = IF rows.called.moved = Unset THEN rows.regular ELSE rows.called.moved
  BY <1>1 DEF meetings, changed_meeting
<1>3. eligible /\ ~outside_term(rows.dates) <=>
        \/ rows.dates \notin {"unpublished", "break"} /\ rows.shown \in {"runs", "break"}
        \/ rows.dates = "unpublished" /\ rows.rival # "school"
  BY DEF eligible, outside_term, latest_semester, current_term_code
<1>4. ~is_quiet(rows.holiday, rows.optedIn) <=>
        \A h \in Holidays : rows.holiday[h] = "covers" =>
          \E g \in Holidays : g \in rows.optedIn /\ rows.holiday[g] = "covers"
  BY DEF is_quiet, Covering
<1> HIDE DEF rows
<1> QED BY <1>2, <1>3, <1>4 DEF valid_keys, DueIn, rows

LEMMA ScanBeginsFollows ==
  ASSUME FollowInv, ScanBegins
  PROVE  FollowInv'
<1> DEFINE marks == [k \in Keys |-> CASE standing[k] = "on" -> "read"
                                      [] standing[k] = "off" -> "unread"
                                      [] OTHER -> standing[k]]
<1>1. /\ Recorded(marks) /\ UNCHANGED <<reminder, asked, edits, RowsNow, regular>>
      /\ seen' = [at |-> "begun", edits |-> edits, locked |-> {}, rows |-> RowsNow]
  BY DEF ScanBegins, jobs, RowsNow, school, student
<1>2. /\ seen'.edits = edits /\ seen'.locked = {} /\ seen'.rows = RowsNow
      /\ RowsNow = [RowsNow EXCEPT !.minute = RowsNow.minute]
  BY <1>1 DEF RowsNow
<1>3. \A k \in Keys : marks[k] \in {"gone", "filed"} => marks[k] = standing[k]
  OBVIOUS
<1> HIDE DEF marks
<1>4. \A k \in Keys : Due(k)' <=> DueIn(k, seen'.rows)
  BY <1>1, <1>2 DEF Due
<1>5. \A k \in Keys :
        /\ standing'[k] \in {"on", "read", "filed"} => Due(k)'
        /\ standing'[k] \in {"unread", "gone"} => ~Due(k)'
        /\ standing'[k] \in {"gone", "filed"} => standing[k] = standing'[k]
  BY <1>1, <1>3, MarkMoves
<1>6. RemindersFollowClasses'
  BY <1>1, <1>5 DEF FollowInv, RemindersFollowClasses
<1> QED BY <1>1, <1>2, <1>4, <1>5, <1>6, MarksAreMarks DEF FollowInv

\* Each statement reads what stands, so where nothing was edited it reads what
\* the scan had.
LEMMA StatementsAgree ==
  ASSUME ScanReads, seen.rows = [RowsNow EXCEPT !.minute = seen.rows.minute]
  PROVE  seen'.rows = seen.rows
<1> DEFINE began == seen.rows.minute
<1>1. /\ seen.rows.dates = term /\ seen.rows.shown = term /\ seen.rows.regular = regular
      /\ seen.rows.rival = rival /\ seen.rows.holiday = holiday /\ seen.rows.optedIn = optedIn
      /\ seen.rows.called = called /\ seen.rows.offsets = offsets /\ seen.rows.reach = reach
      /\ seen.rows.skipped = skipped
  BY DEF RowsNow
<1>2. seen.rows = [minute |-> began, dates |-> term, shown |-> term, regular |-> regular,
                   rival |-> rival, holiday |-> holiday, optedIn |-> optedIn, called |-> called,
                   offsets |-> offsets, reach |-> reach, skipped |-> skipped]
  BY DEF RowsNow
<1> HIDE DEF began
<1>a. seen.rows = [x \in DOMAIN seen.rows |-> seen.rows[x]]
  BY <1>2
<1>3. /\ [seen.rows EXCEPT !.dates = term] = seen.rows
      /\ [seen.rows EXCEPT !.shown = term] = seen.rows
      /\ [seen.rows EXCEPT !.regular = regular, !.rival = rival] = seen.rows
      /\ [seen.rows EXCEPT !.holiday = holiday] = seen.rows
      /\ [seen.rows EXCEPT !.optedIn = optedIn] = seen.rows
      /\ [seen.rows EXCEPT !.called = called] = seen.rows
      /\ [seen.rows EXCEPT !.offsets = offsets] = seen.rows
      /\ [seen.rows EXCEPT !.reach = reach] = seen.rows
      /\ [seen.rows EXCEPT !.skipped = skipped] = seen.rows
  BY <1>1, <1>a, SameValue
<1>4. seen.rows.reach # "with" =>
        [seen.rows EXCEPT !.reach = IF reach = "with" THEN "without" ELSE reach] = seen.rows
  BY <1>1, <1>3
<1> QED BY <1>3, <1>4 DEF ScanReads, load_term_dates, _current_terms, ReadCourses, ReadHolidays,
       ReadOverrides, load_course_changes, LockPending, _course_prefs, _users_with_a_recipient,
       AwaitingToken, ReadSkipped, Reads, Statement

LEMMA ScanReadsFollows ==
  ASSUME FollowInv, ScanReads
  PROVE  FollowInv'
<1>1. /\ Recorded(standing) /\ UNCHANGED <<reminder, asked, edits, RowsNow, regular>>
      /\ seen # Idle /\ seen'.edits = seen.edits
  BY ReadsLeave DEF jobs, RowsNow, school, student, Idle
<1>2. seen'.locked = seen.locked \/ seen'.locked = {k \in Keys : reminder[k].status = "pending"}
  BY DEF ScanReads, load_term_dates, _current_terms, ReadCourses, ReadHolidays, ReadOverrides,
         load_course_changes, LockPending, _course_prefs, _users_with_a_recipient, AwaitingToken,
         ReadSkipped, Reads, Statement
<1>3. \A k \in Keys :
        /\ standing'[k] \in {"on", "read", "filed"} => Due(k)'
        /\ standing'[k] \in {"unread", "gone", "read", "filed"} => standing[k] = standing'[k]
  BY <1>1, MarkMoves
<1>4. seen.edits = edits => seen'.rows = seen.rows
  BY <1>1, StatementsAgree DEF FollowInv
<1>5. RemindersFollowClasses'
  BY <1>1, <1>3 DEF FollowInv, RemindersFollowClasses
<1>6. seen'.locked \subseteq Keys /\ \A k \in seen'.locked : reminder'[k].status = "pending"
  BY <1>1, <1>2 DEF FollowInv
<1>7. seen'.edits = edits' =>
        /\ seen'.rows = [RowsNow' EXCEPT !.minute = seen'.rows.minute]
        /\ \A k \in Keys : /\ standing'[k] \in {"read", "filed"} => DueIn(k, seen'.rows)
                           /\ standing'[k] \in {"unread", "gone"} => ~DueIn(k, seen'.rows)
  BY <1>1, <1>3, <1>4 DEF FollowInv
<1> QED BY <1>1, <1>3, <1>5, <1>6, <1>7, MarksAreMarks DEF FollowInv

LEMMA ScanFilesFollows ==
  ASSUME FollowInv, ScanFiles
  PROVE  FollowInv'
<1> DEFINE marks == [k \in Keys |->
       CASE standing[k] = "read" -> IF Misled(k) \/ ~Fileable(k) THEN "on" ELSE "filed"
         [] standing[k] = "filed" -> IF Misled(k) THEN "on" ELSE "filed"
         [] standing[k] \in {"unread", "gone"} ->
              IF Misled(k) \/ OutOfReach(k) THEN "off" ELSE "gone"
         [] OTHER -> standing[k]]
<1>1. /\ Recorded(marks) /\ UNCHANGED <<edits, asked, regular, RowsNow>> /\ seen # Idle /\ seen' = Idle
      /\ reminder' = [k \in Keys |-> Rescanned(k)]
  BY DEF ScanFiles, Idle, RowsNow, school, student
<1>2. \A k \in Keys : Due(k)' <=> Due(k)
  BY <1>1 DEF Due
<1>3. \A k \in Keys : marks[k] = "gone" =>
        standing[k] \in {"unread", "gone"} /\ ~Misled(k) /\ ~OutOfReach(k)
  OBVIOUS
<1>4. \A k \in Keys : marks[k] = "filed" =>
        ~Misled(k) /\ (standing[k] = "filed" \/ (standing[k] = "read" /\ Fileable(k)))
  OBVIOUS
<1> HIDE DEF marks
<1>5. \A k \in Keys : reminder[k] \in ReminderRows
  BY DEF FollowInv
<1>6. ASSUME NEW k \in Keys
      PROVE  /\ Rescanned(k) \in ReminderRows
             /\ Rescanned(k).status = "asked" => reminder[k].status = "asked"
             /\ standing'[k] = "gone" => Rescanned(k).status \notin Working \union {"pending"}
             /\ standing'[k] = "filed" => Rescanned(k).status \in Taken \union {"failed"}
  <2>1. /\ Filed(k) => Rescanned(k) = [status |-> "pending", tried |-> FALSE]
        /\ ~Filed(k) /\ k \in seen.locked /\ k \notin valid_keys
             => Rescanned(k) = [reminder[k] EXCEPT !.status = "cancelled"]
        /\ ~Filed(k) /\ ~(k \in seen.locked /\ k \notin valid_keys) => Rescanned(k) = reminder[k]
    BY DEF Rescanned
  <2>2. [reminder[k] EXCEPT !.status = "cancelled"] \in ReminderRows
        /\ [reminder[k] EXCEPT !.status = "cancelled"].status = "cancelled"
    BY <1>5 DEF ReminderRows
  <2>3. [status |-> "pending", tried |-> FALSE] \in ReminderRows
    BY DEF ReminderRows, Taken
  <2>4. Filed(k) => k \in valid_keys
    BY DEF Filed
  <2>5. ASSUME standing'[k] = "gone"
        PROVE  Rescanned(k).status \notin Working \union {"pending"}
    <3>1. marks[k] = "gone" /\ ~Due(k)
      BY <1>1, <1>2, <2>5, MarkMoves
    <3>2. k \notin valid_keys
      BY <1>1, <1>3, <3>1, ValidIsDue DEF FollowInv, Misled
    <3>3. k \in seen.locked \/ reminder[k].status \notin Working \union {"pending"}
      BY <1>3, <3>1 DEF OutOfReach
    <3> QED BY <2>1, <2>2, <2>4, <3>2, <3>3 DEF Working
  <2>6. ASSUME standing'[k] = "filed"
        PROVE  Rescanned(k).status \in Taken \union {"failed"}
    <3>1. marks[k] = "filed" /\ Due(k)
      BY <1>1, <1>2, <2>6, MarkMoves
    <3>2. standing[k] \in {"read", "filed"} /\ ~Misled(k)
      BY <1>4, <3>1
    <3>3. k \in valid_keys
      BY <1>1, <3>1, <3>2, ValidIsDue DEF FollowInv, Misled
    <3>4. CASE standing[k] = "filed"
      BY <2>1, <3>3, <3>4 DEF FollowInv, RemindersFollowClasses, Taken
    <3>5. CASE standing[k] # "filed"
      <4>1. Fileable(k)
        BY <1>4, <3>1, <3>5
      <4> QED BY <2>1, <3>3, <4>1 DEF Taken, Filed
    <3> QED BY <3>4, <3>5
  <2>7. Rescanned(k).status = "asked" => reminder[k].status = "asked"
    <3>1. [status |-> "pending", tried |-> FALSE].status = "pending"
      OBVIOUS
    <3> QED BY <2>1, <2>2, <3>1
  <2> QED BY <1>5, <2>1, <2>2, <2>3, <2>5, <2>6, <2>7
<1>7. \A k \in Keys : standing'[k] \in {"on", "read", "filed"} => Due(k)'
  BY <1>1, MarkMoves
<1>8. RemindersFollowClasses' /\ reminder' \in [Keys -> ReminderRows]
  BY <1>1, <1>6 DEF RemindersFollowClasses
<1>9. \A k \in Keys : reminder'[k].status = "asked" => reminder[k].status = "asked"
  BY <1>1, <1>6
<1>10. seen'.locked = {}
  BY <1>1 DEF Idle
<1> QED BY <1>1, <1>7, <1>8, <1>9, <1>10, MarksAreMarks DEF FollowInv

\* What a step leaves of a check that is under way.
AsksFollow(k) ==
  /\ reminder'[k].status = "asked" => asked'[k].start # Unset
  /\ reminder'[k].status = "asked" /\ asked'[k].edits = edits' => asked'[k].start = regular'
  /\ asked'[k].edits \in Nat /\ asked'[k].edits <= edits'

\* A step of someone else: the rows a scan goes by stay, or an edit is counted.
LEMMA OthersFollow ==
  ASSUME FollowInv, NEW marks, Recorded(marks), UNCHANGED seen,
         edits' = edits + 1 \/ (UNCHANGED edits /\ RowsNow' = [RowsNow EXCEPT !.minute = minute']),
         \A k \in Keys : marks[k] \in {"unread", "gone", "read", "filed"} => marks[k] = standing[k],
         reminder' \in [Keys -> ReminderRows], asked' = [k \in Keys |-> asked'[k]],
         \A k \in Keys : AsksFollow(k),
         \A k \in seen.locked : reminder'[k].status = "pending",
         \A k \in Keys : standing'[k] = "gone" => reminder'[k].status \notin Working \union {"pending"},
         \A k \in Keys : standing'[k] = "filed" => reminder'[k].status \in Taken \union {"failed"}
  PROVE  FollowInv'
<1>1. \A k \in Keys : standing'[k] \in {"unread", "gone", "read", "filed"} => standing[k] = standing'[k]
  BY MarkMoves
<1>2. \A k \in Keys : standing'[k] \in {"on", "read", "filed"} => Due(k)'
  BY MarkMoves
<1>3. edits' \in Nat /\ (seen # Idle => seen.edits \in Nat /\ seen.edits <= edits')
  BY DEF FollowInv
<1>4. edits' = edits + 1 => (seen # Idle => seen.edits # edits')
  BY DEF FollowInv
<1>5. ASSUME seen # Idle, seen.edits = edits'
      PROVE  /\ seen.rows = [RowsNow' EXCEPT !.minute = seen.rows.minute]
             /\ \A k \in Keys : /\ standing'[k] \in {"read", "filed"} => DueIn(k, seen.rows)
                                /\ standing'[k] \in {"unread", "gone"} => ~DueIn(k, seen.rows)
  <2>1. UNCHANGED edits /\ RowsNow' = [RowsNow EXCEPT !.minute = minute']
    BY <1>4, <1>5
  <2>2. seen.rows = [RowsNow EXCEPT !.minute = seen.rows.minute]
    BY <1>5, <2>1 DEF FollowInv
  <2>3. [RowsNow' EXCEPT !.minute = seen.rows.minute] = [RowsNow EXCEPT !.minute = seen.rows.minute]
    BY <2>1 DEF RowsNow
  <2> QED BY <1>1, <1>5, <2>1, <2>2, <2>3 DEF FollowInv
<1>6. RemindersFollowClasses'
  BY DEF RemindersFollowClasses
<1> QED BY <1>2, <1>3, <1>5, <1>6, MarksAreMarks DEF FollowInv, AsksFollow

\* And one that leaves the reminders alone.
LEMMA ElseFollows ==
  ASSUME FollowInv, Recorded(standing), UNCHANGED <<seen, reminder, asked>>,
         \/ edits' = edits + 1
         \/ UNCHANGED <<edits, regular>> /\ RowsNow' = [RowsNow EXCEPT !.minute = minute']
  PROVE  FollowInv'
<1>1. \A k \in Keys : standing'[k] \in {"gone", "filed"} => standing[k] = standing'[k]
  BY MarkMoves
<1>2. /\ \A k \in Keys : standing'[k] = "gone" =>
             reminder'[k].status \notin Working \union {"pending"}
      /\ \A k \in Keys : standing'[k] = "filed" => reminder'[k].status \in Taken \union {"failed"}
  BY <1>1 DEF FollowInv, RemindersFollowClasses
<1>3. /\ reminder' \in [Keys -> ReminderRows] /\ \A k \in seen.locked : reminder'[k].status = "pending"
      /\ asked' = [k \in Keys |-> asked'[k]]
  BY DEF FollowInv
<1>4. \A k \in Keys : AsksFollow(k)
  BY DEF FollowInv, AsksFollow
<1> QED BY <1>2, <1>3, <1>4, OthersFollow

LEMMA ScanAbortsFollows ==
  ASSUME FollowInv, ScanAborts
  PROVE  FollowInv'
<1> DEFINE marks == [k \in Keys |-> CASE standing[k] = "read" -> "on"
                                      [] standing[k] = "unread" -> "off"
                                      [] OTHER -> standing[k]]
<1>1. Recorded(marks) /\ UNCHANGED <<reminder, asked, edits, regular>> /\ seen' = Idle
  BY DEF ScanAborts, jobs, student
<1>2. \A k \in Keys : marks[k] \in {"gone", "filed"} => marks[k] = standing[k]
  OBVIOUS
<1> HIDE DEF marks
<1>3. \A k \in Keys : /\ standing'[k] \in {"gone", "filed"} => standing[k] = standing'[k]
                      /\ standing'[k] \in {"on", "read", "filed"} => Due(k)'
  BY <1>1, <1>2, MarkMoves
<1>4. seen'.locked = {}
  BY <1>1 DEF Idle
<1> QED BY <1>1, <1>3, <1>4, MarksAreMarks DEF FollowInv, RemindersFollowClasses

\* One reminder moves on, through the pipeline: it is not the scan's to cancel.
LEMMA PipelineFollows ==
  ASSUME FollowInv, NEW k \in Keys, NEW row \in ReminderRows, NEW marks, PipelineStep(marks),
         reminder' = [reminder EXCEPT ![k] = row],
         k \notin seen.locked,
         \A j \in Keys : marks[j] = standing[j] \/ marks[j] = "off",
         AsksFollow(k), asked' = [asked EXCEPT ![k] = asked'[k]],
         standing'[k] = "gone" => row.status \notin Working \union {"pending"},
         standing'[k] = "filed" => row.status \in Taken \union {"failed"}
  PROVE  FollowInv'
<1>1. Recorded(marks) /\ UNCHANGED <<seen, edits, regular, RowsNow>>
  BY DEF PipelineStep, school, student, RowsNow
<1>2. RowsNow' = [RowsNow EXCEPT !.minute = minute']
  BY <1>1 DEF RowsNow
<1>3. \A j \in Keys : standing'[j] \in {"gone", "filed"} => standing[j] = standing'[j]
  BY <1>1, MarkMoves
<1>4. reminder' \in [Keys -> ReminderRows] /\ reminder'[k] = row
      /\ \A j \in Keys \ {k} : reminder'[j] = reminder[j]
  BY DEF FollowInv
<1>5. /\ \A j \in Keys : standing'[j] = "gone" =>
             reminder'[j].status \notin Working \union {"pending"}
      /\ \A j \in Keys : standing'[j] = "filed" => reminder'[j].status \in Taken \union {"failed"}
  BY <1>3, <1>4 DEF FollowInv, RemindersFollowClasses
<1>6. \A j \in seen.locked : reminder'[j].status = "pending"
  BY <1>4 DEF FollowInv
<1>7. /\ asked' = [j \in Keys |-> asked'[j]]
      /\ \A j \in Keys \ {k} : asked'[j] = asked[j]
  BY DEF FollowInv
<1>9. \A j \in Keys : AsksFollow(j)
  BY <1>1, <1>4, <1>7 DEF FollowInv, AsksFollow
<1>8. \A j \in Keys : marks[j] \in {"unread", "gone", "read", "filed"} => marks[j] = standing[j]
  OBVIOUS
<1> QED BY <1>1, <1>2, <1>4, <1>5, <1>6, <1>7, <1>8, <1>9, OthersFollow

LEMMA AskedStays ==
  ASSUME FollowInv, UNCHANGED asked, NEW k \in Keys
  PROVE  asked' = [asked EXCEPT ![k] = asked'[k]]
BY SameValue DEF FollowInv

LEMMA ClaimFollows ==
  ASSUME FollowInv, _claim_due_jobs
  PROVE  FollowInv'
<1>1. PipelineStep(standing) /\ UNCHANGED asked
  BY DEF _claim_due_jobs
<1>2. CASE UNCHANGED reminder
  BY <1>1, <1>2, ElseFollows DEF PipelineStep, school, student, RowsNow
<1>3. ASSUME NEW k \in Keys, reminder[k].status = "pending", k \notin seen.locked,
             reminder' = [reminder EXCEPT ![k].status = "claimed"]
      PROVE  FollowInv'
  <2> DEFINE row == [reminder[k] EXCEPT !.status = "claimed"]
  <2>1. row \in ReminderRows /\ row.status = "claimed" /\ reminder' = [reminder EXCEPT ![k] = row]
    BY <1>3 DEF FollowInv, ReminderRows, Taken, Working
  <2> HIDE DEF row
  <2>2. standing'[k] # "gone"
    BY <1>1, <1>3, MarkMoves DEF PipelineStep, FollowInv, RemindersFollowClasses
  <2>3. AsksFollow(k)
    BY <1>1, <2>1 DEF FollowInv, AsksFollow, PipelineStep
  <2> QED BY <1>1, <1>3, <2>1, <2>2, <2>3, AskedStays, PipelineFollows DEF Taken, Working
<1> QED BY <1>2, <1>3 DEF _claim_due_jobs

LEMMA DeliverFollows ==
  ASSUME FollowInv, NEW k \in Keys, _deliver_round(k)
  PROVE  FollowInv'
<1>1. PICK status \in {"sent", "failed", "pending"} :
        reminder' = [reminder EXCEPT ![k] = [status |-> status, tried |-> TRUE]]
  BY DEF _deliver_round
<1> DEFINE row == [status |-> status, tried |-> TRUE]
<1>2. PipelineStep(standing) /\ reminder[k].status = "cleared" /\ UNCHANGED asked
  BY DEF _deliver_round
<1>3. row \in ReminderRows /\ row.status = status /\ reminder' = [reminder EXCEPT ![k] = row]
  BY <1>1 DEF ReminderRows, Taken
<1> HIDE DEF row
<1>4. standing'[k] # "gone" /\ k \notin seen.locked
  BY <1>2, MarkMoves DEF PipelineStep, FollowInv, RemindersFollowClasses, Working
<1>5. AsksFollow(k)
  BY <1>2, <1>3 DEF FollowInv, AsksFollow, PipelineStep
<1> QED BY <1>2, <1>3, <1>4, <1>5, AskedStays, PipelineFollows DEF Taken

\* What the check before the send leaves of its reminder: of a class that stands,
\* as of one the scan found off, it says nothing new.
LEMMA CheckFollows ==
  ASSUME FollowInv, NEW k \in Keys, NEW status \in {"asked", "cleared", "cancelled"},
         reminder[k].status \in Working, reminder' = [reminder EXCEPT ![k].status = status],
         NEW marks \in {standing, [standing EXCEPT ![k] = "off"]}, PipelineStep(marks),
         AsksFollow(k), asked' = [asked EXCEPT ![k] = asked'[k]],
         status = "cancelled" => ~Due(k) \/ marks[k] = "off"
  PROVE  FollowInv'
<1> DEFINE row == [reminder[k] EXCEPT !.status = status]
<1>1. row \in ReminderRows /\ row.status = status /\ reminder' = [reminder EXCEPT ![k] = row]
  BY DEF FollowInv, ReminderRows, Taken, Working
<1> HIDE DEF row
<1>2. \A j \in Keys : marks[j] = standing[j] \/ marks[j] = "off"
  BY DEF FollowInv
<1>3. standing'[k] \in {"gone", "filed"} => marks[k] = standing'[k]
  BY MarkMoves DEF PipelineStep
<1>4. standing'[k] # "gone" /\ k \notin seen.locked
  BY <1>2, <1>3 DEF FollowInv, RemindersFollowClasses, Working
<1>5. standing'[k] = "filed" => marks[k] # "off" /\ Due(k)
  BY <1>2, <1>3 DEF FollowInv
<1>6. standing'[k] = "filed" => status # "cancelled"
  BY <1>5
<1> QED BY <1>1, <1>2, <1>4, <1>6, PipelineFollows DEF Taken, Working

LEMMA HeldFollows ==
  ASSUME FollowInv, NEW k \in Keys, _held_by_course_changes(k)
  PROVE  FollowInv'
<1>1. /\ reminder[k].status \in Working /\ PipelineStep(standing) /\ UNCHANGED <<edits, regular>>
      /\ reminder \in [Keys -> ReminderRows] /\ edits \in Nat
  BY DEF _held_by_course_changes, Working, PipelineStep, student, FollowInv
<1>2. CASE UNCHANGED asked /\ reminder' = [reminder EXCEPT ![k].status = "cleared"]
  <2>1. AsksFollow(k)
    BY <1>1, <1>2 DEF FollowInv, AsksFollow, ReminderRows
  <2> QED BY <1>1, <1>2, <2>1, AskedStays, CheckFollows
<1>3. CASE UNCHANGED asked /\ reminder' = [reminder EXCEPT ![k].status = "cancelled"] /\ regular = Unset
  <2>1. AsksFollow(k)
    BY <1>1, <1>3 DEF FollowInv, AsksFollow, ReminderRows
  <2>2. ~Due(k)
    BY <1>3 DEF Due, DueIn, RowsNow
  <2> QED BY <1>1, <1>3, <2>1, <2>2, AskedStays, CheckFollows
<1>4. CASE /\ reminder' = [reminder EXCEPT ![k].status = "asked"] /\ regular # Unset
           /\ asked' = [asked EXCEPT ![k] = [start |-> regular, edits |-> edits]]
  <2>1. AsksFollow(k)
    BY <1>1, <1>4 DEF FollowInv, AsksFollow
  <2> QED BY <1>1, <1>4, <2>1, CheckFollows
<1> QED BY <1>2, <1>3, <1>4 DEF _held_by_course_changes

\* A class that is due, and not edited since the check read its course, passes.
LEMMA RecheckFollows ==
  ASSUME FollowInv, NEW k \in Keys, recheck_class_reminder(k)
  PROVE  FollowInv'
<1> DEFINE still == changed_meeting(called, asked[k].start) = k[2]
           marks == IF still \/ asked[k].edits = edits THEN standing ELSE [standing EXCEPT ![k] = "off"]
           status == IF still THEN "cleared" ELSE "cancelled"
<1>1. /\ reminder[k].status = "asked" /\ PipelineStep(marks)
      /\ reminder' = [reminder EXCEPT ![k].status = status] /\ asked' = [asked EXCEPT ![k] = NotAsked]
  BY DEF recheck_class_reminder
<1>2. asked'[k] = NotAsked
  BY <1>1 DEF FollowInv
<1>3. AsksFollow(k)
  <2>1. reminder'[k].status = status /\ status # "asked"
    BY <1>1 DEF FollowInv, ReminderRows
  <2>2. asked'[k].edits \in Nat /\ asked'[k].edits <= edits'
    BY <1>1, <1>2 DEF NotAsked, FollowInv, PipelineStep
  <2> HIDE DEF status
  <2> QED BY <2>1, <2>2 DEF AsksFollow
<1>4. status = "cancelled" => ~Due(k) \/ marks[k] = "off"
  <2> SUFFICES ASSUME ~still, Due(k) PROVE marks[k] = "off"
    OBVIOUS
  <2>1. regular # Unset /\ changed_meeting(called, regular) = k[2]
    BY DEF Due, DueIn, RowsNow, changed_meeting
  <2>2. asked[k].edits # edits
    BY <1>1, <2>1 DEF FollowInv
  <2> QED BY <2>2 DEF FollowInv
<1> QED BY <1>1, <1>2, <1>3, <1>4, CheckFollows DEF Working

LEMMA UnverifiedFollows ==
  ASSUME FollowInv, NEW k \in Keys, unverified_before_send(k)
  PROVE  FollowInv'
<1> DEFINE marks == [standing EXCEPT ![k] = "off"]
<1>1. /\ reminder[k].status \in Working /\ PipelineStep(marks)
      /\ reminder' = [reminder EXCEPT ![k].status = "cancelled"] /\ asked' = [asked EXCEPT ![k] = NotAsked]
  BY DEF unverified_before_send, Working
<1>2. asked'[k] = NotAsked
  BY <1>1 DEF FollowInv
<1>3. AsksFollow(k)
  BY <1>1, <1>2 DEF AsksFollow, NotAsked, FollowInv, PipelineStep, ReminderRows
<1>4. marks[k] = "off"
  BY DEF FollowInv
<1> HIDE DEF marks
<1> QED BY <1>1, <1>2, <1>3, <1>4, CheckFollows DEF marks

-----------------------------------------------------------------------------
ClassInv == HeldInv /\ FollowInv

LEMMA ClassInitSound == ClassInit => ClassInv
<1> SUFFICES ASSUME ClassInit PROVE FollowInv
  BY HeldInit DEF ClassInv
<1>1. reminder \in [Keys -> ReminderRows] /\ standing \in [Keys -> Standings]
  BY DEF ClassInit, NotFiled, ReminderRows, Standings
<1>2. \A k \in Keys : asked[k] = NotAsked /\ reminder[k] = NotFiled
  BY DEF ClassInit
<1> QED BY <1>1, <1>2 DEF ClassInit, FollowInv, RemindersFollowClasses, NotAsked, NotFiled, Idle

\* An edit of the rows: counted, and seen by nobody yet.
LEMMA EditKeeps ==
  ASSUME ClassInv, NEW event, Edit(event), UNCHANGED jobs,
         \/ UNCHANGED regular /\ (UNCHANGED called \/ RecordChange \/ WithdrawChange)
         \/ UNCHANGED called /\ \E at \in Starts \union {Unset} : regular' = at
  PROVE  ClassInv'
<1>1. FollowInv'
  BY ElseFollows DEF ClassInv, Edit, jobs
<1>2. HeldInv'
  BY EditsHeld DEF ClassInv, Edit, jobs
<1> QED BY <1>1, <1>2 DEF ClassInv

LEMMA EditsKeep ==
  ASSUME ClassInv,
         \/ \E dates \in {"runs", "break", "other"} : upsert_term(dates)
         \/ delete_term
         \/ \E other \in {"none", "school", "added"} : UploadLaterCourse(other)
         \/ \E h \in Holidays : \/ \E days \in {"covers", "elsewhere"} : put_holiday(h, days)
                                \/ delete_holiday(h) \/ set_override(h)
         \/ RecordChange \/ WithdrawChange
         \/ \E at \in Starts \union {Unset} : upload_courses(at)
         \/ SkipDate
         \/ \E chosen \in SUBSET Offsets : SetOffsets(chosen)
         \/ \E status \in {"with", "without", "none"} : Reaches(status)
  PROVE  ClassInv'
<1>1. CASE \E dates \in {"runs", "break", "other"} : upsert_term(dates)
  BY <1>1, EditKeeps DEF upsert_term, student
<1>2. CASE delete_term
  BY <1>2, EditKeeps DEF delete_term, student
<1>3. CASE \E other \in {"none", "school", "added"} : UploadLaterCourse(other)
  BY <1>3, EditKeeps DEF UploadLaterCourse, school
<1>4. ASSUME NEW h \in Holidays, \/ \E days \in {"covers", "elsewhere"} : put_holiday(h, days)
                                 \/ delete_holiday(h) \/ set_override(h)
      PROVE  ClassInv'
  <2>1. UNCHANGED <<regular, called, jobs>> /\ Edit("holiday")
    BY <1>4 DEF put_holiday, delete_holiday, set_override, student, school
  <2> QED BY <2>1, EditKeeps
<1>5. CASE RecordChange
  BY <1>5, EditKeeps DEF RecordChange, student
<1>6. CASE WithdrawChange
  BY <1>6, EditKeeps DEF WithdrawChange, student
<1>7. CASE \E at \in Starts \union {Unset} : upload_courses(at)
  BY <1>7, EditKeeps DEF upload_courses, school
<1>8. CASE SkipDate
  BY <1>8, EditKeeps DEF SkipDate, school
<1>9. CASE \E chosen \in SUBSET Offsets : SetOffsets(chosen)
  BY <1>9, EditKeeps DEF SetOffsets, school
<1>10. CASE \E status \in {"with", "without", "none"} : Reaches(status)
  BY <1>10, EditKeeps DEF Reaches, school
<1> QED BY <1>1, <1>2, <1>3, <1>4, <1>5, <1>6, <1>7, <1>8, <1>9, <1>10

\* Steps of the start, of the app and of the clock leave the reminders alone.
LEMMA StartKeeps ==
  ASSUME ClassInv, recheck_class_start \/ sync_schedule \/ sync_schedule_without \/ MinutePasses
  PROVE  ClassInv'
<1>1. HeldInv'
  BY RecheckStartHeld, SyncScheduleHeld, MinuteHeld DEF ClassInv
<1>2. /\ Recorded(standing) /\ UNCHANGED <<seen, reminder, asked, edits, regular>>
      /\ RowsNow' = [RowsNow EXCEPT !.minute = minute']
  BY DEF recheck_class_start, sync_schedule, sync_schedule_without, MinutePasses, AppFiles,
         PipelineStep, school, student, jobs, RowsNow
<1>3. FollowInv'
  BY <1>2, ElseFollows DEF ClassInv
<1> QED BY <1>1, <1>3 DEF ClassInv

LEMMA ClassNextKeeps == ClassInv /\ [ClassNext]_classVars => ClassInv'
<1> SUFFICES ASSUME ClassInv, [ClassNext]_classVars PROVE ClassInv'
  OBVIOUS
<1>1. CASE UNCHANGED classVars
  <2>1. HeldInv'
    BY <1>1 DEF ClassInv, HeldInv, StartDue, classVars, school, student, jobs
  <2>2. FollowInv'
    BY <1>1 DEF ClassInv, FollowInv, RemindersFollowClasses, Due, RowsNow, classVars, school,
                student, jobs
  <2> QED BY <2>1, <2>2 DEF ClassInv
<1>2. CASE ScanBegins \/ ScanReads \/ ScanFiles \/ ScanAborts \/ \E k \in Keys : ReminderStep(k)
  <2>1. HeldInv'
    BY <1>2, ScansHeld DEF ClassInv
  <2>2. FollowInv'
    BY <1>2, ScanBeginsFollows, ScanReadsFollows, ScanFilesFollows, ScanAbortsFollows,
       HeldFollows, RecheckFollows, UnverifiedFollows, DeliverFollows DEF ClassInv, ReminderStep
  <2> QED BY <2>1, <2>2 DEF ClassInv
<1>3. CASE _claim_due_jobs
  BY <1>3, ClaimHeld, ClaimFollows DEF ClassInv
<1> QED BY <1>1, <1>2, <1>3, StartKeeps, EditsKeep DEF ClassNext, ReminderStep

LEMMA ClassesSound == ClassSpec => []ClassInv
<1> QED BY ClassInitSound, ClassNextKeeps, PTL DEF ClassSpec

(* Whatever students and operators edit between the reads of a scan, the
   pipeline's check and the send: a class a scan found off is announced no
   more, and one it filed a reminder for keeps it while it stays on
   (scan_course_reminders, recheck_class_reminder). *)
THEOREM RemindersFollow == ClassSpec => []RemindersFollowClasses
<1>1. ClassInv => RemindersFollowClasses
  BY DEF ClassInv, FollowInv
<1> QED BY <1>1, ClassesSound, PTL

(* A start put back for a class that begins later is looked at again within
   _HELD_START_RECHECK of the moment it is due, whatever moved that moment
   (recheck_class_start, sync_schedule). *)
THEOREM HeldStartsWake == ClassSpec => []HeldStartWakes
<1>1. ClassInv => HeldStartWakes
  BY ClassConstants DEF ClassInv, HeldInv, HeldStartWakes
<1> QED BY <1>1, ClassesSound, PTL
===========================================================================
