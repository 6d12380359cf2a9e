---------------------------- MODULE DevicesProofs ----------------------------
(***************************************************************************)
(* Proofs about Devices, for every number of students, phones, push tokens *)
(* and requests in flight.  MoodleTokenNeedsDevice is inductive with the   *)
(* types; RemovedStaysOut is not: what keeps a removed device out is that  *)
(* it has no session left to start a request with, and no request that     *)
(* could bring it back (OutForGood).                                       *)
(***************************************************************************)
EXTENDS Devices, TLAPS

States == {"none", "live", "deleted"}
Handlers == UNION Mixes

(* What a request in flight holds.                                         *)
Calls ==
  {Quiet}
    \union [at : {"let_in"}, row : Rows, handler : Handlers]
    \union [at : {"handler"}, row : Rows, handler : Handlers, locked : BOOLEAN]
    \union [at : {"found"}, row : Rows, handler : {"register"}, found : States]
    \union [at : {"loaded"}, row : Rows, handler : {"preferences"}, wants : BOOLEAN]
    \union [at : {"asking"}, row : Rows, handler : {"credentials"}]

DevicesType ==
  /\ mix \in Mixes
  /\ device \in [Rows -> States]
  /\ login \in [Rows -> SUBSET {"live", "loose"}]
  /\ token \in [Tokens -> Rows \union {NoDevice}]
  /\ moodleKey \subseteq Students
  /\ swept \subseteq Rows
  /\ ousted \in [Rows -> {"no", "raced", "clean"}]
  /\ call \in [Apps -> Calls]

OutForGood ==
  \A r \in Rows : ousted[r] = "clean" =>
    /\ device[r] # "live"
    /\ login[r] = {}
    /\ \A t \in Tokens : token[t] # r
    /\ \A a \in Apps : call[a].at # "idle" => call[a].row # r

IndInv == DevicesType /\ OutForGood /\ MoodleTokenNeedsDevice

(* A row is a student and a phone.                                         *)
LEMMA RowParts ==
  \A r \in Rows : r[1] \in Students /\ r[2] \in Phones /\ r = <<r[1], r[2]>>
BY DEF Rows

LEMMA InitInv == DevicesInit => IndInv
BY DeviceConstants
   DEF DevicesInit, IndInv, DevicesType, OutForGood, MoodleTokenNeedsDevice, Calls,
       Quiet, States

(* What a sign-in takes from the others on the phone leaves none of them a *)
(* Moodle token without a device (_upsert_device, the sign-in).            *)
LEMMA SignInKeeps ==
  ASSUME IndInv, NEW s \in Students, NEW p \in Phones, SignIn(s, p)
  PROVE  IndInv'
<1>0. <<s, p>> \in Rows
  BY DEF Rows
<1>1. DevicesType'
  BY <1>0, RowParts DEF IndInv, DevicesType, SignIn, _upsert_device, States
<1>2. OutForGood'
  BY <1>0, DeviceConstants
     DEF IndInv, DevicesType, OutForGood, SignIn, _upsert_device, States
<1>3. MoodleTokenNeedsDevice'
  <2> SUFFICES ASSUME NEW u \in moodleKey'
               PROVE  LiveRows(u)' # {} \/ \E r \in swept' : r[1] = u
    BY DEF MoodleTokenNeedsDevice
  <2>1. CASE u = s
    <3>1. device'[<<s, p>>] = "live"
      BY <1>0 DEF SignIn, _upsert_device
    <3>2. <<s, p>> \in LiveRows(s)'
      BY <1>0, <3>1 DEF LiveRows
    <3> QED BY <2>1, <3>2
  <2>2. CASE u # s /\ u \in {r[1] : r \in OthersOn(s, p)}
    <3>1. u \notin forget_credentials_once_signed_out({r[1] : r \in OthersOn(s, p)},
                                                       _upsert_device(s, p))
      BY DEF SignIn
    <3>2. PICK r \in Rows : r[1] = u /\ _upsert_device(s, p)[r] = "live"
      BY <2>2, <3>1 DEF forget_credentials_once_signed_out
    <3>3. device'[r] = "live"
      BY <3>2 DEF SignIn
    <3> QED BY <3>2, <3>3 DEF LiveRows
  <2>3. CASE u # s /\ u \notin {r[1] : r \in OthersOn(s, p)}
    <3>1. u \in moodleKey
      BY <2>3 DEF SignIn
    <3>2. CASE LiveRows(u) # {}
      <4>1. PICK r \in Rows : r[1] = u /\ device[r] = "live"
        BY <3>2 DEF LiveRows
      <4>2. r # <<s, p>> /\ r \notin OthersOn(s, p)
        BY <2>3, <4>1
      <4>3. device'[r] = "live"
        BY <4>1, <4>2 DEF SignIn, _upsert_device
      <4> QED BY <4>1, <4>3 DEF LiveRows
    <3>3. CASE \E r \in swept : r[1] = u
      BY <2>3, <3>3 DEF SignIn
    <3> QED BY <3>1, <3>2, <3>3 DEF IndInv, MoodleTokenNeedsDevice
  <2> QED BY <2>1, <2>2, <2>3
<1> QED BY <1>1, <1>2, <1>3 DEF IndInv

(* A sign-out that no refresh overlaps leaves the device no session to     *)
(* come back with (SignOut).                                               *)
LEMMA SignOutKeeps ==
  ASSUME IndInv, NEW r \in Rows, NEW calling \in BOOLEAN, SignOut(r, calling),
         call' \in [Apps -> Calls],
         \A b \in Apps : call'[b] = call[b] \/ call'[b] = Quiet,
         \A b \in Apps : ~calling /\ call'[b].at # "idle" => call'[b].row # r
  PROVE  IndInv'
<1>1. DevicesType'
  BY DeviceConstants DEF IndInv, DevicesType, SignOut, States
<1>2. OutForGood'
  BY DeviceConstants DEF IndInv, DevicesType, OutForGood, SignOut, States, Quiet
<1>3. MoodleTokenNeedsDevice'
  <2> SUFFICES ASSUME NEW u \in moodleKey'
               PROVE  LiveRows(u)' # {} \/ \E q \in swept' : q[1] = u
    BY DEF MoodleTokenNeedsDevice
  <2>1. CASE u = r[1]
    <3>1. u \notin forget_credentials_once_signed_out({r[1]}, [device EXCEPT ![r] = "deleted"])
      BY DEF SignOut
    <3>2. PICK q \in Rows : q[1] = u /\ [device EXCEPT ![r] = "deleted"][q] = "live"
      BY <2>1, <3>1 DEF forget_credentials_once_signed_out
    <3>3. device'[q] = "live"
      BY <3>2 DEF SignOut
    <3> QED BY <3>2, <3>3 DEF LiveRows
  <2>2. CASE u # r[1]
    <3>1. u \in moodleKey /\ swept' = swept
      BY DEF SignOut
    <3>2. \A q \in Rows : q[1] = u => device'[q] = device[q]
      BY <2>2 DEF SignOut, IndInv, DevicesType
    <3> QED BY <3>1, <3>2 DEF LiveRows, IndInv, MoodleTokenNeedsDevice
  <2> QED BY <2>1, <2>2
<1> QED BY <1>1, <1>2, <1>3 DEF IndInv

(* Nothing of a deleted account is left, and nobody else is touched.       *)
LEMMA DeleteAccountKeeps ==
  ASSUME IndInv, NEW s \in Students, _delete_account(s)
  PROVE  IndInv'
<1>1. DevicesType'
  BY RowParts, DeviceConstants DEF IndInv, DevicesType, _delete_account, States
<1>2. OutForGood'
  BY DeviceConstants DEF IndInv, DevicesType, OutForGood, _delete_account
<1>3. MoodleTokenNeedsDevice'
  <2> SUFFICES ASSUME NEW u \in moodleKey'
               PROVE  LiveRows(u)' # {} \/ \E q \in swept' : q[1] = u
    BY DEF MoodleTokenNeedsDevice
  <2>1. u \in moodleKey /\ u # s
    BY DEF _delete_account
  <2>2. \A q \in Rows : q[1] = u => device'[q] = device[q]
    BY <2>1 DEF _delete_account
  <2>3. \A q \in swept : q[1] = u => q \in swept'
    BY <2>1 DEF _delete_account
  <2> QED BY <2>1, <2>2, <2>3 DEF LiveRows, IndInv, MoodleTokenNeedsDevice
<1> QED BY <1>1, <1>2, <1>3 DEF IndInv

(* The daily job signs devices out and says whose (retire_dead_devices).   *)
LEMMA RetireKeeps ==
  ASSUME IndInv, retire_dead_devices
  PROVE  IndInv'
<1>1. PICK picked \in (SUBSET Students) \ {{}} :
        LET gone == {r \in Rows : r[1] \in picked /\ Dead(r)} IN
        /\ device' = [r \in Rows |-> IF r \in gone THEN "deleted" ELSE device[r]]
        /\ token' = [t \in Tokens |-> IF token[t] \in gone THEN NoDevice ELSE token[t]]
        /\ swept' = swept \union gone
        /\ UNCHANGED <<mix, login, moodleKey, call, ousted>>
  BY DEF retire_dead_devices
<1>2. DevicesType'
  BY <1>1, DeviceConstants DEF IndInv, DevicesType, States
<1>3. OutForGood'
  BY <1>1, DeviceConstants DEF IndInv, DevicesType, OutForGood
<1>4. MoodleTokenNeedsDevice'
  <2> SUFFICES ASSUME NEW u \in moodleKey'
               PROVE  LiveRows(u)' # {} \/ \E q \in swept' : q[1] = u
    BY DEF MoodleTokenNeedsDevice
  <2>1. \A q \in Rows : device[q] = "live" => device'[q] = "live" \/ q \in swept'
    BY <1>1
  <2>2. swept \subseteq swept' /\ u \in moodleKey
    BY <1>1
  <2> QED BY <2>1, <2>2 DEF LiveRows, IndInv, MoodleTokenNeedsDevice
<1> QED BY <1>2, <1>3, <1>4 DEF IndInv

(* A step that signs nobody out keeps a Moodle token's device.             *)
LEMMA DevicesOnlyGrow ==
  ASSUME MoodleTokenNeedsDevice, moodleKey' = moodleKey, swept' = swept,
         \A q \in Rows : device[q] = "live" => device'[q] = "live"
  PROVE  MoodleTokenNeedsDevice'
BY DEF MoodleTokenNeedsDevice, LiveRows

(* Requests of an app: only a request of the row itself brings it back.    *)
LEMMA AppKeeps ==
  ASSUME IndInv, NEW a \in Apps, AppStep(a)
  PROVE  IndInv'
<1>1. ASSUME NEW r \in Rows, NEW h \in mix, require_user(a, r, h)
      PROVE  IndInv'
  <2>1. h \in Handlers
    BY DEF IndInv, DevicesType, Handlers
  <2>2. DevicesType'
    BY <1>1, <2>1 DEF IndInv, DevicesType, require_user, registry, notes, Calls
  <2>3. OutForGood'
    BY <1>1 DEF IndInv, DevicesType, OutForGood, require_user, registry, notes
  <2> QED BY <1>1, <2>2, <2>3, DevicesOnlyGrow DEF IndInv, require_user, registry, notes
<1>2. CASE _bring_back(a)
  <2>1. call[a].row \in Rows /\ call[a].handler \in Handlers
    BY <1>2 DEF IndInv, DevicesType, _bring_back, Calls, Quiet
  <2>2. DevicesType'
    BY <1>2, <2>1 DEF IndInv, DevicesType, _bring_back, Calls, States
  <2>3. OutForGood'
    BY <1>2, <2>1 DEF IndInv, DevicesType, OutForGood, _bring_back
  <2>4. \A q \in Rows : device[q] = "live" => device'[q] = "live"
    BY <1>2, <2>1 DEF IndInv, DevicesType, _bring_back
  <2> QED BY <1>2, <2>2, <2>3, <2>4, DevicesOnlyGrow DEF IndInv, _bring_back
<1>3. CASE FindDevice(a)
  <2>1. call[a].row \in Rows
    BY <1>3 DEF IndInv, DevicesType, FindDevice, Calls, Quiet
  <2>2. DevicesType'
    BY <1>3, <2>1 DEF IndInv, DevicesType, FindDevice, Calls, States, registry, notes
  <2>3. OutForGood'
    BY <1>3, <2>1 DEF IndInv, DevicesType, OutForGood, FindDevice, registry, notes
  <2> QED BY <1>3, <2>2, <2>3, DevicesOnlyGrow DEF IndInv, FindDevice, registry, notes
<1>4. CASE register_device(a)
  <2>1. call[a].row \in Rows /\ call[a].found \in States /\ call[a].at = "found"
    BY <1>4 DEF IndInv, DevicesType, register_device, Calls, Quiet
  <2>2. PICK t \in Tokens : token' = _upsert_push_token(t, call[a].row)
    BY <1>4 DEF register_device
  <2>3. device' = device \/ device' = [device EXCEPT ![call[a].row] = "live"]
    BY <1>4, <2>1 DEF register_device, States
  <2>4. DevicesType'
    BY <1>4, <2>1, <2>2, <2>3
       DEF IndInv, DevicesType, register_device, _upsert_push_token, Calls, States, Done
  <2>5. OutForGood'
    BY <1>4, <2>1, <2>2, <2>3, DeviceConstants
       DEF IndInv, DevicesType, OutForGood, register_device, _upsert_push_token, Done, Quiet
  <2>6. \A q \in Rows : device[q] = "live" => device'[q] = "live"
    BY <2>1, <2>3 DEF IndInv, DevicesType
  <2> QED BY <1>4, <2>4, <2>5, <2>6, DevicesOnlyGrow DEF IndInv, register_device
<1>5. CASE RowChanged(a)
  <2>1. DevicesType' /\ OutForGood'
    BY <1>5 DEF IndInv, DevicesType, OutForGood, RowChanged, Done, Calls, Quiet, registry, notes
  <2> QED BY <1>5, <2>1, DevicesOnlyGrow DEF IndInv, RowChanged, registry, notes
<1>6. CASE delete_device(a)
  <2> DEFINE r == call[a].row
             calling == \E b \in Apps \ {a} : call[b].at # "idle" /\ call[b].row = r
  <2>1. r \in Rows
    BY <1>6 DEF IndInv, DevicesType, delete_device, Calls, Quiet
  <2>2. call' \in [Apps -> Calls]
    BY <1>6 DEF IndInv, DevicesType, delete_device, Done, Calls
  <2>3. CASE SignOut(r, calling)
    <3>1. \A b \in Apps : call'[b] = call[b] \/ call'[b] = Quiet
      BY <1>6 DEF IndInv, DevicesType, delete_device, Done
    <3>2. \A b \in Apps : ~calling /\ call'[b].at # "idle" => call'[b].row # r
      BY <1>6 DEF IndInv, DevicesType, delete_device, Done, Quiet
    <3>3. calling \in BOOLEAN
      OBVIOUS
    <3> HIDE DEF r, calling
    <3> QED BY <2>1, <2>2, <2>3, <3>1, <3>2, <3>3, SignOutKeeps
  <2>4. CASE UNCHANGED <<registry, notes>>
    <3>1. DevicesType' /\ OutForGood'
      BY <1>6, <2>2, <2>4
         DEF IndInv, DevicesType, OutForGood, delete_device, Done, Quiet, registry, notes
    <3> QED BY <2>4, <3>1, DevicesOnlyGrow DEF IndInv, registry, notes
  <2> QED BY <1>6, <2>3, <2>4 DEF delete_device
<1>7. CASE LoadDevice(a)
  <2>1. call[a].row \in Rows
    BY <1>7 DEF IndInv, DevicesType, LoadDevice, Calls, Quiet
  <2>2. DevicesType'
    BY <1>7, <2>1 DEF IndInv, DevicesType, LoadDevice, Calls, registry, notes
  <2>3. OutForGood'
    BY <1>7, <2>1 DEF IndInv, DevicesType, OutForGood, LoadDevice, Quiet, registry, notes
  <2> QED BY <1>7, <2>2, <2>3, DevicesOnlyGrow DEF IndInv, LoadDevice, registry, notes
<1>8. CASE update_device_preferences(a) \/ UploadCourses(a)
  <2>1. /\ UNCHANGED <<mix, device, login, token, moodleKey, swept, ousted>>
        /\ Done(a)
    BY <1>8 DEF update_device_preferences, UploadCourses
  <2>2. DevicesType' /\ OutForGood'
    BY <2>1 DEF IndInv, DevicesType, OutForGood, Done, Calls, Quiet
  <2> QED BY <2>1, <2>2, DevicesOnlyGrow DEF IndInv
<1>9. CASE AskMoodle(a)
  <2>1. call[a].row \in Rows
    BY <1>9 DEF IndInv, DevicesType, AskMoodle, Calls, Quiet
  <2>2. DevicesType'
    BY <1>9, <2>1 DEF IndInv, DevicesType, AskMoodle, Calls, registry, notes
  <2>3. OutForGood'
    BY <1>9, <2>1 DEF IndInv, DevicesType, OutForGood, AskMoodle, registry, notes
  <2> QED BY <1>9, <2>2, <2>3, DevicesOnlyGrow DEF IndInv, AskMoodle, registry, notes
<1>10. CASE update_credentials(a)
  <2> DEFINE s == call[a].row[1]
  <2>1. call[a].row \in Rows
    BY <1>10 DEF IndInv, DevicesType, update_credentials, Calls, Quiet
  <2>2. s \in Students
    BY <2>1, RowParts
  <2>3. /\ UNCHANGED <<mix, device, login, token, swept, ousted>>
        /\ Done(a)
        /\ moodleKey' = moodleKey \/ (LiveRows(s) # {} /\ moodleKey' = moodleKey \union {s})
    BY <1>10 DEF update_credentials, notes
  <2> HIDE DEF s
  <2>4. DevicesType' /\ OutForGood'
    BY <2>2, <2>3 DEF IndInv, DevicesType, OutForGood, Done, Calls, Quiet
  <2>5. MoodleTokenNeedsDevice'
    BY <2>3 DEF IndInv, MoodleTokenNeedsDevice, LiveRows
  <2> QED BY <2>4, <2>5 DEF IndInv
<1> QED BY <1>1, <1>2, <1>3, <1>4, <1>5, <1>6, <1>7, <1>8, <1>9, <1>10 DEF AppStep

LEMMA StepInv == IndInv /\ [DevicesNext]_deviceVars => IndInv'
<1> SUFFICES ASSUME IndInv, [DevicesNext]_deviceVars PROVE IndInv'
  OBVIOUS
<1>1. CASE \E s \in Students, p \in Phones : SignIn(s, p)
  BY <1>1, SignInKeeps
<1>2. ASSUME NEW r \in Rows, logout(r) PROVE IndInv'
  <2>1. DevicesType' /\ OutForGood'
    BY <1>2 DEF IndInv, DevicesType, OutForGood, logout, notes
  <2> QED BY <1>2, <2>1, DevicesOnlyGrow DEF IndInv, logout, notes
<1>3. ASSUME NEW r \in Rows, deregister_devices(r) PROVE IndInv'
  <2>1. Calling(r) \in BOOLEAN
    BY DEF Calling
  <2>2. call' \in [Apps -> Calls] /\ \A b \in Apps : call'[b] = call[b]
    BY <1>3 DEF IndInv, DevicesType, deregister_devices
  <2>3. \A b \in Apps : ~Calling(r) /\ call'[b].at # "idle" => call'[b].row # r
    BY <2>2 DEF Calling
  <2>4. SignOut(r, Calling(r))
    BY <1>3 DEF deregister_devices
  <2> QED BY <2>1, <2>2, <2>3, <2>4, SignOutKeeps
<1>4. ASSUME NEW r \in Rows, FallsSilent(r) PROVE IndInv'
  <2>1. DevicesType' /\ OutForGood'
    BY <1>4 DEF IndInv, DevicesType, OutForGood, FallsSilent, notes
  <2> QED BY <1>4, <2>1, DevicesOnlyGrow DEF IndInv, FallsSilent, notes
<1>5. CASE \E s \in Students : _delete_account(s)
  BY <1>5, DeleteAccountKeeps
<1>6. ASSUME NEW p \in Phones, register_anonymous_device(p) PROVE IndInv'
  <2>1. UNCHANGED <<mix, device, login, token, moodleKey, call, swept, ousted>>
    BY <1>6 DEF register_anonymous_device, notes
  <2>2. DevicesType' /\ OutForGood'
    BY <2>1 DEF IndInv, DevicesType, OutForGood
  <2> QED BY <2>1, <2>2, DevicesOnlyGrow DEF IndInv
<1>7. CASE retire_dead_devices
  BY <1>7, RetireKeeps
<1>8. CASE \E a \in Apps : AppStep(a)
  BY <1>8, AppKeeps
<1>9. CASE UNCHANGED deviceVars
  <2>1. UNCHANGED <<mix, device, login, token, moodleKey, call, swept, ousted>>
    BY <1>9 DEF deviceVars, registry, notes
  <2>2. DevicesType' /\ OutForGood'
    BY <2>1 DEF IndInv, DevicesType, OutForGood
  <2> QED BY <2>1, <2>2, DevicesOnlyGrow DEF IndInv
<1> QED BY <1>1, <1>2, <1>3, <1>4, <1>5, <1>6, <1>7, <1>8, <1>9 DEF DevicesNext

(* Types, what keeps removed devices out, and whose token is kept.         *)
THEOREM Invariance == DevicesSpec => []IndInv
BY InitInv, StepInv, PTL DEF DevicesSpec

(* However many requests meet: a device that was signed out with nothing   *)
(* of it in flight, a refresh included, stays out until its student signs  *)
(* in on it again (delete_device, deregister_devices, _bring_back,         *)
(* register_device).                                                       *)
THEOREM StaysOut == DevicesSpec => []RemovedStaysOut
<1>1. IndInv => RemovedStaysOut
  BY DEF IndInv, OutForGood, RemovedStaysOut
<1> QED BY <1>1, Invariance, PTL

(* A Moodle token is stored only for a student with a registered device,   *)
(* or whose devices the daily job retired                                  *)
(* (forget_credentials_once_signed_out).                                   *)
THEOREM TokenNeedsDevice == DevicesSpec => []MoodleTokenNeedsDevice
<1>1. IndInv => MoodleTokenNeedsDevice
  BY DEF IndInv
<1> QED BY <1>1, Invariance, PTL
=============================================================================
