------------------------------ MODULE Devices ------------------------------
(***************************************************************************)
(* The device registry: which student a phone is signed in for, what       *)
(* pushes reach it, whether the student's Moodle token is kept, and what   *)
(* the switches of the devices do to the stored courses.  Every path that  *)
(* signs a device in or out holds the accounts' locks from before its      *)
(* first write to its commit (lock_accounts) and is one step.  An app's    *)
(* request is several: it is let in by require_user, finds its device, and *)
(* writes, and a sign-out may commit between any two of them.              *)
(*                                                                         *)
(* Source: server/routes/user_devices.py, server/auth/dependencies.py,     *)
(* service.py, retirement.py, server/auth/models/device.py,                *)
(* portal/app/routes/devices.py, deregister.py.                            *)
(***************************************************************************)
EXTENDS FiniteSets

CONSTANTS
  Students, Phones,
  Apps,              \* requests of apps that can be in flight
  Tokens,            \* push tokens the OS gives out
  TokenOf,           \* token -> the phone it belongs to
  device_secret_required,  \* the setting: announces need a secret
  Mixes,             \* the sets of handlers whose requests meet in one behaviour
  NoOne, NoDevice

Rows == Students \X Phones

ASSUME DeviceConstants ==
  /\ TokenOf \in [Tokens -> Phones]
  /\ NoOne \notin Students /\ NoDevice \notin Rows

VARIABLES
  mix,       \* the handlers whose requests meet here
  device,    \* row of (student, client_device_id): "none", "live" or "deleted"
  login,     \* its sessions: "live" ones, and "loose" ones whose device row is gone
  token,     \* active standard push token -> the row it pushes to
  moodleKey, \* students whose Moodle token is stored
  silent,    \* rows not seen, announced or reached for _SILENT_FOR
  anonymous, \* phone -> its anonymous registration: there, bound to a secret, with a token
  linked,    \* phone -> the student its anonymous registration is linked to
  wants,     \* rows whose device syncs courses (cloud_sync_enabled, sync_courses)
  courses,   \* students with stored courses
  call,      \* app request in flight -> what it read so far
  swept,     \* rows retire_dead_devices took last (read by no code)
  ousted     \* rows signed out since they last signed in: "clean" when no request of
             \* theirs, refresh included, was in flight and no loose session left
             \* (read by no code)

registry == <<device, login, token, moodleKey, silent, anonymous, linked, wants, courses>>
notes == <<mix, swept, ousted>>
deviceVars == <<registry, call, notes>>

Quiet == [at |-> "idle"]
LiveRows(s) == {r \in Rows : r[1] = s /\ device[r] = "live"}
(* A request that brings a device back holds its account until it ends.    *)
Unlocked(students) ==
  \A a \in Apps : call[a].at = "handler" /\ call[a].locked => call[a].row[1] \notin students

Calling(r) == \E a \in Apps : call[a].at # "idle" /\ call[a].row = r

DevicesInit ==
  /\ mix \in Mixes
  /\ device = [r \in Rows |-> "none"]
  /\ login = [r \in Rows |-> {}]
  /\ token = [t \in Tokens |-> NoDevice]
  /\ moodleKey = {} /\ silent = {} /\ wants = {} /\ courses = {}
  /\ anonymous = [p \in Phones |-> [there |-> FALSE, bound |-> FALSE, token |-> FALSE]]
  /\ linked = [p \in Phones |-> NoOne]
  /\ call = [a \in Apps |-> Quiet]
  /\ swept = {} /\ ousted = [r \in Rows |-> "no"]

\* Mutant of forget_credentials_once_signed_out: decided by the devices before the sign-out, of any student.
forget_credentials_by_sign_out(students, rows) == {s \in students : \A r \in Rows : device[r] # "live"}

(***************************************************************************)
(* Signing in and out.                                                     *)
(***************************************************************************)
(* The students left without a registered device lose their Moodle token.  *)
forget_credentials_once_signed_out(students, rows) ==
  {s \in students : \A r \in Rows : r[1] = s => rows[r] # "live"}

(* The rows other students have for a phone, and the registry once s signs *)
(* in on it: theirs are deleted, the student's own is live.                *)
OthersOn(s, p) == {r \in Rows : r[2] = p /\ r[1] # s /\ device[r] # "none"}
_upsert_device(s, p) ==
  [r \in Rows |-> IF r = <<s, p>> THEN "live"
                  ELSE IF r \in OthersOn(s, p) THEN "none" ELSE device[r]]

(* A sign-in takes the phone over; the tokens of the rows deleted go with  *)
(* them, and their sessions stay with no device.                           *)
SignIn(s, p) ==
  LET others == OthersOn(s, p)
      rows == _upsert_device(s, p)
  IN /\ Unlocked({s} \union {r[1] : r \in others})
     /\ device' = rows
     /\ login' = [r \in Rows |-> IF r = <<s, p>> THEN login[r] \union {"live"}
                                 ELSE IF r \in others /\ login[r] # {} THEN {"loose"}
                                 ELSE login[r]]
     /\ token' = [t \in Tokens |-> IF token[t] \in others THEN NoDevice ELSE token[t]]
     /\ moodleKey' = (moodleKey \union {s})
          \ forget_credentials_once_signed_out({r[1] : r \in others}, rows)
     /\ silent' = silent \ (others \union {<<s, p>>})
     /\ wants' = IF device[<<s, p>>] = "none" THEN (wants \ others) \union {<<s, p>>}
                 ELSE wants \ others
     /\ swept' = swept \ {<<s, p>>}
     /\ ousted' = [ousted EXCEPT ![<<s, p>>] = "no"]
     /\ UNCHANGED <<mix, anonymous, linked, courses, call>>

logout(r) ==
  /\ \E kind \in login[r] : login' = [login EXCEPT ![r] = @ \ {kind}]
  /\ UNCHANGED <<device, token, moodleKey, silent, anonymous, linked, wants, courses, call, notes>>

\* Mutant of SignOut: the device is deleted and its sessions stay.
SignOut_keeps_sessions(r, calling) ==
  /\ device[r] = "live"
  /\ device' = [device EXCEPT ![r] = "deleted"]
  /\ token' = [t \in Tokens |-> IF token[t] = r THEN NoDevice ELSE token[t]]
  /\ ousted' = [ousted EXCEPT ![r] = IF calling \/ "loose" \in login[r]
                                     THEN "raced" ELSE "clean"]
  /\ UNCHANGED <<mix, login, moodleKey, silent, anonymous, linked, wants, courses, swept>>

(* What delete_device and the portal's deregister_devices have in common.  *)
(* A refresh in flight may leave a live session behind (AuthSessions).     *)
SignOut(r, calling) ==
  LET rows == [device EXCEPT ![r] = "deleted"]
  IN \E refreshing \in BOOLEAN :
       /\ device[r] = "live" /\ (refreshing => "live" \in login[r])
       /\ device' = rows
       /\ login' = [login EXCEPT ![r] = IF refreshing THEN @ ELSE @ \ {"live"}]
       /\ token' = [t \in Tokens |-> IF token[t] = r THEN NoDevice ELSE token[t]]
       /\ moodleKey' = moodleKey \ forget_credentials_once_signed_out({r[1]}, rows)
       /\ linked' = [linked EXCEPT ![r[2]] = IF @ = r[1] THEN NoOne ELSE @]
       /\ ousted' = [ousted EXCEPT ![r] =
                       IF calling \/ refreshing \/ "loose" \in login[r]
                       THEN "raced" ELSE "clean"]
       /\ UNCHANGED <<mix, silent, anonymous, wants, courses, swept>>

deregister_devices(r) ==
  Unlocked({r[1]}) /\ SignOut(r, Calling(r)) /\ UNCHANGED call

(* The account is deleted with everything of it.                           *)
_delete_account(s) ==
  LET mine == {r \in Rows : r[1] = s}
  IN /\ Unlocked({s}) /\ \E r \in mine : device[r] # "none"
     /\ device' = [r \in Rows |-> IF r \in mine THEN "none" ELSE device[r]]
     /\ login' = [r \in Rows |-> IF r \in mine THEN {} ELSE login[r]]
     /\ token' = [t \in Tokens |-> IF token[t] \in mine THEN NoDevice ELSE token[t]]
     /\ linked' = [p \in Phones |-> IF linked[p] = s THEN NoOne ELSE linked[p]]
     /\ moodleKey' = moodleKey \ {s} /\ courses' = courses \ {s}
     /\ silent' = silent \ mine /\ wants' = wants \ mine
     /\ swept' = swept \ mine
     /\ ousted' = [r \in Rows |-> IF r \in mine THEN "no" ELSE ousted[r]]
     /\ UNCHANGED <<mix, anonymous, call>>

(* The daily job: rows without a session that gave no sign of life.        *)
Dead(r) == device[r] = "live" /\ "live" \notin login[r] /\ r \in silent

retire_dead_devices ==
  \E picked \in (SUBSET Students) \ {{}} :
    LET gone == {r \in Rows : r[1] \in picked /\ Dead(r)}
    IN /\ gone # {} /\ Unlocked(picked)
       /\ device' = [r \in Rows |-> IF r \in gone THEN "deleted" ELSE device[r]]
       /\ token' = [t \in Tokens |-> IF token[t] \in gone THEN NoDevice ELSE token[t]]
       /\ swept' = swept \union gone
       /\ UNCHANGED <<mix, login, moodleKey, silent, anonymous, linked, wants, courses, call, ousted>>

FallsSilent(r) ==
  /\ device[r] = "live" /\ r \notin silent
  /\ silent' = silent \union {r}
  /\ UNCHANGED <<device, login, token, moodleKey, anonymous, linked, wants, courses, call, notes>>

(* An app without an account announces itself, with a secret or none, and  *)
(* maybe a push token, which may be one the registration stores.           *)
_anonymous_access(row, secret, sends, holds, same_platform) ==
  CASE row.bound -> IF secret = "right" THEN "owner" ELSE "refused"
    [] ~row.bound /\ secret # "absent" /\ ~row.token -> "claim"
    [] ~row.bound /\ secret # "absent" /\ row.token /\ sends ->
         IF holds THEN "claim" ELSE "refused"
    [] OTHER -> IF device_secret_required \/ ~same_platform THEN "refused" ELSE "limited"

(* A refused announce writes nothing; any other is a sign of life of every *)
(* row of the phone.                                                       *)
register_anonymous_device(p) ==
  \E secret \in {"absent", "right", "wrong"}, sends \in BOOLEAN, holds \in BOOLEAN,
     same_platform \in BOOLEAN :
    LET row == anonymous[p]
        access == _anonymous_access(row, secret, sends, holds, same_platform)
    IN /\ ~(device_secret_required /\ secret = "absent")
       /\ row.there => access # "refused"
       /\ anonymous' = [anonymous EXCEPT ![p] =
            IF row.there
            THEN [there |-> TRUE, bound |-> row.bound \/ access = "claim",
                  token |-> row.token \/ sends]
            ELSE [there |-> TRUE, bound |-> secret # "absent", token |-> sends]]
       /\ silent' = {r \in silent : r[2] # p}
       /\ UNCHANGED <<device, login, token, moodleKey, linked, wants, courses, call, notes>>

(***************************************************************************)
(* Requests of a signed-in app.                                            *)
(***************************************************************************)
Done(a) == call' = [call EXCEPT ![a] = Quiet]

(* require_user: the session is live.                                      *)
require_user(a, r, handler) ==
  /\ call[a] = Quiet /\ login[r] # {}
  /\ call' = [call EXCEPT ![a] = [at |-> "let_in", row |-> r, handler |-> handler]]
  /\ UNCHANGED <<registry, notes>>

(* _bring_back reads the device in a later statement; a deleted one is     *)
(* undeleted under the account lock, which the request keeps to its end.   *)
_bring_back(a) ==
  LET back == device[call[a].row] = "deleted"
  IN /\ call[a].at = "let_in"
     /\ back => Unlocked({call[a].row[1]})
     /\ device' = IF back THEN [device EXCEPT ![call[a].row] = "live"] ELSE device
     /\ call' = [call EXCEPT ![a] = [at |-> "handler", row |-> call[a].row,
                                     handler |-> call[a].handler, locked |-> back]]
     /\ UNCHANGED <<mix, login, token, moodleKey, silent, anonymous, linked, wants, courses, swept, ousted>>

(* The token goes to this row; any other token of the row is retired.      *)
_upsert_push_token(t, r) ==
  [u \in Tokens |-> IF u = t THEN r ELSE IF token[u] = r THEN NoDevice ELSE token[u]]

(* register_device finds its row in one statement and writes it in later   *)
(* ones.  A row found deleted is read again under the lock, one found live *)
(* only gets its last_seen_at, and one not found is made.  The anonymous   *)
(* registration is linked when the request proves it owns it (_may_link).  *)
FindDevice(a) ==
  /\ call[a].at = "handler" /\ call[a].handler = "register"
  /\ call' = [call EXCEPT ![a] = [at |-> "found", row |-> call[a].row, handler |-> "register",
                                  found |-> device[call[a].row]]]
  /\ UNCHANGED <<registry, notes>>

register_device(a) ==
  LET r == call[a].row
  IN \E t \in Tokens :
       /\ call[a].at = "found" /\ TokenOf[t] = r[2]
       /\ CASE call[a].found = "live" -> device[r] # "none" /\ UNCHANGED device
            [] call[a].found = "none" ->
                 device[r] = "none" /\ device' = [device EXCEPT ![r] = "live"]
            [] call[a].found = "deleted" ->
                 Unlocked({r[1]}) /\ device' = [device EXCEPT ![r] = "live"]
       /\ token' = _upsert_push_token(t, r)
       /\ \/ UNCHANGED linked
          \/ anonymous[r[2]].there /\ linked' = [linked EXCEPT ![r[2]] = r[1]]
       /\ silent' = silent \ {r}
       /\ wants' = IF device[r] = "none" THEN wants \union {r} ELSE wants
       /\ Done(a)
       /\ UNCHANGED <<mix, login, moodleKey, anonymous, courses, swept, ousted>>

(* Its row was deleted, or made, by a sign-in meanwhile: a 500.            *)
RowChanged(a) ==
  /\ call[a].at = "found"
  /\ \/ call[a].found = "live" /\ device[call[a].row] = "none"
     \/ call[a].found = "none" /\ device[call[a].row] # "none"
  /\ Done(a)
  /\ UNCHANGED <<registry, notes>>

delete_device(a) ==
  /\ call[a].at = "handler" /\ call[a].handler = "delete"
  /\ Unlocked({call[a].row[1]}) \/ call[a].locked
  /\ \/ SignOut(call[a].row, \E b \in Apps \ {a} : call[b].at # "idle"
                                              /\ call[b].row = call[a].row)
     \/ /\ device[call[a].row] # "live"
        /\ UNCHANGED <<registry, notes>>
  /\ Done(a)

(* update_device_preferences loads the device, then waits for the sync     *)
(* lock; what it loaded stays in the session.                              *)
LoadDevice(a) ==
  /\ call[a].at = "handler" /\ call[a].handler = "preferences"
  /\ call' = IF device[call[a].row] = "live"
             THEN [call EXCEPT ![a] = [at |-> "loaded", row |-> call[a].row,
                                       handler |-> "preferences",
                                       wants |-> call[a].row \in wants]]
             ELSE [call EXCEPT ![a] = Quiet]
  /\ UNCHANGED <<registry, notes>>

(* Courses go when no active device wants them; the calling device counts  *)
(* with what was loaded and asked, the others with what is stored.         *)
_cleanup_orphaned_sync_data(r, wanted) ==
  courses' = IF wanted \/ \E o \in LiveRows(r[1]) \ {r} : o \in wants'
             THEN courses ELSE courses \ {r[1]}

update_device_preferences(a) ==
  LET r == call[a].row
  IN \E sync_courses \in {"on", "off", "unsent"} :
       LET wanted == CASE sync_courses = "on" -> TRUE
                       [] sync_courses = "off" -> FALSE
                       [] sync_courses = "unsent" -> call[a].wants
       IN /\ call[a].at = "loaded"
          /\ wants' = IF wanted = call[a].wants THEN wants
                      ELSE IF wanted THEN wants \union {r} ELSE wants \ {r}
          /\ _cleanup_orphaned_sync_data(r, wanted)
          /\ Done(a)
          /\ UNCHANGED <<mix, device, login, token, moodleKey, silent, anonymous, linked, swept, ousted>>

(* update_credentials commits, and lets go of the account with it, before  *)
(* it asks Moodle about the token it was sent.                             *)
AskMoodle(a) ==
  /\ call[a].at = "handler" /\ call[a].handler = "credentials"
  /\ call' = [call EXCEPT ![a] = [at |-> "asking", row |-> call[a].row,
                                  handler |-> "credentials"]]
  /\ UNCHANGED <<registry, notes>>

(* With the answer the account is locked again; the token is stored unless *)
(* no device is left, and not when Moodle refuses it or the account went.  *)
update_credentials(a) ==
  LET s == call[a].row[1]
  IN /\ call[a].at = "asking"
     /\ \/ UNCHANGED moodleKey
        \/ /\ Unlocked({s}) /\ LiveRows(s) # {}
           /\ moodleKey' = moodleKey \union {s}
     /\ Done(a)
     /\ UNCHANGED <<device, login, token, silent, anonymous, linked, wants, courses, notes>>

(* Any other request of the app: here an upload of courses.                *)
UploadCourses(a) ==
  /\ call[a].at = "handler" /\ call[a].handler = "upload"
  /\ courses' = courses \union {call[a].row[1]}
  /\ Done(a)
  /\ UNCHANGED <<mix, device, login, token, moodleKey, silent, anonymous, linked, wants, swept, ousted>>

AppStep(a) == \/ \E r \in Rows, h \in mix : require_user(a, r, h)
              \/ _bring_back(a) \/ FindDevice(a) \/ register_device(a) \/ RowChanged(a)
              \/ delete_device(a) \/ LoadDevice(a) \/ update_device_preferences(a)
              \/ UploadCourses(a) \/ AskMoodle(a) \/ update_credentials(a)

DevicesNext ==
  \/ \E s \in Students, p \in Phones : SignIn(s, p)
  \/ \E r \in Rows : logout(r) \/ deregister_devices(r) \/ FallsSilent(r)
  \/ \E s \in Students : _delete_account(s)
  \/ \E p \in Phones : register_anonymous_device(p)
  \/ retire_dead_devices
  \/ \E a \in Apps : AppStep(a)

DevicesSpec == DevicesInit /\ [][DevicesNext]_deviceVars

(***************************************************************************)
(* Properties.                                                             *)
(***************************************************************************)
(* A device signed out with nothing of it in flight, a refresh included,   *)
(* stays out until its student signs in on it again: it is not undeleted   *)
(* and no push token of it is active (delete_device, deregister_devices    *)
(* against _bring_back, register_device and other students' sign-ins).     *)
RemovedStaysOut ==
  \A r \in Rows : ousted[r] = "clean" =>
    device[r] # "live" /\ \A t \in Tokens : token[t] # r

(* A Moodle token is stored only for a student with a registered device,   *)
(* or whose devices the daily job retired: whichever of sign-in, sign-out, *)
(* takeover of the phone, late requests and Moodle's late answers comes    *)
(* last (forget_credentials_once_signed_out, update_credentials).          *)
MoodleTokenNeedsDevice ==
  \A s \in moodleKey : LiveRows(s) # {} \/ \E r \in swept : r[1] = s

=============================================================================
