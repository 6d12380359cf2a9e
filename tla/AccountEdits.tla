---------------------------- MODULE AccountEdits ----------------------------
(***************************************************************************)
(* What several requests of one account edit at once: a settings document  *)
(* (optimistic, by its revision), one device's bulletin rules (/v3 by      *)
(* revision, /v4 as a whole), and a bulletin's read, starred and hidden    *)
(* flags (per field, newer wins).  A transaction reads committed rows, its *)
(* own writes show when it commits, an INSERT waits for the uncommitted    *)
(* row of the same unique key, and Postgres aborts one of two transactions *)
(* that wait for each other.                                               *)
(*                                                                         *)
(* An edit is named by the request that carries it; a document or a rule   *)
(* is the set of the edits its text contains.                              *)
(*                                                                         *)
(* Source: server/routes/settings_docs.py, server/routes/bulletins_v3.py,  *)
(* server/sync/upload.py, server/sync/models/settings.py, bulletins.py,    *)
(* server/sync/serializers.py.                                             *)
(***************************************************************************)
EXTENDS Integers, FiniteSets

CONSTANTS
  Requests,
  Mixes,        \* sets of request kinds that a behaviour mixes
  Clients,      \* the client ids a /v4 app gives its rules
  Flags,        \* "read", "starred", "hidden"
  SentStamps,       \* the <flag>_updated_at times the apps send
  Nows,         \* the server's time when a request is served
  Skew,         \* MAX_CLOCK_SKEW
  Nobody        \* holds a lock that is free

Kinds == {"settings", "initial", "create", "replace", "patch", "delete", "v4", "state"}

ASSUME EditConstants ==
  /\ Mixes \subseteq SUBSET Kinds /\ Nobody \notin Requests
  /\ \A m \in Mixes :                   \* the device's app speaks /v3 or /v4
       "v4" \in m => m \intersect {"create", "replace", "patch", "delete"} = {}
  /\ SentStamps \subseteq Nat \ {0} /\ Nows \subseteq Nat /\ Skew \in Nat

VARIABLES
  mix,        \* the request kinds of this behaviour
  doc,        \* the namespace's document; revision 0 when there is none
  rules,      \* the device's live rules
  flag,       \* flag -> its value and stamp
  first_read, \* first_read_at is set
  syncLock,   \* the request that holds the user's sync-state row
  docLock,    \* the request whose write of the document is not committed
  req,        \* request -> how far it is and what it holds
  accepted,   \* the settings edits answered with success (read by no handler)
  asked,      \* the rules the last committed /v4 PUT sent (read by no handler)
  newest,     \* flag -> the newest accepted edit (read by no handler)
  raced       \* flags two overlapping requests wrote (read by no handler)

editVars == <<mix, doc, rules, flag, first_read, syncLock, docLock, req,
              accepted, asked, newest, raced>>

NoDocument == [revision |-> 0, edits |-> {}]
NoStamp == [value |-> FALSE, at |-> 0]
Waiting == [at |-> "unsent"]
Answered == [at |-> "answered"]

EditInit ==
  /\ mix \in Mixes
  /\ doc = NoDocument /\ rules = {} /\ first_read = FALSE
  /\ flag = [f \in Flags |-> NoStamp]
  /\ syncLock = Nobody /\ docLock = Nobody
  /\ req = [r \in Requests |-> Waiting]
  /\ accepted = {} /\ asked = {} /\ raced = {}
  /\ newest = [f \in Flags |-> NoStamp]

ruleVars == <<rules, asked>>
flagVars == <<flag, first_read, newest, raced>>
documentVars == <<doc, docLock, accepted>>

\* Postgres: a row lock is had at once or waited for.
Free(lock, r) == lock \in {Nobody, r}

Step(r, from, to) == req[r].at = from /\ req' = [req EXCEPT ![r] = to]
Goes(r, from, at) == req[r].at = from /\ req' = [req EXCEPT ![r].at = at]
Unsent(r, kind) == kind \in mix /\ req[r] = Waiting

(***************************************************************************)
(* Settings documents.                                                     *)
(***************************************************************************)
\* GET, then the app edits what it read and will name its revision.
read_document(r) ==
  /\ Unsent(r, "settings")
  /\ req' = [req EXCEPT ![r] = [at |-> IF doc.revision = 0 THEN "look" ELSE "cas",
                                base |-> doc.revision,
                                edits |-> doc.edits \union {r}]]
  /\ UNCHANGED <<mix, syncLock, documentVars, ruleVars, flagVars>>

\* The conflict answer carries the server's document; nothing was written.
_conflict_response(r, from) ==
  /\ Step(r, from, Answered)
  /\ UNCHANGED <<doc, docLock, accepted, syncLock>>

\* The INSERT waits for another transaction's, and succeeds if that rolled back.
Inserts(r, from) ==
  /\ docLock = Nobody /\ doc.revision = 0
  /\ docLock' = r /\ Goes(r, from, "append")

\* base_revision null: create the namespace.
CreateLooks(r) ==
  /\ \/ doc.revision # 0 /\ _conflict_response(r, "look")
     \/ doc.revision = 0 /\ Goes(r, "look", "insert") /\ UNCHANGED <<syncLock, documentVars>>
  /\ UNCHANGED <<mix, ruleVars, flagVars>>

CreateInserts(r) ==
  /\ \/ Inserts(r, "insert") /\ UNCHANGED <<doc, accepted, syncLock>>
     \/ docLock = Nobody /\ doc.revision # 0 /\ _conflict_response(r, "insert")
  /\ UNCHANGED <<mix, ruleVars, flagVars>>

\* Mutant of CompareAndSwap: the revision is compared by an earlier SELECT, not by the UPDATE.
CompareAndSwap_read_first(r) ==
  /\ req[r].at = "cas" /\ docLock = Nobody
  /\ docLock' = r /\ Goes(r, "cas", "append")
  /\ UNCHANGED <<mix, doc, accepted, syncLock, ruleVars, flagVars>>

\* UPDATE ... WHERE revision = base_revision: waits for the row, then matches or not.
CompareAndSwap(r) ==
  /\ req[r].at = "cas" /\ docLock = Nobody
  /\ \/ /\ doc.revision = req[r].base
        /\ docLock' = r /\ Goes(r, "cas", "append")
        /\ UNCHANGED <<doc, accepted, syncLock>>
     \/ doc.revision # req[r].base /\ _conflict_response(r, "cas")
  /\ UNCHANGED <<mix, ruleVars, flagVars>>

\* append_change locks the sync state; an initial upload already holds it.
AppendChange(r) ==
  /\ Free(syncLock, r) /\ syncLock' = r
  /\ Goes(r, "append", "commit")
  /\ UNCHANGED <<mix, documentVars, ruleVars, flagVars>>

CommitDocument(r) ==
  /\ Step(r, "commit", Answered)
  /\ IF docLock = r
     THEN /\ doc' = [revision |-> doc.revision + 1, edits |-> req[r].edits]
          /\ accepted' = accepted \union {r} /\ docLock' = Nobody
     ELSE UNCHANGED documentVars
  /\ syncLock' = Nobody
  /\ UNCHANGED <<mix, ruleVars, flagVars>>

\* The import's settings: first write wins, under the sync lock from the start.
import_settings(r) ==
  /\ Unsent(r, "initial") /\ syncLock = Nobody
  /\ syncLock' = r
  /\ req' = [req EXCEPT ![r] = [at |-> "import", base |-> 0, edits |-> {r}]]
  /\ UNCHANGED <<mix, documentVars, ruleVars, flagVars>>

\* Mutant of ImportLooks: the last upload wins.
ImportLooks_overwrites(r) ==
  /\ docLock = Nobody /\ docLock' = r
  /\ Goes(r, "import", "append")
  /\ UNCHANGED <<mix, doc, accepted, syncLock, ruleVars, flagVars>>

ImportLooks(r) ==
  /\ Goes(r, "import", IF doc.revision # 0 THEN "commit" ELSE "import_insert")
  /\ UNCHANGED <<mix, syncLock, documentVars, ruleVars, flagVars>>

\* session_scope: an exception rolls back and the request answers 500.
RollBack(r) ==
  /\ req' = [req EXCEPT ![r] = Answered]
  /\ docLock' = IF docLock = r THEN Nobody ELSE docLock
  /\ syncLock' = IF syncLock = r THEN Nobody ELSE syncLock
  /\ UNCHANGED <<mix, doc, accepted, ruleVars, flagVars>>

\* The import has no handler for the index: a racing create fails the whole upload.
ImportInserts(r) ==
  \/ /\ Inserts(r, "import_insert")
     /\ UNCHANGED <<mix, doc, accepted, syncLock, ruleVars, flagVars>>
  \/ /\ req[r].at = "import_insert" /\ docLock = Nobody /\ doc.revision # 0
     /\ RollBack(r)

\* Postgres: r holds the document and wants the sync state, u the other way round.
Deadlocked(r, u) ==
  /\ req[r].at = "append" /\ docLock = r /\ syncLock = u
  /\ req[u].at = "import_insert"

DeadlockDetected ==
  \E r, u \in Requests : Deadlocked(r, u) /\ \E victim \in {r, u} : RollBack(victim)

SettingsStep(r) ==
  \/ read_document(r)
  \/ CreateLooks(r)
  \/ CreateInserts(r)
  \/ CompareAndSwap(r)
  \/ import_settings(r)
  \/ ImportLooks(r)
  \/ ImportInserts(r)
  \/ AppendChange(r)
  \/ CommitDocument(r)

(***************************************************************************)
(* One device's bulletin rules.  A row inserted by /v3 takes a random      *)
(* client id; a soft-deleted row is read by no handler and leaves rules.   *)
(* "accepted" in a row is read by no handler.                              *)
(***************************************************************************)
Rule(r, client, edits) ==
  [id |-> <<r, client>>, client |-> client, edits |-> edits,
   accepted |-> edits, revision |-> 1]

_live_subscriptions == rules
WithId(id) == {rule \in rules : rule.id = id}

create_subscription(r) ==
  /\ Unsent(r, "create") /\ req' = [req EXCEPT ![r] = Answered]
  /\ rules' = rules \union {Rule(r, r, {r})}
  /\ UNCHANGED <<mix, syncLock, asked, documentVars, flagVars>>

\* /v3 PUT: the rows it read are soft-deleted and its own inserted, unlocked.
ReplaceReads(r) ==
  /\ Unsent(r, "replace")
  /\ req' = [req EXCEPT ![r] = [at |-> "replace", live |-> _live_subscriptions]]
  /\ UNCHANGED <<mix, syncLock, ruleVars, documentVars, flagVars>>

replace_subscriptions(r) ==
  /\ Step(r, "replace", Answered)
  /\ rules' = {rule \in rules : \A old \in req[r].live : old.id # rule.id}
              \union {Rule(r, r, {r})}
  /\ UNCHANGED <<mix, syncLock, asked, documentVars, flagVars>>

\* The app edits a rule it read, naming the revision it read or, on Android, none.
EditRule(r) ==
  /\ Unsent(r, "patch")
  /\ \E rule \in rules, guarded \in BOOLEAN :
       req' = [req EXCEPT ![r] = [at |-> "patch", id |-> rule.id, guarded |-> guarded,
                                  base |-> rule.revision, edits |-> rule.edits \union {r}]]
  /\ UNCHANGED <<mix, syncLock, ruleVars, documentVars, flagVars>>

\* Mutant of Matching: the UPDATE does not compare the revision.
Matching_any(r) == WithId(req[r].id)

Matching(r) ==
  {rule \in WithId(req[r].id) : req[r].guarded => rule.revision = req[r].base}

\* One UPDATE; no row matched is a conflict, or a rule that is gone.
patch_subscription(r) ==
  /\ Step(r, "patch", Answered)
  /\ rules' = {IF rule \in Matching(r)
               THEN [rule EXCEPT !.edits = req[r].edits, !.revision = @ + 1,
                                 !.accepted = IF req[r].guarded THEN @ \union {r}
                                              ELSE req[r].edits]
               ELSE rule : rule \in rules}
  /\ UNCHANGED <<mix, syncLock, asked, documentVars, flagVars>>

\* DELETE reads the row and compares the revision, if one was sent; then writes by id.
DeleteReads(r) ==
  /\ Unsent(r, "delete")
  /\ \E rule \in rules :
       \/ req' = [req EXCEPT ![r] = [at |-> "delete", id |-> rule.id]]
       \/ req' = [req EXCEPT ![r] = Answered]     \* a base_revision that is stale: 409
  /\ UNCHANGED <<mix, syncLock, ruleVars, documentVars, flagVars>>

delete_subscription(r) ==
  /\ Step(r, "delete", Answered)
  /\ rules' = {rule \in rules : rule.id # req[r].id}
  /\ UNCHANGED <<mix, syncLock, asked, documentVars, flagVars>>

\* /v4 PUT: the device's rules become the ones sent, under the sync lock.
SentRules(r) == UNION {[S -> {{}, {r}}] : S \in SUBSET Clients}

\* Mutant of lock_sync_state: the /v4 PUT does not wait for the sync lock.
lock_sync_state_free(r) == UNCHANGED syncLock

lock_sync_state(r) == syncLock = Nobody /\ syncLock' = r

ReplaceReadsV4(r) ==
  /\ Unsent(r, "v4") /\ lock_sync_state(r)
  /\ \E sent \in SentRules(r) :
       req' = [req EXCEPT ![r] = [at |-> "v4", sent |-> sent, live |-> _live_subscriptions]]
  /\ UNCHANGED <<mix, ruleVars, documentVars, flagVars>>

\* Mutant of Replaced: the rules that were not sent stay.
Replaced_keeps(live, sent, r) ==
  live \union {Rule(r, c, sent[c]) : c \in {c \in DOMAIN sent : \A l \in live : l.client # c}}

\* A live rule keeps its row, its revision moves with a changed value; the rest go.
Replaced(live, sent, r) ==
  {IF rule.edits = sent[rule.client] THEN rule
   ELSE [rule EXCEPT !.edits = sent[rule.client], !.accepted = sent[rule.client],
                     !.revision = @ + 1]
     : rule \in {l \in live : l.client \in DOMAIN sent}}
  \union {Rule(r, c, sent[c]) : c \in {c \in DOMAIN sent : \A l \in live : l.client # c}}

\* What was read leaves, what was made of it enters; two live rows of one client
\* id break the unique index and fail the request.
replace_subscriptions_v4(r) ==
  LET after == {rule \in rules : \A old \in req[r].live : old.id # rule.id}
               \union Replaced(req[r].live, req[r].sent, r)
      unique == \A a, b \in after : a.client = b.client => a = b
  IN /\ Step(r, "v4", Answered)
     /\ rules' = IF unique THEN after ELSE rules
     /\ asked' = IF unique THEN {<<c, req[r].sent[c]>> : c \in DOMAIN req[r].sent} ELSE asked
     /\ syncLock' = IF syncLock = r THEN Nobody ELSE syncLock
     /\ UNCHANGED <<mix, documentVars, flagVars>>

RuleStep(r) ==
  \/ create_subscription(r)
  \/ ReplaceReads(r)
  \/ replace_subscriptions(r)
  \/ EditRule(r)
  \/ patch_subscription(r)
  \/ DeleteReads(r)
  \/ delete_subscription(r)
  \/ ReplaceReadsV4(r)
  \/ replace_subscriptions_v4(r)

(***************************************************************************)
(* A bulletin's flags.                                                     *)
(***************************************************************************)
clamp(ts, now) == IF ts > now + Skew THEN now + Skew ELSE ts

\* The row is made sure of and read, without a lock.
StateReads(r) ==
  /\ Unsent(r, "state")
  /\ \E f \in Flags, value \in BOOLEAN, ts \in SentStamps, now \in Nows :
       req' = [req EXCEPT ![r] = [at |-> "state", field |-> f,
                                  edit |-> [value |-> value, at |-> clamp(ts, now)],
                                  flag |-> flag, first_read |-> first_read]]
  /\ UNCHANGED <<mix, syncLock, ruleVars, documentVars, flagVars>>

Newer(edit, stored) == stored.at = 0 \/ edit.at > stored.at

\* Mutant of apply_field_boolean: an older edit replaces a newer one.
apply_field_boolean_last(stored, edit) == edit

apply_field_boolean(stored, edit) == IF Newer(edit, stored) THEN edit ELSE stored

\* Mutant of Written: the whole row is written, not only the columns that changed.
Written_whole(q) == [q.flag EXCEPT ![q.field] = apply_field_boolean(@, q.edit)]

\* The session's UPDATE names the columns that differ from what was read.
Written(q) ==
  IF apply_field_boolean(q.flag[q.field], q.edit) = q.flag[q.field] THEN flag
  ELSE [flag EXCEPT ![q.field] = apply_field_boolean(q.flag[q.field], q.edit)]

put_state(r) ==
  LET q == req[r] IN
  /\ Step(r, "state", Answered)
  /\ flag' = Written(q)
  /\ first_read' = (first_read \/ (q.field = "read"
                      /\ apply_field_boolean(q.flag["read"], q.edit).value))
  /\ newest' = [newest EXCEPT ![q.field] = IF Newer(q.edit, @) THEN q.edit ELSE @]
  /\ raced' = IF flag[q.field] # q.flag[q.field] THEN raced \union {q.field} ELSE raced
  /\ UNCHANGED <<mix, syncLock, ruleVars, documentVars>>

EditNext ==
  \/ \E r \in Requests : SettingsStep(r)
  \/ \E r \in Requests : RuleStep(r)
  \/ \E r \in Requests : StateReads(r) \/ put_state(r)
  \/ DeadlockDetected

EditSpec == EditInit /\ [][EditNext]_editVars

-----------------------------------------------------------------------------
(* A settings edit the server accepted, by PUT or by the first import, is in
   the document ever after: an app that had not seen it gets a conflict
   (put_document, process_initial_upload). *)
SettingsKept == accepted \subseteq doc.edits

(* /v3: a PATCH that named the revision it had read discards no other accepted
   edit of the rule (patch_subscription).  /v4: between requests the device's
   rules are the ones of the last PUT, one row per client id
   (replace_subscriptions_v4). *)
RulesKept ==
  /\ \A rule \in rules : rule.accepted \subseteq rule.edits
  /\ mix = {"v4"} => {<<rule.client, rule.edits>> : rule \in rules} = asked

(* Every edit the server accepted lasts until the user edits over it: of the
   settings document, and of the device's bulletin rules. *)
AcceptedEditsKept == SettingsKept /\ RulesKept

(* A flag that no two overlapping requests wrote holds its newest edit, however
   the edits were ordered and whichever other flags were edited meanwhile; a
   bulletin that is read has a first reading (put_state). *)
FlagsHoldNewest ==
  /\ \A f \in Flags \ raced : flag[f] = newest[f]
  /\ ("read" \in Flags /\ flag["read"].value) => first_read
=============================================================================
