--------------------------- MODULE BulletinFanout ---------------------------
(***************************************************************************)
(* Notifying about processed bulletins, on two tracks.  dispatch_job rings *)
(* the anonymous devices itself: per bulletin it resolves the audience,    *)
(* writes a dispatch row each, and sends, recording one send before the    *)
(* next.  dispatch_user_bulletins files push jobs for the devices of       *)
(* signed-in users, whose delivery is PushPipeline's.  The tracks do not   *)
(* ask the same question: the users' asks whether the device is signed in, *)
(* the anonymous one whether its registration is linked to a student.      *)
(* Devices sign in and out, are linked and unlinked and replace their push *)
(* tokens, and the server dies between any two steps.                      *)
(*                                                                         *)
(* Source: server/bulletins/dispatcher.py, user_dispatch.py, matcher.py,   *)
(* server/push/custom_push_targeting.py, portal/app/routes/custom_push.py, *)
(* scripts/backfill_bulletins.py.                                          *)
(***************************************************************************)
EXTENDS BulletinIntake

CONSTANTS
  Handsets,        \* device_registrations, and the user devices they link to
  Android,         \* the handsets FCM serves; APNs serves the others
  AnonymousRules,  \* handset -> enabled rows of bulletin_subscriptions
  UserRules,       \* handset -> enabled rows of user_bulletin_subscriptions
  Audience,        \* post -> handsets of the classes an operator targets, or
  NoFilter,        \* dispatch_filter_json IS NULL
  Batch,           \* batch_limit, of either track
  RetryDelay,      \* FAILED_BULLETIN_RETRY_DELAY, in ticks
  MAX_DISPATCH_ATTEMPTS,
  MaxFaults,       \* bound: errors and crashes of the fan-out
  MaxTokens,       \* bound: push tokens a handset registers
  Signing          \* bound: the handsets that sign in and out

ASSUME FanoutConstants ==
  /\ IsFiniteSet(Handsets) /\ Android \subseteq Handsets /\ Signing \subseteq Handsets
  /\ Batch \in Nat \ {0} /\ RetryDelay \in Nat /\ MAX_DISPATCH_ATTEMPTS \in Nat \ {0}

VARIABLES
  notified,     \* bulletins.notified_at IS NOT NULL
  putOff,       \* ticks until fanout_retry_at
  matched,      \* bulletin_user_match_runs
  matchPutOff,  \* ticks until match_retry_at
  disp,         \* bulletin_dispatches
  token,        \* the push token of a handset; 0 is none
  signedIn,     \* user_devices: handsets with a row whose deleted_at IS NULL
  linked,       \* device_registrations: those whose linked_user_id is not NULL
  fan,          \* where dispatch_job is
  faults,       \* how often the fan-out failed
  rang,         \* history: how often the provider took post p for handset d
  unsure,       \* history: sends whose outcome was lost
  filed,        \* history: handsets a push job was filed for
  moved,        \* history: handsets that signed in or out, were linked or
                \* unlinked while p was open
  unlinked      \* history: handsets a track took for p while they were signed
                \* in and not linked

fanVars == <<notified, putOff, matched, matchPutOff, disp, token, signedIn,
             linked, fan, faults, rang, unsure, filed, moved, unlinked>>
bulletinVars == <<intakeVars, fanVars>>

NoRow == [status |-> "none", tries |-> 0]
Idle == [at |-> "idle", todo |-> {}, rows |-> <<>>, results |-> <<>>]

FanoutInit ==
  /\ IntakeInit
  /\ notified = {} /\ matched = {}
  /\ putOff = [p \in Posts |-> 0] /\ matchPutOff = [p \in Posts |-> 0]
  /\ disp = [p \in Posts |-> [d \in Handsets |-> NoRow]]
  /\ token = [d \in Handsets |-> 1]
  /\ signedIn \in IF Happens("sign") THEN SUBSET Signing ELSE {{}}
  /\ linked \in IF Happens("sign") THEN SUBSET Signing ELSE {{}}
  /\ fan = Idle /\ faults = 0
  /\ rang = [p \in Posts |-> [d \in Handsets |-> 0]]
  /\ unsure = {}
  /\ filed = [p \in Posts |-> {}]
  /\ moved = [p \in Posts |-> {}] /\ unlinked = [p \in Posts |-> {}]

(***************************************************************************)
(* Who a bulletin is for.                                                  *)
(***************************************************************************)
(* Both tracks serve a handset that is signed in and not linked.           *)
OnBothTracks == signedIn \ linked

(* An empty list of orgs, or of tags, is a wildcard.                       *)
rule_hits(rule, class) ==
  LET orgs_ok == rule.orgs = {} \/ class.org \in rule.orgs
      tags_ok == rule.tags = {} \/ rule.tags \intersect class.tags # {}
  IN IF rule.mode = "AND" THEN orgs_ok /\ tags_ok ELSE orgs_ok \/ tags_ok

device_matches(rules, class) == \E rule \in rules : rule_hits(rule, class)

\* Mutant of match_device_ids: linked handsets are not left out.
match_device_ids_linked(p) ==
  {d \in Handsets : token[d] # 0 /\ device_matches(AnonymousRules[d], post[p].class)}

(* Handsets that are not linked, with a token and a rule that matches ...  *)
match_device_ids(p) ==
  {d \in Handsets \ linked :
     token[d] # 0 /\ device_matches(AnonymousRules[d], post[p].class)}

(* ... or in the classes an operator chose.                                *)
resolve_target_device_ids(p) == {d \in Audience[p] \ linked : token[d] # 0}

(* Passes over the bulletins are for the oldest that are due.              *)
Processed(p) == post[p].state = "processed" /\ ~post[p].gone
FirstOf(due) == {p \in due : Cardinality({q \in due : q < p}) < Batch}
Later(delays) == [p \in Posts |-> Max({delays[p] - 1, 0})]

(***************************************************************************)
(* The anonymous track.                                                    *)
(***************************************************************************)
(* A tick picks its bulletins; those put off come a tick nearer.           *)
dispatch_pending_bulletins ==
  LET due == {p \in Posts : Processed(p) /\ p \notin notified /\ Later(putOff)[p] = 0}
  IN /\ fan.at = "idle" /\ (due # {} \/ Later(putOff) # putOff)
     /\ putOff' = Later(putOff)
     /\ fan' = IF due = {} THEN Idle
               ELSE [Idle EXCEPT !.at = "resolve", !.todo = FirstOf(due)]
     /\ UNCHANGED <<intakeVars, notified, matched, matchPutOff, disp, token, signedIn,
                    linked, faults, rang, unsure, filed, moved, unlinked>>

Post == Min(fan.todo)
NextPost == LET rest == fan.todo \ {Post}
            IN IF rest = {} THEN Idle ELSE [Idle EXCEPT !.at = "resolve", !.todo = rest]

(* Step 1: a pending row for each device that has none yet.                *)
ResolveAudience ==
  /\ fan.at = "resolve" /\ Post \notin setting.bad
  /\ IF ~Exists(Post) THEN fan' = NextPost /\ UNCHANGED <<disp, unlinked>>
     ELSE LET to == IF Audience[Post] = NoFilter THEN match_device_ids(Post)
                    ELSE resolve_target_device_ids(Post)
          IN /\ disp' = [disp EXCEPT ![Post] = [d \in Handsets |->
                           IF d \in to /\ @[d].status = "none"
                           THEN [NoRow EXCEPT !.status = "pending"] ELSE @[d]]]
             /\ unlinked' = [unlinked EXCEPT ![Post] = @ \union (to \intersect OnBothTracks)]
             /\ fan' = [fan EXCEPT !.at = "read"]
  /\ UNCHANGED <<intakeVars, notified, putOff, matched, matchPutOff, token, signedIn,
                 linked, faults, rang, unsure, filed, moved>>

(* Step 2: the pending rows, with the token each device has now.           *)
ReadPending ==
  LET pending == {d \in Handsets : disp[Post][d].status = "pending"}
  IN /\ fan.at = "read"
     /\ fan' = [fan EXCEPT !.at = "send", !.rows = [d \in pending |-> token[d]]]
     /\ UNCHANGED <<intakeVars, notified, putOff, matched, matchPutOff, disp, token,
                    signedIn, linked, faults, rang, unsure, filed, moved, unlinked>>

(* The Android rows go out together, the Apple rows one at a time.         *)
Unsent == DOMAIN fan.rows
FcmChunk == {d \in Unsent \intersect Android : fan.rows[d] # 0}
Chunks == IF FcmChunk # {} THEN {FcmChunk} ELSE {{d} : d \in Unsent}
Without(rows, chunk) == [d \in DOMAIN rows \ chunk |-> rows[d]]

(* A row whose device has no token is closed without a send.               *)
_cancel_dispatch(d) ==
  /\ fan.at = "send" /\ {d} \in Chunks /\ fan.rows[d] = 0
  /\ disp' = [disp EXCEPT ![Post][d].status = IF @ = "none" THEN @ ELSE "cancelled"]
  /\ fan' = [fan EXCEPT !.rows = Without(@, {d})]
  /\ UNCHANGED <<intakeVars, notified, putOff, matched, matchPutOff, token, signedIn,
                 linked, faults, rang, unsure, filed, moved, unlinked>>

(* The provider takes the push, refuses it or its token, or takes it while *)
(* the answer is lost, which the server hears as a refusal.                *)
Answers == {"sent"} \union (IF Happens("refuse") THEN {"refused", "dead"} ELSE {})
                    \union (IF Happens("lost") THEN {"lost"} ELSE {})

Send(chunk, answer) ==
  LET taken == {d \in chunk : answer[d] \in {"sent", "lost"}}
  IN /\ fan.at = "send" /\ chunk \in Chunks /\ \A d \in chunk : fan.rows[d] # 0
     /\ rang' = [rang EXCEPT ![Post] = [d \in Handsets |->
                   IF d \in taken THEN Min({@[d] + 1, 2}) ELSE @[d]]]
     /\ unsure' = unsure \union {<<Post, d>> : d \in {e \in chunk : answer[e] = "lost"}}
     /\ fan' = [fan EXCEPT !.at = "record", !.results = answer]
     /\ UNCHANGED <<intakeVars, notified, putOff, matched, matchPutOff, disp, token,
                    signedIn, linked, faults, filed, moved, unlinked>>

Recorded(row, answer) ==
  LET tries == row.tries + 1
  IN [tries |-> tries,
      status |-> CASE answer = "sent" -> "sent"
                   [] answer = "dead" -> "cancelled"
                   [] OTHER -> IF tries >= MAX_DISPATCH_ATTEMPTS THEN "failed" ELSE "pending"]

\* Mutant of _record: the rows sent together are recorded with the last one.
_record_late ==
  LET chunk == DOMAIN fan.results
  IN /\ fan.at = "record"
     /\ disp' = IF Unsent # chunk THEN disp
                ELSE [disp EXCEPT ![Post] = [d \in Handsets |->
                        IF d \in chunk /\ @[d].status # "none"
                        THEN Recorded(@[d], fan.results[d]) ELSE @[d]]]
     /\ fan' = [fan EXCEPT !.at = "send", !.rows = Without(@, chunk), !.results = <<>>]
     /\ UNCHANGED <<intakeVars, notified, putOff, matched, matchPutOff, signedIn, linked,
                    token, faults, rang, unsure, filed, moved, unlinked>>

(* The outcomes are committed before the next send.  _forget_dead_token    *)
(* drops the token refused, unless the app registered another meanwhile.   *)
_record ==
  LET chunk == DOMAIN fan.results
  IN /\ fan.at = "record"
     /\ disp' = [disp EXCEPT ![Post] = [d \in Handsets |->
                   IF d \in chunk /\ @[d].status # "none"
                   THEN Recorded(@[d], fan.results[d]) ELSE @[d]]]
     /\ token' = [d \in Handsets |->
                    IF d \in chunk /\ fan.results[d] = "dead" /\ token[d] = fan.rows[d]
                    THEN 0 ELSE token[d]]
     /\ fan' = [fan EXCEPT !.at = "send", !.rows = Without(@, chunk), !.results = <<>>]
     /\ UNCHANGED <<intakeVars, notified, putOff, matched, matchPutOff, signedIn, linked,
                    faults, rang, unsure, filed, moved, unlinked>>

(* Step 3: with no row pending the bulletin is done.                       *)
FinishPost ==
  /\ fan.at = "send" /\ Unsent = {}
  /\ notified' = IF \E d \in Handsets : disp[Post][d].status = "pending" \/ ~Exists(Post)
                 THEN notified ELSE notified \union {Post}
  /\ fan' = NextPost
  /\ UNCHANGED <<intakeVars, putOff, matched, matchPutOff, disp, token, signedIn, linked,
                 faults, rang, unsure, filed, moved, unlinked>>

(* What the provider took and no row says.                                 *)
Unrecorded == {<<Post, d>> : d \in {e \in DOMAIN fan.results : fan.results[e] = "sent"}}

\* Mutant of _delay_retry: the next tick takes the bulletin first again.
_delay_retry_never(delayed) ==
  /\ fan.at # "idle"
  /\ Post \in setting.bad \/ (Happens("raise") /\ faults < MaxFaults)
  /\ faults' = IF Post \in setting.bad THEN faults ELSE faults + 1
  /\ unsure' = unsure \union Unrecorded
  /\ fan' = NextPost
  /\ UNCHANGED <<intakeVars, notified, putOff, matched, matchPutOff, disp, token,
                 signedIn, linked, rang, filed, moved, unlinked>>

(* An error in one bulletin's fan-out: it waits, and the next one follows. *)
(* The update that puts it off may fail too.                               *)
_delay_retry(delayed) ==
  /\ fan.at # "idle"
  /\ Post \in setting.bad \/ (Happens("raise") /\ faults < MaxFaults)
  /\ delayed \/ (Happens("raise") /\ faults < MaxFaults)
  /\ faults' = IF Post \in setting.bad /\ delayed THEN faults ELSE faults + 1
  /\ putOff' = [putOff EXCEPT ![Post] = IF delayed THEN RetryDelay ELSE @]
  /\ unsure' = unsure \union Unrecorded
  /\ fan' = NextPost
  /\ UNCHANGED <<intakeVars, notified, matched, matchPutOff, disp, token, signedIn,
                 linked, rang, filed, moved, unlinked>>

(* The server dies in a fan-out and starts again.                          *)
ServerDies ==
  /\ Happens("crash") /\ fan.at # "idle" /\ faults < MaxFaults
  /\ faults' = faults + 1
  /\ unsure' = unsure \union Unrecorded
  /\ fan' = Idle
  /\ UNCHANGED <<intakeVars, notified, putOff, matched, matchPutOff, disp, token,
                 signedIn, linked, rang, filed, moved, unlinked>>

(***************************************************************************)
(* The users' track.                                                       *)
(***************************************************************************)
(* Pass A: the signed-in devices one of whose own rules matches.           *)
UserHits(p) == {d \in signedIn : device_matches(UserRules[d], post[p].class)}

(* Pass B: every match just made gets the one push job for its devices.    *)
Filed(now) == [p \in Posts |-> IF p \in now THEN UserHits(p) ELSE filed[p]]

(* One transaction a tick: per bulletin a savepoint writes its matches and *)
(* run marker, or puts it off; then each match gets its push job.          *)
dispatch_user_bulletins(failing) ==
  LET due == {p \in Posts : /\ Processed(p) /\ p \notin matched
                            /\ Later(matchPutOff)[p] = 0}
      now == FirstOf(due)
      unlucky == failing \ setting.bad
  IN /\ now # {} \/ Later(matchPutOff) # matchPutOff
     /\ failing \subseteq now /\ now \intersect setting.bad \subseteq failing
     /\ unlucky # {} => Happens("raise") /\ faults < MaxFaults
     /\ faults' = IF unlucky = {} THEN faults ELSE faults + 1
     /\ matched' = matched \union (now \ failing)
     /\ matchPutOff' = [p \in Posts |-> IF p \in failing THEN RetryDelay
                                        ELSE Later(matchPutOff)[p]]
     /\ filed' = Filed(now \ failing)
     /\ unlinked' = [p \in Posts |-> IF p \in now \ failing
                                     THEN unlinked[p] \union (UserHits(p) \intersect OnBothTracks)
                                     ELSE unlinked[p]]
     /\ UNCHANGED <<intakeVars, notified, putOff, disp, token, signedIn, linked, fan,
                    rang, unsure, moved>>

(***************************************************************************)
(* What happens around the fan-out.                                        *)
(***************************************************************************)
(* The signed-in devices of the classes an operator chose.                 *)
Recipients(p) == Audience[p] \intersect signedIn

(* An operator's push that keeps a record: the bulletin, its run marker    *)
(* and the push jobs of signed-in devices, in one transaction.             *)
send(p) ==
  /\ Audience[p] # NoFilter /\ create_bulletin(p)
  /\ matched' = matched \union {p}
  /\ filed' = [filed EXCEPT ![p] = Recipients(p)]
  /\ unlinked' = [unlinked EXCEPT ![p] = @ \union (Recipients(p) \intersect OnBothTracks)]
  /\ UNCHANGED <<notified, putOff, matchPutOff, disp, token, signedIn, linked, fan,
                 faults, rang, unsure, moved>>

(* The backfill script stops the anonymous track for every bulletin.       *)
_suppress_future_push ==
  LET all == {p \in Posts : Exists(p)}
  IN /\ Happens("backfill") /\ ~(all \subseteq notified)
     /\ notified' = notified \union all
     /\ UNCHANGED <<intakeVars, putOff, matched, matchPutOff, disp, token, signedIn,
                    linked, fan, faults, rang, unsure, filed, moved, unlinked>>

(* The app registers a token (register_anonymous_device).                  *)
RegisterToken(d) ==
  /\ Happens("token") /\ token[d] < MaxTokens
  /\ token' = [token EXCEPT ![d] = @ + 1]
  /\ UNCHANGED <<intakeVars, notified, putOff, matched, matchPutOff, disp, signedIn,
                 linked, fan, faults, rang, unsure, filed, moved, unlinked>>

Open(p) ==
  /\ Exists(p) /\ post[p].class # NoClass
  /\ p \notin notified \/ p \notin matched \/ p \in fan.todo

(* What a change of the handset's account or link leaves alone.            *)
AccountOnly(d) ==
  /\ Happens("sign")
  /\ moved' = [p \in Posts |-> IF Open(p) THEN moved[p] \union {d} ELSE moved[p]]
  /\ UNCHANGED <<intakeVars, notified, putOff, matched, matchPutOff, disp, token, fan,
                 faults, rang, unsure, filed, unlinked>>

(* A login, or a request of a session left live (_bring_back): the device  *)
(* is signed in, and its anonymous registration is left as it is.          *)
SignIn(d) ==
  /\ d \notin signedIn /\ signedIn' = signedIn \union {d}
  /\ AccountOnly(d) /\ UNCHANGED linked

(* The signed-in app registers, which links the registration it owns       *)
(* (_may_link).                                                            *)
register_device(d) ==
  /\ d \notin linked /\ linked' = linked \union {d}
  /\ signedIn' = signedIn \union {d}
  /\ AccountOnly(d)

(* The device is removed: delete_device and the portal unlink a            *)
(* registration linked to its student, retirement does not.                *)
SignOut(d) ==
  /\ d \in signedIn /\ signedIn' = signedIn \ {d}
  /\ linked' \in {linked, linked \ {d}}
  /\ AccountOnly(d)

(* The student it is linked to leaves the handset to another one who is    *)
(* signed in there, or the student's account is deleted (ON DELETE SET     *)
(* NULL).                                                                  *)
Unlink(d) ==
  /\ d \in linked /\ linked' = linked \ {d}
  /\ AccountOnly(d) /\ UNCHANGED signedIn

(* Dispatch rows, matches and markers go with their bulletin.              *)
Prune(p) ==
  /\ retention_job(p)
  /\ disp' = [disp EXCEPT ![p] = [d \in Handsets |-> NoRow]]
  /\ matched' = matched \ {p}
  /\ UNCHANGED <<notified, putOff, matchPutOff, token, signedIn, linked, fan, faults,
                 rang, unsure, filed, moved, unlinked>>

Processing ==
  /\ \/ \E w \in Workers : \/ claim_pending_bulletins(w) \/ LookForContent(w)
                           \/ attach_body_and_dedup(w) \/ RowMissing(w)
                           \/ _mark_failed(w) \/ FailureWritten(w)
                           \/ ProcessRaises(w) \/ WorkerDies(w)
                           \/ \E class \in Classes : _process_one(w, class)
     \/ \E rows \in {board, {}} : scrape_job(rows)
     \/ \E p \in Posts : BoardChanges(p)
     \/ \E p \in Posts : \/ Audience[p] = NoFilter /\ create_bulletin(p)
                         \/ \E class \in Classes : update_bulletin(p, class)
  /\ UNCHANGED fanVars

Fanout ==
  \/ dispatch_pending_bulletins \/ ResolveAudience \/ ReadPending \/ _record \/ FinishPost
  \/ \E d \in Handsets : _cancel_dispatch(d)
  \/ \E chunk \in Chunks : \E answer \in [chunk -> Answers] : Send(chunk, answer)
  \/ _delay_retry(TRUE)

Next ==
  \/ Processing
  \/ Fanout
  \/ _delay_retry(FALSE)
  \/ ServerDies
  \/ \E failing \in SUBSET Posts : dispatch_user_bulletins(failing)
  \/ \E p \in Posts : Prune(p) \/ send(p)
  \/ _suppress_future_push
  \/ \E d \in Handsets : RegisterToken(d)
  \/ \E d \in Signing : SignIn(d) \/ register_device(d) \/ SignOut(d) \/ Unlink(d)

(* The scheduler runs both jobs every minute, and an awaited call returns. *)
Fairness ==
  /\ WF_bulletinVars(Fanout)
  /\ WF_bulletinVars(\E failing \in SUBSET Posts : dispatch_user_bulletins(failing))

Spec == FanoutInit /\ [][Next]_bulletinVars /\ Fairness

(***************************************************************************)
(* Properties.                                                             *)
(***************************************************************************)
(* An anonymous device is rung once for a bulletin, through any retry,     *)
(* restart or new token: a second ring follows only a send whose outcome   *)
(* was lost with the answer or with the server (dispatcher._dispatch_one,  *)
(* _record).                                                               *)
AnonymousOnce ==
  \A p \in Posts, d \in Handsets : rang[p][d] > 1 => <<p, d>> \in unsure

(* A device is served by one track: rung by the dispatcher and given a     *)
(* push job for the same bulletin only if it signed in or out, was linked  *)
(* or unlinked while the bulletin was being sent, or was taken by a track  *)
(* while signed in and not linked, which is for both (match_device_ids,    *)
(* resolve_target_device_ids, dispatch_user_bulletins, the portal's send). *)
OneTrack ==
  \A p \in Posts, d \in Handsets :
    rang[p][d] > 0 /\ d \in filed[p] => d \in moved[p] \/ d \in unlinked[p]

(* A bulletin whose fan-out keeps failing holds nobody up: every other     *)
(* processed bulletin is in the end fanned out on both tracks, or hidden   *)
(* (_delay_retry, match_retry_at).                                         *)
KeepsNotifying ==
  \A p \in Posts :
    Processed(p) /\ p \notin setting.bad ~>
      (p \in notified /\ p \in matched) \/ ~Processed(p)
=============================================================================
