--------------------------- MODULE BulletinIntake ---------------------------
(***************************************************************************)
(* The bulletins table up to classification.  scrape_job copies the        *)
(* school's list page into it; process_job, and the one-shot backfill      *)
(* script beside it, claim pending rows, fetch each page, drop reposts and *)
(* have the LLM classify the rest.  A claim is a committed transaction of  *)
(* its own that only counts the attempt, so the work on a row is not       *)
(* locked: fetching and classifying take minutes between transactions, a   *)
(* worker may die or raise anywhere, and the row may be claimed again or   *)
(* pruned meanwhile.                                                       *)
(*                                                                         *)
(* Source: server/bulletins/jobs.py, dedup.py, models.py,                  *)
(* scripts/backfill_bulletins.py, portal/app/routes/announcement.py.       *)
(***************************************************************************)
EXTENDS Integers, FiniteSets, FiniteSetsExt

CONSTANTS
  Posts,          \* bulletins.id, in the order of insertion
  Body,           \* post -> its title and text, as compute_content_hash sees it
  Classes,        \* what the LLM, or an operator, may say of a post
  NoClass,        \* canonical_org IS NULL
  Workers,        \* process_job, and the backfill's parallel handlers
  ProcessLimit,   \* batch_limit of a claim
  MaxProcessAttempts,  \* bulletin_max_process_attempts
  StaleCycles,    \* bulletin_stale_cycles
  MaxBoardChanges,     \* bound: times the school's page changes
  BulletinMixes   \* what happens together in a behaviour: records of the
                  \* posts `scraped`, those an operator has `made`, with their
                  \* class, the `events`, and the `bad` posts, whose fan-out
                  \* always raises

BulletinEvents == {"board", "parse", "fail", "raise", "die", "crash",
                   "refuse", "lost", "token", "sign", "portal", "backfill"}

ASSUME IntakeConstants ==
  /\ Posts \subseteq Nat /\ IsFiniteSet(Posts)
  /\ ProcessLimit \in Nat \ {0} /\ MaxProcessAttempts \in Nat \ {0}
  /\ StaleCycles \in Nat /\ NoClass \notin Classes
  /\ \A m \in BulletinMixes :
       /\ m.scraped \subseteq Posts /\ m.bad \subseteq Posts
       /\ m.events \subseteq BulletinEvents
       /\ DOMAIN m.made \subseteq Posts /\ \A p \in DOMAIN m.made : m.made[p] \in Classes
       /\ m.scraped \intersect DOMAIN m.made = {}

VARIABLES
  setting,   \* the mix of this behaviour
  board,     \* the posts on the school's list page
  turns,     \* how often the page changed
  post,      \* bulletins
  work,      \* where each worker is in the rows it claimed
  spoiled,   \* history: posts whose processing an error or a crash cut short
  outrun     \* history: posts whose last attempt was claimed while a worker
             \* that had read an earlier one was about to leave them pending

intakeVars == <<setting, board, turns, post, work, spoiled, outrun>>

NoPost == [state |-> "none", attempts |-> 0, gone |-> FALSE, unseen |-> 0,
           hash |-> FALSE, class |-> NoClass]
Exists(p) == post[p].state \notin {"none", "pruned"}
Happens(e) == e \in setting.events
Off == [at |-> "off", queue |-> {}]

IntakeInit ==
  /\ setting \in BulletinMixes
  /\ board = {} /\ turns = 0
  /\ post = [p \in Posts |-> NoPost]
  /\ work = [w \in Workers |-> Off]
  /\ spoiled = {} /\ outrun = {}

(***************************************************************************)
(* The list page and the scrape.                                           *)
(***************************************************************************)
(* The school lists a post or takes one off its page.  A post pruned long  *)
(* after it left does not come back under its id.                          *)
BoardChanges(p) ==
  /\ Happens("board") /\ p \in setting.scraped /\ turns < MaxBoardChanges
  /\ post[p].state # "pruned"
  /\ board' = IF p \in board THEN board \ {p} ELSE board \union {p}
  /\ turns' = turns + 1
  /\ UNCHANGED <<setting, post, work, spoiled, outrun>>

(* New rows are inserted pending; known ones are seen again.               *)
upsert_list_rows(rows) ==
  [p \in Posts |->
     IF p \notin rows THEN post[p]
     ELSE IF Exists(p) THEN [post[p] EXCEPT !.unseen = 0]
     ELSE [NoPost EXCEPT !.state = "pending"]]

(* A row unseen for more than StaleCycles scrapes is hidden, for good.     *)
_mark_stale_deleted(rows, table) ==
  [p \in Posts |->
     IF p \in rows \/ ~Exists(p) \/ p \notin setting.scraped THEN table[p]
     ELSE LET unseen == Min({post[p].unseen + 1, StaleCycles + 1})
          IN [table[p] EXCEPT !.unseen = unseen,
                              !.gone = @ \/ unseen > StaleCycles]]

(* A page that parses to no rows still counts as a cycle.                  *)
scrape_job(rows) ==
  /\ rows = {} => board = {} \/ Happens("parse")
  /\ post' = _mark_stale_deleted(rows, upsert_list_rows(rows))
  /\ post' # post
  /\ UNCHANGED <<setting, board, turns, work, spoiled, outrun>>

(* An operator's announcement, or the record of a custom push, is inserted *)
(* as processed.                                                           *)
create_bulletin(p) ==
  /\ p \in DOMAIN setting.made /\ post[p].state = "none"
  /\ post' = [post EXCEPT ![p] = [NoPost EXCEPT !.state = "processed",
                                                !.class = setting.made[p]]]
  /\ UNCHANGED <<setting, board, turns, work, spoiled, outrun>>

update_bulletin(p, class) ==
  /\ Happens("portal") /\ Exists(p) /\ post[p].class # class
  /\ post' = [post EXCEPT ![p].class = class]
  /\ UNCHANGED <<setting, board, turns, work, spoiled, outrun>>

(* Hidden rows that have been off the page for long are deleted.           *)
retention_job(p) ==
  /\ Exists(p) /\ post[p].gone /\ post[p].unseen > StaleCycles /\ p \notin board
  /\ post' = [post EXCEPT ![p] = [NoPost EXCEPT !.state = "pruned"]]
  /\ UNCHANGED <<setting, board, turns, work, spoiled, outrun>>

(***************************************************************************)
(* Processing: claim, fetch, compare, classify.                            *)
(***************************************************************************)
Claimable == {p \in Posts : /\ post[p].state = "pending" /\ ~post[p].gone
                            /\ post[p].attempts < MaxProcessAttempts}

InHand(w) == Min(work[w].queue)

(* The oldest claimable rows; the claim counts as an attempt and leaves    *)
(* them pending.                                                           *)
claim_pending_bulletins(w) ==
  LET claimed == {p \in Claimable : Cardinality({q \in Claimable : q < p}) < ProcessLimit}
  IN /\ work[w] = Off /\ claimed # {}
     /\ post' = [p \in Posts |-> IF p \in claimed
                                 THEN [post[p] EXCEPT !.attempts = @ + 1] ELSE post[p]]
     /\ work' = [work EXCEPT ![w] = [at |-> "detail", queue |-> claimed]]
     /\ outrun' = outrun \union
          {p \in claimed : /\ post'[p].attempts >= MaxProcessAttempts
                           /\ \E v \in Workers : work[v].at = "retry" /\ InHand(v) = p}
     /\ UNCHANGED <<setting, board, turns, spoiled>>

(* The worker goes on to its next claimed row.                             *)
NextRow(w) ==
  LET rest == work[w].queue \ {InHand(w)}
  IN work' = [work EXCEPT ![w] = IF rest = {} THEN Off ELSE [at |-> "detail", queue |-> rest]]

(* A row pruned since: session.get finds none, or attach_body_and_dedup    *)
(* raises.                                                                 *)
RowMissing(w) ==
  /\ work[w].at # "off" /\ ~Exists(InHand(w))
  /\ NextRow(w)
  /\ UNCHANGED <<setting, board, turns, post, spoiled, outrun>>

\* Mutant of _mark_failed: the last attempt is not counted as the last.
_mark_failed_off_by_one(w) ==
  LET p == InHand(w)
  IN /\ Happens("fail") /\ work[w].at \in {"detail", "classify"} /\ Exists(p)
     /\ work' = [work EXCEPT ![w].at =
                   IF post[p].attempts <= MaxProcessAttempts THEN "retry" ELSE "giveup"]
     /\ UNCHANGED <<setting, board, turns, post, spoiled, outrun>>

(* The page, or the LLM, does not answer.  Out of attempts, whoever used   *)
(* them up, the row is to fail; otherwise to wait for the next claim.  The *)
(* attempts are read without a lock ...                                    *)
_mark_failed(w) ==
  LET p == InHand(w)
  IN /\ Happens("fail") /\ work[w].at \in {"detail", "classify"} /\ Exists(p)
     /\ work' = [work EXCEPT ![w].at =
                   IF post[p].attempts < MaxProcessAttempts THEN "retry" ELSE "giveup"]
     /\ UNCHANGED <<setting, board, turns, post, spoiled, outrun>>

(* ... and the state is written whatever the row has become since.         *)
FailureWritten(w) ==
  LET p == InHand(w)
  IN /\ work[w].at \in {"retry", "giveup"} /\ Exists(p)
     /\ post' = [post EXCEPT ![p].state =
                   IF work[w].at = "retry" THEN "pending" ELSE "failed"]
     /\ NextRow(w)
     /\ UNCHANGED <<setting, board, turns, spoiled, outrun>>

SameContent(p) == {q \in Posts \ {p} : Exists(q) /\ post[q].hash /\ Body[q] = Body[p]}

(* attach_body_and_dedup looks for another row with the content ...        *)
LookForContent(w) ==
  LET p == InHand(w)
  IN /\ work[w].at = "detail" /\ Exists(p)
     /\ work' = [work EXCEPT ![w].at = IF SameContent(p) = {} THEN "new" ELSE "repost"]
     /\ UNCHANGED <<setting, board, turns, post, spoiled, outrun>>

\* Mutant of attach_body_and_dedup: no unique index over the content.
attach_body_and_dedup_unindexed(w) ==
  LET p == InHand(w)
  IN /\ work[w].at \in {"new", "repost"} /\ Exists(p)
     /\ IF work[w].at = "repost"
        THEN post' = [post EXCEPT ![p].state = "skipped"] /\ NextRow(w)
        ELSE /\ post' = [post EXCEPT ![p].hash = TRUE]
             /\ work' = [work EXCEPT ![w].at = "classify"]
     /\ UNCHANGED <<setting, board, turns, spoiled, outrun>>

(* ... and stores what it saw; the unique index refuses content another    *)
(* worker stored meanwhile, and the error leaves the row pending.          *)
attach_body_and_dedup(w) ==
  LET p == InHand(w)
  IN /\ work[w].at \in {"new", "repost"} /\ Exists(p)
     /\ IF work[w].at = "repost"
        THEN /\ post' = [post EXCEPT ![p].state = "skipped"]
             /\ NextRow(w) /\ UNCHANGED spoiled
        ELSE IF SameContent(p) # {}
        THEN NextRow(w) /\ spoiled' = spoiled \union {p} /\ UNCHANGED post
        ELSE /\ post' = [post EXCEPT ![p].hash = TRUE]
             /\ work' = [work EXCEPT ![w].at = "classify"] /\ UNCHANGED spoiled
     /\ UNCHANGED <<setting, board, turns, outrun>>

(* The LLM's answer is stored whatever the row's state has become.         *)
_process_one(w, class) ==
  LET p == InHand(w)
  IN /\ work[w].at = "classify" /\ Exists(p)
     /\ post' = [post EXCEPT ![p].state = "processed", ![p].class = class]
     /\ NextRow(w)
     /\ UNCHANGED <<setting, board, turns, spoiled, outrun>>

(* An unexpected error: process_job's guard goes on with the next row.     *)
ProcessRaises(w) ==
  /\ Happens("raise") /\ work[w].at # "off"
  /\ spoiled' = spoiled \union {InHand(w)}
  /\ NextRow(w)
  /\ UNCHANGED <<setting, board, turns, post, outrun>>

(* The worker is killed with the rows it claimed.                          *)
WorkerDies(w) ==
  /\ Happens("die") /\ work[w].at # "off"
  /\ spoiled' = spoiled \union work[w].queue
  /\ work' = [work EXCEPT ![w] = Off]
  /\ UNCHANGED <<setting, board, turns, post, outrun>>

(***************************************************************************)
(* Properties.                                                             *)
(***************************************************************************)
(* A row never waits for a worker that does not come: it is pending with   *)
(* its attempts used up only while a worker has it, or after an error or a *)
(* crash in one of its attempts, or when the last attempt was claimed      *)
(* between the two statements of another worker's _mark_failed             *)
(* (claim_pending_bulletins, _mark_failed).                                *)
PendingIsWorkedOn ==
  \A p \in Posts :
    post[p].state = "pending" /\ post[p].attempts >= MaxProcessAttempts =>
      p \in spoiled \/ p \in outrun \/ \E w \in Workers : p \in work[w].queue

(* The same content is never classified twice, so a repost never reaches   *)
(* the fan-out, whatever two workers do at once (attach_body_and_dedup,    *)
(* ix_bulletins_content_hash).                                             *)
RepostStaysSilent ==
  \A p, q \in setting.scraped :
    post[p].state = "processed" /\ post[q].state = "processed" /\ Body[p] = Body[q] => p = q

(* What claim_pending_bulletins says: two workers never pick the same row  *)
(* and race on its final state, so a processed bulletin stays processed.   *)
ProcessedStays ==
  [][\A p \in Posts : post[p].state = "processed" =>
       post'[p].state \in {"processed", "pruned"}]_intakeVars
=============================================================================
