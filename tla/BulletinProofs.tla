---------------------------- MODULE BulletinProofs ----------------------------
(***************************************************************************)
(* Proofs about BulletinIntake and BulletinFanout, for any posts, workers, *)
(* handsets, rules, audiences and bounds.  None of the four invariants is  *)
(* inductive alone.  What keeps a row from being forgotten is that a       *)
(* worker about to leave it pending read an attempt that was not the last; *)
(* what keeps a repost silent is that a worker waiting for the LLM has     *)
(* stored the content of its row; what keeps a handset from being rung     *)
(* twice is that a row read as pending is pending until its outcome is     *)
(* recorded, or its post is pruned and never sent again; what keeps the    *)
(* tracks apart is that a post open on one track sees every change of      *)
(* account or link.                                                        *)
(***************************************************************************)
EXTENDS BulletinFanout, FiniteSetTheorems, WellFoundedInduction, TLAPS

(***************************************************************************)
(* The inductive invariant of the bulletins table.                         *)
(***************************************************************************)
PostRows == [state : {"none", "pending", "processed", "failed", "skipped", "pruned"},
             attempts : Nat, gone : BOOLEAN, unseen : Nat, hash : BOOLEAN,
             class : Classes \union {NoClass}]
WorkRows == [at : {"off", "detail", "new", "repost", "classify", "retry", "giveup"},
             queue : SUBSET Posts]

IntakeType ==
  /\ setting \in BulletinMixes /\ board \subseteq setting.scraped
  /\ post \in [Posts -> PostRows]
  /\ work \in [Workers -> WorkRows]
  /\ \A w \in Workers : work[w].at # "off" => work[w].queue # {}

(* A pruned post is not on the page any more, and never will be.           *)
ListedIsKept == \A p \in board : post[p].state # "pruned"

(* Workers hold rows that were inserted.                                   *)
WorkedExisted == \A w \in Workers : \A p \in work[w].queue : post[p].state # "none"

(* The LLM is asked about a row whose content is stored ...                *)
AskedIsStored ==
  \A w \in Workers : work[w].at = "classify" /\ Exists(InHand(w)) => post[InHand(w)].hash

(* ... so a scraped row it has classified has its content stored.          *)
ClassifiedIsStored ==
  \A p \in Posts : post[p].state = "processed" =>
    post[p].class # NoClass /\ (p \in setting.scraped => post[p].hash)

(* The unique index.                                                       *)
ContentIsUnique ==
  \A p, q \in Posts : Exists(p) /\ Exists(q) /\ post[p].hash /\ post[q].hash /\ p # q =>
    Body[p] # Body[q]

(* A worker about to leave its row pending read an attempt that was not    *)
(* the last one, unless the last one was claimed since.                    *)
RetryIsAllowed ==
  \A w \in Workers : work[w].at = "retry" /\ Exists(InHand(w)) =>
    post[InHand(w)].attempts < MaxProcessAttempts \/ InHand(w) \in outrun

IntakeInv == /\ IntakeType /\ ListedIsKept /\ WorkedExisted /\ AskedIsStored
             /\ ClassifiedIsStored /\ ContentIsUnique /\ RetryIsAllowed
             /\ PendingIsWorkedOn

(***************************************************************************)
(* The inductive invariant of the fan-out.                                 *)
(***************************************************************************)
Statuses == {"none", "pending", "sent", "cancelled", "failed"}
RowsRead == UNION {[D -> Nat] : D \in SUBSET Handsets}
Outcomes == UNION {[D -> {"sent", "refused", "dead", "lost"}] : D \in SUBSET Handsets}

FanRows == [at : {"idle", "resolve", "read", "send", "record"}, todo : SUBSET Posts,
            rows : RowsRead, results : Outcomes]
DispatchRows == [status : Statuses, tries : Nat]

FanoutType ==
  /\ disp \in [Posts -> [Handsets -> DispatchRows]]
  /\ token \in [Handsets -> Nat] /\ signedIn \subseteq Handsets /\ linked \subseteq Handsets
  /\ fan \in FanRows
  /\ fan.at # "idle" => fan.todo # {}
  /\ fan.at = "record" => DOMAIN fan.results \subseteq DOMAIN fan.rows
  /\ rang \in [Posts -> [Handsets -> 0..2]]
  /\ unsure \subseteq Posts \X Handsets
  /\ filed \in [Posts -> SUBSET Handsets] /\ moved \in [Posts -> SUBSET Handsets]
  /\ unlinked \in [Posts -> SUBSET Handsets]

Pruned(p) == post[p].state = "pruned"
InRows(p, d) == fan.at \in {"send", "record"} /\ p = Post /\ d \in DOMAIN fan.rows
InFlight(p, d) == /\ fan.at = "record" /\ p = Post
                  /\ d \in DOMAIN fan.results /\ fan.results[d] = "sent"

(* A row read as pending stays pending until its outcome is recorded,      *)
(* unless its post is pruned, and then the row is gone.                    *)
RowsAreOpen ==
  \A p \in Posts, d \in Handsets :
    /\ InRows(p, d) => disp[p][d].status = "pending" \/ Pruned(p)
    /\ Pruned(p) => disp[p][d].status = "none"

(* A handset rung once for a post is not rung again.                       *)
RingSettled(p, d) ==
  \/ disp[p][d].status \in {"sent", "cancelled", "failed"}
  \/ Pruned(p) /\ ~InRows(p, d)
RungOnce ==
  \A p \in Posts, d \in Handsets :
    \/ <<p, d>> \in unsure
    \/ rang[p][d] = 0
    \/ rang[p][d] = 1 /\ (RingSettled(p, d) \/ InFlight(p, d))

(* A post that either track has taken up is classified, or was pruned.     *)
TakenByRing(p, d) == disp[p][d].status # "none" \/ rang[p][d] > 0 \/ InRows(p, d)
TakenUp(p) == \/ p \in fan.todo \/ filed[p] # {}
              \/ \E d \in Handsets : TakenByRing(p, d)
TakenIsClassified ==
  \A p \in Posts : TakenUp(p) => Pruned(p) \/ (Exists(p) /\ post[p].class # NoClass)

(* The ringing track takes handsets that are not linked, the users' track  *)
(* those signed in.  Who may be on both was so when a track took it, or    *)
(* has moved since.                                                        *)
MayBeOnBoth(p, d) == d \in moved[p] \/ d \in unlinked[p]
TracksApart ==
  \A p \in Posts, d \in Handsets :
    /\ TakenByRing(p, d) /\ d \in filed[p] => MayBeOnBoth(p, d)
    /\ TakenByRing(p, d) /\ Exists(p) /\ p \notin matched /\ d \in signedIn => MayBeOnBoth(p, d)
    /\ d \in filed[p] /\ d \notin linked /\ Exists(p)
         /\ (p \notin notified \/ p \in fan.todo) => MayBeOnBoth(p, d)

FanoutInv == FanoutType /\ RowsAreOpen /\ RungOnce /\ TakenIsClassified /\ TracksApart

IndInv == IntakeInv /\ FanoutInv

(***************************************************************************)
(* The least of a set, and who comes first.                                *)
(***************************************************************************)
LEMMA MinIs ==
  ASSUME NEW S \in SUBSET Nat, S # {}
  PROVE  Min(S) \in S /\ \A x \in S : Min(S) <= x
<1> DEFINE R == {r \in Nat \X Nat : r[1] < r[2]}
<1>1. IsWellFoundedOn(R, Nat)
  <2>1. R = OpToRel(<, Nat)
    BY Zenon DEF OpToRel
  <2> QED BY <2>1, NatLessThanWellFounded, Zenon
<1>2. \A x, y \in Nat : <<x, y>> \in R <=> x < y
  OBVIOUS
<1> HIDE DEF R
<1>3. PICK x \in S : \A y \in S : ~(<<y, x>> \in R)
  BY <1>1, WFMin, Zenon
<1>4. ASSUME NEW y \in S PROVE x <= y
  <2>1. x \in Nat /\ y \in Nat
    OBVIOUS
  <2>2. ~(y < x)
    BY <1>2, <1>3, <2>1, Zenon
  <2> QED BY <2>1, <2>2
<1> QED BY <1>3, <1>4, Zenon DEF Min

LEMMA MinOfTwo ==
  ASSUME NEW a \in Nat, NEW b \in Nat
  PROVE  Min({a, b}) \in {a, b} /\ Min({a, b}) <= a /\ Min({a, b}) <= b
<1>1. {a, b} \in SUBSET Nat /\ {a, b} # {}
  OBVIOUS
<1>2. Min({a, b}) \in {a, b} /\ \A x \in {a, b} : Min({a, b}) <= x
  BY <1>1, MinIs, Zenon
<1> QED BY <1>2, Zenon

(* A pass over bulletins that are due takes at least one.                  *)
LEMMA FirstOfTakesOne ==
  ASSUME NEW due \in SUBSET Posts, due # {}
  PROVE  FirstOf(due) # {} /\ FirstOf(due) \subseteq due
<1>1. Posts \subseteq Nat /\ Batch \in Nat \ {0}
  BY IntakeConstants, FanoutConstants
<1>2. Min(due) \in due /\ \A x \in due : Min(due) <= x
  BY <1>1, MinIs
<1>3. {q \in due : q < Min(due)} = {}
  <2>1. ASSUME NEW q \in due PROVE ~(q < Min(due))
    <3>1. q \in Nat /\ Min(due) \in Nat /\ Min(due) <= q
      BY <1>1, <1>2
    <3> QED BY <3>1
  <2> QED BY <2>1, Zenon
<1>4. Cardinality({}) = 0
  BY FS_EmptySet, Zenon
<1>5. Cardinality({q \in due : q < Min(due)}) < Batch
  BY <1>1, <1>3, <1>4
<1> QED BY <1>2, <1>5 DEF FirstOf

LEMMA InHandIsClaimed ==
  ASSUME IntakeType, NEW w \in Workers, work[w].at # "off"
  PROVE  InHand(w) \in work[w].queue /\ InHand(w) \in Posts
<1>1. work[w].queue \in SUBSET Posts /\ work[w].queue # {} /\ Posts \subseteq Nat
  BY IntakeConstants DEF IntakeType, WorkRows
<1>2. work[w].queue \in SUBSET Nat
  BY <1>1
<1> QED BY <1>1, <1>2, MinIs DEF InHand

LEMMA PostIsDue ==
  ASSUME FanoutType, fan.at # "idle"
  PROVE  Post \in fan.todo /\ Post \in Posts
<1>1. fan.todo \in SUBSET Posts /\ fan.todo # {} /\ Posts \subseteq Nat
  BY IntakeConstants DEF FanoutType, FanRows
<1>2. fan.todo \in SUBSET Nat
  BY <1>1
<1> QED BY <1>1, <1>2, MinIs DEF Post

(***************************************************************************)
(* What a step does to the rows it leaves in the table.                    *)
(***************************************************************************)
Evolves(p) ==
  /\ Pruned(p) => Pruned(p)'
  /\ Exists(p) => Exists(p)' \/ Pruned(p)'
  /\ Exists(p) /\ post[p].hash => Pruned(p)' \/ post'[p].hash
  /\ Exists(p) /\ post[p].class # NoClass => Pruned(p)' \/ post'[p].class # NoClass
PostsEvolve == \A p \in Posts : Evolves(p)
PostsStay == \A p \in Posts : Exists(p) => Exists(p)'

(* The parts about workers follow for those that stay where they are.      *)
LEMMA WaitingWorkers ==
  ASSUME IntakeInv, PostsEvolve, NEW w \in Workers, work'[w] = work[w]
  PROVE  /\ \A p \in work'[w].queue : post'[p].state # "none"
         /\ work'[w].at = "classify" /\ Exists(InHand(w))' => post'[InHand(w)'].hash
<1>1. InHand(w)' = InHand(w)
  BY DEF InHand
<1>2. work[w].queue \subseteq Posts
  BY DEF IntakeInv, IntakeType, WorkRows
<1>3. ASSUME NEW p \in work[w].queue PROVE post'[p].state # "none" /\ Evolves(p)
  BY <1>2 DEF IntakeInv, WorkedExisted, PostsEvolve, Evolves, Exists, Pruned
<1>4. work[w].at = "classify" => InHand(w) \in work[w].queue
  BY InHandIsClaimed DEF IntakeInv
<1>5. ASSUME work[w].at = "classify", Exists(InHand(w))'
      PROVE  post'[InHand(w)].hash
  <2>1. Evolves(InHand(w)) /\ post[InHand(w)].state # "none"
    BY <1>3, <1>4, <1>5 DEF IntakeInv, WorkedExisted
  <2>2. Exists(InHand(w)) /\ ~Pruned(InHand(w))'
    BY <1>1, <1>5, <2>1 DEF Evolves, Exists, Pruned
  <2>3. post[InHand(w)].hash
    BY <1>5, <2>2 DEF IntakeInv, AskedIsStored
  <2> QED BY <2>1, <2>2, <2>3 DEF Evolves
<1> QED BY <1>1, <1>3, <1>5

(* So does what they have read of the attempts, as long as nobody claims.  *)
LEMMA RetriesKept ==
  ASSUME IntakeInv, PostsEvolve, outrun \subseteq outrun',
         \A w \in Workers : work'[w] = work[w] \/ work'[w].at # "retry",
         \A p \in Posts : Exists(p) /\ Exists(p)' => post'[p].attempts = post[p].attempts
  PROVE  RetryIsAllowed'
<1> SUFFICES ASSUME NEW w \in Workers, work'[w].at = "retry", Exists(InHand(w))'
             PROVE  post'[InHand(w)'].attempts < MaxProcessAttempts \/ InHand(w)' \in outrun'
  BY DEF RetryIsAllowed
<1>1. work'[w] = work[w] /\ InHand(w)' = InHand(w)
  BY DEF InHand
<1>2. InHand(w) \in work[w].queue /\ InHand(w) \in Posts
  BY <1>1, InHandIsClaimed DEF IntakeInv
<1>3. post[InHand(w)].state # "none" /\ Evolves(InHand(w))
  BY <1>2 DEF IntakeInv, WorkedExisted, PostsEvolve
<1>4. Exists(InHand(w)) /\ post'[InHand(w)].attempts = post[InHand(w)].attempts
  BY <1>1, <1>2, <1>3 DEF Evolves, Exists, Pruned
<1> QED BY <1>1, <1>4 DEF IntakeInv, RetryIsAllowed

(***************************************************************************)
(* The list page and the scrape.                                           *)
(***************************************************************************)
LEMMA IntakeInitially == IntakeInit => IntakeInv
<1> SUFFICES ASSUME IntakeInit PROVE IntakeInv
  OBVIOUS
<1>1. post = [p \in Posts |-> NoPost] /\ work = [w \in Workers |-> Off]
  BY DEF IntakeInit
<1>2. NoPost \in PostRows /\ Off \in WorkRows
  BY DEF NoPost, PostRows, Off, WorkRows
<1>3. \A p \in Posts : post[p].state = "none" /\ ~Exists(p)
  BY <1>1 DEF NoPost, Exists
<1>4. \A w \in Workers : work[w].at = "off" /\ work[w].queue = {}
  BY <1>1 DEF Off
<1>5. IntakeType
  BY <1>1, <1>2, <1>4 DEF IntakeInit, IntakeType
<1>6. board = {}
  BY DEF IntakeInit
<1> QED
  BY <1>3, <1>4, <1>5, <1>6 DEF IntakeInv, ListedIsKept, WorkedExisted, AskedIsStored,
     ClassifiedIsStored, ContentIsUnique, RetryIsAllowed, PendingIsWorkedOn

LEMMA BoardStep ==
  ASSUME IntakeInv, NEW p \in Posts, BoardChanges(p)
  PROVE  IntakeInv' /\ PostsEvolve /\ PostsStay
<1>1. UNCHANGED <<setting, post, work, spoiled, outrun>>
  BY DEF BoardChanges
<1>2. \A q \in Posts : Exists(q)' = Exists(q)
  BY <1>1 DEF Exists
<1>3. \A w \in Workers : InHand(w)' = InHand(w)
  BY <1>1 DEF InHand
<1>4. PostsEvolve /\ PostsStay
  BY <1>1, <1>2 DEF PostsEvolve, PostsStay, Evolves, Pruned
<1>5. IntakeType' /\ ListedIsKept'
  BY <1>1 DEF BoardChanges, IntakeInv, IntakeType, ListedIsKept
<1>6. WorkedExisted' /\ AskedIsStored'
  BY <1>1, <1>4, WaitingWorkers DEF IntakeInv, WorkedExisted, AskedIsStored
<1>7. ClassifiedIsStored' /\ PendingIsWorkedOn'
  BY <1>1 DEF IntakeInv, ClassifiedIsStored, PendingIsWorkedOn
<1>8. ContentIsUnique'
  BY <1>1, <1>2 DEF IntakeInv, ContentIsUnique
<1>9. RetryIsAllowed'
  BY <1>1, <1>4, RetriesKept
<1> QED BY <1>4, <1>5, <1>6, <1>7, <1>8, <1>9 DEF IntakeInv

(* What is left to show of a step that changes the table alone.            *)
LEMMA TableStep ==
  ASSUME IntakeInv, UNCHANGED <<setting, board, work>>, spoiled \subseteq spoiled',
         outrun \subseteq outrun', post' \in [Posts -> PostRows], PostsEvolve,
         \A p \in Posts : Exists(p) /\ Exists(p)' => post'[p].attempts = post[p].attempts,
         \A p \in board : ~Pruned(p)',
         \A p \in Posts : post'[p].state = "processed" =>
           post'[p].class # NoClass /\ (p \in setting.scraped => post'[p].hash),
         \A p \in Posts : Exists(p)' /\ post'[p].hash => Exists(p) /\ post[p].hash,
         \A p \in Posts : post'[p].state = "pending" =>
           \/ post[p].state = "pending" /\ post'[p].attempts = post[p].attempts
           \/ post'[p].attempts = 0
  PROVE  IntakeInv'
<1>1. IntakeType' /\ ListedIsKept'
  BY DEF IntakeInv, IntakeType, ListedIsKept, Pruned
<1>2. WorkedExisted' /\ AskedIsStored'
  BY WaitingWorkers DEF WorkedExisted, AskedIsStored
<1>3. ClassifiedIsStored'
  BY DEF ClassifiedIsStored
<1>4. ContentIsUnique'
  BY DEF IntakeInv, ContentIsUnique
<1>5. PendingIsWorkedOn'
  <2> SUFFICES ASSUME NEW p \in Posts, post'[p].state = "pending",
                      post'[p].attempts >= MaxProcessAttempts
               PROVE  p \in spoiled' \/ p \in outrun' \/ \E w \in Workers : p \in work'[w].queue
    BY DEF PendingIsWorkedOn
  <2>1. post[p].state = "pending" /\ post'[p].attempts = post[p].attempts
    BY IntakeConstants
  <2> QED BY <2>1 DEF IntakeInv, PendingIsWorkedOn
<1>6. RetryIsAllowed'
  BY RetriesKept
<1> QED BY <1>1, <1>2, <1>3, <1>4, <1>5, <1>6 DEF IntakeInv

LEMMA ScrapeStep ==
  ASSUME IntakeInv, NEW rows \in {board, {}}, scrape_job(rows)
  PROVE  IntakeInv' /\ PostsEvolve /\ PostsStay
<1> DEFINE table == upsert_list_rows(rows)
           unseen(p) == Min({post[p].unseen + 1, StaleCycles + 1})
<1>1. /\ UNCHANGED <<setting, board, turns, work, spoiled, outrun>>
      /\ post' = _mark_stale_deleted(rows, table)
  BY DEF scrape_job
<1>2. post \in [Posts -> PostRows] /\ setting \in BulletinMixes /\ rows \subseteq Posts
  BY IntakeConstants DEF IntakeInv, IntakeType
<1>3. \A p \in Posts : unseen(p) \in Nat
  <2> SUFFICES ASSUME NEW p \in Posts PROVE unseen(p) \in Nat
    OBVIOUS
  <2>1. post[p].unseen + 1 \in Nat /\ StaleCycles + 1 \in Nat
    BY <1>2, IntakeConstants DEF PostRows
  <2> QED BY <2>1, MinOfTwo
<1>4. ASSUME NEW p \in Posts
      PROVE  /\ post'[p] \in PostRows
             /\ \/ /\ post'[p].state = post[p].state /\ post'[p].hash = post[p].hash
                   /\ post'[p].class = post[p].class
                   /\ post'[p].attempts = post[p].attempts
                \/ /\ p \in board /\ ~Exists(p)
                   /\ post'[p].state = "pending" /\ ~post'[p].hash
                   /\ post'[p].attempts = 0
  <2>1. CASE p \notin rows
    <3>1. table[p] = post[p]
      BY <2>1 DEF upsert_list_rows
    <3>2. \/ post'[p] = post[p]
          \/ post'[p] = [post[p] EXCEPT !.unseen = unseen(p),
                                        !.gone = @ \/ unseen(p) > StaleCycles]
      BY <1>1, <2>1, <3>1 DEF _mark_stale_deleted
    <3>3. post[p] \in PostRows /\ unseen(p) \in Nat
      BY <1>2, <1>3
    <3> HIDE DEF unseen
    <3> QED BY <3>2, <3>3 DEF PostRows
  <2>2. CASE p \in rows
    <3>1. p \in board /\ post'[p] = table[p]
      BY <1>1, <2>2 DEF _mark_stale_deleted
    <3>2. post[p] \in PostRows
      BY <1>2
    <3>3. CASE Exists(p)
      BY <2>2, <3>1, <3>2, <3>3 DEF upsert_list_rows, PostRows
    <3>4. CASE ~Exists(p)
      <4>1. post'[p] = [NoPost EXCEPT !.state = "pending"]
        BY <2>2, <3>1, <3>4 DEF upsert_list_rows
      <4>2. post'[p] = [state |-> "pending", attempts |-> 0, gone |-> FALSE, unseen |-> 0,
                        hash |-> FALSE, class |-> NoClass]
        BY <4>1, Zenon DEF NoPost
      <4>3. post'[p].state = "pending" /\ post'[p].attempts = 0 /\ post'[p].hash = FALSE
        BY <4>2
      <4>4. post'[p] \in PostRows
        BY <4>2 DEF PostRows
      <4> QED BY <3>1, <3>4, <4>3, <4>4, Zenon
    <3> QED BY <3>3, <3>4
  <2> QED BY <2>1, <2>2
<1>5. \A p \in board : ~Pruned(p)
  BY DEF IntakeInv, ListedIsKept, Pruned
<1>6. PostsEvolve /\ PostsStay
  BY <1>4, <1>5 DEF PostsEvolve, PostsStay, Evolves, Exists, Pruned
<1>7. post' \in [Posts -> PostRows]
  <2>1. post' = [p \in Posts |-> post'[p]]
    BY <1>1 DEF _mark_stale_deleted
  <2> QED BY <1>4, <2>1
<1>8. board \subseteq Posts
  BY <1>2, IntakeConstants DEF IntakeInv, IntakeType
<1>9. \A p \in board : ~Pruned(p)'
  BY <1>4, <1>5, <1>8 DEF Pruned
<1>10. \A p \in Posts : post'[p].state = "processed" =>
         post'[p].class # NoClass /\ (p \in setting.scraped => post'[p].hash)
  BY <1>4 DEF IntakeInv, ClassifiedIsStored
<1>11. \A p \in Posts : Exists(p)' /\ post'[p].hash => Exists(p) /\ post[p].hash
  BY <1>4 DEF Exists
<1>12. \A p \in Posts : post'[p].state = "pending" =>
         \/ post[p].state = "pending" /\ post'[p].attempts = post[p].attempts
         \/ post'[p].attempts = 0
  BY <1>4
<1>13. \A p \in Posts : Exists(p) /\ Exists(p)' => post'[p].attempts = post[p].attempts
  BY <1>4
<1> HIDE DEF table
<1> QED BY <1>1, <1>6, <1>7, <1>9, <1>10, <1>11, <1>12, <1>13, TableStep

LEMMA CreateStep ==
  ASSUME IntakeInv, NEW p \in Posts, create_bulletin(p)
  PROVE  IntakeInv' /\ PostsEvolve /\ PostsStay
<1>1. /\ UNCHANGED <<setting, board, turns, work, spoiled, outrun>>
      /\ p \in DOMAIN setting.made /\ post[p].state = "none"
      /\ post' = [post EXCEPT ![p] = [NoPost EXCEPT !.state = "processed",
                                                    !.class = setting.made[p]]]
  BY DEF create_bulletin
<1>2. post \in [Posts -> PostRows] /\ setting \in BulletinMixes
  BY DEF IntakeInv, IntakeType
<1>3. p \notin setting.scraped /\ setting.made[p] \in Classes /\ setting.made[p] # NoClass
  BY <1>1, <1>2, IntakeConstants
<1>4. post'[p] = [state |-> "processed", attempts |-> 0, gone |-> FALSE, unseen |-> 0,
                  hash |-> FALSE, class |-> setting.made[p]]
  BY <1>1, <1>2 DEF NoPost
<1>5. /\ post'[p].state = "processed" /\ post'[p].class = setting.made[p]
      /\ post'[p].hash = FALSE /\ post'[p] \in PostRows
  BY <1>3, <1>4 DEF PostRows
<1>6. \A q \in Posts : q # p => post'[q] = post[q]
  BY <1>1, <1>2
<1>7. post' \in [Posts -> PostRows]
  BY <1>1, <1>2, <1>5
<1>8. PostsEvolve /\ PostsStay /\ \A q \in Posts : Pruned(q)' => Pruned(q)
  BY <1>1, <1>5, <1>6 DEF PostsEvolve, PostsStay, Evolves, Exists, Pruned
<1>9. board \subseteq Posts /\ \A q \in board : ~Pruned(q)
  BY <1>2, IntakeConstants DEF IntakeInv, IntakeType, ListedIsKept, Pruned
<1>10. \A q \in board : ~Pruned(q)'
  BY <1>8, <1>9
<1>11. \A q \in Posts : post'[q].state = "processed" =>
         post'[q].class # NoClass /\ (q \in setting.scraped => post'[q].hash)
  BY <1>3, <1>5, <1>6 DEF IntakeInv, ClassifiedIsStored
<1>12. \A q \in Posts : Exists(q)' /\ post'[q].hash => Exists(q) /\ post[q].hash
  BY <1>5, <1>6 DEF Exists
<1>13. \A q \in Posts : post'[q].state = "pending" =>
         \/ post[q].state = "pending" /\ post'[q].attempts = post[q].attempts
         \/ post'[q].attempts = 0
  BY <1>5, <1>6
<1>14. \A q \in Posts : Exists(q) /\ Exists(q)' => post'[q].attempts = post[q].attempts
  BY <1>1, <1>6 DEF Exists
<1> QED BY <1>1, <1>7, <1>8, <1>10, <1>11, <1>12, <1>13, <1>14, TableStep

LEMMA UpdateStep ==
  ASSUME IntakeInv, NEW p \in Posts, NEW class \in Classes, update_bulletin(p, class)
  PROVE  IntakeInv' /\ PostsEvolve /\ PostsStay
<1>1. /\ UNCHANGED <<setting, board, turns, work, spoiled, outrun>>
      /\ post' = [post EXCEPT ![p].class = class] /\ class # NoClass
  BY IntakeConstants DEF update_bulletin
<1>2. post \in [Posts -> PostRows] /\ setting \in BulletinMixes
  BY DEF IntakeInv, IntakeType
<1>3. /\ post' \in [Posts -> PostRows]
      /\ \A q \in Posts : /\ post'[q].state = post[q].state /\ post'[q].hash = post[q].hash
                          /\ post'[q].attempts = post[q].attempts
                          /\ post'[q].class \in {post[q].class, class}
  BY <1>1, <1>2 DEF PostRows
<1>4. PostsEvolve /\ PostsStay /\ \A q \in Posts : Pruned(q)' => Pruned(q)
  BY <1>1, <1>3 DEF PostsEvolve, PostsStay, Evolves, Exists, Pruned
<1>5. board \subseteq Posts /\ \A q \in board : ~Pruned(q)
  BY <1>2, IntakeConstants DEF IntakeInv, IntakeType, ListedIsKept, Pruned
<1>6. \A q \in board : ~Pruned(q)'
  BY <1>4, <1>5
<1>7. \A q \in Posts : post'[q].state = "processed" =>
         post'[q].class # NoClass /\ (q \in setting.scraped => post'[q].hash)
  BY <1>1, <1>3 DEF IntakeInv, ClassifiedIsStored
<1>8. \A q \in Posts : Exists(q)' /\ post'[q].hash => Exists(q) /\ post[q].hash
  BY <1>3 DEF Exists
<1> QED BY <1>1, <1>3, <1>4, <1>6, <1>7, <1>8, TableStep

LEMMA RetentionStep ==
  ASSUME IntakeInv, NEW p \in Posts, retention_job(p)
  PROVE  /\ IntakeInv' /\ PostsEvolve /\ Pruned(p)'
         /\ \A q \in Posts : q # p => post'[q] = post[q]
<1>1. /\ UNCHANGED <<setting, board, turns, work, spoiled, outrun>>
      /\ post' = [post EXCEPT ![p] = [NoPost EXCEPT !.state = "pruned"]]
      /\ p \notin board /\ Exists(p)
  BY DEF retention_job
<1>2. post \in [Posts -> PostRows] /\ setting \in BulletinMixes
  BY DEF IntakeInv, IntakeType
<1>3. post'[p] = [state |-> "pruned", attempts |-> 0, gone |-> FALSE, unseen |-> 0,
                  hash |-> FALSE, class |-> NoClass]
  BY <1>1, <1>2 DEF NoPost
<1>4. post'[p].state = "pruned" /\ post'[p].hash = FALSE /\ post'[p] \in PostRows
  BY <1>3 DEF PostRows
<1>5. \A q \in Posts : q # p => post'[q] = post[q]
  BY <1>1, <1>2
<1>6. post' \in [Posts -> PostRows]
  BY <1>1, <1>2, <1>4
<1>7. PostsEvolve /\ Pruned(p)'
  BY <1>1, <1>4, <1>5 DEF PostsEvolve, Evolves, Exists, Pruned
<1>8. board \subseteq Posts /\ \A q \in board : ~Pruned(q)
  BY <1>2, IntakeConstants DEF IntakeInv, IntakeType, ListedIsKept, Pruned
<1>9. \A q \in board : ~Pruned(q)'
  BY <1>1, <1>5, <1>8 DEF Pruned
<1>10. \A q \in Posts : post'[q].state = "processed" =>
         post'[q].class # NoClass /\ (q \in setting.scraped => post'[q].hash)
  BY <1>4, <1>5 DEF IntakeInv, ClassifiedIsStored
<1>11. \A q \in Posts : Exists(q)' /\ post'[q].hash => Exists(q) /\ post[q].hash
  BY <1>4, <1>5 DEF Exists
<1>12. \A q \in Posts : post'[q].state = "pending" =>
         \/ post[q].state = "pending" /\ post'[q].attempts = post[q].attempts
         \/ post'[q].attempts = 0
  BY <1>4, <1>5
<1>13. \A q \in Posts : Exists(q) /\ Exists(q)' => post'[q].attempts = post[q].attempts
  BY <1>4, <1>5 DEF Exists
<1> QED BY <1>1, <1>5, <1>6, <1>7, <1>9, <1>10, <1>11, <1>12, <1>13, TableStep

(***************************************************************************)
(* The workers.                                                            *)
(***************************************************************************)
(* A worker that goes on keeps the rest of its rows.                       *)
GoesOn(w) ==
  /\ work' \in [Workers -> WorkRows]
  /\ work'[w].at # "off" => work'[w].queue # {}
  /\ work'[w].at \notin {"classify", "retry"}
  /\ work'[w].queue = work[w].queue \ {InHand(w)}
  /\ \A v \in Workers : v # w => work'[v] = work[v]

LEMMA NextRowGoesOn ==
  ASSUME IntakeType, NEW w \in Workers, work[w].at # "off", NextRow(w)
  PROVE  GoesOn(w)
<1> DEFINE rest == work[w].queue \ {InHand(w)}
           to == IF rest = {} THEN Off ELSE [at |-> "detail", queue |-> rest]
<1>1. work' = [work EXCEPT ![w] = to] /\ work \in [Workers -> WorkRows]
  BY DEF NextRow, IntakeType
<1>2. rest \subseteq Posts
  BY <1>1 DEF WorkRows
<1>3. to \in WorkRows /\ to.queue = rest /\ to.at \in {"off", "detail"}
      /\ (to.at # "off" => rest # {})
  BY <1>2 DEF Off, WorkRows
<1> HIDE DEF to
<1> QED BY <1>1, <1>3 DEF GoesOn

(* What follows of a step of one worker, whatever it does to its row.      *)
LEMMA WorkStep ==
  ASSUME IntakeInv, NEW w \in Workers, UNCHANGED <<setting, board>>,
         post' \in [Posts -> PostRows], work' \in [Workers -> WorkRows],
         work'[w].at # "off" => work'[w].queue # {},
         \A v \in Workers : v # w => work'[v] = work[v],
         PostsEvolve, PostsStay,
         \A p \in work'[w].queue : post'[p].state # "none",
         work'[w].at = "classify" /\ Exists(InHand(w))' => post'[InHand(w)'].hash,
         \A p \in Posts : Pruned(p)' => Pruned(p)
  PROVE  IntakeType' /\ ListedIsKept' /\ WorkedExisted' /\ AskedIsStored'
<1>1. IntakeType'
  BY DEF IntakeInv, IntakeType
<1>2. ListedIsKept'
  <2>1. board \subseteq Posts
    BY IntakeConstants DEF IntakeInv, IntakeType
  <2> QED BY <2>1 DEF IntakeInv, ListedIsKept, Pruned
<1>3. WorkedExisted' /\ AskedIsStored'
  BY WaitingWorkers DEF WorkedExisted, AskedIsStored
<1> QED BY <1>1, <1>2, <1>3

LEMMA ClaimStep ==
  ASSUME IntakeInv, NEW w \in Workers, claim_pending_bulletins(w)
  PROVE  IntakeInv' /\ PostsEvolve /\ PostsStay
<1> DEFINE claimed == {p \in Claimable : Cardinality({q \in Claimable : q < p}) < ProcessLimit}
<1>1. /\ UNCHANGED <<setting, board, turns, spoiled>> /\ work[w] = Off /\ claimed # {}
      /\ outrun' = outrun \union
           {p \in claimed : /\ post'[p].attempts >= MaxProcessAttempts
                            /\ \E v \in Workers : work[v].at = "retry" /\ InHand(v) = p}
      /\ post' = [p \in Posts |-> IF p \in claimed
                                  THEN [post[p] EXCEPT !.attempts = @ + 1] ELSE post[p]]
      /\ work' = [work EXCEPT ![w] = [at |-> "detail", queue |-> claimed]]
  BY DEF claim_pending_bulletins
<1>2. claimed \subseteq Claimable
  OBVIOUS
<1>3. claimed \subseteq Posts /\ \A p \in claimed : post[p].state = "pending"
  BY <1>2 DEF Claimable
<1> HIDE DEF claimed
<1>4. post \in [Posts -> PostRows] /\ work \in [Workers -> WorkRows]
  BY DEF IntakeInv, IntakeType
<1>5. /\ post' \in [Posts -> PostRows]
      /\ \A p \in Posts : /\ post'[p].state = post[p].state /\ post'[p].hash = post[p].hash
                          /\ post'[p].class = post[p].class
                          /\ p \notin claimed => post'[p] = post[p]
  BY <1>1, <1>4 DEF PostRows
<1>6. /\ work' \in [Workers -> WorkRows] /\ work'[w].queue = claimed
      /\ work'[w].at = "detail" /\ \A v \in Workers : v # w => work'[v] = work[v]
  BY <1>1, <1>3, <1>4 DEF WorkRows
<1>7. PostsEvolve /\ PostsStay /\ \A p \in Posts : Pruned(p)' => Pruned(p)
  BY <1>5 DEF PostsEvolve, PostsStay, Evolves, Exists, Pruned
<1>8. \A p \in work'[w].queue : post'[p].state # "none"
  BY <1>3, <1>5, <1>6
<1>9. IntakeType' /\ ListedIsKept' /\ WorkedExisted' /\ AskedIsStored'
  BY <1>1, <1>5, <1>6, <1>7, <1>8, WorkStep
<1>10. ClassifiedIsStored' /\ ContentIsUnique'
  BY <1>1, <1>5 DEF IntakeInv, ClassifiedIsStored, ContentIsUnique, Exists
<1>11. PendingIsWorkedOn'
  <2> SUFFICES ASSUME NEW p \in Posts, post'[p].state = "pending",
                      post'[p].attempts >= MaxProcessAttempts
               PROVE  p \in spoiled' \/ p \in outrun' \/ \E v \in Workers : p \in work'[v].queue
    BY DEF PendingIsWorkedOn
  <2>1. CASE p \in claimed
    BY <1>6, <2>1
  <2>2. CASE p \notin claimed
    <3>1. p \in spoiled \/ p \in outrun \/ \E v \in Workers : p \in work[v].queue
      BY <1>5, <2>2 DEF IntakeInv, PendingIsWorkedOn
    <3>2. work[w].queue = {}
      BY <1>1 DEF Off
    <3> QED BY <1>1, <1>6, <3>1, <3>2
  <2> QED BY <2>1, <2>2
<1>12. RetryIsAllowed'
  <2> SUFFICES ASSUME NEW v \in Workers, work'[v].at = "retry", Exists(InHand(v))'
               PROVE  \/ post'[InHand(v)'].attempts < MaxProcessAttempts
                      \/ InHand(v)' \in outrun'
    BY DEF RetryIsAllowed
  <2>1. work'[v] = work[v] /\ InHand(v)' = InHand(v)
    BY <1>6 DEF InHand
  <2>2. InHand(v) \in Posts
    BY <2>1, InHandIsClaimed DEF IntakeInv
  <2>3. CASE InHand(v) \in claimed
    <3>1. post'[InHand(v)].attempts \in Nat
      BY <1>5, <2>2 DEF PostRows
    <3>2. CASE post'[InHand(v)].attempts >= MaxProcessAttempts
      BY <1>1, <2>1, <2>3, <3>2
    <3>3. CASE ~(post'[InHand(v)].attempts >= MaxProcessAttempts)
      BY <2>1, <3>1, <3>3, IntakeConstants
    <3> QED BY <3>2, <3>3
  <2>4. CASE InHand(v) \notin claimed
    <3>1. post'[InHand(v)] = post[InHand(v)] /\ Exists(InHand(v))
      BY <1>5, <2>1, <2>2, <2>4 DEF Exists
    <3> QED BY <1>1, <2>1, <3>1 DEF IntakeInv, RetryIsAllowed
  <2> QED BY <2>3, <2>4
<1> QED BY <1>7, <1>9, <1>10, <1>11, <1>12 DEF IntakeInv

(* A worker leaves its row: what the row then is decides the rest.         *)
LEMMA LeaveStep ==
  ASSUME IntakeInv, NEW w \in Workers, work[w].at # "off", GoesOn(w),
         UNCHANGED <<setting, board, outrun>>, spoiled \subseteq spoiled',
         post' \in [Posts -> PostRows],
         \A p \in Posts : p # InHand(w) => post'[p] = post[p],
         \A p \in Posts : /\ post'[p].hash = post[p].hash
                          /\ post'[p].attempts = post[p].attempts
                          /\ Exists(p)' = Exists(p) /\ Pruned(p)' = Pruned(p),
         Exists(InHand(w)) => \/ post'[InHand(w)].class = post[InHand(w)].class
                              \/ post'[InHand(w)].class # NoClass,
         post'[InHand(w)].state = "processed" =>
           /\ post'[InHand(w)].class # NoClass
           /\ InHand(w) \in setting.scraped => post[InHand(w)].hash,
         post'[InHand(w)].state = "pending" =>
           \/ InHand(w) \in spoiled' \/ InHand(w) \in outrun
           \/ post[InHand(w)].attempts < MaxProcessAttempts
  PROVE  IntakeInv' /\ PostsEvolve /\ PostsStay
<1> DEFINE mine == InHand(w)
<1>1. mine \in Posts /\ mine \in work[w].queue
  BY InHandIsClaimed DEF IntakeInv
<1> HIDE DEF mine
<1>2. PostsEvolve /\ PostsStay /\ \A p \in Posts : Pruned(p)' => Pruned(p)
  BY DEF PostsEvolve, PostsStay, Evolves, mine
<1>3. \A p \in work[w].queue : p \in Posts /\ post[p].state # "none"
  BY DEF IntakeInv, IntakeType, WorkRows, WorkedExisted
<1>4. \A p \in work'[w].queue : p \in work[w].queue
  BY DEF GoesOn
<1>5. ASSUME NEW p \in work'[w].queue PROVE post'[p].state # "none"
  <2>1. p \in Posts /\ post[p].state # "none" /\ Exists(p)' = Exists(p) /\ Pruned(p)' = Pruned(p)
    BY <1>3, <1>4
  <2> QED BY <2>1 DEF Exists, Pruned
<1>6. IntakeType' /\ ListedIsKept' /\ WorkedExisted' /\ AskedIsStored'
  BY <1>2, <1>5, WorkStep DEF GoesOn
<1>7. ClassifiedIsStored'
  <2> SUFFICES ASSUME NEW p \in Posts, post'[p].state = "processed"
               PROVE  post'[p].class # NoClass /\ (p \in setting.scraped => post'[p].hash)
    BY DEF ClassifiedIsStored
  <2>1. CASE p = mine
    BY <1>1, <2>1 DEF mine
  <2>2. CASE p # mine
    BY <2>2 DEF IntakeInv, ClassifiedIsStored, mine
  <2> QED BY <2>1, <2>2
<1>8. ContentIsUnique'
  BY DEF IntakeInv, ContentIsUnique
<1>9. PendingIsWorkedOn'
  <2> SUFFICES ASSUME NEW p \in Posts, post'[p].state = "pending",
                      post'[p].attempts >= MaxProcessAttempts
               PROVE  p \in spoiled' \/ p \in outrun' \/ \E v \in Workers : p \in work'[v].queue
    BY DEF PendingIsWorkedOn
  <2>1. CASE p = mine
    <3>1. mine \in spoiled' \/ mine \in outrun \/ post[mine].attempts < MaxProcessAttempts
      BY <2>1 DEF mine
    <3>2. post[mine].attempts \in Nat /\ post[mine].attempts >= MaxProcessAttempts
      BY <1>1, <2>1 DEF IntakeInv, IntakeType, PostRows
    <3>3. ~(post[mine].attempts < MaxProcessAttempts)
      BY <3>2, IntakeConstants
    <3> QED BY <2>1, <3>1, <3>3
  <2>2. CASE p # mine
    <3>1. p \in spoiled \/ p \in outrun \/ \E v \in Workers : p \in work[v].queue
      BY <2>2 DEF IntakeInv, PendingIsWorkedOn, mine
    <3>2. \A v \in Workers : p \in work[v].queue => p \in work'[v].queue
      BY <2>2 DEF GoesOn, mine
    <3> QED BY <3>1, <3>2
  <2> QED BY <2>1, <2>2
<1>10. RetryIsAllowed'
  BY <1>2, RetriesKept DEF GoesOn
<1> QED BY <1>2, <1>6, <1>7, <1>8, <1>9, <1>10 DEF IntakeInv

LEMMA MissingStep ==
  ASSUME IntakeInv, NEW w \in Workers, RowMissing(w)
  PROVE  IntakeInv' /\ PostsEvolve /\ PostsStay
<1>1. UNCHANGED <<setting, board, post, spoiled, outrun>> /\ NextRow(w)
      /\ work[w].at # "off" /\ ~Exists(InHand(w))
  BY DEF RowMissing
<1>2. GoesOn(w)
  BY <1>1, NextRowGoesOn DEF IntakeInv
<1>3. post' \in [Posts -> PostRows]
  BY <1>1 DEF IntakeInv, IntakeType
<1>4. post[InHand(w)].state \notin {"pending", "processed"}
  BY <1>1 DEF Exists
<1>5. \A p \in Posts : Exists(p)' = Exists(p) /\ Pruned(p)' = Pruned(p)
  BY <1>1 DEF Exists, Pruned
<1> QED BY <1>1, <1>2, <1>3, <1>4, <1>5, LeaveStep

LEMMA FailStep ==
  ASSUME IntakeInv, NEW w \in Workers, FailureWritten(w)
  PROVE  IntakeInv' /\ PostsEvolve /\ PostsStay
<1> DEFINE p == InHand(w)
           to == IF work[w].at = "retry" THEN "pending" ELSE "failed"
<1>1. /\ UNCHANGED <<setting, board, spoiled, outrun>> /\ NextRow(w) /\ work[w].at # "off"
      /\ Exists(p) /\ post' = [post EXCEPT ![p].state = to]
  BY DEF FailureWritten
<1>2. GoesOn(w)
  BY <1>1, NextRowGoesOn DEF IntakeInv
<1>3. p \in Posts /\ post \in [Posts -> PostRows]
  BY <1>1, InHandIsClaimed DEF IntakeInv, IntakeType
<1>4. /\ to \in {"pending", "failed"}
      /\ to = "pending" => post[p].attempts < MaxProcessAttempts \/ p \in outrun
  BY <1>1 DEF IntakeInv, RetryIsAllowed
<1> HIDE DEF to
<1>5. /\ post' \in [Posts -> PostRows] /\ post'[p].state = to
      /\ \A q \in Posts : /\ q # p => post'[q] = post[q]
                          /\ post'[q].hash = post[q].hash /\ post'[q].class = post[q].class
                          /\ post'[q].attempts = post[q].attempts
  BY <1>1, <1>3, <1>4 DEF PostRows
<1>6. \A q \in Posts : Exists(q)' = Exists(q) /\ Pruned(q)' = Pruned(q)
  BY <1>1, <1>4, <1>5 DEF Exists, Pruned
<1> QED BY <1>1, <1>2, <1>3, <1>4, <1>5, <1>6, LeaveStep

(* A worker that only notes what it has read of its row.                   *)
LEMMA NoteStep ==
  ASSUME IntakeInv, NEW w \in Workers, NEW at \in {"new", "repost", "retry", "giveup"},
         UNCHANGED <<setting, board, post, spoiled, outrun>>, work[w].at # "off",
         work' = [work EXCEPT ![w].at = at],
         at = "retry" => post[InHand(w)].attempts < MaxProcessAttempts
  PROVE  IntakeInv' /\ PostsEvolve /\ PostsStay
<1>1. work \in [Workers -> WorkRows] /\ work[w].queue # {}
  BY DEF IntakeInv, IntakeType
<1>2. /\ work' \in [Workers -> WorkRows] /\ work'[w].at # "classify" /\ work'[w].at = at
      /\ \A v \in Workers : work'[v].queue = work[v].queue /\ (v # w => work'[v] = work[v])
  BY <1>1 DEF WorkRows
<1>3. PostsEvolve /\ PostsStay /\ \A p \in Posts : Pruned(p)' => Pruned(p)
  BY DEF PostsEvolve, PostsStay, Evolves, Exists, Pruned
<1>4. \A p \in work'[w].queue : post'[p].state # "none"
  BY <1>2 DEF IntakeInv, WorkedExisted
<1>5. post' \in [Posts -> PostRows]
  BY DEF IntakeInv, IntakeType
<1>6. IntakeType' /\ ListedIsKept' /\ WorkedExisted' /\ AskedIsStored'
  BY <1>1, <1>2, <1>3, <1>4, <1>5, WorkStep
<1>7. ClassifiedIsStored' /\ ContentIsUnique'
  BY DEF IntakeInv, ClassifiedIsStored, ContentIsUnique, Exists
<1>8. PendingIsWorkedOn'
  BY <1>2 DEF IntakeInv, PendingIsWorkedOn
<1>9. RetryIsAllowed'
  <2>1. \A v \in Workers : InHand(v)' = InHand(v)
    BY <1>2 DEF InHand
  <2> QED BY <1>2, <2>1 DEF IntakeInv, RetryIsAllowed, Exists
<1> QED BY <1>3, <1>6, <1>7, <1>8, <1>9 DEF IntakeInv

LEMMA FailReadStep ==
  ASSUME IntakeInv, NEW w \in Workers, _mark_failed(w)
  PROVE  IntakeInv' /\ PostsEvolve /\ PostsStay
<1> DEFINE at == IF post[InHand(w)].attempts < MaxProcessAttempts THEN "retry" ELSE "giveup"
<1>1. /\ UNCHANGED <<setting, board, post, spoiled, outrun>> /\ work[w].at # "off"
      /\ work' = [work EXCEPT ![w].at = at] /\ at \in {"new", "repost", "retry", "giveup"}
      /\ at = "retry" => post[InHand(w)].attempts < MaxProcessAttempts
  BY DEF _mark_failed
<1> HIDE DEF at
<1> QED BY <1>1, NoteStep

LEMMA LookStep ==
  ASSUME IntakeInv, NEW w \in Workers, LookForContent(w)
  PROVE  IntakeInv' /\ PostsEvolve /\ PostsStay
<1> DEFINE at == IF SameContent(InHand(w)) = {} THEN "new" ELSE "repost"
<1>1. /\ UNCHANGED <<setting, board, post, spoiled, outrun>> /\ work[w].at # "off"
      /\ work' = [work EXCEPT ![w].at = at] /\ at \in {"new", "repost", "retry", "giveup"}
      /\ at # "retry"
  BY DEF LookForContent
<1> HIDE DEF at
<1> QED BY <1>1, NoteStep

(* The row's content is stored, as no other row has it: the worker goes on *)
(* to the LLM with the same row.                                           *)
LEMMA StoreStep ==
  ASSUME IntakeInv, NEW w \in Workers, work[w].at = "new", Exists(InHand(w)),
         SameContent(InHand(w)) = {}, UNCHANGED <<setting, board, spoiled, outrun>>,
         post' = [post EXCEPT ![InHand(w)].hash = TRUE],
         work' = [work EXCEPT ![w].at = "classify"]
  PROVE  IntakeInv' /\ PostsEvolve /\ PostsStay
<1> DEFINE p == InHand(w)
<1>1. p \in Posts /\ p \in work[w].queue /\ post \in [Posts -> PostRows]
      /\ work \in [Workers -> WorkRows]
  BY InHandIsClaimed DEF IntakeInv, IntakeType
<1>2. /\ work' \in [Workers -> WorkRows] /\ work'[w].queue # {}
      /\ \A v \in Workers : work'[v].queue = work[v].queue /\ (v # w => work'[v] = work[v])
  BY <1>1 DEF WorkRows
<1>3. InHand(w)' = p
  BY <1>2 DEF InHand
<1> HIDE DEF p
<1>4. /\ post' \in [Posts -> PostRows]
      /\ \A q \in Posts : /\ post'[q].state = post[q].state /\ post'[q].class = post[q].class
                          /\ post'[q].attempts = post[q].attempts
                          /\ q # p => post'[q] = post[q]
  BY <1>1, ZenonT(60) DEF PostRows, p
<1>5. post'[p].hash = TRUE
  BY <1>1 DEF PostRows, p
<1>6. \A q \in Posts : Exists(q)' = Exists(q) /\ Pruned(q)' = Pruned(q)
  BY <1>4 DEF Exists, Pruned
<1>7. PostsEvolve /\ PostsStay /\ \A q \in Posts : Pruned(q)' => Pruned(q)
  BY <1>4, <1>5, <1>6 DEF PostsEvolve, PostsStay, Evolves
<1>8. \A q \in work'[w].queue : q \in Posts /\ post[q].state # "none"
  BY <1>1, <1>2 DEF IntakeInv, WorkedExisted, WorkRows
<1>9. \A q \in work'[w].queue : post'[q].state # "none"
  BY <1>4, <1>8
<1>10. IntakeType' /\ ListedIsKept' /\ WorkedExisted' /\ AskedIsStored'
  BY <1>2, <1>3, <1>4, <1>5, <1>7, <1>9, WorkStep
<1>11. ClassifiedIsStored'
  <2> SUFFICES ASSUME NEW q \in Posts, post'[q].state = "processed"
               PROVE  post'[q].class # NoClass /\ (q \in setting.scraped => post'[q].hash)
    BY DEF ClassifiedIsStored
  <2> QED BY <1>4, <1>5 DEF IntakeInv, ClassifiedIsStored
<1>12. ContentIsUnique'
  <2>1. \A q \in Posts : q # p /\ Exists(q) /\ post[q].hash => Body[q] # Body[p]
    BY DEF SameContent, p
  <2>2. \A q \in Posts : /\ Exists(q)' => Exists(q)
                         /\ q # p /\ post'[q].hash => post[q].hash
    BY <1>4, <1>6
  <2> SUFFICES ASSUME NEW q \in Posts, NEW r \in Posts, Exists(q)', Exists(r)',
                      post'[q].hash, post'[r].hash, q # r
               PROVE  Body[q] # Body[r]
    BY DEF ContentIsUnique
  <2>3. CASE q = p \/ r = p
    BY <2>1, <2>2, <2>3
  <2>4. CASE q # p /\ r # p
    BY <2>2, <2>4 DEF IntakeInv, ContentIsUnique
  <2> QED BY <2>3, <2>4
<1>13. PendingIsWorkedOn'
  BY <1>2, <1>4 DEF IntakeInv, PendingIsWorkedOn
<1>14. RetryIsAllowed'
  <2>1. work'[w].at # "retry"
    BY <1>1
  <2> QED BY <1>2, <1>4, <1>7, <2>1, RetriesKept
<1> QED BY <1>7, <1>10, <1>11, <1>12, <1>13, <1>14 DEF IntakeInv

LEMMA AttachStep ==
  ASSUME IntakeInv, NEW w \in Workers, attach_body_and_dedup(w)
  PROVE  IntakeInv' /\ PostsEvolve /\ PostsStay
<1> DEFINE p == InHand(w)
<1>1. work[w].at \in {"new", "repost"} /\ Exists(p) /\ UNCHANGED <<setting, board, outrun>>
  BY DEF attach_body_and_dedup
<1>2. p \in Posts /\ post \in [Posts -> PostRows]
  BY <1>1, InHandIsClaimed DEF IntakeInv, IntakeType
<1>3. CASE work[w].at = "repost"
  <2>1. NextRow(w) /\ UNCHANGED spoiled /\ post' = [post EXCEPT ![p].state = "skipped"]
    BY <1>3 DEF attach_body_and_dedup
  <2>2. GoesOn(w)
    BY <1>3, <2>1, NextRowGoesOn DEF IntakeInv
  <2>3. /\ post' \in [Posts -> PostRows] /\ post'[p].state = "skipped"
        /\ \A q \in Posts : /\ q # p => post'[q] = post[q]
                            /\ post'[q].hash = post[q].hash /\ post'[q].class = post[q].class
                            /\ post'[q].attempts = post[q].attempts
    BY <1>2, <2>1 DEF PostRows
  <2>4. \A q \in Posts : Exists(q)' = Exists(q) /\ Pruned(q)' = Pruned(q)
    BY <1>1, <2>3 DEF Exists, Pruned
  <2> QED BY <1>1, <1>2, <1>3, <2>1, <2>2, <2>3, <2>4, LeaveStep
<1>4. CASE work[w].at # "repost" /\ SameContent(p) # {}
  <2>1. NextRow(w) /\ spoiled' = spoiled \union {p} /\ UNCHANGED post
    BY <1>4 DEF attach_body_and_dedup
  <2>2. GoesOn(w)
    BY <1>1, <2>1, NextRowGoesOn DEF IntakeInv
  <2>3. \A q \in Posts : Exists(q)' = Exists(q) /\ Pruned(q)' = Pruned(q)
    BY <2>1 DEF Exists, Pruned
  <2>4. post[p].state = "processed" =>
          post[p].class # NoClass /\ (p \in setting.scraped => post[p].hash)
    BY <1>2 DEF IntakeInv, ClassifiedIsStored
  <2> QED BY <1>1, <1>2, <2>1, <2>2, <2>3, <2>4, LeaveStep
<1>5. CASE work[w].at # "repost" /\ SameContent(p) = {}
  <2>1. /\ post' = [post EXCEPT ![p].hash = TRUE]
        /\ work' = [work EXCEPT ![w].at = "classify"] /\ UNCHANGED spoiled
    BY <1>5 DEF attach_body_and_dedup
  <2> QED BY <1>1, <1>5, <2>1, StoreStep
<1> QED BY <1>3, <1>4, <1>5

LEMMA ClassifyStep ==
  ASSUME IntakeInv, NEW w \in Workers, NEW class \in Classes, _process_one(w, class)
  PROVE  IntakeInv' /\ PostsEvolve /\ PostsStay
<1> DEFINE p == InHand(w)
<1>1. /\ UNCHANGED <<setting, board, spoiled, outrun>> /\ NextRow(w)
      /\ work[w].at = "classify" /\ Exists(p) /\ class # NoClass
      /\ post' = [post EXCEPT ![p].state = "processed", ![p].class = class]
  BY IntakeConstants DEF _process_one
<1>2. GoesOn(w)
  BY <1>1, NextRowGoesOn DEF IntakeInv
<1>3. p \in Posts /\ post \in [Posts -> PostRows]
  BY <1>1, InHandIsClaimed DEF IntakeInv, IntakeType
<1>4. post[p].hash
  BY <1>1 DEF IntakeInv, AskedIsStored
<1>5. /\ post' \in [Posts -> PostRows] /\ post'[p].state = "processed" /\ post'[p].class = class
      /\ \A q \in Posts : /\ q # p => post'[q] = post[q]
                          /\ post'[q].hash = post[q].hash
                          /\ post'[q].attempts = post[q].attempts
  BY <1>1, <1>3, ZenonT(60) DEF PostRows
<1>6. \A q \in Posts : Exists(q)' = Exists(q) /\ Pruned(q)' = Pruned(q)
  BY <1>1, <1>5 DEF Exists, Pruned
<1> QED BY <1>1, <1>2, <1>3, <1>4, <1>5, <1>6, LeaveStep

LEMMA RaiseStep ==
  ASSUME IntakeInv, NEW w \in Workers, ProcessRaises(w)
  PROVE  IntakeInv' /\ PostsEvolve /\ PostsStay
<1> DEFINE p == InHand(w)
<1>1. /\ UNCHANGED <<setting, board, post, outrun>> /\ NextRow(w)
      /\ work[w].at # "off" /\ spoiled' = spoiled \union {p}
  BY DEF ProcessRaises
<1>2. GoesOn(w)
  BY <1>1, NextRowGoesOn DEF IntakeInv
<1>3. p \in Posts /\ post \in [Posts -> PostRows]
  BY <1>1, InHandIsClaimed DEF IntakeInv, IntakeType
<1>4. \A q \in Posts : Exists(q)' = Exists(q) /\ Pruned(q)' = Pruned(q)
  BY <1>1 DEF Exists, Pruned
<1>5. post[p].state = "processed" =>
        post[p].class # NoClass /\ (p \in setting.scraped => post[p].hash)
  BY <1>3 DEF IntakeInv, ClassifiedIsStored
<1> QED BY <1>1, <1>2, <1>3, <1>4, <1>5, LeaveStep

LEMMA DieStep ==
  ASSUME IntakeInv, NEW w \in Workers, WorkerDies(w)
  PROVE  IntakeInv' /\ PostsEvolve /\ PostsStay
<1>1. /\ UNCHANGED <<setting, board, post, outrun>> /\ work' = [work EXCEPT ![w] = Off]
      /\ spoiled' = spoiled \union work[w].queue
  BY DEF WorkerDies
<1>2. post \in [Posts -> PostRows] /\ work \in [Workers -> WorkRows]
  BY DEF IntakeInv, IntakeType
<1>3. /\ work' \in [Workers -> WorkRows] /\ work'[w].at = "off" /\ work'[w].queue = {}
      /\ \A v \in Workers : v # w => work'[v] = work[v]
  BY <1>1, <1>2 DEF WorkRows, Off
<1>4. PostsEvolve /\ PostsStay /\ \A p \in Posts : Pruned(p)' => Pruned(p)
  BY <1>1 DEF PostsEvolve, PostsStay, Evolves, Exists, Pruned
<1>5. IntakeType' /\ ListedIsKept' /\ WorkedExisted' /\ AskedIsStored'
  BY <1>1, <1>2, <1>3, <1>4, WorkStep
<1>6. ClassifiedIsStored' /\ ContentIsUnique'
  BY <1>1 DEF IntakeInv, ClassifiedIsStored, ContentIsUnique, Exists
<1>7. PendingIsWorkedOn'
  <2> SUFFICES ASSUME NEW p \in Posts, post'[p].state = "pending",
                      post'[p].attempts >= MaxProcessAttempts
               PROVE  p \in spoiled' \/ p \in outrun' \/ \E v \in Workers : p \in work'[v].queue
    BY DEF PendingIsWorkedOn
  <2>1. p \in spoiled \/ p \in outrun \/ \E v \in Workers : p \in work[v].queue
    BY <1>1 DEF IntakeInv, PendingIsWorkedOn
  <2> QED BY <1>1, <1>3, <2>1
<1>8. RetryIsAllowed'
  BY <1>1, <1>3, <1>4, RetriesKept
<1> QED BY <1>4, <1>5, <1>6, <1>7, <1>8 DEF IntakeInv

LEMMA ProcessingStep ==
  ASSUME IntakeInv, Processing
  PROVE  IntakeInv' /\ PostsEvolve /\ PostsStay /\ UNCHANGED fanVars
<1>1. ASSUME NEW w \in Workers,
             \/ claim_pending_bulletins(w) \/ LookForContent(w) \/ attach_body_and_dedup(w)
             \/ RowMissing(w) \/ _mark_failed(w) \/ FailureWritten(w)
             \/ ProcessRaises(w) \/ WorkerDies(w)
             \/ \E class \in Classes : _process_one(w, class)
      PROVE  IntakeInv' /\ PostsEvolve /\ PostsStay
  BY <1>1, ClaimStep, LookStep, AttachStep, MissingStep, FailReadStep, FailStep,
     RaiseStep, DieStep, ClassifyStep
<1>2. ASSUME NEW rows \in {board, {}}, scrape_job(rows)
      PROVE  IntakeInv' /\ PostsEvolve /\ PostsStay
  BY <1>2, ScrapeStep
<1>3. ASSUME NEW p \in Posts, \/ BoardChanges(p) \/ create_bulletin(p)
                              \/ \E class \in Classes : update_bulletin(p, class)
      PROVE  IntakeInv' /\ PostsEvolve /\ PostsStay
  BY <1>3, BoardStep, CreateStep, UpdateStep
<1> QED BY <1>1, <1>2, <1>3, Zenon DEF Processing

(***************************************************************************)
(* The fan-out.                                                            *)
(***************************************************************************)
LEMMA TableUnchanged ==
  ASSUME IntakeInv, UNCHANGED intakeVars
  PROVE  /\ IntakeInv'
         /\ \A p \in Posts : Exists(p)' = Exists(p) /\ Pruned(p)' = Pruned(p)
<1>1. UNCHANGED <<setting, board, turns, post, work, spoiled, outrun>>
  BY DEF intakeVars
<1>2. \A p \in Posts : Exists(p)' = Exists(p) /\ Pruned(p)' = Pruned(p)
  BY <1>1 DEF Exists, Pruned
<1>3. IntakeType' /\ ListedIsKept' /\ WorkedExisted'
  BY <1>1 DEF IntakeInv, IntakeType, ListedIsKept, WorkedExisted
<1>4. AskedIsStored'
  BY <1>1 DEF IntakeInv, AskedIsStored, InHand, Exists
<1>5. ClassifiedIsStored' /\ PendingIsWorkedOn'
  BY <1>1 DEF IntakeInv, ClassifiedIsStored, PendingIsWorkedOn
<1>6. ContentIsUnique'
  BY <1>1 DEF IntakeInv, ContentIsUnique, Exists
<1>7. RetryIsAllowed'
  BY <1>1 DEF IntakeInv, RetryIsAllowed, InHand, Exists
<1> QED BY <1>2, <1>3, <1>4, <1>5, <1>6, <1>7 DEF IntakeInv

LEMMA NothingRead == <<>> \in RowsRead /\ <<>> \in Outcomes /\ Idle \in FanRows
<1>1. <<>> \in [{} -> Nat] /\ <<>> \in [{} -> {"sent", "refused", "dead", "lost"}]
  OBVIOUS
<1>2. {} \in SUBSET Handsets
  OBVIOUS
<1>3. <<>> \in RowsRead
  BY <1>1, <1>2 DEF RowsRead
<1>4. <<>> \in Outcomes
  BY <1>1, <1>2 DEF Outcomes
<1> QED BY <1>3, <1>4 DEF Idle, FanRows

LEMMA NextPostIs ==
  ASSUME FanoutType, fan.at # "idle"
  PROVE  /\ NextPost \in FanRows /\ NextPost.at \in {"idle", "resolve"}
         /\ NextPost.at # "idle" => NextPost.todo # {}
         /\ NextPost.todo \subseteq fan.todo
<1> DEFINE rest == fan.todo \ {Post}
<1>1. fan.todo \subseteq Posts
  BY DEF FanoutType, FanRows
<1>2. NextPost = IF rest = {} THEN Idle ELSE [Idle EXCEPT !.at = "resolve", !.todo = rest]
  BY DEF NextPost
<1>3. CASE rest = {}
  <2>1. NextPost = Idle /\ Idle.at = "idle" /\ Idle.todo = {}
    BY <1>2, <1>3 DEF Idle
  <2> QED BY <2>1, NothingRead
<1>4. CASE rest # {}
  <2>1. NextPost = [at |-> "resolve", todo |-> rest, rows |-> <<>>, results |-> <<>>]
    BY <1>2, <1>4 DEF Idle
  <2>2. rest \in SUBSET Posts /\ rest \subseteq fan.todo
    BY <1>1
  <2> HIDE DEF rest
  <2> QED BY <1>4, <2>1, <2>2, NothingRead DEF FanRows
<1> QED BY <1>3, <1>4

LEMMA FanoutInitially == FanoutInit => IndInv
<1> SUFFICES ASSUME FanoutInit PROVE IndInv
  OBVIOUS
<1>1. IntakeInv
  BY IntakeInitially DEF FanoutInit
<1>2. /\ fan = Idle /\ fan.at = "idle" /\ fan.todo = {}
      /\ \A p \in Posts : ~Pruned(p) /\ filed[p] = {}
      /\ \A p \in Posts, d \in Handsets : disp[p][d].status = "none" /\ rang[p][d] = 0
  BY DEF FanoutInit, IntakeInit, Idle, NoRow, NoPost, Pruned
<1>3. FanoutType
  <2>1. disp \in [Posts -> [Handsets -> DispatchRows]]
    BY DEF FanoutInit, NoRow, DispatchRows, Statuses
  <2>2. /\ token \in [Handsets -> Nat] /\ signedIn \subseteq Handsets /\ linked \subseteq Handsets
        /\ rang \in [Posts -> [Handsets -> 0..2]] /\ unsure = {}
        /\ filed \in [Posts -> SUBSET Handsets] /\ moved \in [Posts -> SUBSET Handsets]
        /\ unlinked \in [Posts -> SUBSET Handsets]
    BY FanoutConstants DEF FanoutInit
  <2> QED BY <1>2, <2>1, <2>2, NothingRead DEF FanoutType
<1>4. RowsAreOpen /\ RungOnce
  BY <1>2 DEF RowsAreOpen, RungOnce, InRows
<1>5. TakenIsClassified /\ TracksApart
  BY <1>2 DEF TakenIsClassified, TracksApart, TakenUp, TakenByRing, InRows
<1> QED BY <1>1, <1>3, <1>4, <1>5 DEF IndInv, FanoutInv

(* A step of the intake, or an operator's push, disturbs no ring.          *)
LEMMA IntakeKeepsRings ==
  ASSUME IndInv, PostsEvolve, PostsStay, UNCHANGED <<disp, fan, rang, unsure>>
  PROVE  /\ RowsAreOpen' /\ RungOnce'
         /\ \A p \in Posts, d \in Handsets : TakenByRing(p, d)' = TakenByRing(p, d)
         /\ \A p \in Posts : TakenUp(p) => (Exists(p)' => Exists(p)) /\ (Pruned(p)' => Pruned(p))
<1>1. Post' = Post
  BY DEF Post
<1>2. \A p \in Posts, d \in Handsets :
        InRows(p, d)' = InRows(p, d) /\ InFlight(p, d)' = InFlight(p, d)
  BY <1>1 DEF InRows, InFlight
<1>3. \A p \in Posts, d \in Handsets : TakenByRing(p, d)' = TakenByRing(p, d)
  BY <1>2 DEF TakenByRing
<1>4. \A p \in Posts :
        /\ Pruned(p) => Pruned(p)'
        /\ TakenUp(p) => (Exists(p)' => Exists(p)) /\ (Pruned(p)' => Pruned(p))
  BY DEF IndInv, FanoutInv, TakenIsClassified, PostsEvolve, PostsStay, Evolves, Exists, Pruned
<1>5. \A p \in Posts, d \in Handsets : disp[p][d].status # "none" => TakenUp(p)
  BY DEF TakenUp, TakenByRing
<1>6. RowsAreOpen'
  BY <1>2, <1>4, <1>5 DEF IndInv, FanoutInv, RowsAreOpen
<1>7. RungOnce'
  BY <1>2, <1>4 DEF IndInv, FanoutInv, RungOnce, RingSettled
<1> QED BY <1>3, <1>4, <1>6, <1>7

LEMMA IntakeKeepsFanout ==
  ASSUME IndInv, PostsEvolve, PostsStay, UNCHANGED fanVars
  PROVE  FanoutInv'
<1>1. UNCHANGED <<notified, putOff, matched, matchPutOff, disp, token, signedIn, linked,
                  fan, faults, rang, unsure, filed, moved, unlinked>>
  BY DEF fanVars
<1>2. /\ RowsAreOpen' /\ RungOnce'
      /\ \A p \in Posts, d \in Handsets : TakenByRing(p, d)' = TakenByRing(p, d)
      /\ \A p \in Posts : TakenUp(p) => (Exists(p)' => Exists(p)) /\ (Pruned(p)' => Pruned(p))
  BY <1>1, IntakeKeepsRings
<1>3. \A p \in Posts : TakenUp(p)' => TakenUp(p)
  BY <1>1, <1>2 DEF TakenUp
<1>4. FanoutType'
  BY <1>1 DEF IndInv, FanoutInv, FanoutType
<1>5. TakenIsClassified'
  BY <1>3 DEF IndInv, FanoutInv, TakenIsClassified, PostsEvolve, PostsStay, Evolves
<1>6. \A p \in Posts, d \in Handsets : TakenByRing(p, d) \/ d \in filed[p] => TakenUp(p)
  BY DEF TakenUp
<1>7. TracksApart'
  BY <1>1, <1>2, <1>6 DEF IndInv, FanoutInv, TracksApart, MayBeOnBoth
<1> QED BY <1>2, <1>4, <1>5, <1>7 DEF FanoutInv

(* The dispatcher leaves its bulletin, or takes up others that are due;    *)
(* what was sent and not recorded is unsure.                               *)
LEMMA TurnToOthers ==
  ASSUME IndInv, UNCHANGED intakeVars,
         UNCHANGED <<matched, disp, token, signedIn, linked, rang, filed, moved,
                     unlinked>>,
         notified \subseteq notified',
         fan' \in FanRows, fan'.at \in {"idle", "resolve"},
         fan'.at # "idle" => fan'.todo # {},
         \A p \in fan'.todo :
           p \in fan.todo \/ (p \notin notified /\ Exists(p) /\ post[p].class # NoClass),
         unsure \subseteq unsure', unsure' \subseteq Posts \X Handsets,
         \A p \in Posts, d \in Handsets : InFlight(p, d) => <<p, d>> \in unsure'
  PROVE  FanoutInv'
<1>1. \A p \in Posts : Exists(p)' = Exists(p) /\ Pruned(p)' = Pruned(p)
  BY TableUnchanged DEF IndInv
<1>2. post' = post
  BY DEF intakeVars
<1>3. \A p \in Posts, d \in Handsets :
        ~InRows(p, d)' /\ (TakenByRing(p, d)' => TakenByRing(p, d))
  BY DEF InRows, TakenByRing
<1>4. FanoutType'
  BY DEF IndInv, FanoutInv, FanoutType
<1>5. RowsAreOpen'
  BY <1>1, <1>3 DEF IndInv, FanoutInv, RowsAreOpen
<1>6. RungOnce'
  BY <1>1, <1>3 DEF IndInv, FanoutInv, RungOnce, RingSettled
<1>7. \A p \in Posts : TakenUp(p)' =>
        TakenUp(p) \/ (Exists(p) /\ post[p].class # NoClass)
  BY <1>3 DEF TakenUp
<1>8. TakenIsClassified'
  BY <1>1, <1>2, <1>7 DEF IndInv, FanoutInv, TakenIsClassified
<1>9. TracksApart'
  BY <1>1, <1>3 DEF IndInv, FanoutInv, TracksApart, MayBeOnBoth
<1> QED BY <1>4, <1>5, <1>6, <1>8, <1>9 DEF FanoutInv

LEMMA NothingInFlight ==
  ASSUME fan.at # "record"
  PROVE  \A p \in Posts, d \in Handsets : ~InFlight(p, d)
BY DEF InFlight

LEMMA PickStep ==
  ASSUME IndInv, dispatch_pending_bulletins
  PROVE  IndInv'
<1> DEFINE due == {p \in Posts : Processed(p) /\ p \notin notified /\ Later(putOff)[p] = 0}
           todo == FirstOf(due)
<1>1. /\ UNCHANGED intakeVars /\ fan.at = "idle"
      /\ UNCHANGED <<notified, matched, disp, token, signedIn, linked, rang, unsure,
                     filed, moved, unlinked>>
      /\ fan' = IF due = {} THEN Idle ELSE [Idle EXCEPT !.at = "resolve", !.todo = todo]
  BY DEF dispatch_pending_bulletins
<1>2. \A p \in due : p \in Posts /\ p \notin notified /\ Exists(p) /\ post[p].class # NoClass
  BY DEF Processed, Exists, IndInv, IntakeInv, ClassifiedIsStored
<1>3. due # {} => todo # {} /\ todo \subseteq due
  BY FirstOfTakesOne
<1> HIDE DEF due, todo
<1>4. due \in SUBSET Posts
  BY <1>2
<1>5. /\ fan' \in FanRows /\ fan'.at \in {"idle", "resolve"}
      /\ fan'.at # "idle" => fan'.todo # {}
      /\ fan'.todo \subseteq due
  <2>1. CASE due = {}
    BY <1>1, <2>1, NothingRead DEF Idle
  <2>2. CASE due # {}
    <3>1. fan' = [at |-> "resolve", todo |-> todo, rows |-> <<>>, results |-> <<>>]
      BY <1>1, <2>2 DEF Idle
    <3>2. todo \in SUBSET Posts
      BY <1>3, <1>4, <2>2
    <3> QED BY <1>3, <2>2, <3>1, <3>2, NothingRead DEF FanRows
  <2> QED BY <2>1, <2>2
<1>6. \A p \in fan'.todo :
        p \in fan.todo \/ (p \notin notified /\ Exists(p) /\ post[p].class # NoClass)
  BY <1>2, <1>5
<1>7. unsure \subseteq Posts \X Handsets
  BY DEF IndInv, FanoutInv, FanoutType
<1>8. \A p \in Posts, d \in Handsets : ~InFlight(p, d)
  BY <1>1, NothingInFlight
<1>9. FanoutInv'
  BY <1>1, <1>5, <1>6, <1>7, <1>8, TurnToOthers
<1> QED BY <1>1, <1>9, TableUnchanged DEF IndInv

LEMMA FinishStep ==
  ASSUME IndInv, FinishPost
  PROVE  IndInv'
<1>1. /\ UNCHANGED intakeVars /\ fan.at = "send" /\ fan' = NextPost
      /\ UNCHANGED <<matched, disp, token, signedIn, linked, rang, unsure, filed, moved,
                     unlinked>>
      /\ notified \subseteq notified'
  BY DEF FinishPost
<1>2. /\ fan' \in FanRows /\ fan'.at \in {"idle", "resolve"}
      /\ fan'.at # "idle" => fan'.todo # {}
      /\ fan'.todo \subseteq fan.todo
  BY <1>1, NextPostIs DEF IndInv, FanoutInv
<1>3. unsure \subseteq Posts \X Handsets
  BY DEF IndInv, FanoutInv, FanoutType
<1>4. FanoutInv'
  BY <1>1, <1>2, <1>3, NothingInFlight, TurnToOthers
<1> QED BY <1>1, <1>4, TableUnchanged DEF IndInv

LEMMA UnrecordedIs ==
  ASSUME FanoutType, fan.at # "idle"
  PROVE  /\ Unrecorded \subseteq Posts \X Handsets
         /\ \A p \in Posts, d \in Handsets : InFlight(p, d) => <<p, d>> \in Unrecorded
<1>1. Post \in Posts
  BY PostIsDue
<1>2. DOMAIN fan.results \subseteq Handsets
  BY DEF FanoutType, FanRows, Outcomes
<1> QED BY <1>1, <1>2 DEF Unrecorded, InFlight

LEMMA DelayStep ==
  ASSUME IndInv, NEW delayed \in BOOLEAN, _delay_retry(delayed)
  PROVE  IndInv'
<1>1. /\ UNCHANGED intakeVars /\ fan.at # "idle" /\ fan' = NextPost
      /\ UNCHANGED <<notified, matched, disp, token, signedIn, linked, rang, filed, moved,
                     unlinked>>
      /\ unsure' = unsure \union Unrecorded
  BY DEF _delay_retry
<1>2. /\ fan' \in FanRows /\ fan'.at \in {"idle", "resolve"}
      /\ fan'.at # "idle" => fan'.todo # {}
      /\ fan'.todo \subseteq fan.todo
  BY <1>1, NextPostIs DEF IndInv, FanoutInv
<1>3. /\ unsure \subseteq unsure' /\ unsure' \subseteq Posts \X Handsets
      /\ \A p \in Posts, d \in Handsets : InFlight(p, d) => <<p, d>> \in unsure'
  BY <1>1, UnrecordedIs DEF IndInv, FanoutInv, FanoutType
<1>4. FanoutInv'
  BY <1>1, <1>2, <1>3, TurnToOthers
<1> QED BY <1>1, <1>4, TableUnchanged DEF IndInv

LEMMA CrashStep ==
  ASSUME IndInv, ServerDies
  PROVE  IndInv'
<1>1. /\ UNCHANGED intakeVars /\ fan.at # "idle" /\ fan' = Idle
      /\ UNCHANGED <<notified, matched, disp, token, signedIn, linked, rang, filed, moved,
                     unlinked>>
      /\ unsure' = unsure \union Unrecorded
  BY DEF ServerDies
<1>2. fan' \in FanRows /\ fan'.at = "idle" /\ fan'.todo = {}
  BY <1>1, NothingRead DEF Idle
<1>3. /\ unsure \subseteq unsure' /\ unsure' \subseteq Posts \X Handsets
      /\ \A p \in Posts, d \in Handsets : InFlight(p, d) => <<p, d>> \in unsure'
  BY <1>1, UnrecordedIs DEF IndInv, FanoutInv, FanoutType
<1>4. FanoutInv'
  BY <1>1, <1>2, <1>3, TurnToOthers
<1> QED BY <1>1, <1>4, TableUnchanged DEF IndInv

LEMMA ResolveStep ==
  ASSUME IndInv, ResolveAudience
  PROVE  IndInv'
<1>1. /\ UNCHANGED intakeVars /\ fan.at = "resolve"
      /\ UNCHANGED <<notified, matched, token, signedIn, linked, rang, unsure, filed,
                     moved>>
  BY DEF ResolveAudience
<1>2. CASE ~Exists(Post)
  <2>1. fan' = NextPost /\ UNCHANGED <<disp, unlinked>>
    BY <1>2 DEF ResolveAudience
  <2>2. /\ fan' \in FanRows /\ fan'.at \in {"idle", "resolve"}
        /\ fan'.at # "idle" => fan'.todo # {}
        /\ fan'.todo \subseteq fan.todo
    BY <1>1, <2>1, NextPostIs DEF IndInv, FanoutInv
  <2>3. unsure \subseteq Posts \X Handsets
    BY DEF IndInv, FanoutInv, FanoutType
  <2>4. FanoutInv'
    BY <1>1, <2>1, <2>2, <2>3, NothingInFlight, TurnToOthers
  <2> QED BY <1>1, <2>4, TableUnchanged DEF IndInv
<1>3. CASE Exists(Post)
  <2> DEFINE to == IF Audience[Post] = NoFilter THEN match_device_ids(Post)
                   ELSE resolve_target_device_ids(Post)
  <2>1. /\ disp' = [disp EXCEPT ![Post] = [d \in Handsets |->
                      IF d \in to /\ @[d].status = "none"
                      THEN [NoRow EXCEPT !.status = "pending"] ELSE @[d]]]
        /\ fan' = [fan EXCEPT !.at = "read"]
        /\ unlinked' = [unlinked EXCEPT ![Post] = @ \union (to \intersect OnBothTracks)]
    BY <1>3, Zenon DEF ResolveAudience
  <2>2. \A d \in to : d \notin linked
    BY DEF match_device_ids, resolve_target_device_ids
  <2> HIDE DEF to
  <2>3. Post \in fan.todo /\ Post \in Posts
    BY <1>1, PostIsDue DEF IndInv, FanoutInv
  <2>4. disp \in [Posts -> [Handsets -> DispatchRows]] /\ fan \in FanRows
    BY DEF IndInv, FanoutInv, FanoutType
  <2>5. /\ fan' \in FanRows /\ fan'.at = "read" /\ fan'.todo = fan.todo /\ Post' = Post
    BY <2>1, <2>4 DEF FanRows, Post
  <2>6. ASSUME NEW p \in Posts, NEW d \in Handsets
        PROVE  \/ disp'[p][d] = disp[p][d]
               \/ /\ p = Post /\ d \in to /\ disp[p][d].status = "none"
                  /\ disp'[p][d] = [status |-> "pending", tries |-> 0]
    BY <2>1, <2>4 DEF NoRow
  <2>7. disp' \in [Posts -> [Handsets -> DispatchRows]]
    <3>1. [status |-> "pending", tries |-> 0] \in DispatchRows
      BY DEF DispatchRows, Statuses
    <3>2. [NoRow EXCEPT !.status = "pending"] = [status |-> "pending", tries |-> 0]
      BY DEF NoRow
    <3> QED BY <2>1, <2>4, <3>1, <3>2
  <2>8. \A p \in Posts : Exists(p)' = Exists(p) /\ Pruned(p)' = Pruned(p)
    BY <1>1, TableUnchanged DEF IndInv
  <2>9. ~Pruned(Post) /\ post' = post
    BY <1>1, <1>3 DEF Exists, Pruned, intakeVars
  <2>10. \A p \in Posts, d \in Handsets : ~InRows(p, d)' /\ ~InFlight(p, d)
    BY <1>1, <2>5 DEF InRows, InFlight
  <2>11. \A p \in Posts, d \in Handsets :
           TakenByRing(p, d)' => TakenByRing(p, d) \/ (p = Post /\ d \in to)
    BY <1>1, <2>6, <2>10 DEF TakenByRing
  <2>12. /\ unlinked' \in [Posts -> SUBSET Handsets]
         /\ \A p \in Posts :
              unlinked'[p] = IF p = Post THEN unlinked[p] \union (to \intersect OnBothTracks)
                             ELSE unlinked[p]
    BY <2>1, <2>3 DEF OnBothTracks, IndInv, FanoutInv, FanoutType
  <2>18. FanoutType'
    BY <1>1, <2>3, <2>5, <2>7, <2>12 DEF IndInv, FanoutInv, FanoutType
  <2>13. RowsAreOpen'
    BY <2>6, <2>8, <2>9, <2>10 DEF IndInv, FanoutInv, RowsAreOpen
  <2>14. RungOnce'
    BY <1>1, <2>6, <2>8, <2>10 DEF IndInv, FanoutInv, RungOnce, RingSettled
  <2>15. TakenIsClassified'
    <3>1. \A p \in Posts : TakenUp(p)' => TakenUp(p)
      BY <1>1, <2>3, <2>5, <2>11 DEF TakenUp
    <3> QED BY <2>8, <2>9, <3>1 DEF IndInv, FanoutInv, TakenIsClassified
  <2>16. TracksApart'
    <3> SUFFICES ASSUME NEW p \in Posts, NEW d \in Handsets
                 PROVE  /\ TakenByRing(p, d)' /\ d \in filed[p] => MayBeOnBoth(p, d)'
                        /\ TakenByRing(p, d)' /\ Exists(p) /\ p \notin matched /\ d \in signedIn
                             => MayBeOnBoth(p, d)'
                        /\ d \in filed[p] /\ d \notin linked /\ Exists(p)
                             /\ (p \notin notified \/ p \in fan.todo) => MayBeOnBoth(p, d)'
      BY <1>1, <2>5, <2>8 DEF TracksApart
    <3>1. MayBeOnBoth(p, d) => MayBeOnBoth(p, d)'
      BY <1>1, <2>12 DEF MayBeOnBoth
    <3>2. CASE p = Post /\ d \in to
      <4>1. d \in signedIn => MayBeOnBoth(p, d)'
        BY <2>2, <2>12, <3>2 DEF MayBeOnBoth, OnBothTracks
      <4> QED BY <1>3, <2>2, <2>3, <3>1, <3>2, <4>1 DEF IndInv, FanoutInv, TracksApart
    <3>3. CASE ~(p = Post /\ d \in to)
      BY <2>11, <3>1, <3>3 DEF IndInv, FanoutInv, TracksApart
    <3> QED BY <3>2, <3>3
  <2>17. FanoutInv'
    BY <2>18, <2>13, <2>14, <2>15, <2>16 DEF FanoutInv
  <2> QED BY <1>1, <2>17, TableUnchanged DEF IndInv
<1> QED BY <1>2, <1>3

LEMMA ReadStep ==
  ASSUME IndInv, ReadPending
  PROVE  IndInv'
<1> DEFINE pending == {d \in Handsets : disp[Post][d].status = "pending"}
           read == [d \in pending |-> token[d]]
<1>1. /\ UNCHANGED intakeVars /\ fan.at = "read"
      /\ UNCHANGED <<notified, matched, disp, token, signedIn, linked, rang, unsure,
                     filed, moved, unlinked>>
      /\ fan' = [fan EXCEPT !.at = "send", !.rows = read]
  BY DEF ReadPending
<1>2. Post \in fan.todo /\ Post \in Posts
  BY <1>1, PostIsDue DEF IndInv, FanoutInv
<1>3. read \in RowsRead /\ DOMAIN read = pending
  <2>1. pending \in SUBSET Handsets /\ token \in [Handsets -> Nat]
    BY DEF IndInv, FanoutInv, FanoutType
  <2>2. read \in [pending -> Nat]
    BY <2>1
  <2> QED BY <2>1, <2>2 DEF RowsRead
<1> HIDE DEF read
<1>4. fan \in FanRows
  BY DEF IndInv, FanoutInv, FanoutType
<1>5. /\ fan' \in FanRows /\ fan'.at = "send" /\ fan'.todo = fan.todo /\ Post' = Post
      /\ fan'.rows = read
  BY <1>1, <1>3, <1>4 DEF FanRows, Post
<1>6. \A p \in Posts : Exists(p)' = Exists(p) /\ Pruned(p)' = Pruned(p)
  BY <1>1, TableUnchanged DEF IndInv
<1>7. \A p \in Posts, d \in Handsets :
        InRows(p, d)' <=> p = Post /\ disp[p][d].status = "pending"
  BY <1>3, <1>5 DEF InRows
<1>8. \A p \in Posts, d \in Handsets : TakenByRing(p, d)' => TakenByRing(p, d)
  BY <1>1, <1>7 DEF TakenByRing
<1>9. FanoutType'
  BY <1>1, <1>2, <1>5 DEF IndInv, FanoutInv, FanoutType
<1>10. RowsAreOpen'
  BY <1>1, <1>6, <1>7 DEF IndInv, FanoutInv, RowsAreOpen
<1>11. RungOnce'
  <2>1. \A p \in Posts, d \in Handsets : ~InFlight(p, d)
    BY <1>1, NothingInFlight
  <2>2. \A p \in Posts, d \in Handsets : Pruned(p) => ~InRows(p, d)'
    BY <1>7 DEF IndInv, FanoutInv, RowsAreOpen
  <2> QED BY <1>1, <1>6, <2>1, <2>2 DEF IndInv, FanoutInv, RungOnce, RingSettled
<1>12. TakenIsClassified'
  <2>1. \A p \in Posts : TakenUp(p)' => TakenUp(p)
    BY <1>1, <1>5, <1>8 DEF TakenUp
  <2> QED BY <1>1, <1>6, <2>1 DEF IndInv, FanoutInv, TakenIsClassified, intakeVars
<1>13. TracksApart'
  BY <1>1, <1>5, <1>6, <1>8 DEF IndInv, FanoutInv, TracksApart, MayBeOnBoth
<1>14. FanoutInv'
  BY <1>9, <1>10, <1>11, <1>12, <1>13 DEF FanoutInv
<1> QED BY <1>1, <1>14, TableUnchanged DEF IndInv

LEMMA WithoutIs ==
  ASSUME NEW rows \in RowsRead, NEW chunk
  PROVE  Without(rows, chunk) \in RowsRead /\ DOMAIN Without(rows, chunk) = DOMAIN rows \ chunk
<1>1. PICK D \in SUBSET Handsets : rows \in [D -> Nat]
  BY DEF RowsRead
<1>2. Without(rows, chunk) \in [D \ chunk -> Nat] /\ D \ chunk \in SUBSET Handsets
  BY <1>1 DEF Without
<1> QED BY <1>1, <1>2 DEF RowsRead

LEMMA CancelStep ==
  ASSUME IndInv, NEW h \in Handsets, _cancel_dispatch(h)
  PROVE  IndInv'
<1> DEFINE rest == Without(fan.rows, {h})
           closed(s) == IF s = "none" THEN s ELSE "cancelled"
<1>1. /\ UNCHANGED intakeVars /\ fan.at = "send"
      /\ UNCHANGED <<notified, matched, token, signedIn, linked, rang, unsure, filed,
                     moved, unlinked>>
      /\ disp' = [disp EXCEPT ![Post][h].status = closed(@)]
      /\ fan' = [fan EXCEPT !.rows = rest]
  BY DEF _cancel_dispatch
<1>2. Post \in fan.todo /\ Post \in Posts
  BY <1>1, PostIsDue DEF IndInv, FanoutInv
<1>3. disp \in [Posts -> [Handsets -> DispatchRows]] /\ fan \in FanRows
  BY DEF IndInv, FanoutInv, FanoutType
<1>4. rest \in RowsRead /\ DOMAIN rest = DOMAIN fan.rows \ {h}
  BY <1>3, WithoutIs DEF FanRows
<1>5. \A s \in Statuses : closed(s) \in Statuses /\ (closed(s) = "none" <=> s = "none")
                          /\ closed(s) \in {"none", "cancelled"}
  BY DEF Statuses
<1> HIDE DEF rest, closed
<1>6. /\ fan' \in FanRows /\ fan'.at = "send" /\ fan'.todo = fan.todo /\ Post' = Post
      /\ fan'.rows = rest
  BY <1>1, <1>3, <1>4 DEF FanRows, Post
<1>7. disp' \in [Posts -> [Handsets -> DispatchRows]]
  <2>1. disp[Post][h] \in DispatchRows
    BY <1>2, <1>3
  <2>2. closed(disp[Post][h].status) \in Statuses
    BY <1>5, <2>1 DEF DispatchRows
  <2>3. [disp[Post][h] EXCEPT !.status = closed(disp[Post][h].status)] \in DispatchRows
    BY <2>1, <2>2 DEF DispatchRows
  <2>4. disp' = [disp EXCEPT ![Post] = [disp[Post] EXCEPT ![h] =
                   [disp[Post][h] EXCEPT !.status = closed(disp[Post][h].status)]]]
    BY <1>1
  <2> QED BY <1>2, <1>3, <2>3, <2>4
<1>8. ASSUME NEW p \in Posts, NEW d \in Handsets
      PROVE  \/ disp'[p][d] = disp[p][d] /\ ~(p = Post /\ d = h)
             \/ /\ p = Post /\ d = h
                /\ disp'[p][d].status \in {"none", "cancelled"}
                /\ disp'[p][d].status = "none" <=> disp[p][d].status = "none"
  BY <1>1, <1>2, <1>3, <1>5 DEF DispatchRows
<1>9. \A p \in Posts : Exists(p)' = Exists(p) /\ Pruned(p)' = Pruned(p)
  BY <1>1, TableUnchanged DEF IndInv
<1>10. \A p \in Posts, d \in Handsets :
         /\ InRows(p, d)' <=> InRows(p, d) /\ d # h
         /\ ~InFlight(p, d) /\ (InRows(p, d) => p = Post)
  BY <1>1, <1>4, <1>6 DEF InRows, InFlight
<1>11. \A p \in Posts, d \in Handsets : TakenByRing(p, d)' => TakenByRing(p, d)
  BY <1>1, <1>8, <1>10 DEF TakenByRing
<1>12. FanoutType'
  BY <1>1, <1>2, <1>6, <1>7 DEF IndInv, FanoutInv, FanoutType
<1>13. RowsAreOpen'
  BY <1>8, <1>9, <1>10 DEF IndInv, FanoutInv, RowsAreOpen
<1>14. RungOnce'
  <2> SUFFICES ASSUME NEW p \in Posts, NEW d \in Handsets, <<p, d>> \notin unsure',
                      rang'[p][d] # 0
               PROVE  rang'[p][d] = 1 /\ RingSettled(p, d)'
    BY DEF RungOnce
  <2>1. rang[p][d] = 1 /\ RingSettled(p, d)
    BY <1>1, <1>10 DEF IndInv, FanoutInv, RungOnce
  <2>2. RingSettled(p, d)'
    BY <1>8, <1>9, <1>10, <2>1 DEF RingSettled
  <2> QED BY <1>1, <2>1, <2>2
<1>15. TakenIsClassified'
  <2>1. \A p \in Posts : TakenUp(p)' => TakenUp(p)
    BY <1>1, <1>6, <1>11 DEF TakenUp
  <2> QED BY <1>1, <1>9, <2>1 DEF IndInv, FanoutInv, TakenIsClassified, intakeVars
<1>16. TracksApart'
  BY <1>1, <1>6, <1>9, <1>11 DEF IndInv, FanoutInv, TracksApart, MayBeOnBoth
<1>17. FanoutInv'
  BY <1>12, <1>13, <1>14, <1>15, <1>16 DEF FanoutInv
<1> QED BY <1>1, <1>17, TableUnchanged DEF IndInv

(* What has been rung is in rows that were read as pending: nobody in them *)
(* was rung for the bulletin before.                                       *)
LEMMA RowsAreUnrung ==
  ASSUME IndInv, NEW p \in Posts, NEW d \in Handsets, InRows(p, d), ~InFlight(p, d),
         <<p, d>> \notin unsure
  PROVE  rang[p][d] = 0
<1>1. disp[p][d].status \in {"pending", "none"}
  BY DEF IndInv, FanoutInv, RowsAreOpen
<1> QED BY <1>1 DEF IndInv, FanoutInv, RungOnce, RingSettled

LEMMA SendStep ==
  ASSUME IndInv, NEW chunk \in Chunks, NEW answer \in [chunk -> Answers], Send(chunk, answer)
  PROVE  IndInv'
<1> DEFINE taken == {d \in chunk : answer[d] \in {"sent", "lost"}}
           lost == {<<Post, d>> : d \in {e \in chunk : answer[e] = "lost"}}
           rung(n) == Min({n + 1, 2})
<1>1. /\ UNCHANGED intakeVars /\ fan.at = "send"
      /\ UNCHANGED <<notified, matched, disp, token, signedIn, linked, filed, moved,
                     unlinked>>
      /\ rang' = [rang EXCEPT ![Post] = [d \in Handsets |->
                    IF d \in taken THEN rung(@[d]) ELSE @[d]]]
      /\ unsure' = unsure \union lost
      /\ fan' = [fan EXCEPT !.at = "record", !.results = answer]
  BY DEF Send
<1>2. Post \in fan.todo /\ Post \in Posts
  BY <1>1, PostIsDue DEF IndInv, FanoutInv
<1>3. fan \in FanRows /\ rang \in [Posts -> [Handsets -> 0..2]]
  BY DEF IndInv, FanoutInv, FanoutType
<1>4. DOMAIN fan.rows \subseteq Handsets
  BY <1>3 DEF FanRows, RowsRead
<1>5. chunk \subseteq DOMAIN fan.rows /\ chunk \subseteq Handsets
  BY <1>4 DEF Chunks, FcmChunk, Unsent
<1>6. answer \in Outcomes /\ DOMAIN answer = chunk
  <2>1. Answers \subseteq {"sent", "refused", "dead", "lost"}
    BY DEF Answers
  <2>2. answer \in [chunk -> {"sent", "refused", "dead", "lost"}] /\ chunk \in SUBSET Handsets
    BY <1>5, <2>1
  <2> QED BY <2>2 DEF Outcomes
<1>7. \A n \in 0..2 : rung(n) \in 0..2 /\ rung(n) > 0 /\ (n = 0 => rung(n) = 1)
  <2> SUFFICES ASSUME NEW n \in 0..2
               PROVE  rung(n) \in 0..2 /\ rung(n) > 0 /\ (n = 0 => rung(n) = 1)
    OBVIOUS
  <2>1. n + 1 \in Nat /\ 2 \in Nat
    OBVIOUS
  <2>2. rung(n) \in {n + 1, 2} /\ rung(n) <= n + 1 /\ rung(n) <= 2
    BY <2>1, MinOfTwo
  <2> HIDE DEF rung
  <2> QED BY <2>2
<1> HIDE DEF rung
<1>8. /\ fan' \in FanRows /\ fan'.at = "record" /\ fan'.todo = fan.todo /\ Post' = Post
      /\ fan'.rows = fan.rows /\ fan'.results = answer
  BY <1>1, <1>3, <1>6 DEF FanRows, Post
<1>9. /\ rang' \in [Posts -> [Handsets -> 0..2]]
      /\ \A p \in Posts, d \in Handsets :
           rang'[p][d] = IF p = Post /\ d \in taken THEN rung(rang[p][d]) ELSE rang[p][d]
  BY <1>1, <1>2, <1>3, <1>7
<1>10. \A d \in taken : InRows(Post, d)
  BY <1>1, <1>5 DEF InRows
<1>11. \A p \in Posts : Exists(p)' = Exists(p) /\ Pruned(p)' = Pruned(p)
  BY <1>1, TableUnchanged DEF IndInv
<1>12. \A p \in Posts, d \in Handsets : InRows(p, d)' = InRows(p, d) /\ ~InFlight(p, d)
  BY <1>1, <1>8 DEF InRows, InFlight
<1>13. \A p \in Posts, d \in Handsets : TakenByRing(p, d)' => TakenByRing(p, d)
  BY <1>1, <1>9, <1>10, <1>12 DEF TakenByRing
<1>14. FanoutType'
  <2>1. lost \subseteq Posts \X Handsets
    BY <1>2, <1>5
  <2>2. unsure' \subseteq Posts \X Handsets
    BY <1>1, <2>1 DEF IndInv, FanoutInv, FanoutType
  <2>3. DOMAIN fan'.results \subseteq DOMAIN fan'.rows
    BY <1>5, <1>6, <1>8
  <2> QED BY <1>1, <1>2, <1>8, <1>9, <2>2, <2>3 DEF IndInv, FanoutInv, FanoutType
<1>15. RowsAreOpen'
  BY <1>1, <1>11, <1>12 DEF IndInv, FanoutInv, RowsAreOpen
<1>16. RungOnce'
  <2> SUFFICES ASSUME NEW p \in Posts, NEW d \in Handsets, <<p, d>> \notin unsure',
                      rang'[p][d] # 0
               PROVE  rang'[p][d] = 1 /\ (RingSettled(p, d)' \/ InFlight(p, d)')
    BY DEF RungOnce
  <2>1. <<p, d>> \notin unsure
    BY <1>1
  <2>2. CASE p = Post /\ d \in taken
    <3>1. rang[p][d] = 0
      BY <1>10, <1>12, <2>1, <2>2, RowsAreUnrung
    <3>2. rang'[p][d] = 1
      BY <1>7, <1>9, <2>2, <3>1
    <3>3. answer[d] = "sent"
      BY <1>1, <2>2
    <3>4. InFlight(p, d)'
      BY <1>6, <1>8, <2>2, <3>3 DEF InFlight
    <3> QED BY <3>2, <3>4
  <2>3. CASE ~(p = Post /\ d \in taken)
    <3>1. rang[p][d] = 1 /\ RingSettled(p, d)
      BY <1>9, <1>12, <2>1, <2>3 DEF IndInv, FanoutInv, RungOnce
    <3>2. RingSettled(p, d)'
      BY <1>1, <1>11, <1>12, <3>1 DEF RingSettled
    <3> QED BY <1>9, <2>3, <3>1, <3>2
  <2> QED BY <2>2, <2>3
<1>17. TakenIsClassified'
  <2>1. \A p \in Posts : TakenUp(p)' => TakenUp(p)
    BY <1>1, <1>8, <1>13 DEF TakenUp
  <2> QED BY <1>1, <1>11, <2>1 DEF IndInv, FanoutInv, TakenIsClassified, intakeVars
<1>18. TracksApart'
  BY <1>1, <1>8, <1>11, <1>13 DEF IndInv, FanoutInv, TracksApart, MayBeOnBoth
<1>19. FanoutInv'
  BY <1>14, <1>15, <1>16, <1>17, <1>18 DEF FanoutInv
<1> QED BY <1>1, <1>19, TableUnchanged DEF IndInv

LEMMA RecordedIs ==
  ASSUME NEW row \in DispatchRows, NEW answer
  PROVE  /\ Recorded(row, answer) \in DispatchRows
         /\ Recorded(row, answer).status # "none"
         /\ answer = "sent" => Recorded(row, answer).status = "sent"
BY DEF Recorded, DispatchRows, Statuses

LEMMA RecordStep ==
  ASSUME IndInv, _record
  PROVE  IndInv'
<1> DEFINE chunk == DOMAIN fan.results
           rest == Without(fan.rows, chunk)
<1>1. /\ UNCHANGED intakeVars /\ fan.at = "record"
      /\ UNCHANGED <<notified, matched, signedIn, linked, rang, unsure, filed, moved,
                     unlinked>>
      /\ disp' = [disp EXCEPT ![Post] = [d \in Handsets |->
                    IF d \in chunk /\ @[d].status # "none"
                    THEN Recorded(@[d], fan.results[d]) ELSE @[d]]]
      /\ token' = [d \in Handsets |->
                     IF d \in chunk /\ fan.results[d] = "dead" /\ token[d] = fan.rows[d]
                     THEN 0 ELSE token[d]]
      /\ fan' = [fan EXCEPT !.at = "send", !.rows = rest, !.results = <<>>]
  BY DEF _record
<1>2. Post \in fan.todo /\ Post \in Posts
  BY <1>1, PostIsDue DEF IndInv, FanoutInv
<1>3. /\ fan \in FanRows /\ disp \in [Posts -> [Handsets -> DispatchRows]]
      /\ token \in [Handsets -> Nat] /\ chunk \subseteq DOMAIN fan.rows
  BY <1>1 DEF IndInv, FanoutInv, FanoutType
<1>4. rest \in RowsRead /\ DOMAIN rest = DOMAIN fan.rows \ chunk
  BY <1>3, WithoutIs DEF FanRows
<1> HIDE DEF rest
<1>5. /\ fan' \in FanRows /\ fan'.at = "send" /\ fan'.todo = fan.todo /\ Post' = Post
      /\ fan'.rows = rest
  BY <1>1, <1>3, <1>4, NothingRead DEF FanRows, Post
<1>6. ASSUME NEW p \in Posts, NEW d \in Handsets
      PROVE  disp'[p][d] = IF p = Post /\ d \in chunk /\ disp[p][d].status # "none"
                           THEN Recorded(disp[p][d], fan.results[d]) ELSE disp[p][d]
  BY <1>1, <1>2, <1>3
<1>7. disp' \in [Posts -> [Handsets -> DispatchRows]]
  <2>1. \A d \in Handsets : Recorded(disp[Post][d], fan.results[d]) \in DispatchRows
    BY <1>2, <1>3, RecordedIs
  <2> QED BY <1>1, <1>3, <2>1
<1>8. token' \in [Handsets -> Nat]
  BY <1>1, <1>3
<1>9. ASSUME NEW p \in Posts, NEW d \in Handsets
      PROVE  /\ disp'[p][d].status = "none" <=> disp[p][d].status = "none"
             /\ ~(p = Post /\ d \in chunk) => disp'[p][d] = disp[p][d]
             /\ p = Post /\ d \in chunk /\ fan.results[d] = "sent" =>
                  disp[p][d].status = "none" \/ disp'[p][d].status = "sent"
  <2>1. disp[p][d] \in DispatchRows
    BY <1>3
  <2> QED BY <1>6, <2>1, RecordedIs
<1>10. \A p \in Posts : Exists(p)' = Exists(p) /\ Pruned(p)' = Pruned(p)
  BY <1>1, TableUnchanged DEF IndInv
<1>11. \A p \in Posts, d \in Handsets :
         /\ InRows(p, d)' <=> InRows(p, d) /\ d \notin chunk
         /\ InFlight(p, d) <=> p = Post /\ d \in chunk /\ fan.results[d] = "sent"
         /\ p = Post /\ d \in chunk => InRows(p, d)
  BY <1>1, <1>3, <1>4, <1>5 DEF InRows, InFlight
<1>12. \A p \in Posts, d \in Handsets : TakenByRing(p, d)' => TakenByRing(p, d)
  BY <1>1, <1>9, <1>11 DEF TakenByRing
<1>13. FanoutType'
  BY <1>1, <1>2, <1>5, <1>7, <1>8 DEF IndInv, FanoutInv, FanoutType
<1>14. RowsAreOpen'
  <2>1. \A p \in Posts, d \in Handsets : InRows(p, d) => p = Post
    BY DEF InRows
  <2> QED BY <1>9, <1>10, <1>11, <2>1 DEF IndInv, FanoutInv, RowsAreOpen
<1>15. RungOnce'
  <2> SUFFICES ASSUME NEW p \in Posts, NEW d \in Handsets, <<p, d>> \notin unsure',
                      rang'[p][d] # 0
               PROVE  rang'[p][d] = 1 /\ RingSettled(p, d)'
    BY DEF RungOnce
  <2>1. <<p, d>> \notin unsure /\ rang[p][d] # 0 /\ rang'[p][d] = rang[p][d]
    BY <1>1
  <2>2. rang[p][d] = 1 /\ (RingSettled(p, d) \/ InFlight(p, d))
    BY <2>1 DEF IndInv, FanoutInv, RungOnce
  <2>3. CASE InFlight(p, d)
    <3>1. disp[p][d].status = "pending" \/ Pruned(p)
      BY <1>11, <2>3 DEF IndInv, FanoutInv, RowsAreOpen
    <3>2. disp'[p][d].status = "sent" \/ Pruned(p)'
      BY <1>9, <1>10, <1>11, <2>3, <3>1
    <3>3. ~InRows(p, d)'
      BY <1>11, <2>3
    <3> QED BY <2>1, <2>2, <3>2, <3>3 DEF RingSettled
  <2>4. CASE ~InFlight(p, d)
    <3>1. ~InRows(p, d)
      BY <2>1, <2>4, RowsAreUnrung
    <3>2. disp'[p][d] = disp[p][d] /\ ~InRows(p, d)'
      BY <1>9, <1>11, <3>1
    <3>3. RingSettled(p, d)'
      BY <1>10, <2>2, <2>4, <3>2 DEF RingSettled
    <3> QED BY <2>1, <2>2, <3>3
  <2> QED BY <2>3, <2>4
<1>16. TakenIsClassified'
  <2>1. \A p \in Posts : TakenUp(p)' => TakenUp(p)
    BY <1>1, <1>5, <1>12 DEF TakenUp
  <2> QED BY <1>1, <1>10, <2>1 DEF IndInv, FanoutInv, TakenIsClassified, intakeVars
<1>17. TracksApart'
  BY <1>1, <1>5, <1>10, <1>12 DEF IndInv, FanoutInv, TracksApart, MayBeOnBoth
<1>18. FanoutInv'
  BY <1>13, <1>14, <1>15, <1>16, <1>17 DEF FanoutInv
<1> QED BY <1>1, <1>18, TableUnchanged DEF IndInv

(***************************************************************************)
(* The users' track, and what happens around the fan-out.                  *)
(***************************************************************************)
(* Steps that send nothing and end no send.                                *)
LEMMA RingsUnchanged ==
  ASSUME IndInv, UNCHANGED intakeVars, UNCHANGED <<disp, fan, rang, unsure>>
  PROVE  /\ RowsAreOpen' /\ RungOnce'
         /\ \A p \in Posts, d \in Handsets : TakenByRing(p, d)' = TakenByRing(p, d)
         /\ \A p \in Posts : Exists(p)' = Exists(p) /\ Pruned(p)' = Pruned(p)
<1>1. \A p \in Posts : Exists(p)' = Exists(p) /\ Pruned(p)' = Pruned(p)
  BY TableUnchanged DEF IndInv
<1>2. PostsEvolve /\ PostsStay
  BY <1>1 DEF PostsEvolve, PostsStay, Evolves, intakeVars
<1> QED BY <1>1, <1>2, IntakeKeepsRings

LEMMA UserStep ==
  ASSUME IndInv, NEW failing \in SUBSET Posts, dispatch_user_bulletins(failing)
  PROVE  IndInv'
<1> DEFINE due == {p \in Posts : Processed(p) /\ p \notin matched /\ Later(matchPutOff)[p] = 0}
           done == FirstOf(due) \ failing
<1>1. /\ UNCHANGED intakeVars
      /\ UNCHANGED <<notified, disp, token, signedIn, linked, fan, rang, unsure, moved>>
      /\ matched' = matched \union done /\ filed' = Filed(done)
      /\ unlinked' = [p \in Posts |-> IF p \in done
                                      THEN unlinked[p] \union (UserHits(p) \intersect OnBothTracks)
                                      ELSE unlinked[p]]
  BY DEF dispatch_user_bulletins
<1>2. \A p \in done : p \notin matched /\ Exists(p) /\ post[p].class # NoClass
  BY DEF FirstOf, Processed, Exists, IndInv, IntakeInv, ClassifiedIsStored
<1> HIDE DEF done
<1>3. \A p \in Posts : filed'[p] = IF p \in done THEN UserHits(p) ELSE filed[p]
  BY <1>1 DEF Filed
<1>4. \A p \in Posts : UserHits(p) \subseteq signedIn /\ UserHits(p) \subseteq Handsets
  BY DEF UserHits, IndInv, FanoutInv, FanoutType
<1>5. /\ RowsAreOpen' /\ RungOnce'
      /\ \A p \in Posts, d \in Handsets : TakenByRing(p, d)' = TakenByRing(p, d)
      /\ \A p \in Posts : Exists(p)' = Exists(p) /\ Pruned(p)' = Pruned(p)
  BY <1>1, RingsUnchanged
<1>6. FanoutType'
  <2>1. filed' \in [Posts -> SUBSET Handsets]
    BY <1>1, <1>4 DEF Filed, IndInv, FanoutInv, FanoutType
  <2>2. unlinked' \in [Posts -> SUBSET Handsets]
    BY <1>1, <1>4 DEF IndInv, FanoutInv, FanoutType
  <2> QED BY <1>1, <2>1, <2>2 DEF IndInv, FanoutInv, FanoutType
<1>7. TakenIsClassified'
  <2>1. \A p \in Posts : TakenUp(p)' => TakenUp(p) \/ p \in done
    BY <1>1, <1>3, <1>5 DEF TakenUp
  <2> QED BY <1>1, <1>2, <1>5, <2>1 DEF IndInv, FanoutInv, TakenIsClassified, intakeVars
<1>8. TracksApart'
  <2> SUFFICES ASSUME NEW p \in Posts, NEW d \in Handsets
               PROVE  /\ TakenByRing(p, d) /\ d \in filed'[p] => MayBeOnBoth(p, d)'
                      /\ TakenByRing(p, d) /\ Exists(p) /\ p \notin matched' /\ d \in signedIn
                           => MayBeOnBoth(p, d)'
                      /\ d \in filed'[p] /\ d \notin linked /\ Exists(p)
                           /\ (p \notin notified \/ p \in fan.todo) => MayBeOnBoth(p, d)'
    BY <1>1, <1>5 DEF TracksApart
  <2>1. MayBeOnBoth(p, d) => MayBeOnBoth(p, d)'
    BY <1>1 DEF MayBeOnBoth
  <2>2. CASE p \in done
    <3>1. d \in filed'[p] => d \in signedIn
      BY <1>3, <1>4, <2>2
    <3>2. d \in filed'[p] /\ d \notin linked => MayBeOnBoth(p, d)'
      BY <1>1, <1>3, <2>2, <3>1 DEF MayBeOnBoth, OnBothTracks
    <3> QED BY <1>1, <1>2, <2>1, <2>2, <3>1, <3>2 DEF IndInv, FanoutInv, TracksApart
  <2>3. CASE p \notin done
    BY <1>1, <1>3, <2>1, <2>3 DEF IndInv, FanoutInv, TracksApart
  <2> QED BY <2>2, <2>3
<1>9. FanoutInv'
  BY <1>5, <1>6, <1>7, <1>8 DEF FanoutInv
<1> QED BY <1>1, <1>9, TableUnchanged DEF IndInv

LEMMA OperatorStep ==
  ASSUME IndInv, NEW p \in Posts, send(p)
  PROVE  IndInv'
<1>1. /\ create_bulletin(p)
      /\ matched' = matched \union {p} /\ filed' = [filed EXCEPT ![p] = Recipients(p)]
      /\ unlinked' = [unlinked EXCEPT ![p] = @ \union (Recipients(p) \intersect OnBothTracks)]
      /\ UNCHANGED <<notified, disp, token, signedIn, linked, fan, rang, unsure, moved>>
  BY DEF send
<1>2. IntakeInv' /\ PostsEvolve /\ PostsStay
  BY <1>1, CreateStep DEF IndInv
<1>3. /\ RowsAreOpen' /\ RungOnce'
      /\ \A q \in Posts, d \in Handsets : TakenByRing(q, d)' = TakenByRing(q, d)
      /\ \A q \in Posts : TakenUp(q) => (Exists(q)' => Exists(q)) /\ (Pruned(q)' => Pruned(q))
  BY <1>1, <1>2, IntakeKeepsRings
<1>4. post[p].state = "none" /\ post'[p].state = "processed"
  BY <1>1 DEF create_bulletin, NoPost, IndInv, IntakeInv, IntakeType
<1>5. Exists(p)' /\ post'[p].class # NoClass
  BY <1>2, <1>4 DEF Exists, IntakeInv, ClassifiedIsStored
<1>6. ~TakenUp(p)
  BY <1>4 DEF IndInv, FanoutInv, TakenIsClassified, Exists, Pruned
<1>7. /\ filed \in [Posts -> SUBSET Handsets] /\ signedIn \subseteq Handsets
      /\ Recipients(p) \subseteq signedIn /\ unlinked \in [Posts -> SUBSET Handsets]
  BY DEF IndInv, FanoutInv, FanoutType, Recipients
<1>8. /\ filed' \in [Posts -> SUBSET Handsets]
      /\ \A q \in Posts : filed'[q] = IF q = p THEN Recipients(p) ELSE filed[q]
      /\ unlinked' \in [Posts -> SUBSET Handsets]
      /\ \A q \in Posts : unlinked[q] \subseteq unlinked'[q]
      /\ \A d \in Recipients(p) : d \notin linked => d \in unlinked'[p]
  BY <1>1, <1>7 DEF OnBothTracks
<1>9. FanoutType'
  BY <1>1, <1>8 DEF IndInv, FanoutInv, FanoutType
<1>10. TakenIsClassified'
  <2>1. \A q \in Posts : q # p /\ TakenUp(q)' => TakenUp(q)
    BY <1>1, <1>3, <1>8 DEF TakenUp
  <2> QED BY <1>2, <1>5, <2>1 DEF IndInv, FanoutInv, TakenIsClassified, PostsEvolve, PostsStay,
             Evolves
<1>11. \A q \in Posts, d \in Handsets : TakenByRing(q, d) \/ d \in filed[q] => TakenUp(q)
  BY DEF TakenUp
<1>12. TracksApart'
  <2> SUFFICES ASSUME NEW q \in Posts, NEW d \in Handsets
               PROVE  /\ TakenByRing(q, d) /\ d \in filed'[q] => MayBeOnBoth(q, d)'
                      /\ TakenByRing(q, d) /\ Exists(q)' /\ q \notin matched' /\ d \in signedIn
                           => MayBeOnBoth(q, d)'
                      /\ d \in filed'[q] /\ d \notin linked /\ Exists(q)'
                           /\ (q \notin notified \/ q \in fan.todo) => MayBeOnBoth(q, d)'
    BY <1>1, <1>3 DEF TracksApart
  <2>1. CASE q = p
    BY <1>1, <1>6, <1>8, <1>11, <2>1 DEF MayBeOnBoth
  <2>2. CASE q # p
    <3>1. MayBeOnBoth(q, d) => MayBeOnBoth(q, d)'
      BY <1>1, <1>8 DEF MayBeOnBoth
    <3> QED BY <1>1, <1>3, <1>8, <1>11, <2>2, <3>1 DEF IndInv, FanoutInv, TracksApart
  <2> QED BY <2>1, <2>2
<1>13. FanoutInv'
  BY <1>3, <1>9, <1>10, <1>12 DEF FanoutInv
<1> QED BY <1>2, <1>13 DEF IndInv

LEMMA SuppressStep ==
  ASSUME IndInv, _suppress_future_push \/ \E d \in Handsets : RegisterToken(d)
  PROVE  IndInv'
<1>1. /\ UNCHANGED intakeVars
      /\ UNCHANGED <<matched, disp, signedIn, linked, fan, rang, unsure, filed, moved,
                     unlinked>>
      /\ notified \subseteq notified'
  BY DEF _suppress_future_push, RegisterToken
<1>2. token' \in [Handsets -> Nat]
  BY DEF _suppress_future_push, RegisterToken, IndInv, FanoutInv, FanoutType
<1>3. /\ RowsAreOpen' /\ RungOnce'
      /\ \A p \in Posts, d \in Handsets : TakenByRing(p, d)' = TakenByRing(p, d)
      /\ \A p \in Posts : Exists(p)' = Exists(p) /\ Pruned(p)' = Pruned(p)
  BY <1>1, RingsUnchanged
<1>4. FanoutType'
  BY <1>1, <1>2 DEF IndInv, FanoutInv, FanoutType
<1>5. TakenIsClassified'
  <2>1. \A p \in Posts : TakenUp(p)' => TakenUp(p)
    BY <1>1, <1>3 DEF TakenUp
  <2> QED BY <1>1, <1>3, <2>1 DEF IndInv, FanoutInv, TakenIsClassified, intakeVars
<1>6. TracksApart'
  BY <1>1, <1>3 DEF IndInv, FanoutInv, TracksApart, MayBeOnBoth
<1>7. FanoutInv'
  BY <1>3, <1>4, <1>5, <1>6 DEF FanoutInv
<1> QED BY <1>1, <1>7, TableUnchanged DEF IndInv

(* A post open on a track sees every change of account and of link.        *)
LEMMA AccountStep ==
  ASSUME IndInv, NEW h \in Handsets, AccountOnly(h),
         signedIn' \subseteq Handsets, linked' \subseteq Handsets,
         \A d \in Handsets : d # h => (d \in signedIn' <=> d \in signedIn)
                                    /\ (d \in linked' <=> d \in linked)
  PROVE  IndInv'
<1>1. /\ UNCHANGED intakeVars
      /\ UNCHANGED <<notified, matched, disp, token, fan, rang, unsure, filed, unlinked>>
      /\ moved' = [p \in Posts |-> IF Open(p) THEN moved[p] \union {h} ELSE moved[p]]
  BY DEF AccountOnly
<1>2. /\ RowsAreOpen' /\ RungOnce'
      /\ \A p \in Posts, d \in Handsets : TakenByRing(p, d)' = TakenByRing(p, d)
      /\ \A p \in Posts : Exists(p)' = Exists(p) /\ Pruned(p)' = Pruned(p)
  BY <1>1, RingsUnchanged
<1>3. FanoutType'
  <2>1. moved \in [Posts -> SUBSET Handsets]
    BY DEF IndInv, FanoutInv, FanoutType
  <2>2. moved' \in [Posts -> SUBSET Handsets]
    BY <1>1, <2>1
  <2> QED BY <1>1, <2>2 DEF IndInv, FanoutInv, FanoutType
<1>4. TakenIsClassified'
  <2>1. \A p \in Posts : TakenUp(p)' => TakenUp(p)
    BY <1>1, <1>2 DEF TakenUp
  <2> QED BY <1>1, <1>2, <2>1 DEF IndInv, FanoutInv, TakenIsClassified, intakeVars
<1>5. TracksApart'
  <2> SUFFICES ASSUME NEW p \in Posts, NEW d \in Handsets
               PROVE  /\ TakenByRing(p, d) /\ d \in filed[p] => MayBeOnBoth(p, d)'
                      /\ TakenByRing(p, d) /\ Exists(p) /\ p \notin matched /\ d \in signedIn'
                           => MayBeOnBoth(p, d)'
                      /\ d \in filed[p] /\ d \notin linked' /\ Exists(p)
                           /\ (p \notin notified \/ p \in fan.todo) => MayBeOnBoth(p, d)'
    BY <1>1, <1>2 DEF TracksApart
  <2>1. /\ MayBeOnBoth(p, d) => MayBeOnBoth(p, d)'
        /\ Open(p) => MayBeOnBoth(p, h)'
    BY <1>1 DEF MayBeOnBoth
  <2>2. CASE d = h
    <3>1. TakenByRing(p, d) \/ d \in filed[p] => TakenUp(p)
      BY DEF TakenUp
    <3>2. TakenUp(p) /\ Exists(p) => post[p].class # NoClass
      BY DEF IndInv, FanoutInv, TakenIsClassified, Exists, Pruned
    <3> QED BY <2>1, <2>2, <3>1, <3>2 DEF Open, IndInv, FanoutInv, TracksApart
  <2>3. CASE d # h
    BY <2>1, <2>3 DEF IndInv, FanoutInv, TracksApart
  <2> QED BY <2>2, <2>3
<1>6. FanoutInv'
  BY <1>2, <1>3, <1>4, <1>5 DEF FanoutInv
<1> QED BY <1>1, <1>6, TableUnchanged DEF IndInv

LEMMA SignStep ==
  ASSUME IndInv, NEW h \in Signing,
         SignIn(h) \/ register_device(h) \/ SignOut(h) \/ Unlink(h)
  PROVE  IndInv'
<1>1. h \in Handsets /\ signedIn \subseteq Handsets /\ linked \subseteq Handsets
  BY FanoutConstants DEF IndInv, FanoutInv, FanoutType
<1>2. /\ AccountOnly(h)
      /\ signedIn' \in {signedIn, signedIn \union {h}, signedIn \ {h}}
      /\ linked' \in {linked, linked \union {h}, linked \ {h}}
  BY DEF SignIn, register_device, SignOut, Unlink
<1> QED BY <1>1, <1>2, AccountStep

LEMMA PruneStep ==
  ASSUME IndInv, NEW x \in Posts, Prune(x)
  PROVE  IndInv'
<1>1. /\ retention_job(x) /\ matched' = matched \ {x}
      /\ disp' = [disp EXCEPT ![x] = [d \in Handsets |-> NoRow]]
      /\ UNCHANGED <<notified, token, signedIn, linked, fan, rang, unsure, filed, moved,
                     unlinked>>
  BY DEF Prune
<1>2. /\ IntakeInv' /\ PostsEvolve /\ Pruned(x)'
      /\ \A p \in Posts : p # x => post'[p] = post[p]
  BY <1>1, RetentionStep DEF IndInv
<1>3. Exists(x) /\ ~Pruned(x) /\ ~Exists(x)'
  BY <1>1, <1>2 DEF retention_job, Exists, Pruned
<1>4. \A p \in Posts : p # x => Exists(p)' = Exists(p) /\ Pruned(p)' = Pruned(p)
  BY <1>2 DEF Exists, Pruned
<1>5. disp \in [Posts -> [Handsets -> DispatchRows]]
  BY DEF IndInv, FanoutInv, FanoutType
<1>6. \A p \in Posts, d \in Handsets :
        disp'[p][d] = IF p = x THEN NoRow ELSE disp[p][d]
  BY <1>1, <1>5
<1>7. NoRow.status = "none" /\ NoRow \in DispatchRows
  BY DEF NoRow, DispatchRows, Statuses
<1>8. Post' = Post
  BY <1>1 DEF Post
<1>9. \A p \in Posts, d \in Handsets :
        InRows(p, d)' = InRows(p, d) /\ InFlight(p, d)' = InFlight(p, d)
  BY <1>1, <1>8 DEF InRows, InFlight
<1>10. \A p \in Posts, d \in Handsets : TakenByRing(p, d)' => TakenByRing(p, d)
  BY <1>1, <1>6, <1>7, <1>9 DEF TakenByRing
<1>11. FanoutType'
  <2>1. disp' \in [Posts -> [Handsets -> DispatchRows]]
    BY <1>1, <1>5, <1>7
  <2> QED BY <1>1, <2>1 DEF IndInv, FanoutInv, FanoutType
<1>12. RowsAreOpen'
  BY <1>2, <1>4, <1>6, <1>7, <1>9 DEF IndInv, FanoutInv, RowsAreOpen
<1>13. RungOnce'
  <2> SUFFICES ASSUME NEW p \in Posts, NEW d \in Handsets, <<p, d>> \notin unsure',
                      rang'[p][d] # 0
               PROVE  rang'[p][d] = 1 /\ (RingSettled(p, d)' \/ InFlight(p, d)')
    BY DEF RungOnce
  <2>1. rang[p][d] = 1 /\ (RingSettled(p, d) \/ InFlight(p, d))
    BY <1>1 DEF IndInv, FanoutInv, RungOnce
  <2>2. CASE InFlight(p, d)
    BY <1>1, <1>9, <2>1, <2>2
  <2>3. CASE RingSettled(p, d) /\ p = x
    <3>1. disp[p][d].status \in {"sent", "cancelled", "failed"}
      BY <1>3, <2>3 DEF RingSettled
    <3>2. ~InRows(p, d)
      BY <1>3, <2>3, <3>1 DEF IndInv, FanoutInv, RowsAreOpen
    <3> QED BY <1>1, <1>2, <1>9, <2>1, <2>3, <3>2 DEF RingSettled
  <2>4. CASE RingSettled(p, d) /\ p # x
    BY <1>1, <1>4, <1>6, <1>9, <2>1, <2>4 DEF RingSettled
  <2> QED BY <2>1, <2>2, <2>3, <2>4
<1>14. TakenIsClassified'
  <2>1. \A p \in Posts : TakenUp(p)' => TakenUp(p)
    BY <1>1, <1>10 DEF TakenUp
  <2> QED BY <1>2, <1>4, <2>1 DEF IndInv, FanoutInv, TakenIsClassified
<1>15. TracksApart'
  BY <1>1, <1>3, <1>4, <1>10 DEF IndInv, FanoutInv, TracksApart, MayBeOnBoth
<1>16. FanoutInv'
  BY <1>11, <1>12, <1>13, <1>14, <1>15 DEF FanoutInv
<1> QED BY <1>2, <1>16 DEF IndInv

(***************************************************************************)
(* The theorems.                                                           *)
(***************************************************************************)
LEMMA EveryStep == IndInv /\ [Next]_bulletinVars => IndInv'
<1> SUFFICES ASSUME IndInv, [Next]_bulletinVars PROVE IndInv'
  OBVIOUS
<1>1. CASE Processing
  BY <1>1, ProcessingStep, IntakeKeepsFanout DEF IndInv
<1>2. CASE dispatch_pending_bulletins \/ ResolveAudience \/ ReadPending \/ _record \/ FinishPost
  BY <1>2, PickStep, ResolveStep, ReadStep, RecordStep, FinishStep
<1>3. CASE \E d \in Handsets : _cancel_dispatch(d)
  BY <1>3, CancelStep
<1>4. CASE \E chunk \in Chunks : \E answer \in [chunk -> Answers] : Send(chunk, answer)
  BY <1>4, SendStep
<1>5. CASE _delay_retry(TRUE) \/ _delay_retry(FALSE)
  BY <1>5, DelayStep
<1>6. CASE ServerDies
  BY <1>6, CrashStep
<1>7. CASE \E failing \in SUBSET Posts : dispatch_user_bulletins(failing)
  BY <1>7, UserStep
<1>8. CASE \E p \in Posts : Prune(p) \/ send(p)
  BY <1>8, PruneStep, OperatorStep
<1>9. CASE _suppress_future_push \/ \E d \in Handsets : RegisterToken(d)
  BY <1>9, SuppressStep
<1>10. CASE \E d \in Signing : SignIn(d) \/ register_device(d) \/ SignOut(d) \/ Unlink(d)
  BY <1>10, SignStep
<1>11. CASE UNCHANGED bulletinVars
  <2>1. UNCHANGED intakeVars /\ UNCHANGED fanVars
    BY <1>11 DEF bulletinVars
  <2>2. PostsEvolve /\ PostsStay
    BY <2>1, TableUnchanged DEF IndInv, PostsEvolve, PostsStay, Evolves, intakeVars
  <2> QED BY <2>1, <2>2, TableUnchanged, IntakeKeepsFanout DEF IndInv
<1> QED
  BY <1>1, <1>2, <1>3, <1>4, <1>5, <1>6, <1>7, <1>8, <1>9, <1>10, <1>11, Zenon
     DEF Next, Fanout

(* The table, the workers and the fan-out stay sound through scrapes,      *)
(* claims, errors, crashes, pruning, both tracks and changes of account    *)
(* (bulletins/jobs.py, dispatcher.py, user_dispatch.py).                   *)
THEOREM BulletinsSound == Spec => []IndInv
<1>1. FanoutInit => IndInv
  BY FanoutInitially
<1>2. IndInv /\ [Next]_bulletinVars => IndInv'
  BY EveryStep
<1> QED BY <1>1, <1>2, PTL DEF Spec

(* A row whose attempts are used up is never left pending, unless an error *)
(* or a crash cut one of them short, or the last was claimed while another *)
(* worker was between reading the attempts and writing the state           *)
(* (claim_pending_bulletins, _mark_failed, both in bulletins/jobs.py).     *)
THEOREM NoRowForgotten == Spec => []PendingIsWorkedOn
<1>1. IndInv => PendingIsWorkedOn
  BY DEF IndInv, IntakeInv
<1> QED BY <1>1, BulletinsSound, PTL

(* However many workers meet, two posts of the school's page with the same *)
(* content are never both classified (attach_body_and_dedup and the unique *)
(* index ix_bulletins_content_hash).                                       *)
THEOREM RepostsAreSilent == Spec => []RepostStaysSilent
<1>1. IndInv => RepostStaysSilent
  <2> SUFFICES ASSUME IndInv, NEW p \in setting.scraped, NEW q \in setting.scraped,
                      post[p].state = "processed", post[q].state = "processed",
                      Body[p] = Body[q]
               PROVE  p = q
    BY DEF RepostStaysSilent
  <2>1. p \in Posts /\ q \in Posts
    BY IntakeConstants DEF IndInv, IntakeInv, IntakeType
  <2>2. Exists(p) /\ Exists(q) /\ post[p].hash /\ post[q].hash
    BY <2>1 DEF IndInv, IntakeInv, ClassifiedIsStored, Exists
  <2> QED BY <2>1, <2>2 DEF IndInv, IntakeInv, ContentIsUnique
<1> QED BY <1>1, BulletinsSound, PTL

(* Whatever crashes, retries, new tokens or pruning come between, a        *)
(* handset hears a bulletin twice only after a send whose outcome was lost *)
(* (dispatcher._dispatch_one and the rows it records per token).           *)
THEOREM RingsOnlyOnce == Spec => []AnonymousOnce
<1>1. IndInv => AnonymousOnce
  BY DEF IndInv, FanoutInv, RungOnce, AnonymousOnce
<1> QED BY <1>1, BulletinsSound, PTL

(* A handset whose account and link stay as they are while a bulletin is   *)
(* sent hears of it on one track, unless it is signed in and not linked    *)
(* when a track takes it (matcher.match_device_ids,                        *)
(* user_dispatch.dispatch_user_bulletins).                                 *)
THEOREM TracksStayApart == Spec => []OneTrack
<1>1. IndInv => OneTrack
  <2> SUFFICES ASSUME IndInv, NEW p \in Posts, NEW d \in Handsets,
                      rang[p][d] > 0, d \in filed[p]
               PROVE  d \in moved[p] \/ d \in unlinked[p]
    BY DEF OneTrack
  <2>1. TakenByRing(p, d)
    BY DEF TakenByRing
  <2> QED BY <2>1 DEF IndInv, FanoutInv, TracksApart, MayBeOnBoth
<1> QED BY <1>1, BulletinsSound, PTL
=============================================================================
