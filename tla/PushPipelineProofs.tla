------------------------- MODULE PushPipelineProofs -------------------------
(* Proofs about PushPipeline, for every number of jobs, tokens, devices,     *)
(* ticks and workers, and any limits on attempts, tries, rows and crashes.   *)
(*                                                                           *)
(* A step does one of two things.  Most steps go on beside the open rounds:  *)
(* a job keeps its row, or gets a new one while no round holds it (Beside).  *)
(* The others open, continue, commit or roll back a round.                   *)
EXTENDS PushPipeline, TLAPS

Pcs == {"idle", "claim", "process", "outrank", "release", "deliver", "handler"}
Working == {"process", "outrank", "release", "deliver", "handler"}
Checks == {"none", "started", "asking", "void"} \cup Verdicts
Open == {"pending", "resting"}
WentOut == {"sent", "partial_failed"}

JobRows == [id : Nat,
            status : {"none", "pending", "processing", "sent", "partial_failed",
                      "failed", "cancelled"},
            attempts : Nat, by : Workers \cup {NoWorker}, stale : BOOLEAN,
            fired : BOOLEAN, avail : BOOLEAN, late : BOOLEAN, waited : BOOLEAN]
Deliveries == [status : {"none", "pending", "resting", "sent", "failed", "skipped"},
               tries : Nat]
TickRows == [pc : Pcs, batch : Seq(Jobs \X Nat), handled : SUBSET (Jobs \X Nat),
             check : [Jobs -> Checks]]
RoundRows == [dlv : [Tokens -> Deliveries], todo : SUBSET Tokens, tried : BOOLEAN,
              dead : SUBSET Tokens]

TypeOK ==
    /\ mix \in Mixes
    /\ job \in [Jobs -> JobRows]
    /\ dlv \in [Jobs -> [Tokens -> Deliveries]]
    /\ token \in [Tokens -> {"absent", "active", "invalidated"}]
    /\ deleted \in SUBSET Devices
    /\ row \in {"open", "gone", "submitted"}
    /\ turnedIn \in BOOLEAN
    /\ tick \in [Ticks -> TickRows]
    /\ holder \in [Jobs -> Ticks \cup {NoTick}]
    /\ round \in [Ticks -> RoundRows]
    /\ crashes \in Nat
    /\ rang \in [Jobs -> [Tokens -> 0..2]]
    /\ unsure \in [Jobs -> [Tokens -> BOOLEAN]]
    /\ vouched \in SUBSET Jobs
    /\ begun \in SUBSET Jobs
    /\ counting \in SUBSET Tokens

\* The job's row is locked by an open round, which is Going(k).
Held(k) == holder[k] # NoTick
Going(k) == round[holder[k]]

\* A round holds the job its tick is at, and that job's claim.
Holding ==
    /\ \A k \in Jobs : Held(k) =>
          /\ tick[holder[k]].pc = "deliver" /\ Head1(holder[k]) = k
          /\ job[k].status = "processing"
    /\ \A t \in Ticks : tick[t].pc = "deliver" => holder[Head1(t)] = t

\* A batch names each job once, by its row or an earlier one; only reminders and
\* starts are checked, and what a check found open was found so for that row.
BatchedAt(t) ==
    /\ tick[t].pc \in Working => tick[t].batch # <<>>
    /\ \A k \in Jobs : tick[t].check[k] # "none" => OfAssignment(k)
    /\ \A i \in 1..Len(tick[t].batch) :
          LET k == tick[t].batch[i][1] IN
          /\ tick[t].batch[i][2] <= job[k].id
          /\ tick[t].check[k] = "send" /\ job[k].id = tick[t].batch[i][2] => k \in vouched
          /\ \A j \in 1..Len(tick[t].batch) : tick[t].batch[j][1] = k => j = i

Batched == \A t \in Ticks : BatchedAt(t)

\* The job may go to this token, and was checked if it must be.
Named(k, tok) ==
    /\ Target[k] \in {AnyDevice, DeviceOf[tok]}
    /\ OfAssignment(k) => k \in vouched /\ k \in begun

Delivered ==
    \A k \in Jobs, tok \in Tokens :
        /\ dlv[k][tok].status # "none" => Named(k, tok)
        /\ dlv[k][tok].status = "sent" => rang[k][tok] > 0
        /\ rang[k][tok] > 0 => Named(k, tok)

RoundsSound ==
    \A k \in Jobs : Held(k) => \A tok \in Tokens :
        /\ tok \in Going(k).todo => Going(k).dlv[tok].status = "pending"
        /\ Going(k).dlv[tok].status # "none" => Named(k, tok)
        /\ Going(k).dlv[tok].status = "sent" => rang[k][tok] > 0
        /\ dlv[k][tok].status = "sent" => Going(k).dlv[tok].status = "sent"

\* A phone that got a push, as far as the database can know, got it once, and
\* its delivery says so, or that of the open round.
RungOnce ==
    \A k \in Jobs, tok \in Tokens : rang[k][tok] > 0 /\ ~unsure[k][tok] =>
        /\ rang[k][tok] = 1
        /\ dlv[k][tok].status = "sent" \/ (Held(k) /\ Going(k).dlv[tok].status = "sent")

Ends(k, tok) == Kind[k] = "end" /\ DeviceOf[tok] = Target[k]

\* The token will not be active again.
Gone(tok) == token[tok] = "invalidated" \/ DeviceOf[tok] \in deleted

\* A round of an end job has a delivery for every activity counting on its device.
EndsCover ==
    /\ \A tok \in counting : TokenKind[tok] = "live_activity_update"
    /\ \A tok \in Tokens : DeviceOf[tok] \in deleted => token[tok] = "absent"
    /\ \A k \in Jobs, tok \in Tokens : Ends(k, tok) =>
          /\ dlv[k][tok].status # "none" => token[tok] = "active" \/ Gone(tok)
          /\ dlv[k][tok].status = "skipped" => Gone(tok)
          /\ Held(k) =>
                /\ Going(k).dlv[tok].status # "none" => token[tok] = "active" \/ Gone(tok)
                /\ Going(k).dlv[tok].status = "skipped" => Gone(tok)
                /\ tok \in counting /\ token[tok] = "active" =>
                      Going(k).dlv[tok].status \notin {"none", "skipped"}

\* Of the devices a reminder left out, each was rung by its countdown start.
StartRang(d) ==
    \E s \in Jobs, tok \in Tokens :
        Kind[s] = "start" /\ Target[s] = d /\ DeviceOf[tok] = d /\ rang[s][tok] > 0

SparedRang == \A d \in spared : StartRang(d)

\* What went out was delivered to someone and left nothing open.
SettledSound ==
    \A k \in Jobs :
        /\ job[k].status \in WentOut =>
              /\ \E tok \in Tokens : dlv[k][tok].status = "sent"
              /\ \A tok \in Tokens : dlv[k][tok].status \notin Open
        /\ job[k].status = "sent" => \A tok \in Tokens : dlv[k][tok].status # "failed"

IndInv ==
    /\ TypeOK /\ Holding /\ Batched /\ Delivered /\ RoundsSound /\ RungOnce
    /\ EndsCover /\ EndReachesRunning /\ SparedRang /\ SettledSound

-----------------------------------------------------------------------------
(* Rows.                                                                     *)

LEMMA UnclaimedRow ==
    ASSUME TypeOK, NEW k \in Jobs, NEW attempts \in Nat, NEW avail \in BOOLEAN,
           NEW status \in {"pending", "sent", "partial_failed", "failed", "cancelled"}
    PROVE  /\ Unclaimed(k, status, attempts, avail) \in JobRows
           /\ Unclaimed(k, status, attempts, avail).id = job[k].id
           /\ Unclaimed(k, status, attempts, avail).status = status
  BY DEF TypeOK, JobRows, Unclaimed

LEMMA JobFields ==
    ASSUME TypeOK, NEW k \in Jobs
    PROVE  /\ job[k] \in JobRows /\ job[k].id \in Nat /\ job[k].attempts \in Nat
           /\ job[k].attempts + 1 \in Nat
           /\ job[k].avail \in BOOLEAN /\ job[k].late \in BOOLEAN /\ job[k].fired \in BOOLEAN
           /\ job[k].waited \in BOOLEAN
  BY DEF TypeOK, JobRows

LEMMA PutBackRow ==
    ASSUME TypeOK, NEW k \in Jobs
    PROVE  /\ PutBack(k) \in JobRows /\ PutBack(k).id = job[k].id
           /\ PutBack(k).status = "pending"
<1>1. job[k].attempts \in Nat /\ FALSE \in BOOLEAN
  BY JobFields
<1> QED BY <1>1, UnclaimedRow DEF PutBack

LEMMA SettledRow ==
    ASSUME TypeOK, NEW k \in Jobs, NEW status \in {"sent", "partial_failed", "failed", "cancelled"}
    PROVE  /\ _settle(k, status) \in JobRows /\ _settle(k, status).id = job[k].id
           /\ _settle(k, status).status = status
  BY JobFields, UnclaimedRow DEF _settle

LEMMA SpentRow ==
    ASSUME TypeOK, NEW k \in Jobs
    PROVE  /\ SpendAttempt(k) \in JobRows /\ SpendAttempt(k).id = job[k].id
           /\ SpendAttempt(k).status \in {"pending", "failed"}
<1>1. job[k].attempts + 1 \in Nat /\ job[k].avail \in BOOLEAN /\ FALSE \in BOOLEAN
  BY JobFields
<1> DEFINE failed == Unclaimed(k, "failed", job[k].attempts + 1, job[k].avail)
           again == Unclaimed(k, "pending", job[k].attempts + 1, FALSE)
<1>2. failed \in JobRows /\ failed.id = job[k].id /\ failed.status = "failed"
  BY <1>1, UnclaimedRow
<1>3. again \in JobRows /\ again.id = job[k].id /\ again.status = "pending"
  BY <1>1, UnclaimedRow
<1>4. SpendAttempt(k) \in {failed, again}
  BY DEF SpendAttempt
<1> QED BY <1>2, <1>3, <1>4

LEMMA NewRowIs ==
    ASSUME TypeOK, NEW k \in Jobs, NEW fired \in BOOLEAN
    PROVE  /\ NewRow(k, fired) \in JobRows /\ NewRow(k, fired).id = job[k].id + 1
           /\ NewRow(k, fired).status = "pending"
  BY JobFields DEF NewRow, JobRows

\* The head of a batch.
LEMMA HeadOfBatch ==
    ASSUME TypeOK, NEW t \in Ticks, tick[t].batch # <<>>
    PROVE  /\ Head1(t) \in Jobs /\ HeadId(t) \in Nat
           /\ tick[t].batch \in Seq(Jobs \X Nat) /\ Len(tick[t].batch) \in Nat \ {0}
           /\ tick[t].batch[1] = <<Head1(t), HeadId(t)>>
           /\ Tail(tick[t].batch) \in Seq(Jobs \X Nat)
           /\ Len(Tail(tick[t].batch)) = Len(tick[t].batch) - 1
           /\ \A i \in 1..Len(Tail(tick[t].batch)) :
                 i + 1 \in 1..Len(tick[t].batch)
                 /\ Tail(tick[t].batch)[i] = tick[t].batch[i + 1]
<1>1. tick[t].batch \in Seq(Jobs \X Nat)
  BY DEF TypeOK, TickRows
<1>2. Len(tick[t].batch) \in Nat \ {0} /\ 1 \in 1..Len(tick[t].batch)
  BY <1>1
<1>3. tick[t].batch[1] \in Jobs \X Nat
  BY <1>1, <1>2
<1>4. tick[t].batch[1] = <<Head1(t), HeadId(t)>> /\ Head1(t) \in Jobs /\ HeadId(t) \in Nat
  BY <1>3 DEF Head1, HeadId
<1> QED BY <1>1, <1>2, <1>4

-----------------------------------------------------------------------------
(* Steps beside the open rounds.                                             *)

\* A delivery stays, comes due again, or is skipped by a full sync or with its
\* session push.
SameDelivery(k, tok) ==
    \/ dlv'[k][tok].status = dlv[k][tok].status
    \/ dlv[k][tok].status = "resting" /\ dlv'[k][tok].status = "pending"
    \/ /\ dlv[k][tok].status \in Open /\ dlv'[k][tok].status = "skipped"
       /\ Target[k] = AnyDevice \/ Kind[k] = "reauth"

\* The job keeps its row, which does not go out.
Kept(k) ==
    /\ job'[k].id = job[k].id
    /\ rang'[k] = rang[k] /\ unsure'[k] = unsure[k]
    /\ k \in vouched => k \in vouched'
    /\ k \in begun => k \in begun'
    /\ \A tok \in Tokens : SameDelivery(k, tok)
    /\ Held(k) => job'[k].status = "processing"
    /\ job'[k].status \in WentOut => job'[k].status = job[k].status

\* The job gets a new row, with no round open.
Renewed(k) ==
    /\ ~Held(k)
    /\ job'[k].id = job[k].id + 1 /\ job'[k].status = "pending"
    /\ \A tok \in Tokens : dlv'[k][tok].status = "none" /\ rang'[k][tok] = 0

Beside == holder' = holder /\ round' = round /\ \A k \in Jobs : Kept(k) \/ Renewed(k)

LEMMA BesideKeeps ==
    ASSUME IndInv, Beside
    PROVE  /\ Delivered' /\ RoundsSound' /\ RungOnce' /\ SettledSound'
           /\ \A k \in Jobs : holder'[k] # NoTick => job'[k].status = "processing"
<1>1. ASSUME NEW k \in Jobs, NEW tok \in Tokens
      PROVE  /\ dlv'[k][tok].status # "none" => Named(k, tok)'
             /\ dlv'[k][tok].status = "sent" => rang'[k][tok] > 0
             /\ rang'[k][tok] > 0 => Named(k, tok)'
  <2>1. CASE Kept(k)
    <3>1. Named(k, tok) => Named(k, tok)'
      BY <2>1 DEF Kept, Named
    <3>2. /\ dlv[k][tok].status # "none" => Named(k, tok)
          /\ dlv[k][tok].status = "sent" => rang[k][tok] > 0
          /\ rang[k][tok] > 0 => Named(k, tok)
      BY DEF IndInv, Delivered
    <3> QED BY <2>1, <3>1, <3>2 DEF Kept, SameDelivery, Open
  <2>2. CASE Renewed(k)
    BY <2>2 DEF Renewed
  <2> QED BY <2>1, <2>2 DEF Beside
<1>2. ASSUME NEW k \in Jobs, holder'[k] # NoTick
      PROVE  /\ Held(k) /\ Kept(k) /\ Going(k)' = Going(k)
             /\ job'[k].status = "processing"
  BY <1>2 DEF Beside, Kept, Renewed, Held, Going
<1>3. ASSUME NEW k \in Jobs, holder'[k] # NoTick, NEW tok \in Tokens
      PROVE  /\ tok \in Going(k)'.todo => Going(k)'.dlv[tok].status = "pending"
             /\ Going(k)'.dlv[tok].status # "none" => Named(k, tok)'
             /\ Going(k)'.dlv[tok].status = "sent" => rang'[k][tok] > 0
             /\ dlv'[k][tok].status = "sent" => Going(k)'.dlv[tok].status = "sent"
  <2>1. Held(k) /\ Kept(k) /\ Going(k)' = Going(k)
    BY <1>2, <1>3
  <2>2. Named(k, tok) => Named(k, tok)'
    BY <2>1 DEF Kept, Named
  <2>3. /\ tok \in Going(k).todo => Going(k).dlv[tok].status = "pending"
        /\ Going(k).dlv[tok].status # "none" => Named(k, tok)
        /\ Going(k).dlv[tok].status = "sent" => rang[k][tok] > 0
        /\ dlv[k][tok].status = "sent" => Going(k).dlv[tok].status = "sent"
    BY <2>1 DEF IndInv, RoundsSound
  <2>4. dlv'[k][tok].status = "sent" => dlv[k][tok].status = "sent"
    BY <2>1 DEF Kept, SameDelivery
  <2>5. rang'[k][tok] = rang[k][tok]
    BY <2>1 DEF Kept
  <2> QED BY <2>1, <2>2, <2>3, <2>4, <2>5
<1>4. ASSUME NEW k \in Jobs, NEW tok \in Tokens, rang'[k][tok] > 0, ~unsure'[k][tok]
      PROVE  /\ rang'[k][tok] = 1
             /\ \/ dlv'[k][tok].status = "sent"
                \/ Held(k)' /\ Going(k)'.dlv[tok].status = "sent"
  <2>1. Kept(k)
    BY <1>4 DEF Beside, Renewed
  <2>2. /\ rang'[k][tok] = rang[k][tok] /\ unsure'[k][tok] = unsure[k][tok]
        /\ dlv[k][tok].status = "sent" => dlv'[k][tok].status = "sent"
    BY <2>1 DEF Kept, SameDelivery, Open
  <2>3. /\ rang[k][tok] = 1
        /\ dlv[k][tok].status = "sent" \/ (Held(k) /\ Going(k).dlv[tok].status = "sent")
    BY <1>4, <2>2 DEF IndInv, RungOnce
  <2> QED BY <2>2, <2>3 DEF Beside, Held, Going
<1>5. ASSUME NEW k \in Jobs, job'[k].status \in WentOut
      PROVE  /\ \E tok \in Tokens : dlv'[k][tok].status = "sent"
             /\ \A tok \in Tokens : dlv'[k][tok].status \notin Open
             /\ job'[k].status = "sent" => \A tok \in Tokens : dlv'[k][tok].status # "failed"
  <2>1. Kept(k) /\ job'[k].status = job[k].status
    BY <1>5 DEF Beside, Renewed, Kept, WentOut
  <2>2. /\ \E tok \in Tokens : dlv[k][tok].status = "sent"
        /\ \A tok \in Tokens : dlv[k][tok].status \notin Open
        /\ job[k].status = "sent" => \A tok \in Tokens : dlv[k][tok].status # "failed"
    BY <1>5, <2>1 DEF IndInv, SettledSound
  <2>3. \A tok \in Tokens : dlv'[k][tok].status = dlv[k][tok].status
    BY <2>1, <2>2 DEF Kept, SameDelivery, Open
  <2> QED BY <2>1, <2>2, <2>3
<1>6. Delivered'
  BY <1>1 DEF Delivered
<1>7. RoundsSound'
  BY <1>3 DEF RoundsSound, Held
<1>8. RungOnce'
  BY <1>4 DEF RungOnce
<1>9. SettledSound'
  BY <1>5 DEF SettledSound, WentOut
<1> QED BY <1>2, <1>6, <1>7, <1>8, <1>9

\* Tokens only die, and no countdown begins.
TokensDie ==
    /\ deleted' = deleted /\ counting' \subseteq counting
    /\ \A tok \in Tokens : \/ token'[tok] = token[tok]
                           \/ token[tok] = "active" /\ token'[tok] = "invalidated"

LEMMA BesideCovers ==
    ASSUME IndInv, Beside, TokensDie
    PROVE  EndsCover' /\ EndReachesRunning'
<1>1. \A tok \in Tokens : /\ Gone(tok) => Gone(tok)'
                          /\ token'[tok] = "active" => token[tok] = "active"
                          /\ token[tok] = "active" => token'[tok] = "active" \/ Gone(tok)'
  BY DEF TokensDie, Gone
<1>2. \A tok \in counting' : TokenKind[tok] = "live_activity_update"
  BY DEF TokensDie, IndInv, EndsCover
<1>3. \A tok \in Tokens : DeviceOf[tok] \in deleted' => token'[tok] = "absent"
  BY DEF TokensDie, IndInv, EndsCover
<1>4. ASSUME NEW k \in Jobs, NEW tok \in Tokens, Ends(k, tok)
      PROVE  /\ dlv'[k][tok].status # "none" => token'[tok] = "active" \/ Gone(tok)'
             /\ dlv'[k][tok].status = "skipped" => Gone(tok)'
             /\ holder'[k] # NoTick =>
                  /\ Going(k)'.dlv[tok].status # "none" => token'[tok] = "active" \/ Gone(tok)'
                  /\ Going(k)'.dlv[tok].status = "skipped" => Gone(tok)'
                  /\ tok \in counting' /\ token'[tok] = "active" =>
                        Going(k)'.dlv[tok].status \notin {"none", "skipped"}
             /\ tok \in counting' /\ token'[tok] = "active" /\ job'[k].status \in WentOut
                  => dlv'[k][tok].status \in {"sent", "failed"}
  <2>1. Target[k] # AnyDevice /\ Kind[k] # "reauth"
    BY <1>4, PushPipelineAssumption DEF Ends, Devices
  <2>2. /\ dlv[k][tok].status # "none" => token[tok] = "active" \/ Gone(tok)
        /\ dlv[k][tok].status = "skipped" => Gone(tok)
        /\ Held(k) =>
             /\ Going(k).dlv[tok].status # "none" => token[tok] = "active" \/ Gone(tok)
             /\ Going(k).dlv[tok].status = "skipped" => Gone(tok)
             /\ tok \in counting /\ token[tok] = "active" =>
                   Going(k).dlv[tok].status \notin {"none", "skipped"}
    BY <1>4 DEF IndInv, EndsCover
  <2>3. CASE Kept(k)
    <3>1. /\ dlv'[k][tok].status # "none" => dlv[k][tok].status # "none"
          /\ dlv'[k][tok].status = "skipped" => dlv[k][tok].status = "skipped"
          /\ dlv[k][tok].status \in {"sent", "failed"} => dlv'[k][tok].status = dlv[k][tok].status
      BY <2>1, <2>3 DEF Kept, SameDelivery, Open
    <3>2. ASSUME holder'[k] # NoTick PROVE Held(k) /\ Going(k)' = Going(k)
      BY <3>2 DEF Beside, Held, Going
    <3>3. ASSUME tok \in counting', token'[tok] = "active", job'[k].status \in WentOut
          PROVE  dlv[k][tok].status \in {"sent", "failed"}
      <4>1. tok \in counting /\ token[tok] = "active"
        BY <1>1, <3>3 DEF TokensDie
      <4>2. job[k].status \in WentOut
        BY <2>3, <3>3 DEF Kept
      <4> QED BY <1>4, <4>1, <4>2 DEF IndInv, EndReachesRunning, Ends, WentOut
    <3>4. tok \in counting' => tok \in counting
      BY DEF TokensDie
    <3> QED BY <1>1, <2>2, <3>1, <3>2, <3>3, <3>4
  <2>4. CASE Renewed(k)
    BY <2>4 DEF Renewed, Beside, Held, WentOut
  <2> QED BY <2>3, <2>4 DEF Beside
<1>5. EndsCover'
  BY <1>2, <1>3, <1>4 DEF EndsCover, Held, Ends
<1>6. EndReachesRunning'
  <2> SUFFICES ASSUME NEW k \in Jobs, NEW tok \in counting', Kind[k] = "end", token'[tok] = "active",
                      DeviceOf[tok] = Target[k], job'[k].status \in WentOut
               PROVE  dlv'[k][tok].status \in {"sent", "failed"}
    BY DEF EndReachesRunning, WentOut
  <2>1. tok \in Tokens
    BY DEF TokensDie, IndInv, TypeOK
  <2> QED BY <1>4, <2>1 DEF Ends
<1> QED BY <1>5, <1>6

\* A device is spared no more once its start gets a new row.
SparesRung ==
    \A d \in spared' : /\ StartRang(d)
                       /\ \A k \in Jobs : Kind[k] = "start" /\ Target[k] = d => Kept(k)

LEMMA BesideSpared ==
    ASSUME Beside, SparesRung
    PROVE  SparedRang'
<1> SUFFICES ASSUME NEW d \in spared'
             PROVE  \E s \in Jobs, tok \in Tokens :
                      Kind[s] = "start" /\ Target[s] = d /\ DeviceOf[tok] = d /\ rang'[s][tok] > 0
  BY DEF SparedRang, StartRang
<1>1. PICK s \in Jobs, tok \in Tokens :
        Kind[s] = "start" /\ Target[s] = d /\ DeviceOf[tok] = d /\ rang[s][tok] > 0
  BY DEF SparesRung, StartRang
<1>2. Kept(s)
  BY <1>1 DEF SparesRung
<1> QED BY <1>1, <1>2 DEF Kept

-----------------------------------------------------------------------------
(* Ticks.                                                                    *)

\* The tick has the batch it had, or the rest of it, and no new clearance.
Shorter(t) ==
    /\ tick'[t].pc \in Working => tick'[t].batch # <<>>
    /\ \E n \in {0, 1} : \A i \in 1..Len(tick'[t].batch) :
          i + n \in 1..Len(tick[t].batch) /\ tick'[t].batch[i] = tick[t].batch[i + n]
    /\ \A k \in Jobs : /\ tick'[t].check[k] = "send" => tick[t].check[k] = "send"
                       /\ tick'[t].check[k] # "none" => tick[t].check[k] # "none"

\* The tick goes on with its round, or has none.
Resting(t) ==
    \/ tick'[t].pc = tick[t].pc /\ tick'[t].batch = tick[t].batch
    \/ tick[t].pc # "deliver" /\ tick'[t].pc # "deliver"

IdsGrow ==
    \A k \in Jobs : \/ job'[k].id = job[k].id /\ (k \in vouched => k \in vouched')
                    \/ job'[k].id = job[k].id + 1

LEMMA BatchKeys ==
    ASSUME TypeOK, NEW t \in Ticks, NEW i \in 1..Len(tick[t].batch)
    PROVE  tick[t].batch[i][1] \in Jobs /\ tick[t].batch[i][2] \in Nat
<1>1. tick[t].batch \in Seq(Jobs \X Nat)
  BY DEF TypeOK, TickRows
<1>2. tick[t].batch[i] \in Jobs \X Nat
  BY <1>1
<1> QED BY <1>2

LEMMA ShorterKeeps ==
    ASSUME IndInv, IdsGrow, TypeOK', NEW t \in Ticks, Shorter(t)
    PROVE  BatchedAt(t)'
<1>0. ASSUME NEW k \in Jobs, tick'[t].check[k] # "none" PROVE OfAssignment(k)
  BY <1>0 DEF Shorter, IndInv, Batched, BatchedAt
<1> SUFFICES ASSUME NEW i \in 1..Len(tick'[t].batch), NEW k,
                    k = tick'[t].batch[i][1]
             PROVE  /\ tick'[t].batch[i][2] <= job'[k].id
                    /\ tick'[t].check[k] = "send" /\ job'[k].id = tick'[t].batch[i][2]
                         => k \in vouched'
                    /\ \A j \in 1..Len(tick'[t].batch) : tick'[t].batch[j][1] = k => j = i
  BY <1>0 DEF BatchedAt, Shorter
<1>1. PICK n \in {0, 1} : \A j \in 1..Len(tick'[t].batch) :
        j + n \in 1..Len(tick[t].batch) /\ tick'[t].batch[j] = tick[t].batch[j + n]
  BY DEF Shorter
<1>2. /\ tick[t].batch[i + n][2] <= job[k].id
      /\ tick[t].check[k] = "send" /\ job[k].id = tick[t].batch[i + n][2] => k \in vouched
      /\ \A j \in 1..Len(tick[t].batch) : tick[t].batch[j][1] = k => j = i + n
  <2>1. i + n \in 1..Len(tick[t].batch) /\ tick[t].batch[i + n][1] = k
    BY <1>1
  <2>2. \A m \in 1..Len(tick[t].batch) :
          /\ tick[t].batch[m][2] <= job[tick[t].batch[m][1]].id
          /\ /\ tick[t].check[tick[t].batch[m][1]] = "send"
             /\ job[tick[t].batch[m][1]].id = tick[t].batch[m][2]
             => tick[t].batch[m][1] \in vouched
          /\ \A j \in 1..Len(tick[t].batch) :
               tick[t].batch[j][1] = tick[t].batch[m][1] => j = m
    BY DEF IndInv, Batched, BatchedAt
  <2> QED BY <2>1, <2>2
<1>3. k \in Jobs /\ tick[t].batch[i + n][2] \in Nat /\ job[k].id \in Nat
  BY <1>1, BatchKeys, JobFields DEF IndInv
<1>4. tick'[t].check[k] = "send" => tick[t].check[k] = "send"
  BY <1>3 DEF Shorter
<1>5. tick'[t].batch[i] = tick[t].batch[i + n]
  BY <1>1
<1>6. \/ job'[k].id = job[k].id /\ (k \in vouched => k \in vouched')
      \/ job'[k].id = job[k].id + 1
  BY <1>3 DEF IdsGrow
<1>7. ASSUME NEW j \in 1..Len(tick'[t].batch), tick'[t].batch[j][1] = k PROVE j = i
  <2>1. j + n = i + n
    BY <1>1, <1>2, <1>7
  <2>2. Len(tick'[t].batch) \in Nat
    BY DEF TypeOK, TickRows
  <2> QED BY <2>1, <2>2
<1>8. tick'[t].batch[i][2] <= job'[k].id
  BY <1>2, <1>3, <1>5, <1>6
<1>9. tick'[t].check[k] = "send" /\ job'[k].id = tick'[t].batch[i][2] => k \in vouched'
  BY <1>2, <1>3, <1>4, <1>5, <1>6
<1> QED BY <1>7, <1>8, <1>9

LEMMA HoldingBeside ==
    ASSUME IndInv, holder' = holder, \A t \in Ticks : Resting(t),
           \A k \in Jobs : holder'[k] # NoTick => job'[k].status = "processing"
    PROVE  Holding'
<1>1. \A k \in Jobs : Held(k) => holder[k] \in Ticks
  BY DEF IndInv, TypeOK, Held
<1>2. ASSUME NEW k \in Jobs, holder'[k] # NoTick
      PROVE  /\ tick'[holder'[k]].pc = "deliver" /\ Head1(holder[k])' = k
             /\ job'[k].status = "processing"
  <2>1. tick[holder[k]].pc = "deliver" /\ Head1(holder[k]) = k /\ holder[k] \in Ticks
    BY <1>1, <1>2 DEF IndInv, Holding, Held
  <2>2. tick'[holder[k]].pc = "deliver" /\ tick'[holder[k]].batch = tick[holder[k]].batch
    BY <2>1 DEF Resting
  <2> QED BY <1>2, <2>1, <2>2 DEF Head1
<1>3. ASSUME NEW t \in Ticks, tick'[t].pc = "deliver" PROVE holder'[Head1(t)'] = t
  <2>1. tick[t].pc = "deliver" /\ tick'[t].batch = tick[t].batch
    BY <1>3 DEF Resting
  <2>2. holder[Head1(t)] = t
    BY <2>1 DEF IndInv, Holding
  <2> QED BY <2>1, <2>2 DEF Head1
<1> QED BY <1>2, <1>3 DEF Holding, Held, Head1

LEMMA BesideStep ==
    ASSUME IndInv, TypeOK', Beside, TokensDie, SparesRung, Batched',
           \A t \in Ticks : Resting(t)
    PROVE  IndInv'
  BY BesideKeeps, BesideCovers, BesideSpared, HoldingBeside DEF IndInv, Beside

LEMMA BesideIds ==
    ASSUME Beside PROVE IdsGrow
  BY DEF Beside, Kept, Renewed, IdsGrow

\* A step of the world around the ticks.
LEMMA TicksStay ==
    ASSUME IndInv, TypeOK', Beside, tick' = tick
    PROVE  Batched' /\ \A t \in Ticks : Resting(t)
<1>1. ASSUME NEW t \in Ticks PROVE Shorter(t) /\ Resting(t)
  <2>1. tick[t].pc \in Working => tick[t].batch # <<>>
    BY DEF IndInv, Batched, BatchedAt
  <2>2. 0 \in {0, 1} /\ \A i \in 1..Len(tick[t].batch) : i + 0 = i
    BY DEF IndInv, TypeOK, TickRows
  <2> QED BY <2>1, <2>2 DEF Shorter, Resting
<1> QED BY <1>1, BesideIds, ShorterKeeps DEF Batched

LEMMA WorldStep ==
    ASSUME IndInv, TypeOK', Beside, TokensDie, SparesRung, tick' = tick
    PROVE  IndInv'
  BY TicksStay, BesideStep

LEMMA WorldStepOfTokens ==
    ASSUME IndInv, TypeOK', Beside, EndsCover', EndReachesRunning', SparesRung, tick' = tick
    PROVE  IndInv'
  BY TicksStay, BesideKeeps, BesideSpared, HoldingBeside DEF IndInv, Beside

\* A tick takes a step; the others stay.
LEMMA OthersStay ==
    ASSUME IndInv, TypeOK', IdsGrow, NEW t \in Ticks,
           BatchedAt(t)', \A s \in Ticks \ {t} : tick'[s] = tick[s]
    PROVE  Batched' /\ \A s \in Ticks \ {t} : Resting(s)
<1>1. ASSUME NEW s \in Ticks \ {t} PROVE Shorter(s) /\ Resting(s)
  <2>1. tick[s].pc \in Working => tick[s].batch # <<>>
    BY DEF IndInv, Batched, BatchedAt
  <2>2. 0 \in {0, 1} /\ \A i \in 1..Len(tick[s].batch) : i + 0 = i
    BY DEF IndInv, TypeOK, TickRows
  <2> QED BY <2>1, <2>2 DEF Shorter, Resting
<1> QED BY <1>1, ShorterKeeps DEF Batched

\* A tick that has no round takes a step beside the rounds.
LEMMA TickRebatched ==
    ASSUME IndInv, TypeOK', Beside, TokensDie, SparesRung, NEW t \in Ticks,
           BatchedAt(t)', Resting(t), \A s \in Ticks \ {t} : tick'[s] = tick[s]
    PROVE  IndInv'
  BY BesideIds, OthersStay, BesideStep

LEMMA TickBeside ==
    ASSUME IndInv, TypeOK', Beside, TokensDie, SparesRung, NEW t \in Ticks,
           Shorter(t), Resting(t), \A s \in Ticks \ {t} : tick'[s] = tick[s]
    PROVE  IndInv'
  BY BesideIds, ShorterKeeps, TickRebatched

-----------------------------------------------------------------------------
(* Jobs that move, with their rows and deliveries or to new rows.            *)

\* The row moves on, but not out.
Moves(k) ==
    /\ job'[k].id = job[k].id
    /\ Held(k) => job'[k].status = "processing"
    /\ job'[k].status \in WentOut => job'[k].status = job[k].status

LEMMA StillMoves ==
    ASSUME IndInv, NEW k \in Jobs, job'[k] = job[k]
    PROVE  Moves(k)
  BY DEF IndInv, Holding, Moves

\* Rows at pending, or settled without going out, whose lock was free.
LEMMA FreeMoves ==
    ASSUME IndInv, NEW k \in Jobs, ~Held(k), job'[k].id = job[k].id,
           job'[k].status \in {"pending", "processing", "failed", "cancelled"}
    PROVE  Moves(k)
  BY DEF Moves, WentOut

LEMMA SparedStay ==
    ASSUME IndInv, spared' = spared, \A k \in Jobs : Kept(k)
    PROVE  SparesRung
  BY DEF IndInv, SparedRang, SparesRung

LEMMA JobsMove ==
    ASSUME IndInv, \A k \in Jobs : Moves(k),
           UNCHANGED <<dlv, rang, unsure, begun, holder, round, deleted, token, counting, spared>>,
           vouched \subseteq vouched'
    PROVE  Beside /\ TokensDie /\ SparesRung
<1>1. ASSUME NEW k \in Jobs PROVE Kept(k)
  BY DEF Moves, Kept, SameDelivery
<1>2. TokensDie
  BY DEF TokensDie
<1> QED BY <1>1, <1>2, SparedStay DEF Beside

\* The rows of K are inserted, the others move.
LEMMA InsertsMove ==
    ASSUME IndInv, NEW K \in SUBSET Jobs, Inserts(K), holder' = holder, round' = round,
           \A k \in Jobs \ K : Moves(k),
           \A k \in K : /\ ~Held(k) /\ job'[k].id = job[k].id + 1
                        /\ job'[k].status = "pending"
    PROVE  Beside /\ SparesRung
<1>1. ASSUME NEW k \in Jobs \ K PROVE Kept(k)
  <2>1. /\ dlv'[k] = dlv[k] /\ rang'[k] = rang[k] /\ unsure'[k] = unsure[k]
        /\ k \in vouched => k \in vouched'
        /\ k \in begun => k \in begun'
    BY DEF Inserts
  <2> QED BY <2>1 DEF Moves, Kept, SameDelivery
<1>2. ASSUME NEW k \in K PROVE Renewed(k)
  <2>1. \A tok \in Tokens : dlv'[k][tok] = NoDelivery /\ rang'[k][tok] = 0
    BY DEF Inserts
  <2> QED BY <2>1 DEF Renewed, NoDelivery
<1>3. SparesRung
  <2>1. ASSUME NEW d \in spared' PROVE d \in spared /\ \A k \in K : ~(Kind[k] = "start" /\ Target[k] = d)
    BY DEF Inserts
  <2>2. \A k \in Jobs : k \in K \/ Kept(k)
    BY <1>1
  <2> QED BY <2>1, <2>2 DEF IndInv, SparedRang, SparesRung
<1> QED BY <1>1, <1>2, <1>3 DEF Beside

LEMMA InsertsTyped ==
    ASSUME TypeOK, NEW K \in SUBSET Jobs, Inserts(K)
    PROVE  /\ dlv' \in [Jobs -> [Tokens -> Deliveries]]
           /\ rang' \in [Jobs -> [Tokens -> 0..2]]
           /\ unsure' \in [Jobs -> [Tokens -> BOOLEAN]]
           /\ vouched' \in SUBSET Jobs /\ begun' \in SUBSET Jobs
<1>1. NoDelivery \in Deliveries /\ 0 \in 0..2 /\ FALSE \in BOOLEAN
  BY DEF NoDelivery, Deliveries
<1>2. dlv' \in [Jobs -> [Tokens -> Deliveries]]
  BY <1>1 DEF Inserts, TypeOK
<1>3. rang' \in [Jobs -> [Tokens -> 0..2]]
  BY <1>1 DEF Inserts, TypeOK
<1>4. unsure' \in [Jobs -> [Tokens -> BOOLEAN]]
  BY DEF Inserts, TypeOK
<1> QED BY <1>2, <1>3, <1>4 DEF Inserts, TypeOK

LEMMA UnlockedIs ==
    ASSUME NEW k PROVE Unlocked(k) <=> ~Held(k)
  BY DEF Unlocked, Held

\* A key that is free, or held by a finished row, is in no round.
LEMMA FreeKey ==
    ASSUME IndInv, NEW k \in Jobs, job[k].status # "processing"
    PROVE  ~Held(k)
  BY DEF IndInv, Holding

-----------------------------------------------------------------------------
(* The world around the ticks.                                               *)

LEMMA FilesNew ==
    ASSUME IndInv, NEW k \in Jobs, ~KeyTaken(k), NEW fired \in BOOLEAN, Inserts({k}),
           job' = [job EXCEPT ![k] = NewRow(k, fired)],
           UNCHANGED <<mix, token, deleted, row, turnedIn, tick, holder, round, crashes, counting>>
    PROVE  IndInv'
<1>1. TypeOK
  BY DEF IndInv
<1>2. NewRow(k, fired) \in JobRows /\ NewRow(k, fired).id = job[k].id + 1
      /\ NewRow(k, fired).status = "pending"
  BY <1>1, NewRowIs
<1>3. job' \in [Jobs -> JobRows] /\ job'[k] = NewRow(k, fired)
      /\ \A j \in Jobs \ {k} : job'[j] = job[j]
  BY <1>1, <1>2 DEF TypeOK
<1>4. TypeOK'
  BY <1>1, <1>3, InsertsTyped DEF TypeOK
<1>5. ~Held(k)
  BY FreeKey DEF KeyTaken
<1>6. \A j \in Jobs \ {k} : Moves(j)
  BY <1>3, StillMoves
<1>7. Beside /\ SparesRung
  BY <1>2, <1>3, <1>5, <1>6, InsertsMove
<1>8. TokensDie
  BY DEF TokensDie
<1> QED BY <1>4, <1>7, <1>8, WorldStep

LEMMA file_jobsKeeps ==
    ASSUME IndInv, NEW k \in Jobs, file_jobs(k) PROVE IndInv'
  BY FilesNew DEF file_jobs

LEMMA sync_schedule_newKeeps ==
    ASSUME IndInv, NEW k \in Jobs, sync_schedule_new(k) PROVE IndInv'
  BY FilesNew DEF sync_schedule_new

\* One free job's row is written, and nothing else.
LEMMA WritesFree ==
    ASSUME IndInv, NEW k \in Jobs, NEW new \in JobRows, job' = [job EXCEPT ![k] = new],
           Moves(k) \/ (~Held(k) /\ new.id = job[k].id /\ new.status \in {"pending", "processing", "failed", "cancelled"}),
           UNCHANGED <<mix, dlv, token, deleted, row, turnedIn, tick, holder, round, crashes, history>>
    PROVE  IndInv'
<1>1. TypeOK
  BY DEF IndInv
<1>2. job' \in [Jobs -> JobRows] /\ job'[k] = new /\ \A j \in Jobs \ {k} : job'[j] = job[j]
  BY <1>1 DEF TypeOK
<1>3. TypeOK'
  BY <1>1, <1>2 DEF TypeOK, history
<1>4. \A j \in Jobs : Moves(j)
  BY <1>2, StillMoves, FreeMoves
<1>5. Beside /\ TokensDie /\ SparesRung
  BY <1>4, JobsMove DEF history
<1> QED BY <1>3, <1>5, WorldStep

LEMMA CancelsKeeps ==
    ASSUME IndInv, NEW k \in Jobs, job[k].status = "pending",
           job' = [job EXCEPT ![k].status = "cancelled"],
           UNCHANGED <<mix, dlv, token, deleted, row, turnedIn, tick, holder, round, crashes, history>>
    PROVE  IndInv'
<1>1. job[k] \in JobRows
  BY JobFields DEF IndInv
<1>2. [job[k] EXCEPT !.status = "cancelled"] \in JobRows
  BY <1>1 DEF JobRows
<1>3. /\ [job[k] EXCEPT !.status = "cancelled"].id = job[k].id
      /\ [job[k] EXCEPT !.status = "cancelled"].status = "cancelled"
  BY <1>1 DEF JobRows
<1>4. job' = [job EXCEPT ![k] = [job[k] EXCEPT !.status = "cancelled"]]
  BY DEF IndInv, TypeOK
<1> HIDE DEF IndInv
<1> QED BY <1>2, <1>3, <1>4, WritesFree, FreeKey

LEMMA scan_assignment_remindersKeeps ==
    ASSUME IndInv, NEW k \in Jobs, scan_assignment_reminders(k) PROVE IndInv'
  BY CancelsKeeps DEF scan_assignment_reminders

LEMMA sync_schedule_left_outKeeps ==
    ASSUME IndInv, NEW k \in Jobs, sync_schedule_left_out(k) PROVE IndInv'
  BY CancelsKeeps DEF sync_schedule_left_out

LEMMA sync_schedule_movedKeeps ==
    ASSUME IndInv, NEW k \in Jobs, sync_schedule_moved(k) PROVE IndInv'
<1> DEFINE new == [job[k] EXCEPT !.fired = FALSE, !.avail = FALSE, !.late = FALSE]
<1>1. job[k] \in JobRows /\ job[k].status = "pending"
  BY JobFields DEF IndInv, sync_schedule_moved
<1>2. new \in JobRows /\ new.id = job[k].id /\ new.status = "pending"
  BY <1>1 DEF JobRows
<1>3. job' = [job EXCEPT ![k] = new]
  BY DEF IndInv, TypeOK, sync_schedule_moved
<1> HIDE DEF new
<1> QED BY <1>1, <1>2, <1>3, WritesFree, FreeKey DEF sync_schedule_moved

LEMMA ComesDueKeeps ==
    ASSUME IndInv, NEW k \in Jobs, ComesDue(k) PROVE IndInv'
<1> DEFINE new == [job[k] EXCEPT !.fired = TRUE, !.avail = TRUE]
<1>1. job[k] \in JobRows /\ job[k].status = "pending"
  BY JobFields DEF IndInv, ComesDue
<1>2. new \in JobRows /\ new.id = job[k].id /\ new.status = "pending"
  BY <1>1 DEF JobRows
<1>3. job' = [job EXCEPT ![k] = new]
  BY DEF IndInv, TypeOK, ComesDue
<1> HIDE DEF new
<1> QED BY <1>1, <1>2, <1>3, WritesFree, FreeKey DEF ComesDue

LEMMA GrowsStaleKeeps ==
    ASSUME IndInv, NEW k \in Jobs, GrowsStale(k) PROVE IndInv'
<1> DEFINE new == [job[k] EXCEPT !.stale = TRUE]
<1>1. job[k] \in JobRows /\ job[k].status = "processing" /\ ~Held(k)
  BY JobFields, UnlockedIs DEF IndInv, GrowsStale
<1>2. new \in JobRows /\ new.id = job[k].id /\ new.status = "processing"
  BY <1>1 DEF JobRows
<1>3. job' = [job EXCEPT ![k] = new]
  BY DEF IndInv, TypeOK, GrowsStale
<1> HIDE DEF new
<1> QED BY <1>1, <1>2, <1>3, WritesFree DEF GrowsStale

LEMMA GraceEndsKeeps ==
    ASSUME IndInv, NEW k \in Jobs, GraceEnds(k) PROVE IndInv'
<1> DEFINE new == [job[k] EXCEPT !.late = TRUE]
<1>1. job[k] \in JobRows
  BY JobFields DEF IndInv
<1>2. new \in JobRows /\ new.id = job[k].id /\ new.status = job[k].status
  BY <1>1 DEF JobRows
<1>3. job' = [job EXCEPT ![k] = new] /\ job'[k] = new
  BY DEF IndInv, TypeOK, GraceEnds
<1>4. Moves(k)
  BY <1>2, <1>3 DEF Moves, IndInv, Holding
<1> HIDE DEF new
<1> QED BY <1>2, <1>3, <1>4, WritesFree DEF GraceEnds

LEMMA RetryComesDueKeeps ==
    ASSUME IndInv, NEW k \in Jobs, RetryComesDue(k) PROVE IndInv'
<1>1. /\ dlv'[k] = [tok \in Tokens |-> IF dlv[k][tok].status = "resting"
                                      THEN [dlv[k][tok] EXCEPT !.status = "pending"]
                                      ELSE dlv[k][tok]]
      /\ \A j \in Jobs \ {k} : dlv'[j] = dlv[j]
  BY DEF RetryComesDue, IndInv, TypeOK
<1>2. ASSUME NEW tok \in Tokens
      PROVE  dlv[k][tok] \in Deliveries /\ [dlv[k][tok] EXCEPT !.status = "pending"] \in Deliveries
             /\ [dlv[k][tok] EXCEPT !.status = "pending"].status = "pending"
  <2>1. dlv[k][tok] \in Deliveries
    BY DEF IndInv, TypeOK
  <2> QED BY <2>1 DEF Deliveries
<1>3. dlv' \in [Jobs -> [Tokens -> Deliveries]]
  <2>1. dlv'[k] \in [Tokens -> Deliveries]
    BY <1>1, <1>2
  <2> QED BY <2>1 DEF RetryComesDue, IndInv, TypeOK
<1>4. TypeOK'
  BY <1>3 DEF RetryComesDue, IndInv, TypeOK, history
<1>5. ASSUME NEW j \in Jobs PROVE Kept(j)
  <2>1. job'[j] = job[j] /\ Moves(j)
    BY StillMoves DEF RetryComesDue
  <2>2. ASSUME NEW tok \in Tokens PROVE SameDelivery(j, tok)
    <3>1. CASE j # k
      BY <1>1, <3>1 DEF SameDelivery
    <3>2. CASE j = k /\ dlv[k][tok].status = "resting"
      <4>1. dlv'[k][tok] = [dlv[k][tok] EXCEPT !.status = "pending"]
        BY <1>1, <3>2
      <4> QED BY <1>2, <3>2, <4>1 DEF SameDelivery
    <3>3. CASE j = k /\ dlv[k][tok].status # "resting"
      BY <1>1, <3>3 DEF SameDelivery
    <3> QED BY <3>1, <3>2, <3>3
  <2> QED BY <2>1, <2>2 DEF Moves, Kept, RetryComesDue, history
<1>6. Beside /\ TokensDie /\ SparesRung
  BY <1>5, SparedStay DEF RetryComesDue, history, Beside, TokensDie
<1> QED BY <1>4, <1>6, WorldStep DEF RetryComesDue

LEMMA _cancel_pending_deliveries_for_deviceKeeps ==
    ASSUME IndInv, NEW d \in Devices, _cancel_pending_deliveries_for_device(d) PROVE IndInv'
<1> DEFINE Skipped(k, tok) ==
             /\ Target[k] = AnyDevice /\ job[k].status \in {"pending", "processing"}
             /\ DeviceOf[tok] = d /\ dlv[k][tok].status \in {"pending", "resting"}
<1>1. dlv' = [k \in Jobs |-> [tok \in Tokens |->
        IF Skipped(k, tok) THEN [dlv[k][tok] EXCEPT !.status = "skipped"] ELSE dlv[k][tok]]]
  BY DEF _cancel_pending_deliveries_for_device
<1>2. ASSUME NEW k \in Jobs, NEW tok \in Tokens
      PROVE  /\ dlv[k][tok] \in Deliveries /\ [dlv[k][tok] EXCEPT !.status = "skipped"] \in Deliveries
             /\ [dlv[k][tok] EXCEPT !.status = "skipped"].status = "skipped"
  <2>1. dlv[k][tok] \in Deliveries
    BY DEF IndInv, TypeOK
  <2> QED BY <2>1 DEF Deliveries
<1>3. dlv' \in [Jobs -> [Tokens -> Deliveries]]
  BY <1>1, <1>2
<1>4. TypeOK'
  BY <1>3 DEF _cancel_pending_deliveries_for_device, IndInv, TypeOK, history
<1>5. ASSUME NEW j \in Jobs PROVE Kept(j)
  <2>1. job'[j] = job[j] /\ Moves(j)
    BY StillMoves DEF _cancel_pending_deliveries_for_device
  <2>2. \A tok \in Tokens : SameDelivery(j, tok)
    BY <1>1, <1>2 DEF SameDelivery, Open
  <2> QED BY <2>1, <2>2 DEF Moves, Kept, _cancel_pending_deliveries_for_device, history
<1>6. Beside /\ TokensDie /\ SparesRung
  BY <1>5, SparedStay DEF _cancel_pending_deliveries_for_device, history, Beside, TokensDie
<1> QED BY <1>4, <1>6, WorldStep DEF _cancel_pending_deliveries_for_device

LEMMA clear_push_queueKeeps ==
    ASSUME IndInv, clear_push_queue PROVE IndInv'
<1> DEFINE K == {k \in Jobs : job[k].status \in {"pending", "processing"}}
<1>1. /\ \A k \in K : ~Held(k)
      /\ job' = [k \in Jobs |-> IF k \in K THEN [job[k] EXCEPT !.status = "cancelled"] ELSE job[k]]
  BY UnlockedIs DEF clear_push_queue
<1>2. ASSUME NEW k \in Jobs
      PROVE  /\ job[k] \in JobRows /\ [job[k] EXCEPT !.status = "cancelled"] \in JobRows
             /\ [job[k] EXCEPT !.status = "cancelled"].id = job[k].id
             /\ [job[k] EXCEPT !.status = "cancelled"].status = "cancelled"
  <2>1. job[k] \in JobRows
    BY JobFields DEF IndInv
  <2> QED BY <2>1 DEF JobRows
<1>3. TypeOK'
  <2>1. job' \in [Jobs -> JobRows]
    BY <1>1, <1>2
  <2> QED BY <2>1 DEF clear_push_queue, IndInv, TypeOK, history
<1>4. ASSUME NEW k \in Jobs PROVE Moves(k)
  BY <1>1, <1>2, StillMoves, FreeMoves
<1>5. Beside /\ TokensDie /\ SparesRung
  BY <1>4, JobsMove DEF clear_push_queue, history
<1> QED BY <1>3, <1>5, WorldStep DEF clear_push_queue

\* Neither the school's records nor the user's marks touch a job.
LEMMA OutsideKeeps ==
    ASSUME IndInv, TurnIn \/ Mark PROVE IndInv'
<1>1. UNCHANGED <<mix, job, dlv, token, deleted, tick, holder, round, crashes, history>>
      /\ row' \in {"open", "gone", "submitted"} /\ turnedIn' \in BOOLEAN
  BY DEF TurnIn, Mark, rows, IndInv, TypeOK
<1>2. TypeOK'
  BY <1>1 DEF IndInv, TypeOK, history
<1>3. \A k \in Jobs : Moves(k)
  BY <1>1, StillMoves
<1>4. Beside /\ TokensDie /\ SparesRung
  BY <1>1, <1>3, JobsMove DEF history
<1> QED BY <1>1, <1>2, <1>4, WorldStep

\* The end jobs brought forward and filed, and the reminders cancelled, with what
\* the caller settled.
LEMMA CancelsForSubmitted ==
    ASSUME IndInv, NEW S \in SUBSET Jobs, cancel_for_submitted(S), holder' = holder,
           round' = round, \A k \in S : ~Held(k) /\ k \notin EndsNow
    PROVE  /\ Beside /\ SparesRung /\ job' \in [Jobs -> JobRows]
           /\ dlv' \in [Jobs -> [Tokens -> Deliveries]]
           /\ rang' \in [Jobs -> [Tokens -> 0..2]]
           /\ unsure' \in [Jobs -> [Tokens -> BOOLEAN]]
           /\ vouched' \in SUBSET Jobs /\ begun' \in SUBSET Jobs
<1>1. EndsFiled \in SUBSET Jobs /\ EndsFiled \subseteq EndsNow /\ EndsNow \subseteq Jobs
  BY DEF EndsFiled, EndsNow
<1>2. /\ \A k \in EndsNow : ~Held(k)
      /\ Inserts(EndsFiled)
  BY UnlockedIs DEF cancel_for_submitted
<1>3. ASSUME NEW k \in Jobs
      PROVE  /\ k \in S => job'[k] = _settle(k, "cancelled")
             /\ k \in EndsFiled /\ k \notin S => job'[k] = NewRow(k, TRUE)
             /\ k \in EndsNow \ EndsFiled /\ k \notin S =>
                  job'[k] = [job[k] EXCEPT !.status = "pending", !.fired = TRUE]
             /\ k \notin EndsNow /\ k \notin S =>
                  \/ job'[k] = job[k]
                  \/ ~Held(k) /\ job'[k] = [job[k] EXCEPT !.status = "cancelled"]
  <2>1. job'[k] = CASE k \in S -> _settle(k, "cancelled")
                    [] k \in EndsFiled -> NewRow(k, TRUE)
                    [] k \in EndsNow \ EndsFiled -> [job[k] EXCEPT !.status = "pending", !.fired = TRUE]
                    [] Kind[k] = "reminder" /\ job[k].status = "pending" /\ Unlocked(k) /\ k \notin S ->
                         [job[k] EXCEPT !.status = "cancelled"]
                    [] OTHER -> job[k]
    BY DEF cancel_for_submitted
  <2>2. Kind[k] = "reminder" => k \notin EndsNow
    BY DEF EndsNow
  <2>3. k \in S => k \notin EndsNow
    OBVIOUS
  <2> QED BY <1>1, <2>1, <2>2, <2>3, UnlockedIs
<1>4. ASSUME NEW k \in Jobs
      PROVE  /\ job[k] \in JobRows
             /\ [job[k] EXCEPT !.status = "pending", !.fired = TRUE] \in JobRows
             /\ [job[k] EXCEPT !.status = "pending", !.fired = TRUE].id = job[k].id
             /\ [job[k] EXCEPT !.status = "pending", !.fired = TRUE].status = "pending"
             /\ [job[k] EXCEPT !.status = "cancelled"] \in JobRows
             /\ [job[k] EXCEPT !.status = "cancelled"].id = job[k].id
             /\ [job[k] EXCEPT !.status = "cancelled"].status = "cancelled"
  <2>1. job[k] \in JobRows
    BY JobFields DEF IndInv
  <2> QED BY <2>1 DEF JobRows
<1>5. ASSUME NEW k \in Jobs
      PROVE  /\ _settle(k, "cancelled") \in JobRows /\ _settle(k, "cancelled").id = job[k].id
             /\ _settle(k, "cancelled").status = "cancelled"
             /\ NewRow(k, TRUE) \in JobRows /\ NewRow(k, TRUE).id = job[k].id + 1
             /\ NewRow(k, TRUE).status = "pending"
  BY SettledRow, NewRowIs DEF IndInv
<1>6. ASSUME NEW k \in EndsFiled
      PROVE  /\ ~Held(k) /\ job'[k].id = job[k].id + 1 /\ job'[k].status = "pending"
             /\ job'[k] \in JobRows
  BY <1>1, <1>2, <1>3, <1>5
<1>7. ASSUME NEW k \in Jobs \ EndsFiled PROVE Moves(k) /\ job'[k] \in JobRows
  <2>1. CASE k \in S
    BY <1>3, <1>5, <2>1, FreeMoves
  <2>2. CASE k \in EndsNow /\ k \notin S
    BY <1>2, <1>3, <1>4, <2>2, FreeMoves
  <2>3. CASE k \notin EndsNow /\ k \notin S
    BY <1>3, <1>4, <2>3, FreeMoves, StillMoves
  <2> QED BY <2>1, <2>2, <2>3
<1>8. job' \in [Jobs -> JobRows]
  <2>1. \A k \in Jobs : job'[k] \in JobRows
    BY <1>6, <1>7
  <2>2. \E f : job' = [k \in Jobs |-> f[k]]
    <3> DEFINE f == [k \in Jobs |->
         CASE k \in S -> _settle(k, "cancelled")
           [] k \in EndsFiled -> NewRow(k, TRUE)
           [] k \in EndsNow \ EndsFiled -> [job[k] EXCEPT !.status = "pending", !.fired = TRUE]
           [] Kind[k] = "reminder" /\ job[k].status = "pending" /\ Unlocked(k) /\ k \notin S ->
                [job[k] EXCEPT !.status = "cancelled"]
           [] OTHER -> job[k]]
    <3>1. job' = f
      BY DEF cancel_for_submitted
    <3>2. f = [k \in Jobs |-> f[k]]
      OBVIOUS
    <3> HIDE DEF f
    <3> QED BY <3>1, <3>2
  <2> QED BY <2>1, <2>2
<1>9. Beside /\ SparesRung
  BY <1>1, <1>2, <1>6, <1>7, InsertsMove
<1> QED BY <1>1, <1>2, <1>8, <1>9, InsertsTyped DEF IndInv

LEMMA RecordSubmissionKeeps ==
    ASSUME IndInv, RecordSubmission PROVE IndInv'
<1>1. /\ Beside /\ SparesRung /\ job' \in [Jobs -> JobRows]
      /\ dlv' \in [Jobs -> [Tokens -> Deliveries]]
      /\ rang' \in [Jobs -> [Tokens -> 0..2]]
      /\ unsure' \in [Jobs -> [Tokens -> BOOLEAN]]
      /\ vouched' \in SUBSET Jobs /\ begun' \in SUBSET Jobs
  BY CancelsForSubmitted DEF RecordSubmission
<1>2. TypeOK'
  BY <1>1 DEF RecordSubmission, IndInv, TypeOK
<1>3. TokensDie
  BY DEF RecordSubmission, TokensDie
<1> QED BY <1>1, <1>2, <1>3, WorldStep DEF RecordSubmission

\* The end job of the activity registered, if its countdown is ahead: filed anew,
\* or moved to the new countdown.
LEMMA RegisterMoves ==
    ASSUME IndInv, NEW k \in Jobs, NEW tok \in Tokens, NEW ahead \in BOOLEAN,
           register_live_activity(k, tok, ahead)
    PROVE  /\ Beside /\ SparesRung /\ TypeOK'
           /\ ahead => ~Held(k) /\ job'[k].status \notin WentOut
<1>1. TypeOK
  BY DEF IndInv
<1>2. ahead => ~Held(k)
  BY UnlockedIs DEF register_live_activity
<1>3. /\ token' \in [Tokens -> {"absent", "active", "invalidated"}]
      /\ counting' \in SUBSET Tokens
  BY <1>1 DEF register_live_activity, TypeOK
<1>4. CASE ahead /\ (~KeyTaken(k) \/ _retire_finished_end_job(k))
  <2>1. Inserts({k}) /\ job' = [job EXCEPT ![k] = NewRow(k, FALSE)]
        /\ holder' = holder /\ round' = round
    BY <1>4 DEF register_live_activity
  <2>2. NewRow(k, FALSE) \in JobRows /\ NewRow(k, FALSE).id = job[k].id + 1
        /\ NewRow(k, FALSE).status = "pending"
    BY <1>1, NewRowIs
  <2>3. job' \in [Jobs -> JobRows] /\ job'[k] = NewRow(k, FALSE)
        /\ \A j \in Jobs \ {k} : job'[j] = job[j]
    BY <1>1, <2>1, <2>2 DEF TypeOK
  <2>4. TypeOK'
    BY <1>1, <1>3, <2>1, <2>3, InsertsTyped DEF TypeOK, register_live_activity
  <2>5. \A j \in Jobs \ {k} : Moves(j)
    BY <2>3, StillMoves
  <2>6. Beside /\ SparesRung
    BY <1>2, <1>4, <2>1, <2>2, <2>3, <2>5, InsertsMove
  <2> QED BY <1>2, <2>2, <2>3, <2>4, <2>6 DEF WentOut
<1>5. CASE ahead /\ KeyTaken(k) /\ ~_retire_finished_end_job(k)
  <2> DEFINE new == [job[k] EXCEPT !.status = "pending", !.fired = FALSE]
  <2>1. job[k] \in JobRows /\ job[k].status \in {"pending", "processing"}
    BY <1>1, <1>5, JobFields DEF KeyTaken, _retire_finished_end_job
  <2>2. new \in JobRows /\ new.id = job[k].id /\ new.status = "pending"
    BY <2>1 DEF JobRows
  <2>3. /\ job' = [job EXCEPT ![k] = new]
        /\ UNCHANGED <<dlv, rang, unsure, vouched, begun, spared, holder, round>>
    BY <1>1, <1>5, <2>1 DEF register_live_activity, TypeOK
  <2> HIDE DEF new
  <2>4. job' \in [Jobs -> JobRows] /\ job'[k] = new /\ \A j \in Jobs \ {k} : job'[j] = job[j]
    BY <1>1, <2>2, <2>3 DEF TypeOK
  <2>5. TypeOK'
    BY <1>1, <1>3, <2>3, <2>4 DEF TypeOK, register_live_activity
  <2>6. ASSUME NEW j \in Jobs PROVE Kept(j)
    <3>1. Moves(j)
      BY <1>2, <1>5, <2>2, <2>4, StillMoves, FreeMoves
    <3> QED BY <2>3, <3>1 DEF Moves, Kept, SameDelivery
  <2> QED BY <1>2, <2>2, <2>3, <2>4, <2>5, <2>6, SparedStay DEF WentOut, Beside
<1>6. CASE ~ahead
  <2>1. UNCHANGED <<job, dlv, rang, unsure, vouched, begun, spared, holder, round>>
    BY <1>6 DEF register_live_activity
  <2>2. TypeOK'
    BY <1>1, <1>3, <2>1 DEF TypeOK, register_live_activity
  <2>3. ASSUME NEW j \in Jobs PROVE Kept(j)
    <3>1. Moves(j)
      BY <2>1, StillMoves
    <3> QED BY <2>1, <3>1 DEF Moves, Kept, SameDelivery
  <2> QED BY <1>6, <2>1, <2>2, <2>3, SparedStay DEF Beside
<1> QED BY <1>4, <1>5, <1>6

LEMMA register_live_activityKeeps ==
    ASSUME IndInv, NEW e \in Jobs, NEW new \in Tokens, NEW ahead \in BOOLEAN,
           register_live_activity(e, new, ahead)
    PROVE  IndInv'
<1>1. /\ Beside /\ SparesRung /\ TypeOK'
      /\ ahead => ~Held(e) /\ job'[e].status \notin WentOut
  BY RegisterMoves
<1>2. /\ Kind[e] = "end" /\ DeviceOf[new] = Target[e] /\ TokenKind[new] = "live_activity_update"
      /\ ~Gone(new) /\ deleted' = deleted /\ tick' = tick
      /\ counting' = IF ahead THEN counting \cup {new} ELSE counting \ {new}
  BY DEF register_live_activity, Gone
<1>3. ASSUME NEW tok \in Tokens, tok # new
      PROVE  \/ token'[tok] = token[tok]
             \/ token[tok] = "active" /\ token'[tok] = "invalidated"
  BY <1>3 DEF register_live_activity
<1>4. token'[new] = "active"
  BY DEF register_live_activity
<1>5. \A tok \in Tokens : /\ Gone(tok) => Gone(tok)' /\ tok # new
                          /\ token'[tok] = "active" /\ tok # new => token[tok] = "active"
                          /\ token[tok] = "active" => token'[tok] = "active" \/ Gone(tok)'
  BY <1>2, <1>3, <1>4 DEF Gone
<1>6. \A tok \in counting' : TokenKind[tok] = "live_activity_update"
  BY <1>2 DEF IndInv, EndsCover
<1>7. \A tok \in Tokens : DeviceOf[tok] \in deleted' => token'[tok] = "absent"
  BY <1>2, <1>3 DEF Gone, IndInv, EndsCover
<1>8. ASSUME NEW k \in Jobs, NEW tok \in Tokens, Ends(k, tok)
      PROVE  /\ dlv'[k][tok].status # "none" => token'[tok] = "active" \/ Gone(tok)'
             /\ dlv'[k][tok].status = "skipped" => Gone(tok)'
             /\ holder'[k] # NoTick =>
                  /\ Going(k)'.dlv[tok].status # "none" => token'[tok] = "active" \/ Gone(tok)'
                  /\ Going(k)'.dlv[tok].status = "skipped" => Gone(tok)'
                  /\ tok \in counting' /\ token'[tok] = "active" =>
                        Going(k)'.dlv[tok].status \notin {"none", "skipped"}
             /\ tok \in counting' /\ token'[tok] = "active" /\ job'[k].status \in WentOut
                  => dlv'[k][tok].status \in {"sent", "failed"}
  <2>1. Target[k] # AnyDevice /\ Kind[k] # "reauth"
    BY <1>8, PushPipelineAssumption DEF Ends, Devices
  <2>2. /\ dlv[k][tok].status # "none" => token[tok] = "active" \/ Gone(tok)
        /\ dlv[k][tok].status = "skipped" => Gone(tok)
        /\ Held(k) =>
             /\ Going(k).dlv[tok].status # "none" => token[tok] = "active" \/ Gone(tok)
             /\ Going(k).dlv[tok].status = "skipped" => Gone(tok)
             /\ tok \in counting /\ token[tok] = "active" =>
                   Going(k).dlv[tok].status \notin {"none", "skipped"}
    BY <1>8 DEF IndInv, EndsCover
  <2>3. CASE Kept(k)
    <3>1. /\ dlv'[k][tok].status # "none" => dlv[k][tok].status # "none"
          /\ dlv'[k][tok].status = "skipped" => dlv[k][tok].status = "skipped"
          /\ dlv[k][tok].status \in {"sent", "failed"} => dlv'[k][tok].status = dlv[k][tok].status
      BY <2>1, <2>3 DEF Kept, SameDelivery, Open
    <3>2. ASSUME holder'[k] # NoTick PROVE Held(k) /\ Going(k)' = Going(k)
      BY <1>1, <3>2 DEF Beside, Held, Going
    <3>3. tok = new => k = e
      BY <1>2, <1>8, PushPipelineAssumption DEF Ends
    <3>4. ASSUME tok \in counting', token'[tok] = "active"
          PROVE  \/ tok # new /\ tok \in counting /\ token[tok] = "active"
                 \/ ahead /\ ~Held(k) /\ job'[k].status \notin WentOut
      BY <1>1, <1>2, <1>5, <3>3, <3>4
    <3>5. ASSUME tok \in counting', token'[tok] = "active", job'[k].status \in WentOut
          PROVE  dlv[k][tok].status \in {"sent", "failed"}
      <4>1. tok \in counting /\ token[tok] = "active"
        BY <3>4, <3>5
      <4>2. job[k].status \in WentOut
        BY <2>3, <3>5 DEF Kept
      <4> QED BY <1>8, <4>1, <4>2 DEF IndInv, EndReachesRunning, Ends, WentOut
    <3> QED BY <1>5, <2>2, <3>1, <3>2, <3>4, <3>5
  <2>4. CASE Renewed(k)
    BY <1>1, <2>4 DEF Renewed, Beside, Held, WentOut
  <2> QED BY <1>1, <2>3, <2>4 DEF Beside
<1>9. EndsCover'
  BY <1>6, <1>7, <1>8 DEF EndsCover, Held, Ends
<1>10. EndReachesRunning'
  <2> SUFFICES ASSUME NEW k \in Jobs, NEW tok \in counting', Kind[k] = "end", token'[tok] = "active",
                      DeviceOf[tok] = Target[k], job'[k].status \in WentOut
               PROVE  dlv'[k][tok].status \in {"sent", "failed"}
    BY DEF EndReachesRunning, WentOut
  <2>1. tok \in Tokens
    BY <1>1 DEF TypeOK
  <2> QED BY <1>8, <2>1 DEF Ends
<1> QED BY <1>1, <1>2, <1>9, <1>10, WorldStepOfTokens

LEMMA DeleteDeviceKeeps ==
    ASSUME IndInv, NEW d \in Devices, DeleteDevice(d) PROVE IndInv'
<1>1. /\ UNCHANGED <<mix, job, dlv, row, turnedIn, tick, holder, round, crashes, history>>
      /\ deleted' = deleted \cup {d}
      /\ \A tok \in Tokens : token'[tok] = IF DeviceOf[tok] = d THEN "absent" ELSE token[tok]
  BY DEF DeleteDevice
<1>2. TypeOK'
  BY <1>1 DEF DeleteDevice, IndInv, TypeOK, history
<1>3. ASSUME NEW k \in Jobs PROVE Kept(k)
  <2>1. Moves(k)
    BY <1>1, StillMoves
  <2> QED BY <1>1, <2>1 DEF Moves, Kept, SameDelivery, history
<1>4. Beside /\ SparesRung
  BY <1>1, <1>3, SparedStay DEF Beside, history
<1>5. \A tok \in Tokens : /\ Gone(tok) => Gone(tok)'
                          /\ token'[tok] = "active" => token[tok] = "active"
                          /\ token[tok] = "active" => token'[tok] = "active" \/ Gone(tok)'
  BY <1>1 DEF Gone
<1>6. EndsCover'
  <2>1. \A tok \in Tokens : DeviceOf[tok] \in deleted' => token'[tok] = "absent"
    BY <1>1 DEF IndInv, EndsCover
  <2> QED BY <1>1, <1>5, <2>1 DEF IndInv, EndsCover, history, Going, Held, Ends
<1>7. EndReachesRunning'
  BY <1>1, <1>5 DEF IndInv, TypeOK, EndReachesRunning, history
<1> QED BY <1>1, <1>2, <1>4, <1>6, <1>7, WorldStepOfTokens

-----------------------------------------------------------------------------
(* A tick without a round.                                                   *)

LEMMA NextIs ==
    ASSUME IndInv, NEW t \in Ticks, tick[t].batch # <<>>, NextOfBatch(t)
    PROVE  /\ tick' \in [Ticks -> TickRows] /\ Shorter(t)
           /\ tick'[t].pc \in {"claim", "outrank"}
           /\ \A s \in Ticks \ {t} : tick'[s] = tick[s]
<1> DEFINE b == Tail(tick[t].batch)
           new == [pc |-> IF b = <<>> THEN "claim" ELSE "outrank", batch |-> b,
                   handled |-> tick[t].handled \cup {tick[t].batch[1]},
                   check |-> [tick[t].check EXCEPT ![Head1(t)] = "none"]]
<1>1. tick' = [tick EXCEPT ![t] = new]
  BY DEF NextOfBatch
<1>2. tick[t] \in TickRows
  BY DEF IndInv, TypeOK
<1>3. TypeOK
  BY DEF IndInv
<1>4. /\ b \in Seq(Jobs \X Nat) /\ Head1(t) \in Jobs /\ tick[t].batch[1] \in Jobs \X Nat
      /\ \A i \in 1..Len(b) : i + 1 \in 1..Len(tick[t].batch) /\ b[i] = tick[t].batch[i + 1]
  BY <1>3, HeadOfBatch
<1>5. [tick[t].check EXCEPT ![Head1(t)] = "none"] \in [Jobs -> Checks]
  BY <1>2, <1>4 DEF TickRows, Checks
<1>6. tick[t].handled \cup {tick[t].batch[1]} \in SUBSET (Jobs \X Nat)
  BY <1>2, <1>4 DEF TickRows
<1>7. new \in TickRows
  BY <1>4, <1>5, <1>6 DEF TickRows, Pcs
<1>8. tick'[t] = new /\ \A s \in Ticks \ {t} : tick'[s] = tick[s]
  BY <1>1, <1>3 DEF TypeOK
<1>9. tick' \in [Ticks -> TickRows]
  BY <1>1, <1>3, <1>7 DEF TypeOK
<1>10. new.pc \in Working => b # <<>>
  BY DEF Working
<1>11. \A k \in Jobs : /\ new.check[k] = "send" => tick[t].check[k] = "send"
                       /\ new.check[k] # "none" => tick[t].check[k] # "none"
  BY <1>2, <1>4 DEF TickRows
<1>12. Shorter(t)
  <2>1. 1 \in {0, 1} /\ new.batch = b
    OBVIOUS
  <2> HIDE DEF b, new
  <2> QED BY <1>4, <1>8, <1>10, <1>11, <2>1 DEF Shorter
<1> QED BY <1>8, <1>9, <1>12

\* The tick is done with a job that it did not deliver.
LEMMA NextBeside ==
    ASSUME IndInv, NEW t \in Ticks, tick[t].pc \in {"process", "handler"}, NextOfBatch(t)
    PROVE  /\ tick' \in [Ticks -> TickRows] /\ Shorter(t) /\ Resting(t)
           /\ \A s \in Ticks \ {t} : tick'[s] = tick[s]
           /\ Head1(t) \in Jobs /\ HeadId(t) \in Nat
<1>1. tick[t].batch # <<>>
  BY DEF IndInv, Batched, BatchedAt, Working
<1>2. TypeOK
  BY DEF IndInv
<1> QED BY <1>1, <1>2, NextIs, HeadOfBatch DEF Resting

LEMMA ReclaimedKeeps ==
    ASSUME IndInv, NEW t \in Ticks, Reclaimed(t) PROVE IndInv'
<1>1. /\ tick' \in [Ticks -> TickRows] /\ Shorter(t) /\ Resting(t)
      /\ \A s \in Ticks \ {t} : tick'[s] = tick[s]
      /\ UNCHANGED <<mix, rows, turnedIn, holder, round, crashes, history>>
  BY NextBeside DEF Reclaimed, Locks
<1>2. TypeOK'
  BY <1>1 DEF IndInv, TypeOK, rows, history
<1>3. \A k \in Jobs : Moves(k)
  BY <1>1, StillMoves DEF rows
<1>4. Beside /\ TokensDie /\ SparesRung
  BY <1>1, <1>3, JobsMove DEF rows, history
<1> QED BY <1>1, <1>2, <1>4, TickBeside

\* The head of the batch, whose lock is free, is put back or settled, with its tick
\* going on to the next.
LEMMA HeadWritten ==
    ASSUME IndInv, NEW t \in Ticks, tick[t].pc \in {"process", "handler"}, ~Held(Head1(t)),
           NEW new \in JobRows, new.id = job[Head1(t)].id,
           new.status \in {"pending", "processing", "failed", "cancelled"},
           job' = [job EXCEPT ![Head1(t)] = new], NextOfBatch(t),
           UNCHANGED <<mix, dlv, token, deleted, row, turnedIn, holder, round, crashes, history>>
    PROVE  IndInv'
<1>1. /\ tick' \in [Ticks -> TickRows] /\ Shorter(t) /\ Resting(t)
      /\ \A s \in Ticks \ {t} : tick'[s] = tick[s]
      /\ Head1(t) \in Jobs
  BY NextBeside
<1>2. TypeOK
  BY DEF IndInv
<1>3. /\ job' \in [Jobs -> JobRows] /\ job'[Head1(t)] = new
      /\ \A j \in Jobs \ {Head1(t)} : job'[j] = job[j]
  BY <1>1, <1>2 DEF TypeOK
<1>4. TypeOK'
  BY <1>1, <1>2, <1>3 DEF TypeOK, history
<1>5. \A k \in Jobs : Moves(k)
  BY <1>1, <1>3, StillMoves, FreeMoves
<1>6. Beside /\ TokensDie /\ SparesRung
  BY <1>5, JobsMove DEF history
<1> QED BY <1>1, <1>4, <1>6, TickBeside

LEMMA _held_backKeeps ==
    ASSUME IndInv, NEW t \in Ticks, _held_back(t) PROVE IndInv'
<1> DEFINE k == Head1(t)
           new == IF recheck_rows(tick[t].check[k], k) = "unverified" /\ ~job[k].late
                  THEN PutBack(k) ELSE _settle(k, "cancelled")
<1>1. tick[t].pc = "process" /\ ~Held(k)
  BY UnlockedIs DEF _held_back, LocksOwned, Locks
<1>2. k \in Jobs
  BY <1>1, NextBeside DEF _held_back
<1>3. new \in JobRows /\ new.id = job[k].id /\ new.status \in {"pending", "cancelled"}
  BY <1>2, PutBackRow, SettledRow DEF IndInv
<1>4. /\ job' = [job EXCEPT ![Head1(t)] = new] /\ NextOfBatch(t)
      /\ UNCHANGED <<mix, dlv, token, deleted, row, turnedIn, holder, round, crashes, history>>
  BY DEF _held_back
<1> HIDE DEF new
<1> QED BY <1>1, <1>3, <1>4, HeadWritten

LEMMA CheckMissedKeeps ==
    ASSUME IndInv, NEW t \in Ticks, CheckMissed(t) PROVE IndInv'
<1> DEFINE k == Head1(t)
           new == Unclaimed(k, "pending", job[k].attempts, job[k].avail)
<1>1. tick[t].pc = "process" /\ ~Held(k)
  BY UnlockedIs DEF CheckMissed, LocksOwned, Locks
<1>2. k \in Jobs
  BY <1>1, NextBeside DEF CheckMissed
<1>3. new \in JobRows /\ new.id = job[k].id /\ new.status = "pending"
  BY <1>2, UnclaimedRow, JobFields DEF IndInv
<1>4. /\ job' = [job EXCEPT ![Head1(t)] = new] /\ NextOfBatch(t)
      /\ UNCHANGED <<mix, dlv, token, deleted, row, turnedIn, holder, round, crashes, history>>
  BY DEF CheckMissed
<1> HIDE DEF new
<1> QED BY <1>1, <1>3, <1>4, HeadWritten

LEMMA _process_job_exceptKeeps ==
    ASSUME IndInv, NEW t \in Ticks, _process_job_except(t) PROVE IndInv'
<1> DEFINE k == Head1(t)
           new == IF job[k].id = HeadId(t) /\ job[k].status = "processing"
                  THEN SpendAttempt(k) ELSE job[k]
<1>1. tick[t].pc = "handler" /\ ~Held(k)
  BY UnlockedIs DEF _process_job_except
<1>2. k \in Jobs
  BY <1>1, NextBeside DEF _process_job_except
<1>3. /\ tick' \in [Ticks -> TickRows] /\ Shorter(t) /\ Resting(t)
      /\ \A s \in Ticks \ {t} : tick'[s] = tick[s]
      /\ UNCHANGED <<mix, dlv, token, deleted, row, turnedIn, holder, round, crashes, history>>
  BY <1>1, NextBeside DEF _process_job_except
<1>4. CASE job[k].id = HeadId(t) /\ job[k].status = "processing"
  <2>1. /\ SpendAttempt(k) \in JobRows /\ SpendAttempt(k).id = job[k].id
        /\ SpendAttempt(k).status \in {"pending", "failed"}
    BY <1>2, SpentRow DEF IndInv
  <2>2. job' = [job EXCEPT ![Head1(t)] = SpendAttempt(k)] /\ NextOfBatch(t)
    BY <1>4 DEF _process_job_except
  <2> QED BY <1>1, <1>3, <2>1, <2>2, HeadWritten
<1>5. CASE ~(job[k].id = HeadId(t) /\ job[k].status = "processing")
  <2>1. job' = job
    BY <1>5 DEF _process_job_except
  <2>2. TypeOK'
    BY <1>3, <2>1 DEF IndInv, TypeOK, history
  <2>3. \A j \in Jobs : Moves(j)
    BY <2>1, StillMoves
  <2>4. Beside /\ TokensDie /\ SparesRung
    BY <1>3, <2>3, JobsMove DEF history
  <2> QED BY <1>3, <2>2, <2>4, TickBeside
<1> QED BY <1>4, <1>5

LEMMA HeldBack_submittedKeeps ==
    ASSUME IndInv, NEW t \in Ticks, HeldBack_submitted(t) PROVE IndInv'
<1> DEFINE k == Head1(t)
<1>1. /\ tick[t].pc = "process" /\ ~Held(k)
      /\ cancel_for_submitted({k}) /\ holder' = holder /\ round' = round
  BY UnlockedIs DEF HeldBack_submitted, LocksOwned, Locks
<1>2. /\ tick' \in [Ticks -> TickRows] /\ Shorter(t) /\ Resting(t) /\ k \in Jobs
      /\ \A s \in Ticks \ {t} : tick'[s] = tick[s]
  BY <1>1, NextBeside DEF HeldBack_submitted
<1>3. k \notin EndsNow
  <2>1. tick[t].check[k] # "none"
    BY DEF HeldBack_submitted, Verdicts
  <2>2. OfAssignment(k)
    BY <1>2, <2>1 DEF IndInv, Batched, BatchedAt
  <2> QED BY <2>2 DEF OfAssignment, EndsNow
<1>4. /\ Beside /\ SparesRung /\ job' \in [Jobs -> JobRows]
      /\ dlv' \in [Jobs -> [Tokens -> Deliveries]]
      /\ rang' \in [Jobs -> [Tokens -> 0..2]]
      /\ unsure' \in [Jobs -> [Tokens -> BOOLEAN]]
      /\ vouched' \in SUBSET Jobs /\ begun' \in SUBSET Jobs
  <2>1. {k} \in SUBSET Jobs /\ \A j \in {k} : ~Held(j) /\ j \notin EndsNow
    BY <1>1, <1>2, <1>3
  <2> HIDE DEF k
  <2> QED BY <1>1, <2>1, CancelsForSubmitted
<1>5. TypeOK'
  BY <1>2, <1>4 DEF HeldBack_submitted, IndInv, TypeOK
<1>6. TokensDie
  BY DEF HeldBack_submitted, TokensDie
<1> QED BY <1>2, <1>4, <1>5, <1>6, TickBeside

\* The devices a reminder leaves to their countdown start were rung by it.
LEMMA CoveredRang ==
    ASSUME IndInv, NEW k, NEW d \in _countdown_starts(k).covered
    PROVE  StartRang(d)
<1>1. PICK s \in Jobs : /\ Kind[s] = "start" /\ Target[s] = d
                        /\ \E tok \in Tokens : DeviceOf[tok] = d /\ dlv[s][tok].status = "sent"
  BY DEF _countdown_starts
<1>2. PICK tok \in Tokens : DeviceOf[tok] = d /\ dlv[s][tok].status = "sent"
  BY <1>1
<1>3. rang[s][tok] > 0
  BY <1>2 DEF IndInv, Delivered
<1> QED BY <1>1, <1>2, <1>3 DEF StartRang

LEMMA CoveredTyped ==
    ASSUME NEW d, NEW k, d \in _countdown_starts(k).covered PROVE d \in Devices
  BY DEF _countdown_starts, Devices, TokenQuery

\* Only a session push is found stale.
LEMMA OnlyReauthStale ==
    ASSUME NEW k, "stale" \in Hindrances(k) PROVE Kind[k] = "reauth"
<1>1. CASE DeviceLost(k) /\ ~HasDeliveries(k)
  BY <1>1 DEF Hindrances
<1>2. CASE ~(DeviceLost(k) /\ ~HasDeliveries(k))
  BY <1>2 DEF Hindrances
<1> QED BY <1>1, <1>2

LEMMA HinderedKeeps ==
    ASSUME IndInv, NEW t \in Ticks, Hindered(t) PROVE IndInv'
<1> DEFINE k == Head1(t)
<1>1. PICK found \in Hindrances(k) \ {"none"} :
         /\ job' = [job EXCEPT ![k] =
                CASE found = "put_back" -> PutBack(k)
                  [] found = "wait" -> [PutBack(k) EXCEPT !.waited = TRUE]
                  [] OTHER -> _settle(k, "cancelled")]
         /\ spared' = IF found = "cancelled" THEN spared \cup _countdown_starts(k).covered
                      ELSE spared
         /\ dlv' = [dlv EXCEPT ![k] = [tok \in Tokens |->
                IF found = "stale" /\ dlv[k][tok].status \in {"pending", "resting"}
                THEN [dlv[k][tok] EXCEPT !.status = "skipped"] ELSE dlv[k][tok]]]
  BY DEF Hindered
<1>2. /\ tick[t].pc = "process" /\ ~Held(k)
      /\ UNCHANGED <<mix, token, deleted, row, turnedIn, holder, round, crashes,
                     rang, unsure, vouched, begun, counting>>
  BY UnlockedIs DEF Hindered, Cleared, LocksOwned, Locks
<1>3. /\ tick' \in [Ticks -> TickRows] /\ Shorter(t) /\ Resting(t) /\ k \in Jobs
      /\ \A s \in Ticks \ {t} : tick'[s] = tick[s]
  BY <1>2, NextBeside DEF Hindered
<1>4. TypeOK
  BY DEF IndInv
<1> DEFINE new == CASE found = "put_back" -> PutBack(k)
                    [] found = "wait" -> [PutBack(k) EXCEPT !.waited = TRUE]
                    [] OTHER -> _settle(k, "cancelled")
<1>5. new \in JobRows /\ new.id = job[k].id /\ new.status \in {"pending", "cancelled"}
  <2>1. PutBack(k) \in JobRows /\ PutBack(k).id = job[k].id /\ PutBack(k).status = "pending"
    BY <1>3, <1>4, PutBackRow
  <2>2. /\ [PutBack(k) EXCEPT !.waited = TRUE] \in JobRows
        /\ [PutBack(k) EXCEPT !.waited = TRUE].id = job[k].id
        /\ [PutBack(k) EXCEPT !.waited = TRUE].status = "pending"
    BY <2>1 DEF JobRows
  <2>3. /\ _settle(k, "cancelled") \in JobRows /\ _settle(k, "cancelled").id = job[k].id
        /\ _settle(k, "cancelled").status = "cancelled"
    BY <1>3, <1>4, SettledRow
  <2>4. \/ new = PutBack(k) \/ new = [PutBack(k) EXCEPT !.waited = TRUE]
        \/ new = _settle(k, "cancelled")
    OBVIOUS
  <2> HIDE DEF new
  <2> QED BY <2>1, <2>2, <2>3, <2>4
<1>6. job' = [job EXCEPT ![k] = new]
  BY <1>1
<1> HIDE DEF new
<1>7. job' \in [Jobs -> JobRows] /\ job'[k] = new /\ \A j \in Jobs \ {k} : job'[j] = job[j]
  BY <1>3, <1>4, <1>5, <1>6 DEF TypeOK
<1>8. ASSUME NEW tok \in Tokens
      PROVE  /\ dlv[k][tok] \in Deliveries /\ [dlv[k][tok] EXCEPT !.status = "skipped"] \in Deliveries
             /\ [dlv[k][tok] EXCEPT !.status = "skipped"].status = "skipped"
  <2>1. dlv[k][tok] \in Deliveries
    BY <1>3, <1>4 DEF TypeOK
  <2> QED BY <2>1 DEF Deliveries
<1>9. /\ dlv'[k] = [tok \in Tokens |->
             IF found = "stale" /\ dlv[k][tok].status \in {"pending", "resting"}
             THEN [dlv[k][tok] EXCEPT !.status = "skipped"] ELSE dlv[k][tok]]
      /\ \A j \in Jobs \ {k} : dlv'[j] = dlv[j]
  BY <1>1, <1>3, <1>4 DEF TypeOK
<1>10. dlv' \in [Jobs -> [Tokens -> Deliveries]]
  <2>1. dlv'[k] \in [Tokens -> Deliveries]
    BY <1>8, <1>9
  <2>2. dlv' = [dlv EXCEPT ![k] = dlv'[k]]
    BY <1>1, <1>3, <1>4 DEF TypeOK
  <2> QED BY <1>3, <1>4, <2>1, <2>2 DEF TypeOK
<1>11. TypeOK'
  BY <1>2, <1>3, <1>4, <1>7, <1>10 DEF TypeOK
<1>12. ASSUME NEW j \in Jobs PROVE Kept(j)
  <2>1. Moves(j)
    BY <1>2, <1>3, <1>5, <1>7, StillMoves, FreeMoves
  <2>2. found = "stale" => Kind[k] = "reauth"
    BY OnlyReauthStale
  <2>3. ASSUME NEW tok \in Tokens PROVE SameDelivery(j, tok)
    <3>1. dlv'[j][tok] = dlv[j][tok] => SameDelivery(j, tok)
      BY DEF SameDelivery
    <3>2. ASSUME dlv'[j][tok] # dlv[j][tok]
          PROVE  /\ j = k /\ found = "stale" /\ dlv[k][tok].status \in Open
                 /\ dlv'[k][tok].status = "skipped"
      BY <1>8, <1>9, <3>2 DEF Open
    <3> QED BY <2>2, <3>1, <3>2 DEF SameDelivery
  <2> QED BY <1>2, <2>1, <2>3 DEF Moves, Kept
<1>13. SparesRung
  <2>1. \A d \in spared' : d \in spared \/ d \in _countdown_starts(k).covered
    BY <1>1
  <2>2. \A d \in spared' : StartRang(d)
    BY <2>1, CoveredRang DEF IndInv, SparedRang
  <2> QED BY <1>12, <2>2 DEF SparesRung
<1>14. Beside /\ TokensDie
  BY <1>2, <1>12 DEF Beside, TokensDie
<1> QED BY <1>3, <1>11, <1>13, <1>14, TickBeside

LEMMA IdleTyped ==
    /\ IdleTick \in TickRows /\ IdleTick.pc = "idle" /\ IdleTick.batch = <<>>
    /\ IdleTick.check = NoCheck
<1>1. NoCheck \in [Jobs -> Checks] /\ <<>> \in Seq(Jobs \X Nat)
  BY DEF NoCheck, Checks
<1> QED BY <1>1 DEF IdleTick, TickRows, Pcs

LEMMA _recover_stale_jobsKeeps ==
    ASSUME IndInv, NEW t \in Ticks, _recover_stale_jobs(t) PROVE IndInv'
<1>1. TypeOK
  BY DEF IndInv
<1>2. /\ tick[t].pc = "idle" /\ tick' = [tick EXCEPT ![t] = [IdleTick EXCEPT !.pc = "claim"]]
      /\ UNCHANGED <<mix, dlv, token, deleted, row, turnedIn, holder, round, crashes, history>>
      /\ job' = [k \in Jobs |-> IF job[k].status = "processing" /\ job[k].stale /\ Unlocked(k)
                                THEN SpendAttempt(k) ELSE job[k]]
  BY DEF _recover_stale_jobs
<1> DEFINE new == [IdleTick EXCEPT !.pc = "claim"]
<1>3. new \in TickRows /\ new.pc = "claim" /\ new.batch = <<>> /\ new.check = NoCheck
  BY IdleTyped DEF TickRows, Pcs
<1>4. /\ tick' \in [Ticks -> TickRows] /\ tick'[t] = new
      /\ \A s \in Ticks \ {t} : tick'[s] = tick[s]
  BY <1>1, <1>2, <1>3 DEF TypeOK
<1>5. ASSUME NEW k \in Jobs PROVE job'[k] \in JobRows /\ Moves(k)
  <2>1. /\ SpendAttempt(k) \in JobRows /\ SpendAttempt(k).id = job[k].id
        /\ SpendAttempt(k).status \in {"pending", "failed"}
    BY <1>1, SpentRow
  <2>2. job[k] \in JobRows
    BY <1>1, JobFields
  <2> QED BY <1>2, <2>1, <2>2, UnlockedIs, StillMoves, FreeMoves
<1>6. TypeOK'
  <2>1. job' \in [Jobs -> JobRows]
    BY <1>2, <1>5
  <2> QED BY <1>1, <1>2, <1>4, <2>1 DEF TypeOK, history
<1>7. Shorter(t) /\ Resting(t)
  <2>1. /\ \A i \in 1..Len(new.batch) : i + 0 \in 1..Len(tick[t].batch)
                                        /\ new.batch[i] = tick[t].batch[i + 0]
        /\ new.pc \notin Working /\ \A k \in Jobs : new.check[k] = "none"
    BY <1>3 DEF NoCheck, Working
  <2>2. new.pc # "deliver"
    BY <1>3
  <2> HIDE DEF new
  <2> QED BY <1>2, <1>4, <2>1, <2>2 DEF Shorter, Resting
<1>8. Beside /\ TokensDie /\ SparesRung
  BY <1>2, <1>5, JobsMove DEF history
<1> QED BY <1>4, <1>6, <1>7, <1>8, TickBeside

\* A step that changes where a tick is, and nothing else but what was vouched for.
LEMMA OnlyTick ==
    ASSUME IndInv, NEW t \in Ticks, tick' \in [Ticks -> TickRows], BatchedAt(t)', Resting(t),
           \A s \in Ticks \ {t} : tick'[s] = tick[s], vouched \subseteq vouched',
           vouched' \in SUBSET Jobs,
           UNCHANGED <<mix, job, dlv, token, deleted, row, turnedIn, holder, round, crashes,
                       rang, unsure, begun, spared, counting>>
    PROVE  IndInv'
<1>1. TypeOK'
  BY DEF IndInv, TypeOK
<1>2. \A k \in Jobs : Moves(k)
  BY StillMoves
<1>3. Beside /\ TokensDie /\ SparesRung
  BY <1>2, JobsMove
<1> QED BY <1>1, <1>3, TickRebatched

\* What a verdict on one job changes of a tick.
LEMMA CheckedIs ==
    ASSUME IndInv, NEW t \in Ticks, NEW k \in Jobs, NEW verdict \in Checks,
           Checked(t, k, verdict)
    PROVE  /\ tick' \in [Ticks -> TickRows]
           /\ \A s \in Ticks \ {t} : tick'[s] = tick[s]
           /\ tick'[t].pc = tick[t].pc /\ tick'[t].batch = tick[t].batch
           /\ tick'[t].check[k] = verdict
           /\ \A j \in Jobs \ {k} : tick'[t].check[j] = tick[t].check[j]
           /\ Resting(t)
<1> DEFINE new == [tick[t] EXCEPT !.check = [tick[t].check EXCEPT ![k] = verdict]]
<1>1. tick \in [Ticks -> TickRows] /\ tick[t] \in TickRows
  BY DEF IndInv, TypeOK
<1>2. tick' = [tick EXCEPT ![t] = new]
  BY <1>1 DEF Checked
<1>3. /\ [tick[t].check EXCEPT ![k] = verdict] \in [Jobs -> Checks]
      /\ tick[t].check \in [Jobs -> Checks]
  BY <1>1 DEF TickRows
<1>4. /\ new \in TickRows /\ new.pc = tick[t].pc /\ new.batch = tick[t].batch
      /\ new.check = [tick[t].check EXCEPT ![k] = verdict]
  BY <1>1, <1>3 DEF TickRows
<1> HIDE DEF new
<1>5. /\ tick' \in [Ticks -> TickRows] /\ tick'[t] = new
      /\ \A s \in Ticks \ {t} : tick'[s] = tick[s]
  BY <1>1, <1>2, <1>4
<1> QED BY <1>3, <1>4, <1>5 DEF Resting

LEMMA check_before_sendKeeps ==
    ASSUME IndInv, NEW t \in Ticks, check_before_send(t) PROVE IndInv'
<1>1. PICK i \in 1..Len(tick[t].batch) :
        LET k == tick[t].batch[i][1] IN
        /\ tick[t].check[k] = "started"
        /\ Checked(t, k, CASE ~Owned(t, k, tick[t].batch[i][2]) -> "void"
                           [] ~needs_check(k) \/ HasDeliveries(k) -> "void"
                           [] _rows_verdict # "ask" -> _rows_verdict
                           [] OTHER -> "asking")
        /\ UNCHANGED <<mix, rows, turnedIn, holder, round, crashes, history>>
  BY DEF check_before_send
<1> DEFINE k == tick[t].batch[i][1]
           verdict == CASE ~Owned(t, k, tick[t].batch[i][2]) -> "void"
                        [] ~needs_check(k) \/ HasDeliveries(k) -> "void"
                        [] _rows_verdict # "ask" -> _rows_verdict
                        [] OTHER -> "asking"
<1>2. k \in Jobs
  BY BatchKeys DEF IndInv
<1>3. verdict \in {"void", "gone", "submitted", "asking"}
  <2>1. _rows_verdict \in {"ask", "gone", "submitted"}
    BY DEF _rows_verdict, IndInv, TypeOK
  <2>2. verdict \in {"void", "asking"} \/ (_rows_verdict # "ask" /\ verdict = _rows_verdict)
    OBVIOUS
  <2> HIDE DEF verdict
  <2> QED BY <2>1, <2>2
<1>4. verdict \in Checks /\ verdict # "send"
  BY <1>3 DEF Checks, Verdicts
<1>5. /\ tick[t].check[k] = "started" /\ Checked(t, k, verdict)
      /\ UNCHANGED <<mix, rows, turnedIn, holder, round, crashes, history>>
  BY <1>1
<1> HIDE DEF verdict, k
<1>6. /\ tick' \in [Ticks -> TickRows]
      /\ \A s \in Ticks \ {t} : tick'[s] = tick[s]
      /\ tick'[t].pc = tick[t].pc /\ tick'[t].batch = tick[t].batch
      /\ tick'[t].check[k] = verdict
      /\ \A j \in Jobs \ {k} : tick'[t].check[j] = tick[t].check[j]
      /\ Resting(t)
  BY <1>2, <1>4, <1>5, CheckedIs
<1>7. Shorter(t)
  <2>1. tick[t].pc \in Working => tick[t].batch # <<>>
    BY DEF IndInv, Batched, BatchedAt
  <2>2. 0 \in {0, 1} /\ \A n \in 1..Len(tick[t].batch) : n + 0 = n
    BY DEF IndInv, TypeOK, TickRows
  <2>3. \A j \in Jobs : /\ tick'[t].check[j] = "send" => tick[t].check[j] = "send"
                        /\ tick'[t].check[j] # "none" => tick[t].check[j] # "none"
    BY <1>4, <1>5, <1>6
  <2> QED BY <1>6, <2>1, <2>2, <2>3 DEF Shorter
<1>8. TypeOK'
  BY <1>5, <1>6 DEF IndInv, TypeOK, rows, history
<1>9. \A j \in Jobs : Moves(j)
  BY <1>5, StillMoves DEF rows
<1>10. Beside /\ TokensDie /\ SparesRung
  BY <1>5, <1>9, JobsMove DEF rows, history
<1> QED BY <1>6, <1>7, <1>8, <1>10, TickBeside

LEMMA _ask_moodleKeeps ==
    ASSUME IndInv, NEW t \in Ticks, _ask_moodle(t) PROVE IndInv'
<1>1. PICK i \in 1..Len(tick[t].batch),
           answer \in {"unverified", "gone", IF turnedIn THEN "submitted" ELSE "send"} :
        LET k == tick[t].batch[i][1] IN
        /\ tick[t].check[k] = "asking" /\ Checked(t, k, answer)
        /\ vouched' = IF answer = "send" /\ job[k].id = tick[t].batch[i][2]
                      THEN vouched \cup {k} ELSE vouched
        /\ UNCHANGED <<mix, rows, turnedIn, holder, round, crashes, rang, unsure, begun, spared, counting>>
  BY DEF _ask_moodle
<1> DEFINE k == tick[t].batch[i][1]
<1>2. k \in Jobs /\ tick[t].batch[i][1] = k
  BY BatchKeys DEF IndInv
<1>3. answer \in Checks /\ answer # "none"
  BY DEF Checks, Verdicts
<1>4. /\ tick[t].check[k] = "asking" /\ Checked(t, k, answer)
      /\ vouched' = IF answer = "send" /\ job[k].id = tick[t].batch[i][2]
                    THEN vouched \cup {k} ELSE vouched
      /\ UNCHANGED <<mix, rows, turnedIn, holder, round, crashes, rang, unsure, begun, spared, counting>>
  BY <1>1
<1> HIDE DEF k
<1>5. /\ tick' \in [Ticks -> TickRows]
      /\ \A s \in Ticks \ {t} : tick'[s] = tick[s]
      /\ tick'[t].pc = tick[t].pc /\ tick'[t].batch = tick[t].batch
      /\ tick'[t].check[k] = answer
      /\ \A j \in Jobs \ {k} : tick'[t].check[j] = tick[t].check[j]
      /\ Resting(t)
  BY <1>2, <1>3, <1>4, CheckedIs
<1>6. vouched \subseteq vouched' /\ vouched' \in SUBSET Jobs
  BY <1>2, <1>4 DEF IndInv, TypeOK
<1>7. BatchedAt(t)
  BY DEF IndInv, Batched
<1>8. ASSUME NEW j \in Jobs, tick'[t].check[j] # "none" PROVE OfAssignment(j)
  BY <1>2, <1>4, <1>5, <1>7, <1>8 DEF BatchedAt
<1>9. ASSUME NEW n \in 1..Len(tick[t].batch)
      PROVE  LET j == tick[t].batch[n][1] IN
             /\ tick[t].batch[n][2] <= job[j].id
             /\ tick'[t].check[j] = "send" /\ job[j].id = tick[t].batch[n][2] => j \in vouched'
             /\ \A m \in 1..Len(tick[t].batch) : tick[t].batch[m][1] = j => m = n
  <2> DEFINE j == tick[t].batch[n][1]
  <2>1. j \in Jobs
    BY BatchKeys DEF IndInv
  <2>2. /\ tick[t].batch[n][2] <= job[j].id
        /\ tick[t].check[j] = "send" /\ job[j].id = tick[t].batch[n][2] => j \in vouched
        /\ \A m \in 1..Len(tick[t].batch) : tick[t].batch[m][1] = j => m = n
    BY <1>7 DEF BatchedAt
  <2>3. j = k => i = n
    BY <1>2, <2>2
  <2> HIDE DEF j
  <2>4. ASSUME tick'[t].check[j] = "send", job[j].id = tick[t].batch[n][2]
        PROVE  j \in vouched'
    BY <1>4, <1>5, <1>6, <2>1, <2>2, <2>3, <2>4
  <2> QED BY <2>2, <2>4 DEF j
<1>10. BatchedAt(t)'
  BY <1>4, <1>5, <1>7, <1>8, <1>9 DEF BatchedAt, rows
<1> QED BY <1>4, <1>5, <1>6, <1>10, OnlyTick DEF rows

LEMMA _outrankedKeeps ==
    ASSUME IndInv, NEW t \in Ticks, _outranked(t) PROVE IndInv'
<1> DEFINE pc == IF \E k \in _due(t) : Priority[k] < Priority[Head1(t)] THEN "release" ELSE "process"
           new == [tick[t] EXCEPT !.pc = pc]
<1>1. tick \in [Ticks -> TickRows] /\ tick[t] \in TickRows
  BY DEF IndInv, TypeOK
<1>2. /\ tick[t].pc = "outrank" /\ tick' = [tick EXCEPT ![t] = new]
      /\ UNCHANGED <<mix, rows, turnedIn, holder, round, crashes, history>>
  BY <1>1 DEF _outranked
<1>3. pc \in {"release", "process"}
  OBVIOUS
<1>4. /\ new \in TickRows /\ new.pc = pc /\ new.batch = tick[t].batch
      /\ new.check = tick[t].check
  BY <1>1, <1>3 DEF TickRows, Pcs
<1> HIDE DEF new, pc
<1>5. /\ tick' \in [Ticks -> TickRows] /\ tick'[t] = new
      /\ \A s \in Ticks \ {t} : tick'[s] = tick[s]
  BY <1>1, <1>2, <1>4
<1>6. Resting(t)
  BY <1>2, <1>3, <1>4, <1>5 DEF Resting
<1>7. BatchedAt(t)'
  BY <1>2, <1>4, <1>5 DEF IndInv, Batched, BatchedAt, Working, rows, history
<1> QED BY <1>2, <1>5, <1>6, <1>7, OnlyTick DEF rows, history, IndInv, TypeOK

LEMMA _release_claimedKeeps ==
    ASSUME IndInv, NEW t \in Ticks, _release_claimed(t) PROVE IndInv'
<1> DEFINE b == tick[t].batch
           K == {b[i][1] : i \in {i \in 1..Len(b) : Owned(t, b[i][1], b[i][2])}}
           new == [pc |-> "claim", batch |-> <<>>, handled |-> tick[t].handled, check |-> NoCheck]
<1>1. TypeOK
  BY DEF IndInv
<1>2. /\ tick[t].pc = "release" /\ \A k \in K : ~Held(k)
      /\ job' = [k \in Jobs |-> IF k \in K
                   THEN Unclaimed(k, "pending", job[k].attempts, job[k].avail) ELSE job[k]]
      /\ tick' = [tick EXCEPT ![t] = new]
      /\ UNCHANGED <<mix, dlv, token, deleted, row, turnedIn, holder, round, crashes, history>>
  BY UnlockedIs DEF _release_claimed
<1>3. /\ new \in TickRows /\ new.pc = "claim" /\ new.batch = <<>>
      /\ \A k \in Jobs : new.check[k] = "none"
  <2>1. NoCheck \in [Jobs -> Checks] /\ <<>> \in Seq(Jobs \X Nat) /\ tick[t].handled \in SUBSET (Jobs \X Nat)
    BY <1>1 DEF NoCheck, Checks, TypeOK, TickRows
  <2> QED BY <2>1 DEF TickRows, Pcs, NoCheck
<1> HIDE DEF new, K
<1>4. /\ tick' \in [Ticks -> TickRows] /\ tick'[t] = new
      /\ \A s \in Ticks \ {t} : tick'[s] = tick[s]
  BY <1>1, <1>2, <1>3 DEF TypeOK
<1>5. ASSUME NEW k \in Jobs PROVE job'[k] \in JobRows /\ Moves(k)
  <2> DEFINE back == Unclaimed(k, "pending", job[k].attempts, job[k].avail)
  <2>1. back \in JobRows /\ back.id = job[k].id /\ back.status = "pending"
    BY <1>1, UnclaimedRow, JobFields
  <2>2. job[k] \in JobRows
    BY <1>1, JobFields
  <2>3. job'[k] = IF k \in K THEN back ELSE job[k]
    BY <1>2
  <2> HIDE DEF back
  <2> QED BY <1>2, <2>1, <2>2, <2>3, StillMoves, FreeMoves
<1>6. TypeOK'
  <2>1. job' \in [Jobs -> JobRows]
    BY <1>2, <1>5
  <2> QED BY <1>1, <1>2, <1>4, <2>1 DEF TypeOK, history
<1>7. Resting(t) /\ Shorter(t)
  <2>1. /\ \A i \in 1..Len(new.batch) : i + 0 \in 1..Len(tick[t].batch)
                                        /\ new.batch[i] = tick[t].batch[i + 0]
        /\ new.pc \notin Working /\ new.pc # "deliver"
    BY <1>3 DEF Working
  <2> QED BY <1>2, <1>3, <1>4, <2>1 DEF Shorter, Resting
<1>8. Beside /\ TokensDie /\ SparesRung
  BY <1>2, <1>5, JobsMove DEF history
<1> QED BY <1>4, <1>6, <1>7, <1>8, TickBeside

\* What a claim takes: a sequence of the due jobs, each once.
LEMMA BatchesAre ==
    ASSUME NEW K \in SUBSET Jobs, NEW b \in Batches(K)
    PROVE  /\ b \in Seq(K)
           /\ \A i, j \in 1..Len(b) : b[i] = b[j] => i = j
<1>1. PICK n \in 0..BatchSize : b \in [1..n -> K]
  BY DEF Batches
<1>2. n \in Nat /\ b \in Seq(K)
  BY <1>1, PushPipelineAssumption
<1>3. \A i, j \in 1..Len(b) : i < j => b[i] # b[j]
  BY DEF Batches
<1>4. Len(b) \in Nat
  BY <1>2
<1>5. ASSUME NEW i \in 1..Len(b), NEW j \in 1..Len(b), b[i] = b[j] PROVE i = j
  <2>1. ~(i < j) /\ ~(j < i) /\ i \in Nat /\ j \in Nat
    BY <1>3, <1>4, <1>5
  <2> QED BY <2>1
<1> QED BY <1>2, <1>5

LEMMA _claim_due_jobsKeeps ==
    ASSUME IndInv, NEW t \in Ticks, _claim_due_jobs(t) PROVE IndInv'
<1> DEFINE Due == {k \in _due(t) : Unlocked(k)}
<1>1. PICK b \in Batches(Due) :
         LET K == {b[i] : i \in 1..Len(b)} IN
         /\ job' = [k \in Jobs |-> IF k \in K
                      THEN [job[k] EXCEPT !.status = "processing", !.by = Worker[t], !.stale = FALSE]
                      ELSE job[k]]
         /\ tick' = [tick EXCEPT ![t] =
                IF b = <<>> THEN IdleTick
                ELSE [pc |-> "process", batch |-> [i \in 1..Len(b) |-> <<b[i], job[b[i]].id>>],
                      handled |-> tick[t].handled,
                      check |-> [k \in Jobs |-> IF k \in K /\ needs_check(k) THEN "started" ELSE "none"]]]
  BY DEF _claim_due_jobs
<1> DEFINE K == {b[i] : i \in 1..Len(b)}
           batch == [i \in 1..Len(b) |-> <<b[i], job[b[i]].id>>]
           check == [k \in Jobs |-> IF k \in K /\ needs_check(k) THEN "started" ELSE "none"]
           claimed == [pc |-> "process", batch |-> batch, handled |-> tick[t].handled, check |-> check]
           new == IF b = <<>> THEN IdleTick ELSE claimed
<1>2. TypeOK
  BY DEF IndInv
<1>3. /\ Due \subseteq Jobs /\ \A k \in Due : ~Held(k)
  BY UnlockedIs DEF _due
<1>4. b \in Seq(Due) /\ \A i, j \in 1..Len(b) : b[i] = b[j] => i = j
  BY <1>3, BatchesAre
<1>5. Len(b) \in Nat /\ \A i \in 1..Len(b) : b[i] \in Due
  BY <1>4
<1>6. K \subseteq Due
  BY <1>5
<1>7. /\ tick[t].pc = "claim" /\ tick' = [tick EXCEPT ![t] = new]
      /\ job' = [k \in Jobs |-> IF k \in K
                   THEN [job[k] EXCEPT !.status = "processing", !.by = Worker[t], !.stale = FALSE]
                   ELSE job[k]]
      /\ UNCHANGED <<mix, dlv, token, deleted, row, turnedIn, holder, round, crashes, history>>
  BY <1>1 DEF _claim_due_jobs
<1>8. check \in [Jobs -> Checks] /\ \A k \in Jobs : check[k] # "send" /\ (check[k] # "none" => OfAssignment(k))
  BY DEF Checks, needs_check
<1>9. batch \in Seq(Jobs \X Nat) /\ Len(batch) = Len(b)
  <2>1. \A i \in 1..Len(b) : b[i] \in Jobs /\ job[b[i]].id \in Nat
    BY <1>2, <1>3, <1>5, JobFields
  <2>2. batch \in [1..Len(b) -> Jobs \X Nat]
    BY <2>1
  <2> QED BY <1>5, <2>2
<1>10. \A i \in 1..Len(batch) : batch[i][1] = b[i] /\ batch[i][2] = job[b[i]].id
  BY <1>9
<1> HIDE DEF check, batch, K, Due
<1>11. claimed \in TickRows
  BY <1>2, <1>8, <1>9 DEF TypeOK, TickRows, Pcs
<1>12. new \in TickRows
  BY <1>11, IdleTyped
<1>13. ASSUME b = <<>>
       PROVE  /\ new.pc = "idle" /\ new.batch = <<>> /\ \A k \in Jobs : new.check[k] = "none"
  BY <1>13, IdleTyped DEF NoCheck
<1>14. ASSUME b # <<>>
       PROVE  new.pc = "process" /\ new.batch = batch /\ new.check = check /\ batch # <<>>
  <2>1. Len(b) # 0
    BY <1>4, <1>14
  <2> QED BY <1>9, <1>14, <2>1
<1> HIDE DEF new
<1>15. /\ tick' \in [Ticks -> TickRows] /\ tick'[t] = new
       /\ \A s \in Ticks \ {t} : tick'[s] = tick[s]
  BY <1>2, <1>7, <1>12 DEF TypeOK
<1>16. ASSUME NEW k \in Jobs
       PROVE  job'[k] \in JobRows /\ Moves(k) /\ job'[k].id = job[k].id
  <2> DEFINE taken == [job[k] EXCEPT !.status = "processing", !.by = Worker[t], !.stale = FALSE]
  <2>1. job[k] \in JobRows /\ Worker[t] \in Workers
    BY <1>2, JobFields DEF Workers
  <2>2. taken \in JobRows /\ taken.id = job[k].id /\ taken.status = "processing"
    BY <2>1 DEF JobRows
  <2>3. job'[k] = IF k \in K THEN taken ELSE job[k]
    BY <1>7
  <2> HIDE DEF taken
  <2> QED BY <1>3, <1>6, <2>1, <2>2, <2>3, StillMoves, FreeMoves
<1>17. TypeOK'
  <2>1. job' \in [Jobs -> JobRows]
    BY <1>7, <1>16
  <2> QED BY <1>2, <1>7, <1>15, <2>1 DEF TypeOK, history
<1>18. Resting(t)
  BY <1>7, <1>13, <1>14, <1>15 DEF Resting
<1>19. BatchedAt(t)'
  <2>1. CASE b = <<>>
    BY <1>13, <1>15, <2>1 DEF BatchedAt, Working
  <2>2. CASE b # <<>>
    <3>1. \A i \in 1..Len(batch) : job'[b[i]].id = job[b[i]].id /\ job[b[i]].id \in Nat /\ b[i] \in Jobs
      BY <1>2, <1>3, <1>5, <1>9, <1>16, JobFields
    <3>2. \A i \in 1..Len(batch) :
            /\ batch[i][2] <= job'[batch[i][1]].id
            /\ check[batch[i][1]] # "send"
            /\ \A j \in 1..Len(batch) : batch[j][1] = batch[i][1] => j = i
      <4> SUFFICES ASSUME NEW i \in 1..Len(batch)
                   PROVE  /\ batch[i][2] <= job'[batch[i][1]].id
                          /\ check[batch[i][1]] # "send"
                          /\ \A j \in 1..Len(batch) : batch[j][1] = batch[i][1] => j = i
        OBVIOUS
      <4>1. /\ batch[i][1] = b[i] /\ batch[i][2] = job[b[i]].id /\ i \in 1..Len(b)
            /\ b[i] \in Jobs /\ job'[b[i]].id = job[b[i]].id /\ job[b[i]].id \in Nat
        BY <1>9, <1>10, <3>1
      <4>2. \A j \in 1..Len(batch) : batch[j][1] = b[j] /\ j \in 1..Len(b)
        BY <1>9, <1>10
      <4> QED BY <1>4, <1>8, <4>1, <4>2
    <3> QED BY <1>8, <1>14, <1>15, <2>2, <3>2 DEF BatchedAt
  <2> QED BY <2>1, <2>2
<1>20. Beside /\ TokensDie /\ SparesRung
  BY <1>7, <1>16, JobsMove DEF history
<1> QED BY <1>15, <1>17, <1>18, <1>19, <1>20, TickRebatched

-----------------------------------------------------------------------------
(* Rounds.                                                                   *)

\* What IndInv says of one job.
JobSound(k) ==
    /\ \A tok \in Tokens :
          /\ dlv[k][tok].status # "none" => Named(k, tok)
          /\ dlv[k][tok].status = "sent" => rang[k][tok] > 0
          /\ rang[k][tok] > 0 => Named(k, tok)
          /\ Held(k) =>
                /\ tok \in Going(k).todo => Going(k).dlv[tok].status = "pending"
                /\ Going(k).dlv[tok].status # "none" => Named(k, tok)
                /\ Going(k).dlv[tok].status = "sent" => rang[k][tok] > 0
                /\ dlv[k][tok].status = "sent" => Going(k).dlv[tok].status = "sent"
          /\ rang[k][tok] > 0 /\ ~unsure[k][tok] =>
                /\ rang[k][tok] = 1
                /\ dlv[k][tok].status = "sent" \/ (Held(k) /\ Going(k).dlv[tok].status = "sent")
    /\ \A tok \in Tokens : Ends(k, tok) =>
          /\ dlv[k][tok].status # "none" => token[tok] = "active" \/ Gone(tok)
          /\ dlv[k][tok].status = "skipped" => Gone(tok)
          /\ Held(k) =>
                /\ Going(k).dlv[tok].status # "none" => token[tok] = "active" \/ Gone(tok)
                /\ Going(k).dlv[tok].status = "skipped" => Gone(tok)
                /\ tok \in counting /\ token[tok] = "active" =>
                      Going(k).dlv[tok].status \notin {"none", "skipped"}
          /\ tok \in counting /\ token[tok] = "active" /\ job[k].status \in WentOut =>
                dlv[k][tok].status \in {"sent", "failed"}
    /\ job[k].status \in WentOut =>
          /\ \E tok \in Tokens : dlv[k][tok].status = "sent"
          /\ \A tok \in Tokens : dlv[k][tok].status \notin Open
    /\ job[k].status = "sent" => \A tok \in Tokens : dlv[k][tok].status # "failed"

LEMMA JobsSound ==
    ASSUME IndInv, NEW k \in Jobs PROVE JobSound(k)
<1>1. \A tok \in Tokens :
          /\ dlv[k][tok].status # "none" => Named(k, tok)
          /\ dlv[k][tok].status = "sent" => rang[k][tok] > 0
          /\ rang[k][tok] > 0 => Named(k, tok)
  BY DEF IndInv, Delivered
<1>2. Held(k) => \A tok \in Tokens :
          /\ tok \in Going(k).todo => Going(k).dlv[tok].status = "pending"
          /\ Going(k).dlv[tok].status # "none" => Named(k, tok)
          /\ Going(k).dlv[tok].status = "sent" => rang[k][tok] > 0
          /\ dlv[k][tok].status = "sent" => Going(k).dlv[tok].status = "sent"
  BY DEF IndInv, RoundsSound
<1>3. \A tok \in Tokens : rang[k][tok] > 0 /\ ~unsure[k][tok] =>
          /\ rang[k][tok] = 1
          /\ dlv[k][tok].status = "sent" \/ (Held(k) /\ Going(k).dlv[tok].status = "sent")
  BY DEF IndInv, RungOnce
<1>4. \A tok \in Tokens : Ends(k, tok) =>
          /\ dlv[k][tok].status # "none" => token[tok] = "active" \/ Gone(tok)
          /\ dlv[k][tok].status = "skipped" => Gone(tok)
          /\ Held(k) =>
                /\ Going(k).dlv[tok].status # "none" => token[tok] = "active" \/ Gone(tok)
                /\ Going(k).dlv[tok].status = "skipped" => Gone(tok)
                /\ tok \in counting /\ token[tok] = "active" =>
                      Going(k).dlv[tok].status \notin {"none", "skipped"}
  BY DEF IndInv, EndsCover
<1>5. \A tok \in counting : Ends(k, tok) /\ token[tok] = "active" /\ job[k].status \in WentOut =>
          dlv[k][tok].status \in {"sent", "failed"}
  BY DEF IndInv, EndReachesRunning, Ends, WentOut
<1>6. /\ job[k].status \in WentOut =>
            /\ \E tok \in Tokens : dlv[k][tok].status = "sent"
            /\ \A tok \in Tokens : dlv[k][tok].status \notin Open
      /\ job[k].status = "sent" => \A tok \in Tokens : dlv[k][tok].status # "failed"
  BY DEF IndInv, SettledSound
<1> QED BY <1>1, <1>2, <1>3, <1>4, <1>5, <1>6 DEF JobSound

LEMMA SoundJobs ==
    ASSUME IndInv, TypeOK', Holding', Batched', SparedRang', TokensDie,
           \A k \in Jobs : JobSound(k)'
    PROVE  IndInv'
<1>1. Delivered'
  BY DEF JobSound, Delivered
<1>2. RoundsSound'
  BY DEF JobSound, RoundsSound
<1>3. RungOnce'
  BY DEF JobSound, RungOnce
<1>4. EndsCover'
  <2>1. \A tok \in counting' : TokenKind[tok] = "live_activity_update"
    BY DEF TokensDie, IndInv, EndsCover
  <2>2. \A tok \in Tokens : DeviceOf[tok] \in deleted' => token'[tok] = "absent"
    BY DEF TokensDie, IndInv, EndsCover
  <2> QED BY <2>1, <2>2 DEF JobSound, EndsCover
<1>5. EndReachesRunning'
  <2> SUFFICES ASSUME NEW k \in Jobs, NEW tok \in counting', Kind[k] = "end", token'[tok] = "active",
                      DeviceOf[tok] = Target[k], job'[k].status \in WentOut
               PROVE  dlv'[k][tok].status \in {"sent", "failed"}
    BY DEF EndReachesRunning, WentOut
  <2>1. tok \in Tokens
    BY DEF TypeOK
  <2> QED BY <2>1 DEF Ends, JobSound
<1>6. SettledSound'
  BY DEF JobSound, SettledSound
<1> QED BY <1>1, <1>2, <1>3, <1>4, <1>5, <1>6 DEF IndInv

LEMMA TokensLast ==
    ASSUME TokensDie, NEW tok \in Tokens
    PROVE  /\ Gone(tok) => Gone(tok)'
           /\ token[tok] = "active" => token'[tok] = "active" \/ Gone(tok)'
           /\ token'[tok] = "active" => token[tok] = "active"
           /\ tok \in counting' => tok \in counting
  BY DEF TokensDie, Gone

\* A job and its round, if there is one, are as they were.
Untouched(k) ==
    /\ job'[k] = job[k] /\ dlv'[k] = dlv[k] /\ rang'[k] = rang[k]
    /\ holder'[k] = holder[k]
    /\ Held(k) => Going(k)' = Going(k)
    /\ \A tok \in Tokens : unsure[k][tok] => unsure'[k][tok]
    /\ k \in vouched => k \in vouched'
    /\ k \in begun => k \in begun'

LEMMA UntouchedSound ==
    ASSUME TokensDie, NEW k \in Jobs, JobSound(k), Untouched(k)
    PROVE  JobSound(k)'
<1>1. \A tok \in Tokens : Named(k, tok) => Named(k, tok)'
  BY DEF Untouched, Named
<1>2. Held(k)' <=> Held(k)
  BY DEF Untouched, Held
<1>3. /\ job'[k] = job[k] /\ dlv'[k] = dlv[k] /\ rang'[k] = rang[k]
      /\ Held(k) => Going(k)' = Going(k)
      /\ \A tok \in Tokens : unsure[k][tok] => unsure'[k][tok]
  BY DEF Untouched
<1>4. \A tok \in Tokens : Ends(k, tok)' <=> Ends(k, tok)
  BY DEF Ends
<1>5. \A tok \in Tokens :
          /\ dlv'[k][tok].status # "none" => Named(k, tok)'
          /\ dlv'[k][tok].status = "sent" => rang'[k][tok] > 0
          /\ rang'[k][tok] > 0 => Named(k, tok)'
          /\ Held(k)' =>
                /\ tok \in Going(k)'.todo => Going(k)'.dlv[tok].status = "pending"
                /\ Going(k)'.dlv[tok].status # "none" => Named(k, tok)'
                /\ Going(k)'.dlv[tok].status = "sent" => rang'[k][tok] > 0
                /\ dlv'[k][tok].status = "sent" => Going(k)'.dlv[tok].status = "sent"
          /\ rang'[k][tok] > 0 /\ ~unsure'[k][tok] =>
                /\ rang'[k][tok] = 1
                /\ dlv'[k][tok].status = "sent" \/ (Held(k)' /\ Going(k)'.dlv[tok].status = "sent")
  BY <1>1, <1>2, <1>3 DEF JobSound
<1>6. \A tok \in Tokens : Ends(k, tok)' =>
          /\ dlv'[k][tok].status # "none" => token'[tok] = "active" \/ Gone(tok)'
          /\ dlv'[k][tok].status = "skipped" => Gone(tok)'
          /\ Held(k)' =>
                /\ Going(k)'.dlv[tok].status # "none" => token'[tok] = "active" \/ Gone(tok)'
                /\ Going(k)'.dlv[tok].status = "skipped" => Gone(tok)'
                /\ tok \in counting' /\ token'[tok] = "active" =>
                      Going(k)'.dlv[tok].status \notin {"none", "skipped"}
          /\ tok \in counting' /\ token'[tok] = "active" /\ job'[k].status \in WentOut =>
                dlv'[k][tok].status \in {"sent", "failed"}
  BY <1>2, <1>3, <1>4, TokensLast DEF JobSound
<1>7. /\ job'[k].status \in WentOut =>
            /\ \E tok \in Tokens : dlv'[k][tok].status = "sent"
            /\ \A tok \in Tokens : dlv'[k][tok].status \notin Open
      /\ job'[k].status = "sent" => \A tok \in Tokens : dlv'[k][tok].status # "failed"
  BY <1>3 DEF JobSound
<1> QED BY <1>5, <1>6, <1>7 DEF JobSound, WentOut, Open

\* A tick holds the head of its batch, while it delivers.
LEMMA HeldByIts ==
    ASSUME IndInv, NEW k \in Jobs, Held(k)
    PROVE  /\ holder[k] \in Ticks /\ tick[holder[k]].pc = "deliver" /\ Head1(holder[k]) = k
           /\ job[k].status = "processing"
  BY DEF IndInv, Holding, TypeOK, Held

LEMMA DeliversIts ==
    ASSUME IndInv, NEW t \in Ticks, tick[t].pc = "deliver"
    PROVE  /\ tick[t].batch # <<>> /\ Head1(t) \in Jobs /\ holder[Head1(t)] = t
           /\ Held(Head1(t)) /\ Going(Head1(t)) = round[t]
           /\ job[Head1(t)].status = "processing"
<1>1. tick[t].batch # <<>> /\ TypeOK
  BY DEF IndInv, Batched, BatchedAt, Working
<1>2. Head1(t) \in Jobs /\ holder[Head1(t)] = t
  BY <1>1, HeadOfBatch DEF IndInv, Holding
<1>3. Held(Head1(t)) /\ Going(Head1(t)) = round[t]
  BY <1>2, PushPipelineAssumption DEF Held, Going
<1> QED BY <1>1, <1>2, <1>3, HeldByIts

\* What a send leaves of the round.
LEMMA SendIs ==
    ASSUME IndInv, NEW t \in Ticks, NEW tok \in Tokens, NEW outcome \in Outcomes,
           _send_one(t, tok, outcome)
    PROVE  LET k == Head1(t) IN
           /\ tick[t].pc = "deliver" /\ tok \in round[t].todo
           /\ round' \in [Ticks -> RoundRows]
           /\ \A s \in Ticks \ {t} : round'[s] = round[s]
           /\ round'[t].todo = round[t].todo \ {tok}
           /\ \A x \in Tokens \ {tok} : round'[t].dlv[x] = round[t].dlv[x]
           /\ round'[t].dlv[tok].status \in {"sent", "failed", "resting"}
           /\ round'[t].dlv[tok].status = "sent" => outcome = "ok"
           /\ outcome = "ok" => round'[t].dlv[tok].status = "sent"
           /\ UNCHANGED <<mix, job, dlv, token, deleted, row, turnedIn, tick, holder, crashes,
                          vouched, begun, spared>>
<1> DEFINE tries == round[t].dlv[tok].tries + 1
           status == CASE outcome = "ok" -> "sent"
                       [] outcome = "unregistered" -> "failed"
                       [] OTHER -> IF tries >= mix.tries THEN "failed" ELSE "resting"
           sent == [status |-> status, tries |-> tries]
           dead == IF outcome = "unregistered" THEN round[t].dead \cup {tok} ELSE round[t].dead
           new == [dlv |-> [round[t].dlv EXCEPT ![tok] = sent], todo |-> round[t].todo \ {tok},
                   tried |-> round[t].tried, dead |-> dead]
<1>1. /\ round \in [Ticks -> RoundRows] /\ round[t] \in RoundRows
      /\ round[t].dlv \in [Tokens -> Deliveries] /\ round[t].dlv[tok] \in Deliveries
      /\ round[t].todo \in SUBSET Tokens /\ round[t].tried \in BOOLEAN
      /\ round[t].dead \in SUBSET Tokens
  BY DEF IndInv, TypeOK, RoundRows
<1>2. tries \in Nat
  BY <1>1 DEF Deliveries
<1>3. /\ status \in {"sent", "failed", "resting"} /\ (outcome = "ok" => status = "sent")
      /\ (status = "sent" => outcome = "ok")
  BY DEF Outcomes
<1> HIDE DEF status, tries
<1>4. sent \in Deliveries /\ sent.status = status
  BY <1>2, <1>3 DEF Deliveries
<1> HIDE DEF sent
<1>5. /\ [round[t].dlv EXCEPT ![tok] = sent] \in [Tokens -> Deliveries]
      /\ dead \in SUBSET Tokens
  BY <1>1, <1>4
<1>6. new \in RoundRows
  BY <1>1, <1>5 DEF RoundRows
<1>7. /\ new.todo = round[t].todo \ {tok} /\ new.dlv[tok] = sent
      /\ \A x \in Tokens \ {tok} : new.dlv[x] = round[t].dlv[x]
  BY <1>1
<1>8. /\ tick[t].pc = "deliver" /\ tok \in round[t].todo
      /\ round' = [round EXCEPT ![t] = new]
      /\ UNCHANGED <<mix, job, dlv, token, deleted, row, turnedIn, tick, holder, crashes,
                     vouched, begun, spared>>
  BY DEF _send_one, rows, status, tries, sent
<1> HIDE DEF new
<1>9. /\ round' \in [Ticks -> RoundRows] /\ round'[t] = new
      /\ \A s \in Ticks \ {t} : round'[s] = round[s]
  BY <1>1, <1>6, <1>8
<1> QED BY <1>3, <1>4, <1>7, <1>8, <1>9

\* The history of a send.
LEMMA SendRings ==
    ASSUME IndInv, NEW t \in Ticks, NEW tok \in Tokens, NEW outcome \in Outcomes,
           _send_one(t, tok, outcome), NEW k \in Jobs, k = Head1(t)
    PROVE  /\ rang' \in [Jobs -> [Tokens -> 0..2]]
           /\ unsure' \in [Jobs -> [Tokens -> BOOLEAN]]
           /\ counting' \subseteq counting
           /\ \A j \in Jobs \ {k} : rang'[j] = rang[j] /\ unsure'[j] = unsure[j]
           /\ \A x \in Tokens \ {tok} : rang'[k][x] = rang[k][x] /\ unsure'[k][x] = unsure[k][x]
           /\ unsure[k][tok] => unsure'[k][tok]
           /\ rang'[k][tok] >= rang[k][tok]
           /\ outcome = "ok" => rang'[k][tok] > 0 /\ (rang[k][tok] = 0 => rang'[k][tok] = 1)
           /\ outcome # "ok" => rang'[k][tok] = rang[k][tok] \/ unsure'[k][tok]
<1>1. /\ rang \in [Jobs -> [Tokens -> 0..2]] /\ rang[k] \in [Tokens -> 0..2] /\ rang[k][tok] \in 0..2
      /\ unsure \in [Jobs -> [Tokens -> BOOLEAN]] /\ unsure[k] \in [Tokens -> BOOLEAN]
  BY DEF IndInv, TypeOK
<1> DEFINE rings == outcome \in {"ok", "answer_lost"}
           more == [rang[k] EXCEPT ![tok] = rang[k][tok] + 1]
           lost == [unsure[k] EXCEPT ![tok] = TRUE]
<1>2. /\ rang' = IF rings /\ rang[k][tok] < 2 THEN [rang EXCEPT ![k] = more] ELSE rang
      /\ unsure' = IF outcome = "answer_lost" THEN [unsure EXCEPT ![k] = lost] ELSE unsure
      /\ counting' = IF rings THEN counting \ {tok} ELSE counting
  BY <1>1 DEF _send_one
<1>3. rang[k][tok] < 2 => /\ more \in [Tokens -> 0..2] /\ more[tok] = rang[k][tok] + 1
                          /\ \A x \in Tokens \ {tok} : more[x] = rang[k][x]
  BY <1>1
<1>4. /\ lost \in [Tokens -> BOOLEAN] /\ lost[tok] = TRUE
      /\ \A x \in Tokens \ {tok} : lost[x] = unsure[k][x]
  BY <1>1
<1> HIDE DEF more, lost
<1>5. /\ rang' \in [Jobs -> [Tokens -> 0..2]]
      /\ \A j \in Jobs \ {k} : rang'[j] = rang[j]
      /\ \A x \in Tokens \ {tok} : rang'[k][x] = rang[k][x]
      /\ rang'[k][tok] = IF rings /\ rang[k][tok] < 2 THEN rang[k][tok] + 1 ELSE rang[k][tok]
  <2>1. CASE rings /\ rang[k][tok] < 2
    BY <1>1, <1>2, <1>3, <2>1
  <2>2. CASE ~(rings /\ rang[k][tok] < 2)
    BY <1>1, <1>2, <2>2
  <2> QED BY <2>1, <2>2
<1>6. /\ unsure' \in [Jobs -> [Tokens -> BOOLEAN]]
      /\ \A j \in Jobs \ {k} : unsure'[j] = unsure[j]
      /\ \A x \in Tokens \ {tok} : unsure'[k][x] = unsure[k][x]
      /\ unsure[k][tok] => unsure'[k][tok]
      /\ outcome = "answer_lost" => unsure'[k][tok]
  <2>1. CASE outcome = "answer_lost"
    BY <1>1, <1>2, <1>4, <2>1
  <2>2. CASE outcome # "answer_lost"
    BY <1>1, <1>2, <2>2
  <2> QED BY <2>1, <2>2
<1>7. counting' \subseteq counting
  BY <1>2
<1>8. /\ outcome = "ok" => rings
      /\ outcome # "ok" /\ rings => unsure'[k][tok]
  BY <1>6
<1> HIDE DEF rings
<1>9. /\ rang'[k][tok] >= rang[k][tok]
      /\ outcome = "ok" => rang'[k][tok] > 0 /\ (rang[k][tok] = 0 => rang'[k][tok] = 1)
      /\ outcome # "ok" => rang'[k][tok] = rang[k][tok] \/ unsure'[k][tok]
  BY <1>1, <1>5, <1>8
<1> QED BY <1>5, <1>6, <1>7, <1>9

LEMMA _send_oneKeeps ==
    ASSUME IndInv, NEW t \in Ticks, NEW tok \in Tokens, NEW outcome \in Outcomes,
           _send_one(t, tok, outcome)
    PROVE  IndInv'
<1>1. /\ tick[t].pc = "deliver" /\ tok \in round[t].todo
      /\ round' \in [Ticks -> RoundRows]
      /\ \A s \in Ticks \ {t} : round'[s] = round[s]
      /\ round'[t].todo = round[t].todo \ {tok}
      /\ \A x \in Tokens \ {tok} : round'[t].dlv[x] = round[t].dlv[x]
      /\ round'[t].dlv[tok].status \in {"sent", "failed", "resting"}
      /\ round'[t].dlv[tok].status = "sent" => outcome = "ok"
      /\ outcome = "ok" => round'[t].dlv[tok].status = "sent"
      /\ UNCHANGED <<mix, job, dlv, token, deleted, row, turnedIn, tick, holder, crashes,
                     vouched, begun, spared>>
  BY SendIs
<1>2. PICK k \in Jobs : k = Head1(t) /\ holder[k] = t /\ Held(k) /\ Going(k) = round[t]
  BY <1>1, DeliversIts
<1>3. /\ rang' \in [Jobs -> [Tokens -> 0..2]]
      /\ unsure' \in [Jobs -> [Tokens -> BOOLEAN]]
      /\ counting' \subseteq counting
      /\ \A j \in Jobs \ {k} : rang'[j] = rang[j] /\ unsure'[j] = unsure[j]
      /\ \A x \in Tokens \ {tok} : rang'[k][x] = rang[k][x] /\ unsure'[k][x] = unsure[k][x]
      /\ unsure[k][tok] => unsure'[k][tok]
      /\ rang'[k][tok] >= rang[k][tok]
      /\ outcome = "ok" => rang'[k][tok] > 0 /\ (rang[k][tok] = 0 => rang'[k][tok] = 1)
      /\ outcome # "ok" => rang'[k][tok] = rang[k][tok] \/ unsure'[k][tok]
  BY <1>2, SendRings
<1>4. /\ TypeOK /\ counting' \in SUBSET Tokens
      /\ rang \in [Jobs -> [Tokens -> 0..2]]
  BY <1>3 DEF IndInv, TypeOK
<1>5. TypeOK'
  BY <1>1, <1>3, <1>4 DEF TypeOK
<1>6. TokensDie
  BY <1>1, <1>3 DEF TokensDie
<1>7. Holding'
  BY <1>1 DEF IndInv, Holding, Held, Head1
<1>8. Batched'
  BY <1>1 DEF IndInv, Batched, BatchedAt
<1>9. SparedRang'
  <2> SUFFICES ASSUME NEW d \in spared'
               PROVE  \E s \in Jobs, x \in Tokens :
                        Kind[s] = "start" /\ Target[s] = d /\ DeviceOf[x] = d /\ rang'[s][x] > 0
    BY DEF SparedRang, StartRang
  <2>1. PICK s \in Jobs, x \in Tokens :
          Kind[s] = "start" /\ Target[s] = d /\ DeviceOf[x] = d /\ rang[s][x] > 0
    BY <1>1 DEF IndInv, SparedRang, StartRang
  <2>2. rang[s][x] \in 0..2 /\ rang'[s][x] \in 0..2
    BY <1>3, <1>4
  <2>3. rang'[s][x] = rang[s][x] \/ rang'[s][x] >= rang[s][x]
    BY <1>3
  <2> QED BY <2>1, <2>2, <2>3
<1>10. ASSUME NEW j \in Jobs, j # k PROVE JobSound(j)'
  <2>1. Held(j) => holder[j] # t /\ holder[j] \in Ticks
    BY <1>2, <1>10, HeldByIts
  <2>2. Untouched(j)
    BY <1>1, <1>3, <1>10, <2>1 DEF Untouched, Going
  <2> QED BY <1>6, <1>10, <2>2, JobsSound, UntouchedSound
<1>11. JobSound(k)'
  <2>1. JobSound(k)
    BY <1>2, JobsSound
  <2>2. Held(k)' /\ Going(k)' = round'[t]
    BY <1>1, <1>2 DEF Held, Going
  <2>3. /\ \A x \in Tokens : Named(k, x)' <=> Named(k, x)
        /\ \A x \in Tokens : Ends(k, x)' <=> Ends(k, x)
    BY <1>1 DEF Named, Ends
  <2>4. ASSUME NEW x \in Tokens, x # tok
        PROVE  /\ round'[t].dlv[x] = round[t].dlv[x] /\ rang'[k][x] = rang[k][x]
               /\ unsure'[k][x] = unsure[k][x] /\ (x \in round'[t].todo => x \in round[t].todo)
    BY <1>1, <1>3, <2>4
  <2>5. /\ round[t].dlv[tok].status = "pending" /\ Named(k, tok) /\ dlv[k][tok].status # "sent"
        /\ rang[k][tok] > 0 => unsure[k][tok]
        /\ Ends(k, tok) => token[tok] = "active" \/ Gone(tok)
    BY <1>1, <1>2, <2>1 DEF JobSound
  <2>6. rang[k][tok] \in 0..2 /\ rang'[k][tok] \in 0..2
    BY <1>2, <1>3, <1>4
  <2>7. rang'[k][tok] > 0 /\ ~unsure'[k][tok] => rang'[k][tok] = 1 /\ outcome = "ok"
    BY <1>3, <2>5, <2>6
  <2>8. ASSUME NEW x \in Tokens
        PROVE  /\ dlv'[k][x].status # "none" => Named(k, x)'
               /\ dlv'[k][x].status = "sent" => rang'[k][x] > 0
               /\ rang'[k][x] > 0 => Named(k, x)'
               /\ x \in round'[t].todo => round'[t].dlv[x].status = "pending"
               /\ round'[t].dlv[x].status # "none" => Named(k, x)'
               /\ round'[t].dlv[x].status = "sent" => rang'[k][x] > 0
               /\ dlv'[k][x].status = "sent" => round'[t].dlv[x].status = "sent"
               /\ rang'[k][x] > 0 /\ ~unsure'[k][x] =>
                     /\ rang'[k][x] = 1
                     /\ dlv'[k][x].status = "sent" \/ round'[t].dlv[x].status = "sent"
    <3>1. CASE x # tok
      BY <1>1, <1>2, <2>1, <2>3, <2>4, <3>1 DEF JobSound
    <3>2. CASE x = tok
      BY <1>1, <1>3, <2>3, <2>5, <2>7, <3>2
    <3> QED BY <3>1, <3>2
  <2>9. ASSUME NEW x \in Tokens, Ends(k, x)
        PROVE  /\ dlv'[k][x].status # "none" => token'[x] = "active" \/ Gone(x)'
               /\ dlv'[k][x].status = "skipped" => Gone(x)'
               /\ round'[t].dlv[x].status # "none" => token'[x] = "active" \/ Gone(x)'
               /\ round'[t].dlv[x].status = "skipped" => Gone(x)'
               /\ x \in counting' /\ token'[x] = "active" =>
                     round'[t].dlv[x].status \notin {"none", "skipped"}
               /\ x \in counting' /\ token'[x] = "active" /\ job'[k].status \in WentOut =>
                     dlv'[k][x].status \in {"sent", "failed"}
    <3>1. /\ Gone(x)' <=> Gone(x)
          /\ dlv'[k] = dlv[k] /\ token' = token /\ job' = job /\ counting' \subseteq counting
      BY <1>1, <1>3 DEF Gone
    <3>2. CASE x # tok
      BY <1>2, <1>3, <2>1, <2>4, <2>9, <3>1, <3>2 DEF JobSound
    <3>3. CASE x = tok
      BY <1>1, <1>3, <2>1, <2>5, <2>9, <3>1, <3>3 DEF JobSound
    <3> QED BY <3>2, <3>3
  <2>10. /\ job'[k].status \in WentOut =>
               /\ \E x \in Tokens : dlv'[k][x].status = "sent"
               /\ \A x \in Tokens : dlv'[k][x].status \notin Open
         /\ job'[k].status = "sent" => \A x \in Tokens : dlv'[k][x].status # "failed"
    BY <1>1, <2>1 DEF JobSound
  <2> QED BY <2>2, <2>3, <2>8, <2>9, <2>10 DEF JobSound, WentOut, Open
<1> QED BY <1>5, <1>6, <1>7, <1>8, <1>9, <1>10, <1>11, SoundJobs

\* What a committed round makes of the row.
LEMMA AggregateIs ==
    ASSUME TypeOK, NEW k \in Jobs, NEW d \in [Tokens -> Deliveries], NEW tried \in BOOLEAN
    PROVE  LET final == Exhausted(k, d, tried)
               new == Aggregate(k, d, tried) IN
           /\ new \in JobRows /\ new.id = job[k].id
           /\ final \in [Tokens -> Deliveries]
           /\ \A tok \in Tokens : \/ final[tok] = d[tok]
                                  \/ d[tok].status \in Open /\ final[tok].status = "failed"
           /\ new.status \in WentOut =>
                 /\ \E tok \in Tokens : d[tok].status = "sent"
                 /\ \A tok \in Tokens : final[tok].status \notin Open
           /\ new.status = "sent" => \A tok \in Tokens : final[tok] = d[tok] /\ d[tok].status # "failed"
<1> DEFINE S == StatusesOf(d)
           open == S \cap {"pending", "resting"} # {}
           last == job[k].attempts + 1 >= MaxAttempts
           outcome == IF "sent" \notin S THEN "failed"
                      ELSE IF "failed" \in S \/ open THEN "partial_failed" ELSE "sent"
           final == Exhausted(k, d, tried)
           new == Aggregate(k, d, tried)
           again == Unclaimed(k, "pending", job[k].attempts + 1, FALSE)
<1>1. /\ \A tok \in Tokens : d[tok].status = "none" \/ d[tok].status \in S
      /\ "sent" \in S => \E tok \in Tokens : d[tok].status = "sent"
  BY DEF StatusesOf
<1>2. job[k].attempts + 1 < MaxAttempts <=> ~last
  BY JobFields, PushPipelineAssumption
<1>3. /\ new = _settle(k, "failed") \/ new = again \/ new = PutBack(k) \/ new = _settle(k, outcome)
      /\ open /\ ~(last /\ tried) => new = again \/ new = PutBack(k)
  <2>1. CASE S = {}
    BY <2>1 DEF Aggregate
  <2>2. CASE S # {} /\ open /\ ~last
    BY <1>2, <2>2 DEF Aggregate
  <2>3. CASE S # {} /\ open /\ last /\ ~tried
    BY <1>2, <2>3 DEF Aggregate
  <2>4. CASE S # {} /\ (~open \/ (last /\ tried))
    BY <1>2, <2>4 DEF Aggregate
  <2> QED BY <2>1, <2>2, <2>3, <2>4
<1>4. /\ again \in JobRows /\ again.id = job[k].id /\ again.status = "pending"
      /\ PutBack(k) \in JobRows /\ PutBack(k).id = job[k].id /\ PutBack(k).status = "pending"
      /\ _settle(k, "failed") \in JobRows /\ _settle(k, "failed").id = job[k].id
      /\ _settle(k, "failed").status = "failed"
  <2>1. job[k].attempts + 1 \in Nat /\ FALSE \in BOOLEAN
    BY JobFields
  <2>2. again \in JobRows /\ again.id = job[k].id /\ again.status = "pending"
    BY <2>1, UnclaimedRow
  <2> QED BY <2>2, PutBackRow, SettledRow
<1>5. outcome \in {"failed", "partial_failed", "sent"}
  OBVIOUS
<1>6. /\ _settle(k, outcome) \in JobRows /\ _settle(k, outcome).id = job[k].id
      /\ _settle(k, outcome).status = outcome
  <2> HIDE DEF outcome
  <2> QED BY <1>5, SettledRow
<1>7. /\ outcome \in WentOut => "sent" \in S
      /\ outcome = "sent" => "failed" \notin S /\ ~open
  BY DEF WentOut
<1>8. ASSUME NEW tok \in Tokens
      PROVE  /\ final[tok] \in Deliveries
             /\ final[tok] = d[tok] \/ (d[tok].status \in Open /\ final[tok].status = "failed")
             /\ d[tok].status \in Open /\ tried /\ last => final[tok].status = "failed"
             /\ d[tok].status \notin Open => final[tok] = d[tok]
  <2>1. d[tok] \in Deliveries
    OBVIOUS
  <2>2. /\ [d[tok] EXCEPT !.status = "failed"] \in Deliveries
        /\ [d[tok] EXCEPT !.status = "failed"].status = "failed"
    BY <2>1 DEF Deliveries
  <2>3. final[tok] = IF d[tok].status \in {"pending", "resting"} /\ tried /\ last
                     THEN [d[tok] EXCEPT !.status = "failed"] ELSE d[tok]
    BY DEF Exhausted
  <2> HIDE DEF final, last
  <2> QED BY <2>1, <2>2, <2>3 DEF Open
<1>9. final \in [Tokens -> Deliveries]
  <2>1. \A tok \in Tokens : final[tok] \in Deliveries
    BY <1>8
  <2> QED BY <2>1 DEF Exhausted
<1>10. ASSUME ~open, NEW tok \in Tokens PROVE d[tok].status \notin Open /\ final[tok] = d[tok]
  <2>1. d[tok].status \notin Open
    BY <1>1, <1>10 DEF Open
  <2> QED BY <1>8, <2>1
<1>11. ASSUME new.status \in WentOut
       PROVE  /\ new.status = outcome /\ "sent" \in S
              /\ open => last /\ tried
  <2> HIDE DEF new, again, outcome, open, last, S
  <2>1. new # again /\ new # PutBack(k) /\ new # _settle(k, "failed")
    BY <1>4, <1>11 DEF WentOut
  <2> QED BY <1>3, <1>6, <1>7, <1>11, <2>1
<1>12. ASSUME new.status \in WentOut, NEW tok \in Tokens PROVE final[tok].status \notin Open
  <2>1. CASE open
    <3> HIDE DEF new, final, open, last, S, outcome
    <3> QED BY <1>8, <1>11, <1>12, <2>1 DEF Open
  <2>2. CASE ~open
    BY <1>10, <2>2
  <2> QED BY <2>1, <2>2
<1>13. ASSUME new.status = "sent", NEW tok \in Tokens
       PROVE  final[tok] = d[tok] /\ d[tok].status # "failed"
  <2>1. outcome = "sent"
    <3> HIDE DEF new, outcome, S, open, last
    <3> QED BY <1>11, <1>13 DEF WentOut
  <2>2. "failed" \notin S /\ ~open
    BY <1>7, <2>1
  <2> QED BY <1>1, <1>10, <2>2
<1>14. new \in JobRows /\ new.id = job[k].id
  <2> HIDE DEF new, again, outcome
  <2> QED BY <1>3, <1>4, <1>6
<1> HIDE DEF new, final, S, open, last, outcome
<1>15. new.status \in WentOut => \E tok \in Tokens : d[tok].status = "sent"
  BY <1>1, <1>11
<1> QED BY <1>8, <1>9, <1>12, <1>13, <1>14, <1>15 DEF new, final

LEMMA _deliver_roundKeeps ==
    ASSUME IndInv, NEW t \in Ticks, _deliver_round(t)
    PROVE  IndInv'
<1>1. tick[t].pc = "deliver" /\ round[t].todo = {} /\ NextOfBatch(t)
      /\ UNCHANGED <<mix, deleted, row, turnedIn, crashes, history>>
  BY DEF _deliver_round
<1>2. PICK k \in Jobs : k = Head1(t) /\ holder[k] = t /\ Held(k) /\ Going(k) = round[t]
  BY <1>1, DeliversIts
<1>3. TypeOK
  BY DEF IndInv
<1>4. /\ round[t].dlv \in [Tokens -> Deliveries] /\ round[t].tried \in BOOLEAN
      /\ round[t] \in RoundRows
  BY <1>3 DEF TypeOK, RoundRows
<1> DEFINE d == round[t].dlv
           final == Exhausted(k, d, round[t].tried)
           new == Aggregate(k, d, round[t].tried)
           Written(tok) == IF /\ final[tok].status \in {"pending", "resting"}
                              /\ \/ dlv[k][tok].status = "skipped"
                                 \/ dlv[k][tok].status # "none" /\ final[tok].tries = dlv[k][tok].tries
                           THEN dlv[k][tok] ELSE final[tok]
<1>5. /\ new \in JobRows /\ new.id = job[k].id
      /\ final \in [Tokens -> Deliveries]
      /\ \A tok \in Tokens : \/ final[tok] = d[tok]
                             \/ d[tok].status \in Open /\ final[tok].status = "failed"
      /\ new.status \in WentOut =>
            /\ \E tok \in Tokens : d[tok].status = "sent"
            /\ \A tok \in Tokens : final[tok].status \notin Open
      /\ new.status = "sent" => \A tok \in Tokens : final[tok] = d[tok] /\ d[tok].status # "failed"
  BY <1>3, <1>4, AggregateIs
<1>6. /\ job' = [job EXCEPT ![k] = new]
      /\ dlv' = [dlv EXCEPT ![k] = [tok \in Tokens |-> Written(tok)]]
      /\ token' = [tok \in Tokens |-> IF tok \in round[t].dead /\ token[tok] = "active"
                                      THEN "invalidated" ELSE token[tok]]
      /\ holder' = [holder EXCEPT ![k] = NoTick]
      /\ round' = [round EXCEPT ![t] = NoRound]
  BY <1>2 DEF _deliver_round
<1> HIDE DEF final, new
<1>7. ASSUME NEW tok \in Tokens
      PROVE  /\ Written(tok) \in Deliveries
             /\ Written(tok) = final[tok]
                  \/ (Written(tok) = dlv[k][tok] /\ final[tok].status \in Open)
  <2>1. dlv[k][tok] \in Deliveries /\ final[tok] \in Deliveries
    BY <1>3, <1>5 DEF TypeOK
  <2> QED BY <2>1 DEF Open
<1> HIDE DEF Written
<1>8. [tok \in Tokens |-> Written(tok)] \in [Tokens -> Deliveries]
  BY <1>7
<1>9. NoRound \in RoundRows
  <2>1. [tok \in Tokens |-> NoDelivery] \in [Tokens -> Deliveries]
    BY DEF NoDelivery, Deliveries
  <2> QED BY <2>1 DEF NoRound, RoundRows
<1>10. /\ tick' \in [Ticks -> TickRows] /\ Shorter(t) /\ tick'[t].pc # "deliver"
       /\ \A s \in Ticks \ {t} : tick'[s] = tick[s]
  BY <1>1, DeliversIts, NextIs
<1>11. /\ job' \in [Jobs -> JobRows] /\ job'[k] = new
       /\ \A j \in Jobs \ {k} : job'[j] = job[j]
  BY <1>3, <1>5, <1>6 DEF TypeOK
<1>12. /\ dlv' \in [Jobs -> [Tokens -> Deliveries]]
       /\ \A tok \in Tokens : dlv'[k][tok] = Written(tok)
       /\ \A j \in Jobs \ {k} : dlv'[j] = dlv[j]
  BY <1>3, <1>6, <1>8 DEF TypeOK
<1>13. /\ holder' \in [Jobs -> Ticks \cup {NoTick}] /\ holder'[k] = NoTick
       /\ \A j \in Jobs \ {k} : holder'[j] = holder[j]
  BY <1>3, <1>6 DEF TypeOK
<1>14. /\ round' \in [Ticks -> RoundRows]
       /\ \A s \in Ticks \ {t} : round'[s] = round[s]
  BY <1>3, <1>6, <1>9 DEF TypeOK
<1>15. token' \in [Tokens -> {"absent", "active", "invalidated"}] /\ TokensDie
  BY <1>1, <1>3, <1>6 DEF TypeOK, TokensDie, history
<1>16. TypeOK'
  BY <1>1, <1>3, <1>10, <1>11, <1>12, <1>13, <1>14, <1>15 DEF TypeOK, history
<1>17. ASSUME NEW j \in Jobs, j # k, Held(j)
       PROVE  holder[j] \in Ticks \ {t} /\ Head1(holder[j]) = j
              /\ tick[holder[j]].pc = "deliver" /\ job[j].status = "processing"
  BY <1>2, <1>17, HeldByIts
<1>18. Holding'
  <2>1. ASSUME NEW j \in Jobs, holder'[j] # NoTick
        PROVE  /\ tick'[holder'[j]].pc = "deliver" /\ tick'[holder'[j]].batch[1][1] = j
               /\ job'[j].status = "processing"
    <3>1. j # k /\ Held(j)
      BY <1>13, <2>1 DEF Held
    <3> QED BY <1>10, <1>11, <1>13, <1>17, <3>1 DEF Head1
  <2>2. ASSUME NEW s \in Ticks, tick'[s].pc = "deliver"
        PROVE  holder'[tick'[s].batch[1][1]] = s
    <3>1. s # t /\ tick'[s] = tick[s]
      BY <1>10, <2>2
    <3>2. Head1(s) \in Jobs /\ holder[Head1(s)] = s
      BY <2>2, <3>1, DeliversIts
    <3>3. Head1(s) # k
      BY <1>2, <3>1, <3>2
    <3> QED BY <1>13, <3>1, <3>2, <3>3 DEF Head1
  <2> QED BY <2>1, <2>2 DEF Holding, Held, Head1
<1>19. IdsGrow
  BY <1>1, <1>5, <1>11 DEF IdsGrow, history
<1>20. Batched'
  BY <1>10, <1>16, <1>19, ShorterKeeps, OthersStay
<1>21. SparedRang'
  BY <1>1 DEF IndInv, SparedRang, StartRang, history
<1>22. ASSUME NEW j \in Jobs, j # k PROVE JobSound(j)'
  <2>1. Untouched(j)
    BY <1>1, <1>11, <1>12, <1>13, <1>14, <1>17, <1>22 DEF Untouched, Going, history
  <2> QED BY <1>15, <2>1, JobsSound, UntouchedSound
<1>23. JobSound(k)'
  <2>1. JobSound(k)
    BY JobsSound
  <2>2. /\ ~Held(k)' /\ rang' = rang /\ unsure' = unsure
        /\ \A x \in Tokens : (Named(k, x)' <=> Named(k, x)) /\ (Ends(k, x)' <=> Ends(k, x))
    BY <1>1, <1>13 DEF Held, Named, Ends, history
  <2>3. ASSUME NEW x \in Tokens
        PROVE  /\ dlv'[k][x].status # "none" => Named(k, x)'
               /\ dlv'[k][x].status = "sent" => rang'[k][x] > 0
               /\ rang'[k][x] > 0 => Named(k, x)'
               /\ rang'[k][x] > 0 /\ ~unsure'[k][x] =>
                     rang'[k][x] = 1 /\ dlv'[k][x].status = "sent"
    <3>1. /\ dlv'[k][x] = dlv[k][x] \/ dlv'[k][x].status = d[x].status
             \/ (dlv'[k][x].status = "failed" /\ d[x].status # "none")
          /\ d[x].status = "sent" => dlv'[k][x].status = "sent"
      BY <1>5, <1>7, <1>12 DEF Open
    <3>2. /\ d[x].status # "none" => Named(k, x)
          /\ d[x].status = "sent" => rang[k][x] > 0
          /\ dlv[k][x].status = "sent" => d[x].status = "sent"
      BY <1>2, <2>1 DEF JobSound
    <3>3. /\ dlv[k][x].status # "none" => Named(k, x)
          /\ dlv[k][x].status = "sent" => rang[k][x] > 0
          /\ rang[k][x] > 0 => Named(k, x)
          /\ rang[k][x] > 0 /\ ~unsure[k][x] => rang[k][x] = 1 /\ d[x].status = "sent"
      BY <1>2, <2>1, <3>2 DEF JobSound
    <3> QED BY <2>2, <3>1, <3>2, <3>3
  <2>4. ASSUME NEW x \in Tokens, Ends(k, x)
        PROVE  /\ dlv'[k][x].status # "none" => token'[x] = "active" \/ Gone(x)'
               /\ dlv'[k][x].status = "skipped" => Gone(x)'
               /\ x \in counting' /\ token'[x] = "active" /\ job'[k].status \in WentOut =>
                     dlv'[k][x].status \in {"sent", "failed"}
    <3>1. /\ d[x].status # "none" => token[x] = "active" \/ Gone(x)
          /\ d[x].status = "skipped" => Gone(x)
          /\ x \in counting /\ token[x] = "active" => d[x].status \notin {"none", "skipped"}
          /\ dlv[k][x].status # "none" => token[x] = "active" \/ Gone(x)
          /\ dlv[k][x].status = "skipped" => Gone(x)
      BY <1>2, <2>1, <2>4 DEF JobSound
    <3>2. /\ Gone(x) => Gone(x)'
          /\ token[x] = "active" => token'[x] = "active" \/ Gone(x)'
          /\ token'[x] = "active" => token[x] = "active"
          /\ x \in counting' => x \in counting
      BY <1>15, TokensLast
    <3>3. \/ dlv'[k][x] = dlv[k][x]
          \/ dlv'[k][x] = d[x]
          \/ dlv'[k][x].status = "failed" /\ d[x].status \in Open
      BY <1>5, <1>7, <1>12
    <3>4. ASSUME job'[k].status \in WentOut, d[x].status \notin {"none", "skipped"}
          PROVE  dlv'[k][x].status \in {"sent", "failed"}
      <4>1. final[x].status \notin Open /\ dlv'[k][x] = final[x]
        BY <1>5, <1>7, <1>11, <1>12, <3>4
      <4>2. final[x].status \notin {"none", "skipped"} /\ final[x] \in Deliveries
        BY <1>5, <3>4
      <4> QED BY <4>1, <4>2 DEF Deliveries, Open
    <3>5. /\ dlv'[k][x].status # "none" => token[x] = "active" \/ Gone(x)
          /\ dlv'[k][x].status = "skipped" => Gone(x)
      BY <3>1, <3>3 DEF Open
    <3> QED BY <3>1, <3>2, <3>4, <3>5
  <2>5. ASSUME job'[k].status \in WentOut
        PROVE  /\ \E x \in Tokens : dlv'[k][x].status = "sent"
               /\ \A x \in Tokens : dlv'[k][x].status \notin Open
    <3>1. \A x \in Tokens : dlv'[k][x] = final[x] /\ final[x].status \notin Open
      BY <1>5, <1>7, <1>11, <1>12, <2>5
    <3>2. PICK x \in Tokens : d[x].status = "sent"
      BY <1>5, <1>11, <2>5
    <3>3. final[x] = d[x]
      BY <1>5, <3>2 DEF Open
    <3> QED BY <3>1, <3>2, <3>3
  <2>6. ASSUME job'[k].status = "sent", NEW x \in Tokens PROVE dlv'[k][x].status # "failed"
    <3>1. new.status = "sent" /\ new.status \in WentOut
      BY <1>11, <2>6 DEF WentOut
    <3>2. dlv'[k][x] = final[x] /\ final[x] = d[x] /\ d[x].status # "failed"
      BY <1>5, <1>7, <1>12, <3>1
    <3> QED BY <3>2
  <2> QED BY <2>2, <2>3, <2>4, <2>5, <2>6 DEF JobSound, WentOut, Open
<1> QED BY <1>15, <1>16, <1>18, <1>20, <1>21, <1>22, <1>23, SoundJobs

\* Rounds that are rolled back leave nothing but the pushes they sent.
LEMMA RollsBack ==
    ASSUME IndInv, NEW T \in SUBSET Ticks, RollBack(T),
           UNCHANGED <<mix, rows, turnedIn, rang, vouched, begun, spared, counting>>,
           crashes' \in Nat, tick' \in [Ticks -> TickRows],
           \A s \in T : tick'[s].pc # "deliver" /\ Shorter(s),
           \A s \in Ticks \ T : tick'[s] = tick[s]
    PROVE  IndInv'
<1>1. TypeOK
  BY DEF IndInv
<1>2. /\ holder' = [k \in Jobs |-> IF holder[k] \in T THEN NoTick ELSE holder[k]]
      /\ round' = [t \in Ticks |-> IF t \in T THEN NoRound ELSE round[t]]
      /\ unsure' = [k \in Jobs |-> [tok \in Tokens |->
           \/ unsure[k][tok]
           \/ /\ holder[k] \in T
              /\ round[holder[k]].dlv[tok].status = "sent"
              /\ dlv[k][tok].status # "sent"]]
  BY DEF RollBack
<1>3. UNCHANGED <<mix, job, dlv, token, deleted, row, turnedIn, rang, vouched, begun, spared, counting>>
  BY DEF rows
<1>4. NoRound \in RoundRows
  <2>1. [tok \in Tokens |-> NoDelivery] \in [Tokens -> Deliveries]
    BY DEF NoDelivery, Deliveries
  <2> QED BY <2>1 DEF NoRound, RoundRows
<1>5. /\ holder' \in [Jobs -> Ticks \cup {NoTick}] /\ round' \in [Ticks -> RoundRows]
      /\ unsure' \in [Jobs -> [Tokens -> BOOLEAN]]
  <2>1. holder' \in [Jobs -> Ticks \cup {NoTick}]
    BY <1>1, <1>2 DEF TypeOK
  <2>2. round' \in [Ticks -> RoundRows]
    BY <1>1, <1>2, <1>4 DEF TypeOK
  <2>3. \A k \in Jobs, tok \in Tokens : unsure[k][tok] \in BOOLEAN
    BY <1>1 DEF TypeOK
  <2>4. unsure' \in [Jobs -> [Tokens -> BOOLEAN]]
    BY <1>2, <2>3
  <2> QED BY <2>1, <2>2, <2>4
<1>6. TypeOK'
  BY <1>1, <1>3, <1>5 DEF TypeOK
<1>7. TokensDie
  BY <1>3 DEF TokensDie
<1>8. NoTick \notin T
  BY PushPipelineAssumption
<1>9. ASSUME NEW k \in Jobs, Held(k)'
      PROVE  Held(k) /\ holder'[k] = holder[k] /\ holder[k] \in Ticks \ T /\ Going(k)' = Going(k)
  <2>1. holder[k] \notin T /\ holder'[k] = holder[k] /\ Held(k)
    BY <1>2, <1>9 DEF Held
  <2>2. holder[k] \in Ticks \ T
    BY <2>1, HeldByIts
  <2>3. round'[holder[k]] = round[holder[k]]
    BY <1>2, <2>2
  <2> QED BY <2>1, <2>2, <2>3 DEF Going
<1>10. Holding'
  <2>1. ASSUME NEW k \in Jobs, Held(k)'
        PROVE  /\ tick'[holder'[k]].pc = "deliver" /\ tick'[holder'[k]].batch[1][1] = k
               /\ job'[k].status = "processing"
    BY <1>3, <1>9, <2>1, HeldByIts DEF Head1
  <2>2. ASSUME NEW s \in Ticks, tick'[s].pc = "deliver"
        PROVE  holder'[tick'[s].batch[1][1]] = s
    <3>1. s \notin T /\ tick'[s] = tick[s]
      BY <2>2
    <3>2. Head1(s) \in Jobs /\ holder[Head1(s)] = s
      BY <2>2, <3>1, DeliversIts
    <3> QED BY <1>2, <3>1, <3>2 DEF Head1
  <2> QED BY <2>1, <2>2 DEF Holding, Head1
<1>11. Batched'
  <2>1. IdsGrow
    BY <1>3 DEF IdsGrow
  <2>2. ASSUME NEW s \in Ticks PROVE Shorter(s)
    <3>1. tick[s].pc \in Working => tick[s].batch # <<>>
      BY DEF IndInv, Batched, BatchedAt
    <3>2. 0 \in {0, 1} /\ \A i \in 1..Len(tick[s].batch) : i + 0 = i
      BY <1>1 DEF TypeOK, TickRows
    <3>3. s \notin T => Shorter(s)
      BY <3>1, <3>2 DEF Shorter
    <3> QED BY <3>3
  <2> QED BY <1>6, <2>1, <2>2, ShorterKeeps DEF Batched
<1>12. SparedRang'
  BY <1>3 DEF IndInv, SparedRang, StartRang
<1>13. ASSUME NEW k \in Jobs PROVE JobSound(k)'
  <2>1. JobSound(k)
    BY JobsSound
  <2>2. /\ \A x \in Tokens : Named(k, x)' <=> Named(k, x)
        /\ \A x \in Tokens : Ends(k, x)' <=> Ends(k, x)
        /\ \A x \in Tokens : Gone(x)' <=> Gone(x)
    BY <1>3 DEF Named, Ends, Gone
  <2>3. \A x \in Tokens :
          unsure'[k][x] = \/ unsure[k][x]
                          \/ /\ holder[k] \in T
                             /\ round[holder[k]].dlv[x].status = "sent"
                             /\ dlv[k][x].status # "sent"
    BY <1>2
  <2>4. CASE Held(k)'
    <3>1. Untouched(k)
      BY <1>3, <1>9, <2>3, <2>4 DEF Untouched
    <3> QED BY <1>7, <2>1, <3>1, UntouchedSound
  <2>5. CASE ~Held(k)'
    <3>1. holder[k] \in T \/ ~Held(k)
      BY <1>2, <2>5 DEF Held
    <3>2. ASSUME NEW x \in Tokens, rang[k][x] > 0, ~unsure'[k][x]
          PROVE  rang[k][x] = 1 /\ dlv[k][x].status = "sent"
      <4>1. ~unsure[k][x]
        BY <2>3, <3>2
      <4>2. rang[k][x] = 1 /\ (dlv[k][x].status = "sent" \/ (Held(k) /\ Going(k).dlv[x].status = "sent"))
        BY <2>1, <3>2, <4>1 DEF JobSound
      <4>3. Held(k) /\ Going(k).dlv[x].status = "sent" => dlv[k][x].status = "sent"
        BY <2>3, <3>1, <3>2 DEF Going
      <4> QED BY <4>2, <4>3
    <3>3. \A x \in Tokens :
            /\ dlv'[k][x].status # "none" => Named(k, x)'
            /\ dlv'[k][x].status = "sent" => rang'[k][x] > 0
            /\ rang'[k][x] > 0 => Named(k, x)'
            /\ rang'[k][x] > 0 /\ ~unsure'[k][x] => rang'[k][x] = 1 /\ dlv'[k][x].status = "sent"
      BY <1>3, <2>1, <2>2, <3>2 DEF JobSound
    <3>4. \A x \in Tokens : Ends(k, x)' =>
            /\ dlv'[k][x].status # "none" => token'[x] = "active" \/ Gone(x)'
            /\ dlv'[k][x].status = "skipped" => Gone(x)'
            /\ x \in counting' /\ token'[x] = "active" /\ job'[k].status \in WentOut =>
                  dlv'[k][x].status \in {"sent", "failed"}
      BY <1>3, <2>1, <2>2 DEF JobSound
    <3>5. /\ job'[k].status \in WentOut =>
               /\ \E x \in Tokens : dlv'[k][x].status = "sent"
               /\ \A x \in Tokens : dlv'[k][x].status \notin Open
          /\ job'[k].status = "sent" => \A x \in Tokens : dlv'[k][x].status # "failed"
      BY <1>3, <2>1 DEF JobSound
    <3> QED BY <2>5, <3>3, <3>4, <3>5 DEF JobSound, WentOut, Open
  <2> QED BY <2>4, <2>5
<1> QED BY <1>6, <1>7, <1>10, <1>11, <1>12, <1>13, SoundJobs

LEMMA RaisesKeeps ==
    ASSUME IndInv, NEW t \in Ticks, Raises(t) PROVE IndInv'
<1>1. tick \in [Ticks -> TickRows] /\ tick[t] \in TickRows /\ crashes \in Nat
  BY DEF IndInv, TypeOK
<1> DEFINE new == [tick[t] EXCEPT !.pc = "handler"]
<1>2. /\ tick[t].pc \in {"deliver", "process"} /\ RollBack({t})
      /\ tick' = [tick EXCEPT ![t] = new]
      /\ UNCHANGED <<mix, rows, turnedIn, crashes, rang, vouched, begun, spared, counting>>
  BY <1>1 DEF Raises, Locks
<1>3. /\ new \in TickRows /\ new.pc = "handler" /\ new.batch = tick[t].batch
      /\ new.check = tick[t].check
  BY <1>1 DEF TickRows, Pcs
<1> HIDE DEF new
<1>4. /\ tick' \in [Ticks -> TickRows] /\ tick'[t] = new
      /\ \A s \in Ticks \ {t} : tick'[s] = tick[s]
  BY <1>1, <1>2, <1>3
<1>5. Shorter(t)
  <2>1. tick[t].batch # <<>>
    BY <1>2 DEF IndInv, Batched, BatchedAt, Working
  <2>2. 0 \in {0, 1} /\ \A i \in 1..Len(tick[t].batch) : i + 0 = i
    BY <1>1 DEF TickRows
  <2> QED BY <1>3, <1>4, <2>1, <2>2 DEF Shorter
<1>6. {t} \in SUBSET Ticks /\ \A s \in {t} : tick'[s].pc # "deliver" /\ Shorter(s)
  BY <1>3, <1>4, <1>5
<1> QED BY <1>1, <1>2, <1>4, <1>6, RollsBack

LEMMA CrashKeeps ==
    ASSUME IndInv, NEW w \in Workers, Crash(w) PROVE IndInv'
<1> DEFINE T == {t \in Ticks : Worker[t] = w}
<1>1. /\ RollBack(T) /\ crashes' = crashes + 1
      /\ tick' = [t \in Ticks |-> IF t \in T THEN IdleTick ELSE tick[t]]
      /\ UNCHANGED <<mix, rows, turnedIn, rang, vouched, begun, spared, counting>>
  BY DEF Crash
<1>2. tick \in [Ticks -> TickRows] /\ crashes' \in Nat
  BY <1>1 DEF IndInv, TypeOK
<1>3. tick' \in [Ticks -> TickRows]
  BY <1>1, <1>2, IdleTyped
<1>4. T \in SUBSET Ticks
  OBVIOUS
<1> HIDE DEF T
<1>5. ASSUME NEW s \in T PROVE tick'[s].pc # "deliver" /\ Shorter(s)
  <2>1. tick'[s] = IdleTick /\ s \in Ticks
    BY <1>1, <1>4
  <2>2. /\ \A i \in 1..Len(IdleTick.batch) : i + 0 \in 1..Len(tick[s].batch)
                                             /\ IdleTick.batch[i] = tick[s].batch[i + 0]
        /\ IdleTick.pc \notin Working /\ IdleTick.pc # "deliver"
        /\ \A k \in Jobs : IdleTick.check[k] = "none"
    BY IdleTyped DEF Working, NoCheck
  <2> QED BY <2>1, <2>2 DEF Shorter
<1>6. \A s \in Ticks \ T : tick'[s] = tick[s]
  BY <1>1
<1> QED BY <1>1, <1>2, <1>3, <1>4, <1>5, <1>6, RollsBack

\* A job that is clear to go: checked, if it must be, and not sent from a round
\* that began after the submission.
LEMMA ClearedIs ==
    ASSUME IndInv, NEW t \in Ticks, Cleared(t), NEW k \in Jobs, k = Head1(t), OfAssignment(k),
           ~DeviceLost(k)
    PROVE  k \in vouched /\ (row # "submitted" \/ k \in begun)
<1>1. /\ tick[t].pc = "process" /\ job[k].id = HeadId(t)
      /\ IF tick[t].check[k] \in Verdicts THEN recheck_rows(tick[t].check[k], k) = "send"
         ELSE ~needs_check(k) \/ HasDeliveries(k)
  BY DEF Cleared, LocksOwned, Locks, Owned
<1>2. tick[t].batch # <<>> /\ BatchedAt(t)
  BY <1>1 DEF IndInv, Batched, BatchedAt, Working
<1>3. CASE tick[t].check[k] \in Verdicts
  <2>1. tick[t].check[k] = "send" /\ row = "open"
    BY <1>1, <1>3 DEF recheck_rows, _rows_verdict, IndInv, TypeOK
  <2>2. 1 \in 1..Len(tick[t].batch) /\ tick[t].batch[1][1] = k /\ tick[t].batch[1][2] = job[k].id
    BY <1>1, <1>2, HeadOfBatch DEF IndInv, Head1, HeadId
  <2> QED BY <1>2, <2>1, <2>2 DEF BatchedAt
<1>4. CASE tick[t].check[k] \notin Verdicts
  <2>1. HasDeliveries(k)
    BY <1>1, <1>4 DEF needs_check
  <2> QED BY <2>1, JobsSound DEF HasDeliveries, JobSound, Named
<1> QED BY <1>3, <1>4

\* Nothing that stands in the way of a job whose round opens for a token by name.
LEMMA ReceiversNamed ==
    ASSUME NEW k \in Jobs, ~DeviceLost(k), "none" \in Hindrances(k), NEW tok \in Receivers(k)
    PROVE  Target[k] \in {AnyDevice, DeviceOf[tok]} /\ tok \in Tokens /\ token[tok] = "active"
<1>1. tok \in TokenQuery(k)
  BY DEF Receivers
<1>2. Target[k] \in {AnyDevice, DeviceOf[tok]} \/ Target[k] \in deleted
  BY <1>1 DEF TokenQuery
<1>3. Target[k] \notin deleted
  <2> SUFFICES ASSUME Target[k] \in deleted PROVE FALSE
    OBVIOUS
  <2>1. Kind[k] = "reauth"
    BY DEF DeviceLost
  <2>2. Hindrances(k) = {"stale"}
    BY <2>1 DEF Hindrances, DeviceLost
  <2> QED BY <2>2
<1> QED BY <1>1, <1>2, <1>3 DEF TokenQuery

\* An end goes to every activity that counts down on its device.
LEMMA EndReceivers ==
    ASSUME IndInv, NEW k \in Jobs, NEW tok \in counting, Ends(k, tok), token[tok] = "active"
    PROVE  tok \in Receivers(k) /\ ~DeviceLost(k)
<1>1. TokenKind[tok] = "live_activity_update" /\ tok \in Tokens
  BY DEF IndInv, EndsCover, TypeOK
<1>2. TokenKindOf(k) = "live_activity_update"
  BY DEF TokenKindOf, Ends
<1>3. tok \in TokenQuery(k)
  BY <1>1, <1>2 DEF TokenQuery, Ends
<1>4. _countdown_starts(k).covered = {}
  BY DEF _countdown_starts, Ends
<1>5. Target[k] \notin deleted
  BY <1>1 DEF IndInv, EndsCover, Ends
<1> QED BY <1>3, <1>4, <1>5 DEF Receivers, DeviceLost

LEMMA _materializeKeeps ==
    ASSUME IndInv, NEW t \in Ticks, _materialize(t)
    PROVE  IndInv'
<1>1. /\ Cleared(t) /\ tick[t].pc = "process" /\ ~Held(Head1(t))
      /\ job[Head1(t)].status = "processing" /\ tick[t].batch # <<>>
      /\ UNCHANGED <<mix, rows, turnedIn, crashes, rang, unsure, vouched, counting>>
  <2>1. Cleared(t) /\ UNCHANGED <<mix, rows, turnedIn, crashes, rang, unsure, vouched, counting>>
    BY DEF _materialize
  <2>2. tick[t].pc = "process" /\ ~Held(Head1(t)) /\ job[Head1(t)].status = "processing"
    BY <2>1, UnlockedIs DEF Cleared, LocksOwned, Locks, Owned
  <2> QED BY <2>1, <2>2 DEF IndInv, Batched, BatchedAt, Working
<1>2. TypeOK
  BY DEF IndInv
<1>3. PICK k \in Jobs : k = Head1(t)
  BY <1>1, <1>2, HeadOfBatch
<1> DEFINE new(tok) == dlv[k][tok].status = "none" /\ tok \in Receivers(k) /\ ~DeviceLost(k)
           made == [tok \in Tokens |-> IF new(tok) THEN [status |-> "pending", tries |-> 0]
                                       ELSE dlv[k][tok]]
           due == {tok \in Tokens : made[tok].status = "pending"}
           d == [tok \in Tokens |-> IF tok \in due /\ token[tok] # "active"
                                    THEN [made[tok] EXCEPT !.status = "skipped"] ELSE made[tok]]
           opened == [dlv |-> d, todo |-> {tok \in due : token[tok] = "active"},
                      tried |-> due # {}, dead |-> {}]
<1>4. /\ "none" \in Hindrances(k)
      /\ round' = [round EXCEPT ![t] = opened]
      /\ holder' = [holder EXCEPT ![k] = t]
      /\ tick' = [tick EXCEPT ![t].pc = "deliver"]
      /\ begun' = IF row = "submitted" \/ HasDeliveries(k) THEN begun ELSE begun \cup {k}
      /\ spared' = spared \cup _countdown_starts(k).covered
  BY <1>3 DEF _materialize
<1>5. ASSUME NEW tok \in Tokens
      PROVE  /\ made[tok] \in Deliveries /\ d[tok] \in Deliveries
             /\ dlv[k][tok] \in Deliveries
             /\ \/ new(tok) /\ made[tok].status = "pending"
                \/ ~new(tok) /\ made[tok] = dlv[k][tok]
             /\ \/ d[tok] = made[tok] /\ (made[tok].status = "pending" => token[tok] = "active")
                \/ /\ made[tok].status = "pending" /\ token[tok] # "active"
                   /\ d[tok].status = "skipped"
  <2>1. dlv[k][tok] \in Deliveries /\ [status |-> "pending", tries |-> 0] \in Deliveries
    BY <1>2 DEF TypeOK, Deliveries
  <2>2. made[tok] = IF new(tok) THEN [status |-> "pending", tries |-> 0] ELSE dlv[k][tok]
    OBVIOUS
  <2> HIDE DEF new
  <2>3. /\ made[tok] \in Deliveries
        /\ \/ new(tok) /\ made[tok].status = "pending"
           \/ ~new(tok) /\ made[tok] = dlv[k][tok]
    BY <2>1, <2>2
  <2>4. d[tok] = IF made[tok].status = "pending" /\ token[tok] # "active"
                 THEN [made[tok] EXCEPT !.status = "skipped"] ELSE made[tok]
    OBVIOUS
  <2> HIDE DEF made, d, due
  <2>5. /\ [made[tok] EXCEPT !.status = "skipped"] \in Deliveries
        /\ [made[tok] EXCEPT !.status = "skipped"].status = "skipped"
    BY <2>3 DEF Deliveries
  <2> QED BY <2>1, <2>3, <2>4, <2>5
<1>6. /\ d \in [Tokens -> Deliveries] /\ due \in SUBSET Tokens
      /\ \A tok \in Tokens : tok \in due <=> made[tok].status = "pending"
  <2>1. \A tok \in Tokens : d[tok] \in Deliveries
    BY <1>5
  <2> QED BY <2>1
<1> HIDE DEF new, made, due, d
<1>7. opened \in RoundRows /\ opened.dlv = d /\ opened.todo = {tok \in due : token[tok] = "active"}
  BY <1>6 DEF RoundRows
<1> HIDE DEF opened
<1>8. /\ round' \in [Ticks -> RoundRows] /\ round'[t] = opened
      /\ \A s \in Ticks \ {t} : round'[s] = round[s]
  BY <1>2, <1>4, <1>7 DEF TypeOK
<1>9. /\ holder' \in [Jobs -> Ticks \cup {NoTick}] /\ holder'[k] = t
      /\ \A j \in Jobs \ {k} : holder'[j] = holder[j]
  BY <1>2, <1>4 DEF TypeOK
<1>10. /\ tick' \in [Ticks -> TickRows] /\ tick'[t].pc = "deliver"
       /\ tick'[t].batch = tick[t].batch /\ tick'[t].check = tick[t].check
       /\ \A s \in Ticks \ {t} : tick'[s] = tick[s]
  <2> DEFINE now == [tick[t] EXCEPT !.pc = "deliver"]
  <2>1. tick \in [Ticks -> TickRows] /\ tick[t] \in TickRows
    BY <1>2 DEF TypeOK
  <2>2. now \in TickRows /\ now.pc = "deliver" /\ now.batch = tick[t].batch /\ now.check = tick[t].check
    BY <2>1 DEF TickRows, Pcs
  <2>3. tick' = [tick EXCEPT ![t] = now]
    BY <1>4, <2>1
  <2> HIDE DEF now
  <2> QED BY <2>1, <2>2, <2>3
<1>11. begun' \in SUBSET Jobs /\ begun \subseteq begun'
  BY <1>2, <1>4 DEF TypeOK
<1>12. UNCHANGED <<mix, job, dlv, token, deleted, row, turnedIn, crashes, rang, unsure, vouched, counting>>
  BY <1>1 DEF rows
<1>13. TypeOK'
  BY <1>2, <1>8, <1>9, <1>10, <1>11, <1>12 DEF TypeOK
<1>14. TokensDie
  BY <1>12 DEF TokensDie
<1>15. ASSUME NEW j \in Jobs, Held(j)
       PROVE  /\ j # k /\ holder[j] \in Ticks \ {t} /\ Head1(holder[j]) = j
              /\ tick[holder[j]].pc = "deliver" /\ job[j].status = "processing"
  BY <1>1, <1>3, <1>15, HeldByIts
<1>16. Holding'
  <2>1. ASSUME NEW j \in Jobs, holder'[j] # NoTick
        PROVE  /\ tick'[holder'[j]].pc = "deliver" /\ tick'[holder'[j]].batch[1][1] = j
               /\ job'[j].status = "processing"
    <3>1. CASE j = k
      BY <1>1, <1>3, <1>9, <1>10, <1>12, <3>1 DEF Head1
    <3>2. CASE j # k
      BY <1>9, <1>10, <1>12, <1>15, <2>1, <3>2 DEF Head1, Held
    <3> QED BY <3>1, <3>2
  <2>2. ASSUME NEW s \in Ticks, tick'[s].pc = "deliver"
        PROVE  holder'[tick'[s].batch[1][1]] = s
    <3>1. CASE s = t
      BY <1>3, <1>9, <1>10, <3>1 DEF Head1
    <3>2. CASE s # t
      <4>1. tick[s].pc = "deliver" /\ tick'[s] = tick[s]
        BY <1>10, <2>2, <3>2
      <4>2. Head1(s) \in Jobs /\ holder[Head1(s)] = s /\ Held(Head1(s))
        BY <4>1, DeliversIts
      <4> QED BY <1>9, <1>15, <4>1, <4>2 DEF Head1
    <3> QED BY <3>1, <3>2
  <2> QED BY <2>1, <2>2 DEF Holding, Held, Head1
<1>17. Batched'
  <2>1. IdsGrow
    BY <1>12 DEF IdsGrow
  <2>2. 0 \in {0, 1} /\ \A i \in 1..Len(tick[t].batch) : i + 0 = i
    BY <1>2 DEF TypeOK, TickRows
  <2>3. Shorter(t)
    BY <1>1, <1>10, <2>2 DEF Shorter
  <2> QED BY <1>10, <1>13, <2>1, <2>3, ShorterKeeps, OthersStay
<1>18. SparedRang'
  <2> SUFFICES ASSUME NEW x \in spared'
               PROVE  \E s \in Jobs, tok \in Tokens :
                        Kind[s] = "start" /\ Target[s] = x /\ DeviceOf[tok] = x /\ rang'[s][tok] > 0
    BY DEF SparedRang, StartRang
  <2>1. StartRang(x)
    BY <1>4, CoveredRang DEF IndInv, SparedRang
  <2> QED BY <1>12, <2>1 DEF StartRang
<1>19. ASSUME NEW j \in Jobs, j # k PROVE JobSound(j)'
  <2>1. Untouched(j)
    BY <1>8, <1>9, <1>11, <1>12, <1>15, <1>19 DEF Untouched, Going
  <2> QED BY <1>14, <2>1, JobsSound, UntouchedSound
<1>20. JobSound(k)'
  <2>1. JobSound(k) /\ ~Held(k)
    BY <1>15, JobsSound
  <2>2. Held(k)' /\ Going(k)' = opened
    BY <1>8, <1>9, PushPipelineAssumption DEF Held, Going
  <2>3. /\ \A x \in Tokens : Named(k, x) => Named(k, x)'
        /\ \A x \in Tokens : Ends(k, x)' <=> Ends(k, x)
        /\ \A x \in Tokens : Gone(x)' <=> Gone(x)
    BY <1>11, <1>12 DEF Named, Ends, Gone
  <2>4. ASSUME NEW x \in Tokens, new(x) PROVE Named(k, x)' /\ token[x] = "active"
    <3>1. x \in Receivers(k) /\ ~DeviceLost(k)
      BY <2>4 DEF new
    <3>2. Target[k] \in {AnyDevice, DeviceOf[x]} /\ token[x] = "active"
      BY <1>4, <3>1, ReceiversNamed
    <3>3. ASSUME OfAssignment(k) PROVE k \in vouched' /\ k \in begun'
      <4>1. k \in vouched /\ (row # "submitted" \/ k \in begun)
        BY <1>1, <1>3, <3>1, <3>3, ClearedIs
      <4>2. HasDeliveries(k) => k \in begun
        BY <2>1, <3>3 DEF HasDeliveries, JobSound, Named
      <4> QED BY <1>4, <1>12, <4>1, <4>2
    <3> QED BY <3>2, <3>3 DEF Named
  <2>5. ASSUME NEW x \in Tokens
        PROVE  /\ dlv'[k][x].status # "none" => Named(k, x)'
               /\ dlv'[k][x].status = "sent" => rang'[k][x] > 0
               /\ rang'[k][x] > 0 => Named(k, x)'
               /\ x \in opened.todo => opened.dlv[x].status = "pending"
               /\ opened.dlv[x].status # "none" => Named(k, x)'
               /\ opened.dlv[x].status = "sent" => rang'[k][x] > 0
               /\ dlv'[k][x].status = "sent" => opened.dlv[x].status = "sent"
               /\ rang'[k][x] > 0 /\ ~unsure'[k][x] =>
                     rang'[k][x] = 1 /\ dlv'[k][x].status = "sent"
    <3>1. /\ dlv[k][x].status # "none" => Named(k, x)
          /\ dlv[k][x].status = "sent" => rang[k][x] > 0
          /\ rang[k][x] > 0 => Named(k, x)
          /\ rang[k][x] > 0 /\ ~unsure[k][x] => rang[k][x] = 1 /\ dlv[k][x].status = "sent"
      BY <2>1 DEF JobSound
    <3>2. x \in opened.todo => made[x].status = "pending" /\ token[x] = "active"
      BY <1>6, <1>7
    <3>3. /\ x \in opened.todo => d[x].status = "pending"
          /\ d[x].status # "none" => new(x) \/ dlv[k][x].status # "none"
          /\ d[x].status = "sent" => dlv[k][x].status = "sent"
          /\ dlv[k][x].status = "sent" => d[x].status = "sent"
      <4>1. new(x) => dlv[k][x].status = "none"
        BY DEF new
      <4> QED BY <1>5, <3>2, <4>1
    <3> QED BY <1>7, <1>12, <2>3, <2>4, <3>1, <3>3
  <2>6. ASSUME NEW x \in Tokens, Ends(k, x)
        PROVE  /\ dlv'[k][x].status # "none" => token'[x] = "active" \/ Gone(x)'
               /\ dlv'[k][x].status = "skipped" => Gone(x)'
               /\ opened.dlv[x].status # "none" => token'[x] = "active" \/ Gone(x)'
               /\ opened.dlv[x].status = "skipped" => Gone(x)'
               /\ x \in counting' /\ token'[x] = "active" =>
                     opened.dlv[x].status \notin {"none", "skipped"}
               /\ x \in counting' /\ token'[x] = "active" /\ job'[k].status \in WentOut =>
                     dlv'[k][x].status \in {"sent", "failed"}
    <3>1. /\ dlv[k][x].status # "none" => token[x] = "active" \/ Gone(x)
          /\ dlv[k][x].status = "skipped" => Gone(x)
          /\ x \in counting /\ token[x] = "active" /\ job[k].status \in WentOut =>
                dlv[k][x].status \in {"sent", "failed"}
      BY <2>1, <2>6 DEF JobSound
    <3>2. /\ d[x].status # "none" => token[x] = "active" \/ Gone(x)
          /\ d[x].status = "skipped" => Gone(x)
      BY <1>5, <2>4, <3>1
    <3>3. ASSUME x \in counting, token[x] = "active" PROVE d[x].status \notin {"none", "skipped"}
      <4>1. x \in Receivers(k) /\ ~DeviceLost(k)
        BY <2>6, <3>3, EndReceivers
      <4>2. ~Gone(x)
        BY <3>3 DEF Gone, IndInv, EndsCover
      <4>3. dlv[k][x].status # "skipped" /\ (new(x) \/ dlv[k][x].status # "none")
        BY <3>1, <4>1, <4>2 DEF new
      <4> QED BY <1>5, <3>2, <3>3, <4>2, <4>3
    <3> QED BY <1>7, <1>12, <2>3, <3>1, <3>2, <3>3
  <2>7. /\ job'[k].status \in WentOut =>
             /\ \E x \in Tokens : dlv'[k][x].status = "sent"
             /\ \A x \in Tokens : dlv'[k][x].status \notin Open
        /\ job'[k].status = "sent" => \A x \in Tokens : dlv'[k][x].status # "failed"
    BY <1>12, <2>1 DEF JobSound
  <2> QED BY <2>2, <2>3, <2>5, <2>6, <2>7 DEF JobSound, WentOut, Open
<1> QED BY <1>13, <1>14, <1>16, <1>17, <1>18, <1>19, <1>20, SoundJobs

-----------------------------------------------------------------------------
(* The beginning, and every step.                                            *)

LEMMA InitSound ==
    ASSUME Init PROVE IndInv
<1>1. /\ Unfiled \in JobRows /\ Unfiled.status = "none"
      /\ [tok \in Tokens |-> NoDelivery] \in [Tokens -> Deliveries]
  BY DEF Unfiled, JobRows, NoDelivery, Deliveries
<1>2. NoRound \in RoundRows
  BY <1>1 DEF NoRound, RoundRows
<1>3. \A tok \in Tokens : token[tok] \in {"absent", "active", "invalidated"}
  BY DEF Init
<1>4. TypeOK
  <2>1. /\ job \in [Jobs -> JobRows] /\ dlv \in [Jobs -> [Tokens -> Deliveries]]
        /\ round \in [Ticks -> RoundRows] /\ tick \in [Ticks -> TickRows]
    BY <1>1, <1>2, IdleTyped DEF Init
  <2>2. token \in [Tokens -> {"absent", "active", "invalidated"}]
    BY <1>3 DEF Init
  <2>3. /\ rang \in [Jobs -> [Tokens -> 0..2]] /\ unsure \in [Jobs -> [Tokens -> BOOLEAN]]
        /\ holder \in [Jobs -> Ticks \cup {NoTick}]
    BY DEF Init
  <2> QED BY <2>1, <2>2, <2>3 DEF Init, TypeOK
<1>5. /\ \A k \in Jobs : ~Held(k) /\ job[k].status = "none"
      /\ \A k \in Jobs, tok \in Tokens : dlv[k][tok].status = "none" /\ rang[k][tok] = 0
      /\ \A t \in Ticks : tick[t].pc = "idle" /\ tick[t].batch = <<>> /\ tick[t].check = NoCheck
      /\ deleted = {} /\ counting = {} /\ spared = {}
  BY <1>1, IdleTyped DEF Init, Held, NoDelivery
<1>6. Holding
  BY <1>5 DEF Holding
<1>7. Batched
  BY <1>5 DEF Batched, BatchedAt, Working, NoCheck
<1>8. Delivered /\ RoundsSound /\ RungOnce
  BY <1>5 DEF Delivered, RoundsSound, RungOnce
<1>9. EndsCover /\ EndReachesRunning
  BY <1>5 DEF EndsCover, EndReachesRunning
<1>10. SparedRang /\ SettledSound
  BY <1>5 DEF SparedRang, SettledSound, WentOut
<1> QED BY <1>4, <1>6, <1>7, <1>8, <1>9, <1>10 DEF IndInv

\* A step of a tick.
LEMMA TickKeeps ==
    ASSUME IndInv, NEW t \in Ticks,
           TickStep(t) \/ Process(t) \/ _release_claimed(t) \/ Raises(t) \/ _process_job_except(t)
    PROVE  IndInv'
<1>1. CASE TickStep(t)
  BY <1>1, _recover_stale_jobsKeeps, _claim_due_jobsKeeps, check_before_sendKeeps,
     _ask_moodleKeeps, _outrankedKeeps, _deliver_roundKeeps, _send_oneKeeps DEF TickStep
<1>2. CASE Process(t)
  BY <1>2, ReclaimedKeeps, HeldBack_submittedKeeps, _held_backKeeps, CheckMissedKeeps,
     HinderedKeeps, _materializeKeeps DEF Process
<1> QED BY <1>1, <1>2, _release_claimedKeeps, RaisesKeeps, _process_job_exceptKeeps

\* A step around the ticks.
LEMMA WorldKeeps ==
    ASSUME IndInv, Next, ~\E t \in Ticks : \/ TickStep(t) \/ Process(t) \/ _release_claimed(t)
                                           \/ Raises(t) \/ _process_job_except(t)
    PROVE  IndInv'
<1>1. ASSUME NEW k \in Jobs,
             \/ file_jobs(k) \/ scan_assignment_reminders(k) \/ sync_schedule_left_out(k)
             \/ cancel_schedule(k) \/ sync_schedule_moved(k) \/ sync_schedule_new(k)
             \/ ComesDue(k) \/ GrowsStale(k) \/ GraceEnds(k) \/ RetryComesDue(k)
      PROVE  IndInv'
  BY <1>1, file_jobsKeeps, scan_assignment_remindersKeeps, sync_schedule_left_outKeeps,
     sync_schedule_movedKeeps, sync_schedule_newKeeps, ComesDueKeeps, GrowsStaleKeeps,
     GraceEndsKeeps, RetryComesDueKeeps DEF cancel_schedule
<1>2. ASSUME NEW k \in Jobs, NEW tok \in Tokens, NEW ahead \in BOOLEAN,
             register_live_activity(k, tok, ahead)
      PROVE  IndInv'
  BY <1>2, register_live_activityKeeps
<1>3. ASSUME NEW d \in Devices, DeleteDevice(d) \/ _cancel_pending_deliveries_for_device(d)
      PROVE  IndInv'
  BY <1>3, DeleteDeviceKeeps, _cancel_pending_deliveries_for_deviceKeeps
<1>4. ASSUME TurnIn \/ Mark \/ RecordSubmission \/ clear_push_queue PROVE IndInv'
  BY <1>4, OutsideKeeps, RecordSubmissionKeeps, clear_push_queueKeeps
<1>5. ASSUME NEW w \in Workers, Crash(w) PROVE IndInv'
  BY <1>5, CrashKeeps
<1> QED BY <1>1, <1>2, <1>3, <1>4, <1>5 DEF Next

LEMMA StutterKeeps ==
    ASSUME IndInv, UNCHANGED vars PROVE IndInv'
<1>1. UNCHANGED <<mix, job, dlv, token, deleted, row, turnedIn, tick, holder, round, crashes, history>>
  BY DEF vars, history
<1>2. TypeOK'
  BY <1>1 DEF IndInv, TypeOK, history
<1>3. \A k \in Jobs : Moves(k)
  BY <1>1, StillMoves
<1>4. Beside /\ TokensDie /\ SparesRung
  BY <1>1, <1>3, JobsMove DEF history
<1> QED BY <1>1, <1>2, <1>4, WorldStep

LEMMA NextKeeps ==
    ASSUME IndInv, [Next]_vars PROVE IndInv'
  BY TickKeeps, WorldKeeps, StutterKeeps

\* The pipeline keeps all of what its rounds rely on: a round holds the row of the job
\* its tick is at, what it may send to was checked and filed for it, and what
\* it committed or rolled back accounts for every push (_process_job,
\* _materialize, _deliver_round and its rollback).
THEOREM PipelineSound == Spec => []IndInv
<1>1. Init => IndInv
  BY InitSound
<1>2. IndInv /\ [Next]_vars => IndInv'
  BY NextKeeps
<1> QED BY <1>1, <1>2, PTL DEF Spec

\* A phone gets a filed push a second time only if the first one's fate is
\* unknown to the database, and a reminder leaves out only phones a countdown
\* start rang, for any number of overlapping ticks and workers, with any batch
\* size and limits (_process_job, _countdown_starts).
THEOREM PushesRingOnce == Spec => []RingsOnce
<1>1. IndInv => RingsOnce
  <2> SUFFICES ASSUME IndInv PROVE RingsOnce
    OBVIOUS
  <2>1. ASSUME NEW k \in Jobs, NEW tok \in Tokens, rang[k][tok] = 2 PROVE unsure[k][tok]
    BY <2>1 DEF IndInv, RungOnce
  <2> QED BY <2>1 DEF RingsOnce, IndInv, SparedRang, StartRang
<1> QED BY <1>1, PipelineSound, PTL

\* A reminder or start rings only after Moodle said the assignment is open, from
\* a round that opened before the submission was recorded, and a push for one
\* device on no other, whichever tick checked it and whichever sent it
\* (presend.py, _materialize).
THEOREM PushesRingAsFiled == Spec => []RingsOnlyAsFiled
<1>1. IndInv => RingsOnlyAsFiled
  BY DEF IndInv, Delivered, Named, RingsOnlyAsFiled
<1> QED BY <1>1, PipelineSound, PTL

\* An end job that went out sent to, or gave up on, every activity that was
\* registered with its countdown ahead (_retire_finished_end_job, _materialize).
THEOREM EndsReach == Spec => []EndReachesRunning
<1>1. IndInv => EndReachesRunning
  BY DEF IndInv
<1> QED BY <1>1, PipelineSound, PTL

\* A job reported as sent reached a phone and left no delivery failed or open,
\* and one reported as partly failed left none open (_deliver_round).
THEOREM OutcomesTruthful == Spec => []OutcomeTruthful
<1>1. IndInv => OutcomeTruthful
  BY DEF IndInv, Delivered, SettledSound, OutcomeTruthful, WentOut, Open
<1> QED BY <1>1, PipelineSound, PTL

=============================================================================
