-------------------------- MODULE AuthSessionsProofs --------------------------
(***************************************************************************)
(* Proofs about AuthSessions, for any requests, any number of sessions and *)
(* any limit on the unused ones.  The properties lean on the shape of the  *)
(* ring (Ringed): the live sessions one token was rotated into follow each *)
(* other by age and the newest links back to the oldest, so the walk from  *)
(* any of them finds them all, and a walk taken again finds nothing but    *)
(* sessions younger than the rows already locked (RequestSound).  What an  *)
(* app may count on when its refreshes are late or doubled is LateInv, an  *)
(* invariant relative to those.                                            *)
(***************************************************************************)
EXTENDS AuthSessions, FiniteSetTheorems, WellFoundedInduction, TLAPS

SessionRows ==
  [status : {"absent", "live", "rotated", "superseded", "expired", "logout",
             "admin_revoked", "pruned"},
   next : Ids \union {NoRow}, used : BOOLEAN, expired : BOOLEAN,
   parent : Ids \union {NoRow}, root : Ids \union {NoRow}]

Born(S) == {s \in Ids : S[s].status # "absent"}
Rivals(S, p) == {s \in Ids : IsLive(S, s) /\ S[s].parent = p}

(* Rows are inserted in the order of their ids.                            *)
InOrder(S) == \E n \in 0..MaxSessions : Born(S) = 1..n

(* Where a row comes from, and where it links to.                          *)
Descends(S) ==
  \A s \in Ids :
    /\ S[s].status = "absent" => S[s] = Absent
    /\ S[s].parent < s /\ S[s].root <= s
    /\ S[s].next \in Born(S) \union {NoRow}
    /\ s \in Born(S) /\ S[s].parent = NoRow => S[s].root = s
    /\ S[s].parent # NoRow => S[s].root = S[S[s].parent].root

(* A rotated token links to the newest session it was rotated into, and a  *)
(* live one was not rotated yet.                                           *)
RotatedLinks(S) ==
  \A s \in Ids :
    /\ S[s].status = "rotated" =>
         /\ S[s].used
         /\ S[s].next # NoRow => S[S[s].next].parent = s
         /\ S[s].next # NoRow => \A t \in Ids : S[t].parent = s => t <= S[s].next
    /\ IsLive(S, s) => \A t \in Ids : S[t].parent # s

(* In the ring of R, s is followed by n: the next younger one, or the      *)
(* oldest after the youngest.                                              *)
FollowedBy(R, s, n) ==
  /\ n \in R
  /\ \/ s < n /\ \A t \in R : t <= s \/ n <= t
     \/ n <= s /\ \A t \in R : n <= t /\ t <= s

Ringed(S) ==
  \A s \in Ids : IsLive(S, s) =>
    /\ S[s].parent = NoRow => S[s].next = NoRow
    /\ S[s].parent # NoRow /\ S[s].next = NoRow => Rivals(S, S[s].parent) = {s}
    /\ S[s].next # NoRow => FollowedBy(Rivals(S, S[s].parent), s, S[s].next)

(* A used session is in no ring, and leaves no live rival.                 *)
UsedIsAlone(S) ==
  /\ \A s \in Ids : IsLive(S, s) /\ S[s].used => S[s].next = NoRow
  /\ \A s, t \in Ids :
       S[t].used /\ IsLive(S, s) /\ S[s].parent = S[t].parent /\ S[s].parent # NoRow
         => s = t

OneRing(S) ==
  \A s, t \in Ids : IsLive(S, s) /\ IsLive(S, t) /\ S[s].root = S[t].root =>
    S[s].parent = S[t].parent

FewRivals(S, k) == \A p \in Ids : Cardinality(Rivals(S, p)) <= k

Sound(S) ==
  /\ S \in [Ids -> SessionRows]
  /\ InOrder(S) /\ Descends(S) /\ RotatedLinks(S) /\ Ringed(S) /\ UsedIsAlone(S)
  /\ OneRing(S)

(***************************************************************************)
(* Requests and removals.                                                  *)
(***************************************************************************)
RequestRows ==
  [kind : {"none", "refresh", "use", "logout"}, target : Ids \union {NoRow},
   phase : {"free", "queued", "own", "contest", "locking", "logout", "done"},
   want : SUBSET Ids, locked : SUBSET Ids,
   answer : {"none", "ok", "refused"}, issued : Ids \union {NoRow}]

RemoverRows ==
  [running : BOOLEAN, want : SUBSET Ids, locked : SUBSET Ids,
   found : BOOLEAN, waited : BOOLEAN, seen : Ids \union {NoRow}]

AuthType ==
  /\ mix \in Mixes /\ req \in [Requests -> RequestRows]
  /\ remover \in RemoverRows
  /\ client \in [held : Ids \union {NoRow}, waiting : Requests \union {NoRequest}]

(* What a request has locked, or is about to, before it walks again.       *)
Claimed(row) == row.locked \union row.want
                \union (IF row.phase = "own" THEN {row.target} ELSE {})

(* A walk taken again finds only sessions younger than those claimed, and  *)
(* rows are locked by age.                                                 *)
RequestSound(S, row) ==
  /\ row.phase # "free" => row.target \in Born(S)
  /\ Claimed(row) \subseteq Born(S)
  /\ row.issued \in Born(S) \union {NoRow}
  /\ row.phase \notin {"contest", "locking"} => row.locked = {}
  /\ row.phase = "locking" <=> row.want # {}
  /\ row.phase = "logout" =>
       row.kind = "logout" /\ S[row.target].used /\ Exists(S, row.target)
  /\ row.phase # "free" =>
       \A x \in _linked_ids(S, row.target) \ Claimed(row), h \in Claimed(row) : h < x
  /\ \A h \in row.locked, x \in row.want : h < x

RequestsSound == \A r \in Requests : RequestSound(sess, req[r])

(* So it is with the passes of a removal.                                  *)
RemovalSound(S, rem) ==
  /\ rem.want \subseteq Born(S) /\ \A s \in rem.locked : s \in Ids /\ Exists(S, s)
  /\ ~rem.running => rem.locked = {} /\ rem.want = {}
  /\ \A x \in Ids \ (rem.locked \union rem.want), h \in rem.locked \union rem.want :
       IsLive(S, x) => h < x
  /\ \A h \in rem.locked, x \in rem.want : h < x

(* A pass that has found nothing so far still waits for the live sessions  *)
(* it does not hold, but for those inserted since it began; these are no   *)
(* rivals of the sessions it holds.                                        *)
PassSound(S, rem) ==
  /\ rem.seen \in Born(S) \union {NoRow}
  /\ rem.waited \/ rem.want = {}
  /\ rem.running /\ ~rem.found =>
       \A s \in Ids : IsLive(S, s) =>
         \/ s \in rem.locked \union rem.want
         \/ /\ rem.waited /\ rem.seen < s
            /\ \A h \in rem.locked :
                 IsLive(S, h) /\ S[h].parent = S[s].parent => S[s].parent = NoRow

(* What a removal has left behind it.                                      *)
CutSound(S, rec) ==
  /\ rec.seen \in Born(S) \union {NoRow}
  /\ rec.done => \A s \in Ids : IsLive(S, s) => rec.overtaken /\ rec.seen < s

Cuts == PassSound(sess, remover) /\ CutSound(sess, removed)

(* No request holds a row a removal holds.                                 *)
Apart == \A r \in Requests : req[r].locked \intersect remover.locked = {}

HeldIsBorn == client.held \in Born(sess) \union {NoRow}

IndInv ==
  /\ AuthType /\ Sound(sess) /\ FewRivals(sess, mix.kept) /\ RequestsSound
  /\ RemovalSound(sess, remover) /\ HeldIsBorn /\ Apart /\ Cuts

(***************************************************************************)
(* The least and the greatest of a set of ids.                             *)
(***************************************************************************)
LEMMA IdsAreNat == Ids \subseteq Nat /\ NoRow \notin Ids /\ NoRow \in Nat /\ MaxSessions \in Nat
BY AuthAssumption DEF Ids, NoRow

LEMMA LessDiffers == \A a, b \in Nat : a < b => a # b
OBVIOUS

LEMMA LeastExists ==
  ASSUME NEW R \in SUBSET Nat, R # {}
  PROVE  \E m \in R : \A t \in R : m <= t
<1> DEFINE L == {r \in Nat \X Nat : r[1] < r[2]}
<1>1. IsWellFoundedOn(L, Nat)
  <2>1. L = OpToRel(<, Nat)
    BY Zenon DEF OpToRel
  <2> QED BY <2>1, NatLessThanWellFounded, Zenon
<1>2. \A x, y \in Nat : <<x, y>> \in L <=> x < y
  OBVIOUS
<1> HIDE DEF L
<1>3. PICK x \in R : \A y \in R : ~(<<y, x>> \in L)
  BY <1>1, WFMin, Zenon
<1>4. ASSUME NEW y \in R PROVE x <= y
  <2>1. x \in Nat /\ y \in Nat
    OBVIOUS
  <2>2. ~(y < x)
    BY <1>2, <1>3, <2>1, Zenon
  <2> QED BY <2>1, <2>2
<1> QED BY <1>3, <1>4, Zenon

LEMMA GreatestExists ==
  ASSUME NEW R \in SUBSET Ids, R # {}
  PROVE  \E m \in R : \A t \in R : t <= m
<1> DEFINE Q == {k \in Ids : MaxSessions + 1 - k \in R}
<1>1. \A t \in R : MaxSessions + 1 - t \in Q /\ t \in Ids
  BY IdsAreNat DEF Ids
<1>2. Q \in SUBSET Nat /\ Q # {}
  BY <1>1, IdsAreNat
<1>3. PICK k \in Q : \A q \in Q : k <= q
  <2> HIDE DEF Q
  <2> QED BY <1>2, LeastExists, Zenon
<1>4. MaxSessions + 1 - k \in R /\ k \in Nat
  BY IdsAreNat
<1>5. ASSUME NEW t \in R PROVE t <= MaxSessions + 1 - k
  BY <1>1, <1>3, <1>4, IdsAreNat
<1> QED BY <1>4, <1>5

(***************************************************************************)
(* The walk.                                                               *)
(***************************************************************************)
Closed(S, start, W) == \A x \in W : Follows(S, start, x) \subseteq W

LEMMA WalkIsLeast ==
  ASSUME NEW S, NEW x, NEW W \in SUBSET Ids, x \in W, Closed(S, x, W)
  PROVE  _linked_ids(S, x) \subseteq W
BY Zenon DEF _linked_ids, Closed

LEMMA WalkIsClosed ==
  ASSUME NEW S \in [Ids -> SessionRows], NEW x \in Ids, Exists(S, x)
  PROVE  /\ x \in _linked_ids(S, x) /\ _linked_ids(S, x) \in SUBSET Ids
         /\ Closed(S, x, _linked_ids(S, x))
<1>1. \A s : s \in _linked_ids(S, x) <=>
        s \in Ids /\ \A W \in SUBSET Ids : x \in W /\ Closed(S, x, W) => s \in W
  BY Zenon DEF _linked_ids, Closed
<1>2. ASSUME NEW y \in _linked_ids(S, x), NEW z \in Follows(S, x, y)
      PROVE  z \in _linked_ids(S, x)
  <2>1. y \in Ids /\ z \in Ids
    <3>1. y \in Ids
      BY <1>1, Zenon
    <3>2. z = S[y].next /\ S[y].next # NoRow
      BY <1>2, Zenon DEF Follows
    <3> QED BY <3>1, <3>2 DEF SessionRows
  <2>2. ASSUME NEW W \in SUBSET Ids, x \in W, Closed(S, x, W) PROVE z \in W
    BY <1>1, <1>2, <2>2, Zenon DEF Closed
  <2> QED BY <1>1, <2>1, <2>2, Zenon
<1> QED BY <1>1, <1>2, Zenon DEF Closed

(* A walk that reaches a live row reaches what is reached from that row.   *)
LEMMA WalkGoesOn ==
  ASSUME NEW S \in [Ids -> SessionRows], NEW x \in Ids, Exists(S, x),
         NEW y \in _linked_ids(S, x), IsLive(S, y)
  PROVE  _linked_ids(S, y) \subseteq _linked_ids(S, x)
<1> DEFINE L == _linked_ids(S, x)
<1>1. L \in SUBSET Ids /\ Closed(S, x, L)
  BY WalkIsClosed
<1>2. ASSUME NEW z \in L PROVE Follows(S, y, z) \subseteq L
  <2>1. Follows(S, y, z) \subseteq Follows(S, x, z)
    BY DEF Follows
  <2> QED BY <1>1, <2>1, Zenon DEF Closed
<1> HIDE DEF L
<1>3. Closed(S, y, L) /\ y \in L
  BY <1>2, Zenon DEF Closed, L
<1> QED BY <1>1, <1>3, WalkIsLeast, Zenon DEF L

LEMMA WalkAlone ==
  ASSUME NEW S \in [Ids -> SessionRows], NEW x \in Ids, Exists(S, x), S[x].next = NoRow
  PROVE  _linked_ids(S, x) = {x}
<1>1. Closed(S, x, {x})
  BY DEF Closed, Follows
<1>2. _linked_ids(S, x) \subseteq {x}
  BY <1>1, WalkIsLeast
<1> QED BY <1>2, WalkIsClosed

(* The rows of a ring are live and follow each other; from each of them    *)
(* the walk finds exactly the ring.                                        *)
IsRing(S, R) == \A y \in R : IsLive(S, y) /\ FollowedBy(R, y, S[y].next)

LEMMA RingIsWalked ==
  ASSUME NEW S, NEW x, NEW R \in SUBSET Ids, x \in R, IsRing(S, R),
         NEW W \in SUBSET Ids, x \in W, Closed(S, x, W)
  PROVE  R \subseteq W
<1> USE IdsAreNat
<1>1. ASSUME NEW y \in R \intersect W PROVE S[y].next \in R \intersect W
  <2>1. S[y].next \in R /\ S[y].next # NoRow /\ IsLive(S, y)
    BY DEF IsRing, FollowedBy
  <2>2. Follows(S, x, y) = {S[y].next}
    BY <2>1 DEF Follows
  <2> QED BY <2>1, <2>2 DEF Closed
<1>2. PICK z \in R \intersect W : \A t \in R \intersect W : t <= z
  <2>1. R \intersect W \in SUBSET Ids /\ R \intersect W # {}
    OBVIOUS
  <2> QED BY <2>1, GreatestExists, Zenon
<1>3. \A t \in R : S[z].next <= t
  <2>1. S[z].next \in R \intersect W /\ z \in R
    BY <1>1
  <2>2. S[z].next <= z /\ z \in Nat /\ S[z].next \in Nat
    BY <1>2, <2>1
  <2> QED BY <2>1, <2>2 DEF IsRing, FollowedBy
<1> DEFINE first == S[z].next
<1>4. first \in R \intersect W
  BY <1>1
<1> HIDE DEF first
<1> SUFFICES ASSUME R \ W # {} PROVE FALSE
  OBVIOUS
<1>5. PICK t \in R \ W : \A u \in R \ W : t <= u
  <2>1. R \ W \in SUBSET Nat
    OBVIOUS
  <2> QED BY <2>1, LeastExists, Zenon
<1> DEFINE B == {y \in R : y < t}
<1>6. first \in B
  <2>1. first <= t
    BY <1>3, <1>5, Zenon DEF first
  <2>2. first # t /\ first \in R /\ first \in Nat /\ t \in Nat
    BY <1>4, <1>5
  <2> QED BY <2>1, <2>2
<1>7. PICK y \in B : \A u \in B : u <= y
  <2>1. B \in SUBSET Ids /\ B # {}
    BY <1>6
  <2> HIDE DEF B
  <2> QED BY <2>1, GreatestExists, Zenon
<1>8. y \in R \intersect W /\ y < t /\ y \in Nat /\ t \in Nat
  <2>1. y \in R /\ y < t /\ y \in Nat /\ t \in Nat
    BY <1>7
  <2> QED BY <1>5, <2>1
<1>9. S[y].next \in R /\ S[y].next \in W /\ S[y].next \in Nat
  BY <1>1, <1>8
<1>10. S[y].next < t => S[y].next <= y
  BY <1>7, <1>9
<1>11. FollowedBy(R, y, S[y].next) /\ t \in R
  BY <1>8 DEF IsRing
<1>12. ~(S[y].next <= y /\ \A u \in R : u <= y)
  BY <1>8, <1>11
<1>13. y < S[y].next /\ S[y].next <= t
  BY <1>8, <1>9, <1>11, <1>12 DEF FollowedBy
<1>14. S[y].next = t
  BY <1>8, <1>9, <1>10, <1>13
<1> QED BY <1>5, <1>9, <1>14

LEMMA WalkOfRing ==
  ASSUME NEW S \in [Ids -> SessionRows], NEW x, NEW R \in SUBSET Ids, x \in R,
         IsRing(S, R)
  PROVE  _linked_ids(S, x) = R
<1>1. Exists(S, x) /\ x \in Ids
  BY DEF IsRing, IsLive, Exists
<1>2. Closed(S, x, R)
  BY DEF Closed, Follows, IsRing, FollowedBy
<1>3. _linked_ids(S, x) \subseteq R
  BY <1>2, WalkIsLeast
<1>4. /\ _linked_ids(S, x) \in SUBSET Ids /\ x \in _linked_ids(S, x)
      /\ Closed(S, x, _linked_ids(S, x))
  BY <1>1, WalkIsClosed
<1>5. R \subseteq _linked_ids(S, x)
  BY <1>4, RingIsWalked, Zenon
<1> QED BY <1>3, <1>5

(* In a sound table, a live session with a successor is in the ring of its *)
(* rivals, and nobody in it was used.                                      *)
LEMMA RingOfRivals ==
  ASSUME NEW S, Sound(S), NEW x \in Ids, IsLive(S, x), S[x].next # NoRow
  PROVE  /\ S[x].parent \in Ids /\ x \in Rivals(S, S[x].parent)
         /\ IsRing(S, Rivals(S, S[x].parent))
         /\ \A y \in Rivals(S, S[x].parent) : S[y].next # NoRow /\ ~S[y].used
         /\ _linked_ids(S, x) = Rivals(S, S[x].parent)
<1> DEFINE p == S[x].parent
           R == Rivals(S, p)
<1>1. S \in [Ids -> SessionRows] /\ Ringed(S) /\ UsedIsAlone(S)
  BY DEF Sound
<1>2. p \in Ids /\ x \in R /\ R \in SUBSET Ids
  <2>1. p # NoRow
    BY <1>1 DEF Ringed
  <2> QED BY <1>1, <2>1 DEF SessionRows, Rivals
<1>3. ASSUME NEW y \in R
      PROVE  IsLive(S, y) /\ S[y].next # NoRow /\ ~S[y].used /\ FollowedBy(R, y, S[y].next)
  <2>1. y \in Ids /\ IsLive(S, y) /\ S[y].parent = p
    BY DEF Rivals
  <2>2. S[y].next # NoRow
    BY <1>1, <1>2, <2>1, IdsAreNat DEF Ringed
  <2>3. FollowedBy(R, y, S[y].next)
    BY <1>1, <2>1, <2>2 DEF Ringed
  <2>4. ~S[y].used
    BY <1>1, <2>1, <2>2 DEF UsedIsAlone
  <2> QED BY <2>1, <2>2, <2>3, <2>4
<1>4. IsRing(S, R)
  BY <1>3 DEF IsRing
<1> HIDE DEF R
<1>5. _linked_ids(S, x) = R
  BY <1>1, <1>2, <1>4, WalkOfRing
<1> QED BY <1>2, <1>3, <1>4, <1>5 DEF R

(***************************************************************************)
(* What every step keeps: rows stay, uses stay, no row comes back to life, *)
(* and a walk reaches nothing new but rows inserted since.                 *)
(***************************************************************************)
Onwards(S, T) ==
  /\ Born(S) \subseteq Born(T)
  /\ \A t \in Born(S) :
       /\ _linked_ids(T, t) \subseteq _linked_ids(S, t) \union (Ids \ Born(S))
       /\ S[t].used => T[t].used
       /\ IsLive(T, t) => IsLive(S, t)
       /\ T[t].parent = S[t].parent

LEMMA OnwardsTwice ==
  ASSUME NEW S, NEW T, NEW U, Onwards(S, T), Onwards(T, U)
  PROVE  Onwards(S, U)
<1>1. Born(S) \subseteq Born(T) /\ Born(T) \subseteq Born(U)
  BY Zenon DEF Onwards
<1>2. ASSUME NEW t \in Born(S)
      PROVE  /\ _linked_ids(U, t) \subseteq _linked_ids(S, t) \union (Ids \ Born(S))
             /\ S[t].used => U[t].used
             /\ IsLive(U, t) => IsLive(S, t)
             /\ U[t].parent = S[t].parent
  <2>1. t \in Born(T)
    BY <1>1
  <2>2. _linked_ids(U, t) \subseteq _linked_ids(T, t) \union (Ids \ Born(T))
    BY <2>1, Zenon DEF Onwards
  <2>3. _linked_ids(T, t) \subseteq _linked_ids(S, t) \union (Ids \ Born(S))
    BY Zenon DEF Onwards
  <2>4. _linked_ids(U, t) \subseteq _linked_ids(S, t) \union (Ids \ Born(S))
    BY <1>1, <2>2, <2>3
  <2>5. /\ S[t].used => U[t].used
        /\ IsLive(U, t) => IsLive(S, t)
        /\ U[t].parent = S[t].parent
    BY <2>1, Zenon DEF Onwards
  <2> QED BY <2>4, <2>5
<1>3. Born(S) \subseteq Born(U)
  BY <1>1
<1> QED BY <1>2, <1>3, Zenon DEF Onwards

LEMMA RivalsCounted ==
  ASSUME NEW S, NEW p
  PROVE  IsFiniteSet(Rivals(S, p)) /\ Cardinality(Rivals(S, p)) \in Nat
<1>1. IsFiniteSet(Ids)
  BY IdsAreNat, FS_Interval DEF Ids
<1>2. Rivals(S, p) \in SUBSET Ids
  BY DEF Rivals
<1>3. IsFiniteSet(Rivals(S, p))
  BY <1>1, <1>2, FS_Subset
<1> QED BY <1>3, FS_CardinalityType

LEMMA FewerRivals ==
  ASSUME NEW S, NEW T, NEW k \in Nat, FewRivals(S, k),
         \A p \in Ids : Rivals(T, p) \subseteq Rivals(S, p)
  PROVE  FewRivals(T, k)
<1>1. ASSUME NEW p \in Ids PROVE Cardinality(Rivals(T, p)) <= k
  <2>1. Cardinality(Rivals(S, p)) <= k
    BY DEF FewRivals
  <2>2. Cardinality(Rivals(T, p)) <= Cardinality(Rivals(S, p))
    BY RivalsCounted, FS_Subset
  <2> QED BY <2>1, <2>2, RivalsCounted
<1> QED BY <1>1 DEF FewRivals

(***************************************************************************)
(* Rows that leave: revoked, expired, signed out or pruned.  Whole rings   *)
(* leave at once, or a session that is in none.                            *)
(***************************************************************************)
LeavesWhole(S, T) ==
  /\ \A s \in Ids :
       /\ T[s].parent = S[s].parent /\ T[s].root = S[s].root /\ T[s].used = S[s].used
       /\ T[s].status = "absent" <=> S[s].status = "absent"
       /\ S[s].status = "absent" => T[s] = S[s]
       /\ T[s].next \in {S[s].next, NoRow}
       /\ IsLive(T, s) => IsLive(S, s) /\ T[s].next = S[s].next
       /\ T[s].status = "rotated" => S[s].status = "rotated"
       /\ Exists(T, s) => Exists(S, s)
  /\ \A s, t \in Ids :
       IsLive(S, s) /\ ~IsLive(T, s) /\ S[s].parent # NoRow
         /\ IsLive(S, t) /\ S[t].parent = S[s].parent => ~IsLive(T, t)

LEMMA LeavingStep ==
  ASSUME NEW S, NEW T \in [Ids -> SessionRows], Sound(S), LeavesWhole(S, T)
  PROVE  /\ Sound(T) /\ Onwards(S, T) /\ Born(T) = Born(S)
         /\ \A p \in Ids : Rivals(T, p) \subseteq Rivals(S, p)
<1>1. S \in [Ids -> SessionRows] /\ \A s \in Ids : S[s] \in SessionRows /\ T[s] \in SessionRows
  BY DEF Sound
<1>2. Born(T) = Born(S)
  BY DEF Born, LeavesWhole
<1>3. \A p \in Ids : Rivals(T, p) \subseteq Rivals(S, p)
  BY DEF Rivals, LeavesWhole
<1>4. InOrder(T)
  BY <1>2 DEF Sound, InOrder
<1>5. Descends(T)
  <2>1. ASSUME NEW s \in Ids
        PROVE  /\ T[s].status = "absent" => T[s] = Absent
               /\ T[s].parent < s /\ T[s].root <= s
               /\ T[s].next \in Born(T) \union {NoRow}
               /\ s \in Born(T) /\ T[s].parent = NoRow => T[s].root = s
    BY <1>2 DEF Sound, Descends, LeavesWhole
  <2>2. ASSUME NEW s \in Ids, T[s].parent # NoRow PROVE T[s].root = T[T[s].parent].root
    <3>1. S[s].parent # NoRow /\ S[s].parent \in Ids /\ T[s].parent = S[s].parent
      BY <1>1, <2>2 DEF LeavesWhole, SessionRows
    <3> QED BY <3>1 DEF Sound, Descends, LeavesWhole
  <2> QED BY <2>1, <2>2 DEF Descends
<1>6. RotatedLinks(T)
  <2>1. ASSUME NEW s \in Ids, T[s].status = "rotated"
        PROVE  /\ T[s].used
               /\ T[s].next # NoRow => T[T[s].next].parent = s
               /\ T[s].next # NoRow => \A t \in Ids : T[t].parent = s => t <= T[s].next
    <3>1. S[s].status = "rotated" /\ T[s].used = S[s].used
          /\ (T[s].next # NoRow => T[s].next = S[s].next)
      BY <2>1 DEF LeavesWhole
    <3>2. /\ S[s].used
          /\ S[s].next # NoRow => S[S[s].next].parent = s
          /\ S[s].next # NoRow => \A t \in Ids : S[t].parent = s => t <= S[s].next
      BY <3>1 DEF Sound, RotatedLinks
    <3>3. S[s].next # NoRow => S[s].next \in Ids
      BY <1>1 DEF SessionRows
    <3> QED BY <3>1, <3>2, <3>3 DEF LeavesWhole
  <2>2. ASSUME NEW s \in Ids, IsLive(T, s), NEW t \in Ids PROVE T[t].parent # s
    BY <2>2 DEF Sound, RotatedLinks, LeavesWhole
  <2> QED BY <2>1, <2>2 DEF RotatedLinks
<1>7. Ringed(T)
  <2>1. ASSUME NEW s \in Ids, IsLive(T, s), S[s].parent # NoRow
        PROVE  Rivals(T, S[s].parent) = Rivals(S, S[s].parent)
    <3>1. ASSUME NEW u \in Rivals(S, S[s].parent) PROVE u \in Rivals(T, S[s].parent)
      BY <2>1, <3>1 DEF LeavesWhole, Rivals
    <3>2. S[s].parent \in Ids
      BY <1>1, <2>1 DEF SessionRows
    <3> QED BY <1>3, <3>1, <3>2
  <2>2. ASSUME NEW s \in Ids, IsLive(T, s)
        PROVE  /\ T[s].parent = NoRow => T[s].next = NoRow
               /\ T[s].parent # NoRow /\ T[s].next = NoRow => Rivals(T, T[s].parent) = {s}
               /\ T[s].next # NoRow => FollowedBy(Rivals(T, T[s].parent), s, T[s].next)
    <3>1. T[s].parent = S[s].parent /\ T[s].next = S[s].next /\ IsLive(S, s)
      BY <2>2 DEF LeavesWhole
    <3>2. /\ S[s].parent = NoRow => S[s].next = NoRow
          /\ S[s].parent # NoRow /\ S[s].next = NoRow => Rivals(S, S[s].parent) = {s}
          /\ S[s].next # NoRow => FollowedBy(Rivals(S, S[s].parent), s, S[s].next)
      BY <3>1 DEF Sound, Ringed
    <3> QED BY <2>1, <2>2, <3>1, <3>2
  <2> QED BY <2>2 DEF Ringed
<1>8. UsedIsAlone(T) /\ OneRing(T)
  BY DEF Sound, UsedIsAlone, OneRing, LeavesWhole
<1>9. ASSUME NEW t \in Born(S)
      PROVE  _linked_ids(T, t) \subseteq _linked_ids(S, t)
  <2>0. t \in Ids
    BY DEF Born
  <2>1. CASE ~Exists(T, t)
    BY <2>1 DEF _linked_ids
  <2>2. CASE Exists(T, t)
    <3> DEFINE W == _linked_ids(S, t)
    <3>1. Exists(S, t)
      BY <2>0, <2>2 DEF LeavesWhole
    <3>2. t \in W /\ W \in SUBSET Ids /\ Closed(S, t, W)
      BY <1>1, <2>0, <3>1, WalkIsClosed
    <3>3. \A x \in Ids : Follows(T, t, x) \subseteq Follows(S, t, x)
      BY DEF LeavesWhole, Follows
    <3> HIDE DEF W
    <3>4. Closed(T, t, W)
      BY <3>2, <3>3 DEF Closed
    <3>5. _linked_ids(T, t) \subseteq W
      BY <3>2, <3>4, WalkIsLeast
    <3> QED BY <3>5 DEF W
  <2> QED BY <2>1, <2>2
<1>10. Onwards(S, T)
  <2>1. \A t \in Born(S) : t \in Ids
    BY DEF Born
  <2>2. \A t \in Born(S) : /\ S[t].used => T[t].used
                           /\ IsLive(T, t) => IsLive(S, t)
                           /\ T[t].parent = S[t].parent
    BY <2>1 DEF LeavesWhole
  <2> QED BY <1>2, <1>9, <2>2 DEF Onwards
<1> QED BY <1>2, <1>3, <1>4, <1>5, <1>6, <1>7, <1>8, <1>10 DEF Sound

(***************************************************************************)
(* A session that is in no ring is used.                                   *)
(***************************************************************************)
UsedAt(S, x) == [S EXCEPT ![x].used = TRUE]

LEMMA UseStep ==
  ASSUME NEW S, NEW T, Sound(S), NEW x \in Ids, IsLive(S, x), S[x].next = NoRow,
         T = UsedAt(S, x)
  PROVE  /\ Sound(T) /\ Onwards(S, T) /\ Born(T) = Born(S)
         /\ \A p \in Ids : Rivals(T, p) = Rivals(S, p)
         /\ \A s \in Ids : T[s].status = S[s].status
         /\ T[x].used
<1>1. S \in [Ids -> SessionRows] /\ \A s \in Ids : S[s] \in SessionRows
  BY DEF Sound
<1>2. T = [s \in Ids |-> IF s = x THEN [S[x] EXCEPT !.used = TRUE] ELSE S[s]]
  BY <1>1 DEF UsedAt
<1>3. T \in [Ids -> SessionRows]
  <2>1. [S[x] EXCEPT !.used = TRUE] \in SessionRows
    <3> DEFINE row == S[x]
    <3>1. row \in SessionRows
      BY <1>1
    <3> HIDE DEF row
    <3>2. [row EXCEPT !.used = TRUE] \in SessionRows
      BY <3>1 DEF SessionRows
    <3> QED BY <3>2 DEF row
  <2> QED BY <1>1, <1>2, <2>1
<1>4. \A s \in Ids : /\ T[s].status = S[s].status /\ T[s].next = S[s].next
                     /\ T[s].parent = S[s].parent /\ T[s].root = S[s].root
                     /\ s # x => T[s] = S[s]
                     /\ S[s].used => T[s].used
  BY <1>1, <1>2 DEF SessionRows
<1>5. S[x].status = "live" /\ T[x].used
  BY <1>1, <1>2 DEF IsLive, SessionRows
<1>6. Born(T) = Born(S) /\ \A p \in Ids : Rivals(T, p) = Rivals(S, p)
  BY <1>4 DEF Born, Rivals, IsLive
<1>7. InOrder(T)
  BY <1>6 DEF Sound, InOrder
<1>8. Descends(T)
  <2>1. ASSUME NEW s \in Ids
        PROVE  /\ T[s].status = "absent" => T[s] = Absent
               /\ T[s].parent < s /\ T[s].root <= s
               /\ T[s].next \in Born(T) \union {NoRow}
               /\ s \in Born(T) /\ T[s].parent = NoRow => T[s].root = s
    BY <1>4, <1>5, <1>6 DEF Sound, Descends
  <2>2. ASSUME NEW s \in Ids, T[s].parent # NoRow PROVE T[s].root = T[T[s].parent].root
    <3>1. S[s].parent # NoRow /\ S[s].parent \in Ids
      BY <1>1, <1>4, <2>2 DEF SessionRows
    <3> QED BY <1>4, <3>1 DEF Sound, Descends
  <2> QED BY <2>1, <2>2 DEF Descends
<1>9. RotatedLinks(T)
  <2>1. ASSUME NEW s \in Ids, T[s].status = "rotated"
        PROVE  /\ T[s].used
               /\ T[s].next # NoRow => T[T[s].next].parent = s
               /\ T[s].next # NoRow => \A t \in Ids : T[t].parent = s => t <= T[s].next
    <3>1. S[s].status = "rotated" /\ T[s] = S[s]
      BY <1>4, <1>5, <2>1
    <3>2. S[s].next # NoRow => S[s].next \in Ids
      BY <1>1 DEF SessionRows
    <3> QED BY <1>4, <3>1, <3>2 DEF Sound, RotatedLinks
  <2>2. ASSUME NEW s \in Ids, IsLive(T, s), NEW t \in Ids PROVE T[t].parent # s
    BY <1>4, <2>2 DEF Sound, RotatedLinks, IsLive
  <2> QED BY <2>1, <2>2 DEF RotatedLinks
<1>10. Ringed(T)
  <2>1. ASSUME NEW s \in Ids, IsLive(T, s)
        PROVE  /\ T[s].parent = NoRow => T[s].next = NoRow
               /\ T[s].parent # NoRow /\ T[s].next = NoRow => Rivals(T, T[s].parent) = {s}
               /\ T[s].next # NoRow => FollowedBy(Rivals(T, T[s].parent), s, T[s].next)
    <3>1. T[s].parent = S[s].parent /\ T[s].next = S[s].next /\ IsLive(S, s)
      BY <1>4, <2>1 DEF IsLive
    <3>2. /\ S[s].parent = NoRow => S[s].next = NoRow
          /\ S[s].parent # NoRow /\ S[s].next = NoRow => Rivals(S, S[s].parent) = {s}
          /\ S[s].next # NoRow => FollowedBy(Rivals(S, S[s].parent), s, S[s].next)
      BY <3>1 DEF Sound, Ringed
    <3>3. S[s].parent \in Ids \union {NoRow}
      BY <1>1 DEF SessionRows
    <3> QED BY <1>6, <3>1, <3>2, <3>3
  <2> QED BY <2>1 DEF Ringed
<1>11. UsedIsAlone(T)
  <2>1. ASSUME NEW s \in Ids, IsLive(T, s), T[s].used PROVE T[s].next = NoRow
    BY <1>4, <2>1 DEF Sound, UsedIsAlone, IsLive
  <2>2. ASSUME NEW s \in Ids, NEW t \in Ids, T[t].used, IsLive(T, s),
               T[s].parent = T[t].parent, T[s].parent # NoRow
        PROVE  s = t
    <3>1. IsLive(S, s) /\ S[s].parent = S[t].parent /\ S[s].parent # NoRow
      BY <1>4, <2>2 DEF IsLive
    <3>2. CASE t = x
      <4>1. Rivals(S, S[x].parent) = {x}
        BY <3>1, <3>2 DEF Sound, Ringed
      <4>2. s \in Rivals(S, S[x].parent)
        BY <3>1, <3>2 DEF Rivals
      <4> QED BY <3>2, <4>1, <4>2
    <3>3. CASE t # x
      BY <1>4, <2>2, <3>1, <3>3 DEF Sound, UsedIsAlone
    <3> QED BY <3>2, <3>3
  <2> QED BY <2>1, <2>2 DEF UsedIsAlone
<1>12. OneRing(T)
  BY <1>4 DEF Sound, OneRing, IsLive
<1>13. Sound(T)
  BY <1>3, <1>7, <1>8, <1>9, <1>10, <1>11, <1>12 DEF Sound
<1>14. ASSUME NEW t \in Born(S) PROVE _linked_ids(T, t) = _linked_ids(S, t)
  <2>1. t \in Ids
    BY DEF Born
  <2>2. ASSUME NEW y \in Ids PROVE Follows(T, t, y) = Follows(S, t, y)
    <3>1. T[y].next = S[y].next /\ (IsLive(T, y) <=> IsLive(S, y))
      BY <1>4 DEF IsLive
    <3> QED BY <3>1 DEF Follows
  <2>3. Exists(T, t) = Exists(S, t)
    BY <1>4, <2>1 DEF Exists
  <2>4. \A W \in SUBSET Ids : (\A y \in W : Follows(T, t, y) \subseteq W)
                              <=> (\A y \in W : Follows(S, t, y) \subseteq W)
    BY <2>2
  <2> QED BY <2>3, <2>4, Zenon DEF _linked_ids
<1>15. Onwards(S, T)
  <2>1. \A t \in Born(S) : t \in Ids
    BY DEF Born
  <2> QED BY <1>4, <1>6, <1>14, <2>1 DEF Onwards, IsLive
<1> QED BY <1>4, <1>5, <1>6, <1>13, <1>15

(***************************************************************************)
(* settle_contest: the ring of the winner is superseded but for itself.    *)
(***************************************************************************)
LEMMA SettledRows ==
  ASSUME NEW S, Sound(S), NEW w \in Ids, IsLive(S, w), S[w].next # NoRow
  PROVE  settle_contest(S, w) =
           [s \in Ids |-> IF s = w THEN [S[w] EXCEPT !.next = NoRow]
                          ELSE IF s \in Rivals(S, S[w].parent)
                               THEN [S[s] EXCEPT !.status = "superseded", !.next = w]
                               ELSE S[s]]
<1> DEFINE R == Rivals(S, S[w].parent)
           C == [S EXCEPT ![w].next = NoRow]
<1>1. S \in [Ids -> SessionRows]
  BY DEF Sound
<1>2. _linked_ids(S, w) = R /\ \A y \in R : IsLive(S, y) /\ ~S[y].used
  BY RingOfRivals DEF IsRing
<1> HIDE DEF R
<1>3. C = [s \in Ids |-> IF s = w THEN [S[w] EXCEPT !.next = NoRow] ELSE S[s]]
  BY <1>1
<1>4. settle_contest(S, w) = _supersede(C, R \ {w}, w)
  BY <1>2 DEF settle_contest
<1> HIDE DEF C
<1>5. \A s \in Ids : s # w => C[s] = S[s]
  BY <1>3
<1>6. \A s \in Ids : s \in R \ {w} => IsLive(C, s) /\ ~C[s].used
  BY <1>2, <1>5 DEF IsLive
<1>7. _supersede(C, R \ {w}, w) =
        [s \in Ids |-> IF s \in R \ {w} THEN [C[s] EXCEPT !.status = "superseded", !.next = w]
                       ELSE C[s]]
  BY <1>6 DEF _supersede
<1> QED BY <1>3, <1>4, <1>7 DEF R

LEMMA SettleStep ==
  ASSUME NEW S, NEW T, Sound(S), NEW w \in Ids, IsLive(S, w), S[w].next # NoRow,
         T = settle_contest(S, w)
  PROVE  /\ Sound(T) /\ Onwards(S, T) /\ Born(T) = Born(S)
         /\ \A p \in Ids : Rivals(T, p) \subseteq Rivals(S, p)
         /\ \A s \in Ids : Exists(S, s) => Exists(T, s)
         /\ IsLive(T, w) /\ T[w].next = NoRow
         /\ T[w].root = S[w].root /\ T[w].parent = S[w].parent
<1> DEFINE q == S[w].parent
           R == Rivals(S, q)
           lost(s) == [S[s] EXCEPT !.status = "superseded", !.next = w]
           won == [S[w] EXCEPT !.next = NoRow]
<1>1. S \in [Ids -> SessionRows] /\ \A s \in Ids : S[s] \in SessionRows
  BY DEF Sound
<1>2. q \in Ids /\ w \in R /\ IsRing(S, R) /\ _linked_ids(S, w) = R
      /\ \A y \in R : S[y].next # NoRow /\ ~S[y].used
  BY RingOfRivals
<1>3. T = [s \in Ids |-> IF s = w THEN won ELSE IF s \in R THEN lost(s) ELSE S[s]]
  BY SettledRows
<1>4. won \in SessionRows /\ \A s \in Ids : lost(s) \in SessionRows
  <2>1. ASSUME NEW row \in SessionRows
        PROVE  /\ [row EXCEPT !.next = NoRow] \in SessionRows
               /\ [row EXCEPT !.status = "superseded", !.next = w] \in SessionRows
    BY DEF SessionRows
  <2> QED BY <1>1, <2>1
<1>5. T \in [Ids -> SessionRows]
  BY <1>1, <1>3, <1>4
<1>6. R = {s \in Ids : S[s].status = "live" /\ S[s].parent = q}
  BY DEF Rivals, IsLive
<1>7. \A s \in Ids : /\ T[s].parent = S[s].parent /\ T[s].root = S[s].root
                     /\ T[s].used = S[s].used
                     /\ s \notin R => T[s] = S[s]
                     /\ s \in R /\ s # w => T[s].status = "superseded" /\ T[s].next = w
  <2>1. ASSUME NEW s \in Ids, s \notin R
        PROVE  T[s] = S[s]
    BY <1>2, <1>3, <2>1
  <2>2. T[w] = won /\ won.parent = S[w].parent /\ won.root = S[w].root /\ won.used = S[w].used
    BY <1>1, <1>3 DEF SessionRows
  <2>3. ASSUME NEW s \in Ids, s \in R, s # w
        PROVE  /\ T[s] = lost(s)
               /\ lost(s).parent = S[s].parent /\ lost(s).root = S[s].root
               /\ lost(s).used = S[s].used
               /\ lost(s).status = "superseded" /\ lost(s).next = w
    BY <1>1, <1>3, <2>3 DEF SessionRows
  <2> HIDE DEF R, won, lost
  <2> QED BY <1>2, <2>1, <2>2, <2>3
<1>8. T[w].status = "live" /\ T[w].next = NoRow
  <2>1. S[w].status = "live" /\ S[w] \in SessionRows
    BY <1>1 DEF IsLive
  <2> QED BY <1>3, <2>1 DEF SessionRows
<1> HIDE DEF R, lost, won, q
<1>9. \A s \in Ids : IsLive(T, s) => IsLive(S, s) /\ (s = w \/ (s \notin R /\ T[s] = S[s]))
  <2>1. ASSUME NEW s \in Ids, IsLive(T, s), s # w
        PROVE  IsLive(S, s) /\ s \notin R /\ T[s] = S[s]
    BY <1>7, <2>1 DEF IsLive
  <2>2. ASSUME NEW s \in Ids, s = w PROVE IsLive(S, s)
    BY <2>2
  <2> QED BY <2>1, <2>2
<1>10. Born(T) = Born(S)
  BY <1>6, <1>7, <1>8, <1>2 DEF Born
<1>11. \A p \in Ids : /\ Rivals(T, p) \subseteq Rivals(S, p)
                      /\ p # q => Rivals(T, p) = Rivals(S, p)
  <2>1. \A p \in Ids : Rivals(T, p) \subseteq Rivals(S, p)
    BY <1>7, <1>9 DEF Rivals
  <2>2. ASSUME NEW p \in Ids, p # q, NEW s \in Rivals(S, p) PROVE s \in Rivals(T, p)
    <3>1. s \in Ids /\ IsLive(S, s) /\ S[s].parent = p
      BY DEF Rivals
    <3>2. s \notin R
      BY <1>6, <2>2, <3>1
    <3> QED BY <1>7, <3>1, <3>2 DEF Rivals, IsLive
  <2> QED BY <2>1, <2>2
<1>12. Rivals(T, q) = {w}
  <2>1. \A s \in Ids : IsLive(T, s) /\ T[s].parent = q => s = w
    BY <1>6, <1>7, <1>9 DEF IsLive
  <2>2. IsLive(T, w) /\ T[w].parent = q
    BY <1>7, <1>8 DEF IsLive, q
  <2> QED BY <2>1, <2>2 DEF Rivals
<1>13. InOrder(T)
  BY <1>10 DEF Sound, InOrder
<1>14. Descends(T)
  <2>1. ASSUME NEW s \in Ids
        PROVE  /\ T[s].status = "absent" => T[s] = Absent
               /\ T[s].parent < s /\ T[s].root <= s
               /\ T[s].next \in Born(T) \union {NoRow}
               /\ s \in Born(T) /\ T[s].parent = NoRow => T[s].root = s
    <3>1. /\ S[s].status = "absent" => S[s] = Absent
          /\ S[s].parent < s /\ S[s].root <= s
          /\ S[s].next \in Born(S) \union {NoRow}
          /\ s \in Born(S) /\ S[s].parent = NoRow => S[s].root = s
      BY DEF Sound, Descends
    <3>2. w \in Born(S)
      BY DEF Born, IsLive
    <3> QED BY <1>7, <1>8, <1>10, <3>1, <3>2
  <2>2. ASSUME NEW s \in Ids, T[s].parent # NoRow PROVE T[s].root = T[T[s].parent].root
    <3>1. S[s].parent # NoRow /\ S[s].parent \in Ids
      BY <1>1, <1>7, <2>2 DEF SessionRows
    <3> QED BY <1>7, <3>1 DEF Sound, Descends
  <2> QED BY <2>1, <2>2 DEF Descends
<1>15. RotatedLinks(T)
  <2>1. ASSUME NEW s \in Ids, T[s].status = "rotated"
        PROVE  /\ T[s].used
               /\ T[s].next # NoRow => T[T[s].next].parent = s
               /\ T[s].next # NoRow => \A t \in Ids : T[t].parent = s => t <= T[s].next
    <3>1. S[s].status = "rotated" /\ T[s] = S[s]
      BY <1>2, <1>7, <1>8, <2>1
    <3>2. S[s].next # NoRow => S[s].next \in Ids
      BY <1>1 DEF SessionRows
    <3> QED BY <1>7, <3>1, <3>2 DEF Sound, RotatedLinks
  <2>2. ASSUME NEW s \in Ids, IsLive(T, s), NEW t \in Ids PROVE T[t].parent # s
    BY <1>7, <1>9, <2>2 DEF Sound, RotatedLinks
  <2> QED BY <2>1, <2>2 DEF RotatedLinks
<1>16. Ringed(T)
  <2>1. ASSUME NEW s \in Ids, IsLive(T, s)
        PROVE  /\ T[s].parent = NoRow => T[s].next = NoRow
               /\ T[s].parent # NoRow /\ T[s].next = NoRow => Rivals(T, T[s].parent) = {s}
               /\ T[s].next # NoRow => FollowedBy(Rivals(T, T[s].parent), s, T[s].next)
    <3>1. CASE s = w
      BY <1>7, <1>8, <1>12, <3>1 DEF q
    <3>2. CASE s # w
      <4>1. s \notin R /\ T[s] = S[s] /\ IsLive(S, s)
        BY <1>9, <2>1, <3>2
      <4>2. S[s].parent # q
        BY <1>6, <4>1 DEF IsLive
      <4>3. /\ S[s].parent = NoRow => S[s].next = NoRow
            /\ S[s].parent # NoRow /\ S[s].next = NoRow => Rivals(S, S[s].parent) = {s}
            /\ S[s].next # NoRow => FollowedBy(Rivals(S, S[s].parent), s, S[s].next)
        BY <4>1 DEF Sound, Ringed
      <4>4. S[s].parent \in Ids \union {NoRow}
        BY <1>1 DEF SessionRows
      <4> QED BY <1>11, <4>1, <4>2, <4>3, <4>4
    <3> QED BY <3>1, <3>2
  <2> QED BY <2>1 DEF Ringed
<1>17. UsedIsAlone(T)
  <2>1. ASSUME NEW s \in Ids, IsLive(T, s), T[s].used PROVE T[s].next = NoRow
    BY <1>7, <1>8, <1>9, <2>1 DEF Sound, UsedIsAlone
  <2>2. ASSUME NEW s \in Ids, NEW t \in Ids, T[t].used, IsLive(T, s),
               T[s].parent = T[t].parent, T[s].parent # NoRow
        PROVE  s = t
    BY <1>7, <1>9, <2>2 DEF Sound, UsedIsAlone
  <2> QED BY <2>1, <2>2 DEF UsedIsAlone
<1>18. OneRing(T)
  BY <1>7, <1>9 DEF Sound, OneRing
<1>19. Sound(T)
  BY <1>5, <1>13, <1>14, <1>15, <1>16, <1>17, <1>18 DEF Sound
<1>20. \A s \in Ids : Exists(S, s) <=> Exists(T, s)
  BY <1>6, <1>7, <1>8 DEF Exists
<1>21. ASSUME NEW t \in Born(S)
       PROVE  _linked_ids(T, t) \subseteq _linked_ids(S, t)
  <2>0. t \in Ids
    BY DEF Born
  <2>1. CASE ~Exists(T, t)
    BY <2>1 DEF _linked_ids
  <2>2. CASE Exists(T, t)
    <3> DEFINE W == _linked_ids(S, t)
    <3>1. Exists(S, t)
      BY <1>20, <2>0, <2>2
    <3>2. t \in W /\ W \in SUBSET Ids /\ Closed(S, t, W)
      BY <1>1, <2>0, <3>1, WalkIsClosed
    <3>3. t \in R => w \in W
      <4>1. SUFFICES ASSUME t \in R PROVE w \in W
        OBVIOUS
      <4>2. W = R
        BY <1>1, <1>2, <1>6, <4>1, WalkOfRing
      <4> QED BY <1>2, <4>2
    <3> HIDE DEF W
    <3>4. ASSUME NEW x \in W PROVE Follows(T, t, x) \subseteq W
      <4>1. x \in Ids /\ Follows(S, t, x) \subseteq W
        BY <3>2 DEF Closed
      <4>2. CASE x = w
        BY <1>8, <4>2 DEF Follows
      <4>3. CASE x \in R /\ x # w
        <5>1. ~IsLive(T, x) /\ T[x].next = w
          BY <1>7, <4>1, <4>3 DEF IsLive
        <5> QED BY <3>3, <4>3, <5>1 DEF Follows
      <4>4. CASE x \notin R
        <5>1. T[x] = S[x]
          BY <1>7, <4>1, <4>4
        <5> QED BY <4>1, <5>1 DEF Follows, IsLive
      <4> QED BY <4>2, <4>3, <4>4
    <3>5. Closed(T, t, W)
      BY <3>4 DEF Closed
    <3>6. _linked_ids(T, t) \subseteq W
      BY <3>2, <3>5, WalkIsLeast
    <3> QED BY <3>6 DEF W
  <2> QED BY <2>1, <2>2
<1>22. Onwards(S, T)
  <2>1. \A t \in Born(S) : t \in Ids
    BY DEF Born
  <2> QED BY <1>7, <1>9, <1>10, <1>21, <2>1 DEF Onwards
<1> QED BY <1>7, <1>8, <1>10, <1>11, <1>19, <1>20, <1>22 DEF IsLive

(***************************************************************************)
(* _rotate a session that is in no ring, or out of its ring.               *)
(***************************************************************************)
LEMMA IssuedRow ==
  ASSUME NEW p \in Ids \union {NoRow}, NEW r \in Ids \union {NoRow}
  PROVE  /\ Issued(p, r) \in SessionRows
         /\ Issued(p, r).status = "live" /\ Issued(p, r).next = NoRow
         /\ ~Issued(p, r).used /\ ~Issued(p, r).expired
         /\ Issued(p, r).parent = p /\ Issued(p, r).root = r
<1>1. Absent \in SessionRows /\ ~Absent.used /\ ~Absent.expired /\ Absent.next = NoRow
  BY DEF Absent, SessionRows
<1>2. ASSUME NEW a \in SessionRows
      PROVE  LET n == [a EXCEPT !.status = "live", !.parent = p, !.root = r]
             IN  /\ n \in SessionRows
                 /\ n.status = "live" /\ n.next = a.next /\ n.used = a.used
                 /\ n.expired = a.expired /\ n.parent = p /\ n.root = r
  BY DEF SessionRows
<1> QED BY <1>1, <1>2 DEF Issued

LEMMA RotateStep ==
  ASSUME NEW S, NEW T, Sound(S), NEW old \in Ids, IsLive(S, old), S[old].next = NoRow,
         NEW new \in Ids, Born(S) = 1..(new - 1),
         T = [S EXCEPT ![new] = Issued(old, S[old].root),
                       ![old].status = "rotated", ![old].next = new, ![old].used = TRUE]
  PROVE  /\ Sound(T) /\ Onwards(S, T) /\ Born(T) = 1..new
         /\ Rivals(T, old) = {new} /\ T[new].parent = old
         /\ \A p \in Ids : p # old => Rivals(T, p) \subseteq Rivals(S, p)
         /\ \A s \in Ids : Exists(S, s) => Exists(T, s)
<1> DEFINE issued == Issued(old, S[old].root)
           gone == [S[old] EXCEPT !.status = "rotated", !.next = new, !.used = TRUE]
<1> USE IdsAreNat
<1>1. S \in [Ids -> SessionRows] /\ \A s \in Ids : S[s] \in SessionRows
  BY DEF Sound
<1>2. old \in Born(S) /\ old < new /\ old # new /\ new \notin Born(S)
  BY DEF Born, IsLive
<1>3. T = [s \in Ids |-> IF s = old THEN gone ELSE IF s = new THEN issued ELSE S[s]]
  BY <1>1, <1>2
<1>4. issued \in SessionRows /\ gone \in SessionRows
  <2>1. ASSUME NEW row \in SessionRows
        PROVE  [row EXCEPT !.status = "rotated", !.next = new, !.used = TRUE] \in SessionRows
    BY DEF SessionRows
  <2>2. S[old].root \in Ids \union {NoRow}
    BY <1>1 DEF SessionRows
  <2> QED BY <1>1, <2>1, <2>2, IssuedRow
<1>5. T \in [Ids -> SessionRows]
  BY <1>1, <1>3, <1>4
<1>6. /\ \A s \in Ids : s # new /\ s # old => T[s] = S[s]
      /\ T[new].status = "live" /\ T[new].next = NoRow /\ ~T[new].used
      /\ T[new].parent = old /\ T[new].root = S[old].root
      /\ T[old].status = "rotated" /\ T[old].next = new /\ T[old].used
      /\ T[old].parent = S[old].parent /\ T[old].root = S[old].root
  <2>1. T[new] = issued /\ T[old] = gone /\ \A s \in Ids : s # new /\ s # old => T[s] = S[s]
    BY <1>2, <1>3
  <2>2. /\ gone.status = "rotated" /\ gone.next = new /\ gone.used
        /\ gone.parent = S[old].parent /\ gone.root = S[old].root
    BY <1>1 DEF SessionRows
  <2>3. /\ issued.status = "live" /\ issued.next = NoRow /\ ~issued.used
        /\ issued.parent = old /\ issued.root = S[old].root
    <3>1. S[old].root \in Ids \union {NoRow}
      BY <1>1 DEF SessionRows
    <3> QED BY <3>1, IssuedRow
  <2> HIDE DEF issued, gone
  <2> QED BY <2>1, <2>2, <2>3
<1> HIDE DEF issued, gone
<1>7. \A s \in Ids : s \notin Born(S) => S[s] = Absent
  BY DEF Sound, Descends, Born
<1>8. \A s \in Ids : s # new => T[s].parent = S[s].parent /\ T[s].root = S[s].root
  BY <1>6
<1>9. \A t \in Ids : S[t].parent # old /\ S[t].parent # new
  <2>1. \A t \in Ids : S[t].parent # old
    BY DEF Sound, RotatedLinks
  <2>2. ASSUME NEW t \in Ids, S[t].parent = new PROVE FALSE
    <3>1. S[t].parent < t
      BY DEF Sound, Descends
    <3>2. t \notin Born(S)
      BY <2>2, <3>1
    <3>3. S[t].parent = NoRow
      BY <1>7, <3>2 DEF Absent
    <3> QED BY <2>2, <3>3
  <2> QED BY <2>1, <2>2
<1>10. \A s \in Ids : IsLive(T, s) => s = new \/ (IsLive(S, s) /\ s # old /\ T[s] = S[s])
  BY <1>6 DEF IsLive
<1>11. Born(T) = Born(S) \union {new} /\ Born(T) = 1..new
  <2>1. Born(T) = Born(S) \union {new}
    BY <1>2, <1>6 DEF Born
  <2>2. (1..(new - 1)) \union {new} = 1..new
    BY DEF Ids
  <2> QED BY <2>1, <2>2
<1>12. \A s \in Ids : IsLive(S, s) /\ S[s].parent = S[old].parent => s = old \/ S[old].parent = NoRow
  <2>1. ASSUME NEW s \in Ids, IsLive(S, s), S[s].parent = S[old].parent, S[old].parent # NoRow
        PROVE  s = old
    <3>1. Rivals(S, S[old].parent) = {old}
      BY <2>1 DEF Sound, Ringed
    <3>2. s \in Rivals(S, S[old].parent)
      BY <2>1 DEF Rivals
    <3> QED BY <3>1, <3>2
  <2> QED BY <2>1
<1>13. Rivals(T, old) = {new}
  <2>1. \A s \in Ids : IsLive(T, s) /\ T[s].parent = old => s = new
    BY <1>8, <1>9
  <2> QED BY <1>6, <2>1 DEF Rivals, IsLive
<1>14. \A p \in Ids : p # old => /\ Rivals(T, p) \subseteq Rivals(S, p)
                                 /\ p # S[old].parent => Rivals(T, p) = Rivals(S, p)
  <2>1. ASSUME NEW p \in Ids, p # old, NEW s \in Rivals(T, p) PROVE s \in Rivals(S, p)
    BY <1>6, <1>10, <2>1 DEF Rivals
  <2>2. ASSUME NEW p \in Ids, p # old, p # S[old].parent, NEW s \in Rivals(S, p)
        PROVE  s \in Rivals(T, p)
    <3>1. s \in Ids /\ IsLive(S, s) /\ S[s].parent = p /\ s \in Born(S)
      BY DEF Rivals, Born, IsLive
    <3>2. s # old /\ s # new
      BY <1>2, <2>2, <3>1
    <3> QED BY <1>6, <3>1, <3>2 DEF Rivals, IsLive
  <2> QED BY <2>1, <2>2
<1>15. InOrder(T)
  <2>1. new \in 0..MaxSessions
    BY DEF Ids
  <2> QED BY <1>11, <2>1 DEF InOrder
<1>16. Descends(T)
  <2>1. ASSUME NEW s \in Ids
        PROVE  /\ T[s].status = "absent" => T[s] = Absent
               /\ T[s].parent < s /\ T[s].root <= s
               /\ T[s].next \in Born(T) \union {NoRow}
               /\ s \in Born(T) /\ T[s].parent = NoRow => T[s].root = s
    <3>1. /\ S[s].status = "absent" => S[s] = Absent
          /\ S[s].parent < s /\ S[s].root <= s
          /\ S[s].next \in Born(S) \union {NoRow}
          /\ s \in Born(S) /\ S[s].parent = NoRow => S[s].root = s
      BY DEF Sound, Descends
    <3>2. S[old].root <= old /\ S[old].root \in Nat
      BY <1>1 DEF Sound, Descends, SessionRows
    <3>3. CASE s = new
      <4>1. old \in Nat /\ new \in Nat /\ old # NoRow
        OBVIOUS
      <4>2. S[old].root <= new
        BY <1>2, <3>2, <4>1
      <4> QED BY <1>2, <1>6, <3>3, <4>1, <4>2, ZenonT(60)
    <3>4. CASE s = old
      BY <1>2, <1>6, <1>11, <3>1, <3>4
    <3>5. CASE s # new /\ s # old
      BY <1>6, <1>11, <3>1, <3>5
    <3> QED BY <3>3, <3>4, <3>5
  <2>2. ASSUME NEW s \in Ids, T[s].parent # NoRow PROVE T[s].root = T[T[s].parent].root
    <3>1. CASE s = new
      BY <1>6, <3>1
    <3>2. CASE s # new
      <4>1. S[s].parent # NoRow /\ S[s].parent \in Ids /\ S[s].parent # new
        BY <1>1, <1>8, <1>9, <2>2, <3>2 DEF SessionRows
      <4> QED BY <1>8, <3>2, <4>1 DEF Sound, Descends
    <3> QED BY <3>1, <3>2
  <2> QED BY <2>1, <2>2 DEF Descends
<1>17. RotatedLinks(T)
  <2>1. ASSUME NEW s \in Ids, T[s].status = "rotated"
        PROVE  /\ T[s].used
               /\ T[s].next # NoRow => T[T[s].next].parent = s
               /\ T[s].next # NoRow => \A t \in Ids : T[t].parent = s => t <= T[s].next
    <3>1. CASE s = old
      <4>1. \A t \in Ids : T[t].parent = old => t = new
        BY <1>8, <1>9
      <4>2. new <= new
        OBVIOUS
      <4> QED BY <1>6, <3>1, <4>1, <4>2
    <3>2. CASE s # old
      <4>1. S[s].status = "rotated" /\ T[s] = S[s]
        BY <1>6, <2>1, <3>2
      <4>2. S[s].next # NoRow => S[s].next \in Born(S)
        BY DEF Sound, Descends
      <4>3. S[s].next # NoRow => S[s].next \in Ids /\ S[s].next # new
        BY <1>2, <4>2 DEF Born
      <4>4. /\ S[s].used
            /\ S[s].next # NoRow => S[S[s].next].parent = s
            /\ S[s].next # NoRow => \A t \in Ids : S[t].parent = s => t <= S[s].next
        BY <4>1 DEF Sound, RotatedLinks
      <4>5. \A t \in Ids : T[t].parent = s => S[t].parent = s
        BY <1>6, <1>8, <3>2
      <4> QED BY <1>8, <4>1, <4>3, <4>4, <4>5, ZenonT(60)
    <3> QED BY <3>1, <3>2
  <2>2. ASSUME NEW s \in Ids, IsLive(T, s), NEW t \in Ids PROVE T[t].parent # s
    <3>1. CASE s = new
      BY <1>2, <1>6, <1>8, <1>9, <3>1
    <3>2. CASE s # new
      <4>1. IsLive(S, s) /\ s # old
        BY <1>10, <2>2, <3>2
      <4>2. S[t].parent # s
        BY <2>2, <4>1 DEF Sound, RotatedLinks
      <4>3. CASE t = new
        BY <1>6, <4>1, <4>3
      <4>4. CASE t # new
        BY <1>8, <4>2, <4>4
      <4> QED BY <4>3, <4>4
    <3> QED BY <3>1, <3>2
  <2> QED BY <2>1, <2>2 DEF RotatedLinks
<1>18. Ringed(T)
  <2>1. ASSUME NEW s \in Ids, IsLive(T, s)
        PROVE  /\ T[s].parent = NoRow => T[s].next = NoRow
               /\ T[s].parent # NoRow /\ T[s].next = NoRow => Rivals(T, T[s].parent) = {s}
               /\ T[s].next # NoRow => FollowedBy(Rivals(T, T[s].parent), s, T[s].next)
    <3>1. CASE s = new
      BY <1>6, <1>13, <3>1
    <3>2. CASE s # new
      <4>1. IsLive(S, s) /\ s # old /\ T[s] = S[s]
        BY <1>10, <2>1, <3>2
      <4>2. /\ S[s].parent = NoRow => S[s].next = NoRow
            /\ S[s].parent # NoRow /\ S[s].next = NoRow => Rivals(S, S[s].parent) = {s}
            /\ S[s].next # NoRow => FollowedBy(Rivals(S, S[s].parent), s, S[s].next)
        BY <4>1 DEF Sound, Ringed
      <4>3. S[s].parent \in Ids \union {NoRow} /\ S[s].parent # old
        BY <1>1, <1>9 DEF SessionRows
      <4>4. S[s].parent = S[old].parent => S[old].parent = NoRow
        BY <1>12, <4>1
      <4> QED BY <1>14, <4>1, <4>2, <4>3, <4>4
    <3> QED BY <3>1, <3>2
  <2> QED BY <2>1 DEF Ringed
<1>19. UsedIsAlone(T)
  <2>1. ASSUME NEW s \in Ids, IsLive(T, s), T[s].used PROVE T[s].next = NoRow
    BY <1>6, <1>10, <2>1 DEF Sound, UsedIsAlone
  <2>2. ASSUME NEW s \in Ids, NEW t \in Ids, T[t].used, IsLive(T, s),
               T[s].parent = T[t].parent, T[s].parent # NoRow
        PROVE  s = t
    <3>1. t # new
      BY <1>6, <2>2
    <3>2. ASSUME s = new PROVE FALSE
      <4>1. T[t].parent = old /\ T[t].parent = S[t].parent
        BY <1>6, <1>8, <2>2, <3>1, <3>2, ZenonT(60)
      <4> QED BY <1>9, <4>1
    <3>3. IsLive(S, s) /\ s # old /\ T[s] = S[s]
      BY <1>10, <2>2, <3>2
    <3>4. CASE t = old
      BY <1>6, <1>12, <2>2, <3>3, <3>4
    <3>5. CASE t # old
      BY <1>6, <2>2, <3>1, <3>3, <3>5 DEF Sound, UsedIsAlone
    <3> QED BY <3>4, <3>5
  <2> QED BY <2>1, <2>2 DEF UsedIsAlone
<1>20. OneRing(T)
  <2>1. ASSUME NEW t \in Ids, IsLive(S, t), t # old, S[t].root = S[old].root PROVE FALSE
    <3>1. S[t].parent = S[old].parent
      BY <2>1 DEF Sound, OneRing
    <3>2. S[old].parent = NoRow
      BY <1>12, <2>1, <3>1
    <3>3. t \in Born(S) /\ old \in Born(S)
      BY <2>1 DEF Born, IsLive
    <3>4. S[t].root = t /\ S[old].root = old
      BY <3>1, <3>2, <3>3 DEF Sound, Descends
    <3> QED BY <2>1, <3>4
  <2>2. ASSUME NEW s \in Ids, NEW t \in Ids, IsLive(T, s), IsLive(T, t), T[s].root = T[t].root
        PROVE  T[s].parent = T[t].parent
    <3>1. CASE s # new /\ t # new
      BY <1>10, <2>2, <3>1 DEF Sound, OneRing
    <3>2. CASE s = new /\ t # new
      <4>1. IsLive(S, t) /\ t # old /\ T[t] = S[t]
        BY <1>10, <2>2, <3>2
      <4>2. T[s].root = S[old].root
        BY <1>6, <3>2
      <4> QED BY <2>1, <2>2, <4>1, <4>2
    <3>3. CASE s # new /\ t = new
      <4>1. IsLive(S, s) /\ s # old /\ T[s] = S[s]
        BY <1>10, <2>2, <3>3
      <4>2. T[t].root = S[old].root
        BY <1>6, <3>3
      <4> QED BY <2>1, <2>2, <4>1, <4>2
    <3>4. CASE s = new /\ t = new
      BY <3>4
    <3> QED BY <3>1, <3>2, <3>3, <3>4
  <2> QED BY <2>2 DEF OneRing
<1>21. Sound(T)
  BY <1>5, <1>15, <1>16, <1>17, <1>18, <1>19, <1>20 DEF Sound
<1>22. \A s \in Ids : s # new => (Exists(S, s) <=> Exists(T, s))
  BY <1>6 DEF Exists, IsLive
<1>23. ASSUME NEW t \in Born(S)
       PROVE  _linked_ids(T, t) \subseteq _linked_ids(S, t) \union {new}
  <2>0. t \in Ids /\ t # new
    BY <1>2 DEF Born
  <2>1. CASE ~Exists(T, t)
    BY <2>1 DEF _linked_ids
  <2>2. CASE Exists(T, t)
    <3> DEFINE L == _linked_ids(S, t)
               W == L \union {new}
    <3>1. Exists(S, t)
      BY <1>22, <2>0, <2>2
    <3>2. t \in L /\ L \in SUBSET Ids /\ Closed(S, t, L)
      BY <1>1, <2>0, <3>1, WalkIsClosed
    <3> HIDE DEF L
    <3>3. ASSUME NEW x \in W PROVE Follows(T, t, x) \subseteq W
      <4>1. CASE x = new
        BY <1>6, <4>1 DEF Follows
      <4>2. CASE x = old
        BY <1>6, <4>2 DEF Follows
      <4>3. CASE x # new /\ x # old
        <5>1. T[x] = S[x] /\ x \in L
          BY <1>6, <3>2, <4>3
        <5>2. Follows(T, t, x) = Follows(S, t, x)
          BY <5>1 DEF Follows, IsLive
        <5> QED BY <3>2, <5>1, <5>2 DEF Closed
      <4> QED BY <4>1, <4>2, <4>3
    <3>4. Closed(T, t, W) /\ W \in SUBSET Ids /\ t \in W
      BY <3>2, <3>3 DEF Closed
    <3>5. _linked_ids(T, t) \subseteq W
      BY <3>4, WalkIsLeast
    <3> QED BY <3>5 DEF L
  <2> QED BY <2>1, <2>2
<1>24. Onwards(S, T)
  <2>1. \A t \in Born(S) : t \in Ids /\ t # new
    BY <1>2 DEF Born
  <2>2. \A t \in Born(S) : _linked_ids(T, t) \subseteq _linked_ids(S, t) \union (Ids \ Born(S))
    BY <1>2, <1>23
  <2>3. \A t \in Born(S) : /\ S[t].used => T[t].used
                           /\ IsLive(T, t) => IsLive(S, t)
                           /\ T[t].parent = S[t].parent
    BY <1>6, <1>10, <2>1
  <2> QED BY <1>11, <2>2, <2>3 DEF Onwards
<1>25. \A s \in Ids : Exists(S, s) => Exists(T, s)
  BY <1>6, <1>22 DEF Exists
<1> QED BY <1>6, <1>11, <1>13, <1>14, <1>21, <1>24, <1>25

(***************************************************************************)
(* A sign-in inserts a row without a parent.                               *)
(***************************************************************************)
LEMMA LoginStep ==
  ASSUME NEW S, NEW T, Sound(S), NEW new \in Ids, Born(S) = 1..(new - 1),
         T = [S EXCEPT ![new] = Issued(NoRow, new)]
  PROVE  /\ Sound(T) /\ Onwards(S, T) /\ Born(T) = 1..new
         /\ \A p \in Ids : Rivals(T, p) = Rivals(S, p)
         /\ \A s \in Ids : Exists(S, s) => Exists(T, s)
         /\ T[new].parent = NoRow
<1> USE IdsAreNat
<1>1. S \in [Ids -> SessionRows] /\ \A s \in Ids : S[s] \in SessionRows
  BY DEF Sound
<1>2. new \notin Born(S) /\ \A s \in Born(S) : s \in Ids /\ s # new
  BY DEF Born
<1>3. /\ T \in [Ids -> SessionRows]
      /\ \A s \in Ids : s # new => T[s] = S[s]
      /\ T[new].status = "live" /\ T[new].next = NoRow /\ ~T[new].used
      /\ T[new].parent = NoRow /\ T[new].root = new
  BY <1>1, IssuedRow
<1>4. S[new] = Absent
  BY <1>2 DEF Sound, Descends, Born
<1>5. S[new].status = "absent" /\ S[new].parent = NoRow /\ S[new].next = NoRow
  BY <1>4 DEF Absent
<1>6. \A t \in Ids : S[t].parent # new /\ T[t].parent = S[t].parent
  <2>1. ASSUME NEW t \in Ids, S[t].parent = new PROVE FALSE
    <3>1. S[t].parent < t
      BY DEF Sound, Descends
    <3>2. t \notin Born(S)
      BY <2>1, <3>1
    <3>3. S[t].parent = NoRow
      BY <3>2 DEF Absent, Sound, Descends, Born
    <3> QED BY <2>1, <3>3
  <2> QED BY <1>3, <1>5, <2>1
<1>7. Born(T) = 1..new
  <2>1. Born(T) = Born(S) \union {new}
    BY <1>3 DEF Born
  <2>2. (1..(new - 1)) \union {new} = 1..new
    BY DEF Ids
  <2> QED BY <2>1, <2>2
<1>8. \A s \in Ids : IsLive(T, s) => s = new \/ (IsLive(S, s) /\ T[s] = S[s])
  BY <1>3 DEF IsLive
<1>9. \A p \in Ids : Rivals(T, p) = Rivals(S, p)
  <2>1. ASSUME NEW p \in Ids, NEW s \in Ids
        PROVE  (IsLive(T, s) /\ T[s].parent = p) <=> (IsLive(S, s) /\ S[s].parent = p)
    BY <1>3, <1>5 DEF IsLive
  <2> QED BY <2>1 DEF Rivals
<1>10. InOrder(T)
  <2>1. new \in 0..MaxSessions
    BY DEF Ids
  <2> QED BY <1>7, <2>1 DEF InOrder
<1>11. Descends(T)
  <2>1. ASSUME NEW s \in Ids
        PROVE  /\ T[s].status = "absent" => T[s] = Absent
               /\ T[s].parent < s /\ T[s].root <= s
               /\ T[s].next \in Born(T) \union {NoRow}
               /\ s \in Born(T) /\ T[s].parent = NoRow => T[s].root = s
    <3>1. /\ S[s].status = "absent" => S[s] = Absent
          /\ S[s].parent < s /\ S[s].root <= s
          /\ S[s].next \in Born(S) \union {NoRow}
          /\ s \in Born(S) /\ S[s].parent = NoRow => S[s].root = s
      BY DEF Sound, Descends
    <3>2. CASE s = new
      <4>1. s <= s /\ NoRow < s
        BY DEF Ids, NoRow
      <4> QED BY <1>3, <3>2, <4>1
    <3>3. CASE s # new
      <4>1. Born(S) \subseteq Born(T)
        BY <1>7
      <4>2. s \in Born(T) => s \in Born(S)
        BY <1>7, <3>3
      <4> QED BY <1>3, <3>1, <3>3, <4>1, <4>2
    <3> QED BY <3>2, <3>3
  <2>2. ASSUME NEW s \in Ids, T[s].parent # NoRow PROVE T[s].root = T[T[s].parent].root
    <3>1. s # new /\ S[s].parent # NoRow /\ S[s].parent \in Ids /\ S[s].parent # new
      BY <1>1, <1>3, <1>6, <2>2 DEF SessionRows
    <3> QED BY <1>3, <3>1 DEF Sound, Descends
  <2> QED BY <2>1, <2>2 DEF Descends
<1>12. RotatedLinks(T)
  <2>1. ASSUME NEW s \in Ids, T[s].status = "rotated"
        PROVE  /\ T[s].used
               /\ T[s].next # NoRow => T[T[s].next].parent = s
               /\ T[s].next # NoRow => \A t \in Ids : T[t].parent = s => t <= T[s].next
    <3>1. S[s].status = "rotated" /\ T[s] = S[s]
      BY <1>3, <2>1
    <3>2. S[s].next # NoRow => S[s].next \in Ids
      BY <1>1 DEF SessionRows
    <3> QED BY <1>6, <3>1, <3>2 DEF Sound, RotatedLinks
  <2>2. ASSUME NEW s \in Ids, IsLive(T, s), NEW t \in Ids PROVE T[t].parent # s
    BY <1>6, <1>8, <2>2 DEF Sound, RotatedLinks
  <2> QED BY <2>1, <2>2 DEF RotatedLinks
<1>13. Ringed(T)
  <2>1. ASSUME NEW s \in Ids, IsLive(T, s)
        PROVE  /\ T[s].parent = NoRow => T[s].next = NoRow
               /\ T[s].parent # NoRow /\ T[s].next = NoRow => Rivals(T, T[s].parent) = {s}
               /\ T[s].next # NoRow => FollowedBy(Rivals(T, T[s].parent), s, T[s].next)
    <3>1. CASE s = new
      BY <1>3, <3>1
    <3>2. CASE s # new
      <4>1. IsLive(S, s) /\ T[s] = S[s]
        BY <1>8, <2>1, <3>2
      <4>2. /\ S[s].parent = NoRow => S[s].next = NoRow
            /\ S[s].parent # NoRow /\ S[s].next = NoRow => Rivals(S, S[s].parent) = {s}
            /\ S[s].next # NoRow => FollowedBy(Rivals(S, S[s].parent), s, S[s].next)
        BY <4>1 DEF Sound, Ringed
      <4>3. S[s].parent \in Ids \union {NoRow}
        BY <1>1 DEF SessionRows
      <4> QED BY <1>9, <4>1, <4>2, <4>3
    <3> QED BY <3>1, <3>2
  <2> QED BY <2>1 DEF Ringed
<1>14. UsedIsAlone(T)
  <2>1. ASSUME NEW s \in Ids, IsLive(T, s), T[s].used PROVE T[s].next = NoRow
    BY <1>3, <1>8, <2>1 DEF Sound, UsedIsAlone
  <2>2. ASSUME NEW s \in Ids, NEW t \in Ids, T[t].used, IsLive(T, s),
               T[s].parent = T[t].parent, T[s].parent # NoRow
        PROVE  s = t
    <3>1. s # new /\ t # new
      BY <1>3, <2>2
    <3>2. IsLive(S, s) /\ T[s] = S[s] /\ T[t] = S[t]
      BY <1>3, <1>8, <2>2, <3>1
    <3> QED BY <2>2, <3>2 DEF Sound, UsedIsAlone
  <2> QED BY <2>1, <2>2 DEF UsedIsAlone
<1>15. OneRing(T)
  <2>1. \A t \in Ids : IsLive(S, t) => S[t].root # new
    <3>1. ASSUME NEW t \in Ids, IsLive(S, t) PROVE S[t].root # new
      <4>1. t \in Born(S)
        BY <3>1 DEF Born, IsLive
      <4>2. t < new /\ t \in Nat /\ new \in Nat
        BY <4>1
      <4>3. S[t].root <= t
        BY DEF Sound, Descends
      <4>4. S[t].root \in Nat
        BY <1>1 DEF SessionRows
      <4> QED BY <4>2, <4>3, <4>4
    <3> QED BY <3>1
  <2>2. ASSUME NEW s \in Ids, NEW t \in Ids, IsLive(T, s), IsLive(T, t), T[s].root = T[t].root
        PROVE  T[s].parent = T[t].parent
    <3>1. CASE s # new /\ t # new
      BY <1>8, <2>2, <3>1 DEF Sound, OneRing
    <3>2. CASE s = new \/ t = new
      BY <1>3, <1>8, <2>1, <2>2, <3>2
    <3> QED BY <3>1, <3>2
  <2> QED BY <2>2 DEF OneRing
<1>16. Sound(T)
  BY <1>3, <1>10, <1>11, <1>12, <1>13, <1>14, <1>15 DEF Sound
<1>17. ASSUME NEW t \in Born(S)
       PROVE  _linked_ids(T, t) \subseteq _linked_ids(S, t)
  <2>0. t \in Ids /\ t # new
    BY <1>2
  <2>1. CASE ~Exists(T, t)
    BY <2>1 DEF _linked_ids
  <2>2. CASE Exists(T, t)
    <3> DEFINE L == _linked_ids(S, t)
    <3>1. Exists(S, t)
      BY <1>3, <2>0, <2>2 DEF Exists
    <3>2. t \in L /\ L \in SUBSET Ids /\ Closed(S, t, L)
      BY <1>1, <2>0, <3>1, WalkIsClosed
    <3> HIDE DEF L
    <3>3. ASSUME NEW x \in L PROVE Follows(T, t, x) \subseteq Follows(S, t, x)
      <4>1. CASE x = new
        BY <1>3, <4>1 DEF Follows
      <4>2. CASE x # new
        <5>1. T[x] = S[x]
          BY <1>3, <3>2, <4>2
        <5> QED BY <5>1 DEF Follows, IsLive
      <4> QED BY <4>1, <4>2
    <3>4. Closed(T, t, L)
      BY <3>2, <3>3 DEF Closed
    <3>5. _linked_ids(T, t) \subseteq L
      BY <3>2, <3>4, WalkIsLeast
    <3> QED BY <3>5 DEF L
  <2> QED BY <2>1, <2>2
<1>18. Onwards(S, T)
  <2>1. Born(S) \subseteq Born(T)
    BY <1>7
  <2>2. \A t \in Born(S) : T[t] = S[t]
    BY <1>2, <1>3
  <2> QED BY <1>17, <2>1, <2>2 DEF Onwards, IsLive
<1>19. \A s \in Ids : Exists(S, s) => Exists(T, s)
  BY <1>3, <1>5 DEF Exists
<1> QED BY <1>3, <1>7, <1>9, <1>16, <1>18, <1>19

(***************************************************************************)
(* _rotate_again, first: the new session joins the ring of the successor.  *)
(***************************************************************************)
Joined(S, token, new) ==
  [_rotate(S, token, new) EXCEPT
     ![new].next = IF S[S[token].next].next = NoRow
                   THEN S[token].next ELSE S[S[token].next].next,
     ![S[token].next].next = new]

LEMMA SuccessorsRing ==
  ASSUME NEW S, Sound(S), NEW token \in Ids, _may_rotate_again(S, token)
  PROVE  LET su == S[token].next
             R == Rivals(S, token)
             first == IF S[su].next = NoRow THEN su ELSE S[su].next
         IN  /\ su \in R /\ first \in R
             /\ \A t \in R : first <= t /\ t <= su
             /\ \A y \in R : ~S[y].used
             /\ \A y \in R : y # su => /\ y < S[y].next /\ S[y].next \in R
                                       /\ \A t \in R : t <= y \/ S[y].next <= t
             /\ \A x \in R : _linked_ids(S, x) = R
             /\ S[su].root = S[token].root /\ \A t \in Ids : S[t].parent = token => ~S[t].used
<1> DEFINE su == S[token].next
           R == Rivals(S, token)
           first == IF S[su].next = NoRow THEN su ELSE S[su].next
<1> USE IdsAreNat
<1>1. S \in [Ids -> SessionRows] /\ \A s \in Ids : S[s] \in SessionRows
  BY DEF Sound
<1>2. /\ S[token].status = "rotated" /\ su # NoRow /\ IsLive(S, su) /\ ~S[su].used
      /\ su \in Ids
  BY <1>1 DEF _may_rotate_again, SessionRows
<1>3. S[su].parent = token /\ \A t \in Ids : S[t].parent = token => t <= su
  BY <1>2 DEF Sound, RotatedLinks
<1>4. R = {s \in Ids : IsLive(S, s) /\ S[s].parent = token} /\ token # NoRow
  BY DEF Rivals
<1> HIDE DEF R, su
<1>5. su \in R /\ R \in SUBSET Ids /\ \A t \in R : t <= su
  BY <1>2, <1>3, <1>4
<1>6. S[su].root = S[token].root
  BY <1>2, <1>3, <1>4 DEF Sound, Descends
<1>7. ASSUME NEW t \in Ids, S[t].parent = token, S[t].used PROVE FALSE
  BY <1>2, <1>3, <1>4, <1>7 DEF Sound, UsedIsAlone
<1>8. CASE S[su].next = NoRow
  <2>1. R = {su}
    BY <1>2, <1>3, <1>4, <1>8 DEF Sound, Ringed, R
  <2>2. _linked_ids(S, su) = {su}
    BY <1>1, <1>2, <1>8, WalkAlone DEF Exists, IsLive
  <2>3. first = su /\ su <= su
    BY <1>2, <1>8
  <2> HIDE DEF first
  <2> QED BY <1>2, <1>5, <1>6, <1>7, <2>1, <2>2, <2>3 DEF su, R, first
<1>9. CASE S[su].next # NoRow
  <2>1. /\ IsRing(S, R) /\ \A y \in R : S[y].next # NoRow /\ ~S[y].used
    BY <1>2, <1>3, <1>9, RingOfRivals DEF R
  <2>2. ASSUME NEW x \in R PROVE _linked_ids(S, x) = R
    BY <1>1, <1>5, <2>1, WalkOfRing
  <2>3. \A y \in R : y \in Nat /\ S[y].next \in R /\ S[y].next \in Nat
    BY <1>5, <2>1 DEF IsRing, FollowedBy
  <2>4. first = S[su].next /\ first \in R
    BY <1>5, <1>9, <2>3
  <2>5. \A t \in R : first <= t
    <3>1. S[su].next <= su
      BY <1>5, <2>3
    <3>2. ~(su < S[su].next)
      BY <1>5, <2>3, <3>1
    <3>3. FollowedBy(R, su, S[su].next)
      BY <1>5, <2>1 DEF IsRing
    <3>4. \A t \in R : S[su].next <= t
      BY <3>2, <3>3 DEF FollowedBy
    <3> QED BY <2>4, <3>4
  <2>6. ASSUME NEW y \in R, y # su
        PROVE  y < S[y].next /\ \A t \in R : t <= y \/ S[y].next <= t
    <3>1. FollowedBy(R, y, S[y].next)
      BY <2>1 DEF IsRing
    <3>2. ~(su <= y)
      BY <1>5, <2>3, <2>6
    <3> QED BY <1>5, <3>1, <3>2 DEF FollowedBy
  <2> HIDE DEF first
  <2> QED BY <1>5, <1>6, <1>7, <2>1, <2>2, <2>3, <2>4, <2>5, <2>6 DEF su, R, first
<1> QED BY <1>8, <1>9

LEMMA JoinedRows ==
  ASSUME NEW S, Sound(S), NEW token \in Ids, _may_rotate_again(S, token),
         NEW new \in Ids, Born(S) = 1..(new - 1)
  PROVE  LET su == S[token].next
             J == Joined(S, token, new)
         IN  /\ J \in [Ids -> SessionRows]
             /\ \A s \in Ids : s \notin {new, su, token} => J[s] = S[s]
             /\ \A s \in Ids : s # new => /\ J[s].status = S[s].status /\ J[s].used = S[s].used
                                          /\ J[s].parent = S[s].parent /\ J[s].root = S[s].root
                                          /\ J[s].expired = S[s].expired
             /\ J[new].status = "live" /\ ~J[new].used /\ ~J[new].expired
             /\ J[new].parent = token /\ J[new].root = S[token].root
             /\ J[new].next = IF S[su].next = NoRow THEN su ELSE S[su].next
             /\ J[su].next = new /\ J[token].next = new
             /\ su \in Ids /\ su # token /\ su < new /\ token < new
<1> DEFINE su == S[token].next
           first == IF S[su].next = NoRow THEN su ELSE S[su].next
           issued == Issued(token, S[token].root)
           joins == [issued EXCEPT !.next = first]
           again == [S[token] EXCEPT !.status = "rotated", !.next = new, !.used = TRUE]
           leads == [S[su] EXCEPT !.next = new]
<1> USE IdsAreNat
<1>1. S \in [Ids -> SessionRows] /\ \A s \in Ids : S[s] \in SessionRows
  BY DEF Sound
<1>2. /\ S[token].status = "rotated" /\ su # NoRow /\ S[su].status = "live" /\ su \in Ids
      /\ S[token].used
  BY <1>1 DEF _may_rotate_again, SessionRows, IsLive, Sound, RotatedLinks
<1>3. su # token /\ su < new /\ token < new /\ new # su /\ new # token
  <2>1. su \in Born(S) /\ token \in Born(S)
    BY <1>2 DEF Born
  <2> QED BY <1>2, <2>1
<1>4. _rotate(S, token, new) = [S EXCEPT ![new] = issued, ![token].status = "rotated",
                                         ![token].next = new, ![token].used = TRUE]
  BY <1>2 DEF _rotate, IsLive
<1>5. _rotate(S, token, new) =
        [s \in Ids |-> IF s = new THEN issued ELSE IF s = token THEN again ELSE S[s]]
  <2>1. token \in Ids /\ new \in Ids /\ new # token
    BY <1>3
  <2> HIDE DEF issued, su
  <2> QED BY <1>1, <1>4, <2>1
<1> HIDE DEF issued, again
<1>6. Joined(S, token, new) =
        [_rotate(S, token, new) EXCEPT ![new].next = first, ![su].next = new]
  BY DEF Joined
<1> HIDE DEF first
<1>7. Joined(S, token, new) =
        [s \in Ids |-> IF s = new THEN joins ELSE IF s = token THEN again
                       ELSE IF s = su THEN leads ELSE S[s]]
  <2>1. DOMAIN _rotate(S, token, new) = Ids /\ _rotate(S, token, new)[new] = issued
        /\ _rotate(S, token, new)[su] = S[su]
    BY <1>2, <1>3, <1>5
  <2> HIDE DEF su
  <2> QED BY <1>2, <1>3, <1>5, <1>6, <2>1
<1> HIDE DEF joins, leads
<1>8. first \in Ids \union {NoRow} /\ S[token].root \in Ids \union {NoRow}
  BY <1>1, <1>2 DEF SessionRows, first
<1>9. /\ issued \in SessionRows /\ issued.status = "live" /\ ~issued.used /\ ~issued.expired
      /\ issued.parent = token /\ issued.root = S[token].root
  <2>1. token \in Ids \union {NoRow}
    OBVIOUS
  <2>2. S[token].root \in Ids \union {NoRow}
    BY <1>8
  <2> USE DEF issued
  <2> QED BY <2>1, <2>2, IssuedRow, ZenonT(60)
<1>10. /\ joins \in SessionRows /\ joins.status = "live" /\ joins.next = first
       /\ joins.used = issued.used /\ joins.parent = token /\ joins.root = S[token].root
       /\ joins.expired = issued.expired
  BY <1>8, <1>9 DEF joins, SessionRows
<1>11. /\ again \in SessionRows /\ again.status = "rotated" /\ again.next = new
       /\ again.used = TRUE /\ again.parent = S[token].parent /\ again.root = S[token].root
       /\ again.expired = S[token].expired
  <2>1. ASSUME NEW row \in SessionRows
        PROVE  LET n == [row EXCEPT !.status = "rotated", !.next = new, !.used = TRUE]
               IN  /\ n \in SessionRows /\ n.status = "rotated" /\ n.next = new
                   /\ n.used = TRUE /\ n.parent = row.parent /\ n.root = row.root
                   /\ n.expired = row.expired
    BY DEF SessionRows
  <2> QED BY <1>1, <2>1 DEF again
<1>12. /\ leads \in SessionRows /\ leads.status = S[su].status /\ leads.next = new
       /\ leads.used = S[su].used /\ leads.parent = S[su].parent /\ leads.root = S[su].root
       /\ leads.expired = S[su].expired
  BY <1>1, <1>2 DEF leads, SessionRows
<1> DEFINE J == Joined(S, token, new)
<1>13. J \in [Ids -> SessionRows]
  BY <1>1, <1>7, <1>10, <1>11, <1>12
<1>14. J[new] = joins /\ J[token] = again /\ J[su] = leads
       /\ \A s \in Ids : s \notin {new, su, token} => J[s] = S[s]
  BY <1>2, <1>3, <1>7
<1> HIDE DEF J, su
<1>15. S[token].used = TRUE
  <2>1. S[token].used \in BOOLEAN
    BY <1>1 DEF SessionRows
  <2> QED BY <1>2, <2>1
<1>16. \A s \in Ids : s # new => /\ J[s].status = S[s].status /\ J[s].used = S[s].used
                                 /\ J[s].parent = S[s].parent /\ J[s].root = S[s].root
                                 /\ J[s].expired = S[s].expired
  <2>1. ASSUME NEW s \in Ids, s # new
        PROVE  /\ J[s].status = S[s].status /\ J[s].used = S[s].used
               /\ J[s].parent = S[s].parent /\ J[s].root = S[s].root
               /\ J[s].expired = S[s].expired
    <3>1. CASE s = su
      BY <1>12, <1>14, <3>1
    <3>2. CASE s = token
      BY <1>2, <1>11, <1>14, <1>15, <3>2
    <3>3. CASE s # su /\ s # token
      BY <1>14, <2>1, <3>3
    <3> QED BY <3>1, <3>2, <3>3
  <2> QED BY <2>1
<1>17. ~J[new].used /\ ~J[new].expired
  BY <1>9, <1>10, <1>14
<1> QED BY <1>2, <1>3, <1>10, <1>11, <1>12, <1>13, <1>14, <1>16, <1>17 DEF J, su, first

LEMMA JoinStep ==
  ASSUME NEW S, NEW J, Sound(S), NEW token \in Ids, _may_rotate_again(S, token),
         NEW new \in Ids, Born(S) = 1..(new - 1), J = Joined(S, token, new)
  PROVE  LET ring == Rivals(S, token) \union {new}
         IN  /\ Sound(J) /\ Onwards(S, J) /\ Born(J) = 1..new
             /\ IsRing(J, ring) /\ Rivals(J, token) = ring /\ J[new].parent = token
             /\ _linked_ids(J, new) = ring
             /\ \A y \in ring : y <= new /\ ~J[y].used
             /\ \A p \in Ids : p # token => Rivals(J, p) = Rivals(S, p)
             /\ \A s \in Ids : Exists(S, s) => Exists(J, s)
<1> DEFINE su == S[token].next
           R == Rivals(S, token)
           first == IF S[su].next = NoRow THEN su ELSE S[su].next
           ring == R \union {new}
<1> USE IdsAreNat
<1>1. S \in [Ids -> SessionRows] /\ \A s \in Ids : S[s] \in SessionRows
  BY DEF Sound
<1>2. S[token].status = "rotated" /\ IsLive(S, su) /\ ~S[su].used
  BY DEF _may_rotate_again
<1>3. /\ su \in R /\ first \in R
      /\ \A t \in R : first <= t /\ t <= su
      /\ \A y \in R : ~S[y].used
      /\ \A y \in R : y # su => /\ y < S[y].next /\ S[y].next \in R
                                /\ \A t \in R : t <= y \/ S[y].next <= t
      /\ \A x \in R : _linked_ids(S, x) = R
      /\ S[su].root = S[token].root /\ \A t \in Ids : S[t].parent = token => ~S[t].used
  BY SuccessorsRing
<1>4. /\ J \in [Ids -> SessionRows]
      /\ \A s \in Ids : s \notin {new, su, token} => J[s] = S[s]
      /\ \A s \in Ids : s # new => /\ J[s].status = S[s].status /\ J[s].used = S[s].used
                                   /\ J[s].parent = S[s].parent /\ J[s].root = S[s].root
      /\ J[new].status = "live" /\ ~J[new].used
      /\ J[new].parent = token /\ J[new].root = S[token].root /\ J[new].next = first
      /\ J[su].next = new /\ J[token].next = new
      /\ su \in Ids /\ su # token /\ su < new /\ token < new
  BY JoinedRows
<1>5. \A s \in Ids : s \in R <=> IsLive(S, s) /\ S[s].parent = token
  BY DEF Rivals
<1>6. R \in SUBSET Ids /\ token # NoRow
  BY DEF Rivals
<1> HIDE DEF su, R, first
<1>7. \A s \in Ids : s # new => (IsLive(J, s) <=> IsLive(S, s)) /\ (Exists(J, s) <=> Exists(S, s))
  BY <1>4 DEF IsLive, Exists
<1>8. IsLive(J, new)
  BY <1>4 DEF IsLive
<1>9. \A s \in Born(S) : s \in Ids /\ s < new /\ s # new
  <2>1. \A s \in Born(S) : s \in Ids
    BY DEF Born
  <2> QED BY <2>1
<1>10. S[new] = Absent /\ \A s \in Ids : s \notin Born(S) => S[s] = Absent
  BY <1>9 DEF Sound, Descends, Born
<1>11. \A t \in Ids : S[t].parent # new /\ (t # new => J[t].parent = S[t].parent) /\ J[t].parent # new
  <2>1. ASSUME NEW t \in Ids, S[t].parent = new PROVE FALSE
    <3>1. S[t].parent < t
      BY DEF Sound, Descends
    <3>2. t \notin Born(S)
      BY <1>9, <2>1, <3>1
    <3>3. S[t].parent = NoRow
      BY <1>10, <3>2 DEF Absent
    <3> QED BY <2>1, <3>3
  <2> QED BY <1>4, <2>1
<1>12. Born(J) = 1..new
  <2>1. Born(J) = Born(S) \union {new}
    BY <1>4 DEF Born
  <2>2. (1..(new - 1)) \union {new} = 1..new
    BY DEF Ids
  <2> QED BY <2>1, <2>2
<1>13. \A y \in ring : y \in Ids /\ IsLive(J, y) /\ y <= new /\ ~J[y].used
  <2>1. \A y \in R : y # new
    BY <1>3, <1>4, <1>6
  <2>2. \A y \in R : y \in Ids /\ IsLive(J, y) /\ ~J[y].used /\ y <= new
    BY <1>3, <1>4, <1>5, <1>6, <1>7, <2>1
  <2>3. new <= new
    OBVIOUS
  <2> QED BY <1>4, <1>8, <2>2, <2>3
<1>14. Rivals(J, token) = ring
  <2>1. \A s \in Ids : IsLive(J, s) /\ J[s].parent = token <=> s \in ring
    BY <1>4, <1>5, <1>7, <1>8, <1>9, <1>10, <1>13
  <2> QED BY <1>13, <2>1 DEF Rivals
<1>15. \A p \in Ids : p # token => Rivals(J, p) = Rivals(S, p)
  <2>1. ASSUME NEW p \in Ids, p # token, NEW s \in Ids
        PROVE  (IsLive(J, s) /\ J[s].parent = p) <=> (IsLive(S, s) /\ S[s].parent = p)
    <3>1. CASE s = new
      <4>1. S[new].parent = NoRow
        BY <1>10 DEF Absent
      <4> QED BY <1>4, <2>1, <3>1, <4>1
    <3>2. CASE s # new
      BY <1>4, <1>7, <3>2
    <3> QED BY <3>1, <3>2
  <2> QED BY <2>1 DEF Rivals
<1>16. IsRing(J, ring)
  <2>1. ASSUME NEW y \in ring PROVE FollowedBy(ring, y, J[y].next)
    <3>1. CASE y = new
      <4>1. J[y].next = first /\ first \in ring /\ first <= new /\ y = new
        BY <1>3, <1>4, <1>13, <3>1
      <4>2. \A t \in ring : first <= t /\ t <= new
        BY <1>3, <1>13, <4>1
      <4> QED BY <4>1, <4>2 DEF FollowedBy
    <3>2. CASE y = su
      <4>1. \A t \in ring : t <= su \/ new <= t
        BY <1>3, <1>4
      <4> QED BY <1>4, <3>2, <4>1 DEF FollowedBy
    <3>3. CASE y # new /\ y # su
      <4>1. y \in R /\ y \in Ids /\ y # token
        BY <1>2, <1>5, <1>6, <3>3 DEF IsLive
      <4>2. J[y].next = S[y].next
        BY <1>4, <3>3, <4>1
      <4>3. /\ y < S[y].next /\ S[y].next \in R
            /\ \A t \in R : t <= y \/ S[y].next <= t
        BY <1>3, <3>3, <4>1
      <4>4. S[y].next <= new
        BY <1>13, <4>3
      <4> QED BY <4>2, <4>3, <4>4 DEF FollowedBy
    <3> QED BY <3>1, <3>2, <3>3
  <2> QED BY <1>13, <2>1 DEF IsRing
<1>17. InOrder(J)
  <2>1. new \in 0..MaxSessions
    BY DEF Ids
  <2> QED BY <1>12, <2>1 DEF InOrder
<1>18. Descends(J)
  <2>0. Born(S) \subseteq Born(J) /\ su \in Born(S) /\ first \in Born(S)
    BY <1>3, <1>5, <1>6, <1>12 DEF Born, IsLive
  <2>1. ASSUME NEW s \in Ids
        PROVE  /\ J[s].status = "absent" => J[s] = Absent
               /\ J[s].parent < s /\ J[s].root <= s
               /\ J[s].next \in Born(J) \union {NoRow}
               /\ s \in Born(J) /\ J[s].parent = NoRow => J[s].root = s
    <3>1. /\ S[s].status = "absent" => S[s] = Absent
          /\ S[s].parent < s /\ S[s].root <= s
          /\ S[s].next \in Born(S) \union {NoRow}
          /\ s \in Born(S) /\ S[s].parent = NoRow => S[s].root = s
      BY DEF Sound, Descends
    <3>2. new \in Born(J)
      BY <1>12 DEF Ids
    <3>3. CASE s = new
      <4>1. S[token].root <= token /\ S[token].root \in Nat /\ token \in Nat /\ new \in Nat
        BY <1>1 DEF Sound, Descends, SessionRows
      <4>2. S[token].root <= new
        BY <1>4, <4>1
      <4> QED BY <1>4, <1>6, <2>0, <3>3, <4>2
    <3>4. CASE s # new
      <4>1. s \in Born(J) => s \in Born(S)
        BY <1>4, <3>4 DEF Born
      <4>2. J[s].next \in {S[s].next, new}
        BY <1>4, <3>4
      <4>3. J[s].status = "absent" => J[s] = S[s]
        BY <1>2, <1>4, <3>4 DEF IsLive
      <4> QED BY <1>4, <2>0, <3>1, <3>2, <3>4, <4>1, <4>2, <4>3
    <3> QED BY <3>3, <3>4
  <2>2. ASSUME NEW s \in Ids, J[s].parent # NoRow PROVE J[s].root = J[J[s].parent].root
    <3>1. CASE s = new
      BY <1>4, <3>1
    <3>2. CASE s # new
      <4>1. S[s].parent # NoRow /\ S[s].parent \in Ids /\ S[s].parent # new
        BY <1>1, <1>4, <1>11, <2>2, <3>2 DEF SessionRows
      <4>2. S[s].root = S[S[s].parent].root
        BY <4>1 DEF Sound, Descends
      <4>3. J[s].root = S[s].root /\ J[s].parent = S[s].parent
        BY <1>4, <3>2
      <4>4. J[S[s].parent].root = S[S[s].parent].root
        BY <1>4, <4>1
      <4> QED BY <4>2, <4>3, <4>4
    <3> QED BY <3>1, <3>2
  <2> QED BY <2>1, <2>2 DEF Descends
<1>19. RotatedLinks(J)
  <2>1. ASSUME NEW s \in Ids, J[s].status = "rotated"
        PROVE  /\ J[s].used
               /\ J[s].next # NoRow => J[J[s].next].parent = s
               /\ J[s].next # NoRow => \A t \in Ids : J[t].parent = s => t <= J[s].next
    <3>0. s # new /\ s # su /\ S[s].status = "rotated" /\ J[s].used = S[s].used
      <4>1. s # new
        BY <1>4, <2>1
      <4> QED BY <1>2, <1>4, <2>1, <4>1 DEF IsLive
    <3>1. /\ S[s].used
          /\ S[s].next # NoRow => S[S[s].next].parent = s
          /\ S[s].next # NoRow => \A t \in Ids : S[t].parent = s => t <= S[s].next
      BY <3>0 DEF Sound, RotatedLinks
    <3>2. CASE s = token
      <4>1. ASSUME NEW t \in Ids, J[t].parent = token PROVE t <= new
        <5>1. CASE t = new
          BY <5>1
        <5>2. CASE t # new
          <6>1. S[t].parent = token
            BY <1>11, <4>1, <5>2
          <6>2. t \in Born(S)
            BY <1>6, <1>10, <6>1 DEF Absent
          <6> QED BY <1>9, <6>2
        <5> QED BY <5>1, <5>2
      <4> QED BY <1>4, <3>0, <3>1, <3>2, <4>1
    <3>3. CASE s # token
      <4>1. J[s] = S[s]
        BY <1>4, <3>0, <3>3
      <4>2. S[s].next # NoRow => S[s].next \in Ids /\ S[s].next # new
        BY <1>9 DEF Sound, Descends
      <4>3. \A t \in Ids : J[t].parent = s => S[t].parent = s
        BY <1>4, <3>3
      <4>4. S[s].next # NoRow => J[S[s].next].parent = s
        BY <1>4, <3>1, <4>2
      <4> QED BY <3>0, <3>1, <4>1, <4>3, <4>4
    <3> QED BY <3>2, <3>3
  <2>2. ASSUME NEW s \in Ids, IsLive(J, s), NEW t \in Ids PROVE J[t].parent # s
    <3>1. CASE s = new
      BY <1>11, <3>1
    <3>2. CASE s # new
      <4>1. IsLive(S, s) /\ s # token
        BY <1>2, <1>7, <2>2, <3>2 DEF IsLive
      <4>2. S[t].parent # s
        BY <4>1 DEF Sound, RotatedLinks
      <4> QED BY <1>4, <4>1, <4>2
    <3> QED BY <3>1, <3>2
  <2> QED BY <2>1, <2>2 DEF RotatedLinks
<1>20. \A s \in Ids : IsLive(J, s) /\ s \notin ring => IsLive(S, s) /\ J[s] = S[s] /\ S[s].parent # token
  BY <1>2, <1>3, <1>4, <1>5, <1>7 DEF IsLive
<1>21. Ringed(J)
  <2>1. ASSUME NEW s \in Ids, IsLive(J, s)
        PROVE  /\ J[s].parent = NoRow => J[s].next = NoRow
               /\ J[s].parent # NoRow /\ J[s].next = NoRow => Rivals(J, J[s].parent) = {s}
               /\ J[s].next # NoRow => FollowedBy(Rivals(J, J[s].parent), s, J[s].next)
    <3>1. CASE s \in ring
      <4>1. J[s].parent = token
        BY <1>14, <3>1 DEF Rivals
      <4>2. FollowedBy(ring, s, J[s].next) /\ J[s].next \in ring
        BY <1>16, <3>1 DEF IsRing, FollowedBy
      <4>3. J[s].next # NoRow
        BY <1>13, <4>2
      <4> QED BY <1>6, <1>14, <4>1, <4>2, <4>3
    <3>2. CASE s \notin ring
      <4>1. IsLive(S, s) /\ J[s] = S[s] /\ S[s].parent # token
        BY <1>20, <2>1, <3>2
      <4>2. /\ S[s].parent = NoRow => S[s].next = NoRow
            /\ S[s].parent # NoRow /\ S[s].next = NoRow => Rivals(S, S[s].parent) = {s}
            /\ S[s].next # NoRow => FollowedBy(Rivals(S, S[s].parent), s, S[s].next)
        BY <4>1 DEF Sound, Ringed
      <4>3. S[s].parent \in Ids \union {NoRow}
        BY <1>1 DEF SessionRows
      <4> QED BY <1>15, <4>1, <4>2, <4>3
    <3> QED BY <3>1, <3>2
  <2> QED BY <2>1 DEF Ringed
<1>22. UsedIsAlone(J)
  <2>1. ASSUME NEW s \in Ids, IsLive(J, s), J[s].used PROVE J[s].next = NoRow
    BY <1>13, <1>20, <2>1 DEF Sound, UsedIsAlone
  <2>2. ASSUME NEW s \in Ids, NEW t \in Ids, J[t].used, IsLive(J, s),
               J[s].parent = J[t].parent, J[s].parent # NoRow
        PROVE  s = t
    <3>1. t # new
      BY <1>4, <2>2
    <3>2. S[t].used /\ J[t].parent = S[t].parent
      BY <1>4, <2>2, <3>1
    <3>3. ASSUME s = new PROVE FALSE
      <4>1. S[t].parent = token
        BY <1>4, <2>2, <3>2, <3>3
      <4> QED BY <1>3, <3>2, <4>1
    <3>4. IsLive(S, s) /\ J[s].parent = S[s].parent
      BY <1>4, <1>7, <2>2, <3>3
    <3> QED BY <2>2, <3>2, <3>4 DEF Sound, UsedIsAlone
  <2> QED BY <2>1, <2>2 DEF UsedIsAlone
<1>23. OneRing(J)
  <2>1. ASSUME NEW t \in Ids, t # new, IsLive(J, t), J[t].root = J[new].root
        PROVE  J[t].parent = token
    <3>1. IsLive(S, t) /\ S[t].root = S[su].root
      BY <1>3, <1>4, <1>7, <2>1
    <3>2. S[t].parent = S[su].parent /\ S[su].parent = token
      BY <1>2, <1>3, <1>4, <1>5, <3>1 DEF Sound, OneRing
    <3> QED BY <1>4, <2>1, <3>2
  <2>2. ASSUME NEW s \in Ids, NEW t \in Ids, IsLive(J, s), IsLive(J, t), J[s].root = J[t].root
        PROVE  J[s].parent = J[t].parent
    <3>1. CASE s # new /\ t # new
      BY <1>4, <1>7, <2>2, <3>1 DEF Sound, OneRing
    <3>2. CASE s = new /\ t # new
      BY <1>4, <2>1, <2>2, <3>2
    <3>3. CASE s # new /\ t = new
      BY <1>4, <2>1, <2>2, <3>3
    <3>4. CASE s = new /\ t = new
      BY <3>4
    <3> QED BY <3>1, <3>2, <3>3, <3>4
  <2> QED BY <2>2 DEF OneRing
<1>24. Sound(J)
  BY <1>4, <1>17, <1>18, <1>19, <1>21, <1>22, <1>23 DEF Sound
<1>25. ASSUME NEW t \in Born(S)
       PROVE  _linked_ids(J, t) \subseteq _linked_ids(S, t) \union {new}
  <2>0. t \in Ids /\ t # new
    BY <1>9
  <2>1. CASE ~Exists(J, t)
    BY <2>1 DEF _linked_ids
  <2>2. CASE Exists(J, t)
    <3> DEFINE L == _linked_ids(S, t)
               W == IF R \subseteq L THEN L \union {new} ELSE L
    <3>1. Exists(S, t)
      BY <1>7, <2>0, <2>2
    <3>2. t \in L /\ L \in SUBSET Ids /\ Closed(S, t, L)
      BY <1>1, <2>0, <3>1, WalkIsClosed
    <3>3. ASSUME su \in L PROVE R \subseteq L
      <4>1. _linked_ids(S, su) \subseteq L
        BY <1>1, <1>2, <2>0, <3>1, <3>3, WalkGoesOn
      <4> QED BY <1>3, <4>1
    <3> HIDE DEF L
    <3>4. ASSUME NEW x \in W PROVE Follows(J, t, x) \subseteq W
      <4>1. CASE x = new
        <5>1. R \subseteq L \/ new \in L
          BY <4>1
        <5>2. CASE R \subseteq L
          BY <1>3, <1>4, <4>1, <5>2 DEF Follows
        <5>3. CASE new \in L /\ ~(R \subseteq L)
          <6>1. _linked_ids(S, t) \subseteq Ids \ {new}
            <7>1. \A y \in Ids : Follows(S, t, y) \subseteq Born(S)
              BY DEF Follows, Sound, Descends
            <7>2. Closed(S, t, Born(S)) /\ t \in Born(S) /\ Born(S) \in SUBSET Ids
              BY <1>9, <7>1 DEF Closed
            <7>3. _linked_ids(S, t) \subseteq Born(S)
              BY <7>2, WalkIsLeast
            <7> QED BY <1>9, <7>3
          <6> QED BY <5>3, <6>1 DEF L
        <5> QED BY <5>1, <5>2, <5>3
      <4>2. CASE x = su
        <5>1. su \in L
          BY <1>4, <4>2
        <5>2. R \subseteq L
          BY <3>3, <5>1
        <5>3. Follows(J, t, x) \subseteq {new}
          BY <1>4, <4>2 DEF Follows
        <5> QED BY <5>2, <5>3
      <4>3. CASE x = token
        <5>1. token \in L
          BY <1>4, <4>3
        <5>2. CASE t = token
          <6>1. su \in L
            <7>1. Follows(S, t, token) = {su}
              BY <1>4, <5>2 DEF Follows, su
            <7> QED BY <3>2, <5>1, <7>1 DEF Closed
          <6>2. R \subseteq L
            BY <3>3, <6>1
          <6>3. Follows(J, t, x) \subseteq {new}
            BY <1>4, <4>3 DEF Follows
          <6> QED BY <6>2, <6>3
        <5>3. CASE t # token
          <6>1. ~IsLive(J, token)
            BY <1>2, <1>4 DEF IsLive
          <6> QED BY <4>3, <5>3, <6>1 DEF Follows
        <5> QED BY <5>2, <5>3
      <4>4. CASE x # new /\ x # su /\ x # token
        <5>1. x \in L
          BY <4>4
        <5>2. J[x] = S[x]
          BY <1>4, <3>2, <4>4, <5>1
        <5>3. Follows(J, t, x) = Follows(S, t, x)
          BY <5>2 DEF Follows, IsLive
        <5> QED BY <3>2, <5>1, <5>3 DEF Closed
      <4> QED BY <4>1, <4>2, <4>3, <4>4
    <3>5. Closed(J, t, W) /\ W \in SUBSET Ids /\ t \in W
      BY <3>2, <3>4 DEF Closed
    <3> HIDE DEF W
    <3>6. _linked_ids(J, t) \subseteq W
      BY <3>5, WalkIsLeast
    <3> QED BY <3>6 DEF L, W
  <2> QED BY <2>1, <2>2
<1>26. Onwards(S, J)
  <2>1. \A t \in Born(S) : _linked_ids(J, t) \subseteq _linked_ids(S, t) \union (Ids \ Born(S))
    BY <1>9, <1>25
  <2>2. \A t \in Born(S) : /\ S[t].used => J[t].used
                           /\ IsLive(J, t) => IsLive(S, t)
                           /\ J[t].parent = S[t].parent
    BY <1>4, <1>7, <1>9
  <2> QED BY <1>12, <2>1, <2>2 DEF Onwards
<1>27. _linked_ids(J, new) = ring
  <2>1. ring \in SUBSET Ids /\ new \in ring
    BY <1>13
  <2> HIDE DEF ring
  <2> QED BY <1>4, <1>16, <2>1, WalkOfRing
<1>28. \A s \in Ids : Exists(S, s) => Exists(J, s)
  BY <1>7, <1>8 DEF Exists, IsLive
<1> QED BY <1>4, <1>12, <1>13, <1>14, <1>15, <1>16, <1>24, <1>26, <1>27, <1>28 DEF R

(***************************************************************************)
(* _rotate_again, then: a ring that grew too long loses its oldest.        *)
(***************************************************************************)
LEMMA NewestIs ==
  ASSUME NEW ring \in SUBSET Ids, NEW new \in ring, \A t \in ring : t <= new,
         Kept \in Nat \ {0}
  PROVE  /\ Newest(ring) \subseteq ring /\ new \in Newest(ring)
         /\ \A s \in Newest(ring), t \in ring : s <= t => t \in Newest(ring)
         /\ IsFiniteSet(ring) /\ Cardinality(Newest(ring)) <= Kept
<1> DEFINE younger(s) == {t \in ring : t > s}
           N == Newest(ring)
<1> USE IdsAreNat
<1>1. IsFiniteSet(ring)
  <2>1. IsFiniteSet(Ids)
    BY FS_Interval DEF Ids
  <2> QED BY <2>1, FS_Subset
<1>2. \A s : younger(s) \in SUBSET ring
  OBVIOUS
<1>3. \A s \in ring : s \in N <=> Cardinality(younger(s)) < Kept
  BY DEF Newest
<1>4. N \in SUBSET ring
  BY DEF Newest
<1>5. \A s : IsFiniteSet(younger(s)) /\ Cardinality(younger(s)) \in Nat
  <2> HIDE DEF younger
  <2> QED BY <1>1, <1>2, FS_Subset, FS_CardinalityType
<1>6. new \in N
  <2>1. younger(new) = {}
    <3>1. ASSUME NEW t \in younger(new) PROVE FALSE
      <4>1. t \in Nat /\ new \in Nat /\ t > new /\ t <= new
        OBVIOUS
      <4> QED BY <4>1
    <3> HIDE DEF younger
    <3> QED BY <3>1
  <2>2. Cardinality(younger(new)) = 0
    BY <2>1, FS_EmptySet
  <2> HIDE DEF younger, N
  <2> QED BY <1>3, <2>2
<1>7. ASSUME NEW s \in N, NEW t \in ring, s <= t PROVE t \in N
  <2>1. s \in Nat /\ t \in Nat
    BY <1>4
  <2>2. younger(t) \in SUBSET younger(s)
    <3>1. ASSUME NEW u \in ring, u > t PROVE u > s
      <4>1. u \in Nat
        OBVIOUS
      <4> QED BY <1>7, <2>1, <3>1, <4>1
    <3> QED BY <3>1
  <2> HIDE DEF younger, N
  <2>3. Cardinality(younger(t)) <= Cardinality(younger(s))
    BY <1>5, <2>2, FS_Subset
  <2>4. Cardinality(younger(s)) < Kept
    BY <1>3, <1>4
  <2> QED BY <1>3, <1>5, <2>3, <2>4
<1> HIDE DEF N
<1>8. PICK m \in N : \A t \in N : m <= t
  <2>1. N \in SUBSET Nat /\ N # {}
    BY <1>4, <1>6
  <2> QED BY <2>1, LeastExists, Zenon
<1>9. N \in SUBSET (younger(m) \union {m})
  <2>1. ASSUME NEW t \in N, t # m PROVE t \in younger(m)
    <3>1. t \in Nat /\ m \in Nat /\ m <= t /\ t \in ring
      BY <1>4, <1>8
    <3> QED BY <2>1, <3>1
  <2> HIDE DEF younger
  <2> QED BY <2>1
<1>10. m \notin younger(m)
  <2>1. m \in Nat
    BY <1>4
  <2> QED BY <2>1
<1> HIDE DEF younger
<1>11. /\ IsFiniteSet(younger(m) \union {m})
       /\ Cardinality(younger(m) \union {m}) = Cardinality(younger(m)) + 1
  BY <1>5, <1>10, FS_AddElement
<1>12. Cardinality(N) <= Cardinality(younger(m) \union {m}) /\ Cardinality(N) \in Nat
  BY <1>9, <1>11, FS_Subset, FS_CardinalityType
<1>13. Cardinality(younger(m)) < Kept
  BY <1>3, <1>4
<1>14. Cardinality(N) <= Kept
  BY <1>5, <1>11, <1>12, <1>13
<1> QED BY <1>1, <1>4, <1>6, <1>7, <1>14 DEF N

Shortened(J, ring, N, oldest, new) ==
  _supersede([J EXCEPT ![new].next = oldest], ring \ N, new)

NewerPart(N, ring, oldest, new) ==
  /\ N \in SUBSET ring /\ new \in N /\ oldest \in N
  /\ \A t \in ring : t <= new
  /\ \A t \in N : oldest <= t
  /\ \A s \in N, t \in ring : s <= t => t \in N

Unused(S, ring) == \A y \in ring : ~S[y].used

LEMMA ShortenStep ==
  ASSUME NEW J, NEW U, Sound(J), NEW token \in Ids, NEW ring, ring = Rivals(J, token),
         IsRing(J, ring), Unused(J, ring), NEW N, NEW oldest, NEW new,
         NewerPart(N, ring, oldest, new),
         U = Shortened(J, ring, N, oldest, new)
  PROVE  /\ Sound(U) /\ Onwards(J, U) /\ Born(U) = Born(J)
         /\ Rivals(U, token) = N /\ U[new].parent = J[new].parent
         /\ \A p \in Ids : p # token => Rivals(U, p) = Rivals(J, p)
         /\ \A s \in Ids : Exists(J, s) => Exists(U, s)
<1> DEFINE D == ring \ N
           C == [J EXCEPT ![new].next = oldest]
           lost(s) == [J[s] EXCEPT !.status = "superseded", !.next = new]
           led == [J[new] EXCEPT !.next = oldest]
<1> USE IdsAreNat
<1>1. J \in [Ids -> SessionRows] /\ \A s \in Ids : J[s] \in SessionRows
  BY DEF Sound
<1>2. /\ \A s \in Ids : s \in ring <=> J[s].status = "live" /\ J[s].parent = token
      /\ ring \in SUBSET Ids /\ token # NoRow
  BY DEF Rivals, IsLive
<1>3. /\ new \in Ids /\ oldest \in Ids /\ oldest \in ring /\ new \notin D
      /\ new \in ring /\ N \in SUBSET ring /\ new \in N /\ oldest \in N
      /\ \A s \in Ids : s \in D <=> s \in ring /\ s \notin N
  BY <1>2 DEF NewerPart
<1>4. C = [s \in Ids |-> IF s = new THEN led ELSE J[s]]
  BY <1>1, <1>3
<1>5. /\ led \in SessionRows /\ led.status = "live" /\ led.next = oldest
      /\ led.used = J[new].used /\ led.parent = J[new].parent /\ led.root = J[new].root
  BY <1>1, <1>2, <1>3 DEF SessionRows
<1>6. \A s \in Ids : /\ lost(s) \in SessionRows /\ lost(s).status = "superseded"
                     /\ lost(s).next = new /\ lost(s).used = J[s].used
                     /\ lost(s).parent = J[s].parent /\ lost(s).root = J[s].root
  <2>1. ASSUME NEW row \in SessionRows
        PROVE  LET n == [row EXCEPT !.status = "superseded", !.next = new]
               IN  /\ n \in SessionRows /\ n.status = "superseded" /\ n.next = new
                   /\ n.used = row.used /\ n.parent = row.parent /\ n.root = row.root
    BY <1>3 DEF SessionRows
  <2> QED BY <1>1, <2>1
<1>7. U = [s \in Ids |-> IF s \in D THEN lost(s) ELSE IF s = new THEN led ELSE J[s]]
  <2> HIDE DEF D
  <2>1. \A s \in Ids : s \in D => IsLive(C, s) /\ ~C[s].used /\ C[s] = J[s]
    BY <1>2, <1>3, <1>4 DEF IsLive, Unused
  <2> HIDE DEF C, led
  <2>2. \A s \in Ids : s \notin D => C[s] = IF s = new THEN led ELSE J[s]
    BY <1>4
  <2>3. U = [s \in Ids |-> IF s \in D /\ IsLive(C, s) /\ ~C[s].used
                           THEN [C[s] EXCEPT !.status = "superseded", !.next = new]
                           ELSE C[s]]
    BY DEF _supersede, C, D, Shortened
  <2> QED BY <2>1, <2>2, <2>3
<1> HIDE DEF D, C, lost, led
<1>8. /\ U \in [Ids -> SessionRows]
      /\ \A s \in Ids : /\ U[s].parent = J[s].parent /\ U[s].root = J[s].root
                        /\ U[s].used = J[s].used
                        /\ s \notin D /\ s # new => U[s] = J[s]
                        /\ s \in D => U[s].status = "superseded" /\ U[s].next = new
      /\ U[new].status = "live" /\ U[new].next = oldest
  <2>1. U \in [Ids -> SessionRows]
    BY <1>1, <1>5, <1>6, <1>7
  <2>2. U[new] = led
    BY <1>3, <1>7
  <2>3. \A s \in Ids : /\ s \in D => U[s] = lost(s)
                       /\ s \notin D /\ s # new => U[s] = J[s]
    BY <1>7
  <2> QED BY <1>3, <1>5, <1>6, <2>1, <2>2, <2>3
<1>9. \A s \in Ids : /\ IsLive(U, s) <=> IsLive(J, s) /\ s \notin D
                     /\ Exists(J, s) <=> Exists(U, s)
                     /\ U[s].status = "absent" <=> J[s].status = "absent"
                     /\ U[s].status = "rotated" => J[s] = U[s] /\ s \notin ring
  <2>1. ASSUME NEW s \in Ids
        PROVE  /\ IsLive(U, s) <=> IsLive(J, s) /\ s \notin D
               /\ Exists(J, s) <=> Exists(U, s)
               /\ U[s].status = "absent" <=> J[s].status = "absent"
               /\ U[s].status = "rotated" => J[s] = U[s] /\ s \notin ring
    <3>1. CASE s \in D
      BY <1>2, <1>3, <1>8, <3>1 DEF IsLive, Exists
    <3>2. CASE s = new
      BY <1>2, <1>3, <1>8, <3>2 DEF IsLive, Exists
    <3>3. CASE s \notin D /\ s # new
      BY <1>2, <1>8, <3>3 DEF IsLive, Exists
    <3> QED BY <3>1, <3>2, <3>3
  <2> QED BY <2>1
<1>10. Born(U) = Born(J)
  BY <1>9 DEF Born
<1>11. Rivals(U, token) = N /\ \A p \in Ids : p # token => Rivals(U, p) = Rivals(J, p)
  <2>1. \A s \in Ids : IsLive(U, s) /\ U[s].parent = token <=> s \in N
    BY <1>2, <1>3, <1>8, <1>9 DEF IsLive
  <2>2. \A p \in Ids, s \in Ids : p # token =>
          (IsLive(U, s) /\ U[s].parent = p <=> IsLive(J, s) /\ J[s].parent = p)
    BY <1>2, <1>3, <1>8, <1>9 DEF IsLive
  <2>3. N \in SUBSET Ids
    BY <1>2, <1>3
  <2>4. Rivals(U, token) = N
    BY <2>1, <2>3 DEF Rivals
  <2>5. \A p \in Ids : p # token => Rivals(U, p) = Rivals(J, p)
    BY <2>2 DEF Rivals
  <2> QED BY <2>4, <2>5
<1>12. IsRing(U, N)
  <2>1. ASSUME NEW y \in N PROVE FollowedBy(N, y, U[y].next) /\ IsLive(U, y)
    <3>0. y \in ring /\ y \in Ids /\ IsLive(U, y)
      BY <1>2, <1>3, <1>9 DEF IsLive
    <3>1. CASE y = new
      <4>1. \A t \in N : oldest <= t /\ t <= y
        BY <3>1, <1>3 DEF NewerPart
      <4> QED BY <1>3, <1>8, <3>0, <3>1, <4>1 DEF FollowedBy
    <3>2. CASE y # new
      <4>1. U[y].next = J[y].next /\ FollowedBy(ring, y, J[y].next)
        BY <1>3, <1>8, <3>0, <3>2 DEF IsRing
      <4>2. y < new
        BY <1>3, <3>0, <3>2 DEF NewerPart
      <4>3. ~(new <= y)
        BY <1>3, <3>0, <4>2
      <4>4. y < J[y].next /\ J[y].next \in ring /\ \A t \in ring : t <= y \/ J[y].next <= t
        BY <1>3, <4>1, <4>3 DEF FollowedBy
      <4>5. y <= J[y].next
        BY <1>2, <3>0, <4>4
      <4>6. J[y].next \in N
        BY <4>4, <4>5 DEF NewerPart
      <4>7. \A t \in N : t <= y \/ J[y].next <= t
        BY <1>3, <4>4
      <4> QED BY <3>0, <4>1, <4>4, <4>6, <4>7 DEF FollowedBy
    <3> QED BY <3>1, <3>2
  <2> QED BY <2>1 DEF IsRing
<1>13. InOrder(U)
  BY <1>10 DEF Sound, InOrder
<1>14. Descends(U)
  <2>1. ASSUME NEW s \in Ids
        PROVE  /\ U[s].status = "absent" => U[s] = Absent
               /\ U[s].parent < s /\ U[s].root <= s
               /\ U[s].next \in Born(U) \union {NoRow}
               /\ s \in Born(U) /\ U[s].parent = NoRow => U[s].root = s
    <3>1. /\ J[s].status = "absent" => J[s] = Absent
          /\ J[s].parent < s /\ J[s].root <= s
          /\ J[s].next \in Born(J) \union {NoRow}
          /\ s \in Born(J) /\ J[s].parent = NoRow => J[s].root = s
      BY DEF Sound, Descends
    <3>2. new \in Born(J) /\ oldest \in Born(J)
      BY <1>2, <1>3 DEF Born
    <3>3. U[s].next \in {J[s].next, new, oldest}
      BY <1>8
    <3>4. U[s].status = "absent" => U[s] = J[s]
      BY <1>8
    <3> QED BY <1>8, <1>9, <1>10, <3>1, <3>2, <3>3, <3>4
  <2>2. ASSUME NEW s \in Ids, U[s].parent # NoRow PROVE U[s].root = U[U[s].parent].root
    <3>1. J[s].parent # NoRow /\ J[s].parent \in Ids
      BY <1>1, <1>8, <2>2 DEF SessionRows
    <3>2. J[s].root = J[J[s].parent].root
      BY <3>1 DEF Sound, Descends
    <3>3. \A x \in Ids : U[x].parent = J[x].parent /\ U[x].root = J[x].root
      BY <1>8
    <3>4. U[s].parent = J[s].parent
      BY <3>3
    <3>5. U[s].root = J[s].root /\ U[J[s].parent].root = J[J[s].parent].root
      BY <3>1, <3>3
    <3> QED BY <3>2, <3>4, <3>5
  <2> QED BY <2>1, <2>2 DEF Descends
<1>15. RotatedLinks(U)
  <2>1. ASSUME NEW s \in Ids, U[s].status = "rotated"
        PROVE  /\ U[s].used
               /\ U[s].next # NoRow => U[U[s].next].parent = s
               /\ U[s].next # NoRow => \A t \in Ids : U[t].parent = s => t <= U[s].next
    <3>1. J[s].status = "rotated" /\ U[s] = J[s]
      BY <1>9, <2>1
    <3>2. J[s].next # NoRow => J[s].next \in Ids
      BY <1>1 DEF SessionRows
    <3>3. /\ J[s].used
          /\ J[s].next # NoRow => J[J[s].next].parent = s
          /\ J[s].next # NoRow => \A t \in Ids : J[t].parent = s => t <= J[s].next
      BY <3>1 DEF Sound, RotatedLinks
    <3>4. J[s].next # NoRow => U[J[s].next].parent = J[J[s].next].parent
      BY <1>8, <3>2
    <3>5. \A t \in Ids : U[t].parent = J[t].parent
      BY <1>8
    <3>6. U[s].used = J[s].used /\ U[s].next = J[s].next
      BY <3>1
    <3> QED BY <3>3, <3>4, <3>5, <3>6
  <2>2. ASSUME NEW s \in Ids, IsLive(U, s), NEW t \in Ids PROVE U[t].parent # s
    BY <1>8, <1>9, <2>2 DEF Sound, RotatedLinks
  <2> QED BY <2>1, <2>2 DEF RotatedLinks
<1>16. \A s \in Ids : IsLive(U, s) /\ s \notin N => IsLive(J, s) /\ U[s] = J[s] /\ J[s].parent # token
  BY <1>2, <1>3, <1>8, <1>9 DEF IsLive
<1>17. Ringed(U)
  <2>1. ASSUME NEW s \in Ids, IsLive(U, s)
        PROVE  /\ U[s].parent = NoRow => U[s].next = NoRow
               /\ U[s].parent # NoRow /\ U[s].next = NoRow => Rivals(U, U[s].parent) = {s}
               /\ U[s].next # NoRow => FollowedBy(Rivals(U, U[s].parent), s, U[s].next)
    <3>1. CASE s \in N
      <4>1. U[s].parent = token
        BY <1>11, <3>1 DEF Rivals
      <4>2. FollowedBy(N, s, U[s].next) /\ U[s].next \in N
        BY <1>12, <3>1 DEF IsRing, FollowedBy
      <4>3. U[s].next # NoRow
        BY <1>2, <1>3, <4>2
      <4> QED BY <1>2, <1>11, <4>1, <4>2, <4>3
    <3>2. CASE s \notin N
      <4>1. IsLive(J, s) /\ U[s] = J[s] /\ J[s].parent # token
        BY <1>16, <2>1, <3>2
      <4>2. /\ J[s].parent = NoRow => J[s].next = NoRow
            /\ J[s].parent # NoRow /\ J[s].next = NoRow => Rivals(J, J[s].parent) = {s}
            /\ J[s].next # NoRow => FollowedBy(Rivals(J, J[s].parent), s, J[s].next)
        BY <4>1 DEF Sound, Ringed
      <4>3. J[s].parent \in Ids \union {NoRow}
        BY <1>1 DEF SessionRows
      <4> QED BY <1>11, <4>1, <4>2, <4>3
    <3> QED BY <3>1, <3>2
  <2> QED BY <2>1 DEF Ringed
<1>18. UsedIsAlone(U)
  <2>1. ASSUME NEW s \in Ids, IsLive(U, s), U[s].used PROVE U[s].next = NoRow
    BY <1>2, <1>3, <1>8, <1>16, <2>1 DEF Sound, UsedIsAlone, Unused
  <2>2. ASSUME NEW s \in Ids, NEW t \in Ids, U[t].used, IsLive(U, s),
               U[s].parent = U[t].parent, U[s].parent # NoRow
        PROVE  s = t
    BY <1>8, <1>9, <2>2 DEF Sound, UsedIsAlone
  <2> QED BY <2>1, <2>2 DEF UsedIsAlone
<1>19. OneRing(U)
  BY <1>8, <1>9 DEF Sound, OneRing
<1>20. Sound(U)
  BY <1>8, <1>13, <1>14, <1>15, <1>17, <1>18, <1>19 DEF Sound
<1>21. ASSUME NEW t \in Born(J)
       PROVE  _linked_ids(U, t) \subseteq _linked_ids(J, t)
  <2>0. t \in Ids
    BY DEF Born
  <2>1. CASE ~Exists(U, t)
    BY <2>1 DEF _linked_ids
  <2>2. CASE Exists(U, t)
    <3> DEFINE L == _linked_ids(J, t)
    <3>1. Exists(J, t)
      BY <1>9, <2>0, <2>2
    <3>2. t \in L /\ L \in SUBSET Ids /\ Closed(J, t, L)
      BY <1>1, <2>0, <3>1, WalkIsClosed
    <3>3. ASSUME NEW y \in ring, y \in L PROVE ring \subseteq L
      <4>1. _linked_ids(J, y) = ring
        BY <1>1, <1>2, WalkOfRing
      <4>2. IsLive(J, y)
        BY DEF IsRing
      <4>3. _linked_ids(J, y) \subseteq L
        BY <1>1, <2>0, <3>1, <3>3, <4>2, WalkGoesOn
      <4> QED BY <4>1, <4>3
    <3> HIDE DEF L
    <3>4. ASSUME NEW x \in L PROVE Follows(U, t, x) \subseteq L
      <4>1. CASE x \in ring
        <5>1. Follows(U, t, x) \subseteq ring
          <6>1. U[x].next \in ring
            <7>1. x \notin D /\ x # new => U[x].next = J[x].next
              BY <1>8, <3>2
            <7>2. J[x].next \in ring
              BY <4>1 DEF IsRing, FollowedBy
            <7> QED BY <1>3, <1>8, <3>2, <7>1, <7>2
          <6> QED BY <6>1 DEF Follows
        <5> QED BY <3>3, <4>1, <5>1
      <4>2. CASE x \notin ring
        <5>1. U[x] = J[x]
          BY <1>3, <1>8, <3>2, <4>2
        <5>2. Follows(U, t, x) = Follows(J, t, x)
          BY <5>1 DEF Follows, IsLive
        <5> QED BY <3>2, <5>2 DEF Closed
      <4> QED BY <4>1, <4>2
    <3>5. Closed(U, t, L)
      BY <3>4 DEF Closed
    <3>6. _linked_ids(U, t) \subseteq L
      BY <3>2, <3>5, WalkIsLeast
    <3> QED BY <3>6 DEF L
  <2> QED BY <2>1, <2>2
<1>22. Onwards(J, U)
  <2>1. \A t \in Born(J) : t \in Ids
    BY DEF Born
  <2>2. \A t \in Born(J) : /\ J[t].used => U[t].used
                           /\ IsLive(U, t) => IsLive(J, t)
                           /\ U[t].parent = J[t].parent
    BY <1>8, <1>9, <2>1
  <2> QED BY <1>10, <1>21, <2>2 DEF Onwards
<1> QED BY <1>3, <1>8, <1>9, <1>10, <1>11, <1>20, <1>22

LEMMA RotatedAgainIs ==
  ASSUME NEW S, NEW T, Sound(S), NEW token \in Ids, _may_rotate_again(S, token),
         NEW new \in Ids, Born(S) = 1..(new - 1), Kept \in Nat \ {0},
         T = _rotate_again(S, token, new)
  PROVE  LET J == Joined(S, token, new)
             ring == Rivals(S, token) \union {new}
             N == Newest(ring)
         IN  /\ Cardinality(N) <= Kept /\ IsFiniteSet(ring)
             /\ \E oldest \in Ids :
                  /\ NewerPart(N, ring, oldest, new)
                  /\ T = IF Cardinality(ring) > Kept THEN Shortened(J, ring, N, oldest, new)
                         ELSE J
<1> DEFINE J == Joined(S, token, new)
           ring == Rivals(S, token) \union {new}
           N == Newest(ring)
           oldest == CHOOSE s \in N : \A t \in N : s <= t
<1>1. /\ Sound(J) /\ Onwards(S, J) /\ Born(J) = 1..new
      /\ IsRing(J, ring) /\ Rivals(J, token) = ring /\ J[new].parent = token
      /\ _linked_ids(J, new) = ring
      /\ \A y \in ring : y <= new /\ ~J[y].used
      /\ \A p \in Ids : p # token => Rivals(J, p) = Rivals(S, p)
      /\ \A s \in Ids : Exists(S, s) => Exists(J, s)
  BY JoinStep
<1>2. T = IF Cardinality(ring) > Kept THEN Shortened(J, ring, N, oldest, new) ELSE J
  <2>1. T = IF Cardinality(_linked_ids(J, new)) > Kept
            THEN LET N2 == Newest(_linked_ids(J, new))
                     o2 == CHOOSE s \in N2 : \A t \in N2 : s <= t
                 IN  _supersede([J EXCEPT ![new].next = o2],
                                _linked_ids(J, new) \ N2, new)
            ELSE J
    BY Zenon DEF _rotate_again, Joined
  <2> HIDE DEF J, ring
  <2> QED BY <1>1, <2>1, Zenon DEF Shortened
<1>3. new \in ring /\ ring \in SUBSET Ids
  BY DEF Rivals
<1> HIDE DEF J, ring
<1>4. /\ N \subseteq ring /\ new \in N /\ IsFiniteSet(ring) /\ Cardinality(N) <= Kept
      /\ \A s \in N, t \in ring : s <= t => t \in N
  BY <1>1, <1>3, NewestIs
<1> HIDE DEF N
<1>5. oldest \in N /\ \A t \in N : oldest <= t
  <2>1. N \in SUBSET Nat /\ N # {}
    BY <1>3, <1>4, IdsAreNat
  <2>2. \E m \in N : \A t \in N : m <= t
    BY <2>1, LeastExists, Zenon
  <2> QED BY <2>2, Zenon
<1> HIDE DEF oldest
<1>6. NewerPart(N, ring, oldest, new)
  BY <1>1, <1>4, <1>5 DEF NewerPart
<1>7. oldest \in Ids
  BY <1>3, <1>4, <1>5
<1> QED BY <1>2, <1>4, <1>6, <1>7 DEF J, ring, N, oldest

(* What a rotation of t into new leaves.                                   *)
Reissued(S, T, t, new) ==
  /\ Sound(T) /\ Onwards(S, T) /\ Born(T) = 1..new /\ FewRivals(T, Kept)
  /\ T[new].parent = t
  /\ \A s \in Ids : Exists(S, s) => Exists(T, s)

LEMMA RotateAgainStep ==
  ASSUME NEW S, NEW T, Sound(S), NEW token \in Ids, _may_rotate_again(S, token),
         NEW new \in Ids, Born(S) = 1..(new - 1), Kept \in Nat \ {0},
         FewRivals(S, Kept), T = _rotate_again(S, token, new)
  PROVE  /\ Reissued(S, T, token, new)
         /\ new \in Rivals(T, token)
         /\ Rivals(T, token) \subseteq Rivals(S, token) \union {new}
         /\ Newest(Rivals(S, token) \union {new}) \subseteq Rivals(T, token)
         /\ \A p \in Ids : p # token => Rivals(T, p) = Rivals(S, p)
<1> DEFINE J == Joined(S, token, new)
           ring == Rivals(S, token) \union {new}
           N == Newest(ring)
<1>1. /\ Sound(J) /\ Onwards(S, J) /\ Born(J) = 1..new
      /\ IsRing(J, ring) /\ Rivals(J, token) = ring /\ J[new].parent = token
      /\ _linked_ids(J, new) = ring
      /\ \A y \in ring : y <= new /\ ~J[y].used
      /\ \A p \in Ids : p # token => Rivals(J, p) = Rivals(S, p)
      /\ \A s \in Ids : Exists(S, s) => Exists(J, s)
  BY JoinStep
<1>2. Cardinality(N) <= Kept /\ IsFiniteSet(ring)
  BY RotatedAgainIs
<1>3. PICK oldest \in Ids :
        /\ NewerPart(N, ring, oldest, new)
        /\ T = IF Cardinality(ring) > Kept THEN Shortened(J, ring, N, oldest, new) ELSE J
  BY RotatedAgainIs
<1>4. N \in SUBSET ring /\ new \in N /\ new \in ring
  BY <1>3 DEF NewerPart
<1> HIDE DEF J, ring, N
<1>5. Unused(J, ring)
  BY <1>1 DEF Unused
<1>6. /\ Sound(T) /\ Onwards(J, T) /\ Born(T) = Born(J) /\ T[new].parent = token
      /\ N \subseteq Rivals(T, token) /\ Rivals(T, token) \subseteq ring
      /\ Cardinality(Rivals(T, token)) <= Kept
      /\ \A p \in Ids : p # token => Rivals(T, p) = Rivals(J, p)
      /\ \A s \in Ids : Exists(J, s) => Exists(T, s)
  <2>1. CASE Cardinality(ring) > Kept
    <3>1. T = Shortened(J, ring, N, oldest, new)
      BY <1>3, <2>1
    <3>2. /\ Sound(T) /\ Onwards(J, T) /\ Born(T) = Born(J)
          /\ Rivals(T, token) = N /\ T[new].parent = J[new].parent
          /\ \A p \in Ids : p # token => Rivals(T, p) = Rivals(J, p)
          /\ \A s \in Ids : Exists(J, s) => Exists(T, s)
      BY <1>1, <1>3, <1>5, <3>1, ShortenStep
    <3> QED BY <1>1, <1>2, <1>4, <3>2
  <2>2. CASE ~(Cardinality(ring) > Kept)
    <3>1. T = J
      BY <1>3, <2>2
    <3>2. Onwards(J, J)
      BY Zenon DEF Onwards
    <3>3. Cardinality(ring) <= Kept
      <4>1. Cardinality(ring) \in Nat
        BY <1>2, FS_CardinalityType
      <4> QED BY <2>2, <4>1
    <3> QED BY <1>1, <1>4, <3>1, <3>2, <3>3
  <2> QED BY <2>1, <2>2
<1>7. Onwards(S, T)
  BY <1>1, <1>6, OnwardsTwice
<1>8. FewRivals(T, Kept)
  <2>1. ASSUME NEW p \in Ids PROVE Cardinality(Rivals(T, p)) <= Kept
    <3>1. CASE p = token
      BY <1>6, <3>1
    <3>2. CASE p # token
      BY <1>1, <1>6, <3>2 DEF FewRivals
    <3> QED BY <3>1, <3>2
  <2> QED BY <2>1 DEF FewRivals
<1>9. Reissued(S, T, token, new)
  BY <1>1, <1>6, <1>7, <1>8 DEF Reissued
<1> QED BY <1>1, <1>4, <1>6, <1>9 DEF ring, N

(***************************************************************************)
(* A refresh that is granted: _rotate, out of the ring if there is one, or *)
(* _rotate_again.                                                          *)
(***************************************************************************)
Refreshed(S, t, new) ==
  IF IsLive(S, t) THEN _rotate(S, t, new) ELSE _rotate_again(S, t, new)

LEMMA RefreshStep ==
  ASSUME NEW S, NEW T, Sound(S), NEW t \in Ids, IsLive(S, t) \/ _may_rotate_again(S, t),
         NEW new \in Ids, Born(S) = 1..(new - 1), Kept \in Nat \ {0},
         FewRivals(S, Kept), T = Refreshed(S, t, new)
  PROVE  Reissued(S, T, t, new)
<1>1. CASE IsLive(S, t)
  <2> DEFINE settled == IF S[t].next # NoRow THEN settle_contest(S, t) ELSE S
  <2>1. T = [settled EXCEPT ![new] = Issued(t, S[t].root),
                            ![t].status = "rotated", ![t].next = new, ![t].used = TRUE]
    BY <1>1 DEF Refreshed, _rotate
  <2> HIDE DEF settled
  <2>2. /\ Sound(settled) /\ Onwards(S, settled) /\ Born(settled) = Born(S)
        /\ \A p \in Ids : Rivals(settled, p) \subseteq Rivals(S, p)
        /\ \A s \in Ids : Exists(S, s) => Exists(settled, s)
        /\ IsLive(settled, t) /\ settled[t].next = NoRow /\ settled[t].root = S[t].root
    <3>1. CASE S[t].next # NoRow
      <4>1. settled = settle_contest(S, t)
        BY <3>1 DEF settled
      <4> QED BY <1>1, <3>1, <4>1, SettleStep
    <3>2. CASE S[t].next = NoRow
      <4>1. settled = S
        BY <3>2 DEF settled
      <4>2. Onwards(S, S)
        BY Zenon DEF Onwards
      <4> QED BY <1>1, <3>2, <4>1, <4>2
    <3> QED BY <3>1, <3>2
  <2>3. T = [settled EXCEPT ![new] = Issued(t, settled[t].root),
                            ![t].status = "rotated", ![t].next = new, ![t].used = TRUE]
    BY <2>1, <2>2
  <2>4. /\ Sound(T) /\ Onwards(settled, T) /\ Born(T) = 1..new
        /\ Rivals(T, t) = {new} /\ T[new].parent = t
        /\ \A p \in Ids : p # t => Rivals(T, p) \subseteq Rivals(settled, p)
        /\ \A s \in Ids : Exists(settled, s) => Exists(T, s)
    BY <2>2, <2>3, RotateStep
  <2>5. Onwards(S, T)
    BY <2>2, <2>4, OnwardsTwice
  <2>6. FewRivals(T, Kept)
    <3>1. FewRivals(settled, Kept)
      BY <2>2, FewerRivals
    <3>2. ASSUME NEW p \in Ids PROVE Cardinality(Rivals(T, p)) <= Kept
      <4>1. CASE p = t
        <5>1. Cardinality({new}) = 1
          BY FS_Singleton
        <5>2. Rivals(T, p) = {new} /\ 1 <= Kept
          BY <2>4, <4>1
        <5> QED BY <5>1, <5>2
      <4>2. CASE p # t
        <5>1. Rivals(T, p) \in SUBSET Rivals(settled, p)
          BY <2>4, <4>2
        <5>2. Cardinality(Rivals(T, p)) <= Cardinality(Rivals(settled, p))
          BY <5>1, RivalsCounted, FS_Subset
        <5>3. Cardinality(Rivals(settled, p)) <= Kept
          BY <3>1 DEF FewRivals
        <5> QED BY <5>2, <5>3, RivalsCounted
      <4> QED BY <4>1, <4>2
    <3> QED BY <3>2 DEF FewRivals
  <2> QED BY <2>2, <2>4, <2>5, <2>6 DEF Reissued
<1>2. CASE ~IsLive(S, t)
  <2>1. T = _rotate_again(S, t, new) /\ _may_rotate_again(S, t)
    BY <1>2 DEF Refreshed
  <2> QED BY <2>1, RotateAgainStep
<1> QED BY <1>1, <1>2

(***************************************************************************)
(* The state: the mix, the next id, and what a step of the table leaves of *)
(* the requests and the removals it is not a step of.                      *)
(***************************************************************************)
LEMMA MixFacts ==
  ASSUME mix \in Mixes
  PROVE  Kept \in Nat \ {0} /\ mix.kept = Kept /\ mix.sessions \in 1..MaxSessions
BY AuthAssumption DEF Kept

LEMMA NewIdIs ==
  ASSUME mix \in Mixes, Sound(sess), NewId <= mix.sessions
  PROVE  NewId \in Ids /\ Born(sess) = 1..(NewId - 1) /\ sess[NewId].status = "absent"
<1>1. Created = Born(sess)
  BY DEF Created, Born
<1>2. PICK n \in 0..MaxSessions : Born(sess) = 1..n
  BY DEF Sound, InOrder
<1>3. Cardinality(1..n) = n /\ n \in Nat
  <2>1. n \in Nat /\ 1 \in Nat
    BY <1>2, IdsAreNat
  <2>2. Cardinality(1..n) = IF 1 > n THEN 0 ELSE n - 1 + 1
    BY <2>1, FS_Interval
  <2> QED BY <2>1, <2>2
<1>4. NewId = n + 1
  BY <1>1, <1>2, <1>3 DEF NewId
<1>5. NewId \in Ids
  BY <1>3, <1>4, MixFacts, IdsAreNat DEF Ids
<1>6. NewId \notin Born(sess) /\ Born(sess) = 1..(NewId - 1)
  BY <1>2, <1>3, <1>4
<1> QED BY <1>5, <1>6 DEF Born

LEMMA YoungerThanBorn ==
  ASSUME NEW S, InOrder(S), NEW h \in Born(S), NEW x \in Ids \ Born(S)
  PROVE  h < x
<1>1. PICK n \in 0..MaxSessions : Born(S) = 1..n
  BY DEF InOrder
<1> QED BY <1>1, IdsAreNat DEF Ids

LEMMA RequestGoesOn ==
  ASSUME NEW S, NEW T, InOrder(S), Onwards(S, T), NEW row \in RequestRows,
         RequestSound(S, row), row.phase = "logout" => Exists(T, row.target)
  PROVE  RequestSound(T, row)
<1>1. Born(S) \subseteq Born(T)
  BY Zenon DEF Onwards
<1>2. row.phase = "logout" => T[row.target].used
  BY Zenon DEF RequestSound, Onwards
<1>3. ASSUME row.phase # "free", NEW x \in _linked_ids(T, row.target) \ Claimed(row),
             NEW h \in Claimed(row)
      PROVE  h < x
  <2>1. row.target \in Born(S) /\ h \in Born(S)
    BY <1>3 DEF RequestSound
  <2>2. _linked_ids(T, row.target) \subseteq
          _linked_ids(S, row.target) \union (Ids \ Born(S))
    BY <2>1, Zenon DEF Onwards
  <2>3. CASE x \in _linked_ids(S, row.target)
    BY <1>3, <2>3 DEF RequestSound
  <2>4. CASE x \in Ids \ Born(S)
    BY <2>1, <2>4, YoungerThanBorn
  <2> QED BY <2>2, <2>3, <2>4
<1> QED BY <1>1, <1>2, <1>3 DEF RequestSound

LEMMA RemovalGoesOn ==
  ASSUME NEW S, NEW T, InOrder(S), Onwards(S, T), NEW rem,
         RemovalSound(S, rem), \A s \in rem.locked : Exists(T, s)
  PROVE  RemovalSound(T, rem)
<1>1. Born(S) \subseteq Born(T)
  BY Zenon DEF Onwards
<1>2. \A s \in rem.locked : s \in Born(S)
  BY DEF RemovalSound, Born, Exists
<1>3. ASSUME NEW x \in Ids \ (rem.locked \union rem.want),
             NEW h \in rem.locked \union rem.want, IsLive(T, x)
      PROVE  h < x
  <2>1. h \in Born(S)
    BY <1>2 DEF RemovalSound
  <2>2. CASE x \in Born(S)
    <3>1. IsLive(S, x)
      BY <1>3, <2>2, Zenon DEF Onwards
    <3> QED BY <1>3, <3>1 DEF RemovalSound
  <2>3. CASE x \notin Born(S)
    BY <2>1, <2>3, YoungerThanBorn
  <2> QED BY <2>2, <2>3
<1> QED BY <1>1, <1>3 DEF RemovalSound

(* A request that has ended, and one that is not there.                    *)
LEMMA EndedRequest ==
  ASSUME NEW S, NEW row \in RequestRows, row.phase \in {"free", "done"},
         row.phase = "done" => row.target \in Born(S),
         row.want = {}, row.locked = {}, row.issued \in Born(S) \union {NoRow}
  PROVE  RequestSound(S, row)
BY DEF RequestSound, Claimed

KeepsRows(S, T) == \A s \in Ids : Exists(S, s) => Exists(T, s)

Ended(row, answer, new) ==
  [row EXCEPT !.phase = "done", !.want = {}, !.locked = {}, !.answer = answer, !.issued = new]

LEMMA EndedIsSound ==
  ASSUME NEW S, NEW T, Born(S) \subseteq Born(T), NEW row \in RequestRows,
         RequestSound(S, row), row.phase # "free",
         NEW answer \in {"ok", "refused"}, NEW new \in Ids \union {NoRow},
         new = NoRow \/ new \in Born(T)
  PROVE  Ended(row, answer, new) \in RequestRows /\ RequestSound(T, Ended(row, answer, new))
<1> DEFINE e == Ended(row, answer, new)
<1>1. /\ e \in RequestRows /\ e.phase = "done" /\ e.want = {} /\ e.locked = {}
      /\ e.issued = new /\ e.target = row.target
  BY DEF Ended, RequestRows
<1>2. row.target \in Born(T)
  BY DEF RequestSound
<1> HIDE DEF e
<1>3. RequestSound(T, e)
  BY <1>1, <1>2, EndedRequest
<1> QED BY <1>1, <1>3 DEF e

LEMMA AnsweredIsEnded ==
  ASSUME AuthType, NEW r \in Requests, NEW answer, NEW new
  PROVE  Answered(r, answer, new) = [req EXCEPT ![r] = Ended(req[r], answer, new)]
BY DEF Answered, Ended, AuthType

(* A step of one request, or of none.                                      *)
LEMMA StateStep ==
  ASSUME IndInv, mix' = mix, Sound(sess'), Onwards(sess, sess'), FewRivals(sess', mix.kept),
         req' \in [Requests -> RequestRows],
         \A q \in Requests :
           \/ RequestSound(sess', req'[q])
           \/ req'[q] = req[q] /\ (req[q].phase = "logout" => Exists(sess', req[q].target)),
         remover' \in RemoverRows,
         \/ RemovalSound(sess', remover')
         \/ remover' = remover /\ \A s \in remover.locked : Exists(sess', s),
         client' \in [held : Ids \union {NoRow}, waiting : Requests \union {NoRequest}],
         client'.held \in Born(sess') \union {NoRow},
         Apart', Cuts'
  PROVE  IndInv'
<1>1. InOrder(sess)
  BY DEF IndInv, Sound
<1>2. ASSUME NEW q \in Requests PROVE RequestSound(sess', req'[q])
  <2>1. req[q] \in RequestRows /\ RequestSound(sess, req[q])
    BY DEF IndInv, AuthType, RequestsSound
  <2> QED BY <1>1, <2>1, RequestGoesOn
<1>3. RemovalSound(sess', remover')
  BY <1>1, RemovalGoesOn DEF IndInv
<1>4. AuthType'
  BY DEF IndInv, AuthType
<1>5. RequestsSound'
  BY <1>2 DEF RequestsSound
<1>6. HeldIsBorn'
  BY DEF HeldIsBorn
<1> QED BY <1>3, <1>4, <1>5, <1>6 DEF IndInv

LEMMA NothingMoved ==
  ASSUME IndInv
  PROVE  /\ Sound(sess) /\ Onwards(sess, sess) /\ FewRivals(sess, mix.kept)
         /\ KeepsRows(sess, sess)
BY Zenon DEF IndInv, Onwards, KeepsRows

LEMMA RequestSteps ==
  ASSUME IndInv, mix' = mix, Sound(sess'), Onwards(sess, sess'), FewRivals(sess', mix.kept),
         KeepsRows(sess, sess'), NEW r \in Requests, NEW row \in RequestRows,
         req' = [req EXCEPT ![r] = row], RequestSound(sess', row),
         row.locked \intersect remover.locked = {},
         remover' = remover, client' = client, Cuts'
  PROVE  IndInv'
<1>1. req' \in [Requests -> RequestRows]
  BY DEF IndInv, AuthType
<1>2. ASSUME NEW q \in Requests
      PROVE  \/ RequestSound(sess', req'[q])
             \/ req'[q] = req[q] /\ (req[q].phase = "logout" => Exists(sess', req[q].target))
  <2>1. CASE q = r
    BY <2>1 DEF IndInv, AuthType
  <2>2. CASE q # r
    <3>1. req'[q] = req[q] /\ RequestSound(sess, req[q]) /\ req[q] \in RequestRows
      BY <2>2 DEF IndInv, AuthType, RequestsSound
    <3>2. req[q].target \in Ids \/ req[q].target = NoRow
      BY <3>1 DEF RequestRows
    <3>3. req[q].phase = "logout" => req[q].target \in Born(sess) /\ Exists(sess, req[q].target)
      BY <3>1 DEF RequestSound
    <3> QED BY <3>1, <3>3 DEF KeepsRows, Born
  <2> QED BY <2>1, <2>2
<1>3. \A s \in remover.locked : Exists(sess', s)
  BY DEF IndInv, RemovalSound, KeepsRows
<1>4. client'.held \in Born(sess') \union {NoRow}
  BY DEF IndInv, HeldIsBorn, Onwards
<1>5. /\ remover' \in RemoverRows
      /\ client' \in [held : Ids \union {NoRow}, waiting : Requests \union {NoRequest}]
  BY DEF IndInv, AuthType
<1>6. Apart'
  BY DEF IndInv, AuthType, Apart
<1> QED BY <1>1, <1>2, <1>3, <1>4, <1>5, <1>6, StateStep

(* A step that leaves the table alone.                                     *)
LEMMA RowSteps ==
  ASSUME IndInv, UNCHANGED <<mix, sess, remover, client, removed>>,
         NEW r \in Requests, NEW row \in RequestRows,
         req' = [req EXCEPT ![r] = row], RequestSound(sess, row),
         row.locked \intersect remover.locked = {}
  PROVE  IndInv'
<1>1. Cuts'
  BY DEF IndInv, Cuts
<1> QED BY <1>1, NothingMoved, RequestSteps

(***************************************************************************)
(* The app.                                                                *)
(***************************************************************************)
LEMMA AppSteps ==
  ASSUME IndInv, UNCHANGED <<mix, sess, remover, removed>>,
         req' \in [Requests -> RequestRows],
         \A q \in Requests :
           req'[q] = req[q] \/ (RequestSound(sess, req'[q]) /\ req'[q].locked = {}),
         client' \in [held : Ids \union {NoRow}, waiting : Requests \union {NoRequest}],
         client'.held \in Born(sess) \union {NoRow}
  PROVE  IndInv'
<1>1. Cuts' /\ Apart'
  BY DEF IndInv, Cuts, Apart
<1>2. ASSUME NEW q \in Requests PROVE RequestSound(sess', req'[q])
  BY DEF IndInv, RequestsSound
<1>3. RemovalSound(sess', remover')
  BY DEF IndInv
<1>4. remover' \in RemoverRows
  BY DEF IndInv, AuthType
<1>5. /\ Sound(sess') /\ Onwards(sess, sess') /\ FewRivals(sess', mix.kept)
      /\ client'.held \in Born(sess') \union {NoRow}
  BY NothingMoved
<1> QED BY <1>1, <1>2, <1>3, <1>4, <1>5, StateStep

LEMMA FreeIsSound ==
  Free \in RequestRows /\ Free.locked = {} /\ \A S : RequestSound(S, Free)
<1>1. /\ Free \in RequestRows /\ Free.phase = "free" /\ Free.want = {}
      /\ Free.locked = {} /\ Free.issued = NoRow
  BY DEF Free, RequestRows
<1> QED BY <1>1, EndedRequest

LEMMA SendStep ==
  ASSUME IndInv, NEW r \in Requests, NEW kind \in mix.kinds, Send(r, kind)
  PROVE  IndInv'
<1> DEFINE row == [Free EXCEPT !.kind = kind, !.target = client.held,
                               !.phase = IF kind = "refresh" THEN "contest" ELSE "queued"]
<1>1. kind \in {"refresh", "use", "logout"}
  BY AuthAssumption DEF IndInv, AuthType
<1>2. client.held \in Born(sess) /\ client.held \in Ids
  BY DEF Send, IndInv, HeldIsBorn, Born
<1>3. /\ row \in RequestRows /\ row.want = {} /\ row.locked = {} /\ row.issued = NoRow
      /\ row.target = client.held /\ row.phase \in {"contest", "queued"}
  BY <1>1, <1>2 DEF Free, RequestRows
<1>4. req' = [req EXCEPT ![r] = row]
  BY DEF Send
<1> HIDE DEF row
<1>5. RequestSound(sess, row)
  BY <1>2, <1>3 DEF RequestSound, Claimed
<1>6. /\ req' \in [Requests -> RequestRows]
      /\ \A q \in Requests :
           req'[q] = req[q] \/ (RequestSound(sess, req'[q]) /\ req'[q].locked = {})
  BY <1>3, <1>4, <1>5 DEF IndInv, AuthType
<1>7. /\ client' \in [held : Ids \union {NoRow}, waiting : Requests \union {NoRequest}]
      /\ client'.held \in Born(sess) \union {NoRow}
  <2>1. client \in [held : Ids \union {NoRow}, waiting : Requests \union {NoRequest}]
    BY DEF IndInv, AuthType
  <2>2. CASE kind = "refresh"
    <3>1. client' = [client EXCEPT !.waiting = r]
      BY <2>2 DEF Send
    <3> QED BY <1>2, <2>1, <3>1
  <2>3. CASE kind = "logout"
    <3>1. client' = [held |-> NoRow, waiting |-> NoRequest]
      BY <2>3 DEF Send
    <3> QED BY <3>1
  <2>4. CASE kind = "use"
    <3>1. client' = client
      BY <2>4 DEF Send
    <3> QED BY <1>2, <2>1, <3>1
  <2> QED BY <1>1, <2>2, <2>3, <2>4
<1>8. UNCHANGED <<mix, sess, remover, removed>>
  BY DEF Send
<1> QED BY <1>6, <1>7, <1>8, AppSteps

LEMMA GiveUpStep ==
  ASSUME IndInv, GiveUp
  PROVE  IndInv'
<1>1. req' \in [Requests -> RequestRows] /\ \A q \in Requests : req'[q] = req[q]
  BY DEF GiveUp, IndInv, AuthType
<1>2. /\ client' \in [held : Ids \union {NoRow}, waiting : Requests \union {NoRequest}]
      /\ client'.held \in Born(sess) \union {NoRow}
  BY DEF GiveUp, IndInv, AuthType, HeldIsBorn
<1> QED BY <1>1, <1>2, AppSteps DEF GiveUp

LEMMA ReplyStep ==
  ASSUME IndInv, NEW r \in Requests, Reply(r) \/ Abort(r)
  PROVE  IndInv'
<1>1. req' = [req EXCEPT ![r] = Free]
  BY DEF Reply, Abort
<1>2. /\ req' \in [Requests -> RequestRows]
      /\ \A q \in Requests :
           req'[q] = req[q] \/ (RequestSound(sess, req'[q]) /\ req'[q].locked = {})
  BY <1>1, FreeIsSound DEF IndInv, AuthType
<1>3. req[r].issued \in Born(sess) \union {NoRow} /\ req[r].issued \in Ids \union {NoRow}
  BY DEF IndInv, RequestsSound, RequestSound, Born
<1>4. client' \in {client, [held |-> req[r].issued, waiting |-> NoRequest],
                   [client EXCEPT !.waiting = NoRequest]}
  BY DEF Reply, Abort
<1>5. /\ client' \in [held : Ids \union {NoRow}, waiting : Requests \union {NoRequest}]
      /\ client'.held \in Born(sess) \union {NoRow}
  BY <1>3, <1>4 DEF IndInv, AuthType, HeldIsBorn
<1>6. UNCHANGED <<mix, sess, remover, removed>>
  BY DEF Reply, Abort
<1> QED BY <1>2, <1>5, <1>6, AppSteps

(***************************************************************************)
(* lock_contest.                                                           *)
(***************************************************************************)
LEMMA WalkIsBorn ==
  ASSUME NEW S, Sound(S), NEW x \in Born(S)
  PROVE  _linked_ids(S, x) \in SUBSET Born(S)
<1>1. S \in [Ids -> SessionRows] /\ Born(S) \in SUBSET Ids
  BY DEF Sound, Born
<1>2. \A y \in Born(S) : S[y].next \in Born(S) \union {NoRow}
  BY <1>1 DEF Sound, Descends
<1>3. Closed(S, x, Born(S))
  BY <1>2 DEF Closed, Follows
<1> QED BY <1>1, <1>3, WalkIsLeast, Zenon

LEMMA WalkStep ==
  ASSUME IndInv, NEW r \in Requests, Walk(r)
  PROVE  IndInv'
<1> DEFINE row == [req[r] EXCEPT !.phase = "locking", !.want = Missing(r)]
           old == req[r]
<1>1. old \in RequestRows /\ RequestSound(sess, old) /\ Sound(sess)
  BY DEF IndInv, AuthType, RequestsSound
<1>2. old.phase = "contest" /\ Missing(r) # {} /\ old.want = {} /\ Claimed(old) = old.locked
      /\ old.target \in Born(sess)
  BY <1>1 DEF Walk, RequestSound, Claimed
<1>3. Missing(r) = _linked_ids(sess, old.target) \ old.locked
  BY DEF Missing
<1>4. Missing(r) \in SUBSET Born(sess) /\ Born(sess) \in SUBSET Ids
  BY <1>1, <1>2, <1>3, WalkIsBorn DEF Born
<1>5. /\ row \in RequestRows /\ row.phase = "locking" /\ row.want = Missing(r)
      /\ row.locked = old.locked /\ row.issued = old.issued /\ row.target = old.target
  BY <1>1, <1>4 DEF RequestRows
<1>6. Claimed(row) = old.locked \union Missing(r)
  BY <1>5 DEF Claimed
<1>7. req' = [req EXCEPT ![r] = row]
  BY DEF Walk, IndInv, AuthType
<1> HIDE DEF row, old
<1>8. RequestSound(sess, row)
  <2>1. \A h \in old.locked, x \in Missing(r) : h < x
    BY <1>1, <1>2, <1>3 DEF RequestSound
  <2>2. _linked_ids(sess, row.target) \ Claimed(row) = {}
    BY <1>3, <1>5, <1>6
  <2> QED BY <1>1, <1>2, <1>4, <1>5, <1>6, <2>1, <2>2 DEF RequestSound
<1>9. row.locked \intersect remover.locked = {}
  BY <1>5 DEF IndInv, Apart, old
<1> QED BY <1>5, <1>7, <1>8, <1>9, RowSteps DEF Walk

LEMMA LowestIs ==
  ASSUME NEW W \in SUBSET Ids, W # {}
  PROVE  Lowest(W) \in W /\ \A t \in W : Lowest(W) <= t
<1>1. W \in SUBSET Nat
  BY IdsAreNat
<1>2. \E s \in W : \A t \in W : s <= t
  BY <1>1, LeastExists, Zenon
<1> QED BY <1>2, Zenon DEF Lowest

LEMMA LockRowStep ==
  ASSUME IndInv, NEW r \in Requests, LockRow(r)
  PROVE  IndInv'
<1> DEFINE old == req[r]
           s == Lowest(old.want)
           row == [old EXCEPT !.locked = @ \union {s}, !.want = @ \ {s},
                              !.phase = IF old.want = {s} THEN "contest" ELSE @]
<1>1. old \in RequestRows /\ RequestSound(sess, old)
  BY DEF IndInv, AuthType, RequestsSound
<1>2. old.phase = "locking" /\ old.want # {} /\ old.want \in SUBSET Ids
  BY <1>1 DEF LockRow, RequestSound, RequestRows
<1>3. s \in old.want /\ \A t \in old.want : s <= t
  BY <1>2, LowestIs
<1>4. req' = [req EXCEPT ![r] = row]
  BY DEF LockRow, IndInv, AuthType
<1>u. Unlocked(s)
  BY DEF LockRow
<1> HIDE DEF s
<1>5. /\ row \in RequestRows /\ row.locked = old.locked \union {s} /\ row.want = old.want \ {s}
      /\ row.phase = IF old.want = {s} THEN "contest" ELSE "locking"
      /\ row.issued = old.issued /\ row.target = old.target
  BY <1>1, <1>2, <1>3 DEF RequestRows
<1> HIDE DEF row, old
<1>6. Claimed(row) = Claimed(old)
  BY <1>2, <1>3, <1>5 DEF Claimed
<1>7. row.phase = "locking" <=> row.want # {}
  BY <1>2, <1>3, <1>5
<1>8. ASSUME NEW h \in row.locked, NEW x \in row.want PROVE h < x
  <2>1. x \in old.want /\ x # s /\ x \in Nat /\ s \in Nat
    BY <1>2, <1>3, <1>5, <1>8, IdsAreNat
  <2>2. CASE h \in old.locked
    BY <1>1, <2>1, <2>2 DEF RequestSound
  <2>3. CASE h = s
    BY <1>3, <2>1, <2>3
  <2> QED BY <1>5, <1>8, <2>2, <2>3
<1>9. RequestSound(sess, row)
  BY <1>1, <1>2, <1>5, <1>6, <1>7, <1>8 DEF RequestSound
<1>10. row.locked \intersect remover.locked = {}
  BY <1>5, <1>u DEF IndInv, Apart, Unlocked, old
<1> QED BY <1>4, <1>5, <1>9, <1>10, RowSteps DEF LockRow

(***************************************************************************)
(* require_user, _record_first_use, _claim_contest and logout.             *)
(***************************************************************************)
LEMMA NoneCameBack ==
  ASSUME IndInv, Onwards(sess, sess'), Born(sess') = Born(sess)
  PROVE  PassSound(sess', remover) /\ CutSound(sess', removed)
<1>1. \A s \in Ids : IsLive(sess', s) => s \in Born(sess)
  <2>1. \A s \in Ids : IsLive(sess', s) => s \in Born(sess')
    BY DEF Born, IsLive
  <2> QED BY <2>1
<1>2. \A s \in Ids : IsLive(sess', s) => IsLive(sess, s) /\ sess'[s].parent = sess[s].parent
  BY <1>1, Zenon DEF Onwards
<1>3. remover.locked \in SUBSET Ids /\ PassSound(sess, remover) /\ CutSound(sess, removed)
  BY DEF IndInv, AuthType, RemoverRows, Cuts
<1> QED BY <1>2, <1>3 DEF PassSound, CutSound

LEMMA KeptFew ==
  ASSUME IndInv, \A p \in Ids : Rivals(sess', p) \subseteq Rivals(sess, p)
  PROVE  FewRivals(sess', mix.kept)
<1>1. mix.kept \in Nat /\ FewRivals(sess, mix.kept)
  BY MixFacts DEF IndInv, AuthType
<1> QED BY <1>1, FewerRivals

AcceptedRow(row) ==
  IF row.kind = "logout" THEN [row EXCEPT !.phase = "logout", !.locked = {}]
  ELSE Ended(row, "ok", NoRow)

LEMMA AcceptedIs ==
  ASSUME AuthType, NEW r \in Requests
  PROVE  Accepted(r) = [req EXCEPT ![r] = AcceptedRow(req[r])]
BY AnsweredIsEnded DEF Accepted, AcceptedRow, AuthType

LEMMA AcceptedIsSound ==
  ASSUME NEW S, NEW T, Born(S) \subseteq Born(T), NEW row \in RequestRows,
         RequestSound(S, row), row.phase \in {"queued", "own", "contest"},
         T[row.target].used, Exists(T, row.target)
  PROVE  AcceptedRow(row) \in RequestRows /\ RequestSound(T, AcceptedRow(row))
<1>1. CASE row.kind = "logout"
  <2> DEFINE a == [row EXCEPT !.phase = "logout", !.locked = {}]
  <2>1. /\ a \in RequestRows /\ a.phase = "logout" /\ a.want = row.want /\ a.locked = {}
        /\ a.issued = row.issued /\ a.target = row.target /\ a.kind = "logout"
    BY <1>1 DEF RequestRows
  <2>2. a = AcceptedRow(row)
    BY <1>1 DEF AcceptedRow
  <2> HIDE DEF a
  <2>3. a.want = {}
    BY <2>1 DEF RequestSound
  <2>4. Claimed(a) = {}
    BY <2>1, <2>3 DEF Claimed
  <2>5. RequestSound(T, a)
    BY <2>1, <2>3, <2>4 DEF RequestSound
  <2> QED BY <2>1, <2>2, <2>5
<1>2. CASE row.kind # "logout"
  <2>1. AcceptedRow(row) = Ended(row, "ok", NoRow) /\ row.phase # "free"
    BY <1>2 DEF AcceptedRow
  <2> QED BY <2>1, EndedIsSound
<1> QED BY <1>1, <1>2

LEMMA EndedLocks ==
  ASSUME NEW row \in RequestRows, NEW answer, NEW new
  PROVE  Ended(row, answer, new).locked = {}
BY DEF Ended, RequestRows

LEMMA AcceptedLocks ==
  ASSUME NEW row \in RequestRows
  PROVE  AcceptedRow(row).locked = {}
BY DEF AcceptedRow, Ended, RequestRows

LEMMA RequireUserStep ==
  ASSUME IndInv, NEW r \in Requests, require_user(r)
  PROVE  IndInv'
<1> DEFINE old == req[r]
           t == old.target
<1>1. old \in RequestRows /\ RequestSound(sess, old) /\ AuthType /\ Sound(sess)
  BY DEF IndInv, AuthType, RequestsSound
<1>2. old.phase = "queued" /\ t \in Born(sess) /\ t \in Ids /\ old.want = {}
      /\ old.locked = {}
  BY <1>1 DEF require_user, RequestSound, Born
<1>3. UNCHANGED <<mix, sess, remover, client, removed>>
  BY DEF require_user
<1>4. CASE ~IsLive(sess, t) \/ ~active
  <2>1. req' = [req EXCEPT ![r] = Ended(old, "refused", NoRow)]
    BY <1>1, <1>4, AnsweredIsEnded DEF require_user
  <2>2. /\ Ended(old, "refused", NoRow) \in RequestRows
        /\ RequestSound(sess, Ended(old, "refused", NoRow))
        /\ Ended(old, "refused", NoRow).locked = {}
    BY <1>1, <1>2, EndedIsSound, EndedLocks
  <2> QED BY <1>3, <2>1, <2>2, RowSteps
<1>5. CASE IsLive(sess, t) /\ active /\ sess[t].used
  <2>1. req' = [req EXCEPT ![r] = AcceptedRow(old)]
    BY <1>1, <1>5, AcceptedIs DEF require_user
  <2>2. /\ AcceptedRow(old) \in RequestRows /\ RequestSound(sess, AcceptedRow(old))
        /\ AcceptedRow(old).locked = {}
    BY <1>1, <1>2, <1>5, AcceptedIsSound, AcceptedLocks DEF Exists, IsLive
  <2> QED BY <1>3, <2>1, <2>2, RowSteps
<1>6. CASE IsLive(sess, t) /\ active /\ ~sess[t].used
  <2> DEFINE row == [old EXCEPT !.phase = IF sess[t].next = NoRow THEN "own" ELSE "contest"]
  <2>1. req' = [req EXCEPT ![r] = row]
    BY <1>1, <1>6 DEF require_user, AuthType
  <2>2. /\ row \in RequestRows /\ row.want = {} /\ row.locked = {} /\ row.target = t
        /\ row.issued = old.issued
        /\ row.phase = IF sess[t].next = NoRow THEN "own" ELSE "contest"
    BY <1>1, <1>2 DEF RequestRows
  <2> HIDE DEF row
  <2>3. Claimed(row) = IF sess[t].next = NoRow THEN {t} ELSE {}
    BY <2>2 DEF Claimed
  <2>4. sess[t].next = NoRow => _linked_ids(sess, t) = {t}
    BY <1>1, <1>2, <1>6, WalkAlone DEF Sound, Exists, IsLive
  <2>5. \A x \in _linked_ids(sess, row.target) \ Claimed(row), h \in Claimed(row) : h < x
    BY <2>2, <2>3, <2>4
  <2>6. row.issued \in Born(sess) \union {NoRow}
    BY <1>1, <2>2 DEF RequestSound
  <2>7. RequestSound(sess, row)
    BY <1>2, <2>2, <2>3, <2>5, <2>6 DEF RequestSound
  <2> QED BY <1>3, <2>1, <2>2, <2>7, RowSteps
<1> QED BY <1>4, <1>5, <1>6

(* A first use of a session that is in no ring.                            *)
LEMMA FirstUse ==
  ASSUME IndInv, NEW T, NEW r \in Requests, req[r].phase \in {"own", "contest"},
         IsLive(sess, req[r].target), Sound(T), Onwards(sess, T), Born(T) = Born(sess),
         \A p \in Ids : Rivals(T, p) \subseteq Rivals(sess, p),
         KeepsRows(sess, T), IsLive(T, req[r].target), T[req[r].target].next = NoRow,
         sess' = [T EXCEPT ![req[r].target].used = TRUE],
         req' = Accepted(r), UNCHANGED <<mix, remover, client, removed>>
  PROVE  IndInv'
<1> DEFINE old == req[r]
           t == old.target
<1>1. old \in RequestRows /\ RequestSound(sess, old) /\ AuthType
  BY DEF IndInv, AuthType, RequestsSound
<1>2. t \in Ids
  BY <1>1 DEF RequestSound, Born
<1>3. /\ Sound(sess') /\ Onwards(T, sess') /\ Born(sess') = Born(T)
      /\ \A p \in Ids : Rivals(sess', p) = Rivals(T, p)
      /\ \A s \in Ids : sess'[s].status = T[s].status
      /\ sess'[t].used
  <2>1. /\ IsLive(T, t) /\ T[t].next = NoRow /\ Sound(T)
        /\ sess' = UsedAt(T, t)
    BY DEF UsedAt
  <2> HIDE DEF t
  <2> QED BY <1>2, <2>1, UseStep
<1>4. Onwards(sess, sess') /\ Born(sess') = Born(sess)
  BY <1>3, OnwardsTwice
<1>5. FewRivals(sess', mix.kept)
  BY <1>3, KeptFew
<1>6. KeepsRows(sess, sess') /\ Exists(sess', t)
  BY <1>2, <1>3 DEF KeepsRows, Exists, IsLive
<1>7. req' = [req EXCEPT ![r] = AcceptedRow(old)]
  BY <1>1, AcceptedIs
<1>8. AcceptedRow(old) \in RequestRows /\ RequestSound(sess', AcceptedRow(old))
  BY <1>1, <1>3, <1>4, <1>6, AcceptedIsSound
<1>9. Cuts'
  BY <1>4, NoneCameBack DEF Cuts
<1>10. AcceptedRow(old).locked = {}
  BY <1>1, AcceptedLocks
<1> QED BY <1>3, <1>4, <1>5, <1>6, <1>7, <1>8, <1>9, <1>10, RequestSteps

LEMMA RecordFirstUseStep ==
  ASSUME IndInv, NEW r \in Requests, _record_first_use(r)
  PROVE  IndInv'
<1> DEFINE old == req[r]
           t == old.target
<1>1. old \in RequestRows /\ RequestSound(sess, old) /\ AuthType /\ Sound(sess)
  BY DEF IndInv, AuthType, RequestsSound
<1>2. old.phase = "own" /\ t \in Born(sess) /\ t \in Ids /\ old.want = {} /\ old.locked = {}
  BY <1>1 DEF _record_first_use, RequestSound, Born
<1>3. UNCHANGED <<mix, remover, client, removed>>
  BY DEF _record_first_use
<1>4. CASE ~IsLive(sess, t)
  <2>1. req' = [req EXCEPT ![r] = Ended(old, "refused", NoRow)] /\ sess' = sess
    BY <1>1, <1>4, AnsweredIsEnded DEF _record_first_use
  <2>2. /\ Ended(old, "refused", NoRow) \in RequestRows
        /\ RequestSound(sess, Ended(old, "refused", NoRow))
        /\ Ended(old, "refused", NoRow).locked = {}
    BY <1>1, <1>2, EndedIsSound, EndedLocks
  <2> QED BY <1>3, <2>1, <2>2, RowSteps
<1>5. CASE IsLive(sess, t) /\ sess[t].next # NoRow
  <2> DEFINE row == [old EXCEPT !.phase = "contest", !.locked = {t}]
  <2>1. req' = [req EXCEPT ![r] = row] /\ sess' = sess
    BY <1>1, <1>5 DEF _record_first_use, AuthType
  <2>2. /\ row \in RequestRows /\ row.want = {} /\ row.locked = {t} /\ row.target = t
        /\ row.issued = old.issued /\ row.phase = "contest"
    BY <1>1, <1>2 DEF RequestRows
  <2> HIDE DEF row
  <2>3. Claimed(row) = {t} /\ Claimed(old) = {t}
    BY <1>2, <2>2 DEF Claimed
  <2>4. RequestSound(sess, row)
    BY <1>1, <1>2, <2>2, <2>3 DEF RequestSound
  <2>5. row.locked \intersect remover.locked = {}
    BY <2>2 DEF _record_first_use, Unlocked
  <2> QED BY <1>3, <2>1, <2>2, <2>4, <2>5, RowSteps
<1>6. CASE IsLive(sess, t) /\ sess[t].next = NoRow
  <2>1. sess' = [sess EXCEPT ![t].used = TRUE] /\ req' = Accepted(r)
    BY <1>6 DEF _record_first_use
  <2>2. Onwards(sess, sess) /\ KeepsRows(sess, sess)
    BY NothingMoved
  <2> QED BY <1>1, <1>2, <1>3, <1>6, <2>1, <2>2, FirstUse
<1> QED BY <1>4, <1>5, <1>6

LEMMA ClaimContestStep ==
  ASSUME IndInv, NEW r \in Requests, _claim_contest(r)
  PROVE  IndInv'
<1> DEFINE old == req[r]
           t == old.target
           T == IF sess[t].next # NoRow THEN settle_contest(sess, t) ELSE sess
<1>1. old \in RequestRows /\ RequestSound(sess, old) /\ AuthType /\ Sound(sess)
  BY DEF IndInv, AuthType, RequestsSound
<1>2. old.phase = "contest" /\ t \in Born(sess) /\ t \in Ids
  BY <1>1 DEF _claim_contest, ContestLocked, RequestSound, Born
<1>3. UNCHANGED <<mix, remover, client, removed>>
  BY DEF _claim_contest
<1>4. CASE ~IsLive(sess, t)
  <2>1. req' = [req EXCEPT ![r] = Ended(old, "refused", NoRow)] /\ sess' = sess
    BY <1>1, <1>4, AnsweredIsEnded DEF _claim_contest
  <2>2. /\ Ended(old, "refused", NoRow) \in RequestRows
        /\ RequestSound(sess, Ended(old, "refused", NoRow))
        /\ Ended(old, "refused", NoRow).locked = {}
    BY <1>1, <1>2, EndedIsSound, EndedLocks
  <2> QED BY <1>3, <2>1, <2>2, RowSteps
<1>5. CASE IsLive(sess, t)
  <2>1. sess' = [T EXCEPT ![t].used = TRUE] /\ req' = Accepted(r)
    BY <1>5 DEF _claim_contest
  <2> HIDE DEF T
  <2>2. /\ Sound(T) /\ Onwards(sess, T) /\ Born(T) = Born(sess)
        /\ \A p \in Ids : Rivals(T, p) \subseteq Rivals(sess, p)
        /\ KeepsRows(sess, T) /\ IsLive(T, t) /\ T[t].next = NoRow
    <3>1. CASE sess[t].next # NoRow
      <4>1. T = settle_contest(sess, t)
        BY <3>1 DEF T
      <4> QED BY <1>1, <1>2, <1>5, <3>1, <4>1, SettleStep DEF KeepsRows
    <3>2. CASE sess[t].next = NoRow
      <4>1. T = sess
        BY <3>2 DEF T
      <4> QED BY <1>1, <1>5, <3>2, <4>1, NothingMoved
    <3> QED BY <3>1, <3>2
  <2> QED BY <1>2, <1>3, <1>5, <2>1, <2>2, FirstUse
<1> QED BY <1>4, <1>5

(* A step in which rows leave, for a request.                              *)
LEMMA RowsLeave ==
  ASSUME IndInv, NEW r \in Requests, req[r].phase # "free",
         sess' \in [Ids -> SessionRows], LeavesWhole(sess, sess'), KeepsRows(sess, sess'),
         NEW answer \in {"ok", "refused"}, req' = Answered(r, answer, NoRow),
         UNCHANGED <<mix, remover, client, removed>>
  PROVE  IndInv'
<1> DEFINE old == req[r]
<1>1. old \in RequestRows /\ RequestSound(sess, old) /\ AuthType /\ Sound(sess)
  BY DEF IndInv, AuthType, RequestsSound
<1>2. /\ Sound(sess') /\ Onwards(sess, sess') /\ Born(sess') = Born(sess)
      /\ \A p \in Ids : Rivals(sess', p) \subseteq Rivals(sess, p)
  BY <1>1, LeavingStep
<1>3. FewRivals(sess', mix.kept) /\ Cuts'
  BY <1>2, KeptFew, NoneCameBack DEF Cuts
<1>4. req' = [req EXCEPT ![r] = Ended(old, answer, NoRow)]
  BY <1>1, AnsweredIsEnded
<1>5. /\ Ended(old, answer, NoRow) \in RequestRows
      /\ RequestSound(sess', Ended(old, answer, NoRow))
      /\ Ended(old, answer, NoRow).locked = {}
  BY <1>1, <1>2, EndedIsSound, EndedLocks
<1> QED BY <1>2, <1>3, <1>4, <1>5, RequestSteps

LEMMA LogoutStep ==
  ASSUME IndInv, NEW r \in Requests, logout(r)
  PROVE  IndInv'
<1> DEFINE t == req[r].target
<1>1. Sound(sess) /\ RequestSound(sess, req[r]) /\ req[r].phase = "logout"
  BY DEF IndInv, RequestsSound, logout
<1>2. t \in Ids /\ sess[t].used /\ Exists(sess, t)
  BY <1>1 DEF RequestSound, Born
<1>3. sess' = [sess EXCEPT ![t].status = "logout"]
  BY DEF logout
<1> HIDE DEF t
<1>4. sess \in [Ids -> SessionRows] /\ UsedIsAlone(sess)
  BY <1>1 DEF Sound
<1>5. ASSUME NEW row \in SessionRows
      PROVE  LET n == [row EXCEPT !.status = "logout"]
             IN  /\ n \in SessionRows /\ n.status = "logout" /\ n.next = row.next
                 /\ n.used = row.used /\ n.parent = row.parent /\ n.root = row.root
  BY DEF SessionRows
<1>6. /\ sess' \in [Ids -> SessionRows]
      /\ \A s \in Ids : s # t => sess'[s] = sess[s]
      /\ sess'[t].status = "logout" /\ sess'[t].next = sess[t].next
      /\ sess'[t].used = sess[t].used /\ sess'[t].parent = sess[t].parent
      /\ sess'[t].root = sess[t].root
  BY <1>2, <1>3, <1>4, <1>5
<1>7. LeavesWhole(sess, sess')
  <2>1. \A s, u \in Ids : IsLive(sess, s) /\ ~IsLive(sess', s) /\ sess[s].parent # NoRow
          /\ IsLive(sess, u) /\ sess[u].parent = sess[s].parent => ~IsLive(sess', u)
    BY <1>2, <1>4, <1>6 DEF IsLive, UsedIsAlone
  <2> QED BY <1>2, <1>6, <2>1 DEF LeavesWhole, IsLive, Exists
<1>8. KeepsRows(sess, sess')
  BY <1>6 DEF KeepsRows, Exists
<1>9. UNCHANGED <<mix, remover, client, removed>> /\ req' = Answered(r, "ok", NoRow)
  BY DEF logout
<1> QED BY <1>1, <1>6, <1>7, <1>8, <1>9, RowsLeave

(***************************************************************************)
(* refresh.                                                                *)
(***************************************************************************)
LEMMA RefusedStep ==
  ASSUME IndInv, NEW r \in Requests, refresh_refused(r)
  PROVE  IndInv'
<1> DEFINE t == req[r].target
<1>1. Sound(sess) /\ RequestSound(sess, req[r]) /\ req[r].phase = "contest"
  BY DEF IndInv, RequestsSound, refresh_refused, ContestLocked
<1>2. t \in Ids
  BY <1>1 DEF RequestSound, Born
<1>3. /\ UNCHANGED <<mix, remover, client, removed>> /\ req' = Answered(r, "refused", NoRow)
      /\ \/ sess' = sess
         \/ IsLive(sess, t) /\ sess[t].next = NoRow /\ sess' = [sess EXCEPT ![t].status = "expired"]
  BY DEF refresh_refused
<1> HIDE DEF t
<1>4. sess \in [Ids -> SessionRows] /\ Ringed(sess)
  BY <1>1 DEF Sound
<1>5. /\ sess' \in [Ids -> SessionRows] /\ LeavesWhole(sess, sess') /\ KeepsRows(sess, sess')
  <2>1. CASE sess' = sess
    <3>1. LeavesWhole(sess, sess)
      BY <1>4 DEF LeavesWhole
    <3> QED BY <1>4, <2>1, <3>1, NothingMoved
  <2>2. CASE /\ IsLive(sess, t) /\ sess[t].next = NoRow
             /\ sess' = [sess EXCEPT ![t].status = "expired"]
    <3>1. ASSUME NEW row \in SessionRows
          PROVE  LET n == [row EXCEPT !.status = "expired"]
                 IN  /\ n \in SessionRows /\ n.status = "expired" /\ n.next = row.next
                     /\ n.used = row.used /\ n.parent = row.parent /\ n.root = row.root
      BY DEF SessionRows
    <3>2. /\ sess' \in [Ids -> SessionRows]
          /\ \A s \in Ids : s # t => sess'[s] = sess[s]
          /\ sess'[t].status = "expired" /\ sess'[t].next = sess[t].next
          /\ sess'[t].used = sess[t].used /\ sess'[t].parent = sess[t].parent
          /\ sess'[t].root = sess[t].root
      BY <1>2, <1>4, <2>2, <3>1
    <3>3. sess[t].parent # NoRow =>
            \A u \in Ids : IsLive(sess, u) /\ sess[u].parent = sess[t].parent => u = t
      BY <1>2, <1>4, <2>2 DEF Ringed, Rivals
    <3>4. LeavesWhole(sess, sess')
      <4>1. \A s, u \in Ids : IsLive(sess, s) /\ ~IsLive(sess', s) /\ sess[s].parent # NoRow
              /\ IsLive(sess, u) /\ sess[u].parent = sess[s].parent => ~IsLive(sess', u)
        BY <1>2, <3>2, <3>3 DEF IsLive
      <4> QED BY <1>2, <2>2, <3>2, <4>1 DEF LeavesWhole, IsLive, Exists
    <3>5. KeepsRows(sess, sess')
      BY <3>2 DEF KeepsRows, Exists
    <3> QED BY <3>2, <3>4, <3>5
  <2> QED BY <1>3, <2>1, <2>2
<1> QED BY <1>1, <1>3, <1>5, RowsLeave

(* What a granted refresh does, in a state where the invariant holds.      *)
LEMMA RefreshGranted ==
  ASSUME IndInv, NEW r \in Requests, refresh_rotated(r)
  PROVE  LET t == req[r].target
         IN  /\ t \in Ids
             /\ IsLive(sess, t) \/ _may_rotate_again(sess, t)
             /\ NewId \in Ids /\ Born(sess) = 1..(NewId - 1) /\ sess[NewId].status = "absent"
             /\ sess' = Refreshed(sess, t, NewId) /\ Reissued(sess, sess', t, NewId)
             /\ Live # {}
<1> DEFINE t == req[r].target
<1>1. Sound(sess) /\ RequestSound(sess, req[r]) /\ req[r].phase = "contest" /\ mix \in Mixes
  BY DEF IndInv, AuthType, RequestsSound, refresh_rotated, ContestLocked
<1>2. t \in Ids
  BY <1>1 DEF RequestSound, Born
<1>3. IsLive(sess, t) \/ _may_rotate_again(sess, t)
  BY DEF refresh_rotated, Refused
<1>4. NewId \in Ids /\ Born(sess) = 1..(NewId - 1) /\ sess[NewId].status = "absent"
  BY <1>1, NewIdIs DEF refresh_rotated
<1>5. sess' = Refreshed(sess, t, NewId)
  BY DEF refresh_rotated, Refreshed
<1>6. Kept \in Nat \ {0} /\ FewRivals(sess, Kept)
  BY <1>1, MixFacts DEF IndInv
<1> HIDE DEF t
<1>7. Reissued(sess, sess', t, NewId)
  BY <1>1, <1>2, <1>3, <1>4, <1>5, <1>6, RefreshStep
<1>8. Live # {}
  <2>1. CASE IsLive(sess, t)
    BY <1>2, <2>1 DEF Live
  <2>2. CASE _may_rotate_again(sess, t)
    <3>1. sess[t].next \in Ids /\ IsLive(sess, sess[t].next)
      BY <1>1, <1>2, <2>2 DEF _may_rotate_again, Sound, SessionRows
    <3> QED BY <3>1 DEF Live
  <2> QED BY <1>3, <2>1, <2>2
<1> QED BY <1>2, <1>3, <1>4, <1>5, <1>7, <1>8 DEF t

(* A granted refresh holds a live session of the token, and all that live  *)
(* of the sessions it was rotated into.                                    *)
LEMMA RefreshHolds ==
  ASSUME IndInv, NEW r \in Requests, refresh_rotated(r)
  PROVE  /\ \E w \in req[r].locked : w \in Ids /\ IsLive(sess, w)
         /\ \A h \in Ids : IsLive(sess, h) /\ sess[h].parent = req[r].target => h \in req[r].locked
<1> DEFINE t == req[r].target
           L == _linked_ids(sess, t)
<1>1. /\ t \in Ids /\ (IsLive(sess, t) \/ _may_rotate_again(sess, t))
      /\ Sound(sess) /\ sess \in [Ids -> SessionRows]
  BY RefreshGranted DEF IndInv, Sound
<1>2. L \subseteq req[r].locked
  BY DEF refresh_rotated, ContestLocked, Missing
<1>3. Exists(sess, t)
  BY <1>1 DEF Exists, IsLive, _may_rotate_again
<1> HIDE DEF t, L
<1>4. t \in L /\ L \in SUBSET Ids /\ Closed(sess, t, L)
  BY <1>1, <1>3, WalkIsClosed DEF L
<1>5. CASE IsLive(sess, t)
  <2>1. \A h \in Ids : sess[h].parent # t
    BY <1>1, <1>5 DEF Sound, RotatedLinks
  <2> QED BY <1>1, <1>2, <1>4, <1>5, <2>1 DEF t
<1>6. CASE _may_rotate_again(sess, t)
  <2> DEFINE su == sess[t].next
  <2>1. /\ su \in Rivals(sess, t) /\ _linked_ids(sess, su) = Rivals(sess, t)
    BY <1>1, <1>6, SuccessorsRing
  <2>2. su # NoRow /\ su \in Ids /\ IsLive(sess, su)
    BY <1>1, <1>6 DEF _may_rotate_again, SessionRows
  <2>3. su \in L
    BY <1>4, <2>2 DEF Closed, Follows
  <2> HIDE DEF su
  <2>4. Rivals(sess, t) \subseteq L
    BY <1>1, <1>3, <2>1, <2>2, <2>3, WalkGoesOn DEF L
  <2> QED BY <1>2, <2>2, <2>3, <2>4 DEF Rivals, t
<1> QED BY <1>1, <1>5, <1>6

(* So its new session is one that a pass waiting for rows may miss, and no *)
(* rival of a session the pass holds.                                      *)
LEMMA RefreshOvertakes ==
  ASSUME IndInv, NEW r \in Requests, refresh_rotated(r)
  PROVE  PassSound(sess', remover) /\ CutSound(sess', removed)
<1>1. /\ NewId \in Ids /\ Born(sess) = 1..(NewId - 1) /\ Reissued(sess, sess', req[r].target, NewId)
      /\ PassSound(sess, remover) /\ CutSound(sess, removed)
      /\ req[r].locked \intersect remover.locked = {} /\ remover.locked \in SUBSET Ids
      /\ \A h \in remover.locked : h \in Born(sess)
  BY RefreshGranted DEF IndInv, Cuts, Apart, AuthType, RemoverRows, RemovalSound, Exists, Born
<1>2. PICK w \in req[r].locked : w \in Ids /\ IsLive(sess, w)
  BY RefreshHolds
<1>3. /\ Onwards(sess, sess') /\ Born(sess') = 1..NewId /\ sess'[NewId].parent = req[r].target
  BY <1>1 DEF Reissued
<1>4. /\ Born(sess) \subseteq Born(sess') /\ \A x \in Born(sess) : x < NewId
      /\ \A x \in Born(sess') : x = NewId \/ x \in Born(sess)
  BY <1>1, <1>3, IdsAreNat
<1>5. /\ remover.seen < NewId /\ removed.seen < NewId
      /\ remover.seen \in Born(sess') \union {NoRow} /\ removed.seen \in Born(sess') \union {NoRow}
  BY <1>1, <1>4, IdsAreNat DEF PassSound, CutSound, Ids, NoRow
<1>6. ASSUME NEW x \in Ids, IsLive(sess', x)
      PROVE  x = NewId \/ (IsLive(sess, x) /\ sess'[x].parent = sess[x].parent)
  <2>1. x \in Born(sess')
    BY <1>6 DEF Born, IsLive
  <2>2. CASE x \in Born(sess)
    BY <1>3, <1>6, <2>2, Zenon DEF Onwards
  <2> QED BY <1>4, <2>1, <2>2
<1>7. \A h \in remover.locked : IsLive(sess', h) =>
        /\ IsLive(sess, h) /\ sess'[h].parent = sess[h].parent /\ h # NewId
        /\ sess[h].parent # req[r].target
  <2>1. ASSUME NEW h \in remover.locked, IsLive(sess', h)
        PROVE  IsLive(sess, h) /\ sess'[h].parent = sess[h].parent /\ h # NewId
    BY <1>1, <1>3, <1>4, <2>1, IdsAreNat DEF Onwards
  <2>2. ASSUME NEW h \in remover.locked, IsLive(sess, h) PROVE sess[h].parent # req[r].target
    BY <1>1, <2>2, RefreshHolds
  <2> QED BY <2>1, <2>2
<1>8. remover.running /\ ~remover.found =>
        remover.waited
  BY <1>1, <1>2 DEF PassSound
<1>9. removed.done => removed.overtaken
  BY <1>1, <1>2 DEF CutSound
<1>10. PassSound(sess', remover)
  <2>1. ASSUME remover.running, ~remover.found, NEW x \in Ids, IsLive(sess', x)
        PROVE  \/ x \in remover.locked \union remover.want
               \/ /\ remover.waited /\ remover.seen < x
                  /\ \A h \in remover.locked :
                       IsLive(sess', h) /\ sess'[h].parent = sess'[x].parent => sess'[x].parent = NoRow
    <3>1. CASE x = NewId
      BY <1>3, <1>5, <1>7, <1>8, <2>1, <3>1
    <3>2. CASE IsLive(sess, x) /\ sess'[x].parent = sess[x].parent
      BY <1>1, <1>7, <2>1, <3>2 DEF PassSound
    <3> QED BY <1>6, <2>1, <3>1, <3>2
  <2> QED BY <1>1, <1>5, <2>1 DEF PassSound
<1>11. CutSound(sess', removed)
  BY <1>1, <1>5, <1>6, <1>9 DEF CutSound
<1> QED BY <1>10, <1>11

LEMMA RotatedStep ==
  ASSUME IndInv, NEW r \in Requests, refresh_rotated(r)
  PROVE  IndInv'
<1> DEFINE old == req[r]
<1>1. old \in RequestRows /\ RequestSound(sess, old) /\ AuthType /\ old.phase = "contest"
  BY DEF IndInv, AuthType, RequestsSound, refresh_rotated, ContestLocked
<1>2. NewId \in Ids /\ Reissued(sess, sess', old.target, NewId) /\ Live # {}
  BY RefreshGranted
<1>3. /\ Sound(sess') /\ Onwards(sess, sess') /\ KeepsRows(sess, sess')
      /\ FewRivals(sess', mix.kept) /\ NewId \in Born(sess')
  <2>1. Born(sess') = 1..NewId /\ NewId \in Nat \ {0}
    BY <1>2, IdsAreNat DEF Reissued, NoRow
  <2> QED BY <1>1, <1>2, <2>1, MixFacts DEF Reissued, KeepsRows, AuthType
<1>4. UNCHANGED <<mix, remover, client, removed>> /\ req' = Answered(r, "ok", NewId)
  BY DEF refresh_rotated
<1>5. Cuts'
  BY <1>2, <1>4, RefreshOvertakes DEF Cuts
<1>6. req' = [req EXCEPT ![r] = Ended(old, "ok", NewId)]
  BY <1>1, <1>4, AnsweredIsEnded
<1>7. /\ Ended(old, "ok", NewId) \in RequestRows
      /\ RequestSound(sess', Ended(old, "ok", NewId))
  BY <1>1, <1>2, <1>3, EndedIsSound DEF Onwards
<1>8. Ended(old, "ok", NewId).locked = {}
  BY <1>1, EndedLocks
<1> QED BY <1>3, <1>4, <1>5, <1>6, <1>7, <1>8, RequestSteps

(***************************************************************************)
(* delete_device.                                                          *)
(***************************************************************************)
LEMMA RemoverSteps ==
  ASSUME IndInv, UNCHANGED <<mix, sess, req, client, removed>>,
         remover' \in RemoverRows,
         RemovalSound(sess, remover'), PassSound(sess, remover'),
         \A q \in Requests : req[q].locked \intersect remover'.locked = {}
  PROVE  IndInv'
<1>1. Cuts' /\ Apart'
  BY DEF IndInv, Cuts, Apart
<1>2. \A q \in Requests : RequestSound(sess', req'[q])
  BY DEF IndInv, RequestsSound
<1>3. /\ req' \in [Requests -> RequestRows] /\ RemovalSound(sess', remover')
      /\ client' \in [held : Ids \union {NoRow}, waiting : Requests \union {NoRequest}]
      /\ client'.held \in Born(sess') \union {NoRow}
  BY DEF IndInv, AuthType, HeldIsBorn
<1>4. Sound(sess') /\ Onwards(sess, sess') /\ FewRivals(sess', mix.kept)
  BY NothingMoved
<1> QED BY <1>1, <1>2, <1>3, <1>4, StateStep

LEMMA DeleteDeviceStep ==
  ASSUME IndInv, delete_device
  PROVE  IndInv'
<1> DEFINE new == [IdleRemover EXCEPT !.running = TRUE, !.found = TRUE]
<1>1. /\ new.running /\ new.found /\ new.want = {} /\ new.locked = {} /\ new.seen = NoRow
      /\ new \in RemoverRows
  BY DEF IdleRemover, RemoverRows
<1>2. remover' = new
  BY DEF delete_device
<1> HIDE DEF new
<1>3. RemovalSound(sess, remover') /\ PassSound(sess, remover')
  BY <1>1, <1>2 DEF RemovalSound, PassSound
<1> QED BY <1>1, <1>2, <1>3, RemoverSteps DEF delete_device

LEMMA NewestBorn ==
  ASSUME Sound(sess)
  PROVE  Cardinality(Created) \in Born(sess) \union {NoRow}
<1>1. Created = Born(sess)
  BY DEF Created, Born
<1>2. PICK n \in 0..MaxSessions : Born(sess) = 1..n
  BY DEF Sound, InOrder
<1>3. n \in Nat /\ Cardinality(1..n) = n
  BY IdsAreNat, FS_Interval
<1> QED BY <1>1, <1>2, <1>3 DEF NoRow

LEMMA RemoverPassStep ==
  ASSUME IndInv, RemoverPass
  PROVE  IndInv'
<1> DEFINE found == Live \ remover.locked
<1>1. /\ remover \in RemoverRows
      /\ RemovalSound(sess, remover)
  BY DEF IndInv, AuthType
<1>2. found \in SUBSET Born(sess) /\ found \in SUBSET Ids
  BY DEF Live, IsLive, Born
<1>3. \A x \in Ids \ remover.locked : IsLive(sess, x) <=> x \in found
  BY DEF Live
<1>4. /\ remover.running /\ remover.want = {}
      /\ remover' = [remover EXCEPT !.want = found, !.found = FALSE, !.waited = found # {},
                                    !.seen = Cardinality(Created)]
  BY DEF RemoverPass
<1> HIDE DEF found
<1>n. Cardinality(Created) \in Born(sess) \union {NoRow} /\ Born(sess) \in SUBSET Ids
  BY NewestBorn DEF IndInv, Born
<1>5. /\ remover' \in RemoverRows
      /\ remover'.running /\ remover'.want = found /\ remover'.locked = remover.locked
      /\ remover'.waited = (found # {}) /\ remover'.seen = Cardinality(Created)
  BY <1>1, <1>2, <1>4, <1>n DEF RemoverRows
<1>6. \A h \in remover.locked, x \in found : x \notin remover.locked => h < x
  BY <1>1, <1>2, <1>3, <1>4 DEF RemovalSound
<1>7. found \intersect remover.locked = {}
  BY DEF found
<1>8. RemovalSound(sess, remover')
  BY <1>1, <1>2, <1>3, <1>5, <1>6, <1>7 DEF RemovalSound
<1>9. PassSound(sess, remover')
  BY <1>3, <1>5, <1>n DEF PassSound
<1>10. \A q \in Requests : req[q].locked \intersect remover'.locked = {}
  BY <1>5 DEF IndInv, Apart
<1> QED BY <1>5, <1>8, <1>9, <1>10, RemoverSteps DEF RemoverPass

LEMMA RemoverLockStep ==
  ASSUME IndInv, RemoverLock
  PROVE  IndInv'
<1> DEFINE s == Lowest(remover.want)
           took == IF IsLive(sess, s) THEN {s} ELSE {}
<1>1. /\ remover \in RemoverRows
      /\ RemovalSound(sess, remover)
  BY DEF IndInv, AuthType
<1>2. remover.want # {} /\ remover.want \in SUBSET Ids
  BY <1>1 DEF RemoverLock, RemoverRows
<1>3. s \in remover.want /\ \A t \in remover.want : s <= t
  BY <1>2, LowestIs
<1>4. remover' = [remover EXCEPT !.want = @ \ {s}, !.locked = @ \union took,
                                 !.found = @ \/ IsLive(sess, s)]
  BY <1>1 DEF RemoverLock, RemoverRows
<1>u. Unlocked(s)
  BY DEF RemoverLock
<1>5. took \in SUBSET {s} /\ (s \in took <=> IsLive(sess, s))
  OBVIOUS
<1> HIDE DEF s, took
<1>6. /\ remover' \in RemoverRows
      /\ remover'.running = remover.running /\ remover'.want = remover.want \ {s}
      /\ remover'.locked = remover.locked \union took
      /\ remover'.found = (remover.found \/ IsLive(sess, s))
      /\ remover'.waited = remover.waited /\ remover'.seen = remover.seen
  BY <1>1, <1>2, <1>3, <1>4, <1>5 DEF RemoverRows, IsLive
<1>7. remover.running
  BY <1>1, <1>2 DEF RemovalSound
<1>8. \A h \in remover'.locked : h \in Ids /\ Exists(sess, h)
  BY <1>1, <1>2, <1>3, <1>5, <1>6 DEF RemovalSound, Exists, IsLive
<1>9. ASSUME NEW x \in Ids \ (remover'.locked \union remover'.want),
             NEW h \in remover'.locked \union remover'.want, IsLive(sess, x)
      PROVE  h < x
  <2>1. x \notin remover.locked \union remover.want
    BY <1>5, <1>6, <1>9
  <2>2. h \in remover.locked \union remover.want
    BY <1>3, <1>5, <1>6, <1>9
  <2> QED BY <1>1, <1>9, <2>1, <2>2 DEF RemovalSound
<1>10. ASSUME NEW h \in remover'.locked, NEW x \in remover'.want PROVE h < x
  <2>1. x \in remover.want /\ x # s /\ x \in Nat /\ s \in Nat
    BY <1>2, <1>3, <1>6, <1>10, IdsAreNat
  <2>2. CASE h \in remover.locked
    BY <1>1, <2>1, <2>2 DEF RemovalSound
  <2>3. CASE h = s
    BY <1>3, <2>1, <2>3
  <2> QED BY <1>5, <1>6, <1>10, <2>2, <2>3
<1>11. RemovalSound(sess, remover')
  BY <1>1, <1>6, <1>7, <1>8, <1>9, <1>10 DEF RemovalSound
<1>12. PassSound(sess, remover')
  <2>1. ASSUME ~IsLive(sess, s) PROVE took = {}
    BY <1>5, <2>1
  <2> QED BY <1>2, <1>3, <1>6, <2>1 DEF PassSound, IndInv, Cuts
<1>13. \A q \in Requests : req[q].locked \intersect remover'.locked = {}
  BY <1>5, <1>6, <1>u DEF IndInv, Apart, Unlocked
<1> QED BY <1>6, <1>11, <1>12, <1>13, RemoverSteps DEF RemoverLock

(* A step in which rows leave, without a request.                          *)
LEMMA TableSteps ==
  ASSUME IndInv, UNCHANGED <<mix, req, client>>,
         sess' \in [Ids -> SessionRows], LeavesWhole(sess, sess'),
         \A q \in Requests : req[q].phase = "logout" => Exists(sess', req[q].target),
         \/ remover' = remover /\ \A s \in remover.locked : Exists(sess', s)
         \/ remover' = IdleRemover,
         removed' = removed \/ CutSound(sess', removed')
  PROVE  IndInv'
<1>1. /\ Sound(sess') /\ Onwards(sess, sess') /\ Born(sess') = Born(sess)
      /\ \A p \in Ids : Rivals(sess', p) \subseteq Rivals(sess, p)
  BY LeavingStep DEF IndInv
<1>2. FewRivals(sess', mix.kept)
  BY <1>1, KeptFew
<1>3. Cuts' /\ Apart'
  <2>1. CutSound(sess', removed')
    BY <1>1, NoneCameBack
  <2>2. PassSound(sess', IdleRemover)
    BY DEF PassSound, IdleRemover
  <2>3. PassSound(sess', remover')
    BY <1>1, <2>2, NoneCameBack
  <2>4. IdleRemover.locked = {}
    BY DEF IdleRemover
  <2> QED BY <2>1, <2>3, <2>4 DEF Cuts, Apart, IndInv
<1>4. RemovalSound(sess', IdleRemover)
  BY DEF RemovalSound, IdleRemover
<1>5. /\ remover' \in RemoverRows
      /\ \/ RemovalSound(sess', remover')
         \/ remover' = remover /\ \A s \in remover.locked : Exists(sess', s)
  <2>1. IdleRemover \in RemoverRows
    BY DEF IdleRemover, RemoverRows
  <2> QED BY <1>4, <2>1 DEF IndInv, AuthType
<1>6. /\ req' \in [Requests -> RequestRows]
      /\ client' \in [held : Ids \union {NoRow}, waiting : Requests \union {NoRequest}]
      /\ client'.held \in Born(sess') \union {NoRow}
  BY <1>1 DEF IndInv, AuthType, HeldIsBorn
<1> QED BY <1>1, <1>2, <1>3, <1>5, <1>6, StateStep

LEMMA RemoverCommitStep ==
  ASSUME IndInv, RemoverCommit
  PROVE  IndInv'
<1>1. /\ sess \in [Ids -> SessionRows] /\ RemovalSound(sess, remover)
      /\ \A s \in Ids : sess[s] \in SessionRows
  BY DEF IndInv, Sound
<1>2. \A s \in remover.locked : s \in Ids /\ Exists(sess, s)
  BY <1>1 DEF RemovalSound
<1>3. \A s \in Ids : IsLive(sess, s) /\ s \notin remover.locked =>
        /\ remover.waited /\ remover.seen < s
        /\ \A h \in remover.locked :
             IsLive(sess, h) /\ sess[h].parent = sess[s].parent => sess[s].parent = NoRow
  BY DEF RemoverCommit, IndInv, Cuts, PassSound
<1>4. sess' = [s \in Ids |-> IF s \in remover.locked
                             THEN [sess[s] EXCEPT !.status = "admin_revoked"] ELSE sess[s]]
  BY DEF RemoverCommit, Revoked
<1>5. ASSUME NEW row \in SessionRows
      PROVE  LET n == [row EXCEPT !.status = "admin_revoked"]
             IN  /\ n \in SessionRows /\ n.status = "admin_revoked" /\ n.next = row.next
                 /\ n.used = row.used /\ n.parent = row.parent /\ n.root = row.root
  BY DEF SessionRows
<1>6. sess' \in [Ids -> SessionRows]
  BY <1>1, <1>4, <1>5
<1>7. \A s \in Ids : /\ s \notin remover.locked => sess'[s] = sess[s]
                     /\ s \in remover.locked => sess'[s].status = "admin_revoked"
                     /\ sess'[s].next = sess[s].next /\ sess'[s].used = sess[s].used
                     /\ sess'[s].parent = sess[s].parent /\ sess'[s].root = sess[s].root
  BY <1>1, <1>4, <1>5
<1>8. \A s \in Ids : IsLive(sess', s) <=> IsLive(sess, s) /\ s \notin remover.locked
  BY <1>7 DEF IsLive
<1>9. LeavesWhole(sess, sess')
  <2>1. \A s \in Ids : sess'[s].status = "absent" <=> sess[s].status = "absent"
    BY <1>2, <1>7 DEF Exists
  <2>2. \A s \in Ids : Exists(sess', s) => Exists(sess, s)
    BY <1>2, <1>7 DEF Exists
  <2>3. \A s \in Ids : sess'[s].status = "rotated" => sess[s].status = "rotated"
    BY <1>7
  <2>4. \A s \in Ids : sess[s].status = "absent" => sess'[s] = sess[s]
    BY <1>2, <1>7 DEF Exists
  <2>5. \A s, t \in Ids :
          IsLive(sess, s) /\ ~IsLive(sess', s) /\ sess[s].parent # NoRow
            /\ IsLive(sess, t) /\ sess[t].parent = sess[s].parent => ~IsLive(sess', t)
    BY <1>3, <1>8
  <2> QED BY <1>7, <1>8, <2>1, <2>2, <2>3, <2>4, <2>5 DEF LeavesWhole
<1>10. \A q \in Requests : req[q].phase = "logout" => Exists(sess', req[q].target)
  <2>1. ASSUME NEW q \in Requests, req[q].phase = "logout" PROVE Exists(sess', req[q].target)
    <3>1. Exists(sess, req[q].target) /\ req[q].target \in Ids
      BY <2>1 DEF IndInv, RequestsSound, RequestSound, Born
    <3> QED BY <1>7, <3>1 DEF Exists
  <2> QED BY <2>1
<1>11. CutSound(sess', removed')
  <2>1. removed' = RemovalDone /\ ~remover.found
    BY DEF RemoverCommit
  <2>2. /\ removed'.done /\ removed'.seen = remover.seen
        /\ removed'.overtaken = (remover.waited /\ ~remover.found)
    BY <2>1 DEF RemovalDone
  <2>3. remover.seen \in Born(sess') \union {NoRow}
    BY <1>9 DEF IndInv, Cuts, PassSound, LeavesWhole, Born
  <2> QED BY <1>3, <1>8, <2>1, <2>2, <2>3 DEF CutSound
<1> QED BY <1>6, <1>9, <1>10, <1>11, TableSteps DEF RemoverCommit

(***************************************************************************)
(* Sign-in, suspension, expiry and retention.                              *)
(***************************************************************************)
LEMMA LoginIs ==
  ASSUME IndInv, login
  PROVE  /\ NewId \in Ids /\ Born(sess) = 1..(NewId - 1)
         /\ Sound(sess') /\ Onwards(sess, sess') /\ Born(sess') = 1..NewId
         /\ \A p \in Ids : Rivals(sess', p) = Rivals(sess, p)
         /\ KeepsRows(sess, sess') /\ sess'[NewId].parent = NoRow
         /\ \A s \in Ids : s # NewId => sess'[s] = sess[s]
<1>1. NewId \in Ids /\ Born(sess) = 1..(NewId - 1) /\ Sound(sess)
  BY NewIdIs DEF login, IndInv, AuthType
<1>2. sess' = [sess EXCEPT ![NewId] = Issued(NoRow, NewId)]
  BY DEF login
<1>3. \A s \in Ids : s # NewId => sess'[s] = sess[s]
  BY <1>1, <1>2 DEF Sound
<1> QED BY <1>1, <1>2, <1>3, LoginStep, ZenonT(60) DEF KeepsRows

LEMMA SignInStep ==
  ASSUME IndInv, login
  PROVE  IndInv'
<1>1. /\ Sound(sess') /\ Onwards(sess, sess') /\ Born(sess') = 1..NewId
      /\ \A p \in Ids : Rivals(sess', p) = Rivals(sess, p)
      /\ KeepsRows(sess, sess') /\ NewId \in Ids
  BY LoginIs
<1>2. FewRivals(sess', mix.kept)
  BY <1>1, KeptFew
<1>3. \A q \in Requests : req[q].phase = "logout" => Exists(sess', req[q].target)
  BY <1>1 DEF IndInv, RequestsSound, RequestSound, KeepsRows, Born
<1>4. \A s \in remover.locked : Exists(sess', s)
  BY <1>1 DEF IndInv, RemovalSound, KeepsRows
<1>5. /\ client' \in [held : Ids \union {NoRow}, waiting : Requests \union {NoRequest}]
      /\ client'.held \in Born(sess') \union {NoRow}
  <2>1. NewId \in 1..NewId
    BY <1>1, IdsAreNat DEF Ids
  <2>2. client' = [held |-> NewId, waiting |-> NoRequest]
    BY DEF login
  <2> QED BY <1>1, <2>1, <2>2
<1>6. Cuts' /\ Apart'
  <2>1. PassSound(sess, remover) /\ ~remover.running /\ Born(sess) \subseteq Born(sess')
    BY <1>1 DEF IndInv, Cuts, login, Onwards
  <2>2. CutSound(sess', NotRemoved)
    BY DEF CutSound, NotRemoved
  <2> QED BY <2>1, <2>2 DEF PassSound, Cuts, Apart, IndInv, login
<1>7. /\ req' \in [Requests -> RequestRows] /\ req' = req /\ mix' = mix /\ remover' = remover
      /\ remover' \in RemoverRows
  BY DEF login, IndInv, AuthType
<1> QED BY <1>1, <1>2, <1>3, <1>4, <1>5, <1>6, <1>7, StateStep

LEMMA SuspendStep ==
  ASSUME IndInv, SetStatus
  PROVE  IndInv'
<1>1. /\ req' \in [Requests -> RequestRows] /\ \A q \in Requests : req'[q] = req[q]
      /\ client' \in [held : Ids \union {NoRow}, waiting : Requests \union {NoRequest}]
      /\ client'.held \in Born(sess) \union {NoRow}
  BY DEF SetStatus, IndInv, AuthType, HeldIsBorn
<1> QED BY <1>1, AppSteps DEF SetStatus

LEMMA ExpireStep ==
  ASSUME IndInv, NEW s \in Ids, Expire(s)
  PROVE  IndInv'
<1>1. sess \in [Ids -> SessionRows]
  BY DEF IndInv, Sound
<1>2. sess' = [sess EXCEPT ![s].expired = TRUE] /\ sess[s].status # "absent"
  BY DEF Expire, Created
<1>3. ASSUME NEW row \in SessionRows
      PROVE  LET n == [row EXCEPT !.expired = TRUE]
             IN  /\ n \in SessionRows /\ n.status = row.status /\ n.next = row.next
                 /\ n.used = row.used /\ n.parent = row.parent /\ n.root = row.root
  BY DEF SessionRows
<1>4. /\ sess' \in [Ids -> SessionRows]
      /\ \A t \in Ids : /\ t # s => sess'[t] = sess[t]
                        /\ sess'[t].status = sess[t].status /\ sess'[t].next = sess[t].next
                        /\ sess'[t].used = sess[t].used /\ sess'[t].parent = sess[t].parent
                        /\ sess'[t].root = sess[t].root
  BY <1>1, <1>2, <1>3
<1>5. LeavesWhole(sess, sess')
  BY <1>2, <1>4 DEF LeavesWhole, IsLive, Exists
<1>6. \A q \in Requests : req[q].phase = "logout" => Exists(sess', req[q].target)
  BY <1>4 DEF IndInv, RequestsSound, RequestSound, Born, Exists
<1>7. \A t \in remover.locked : Exists(sess', t)
  BY <1>4 DEF IndInv, RemovalSound, Exists
<1> QED BY <1>4, <1>5, <1>6, <1>7, TableSteps DEF Expire

LEMMA PruneStep ==
  ASSUME IndInv, NEW s \in Ids, prune_expired_sessions(s)
  PROVE  IndInv'
<1>1. /\ sess \in [Ids -> SessionRows] /\ Sound(sess) /\ Ringed(sess)
      /\ \A t \in Ids : sess[t] \in SessionRows
  BY DEF IndInv, Sound
<1>2. Exists(sess, s) /\ (~IsLive(sess, s) \/ sess[s].next = NoRow) /\ Unlocked(s)
  BY DEF prune_expired_sessions, _delete_batch
<1>3. sess' = [t \in Ids |-> IF t = s THEN [sess[s] EXCEPT !.status = "pruned", !.next = NoRow]
                             ELSE IF sess[t].next = s THEN [sess[t] EXCEPT !.next = NoRow]
                             ELSE sess[t]]
  BY DEF prune_expired_sessions, _delete_batch
<1>4. ASSUME NEW row \in SessionRows
      PROVE  /\ LET n == [row EXCEPT !.status = "pruned", !.next = NoRow]
                IN  /\ n \in SessionRows /\ n.status = "pruned" /\ n.next = NoRow
                    /\ n.used = row.used /\ n.parent = row.parent /\ n.root = row.root
             /\ LET n == [row EXCEPT !.next = NoRow]
                IN  /\ n \in SessionRows /\ n.status = row.status /\ n.next = NoRow
                    /\ n.used = row.used /\ n.parent = row.parent /\ n.root = row.root
  BY DEF SessionRows
<1>5. sess' \in [Ids -> SessionRows]
  BY <1>1, <1>3, <1>4
<1>6. \A t \in Ids :
        /\ sess'[t].used = sess[t].used /\ sess'[t].parent = sess[t].parent
        /\ sess'[t].root = sess[t].root
        /\ t = s => sess'[t].status = "pruned" /\ sess'[t].next = NoRow
        /\ t # s => sess'[t].status = sess[t].status
        /\ t # s /\ sess[t].next = s => sess'[t].next = NoRow
        /\ t # s /\ sess[t].next # s => sess'[t] = sess[t]
  BY <1>1, <1>3, <1>4, ZenonT(60)
<1>7. \A t \in Ids : IsLive(sess, t) => sess[t].next # s
  <2>1. ASSUME NEW t \in Ids, IsLive(sess, t), sess[t].next = s PROVE FALSE
    <3>1. sess[t].next # NoRow
      BY <2>1, IdsAreNat
    <3>2. /\ IsRing(sess, Rivals(sess, sess[t].parent)) /\ t \in Rivals(sess, sess[t].parent)
          /\ \A y \in Rivals(sess, sess[t].parent) : sess[y].next # NoRow /\ ~sess[y].used
      BY <1>1, <2>1, <3>1, RingOfRivals
    <3>3. s \in Rivals(sess, sess[t].parent)
      BY <2>1, <3>2 DEF IsRing, FollowedBy
    <3>4. IsLive(sess, s)
      BY <3>3 DEF Rivals
    <3> QED BY <1>2, <3>2, <3>3, <3>4
  <2> QED BY <2>1
<1>8. \A t \in Ids : IsLive(sess, s) /\ sess[s].parent # NoRow
                       /\ IsLive(sess, t) /\ sess[t].parent = sess[s].parent => t = s
  BY <1>1, <1>2 DEF Ringed, Rivals
<1>9. LeavesWhole(sess, sess')
  <2>1. \A t, u \in Ids : IsLive(sess, t) /\ ~IsLive(sess', t) /\ sess[t].parent # NoRow
          /\ IsLive(sess, u) /\ sess[u].parent = sess[t].parent => ~IsLive(sess', u)
    BY <1>6, <1>8 DEF IsLive
  <2>2. \A t \in Ids : sess'[t].status = "absent" <=> sess[t].status = "absent"
    BY <1>2, <1>6 DEF Exists
  <2>3. \A t \in Ids : sess[t].status = "absent" => sess'[t] = sess[t]
    <3>1. \A t \in Ids : sess[t].status = "absent" => sess[t].next = NoRow
      BY <1>1 DEF Sound, Descends, Absent
    <3> QED BY <1>2, <1>6, <3>1, IdsAreNat DEF Exists
  <2>4. \A t \in Ids : IsLive(sess', t) => IsLive(sess, t) /\ sess'[t].next = sess[t].next
    BY <1>6, <1>7 DEF IsLive
  <2>5. \A t \in Ids : Exists(sess', t) => Exists(sess, t)
    BY <1>6 DEF Exists
  <2>6. \A t \in Ids : /\ sess'[t].next \in {sess[t].next, NoRow}
                       /\ sess'[t].status = "rotated" => sess[t].status = "rotated"
    BY <1>6
  <2> QED BY <1>6, <2>1, <2>2, <2>3, <2>4, <2>5, <2>6 DEF LeavesWhole
<1>10. \A q \in Requests : req[q].phase = "logout" => Exists(sess', req[q].target)
  <2>1. ASSUME NEW q \in Requests, req[q].phase = "logout" PROVE Exists(sess', req[q].target)
    <3>1. Exists(sess, req[q].target) /\ req[q].target \in Ids /\ req[q].kind = "logout"
      BY <2>1 DEF IndInv, RequestsSound, RequestSound, Born
    <3>2. req[q].target # s
      BY <3>1 DEF prune_expired_sessions
    <3> QED BY <1>6, <3>1, <3>2 DEF Exists
  <2> QED BY <2>1
<1>11. \A t \in remover.locked : Exists(sess', t)
  <2>1. \A t \in remover.locked : t \in Ids /\ Exists(sess, t) /\ t # s
    BY <1>2 DEF IndInv, RemovalSound, Unlocked
  <2> QED BY <1>6, <2>1 DEF Exists
<1>12. UNCHANGED <<mix, req, client, remover, removed>>
  BY DEF prune_expired_sessions
<1> QED BY <1>5, <1>9, <1>10, <1>11, <1>12, TableSteps

(***************************************************************************)
(* The invariant.                                                          *)
(***************************************************************************)
LEMMA Initially ==
  ASSUME Init
  PROVE  IndInv
<1> USE IdsAreNat
<1>1. 1 \in Ids
  BY AuthAssumption DEF Ids
<1>2. /\ sess \in [Ids -> SessionRows]
      /\ sess[1].status = "live" /\ sess[1].next = NoRow /\ ~sess[1].used
      /\ sess[1].parent = NoRow /\ sess[1].root = 1
      /\ \A s \in Ids : s # 1 => sess[s] = Absent
  <2>1. Issued(NoRow, 1) \in SessionRows /\ Absent \in SessionRows
    BY <1>1, IssuedRow DEF Absent, SessionRows
  <2> QED BY <1>1, <2>1, IssuedRow DEF Init
<1>3. \A s \in Ids : s # 1 => /\ sess[s].status = "absent" /\ sess[s].next = NoRow
                              /\ ~sess[s].used /\ sess[s].parent = NoRow /\ sess[s].root = NoRow
  BY <1>2 DEF Absent
<1>4. Born(sess) = {1} /\ InOrder(sess)
  <2>1. Born(sess) = {1}
    BY <1>1, <1>2, <1>3 DEF Born
  <2>2. 1..1 = {1} /\ 1 \in 0..MaxSessions
    BY <1>1 DEF Ids
  <2> QED BY <2>1, <2>2 DEF InOrder
<1>5. Descends(sess)
  <2>1. ASSUME NEW s \in Ids, s # 1
        PROVE  /\ sess[s] = Absent /\ sess[s].parent = NoRow /\ sess[s].root = NoRow
               /\ sess[s].next = NoRow /\ s \notin Born(sess) /\ NoRow < s
    BY <1>2, <1>3, <1>4, <2>1 DEF Ids, NoRow
  <2>2. NoRow < 1 /\ 1 \in Born(sess) /\ sess[1].status # "absent"
    BY <1>2, <1>4 DEF NoRow
  <2> QED BY <1>1, <1>2, <2>1, <2>2 DEF Descends
<1>6. /\ RotatedLinks(sess) /\ UsedIsAlone(sess) /\ OneRing(sess) /\ Ringed(sess)
  BY <1>1, <1>2, <1>3 DEF RotatedLinks, UsedIsAlone, OneRing, Ringed, IsLive
<1>7. Sound(sess)
  BY <1>2, <1>4, <1>5, <1>6 DEF Sound
<1>8. mix \in Mixes /\ mix.kept \in Nat
  BY MixFacts DEF Init
<1>9. FewRivals(sess, mix.kept)
  <2>1. ASSUME NEW p \in Ids PROVE Cardinality(Rivals(sess, p)) <= mix.kept
    <3>1. Rivals(sess, p) = {}
      BY <1>2, <1>3 DEF Rivals
    <3>2. Cardinality({}) = 0
      BY FS_EmptySet
    <3> QED BY <1>8, <3>1, <3>2
  <2> QED BY <2>1 DEF FewRivals
<1>10. RequestsSound
  BY FreeIsSound DEF Init, RequestsSound
<1>11. RemovalSound(sess, remover)
  BY DEF Init, RemovalSound, IdleRemover
<1>12. AuthType
  BY <1>1, <1>8, FreeIsSound DEF Init, AuthType, IdleRemover, RemoverRows
<1>13. HeldIsBorn
  BY <1>4 DEF Init, HeldIsBorn
<1>14. Cuts /\ Apart
  BY DEF Init, Cuts, Apart, PassSound, CutSound, IdleRemover, NotRemoved, Free
<1> QED BY <1>7, <1>9, <1>10, <1>11, <1>12, <1>13, <1>14 DEF IndInv

LEMMA Stuttering ==
  ASSUME IndInv, UNCHANGED vars
  PROVE  IndInv'
BY DEF vars, IndInv, AuthType, RequestsSound, HeldIsBorn, Apart, Cuts

LEMMA EveryStep ==
  ASSUME IndInv, [Next]_vars
  PROVE  IndInv'
<1>1. CASE UNCHANGED vars
  BY <1>1, Stuttering
<1>2. ASSUME NEW r \in Requests, NEW kind \in mix.kinds, Send(r, kind) PROVE IndInv'
  BY <1>2, SendStep
<1>3. CASE GiveUp
  BY <1>3, GiveUpStep
<1>4. ASSUME NEW r \in Requests, Reply(r) \/ Abort(r) PROVE IndInv'
  BY <1>4, ReplyStep
<1>5. ASSUME NEW r \in Requests, RequestStep(r) PROVE IndInv'
  BY <1>5, WalkStep, LockRowStep, RefusedStep, RotatedStep, RequireUserStep,
     RecordFirstUseStep, ClaimContestStep, LogoutStep DEF RequestStep
<1>6. CASE delete_device \/ RemoverPass \/ RemoverLock \/ RemoverCommit
  BY <1>6, DeleteDeviceStep, RemoverPassStep, RemoverLockStep, RemoverCommitStep
<1>7. CASE login
  BY <1>7, SignInStep
<1>8. CASE SetStatus
  BY <1>8, SuspendStep
<1>9. ASSUME NEW s \in Ids, Expire(s) \/ prune_expired_sessions(s) PROVE IndInv'
  BY <1>9, ExpireStep, PruneStep
<1> QED BY <1>1, <1>2, <1>3, <1>4, <1>5, <1>6, <1>7, <1>8, <1>9 DEF Next

(* The table, the requests and the removals keep the shape described above *)
(* whatever happens at once: a ring is whole and in order, a walk finds it *)
(* and nothing else, and a walk taken again finds only younger rows        *)
(* (service.py: _linked_ids, lock_contest, settle_contest, _rotate_again). *)
THEOREM SessionsSound == Spec => []IndInv
<1>1. Init => IndInv
  BY Initially
<1>2. IndInv /\ [Next]_vars => IndInv'
  BY EveryStep
<1> QED BY <1>1, <1>2, PTL DEF Spec

(* The live sessions of one sign-in are all rotations of one token, so a   *)
(* stolen or repeated token never opens a second line (service.py: refresh,*)
(* _rotate, _rotate_again).                                                *)
THEOREM NeverForks == Spec => []LineageDoesNotFork
<1>1. IndInv => LineageDoesNotFork
  BY DEF IndInv, Sound, OneRing, LineageDoesNotFork, Live
<1> QED BY <1>1, SessionsSound, PTL

(* From any of the live sessions one token was rotated into, the walk of   *)
(* _linked_ids finds all the others, and no more of them than              *)
(* _UNUSED_SESSIONS_KEPT are live (service.py: _linked_ids, _rotate_again).*)
THEOREM RingsAreWhole == Spec => []RingReachesRivals
<1>1. ASSUME IndInv PROVE RingReachesRivals
  <2>1. Sound(sess) /\ FewRivals(sess, Kept) /\ sess \in [Ids -> SessionRows]
    BY <1>1, MixFacts DEF IndInv, AuthType, Sound
  <2>2. ASSUME NEW s \in Live, NEW t \in Live, sess[s].parent = sess[t].parent,
               sess[s].parent # NoRow
        PROVE  t \in _linked_ids(sess, s)
    <3>1. s \in Ids /\ t \in Ids /\ IsLive(sess, s) /\ IsLive(sess, t)
      BY DEF Live
    <3>2. t \in Rivals(sess, sess[s].parent)
      BY <2>2, <3>1 DEF Rivals
    <3>3. CASE sess[s].next = NoRow
      <4>1. t = s
        BY <2>1, <2>2, <3>1, <3>2, <3>3 DEF Sound, Ringed
      <4>2. _linked_ids(sess, s) = {s}
        BY <2>1, <3>1, <3>3, WalkAlone DEF Exists, IsLive
      <4> QED BY <4>1, <4>2
    <3>4. CASE sess[s].next # NoRow
      BY <2>1, <3>1, <3>2, <3>4, RingOfRivals
    <3> QED BY <3>3, <3>4
  <2>3. \A p \in Ids : Cardinality({s \in Live : sess[s].parent = p}) <= Kept
    <3>1. \A p : {s \in Live : sess[s].parent = p} = Rivals(sess, p)
      BY DEF Live, Rivals
    <3> QED BY <2>1, <3>1 DEF FewRivals
  <2> QED BY <2>2, <2>3 DEF RingReachesRivals
<1> QED BY <1>1, SessionsSound, PTL

(* Whoever waits for the lock of a session row holds only rows with lower  *)
(* ids, first uses, refreshes and removals alike, so no two of them wait   *)
(* for each other (service.py: lock_contest; user_devices.delete_device).  *)
THEOREM LocksByAge == Spec => []LocksInIdOrder
<1>1. IndInv => LocksInIdOrder
  BY DEF IndInv, RequestsSound, RequestSound, RemovalSound, LocksInIdOrder
<1> QED BY <1>1, SessionsSound, PTL

(* A session outlives a removal only if refreshes took every session its   *)
(* last pass waited for, and it is then newer than that pass; a pass with  *)
(* nothing to wait for leaves none (user_devices.delete_device).           *)
THEOREM RemovalCutsAccess == Spec => []OnlyOvertakersSurvive
<1>1. IndInv => OnlyOvertakersSurvive
  BY DEF IndInv, Cuts, CutSound, OnlyOvertakersSurvive, Live
<1> QED BY <1>1, SessionsSound, PTL

(***************************************************************************)
(* Sessions come only from a sign-in or a granted refresh.                 *)
(***************************************************************************)
BornBy(s) ==
  /\ s = NewId
  /\ login \/ \E r \in Requests : refresh_rotated(r)

LEMMA SettlesNoAbsent ==
  ASSUME NEW S \in [Ids -> SessionRows], NEW w \in Ids, NEW s \in Ids, S[s].status = "absent"
  PROVE  settle_contest(S, w)[s].status = "absent"
<1> DEFINE C == [S EXCEPT ![w].next = NoRow]
<1>1. C[s].status = "absent"
  <2>1. C = [x \in Ids |-> IF x = w THEN [S[w] EXCEPT !.next = NoRow] ELSE S[x]]
    OBVIOUS
  <2>2. ASSUME NEW row \in SessionRows PROVE [row EXCEPT !.next = NoRow].status = row.status
    BY DEF SessionRows
  <2>3. S[w] \in SessionRows
    OBVIOUS
  <2> QED BY <2>1, <2>2, <2>3
<1>2. ~IsLive(C, s)
  BY <1>1 DEF IsLive
<1>3. settle_contest(S, w) = _supersede(C, _linked_ids(S, w) \ {w}, w)
  BY DEF settle_contest
<1> DEFINE lost == _linked_ids(S, w) \ {w}
<1>4. _supersede(C, lost, w) = [x \in Ids |-> IF x \in lost /\ IsLive(C, x) /\ ~C[x].used
         THEN [C[x] EXCEPT !.status = "superseded", !.next = w] ELSE C[x]]
  BY DEF _supersede
<1> HIDE DEF C, lost
<1>5. _supersede(C, lost, w)[s] = C[s]
  BY <1>2, <1>4
<1> QED BY <1>1, <1>3, <1>5 DEF lost

LEMMA ComesFrom ==
  ASSUME IndInv, [Next]_vars, NEW s \in Ids,
         sess[s].status = "absent", sess'[s].status # "absent"
  PROVE  BornBy(s)
<1>1. /\ sess \in [Ids -> SessionRows] /\ Sound(sess)
      /\ \A x \in Ids : sess[x] \in SessionRows
  BY DEF IndInv, Sound
<1>2. sess' # sess
  OBVIOUS
<1>3. ASSUME NEW r \in Requests, refresh_refused(r) PROVE FALSE
  <2> DEFINE t == req[r].target
  <2>1. IsLive(sess, t) /\ sess' = [sess EXCEPT ![t].status = "expired"]
    BY <1>2, <1>3 DEF refresh_refused
  <2>2. s # t
    BY <2>1 DEF IsLive
  <2> HIDE DEF t
  <2> QED BY <1>1, <2>1, <2>2
<1>4. ASSUME NEW r \in Requests, _record_first_use(r) \/ _claim_contest(r) PROVE FALSE
  <2> DEFINE t == req[r].target
             T == IF sess[t].next # NoRow THEN settle_contest(sess, t) ELSE sess
  <2>1. t \in Ids
    BY <1>4 DEF IndInv, RequestsSound, RequestSound, Born, _record_first_use,
       _claim_contest, ContestLocked
  <2>2. IsLive(sess, t) /\ (sess' = [sess EXCEPT ![t].used = TRUE] \/ sess' = [T EXCEPT ![t].used = TRUE])
    BY <1>2, <1>4 DEF _record_first_use, _claim_contest
  <2>3. s # t
    BY <2>2 DEF IsLive
  <2>4. T[s].status = "absent"
    BY <1>1, <2>1, SettlesNoAbsent
  <2> HIDE DEF t
  <2>5. T = [x \in Ids |-> T[x]]
    <3>1. CASE sess[t].next # NoRow
      <4>1. T = settle_contest(sess, t)
        BY <3>1
      <4>2. Sound(T)
        BY <1>1, <2>1, <2>2, <3>1, <4>1, SettleStep
      <4> QED BY <4>2 DEF Sound
    <3>2. CASE sess[t].next = NoRow
      BY <1>1, <3>2
    <3> QED BY <3>1, <3>2
  <2> HIDE DEF T
  <2>6. sess'[s] = sess[s] \/ sess'[s] = T[s]
    BY <1>1, <2>2, <2>3, <2>5
  <2> QED BY <2>4, <2>6
<1>5. ASSUME NEW r \in Requests, logout(r) PROVE FALSE
  <2> DEFINE t == req[r].target
  <2>1. Exists(sess, t) /\ sess' = [sess EXCEPT ![t].status = "logout"]
    BY <1>5 DEF logout, IndInv, RequestsSound, RequestSound
  <2>2. s # t
    BY <2>1 DEF Exists
  <2> HIDE DEF t
  <2> QED BY <1>1, <2>1, <2>2
<1>6. CASE RemoverCommit
  <2>1. s \notin remover.locked
    BY DEF IndInv, RemovalSound, Exists
  <2> QED BY <1>6, <2>1 DEF RemoverCommit, Revoked
<1>7. ASSUME NEW x \in Ids, Expire(x) \/ prune_expired_sessions(x) PROVE FALSE
  <2>1. x # s
    BY <1>7 DEF Expire, Created, prune_expired_sessions, Exists
  <2>2. sess[s].next = NoRow
    BY <1>1 DEF Sound, Descends, Absent
  <2>3. sess'[s] = sess[s]
    BY <1>1, <1>7, <2>1, <2>2, IdsAreNat DEF Expire, prune_expired_sessions, _delete_batch
  <2> QED BY <2>3
<1>8. ASSUME NEW r \in Requests, RequestStep(r) PROVE BornBy(s)
  <2>1. refresh_rotated(r)
    BY <1>2, <1>3, <1>4, <1>5, <1>8 DEF RequestStep, Walk, LockRow, require_user
  <2>2. NewId \in Ids /\ Born(sess) = 1..(NewId - 1) /\ Born(sess') = 1..NewId
    BY <2>1, RefreshGranted DEF Reissued
  <2>3. s \in Born(sess') /\ s \notin Born(sess)
    BY DEF Born
  <2> QED BY <2>1, <2>2, <2>3, IdsAreNat DEF BornBy
<1>9. CASE login
  <2>1. \A x \in Ids : x # NewId => sess'[x] = sess[x]
    BY <1>9, LoginIs
  <2> QED BY <1>9, <2>1 DEF BornBy
<1> QED BY <1>2, <1>6, <1>7, <1>8, <1>9 DEF Next, vars, Send, GiveUp, Reply, Abort,
       delete_device, RemoverPass, RemoverLock, SetStatus

(* Of the sessions one token was rotated into, a used live one has no live *)
(* rival, and from the first use on the token yields no further session    *)
(* (dependencies.py: _claim_contest; service.py: _may_rotate_again).       *)
THEOREM FirstUseIsFinal == Spec => FirstUseDecides
<1> DEFINE Alone == \A s, t \in Live :
              sess[s].used /\ sess[s].parent = sess[t].parent /\ sess[s].parent # NoRow
                => s = t
           Barren == \A s \in Ids :
              /\ sess[s].status = "absent"
              /\ sess'[s].status = "live"
              /\ sess'[s].parent # NoRow
              => \A t \in Ids : sess[t].parent = sess'[s].parent => ~sess[t].used
<1>1. IndInv => Alone
  BY DEF IndInv, Sound, UsedIsAlone, Live
<1>2. ASSUME IndInv, [Next]_vars PROVE Barren
  <2>1. ASSUME NEW s \in Ids, sess[s].status = "absent", sess'[s].status = "live",
               sess'[s].parent # NoRow, NEW t \in Ids, sess[t].parent = sess'[s].parent
        PROVE  ~sess[t].used
    <3>1. BornBy(s)
      BY <1>2, <2>1, ComesFrom
    <3>2. CASE login
      BY <1>2, <2>1, <3>1, <3>2, LoginIs DEF BornBy
    <3>3. ASSUME NEW r \in Requests, refresh_rotated(r) PROVE ~sess[t].used
      <4> DEFINE token == req[r].target
      <4>1. /\ token \in Ids /\ sess'[s].parent = token
            /\ IsLive(sess, token) \/ _may_rotate_again(sess, token)
        BY <1>2, <3>1, <3>3, RefreshGranted DEF BornBy, Reissued
      <4> HIDE DEF token
      <4>2. Sound(sess)
        BY <1>2 DEF IndInv
      <4>3. CASE IsLive(sess, token)
        BY <2>1, <4>1, <4>2, <4>3 DEF Sound, RotatedLinks
      <4>4. CASE _may_rotate_again(sess, token)
        BY <2>1, <4>1, <4>2, <4>4, SuccessorsRing
      <4> QED BY <4>1, <4>3, <4>4
    <3> QED BY <3>1, <3>2, <3>3 DEF BornBy
  <2> QED BY <2>1
<1>3. IndInv /\ [Next]_vars => [Barren]_vars
  BY <1>2
<1>4. FirstUseDecides <=> []Alone /\ [][Barren]_vars
  BY DEF FirstUseDecides
<1> HIDE DEF Alone, Barren
<1> QED BY <1>1, <1>3, <1>4, SessionsSound, PTL DEF Spec

(***************************************************************************)
(* Late duplicates.  What a claim or a granted refresh leaves as it was:   *)
(* where rows come from, when they expire, and other sign-ins altogether.  *)
(***************************************************************************)
SameOrigin(a, b) ==
  a.parent = b.parent /\ a.root = b.root /\ a.expired = b.expired /\ a.used = b.used

LEMMA SupersededRows ==
  ASSUME NEW S \in [Ids -> SessionRows], NEW D, NEW by, NEW s \in Ids
  PROVE  /\ SameOrigin(_supersede(S, D, by)[s], S[s])
         /\ s \notin D => _supersede(S, D, by)[s] = S[s]
<1>1. ASSUME NEW row \in SessionRows
      PROVE  SameOrigin([row EXCEPT !.status = "superseded", !.next = by], row)
  BY DEF SessionRows, SameOrigin
<1>2. S[s] \in SessionRows
  OBVIOUS
<1>3. SameOrigin([S[s] EXCEPT !.status = "superseded", !.next = by], S[s])
  BY <1>1, <1>2
<1>4. SameOrigin(S[s], S[s])
  BY DEF SameOrigin
<1>5. _supersede(S, D, by)[s] = IF s \in D /\ IsLive(S, s) /\ ~S[s].used
                                THEN [S[s] EXCEPT !.status = "superseded", !.next = by]
                                ELSE S[s]
  BY DEF _supersede
<1> HIDE DEF SameOrigin
<1> QED BY <1>3, <1>4, <1>5

Relink(S, x, y, D, by) == _supersede([S EXCEPT ![x].next = y], D, by)

(* T is S, but for the link of x and the rows of D that were superseded.   *)
Relinked(S, T, D, x) ==
  /\ \A s \in Ids : SameOrigin(T[s], S[s])
  /\ \A s \in Ids : s \notin D \union {x} => T[s] = S[s]

LEMMA RelinkedRows ==
  ASSUME NEW S \in [Ids -> SessionRows], NEW D, NEW x \in Ids, NEW y \in Ids \union {NoRow},
         NEW by, NEW T, T = Relink(S, x, y, D, by)
  PROVE  Relinked(S, T, D, x) /\ (x \notin D => T[x].status = S[x].status)
<1> DEFINE C == [S EXCEPT ![x].next = y]
<1>1. ASSUME NEW row \in SessionRows
      PROVE  LET n == [row EXCEPT !.next = y]
             IN  n \in SessionRows /\ SameOrigin(n, row) /\ n.status = row.status
  BY DEF SessionRows, SameOrigin
<1>2. S[x] \in SessionRows
  OBVIOUS
<1>3. /\ C \in [Ids -> SessionRows]
      /\ \A s \in Ids : s # x => C[s] = S[s]
      /\ SameOrigin(C[x], S[x]) /\ C[x].status = S[x].status
  BY <1>1, <1>2
<1>4. \A s \in Ids : SameOrigin(C[s], S[s])
  <2>1. \A s \in Ids : s # x => SameOrigin(C[s], S[s])
    BY <1>3 DEF SameOrigin
  <2> QED BY <1>3, <2>1
<1> HIDE DEF C
<1>5. \A s \in Ids : SameOrigin(T[s], C[s]) /\ (s \notin D => T[s] = C[s])
  <2>1. T = _supersede(C, D, by)
    BY DEF C, Relink
  <2> QED BY <1>3, <2>1, SupersededRows
<1>6. \A s \in Ids : SameOrigin(T[s], S[s])
  BY <1>4, <1>5 DEF SameOrigin
<1> QED BY <1>3, <1>5, <1>6 DEF Relinked

LEMMA SettledElsewhere ==
  ASSUME NEW S, Sound(S), NEW w \in Ids, IsLive(S, w), S[w].next # NoRow,
         NEW T, T = settle_contest(S, w)
  PROVE  /\ \A s \in Ids : SameOrigin(T[s], S[s])
         /\ \A s \in Ids : S[s].root # S[w].root => T[s] = S[s]
<1> DEFINE D == _linked_ids(S, w) \ {w}
<1>1. S \in [Ids -> SessionRows] /\ NoRow \in Ids \union {NoRow}
  BY DEF Sound
<1>2. T = Relink(S, w, NoRow, D, w)
  BY DEF settle_contest, Relink
<1> HIDE DEF D
<1>3. Relinked(S, T, D, w)
  BY <1>1, <1>2, RelinkedRows
<1>4. ASSUME NEW s \in Ids, S[s].root # S[w].root PROVE T[s] = S[s]
  <2>1. s # w
    BY <1>4
  <2>2. s \notin Rivals(S, S[w].parent)
    <3>1. Descends(S) /\ S[w].parent \in Ids /\ S[w].parent # NoRow
      BY RingOfRivals, IdsAreNat DEF Sound
    <3> QED BY <1>4, <3>1 DEF Descends, Rivals
  <2>3. s \notin D
    BY <2>2, RingOfRivals DEF D
  <2> QED BY <1>3, <2>1, <2>3 DEF Relinked
<1> QED BY <1>3, <1>4 DEF Relinked

(* The rows a granted refresh of t leaves.                                 *)
RefreshedFrom(S, T, t, new) ==
  /\ \A s \in Ids : s # new =>
       /\ T[s].parent = S[s].parent /\ T[s].root = S[s].root /\ T[s].expired = S[s].expired
       /\ s # t => T[s].used = S[s].used
       /\ S[s].root # S[t].root => T[s] = S[s]
  /\ IsLive(T, new) /\ ~T[new].used /\ ~T[new].expired
  /\ T[new].parent = t /\ T[new].root = S[t].root
  /\ T[t].status = "rotated" /\ T[t].next = new /\ t # new

LEMMA RotatedFrom ==
  ASSUME NEW S, NEW T, Sound(S), NEW t \in Ids, IsLive(S, t),
         NEW new \in Ids, Born(S) = 1..(new - 1), T = _rotate(S, t, new)
  PROVE  RefreshedFrom(S, T, t, new)
<1> DEFINE settled == IF S[t].next # NoRow THEN settle_contest(S, t) ELSE S
           issued == Issued(t, S[t].root)
           gone == [settled[t] EXCEPT !.status = "rotated", !.next = new, !.used = TRUE]
<1>1. T = [settled EXCEPT ![new] = issued, ![t].status = "rotated", ![t].next = new,
                          ![t].used = TRUE]
  BY DEF _rotate
<1>2. t \in Born(S) /\ t # new /\ S[t] \in SessionRows
  BY IdsAreNat DEF Born, IsLive, Sound
<1>3. /\ settled \in [Ids -> SessionRows]
      /\ \A s \in Ids : SameOrigin(settled[s], S[s])
      /\ \A s \in Ids : S[s].root # S[t].root => settled[s] = S[s]
  <2>1. CASE S[t].next # NoRow
    <3>1. settled = settle_contest(S, t)
      BY <2>1
    <3> HIDE DEF settled
    <3>2. Sound(settled)
      BY <2>1, <3>1, SettleStep
    <3> QED BY <2>1, <3>1, <3>2, SettledElsewhere DEF Sound
  <2>2. CASE S[t].next = NoRow
    BY <2>2 DEF Sound, SameOrigin
  <2> QED BY <2>1, <2>2
<1> HIDE DEF settled
<1>4. T = [s \in Ids |-> IF s = t THEN gone ELSE IF s = new THEN issued ELSE settled[s]]
  BY <1>1, <1>2, <1>3
<1>5. /\ gone.status = "rotated" /\ gone.next = new /\ gone.parent = settled[t].parent
      /\ gone.root = settled[t].root /\ gone.expired = settled[t].expired
  <2>1. ASSUME NEW row \in SessionRows
        PROVE  LET n == [row EXCEPT !.status = "rotated", !.next = new, !.used = TRUE]
               IN  /\ n.status = "rotated" /\ n.next = new /\ n.parent = row.parent
                   /\ n.root = row.root /\ n.expired = row.expired
    BY DEF SessionRows
  <2> QED BY <1>3, <2>1
<1>6. /\ issued.status = "live" /\ ~issued.used /\ ~issued.expired
      /\ issued.parent = t /\ issued.root = S[t].root
  <2>1. t \in Ids \union {NoRow} /\ S[t].root \in Ids \union {NoRow}
    BY <1>2 DEF SessionRows
  <2> QED BY <2>1, IssuedRow
<1> HIDE DEF gone, issued
<1>7. T[t] = gone /\ T[new] = issued /\ \A s \in Ids : s # t /\ s # new => T[s] = settled[s]
  BY <1>2, <1>4
<1> QED BY <1>2, <1>3, <1>5, <1>6, <1>7 DEF RefreshedFrom, SameOrigin, IsLive

LEMMA RotatedAgainFrom ==
  ASSUME NEW S, NEW T, Sound(S), NEW t \in Ids, _may_rotate_again(S, t),
         NEW new \in Ids, Born(S) = 1..(new - 1), Kept \in Nat \ {0},
         T = _rotate_again(S, t, new)
  PROVE  RefreshedFrom(S, T, t, new)
<1> DEFINE su == S[t].next
           J == Joined(S, t, new)
           ring == Rivals(S, t) \union {new}
           D == ring \ Newest(ring)
<1>1. /\ J \in [Ids -> SessionRows] /\ su \in Ids /\ new # su /\ new # t /\ su # t
      /\ \A s \in Ids : s \notin {new, su, t} => J[s] = S[s]
      /\ \A s \in Ids : s # new => /\ J[s].status = S[s].status /\ J[s].used = S[s].used
                                   /\ J[s].parent = S[s].parent /\ J[s].root = S[s].root
                                   /\ J[s].expired = S[s].expired
      /\ J[new].status = "live" /\ ~J[new].used /\ ~J[new].expired
      /\ J[new].parent = t /\ J[new].root = S[t].root /\ J[t].next = new
  BY JoinedRows, IdsAreNat
<1>2. S[t].status = "rotated" /\ S[su].root = S[t].root
  BY SuccessorsRing DEF _may_rotate_again
<1>3. PICK oldest \in Ids :
        /\ NewerPart(Newest(ring), ring, oldest, new)
        /\ T = IF Cardinality(ring) > Kept
               THEN Shortened(J, ring, Newest(ring), oldest, new) ELSE J
  BY RotatedAgainIs
<1>4. new \notin D /\ t \notin D
  BY <1>1, <1>2, <1>3 DEF NewerPart, Rivals, IsLive
<1>5. \A s \in Ids : s \in D => S[s].root = S[t].root
  <2>1. \A s \in Ids : s \in D => S[s].parent = t
    BY <1>3 DEF NewerPart, Rivals
  <2> QED BY <2>1, IdsAreNat DEF Sound, Descends
<1>6. Relinked(J, T, D, new) /\ T[new].status = J[new].status
  <2>1. CASE Cardinality(ring) > Kept
    <3>1. T = Relink(J, new, oldest, D, new)
      BY <1>3, <2>1 DEF Shortened, Relink
    <3>2. J \in [Ids -> SessionRows] /\ oldest \in Ids \union {NoRow} /\ new \notin D
      BY <1>1, <1>4
    <3> HIDE DEF J, D, ring
    <3> QED BY <3>1, <3>2, RelinkedRows
  <2>2. CASE ~(Cardinality(ring) > Kept)
    <3>1. T = J
      BY <1>3, <2>2
    <3> QED BY <3>1 DEF Relinked, SameOrigin
  <2> QED BY <2>1, <2>2
<1> HIDE DEF J, D, ring, su
<1> QED BY <1>1, <1>2, <1>4, <1>5, <1>6 DEF RefreshedFrom, Relinked, SameOrigin, IsLive

LEMMA RefreshedRows ==
  ASSUME NEW S, NEW T, Sound(S), NEW t \in Ids, IsLive(S, t) \/ _may_rotate_again(S, t),
         NEW new \in Ids, Born(S) = 1..(new - 1), Kept \in Nat \ {0},
         T = Refreshed(S, t, new)
  PROVE  RefreshedFrom(S, T, t, new)
BY RotatedFrom, RotatedAgainFrom DEF Refreshed

(***************************************************************************)
(* While nothing has cut its sign-in off, the app holds a session that can *)
(* go on: it is live, or it was rotated and its newest successor is live   *)
(* and unused.  What could drop it from its ring is that younger rivals    *)
(* fill the ring; each of them takes one request that still carries the    *)
(* token they were rotated from, and none of those are sent any more.      *)
(***************************************************************************)
Open(row) == row.phase \notin {"free", "done"}

Newer(S, c) == {t \in Ids : S[t].parent = S[c].parent /\ c < t}
Dups(Q, R, p) == {q \in R : Q[q].kind = "refresh" /\ Q[q].target = p /\ Open(Q[q])}
Room(S, Q, R, k, c) ==
  Cardinality(Newer(S, c)) + Cardinality(Dups(Q, R, S[c].parent)) < k

(* No request signs the app's sign-in out, and of its sessions only the    *)
(* one the app holds may be both live and the target of a request.         *)
Targets(S, Q, held) ==
  \A q \in Requests : Open(Q[q]) /\ S[Q[q].target].root = S[held].root =>
    Q[q].kind # "logout" /\ (Q[q].target # held => ~IsLive(S, Q[q].target))

(* The reply the app waits for brings a session that can go on.            *)
Awaited(S, Q, R, k, held, w) ==
  /\ Q[w].kind = "refresh" /\ Q[w].target = held /\ Q[w].phase # "free"
  /\ Q[w].phase = "done" =>
       /\ Q[w].answer = "ok" /\ Q[w].issued \in Ids
       /\ S[Q[w].issued].parent = held /\ IsLive(S, Q[w].issued) /\ ~S[Q[w].issued].used
       /\ Room(S, Q, R, k, Q[w].issued)

GoesOn(S, Q, R, k, held, waiting) ==
  /\ held \in Ids /\ S[held].root # NoRow
  /\ \A s \in Ids : S[s].root = S[held].root => ~S[s].expired
  /\ IsLive(S, held) \/ _may_rotate_again(S, held)
  /\ IsLive(S, held) /\ S[held].parent # NoRow => Room(S, Q, R, k, held)
  /\ Targets(S, Q, held)
  /\ \A w \in Requests : waiting = w => Awaited(S, Q, R, k, held, w)

RequestKind(row) ==
  /\ row.kind = "refresh" => row.phase \in {"free", "contest", "locking", "done"}
  /\ Open(row) => row.answer = "none"

RequestKinds ==
  \A q \in Requests : RequestKind(req[q]) /\ (req[q].phase # "free" => q \in mix.requests)

Going == active /\ GoesOn(sess, req, mix.requests, Kept, client.held, client.waiting)

LateInv ==
  /\ RequestKinds
  /\ ~cut /\ Cardinality(mix.requests) <= Kept => Going

LEMMA RoomCounted ==
  ASSUME NEW S, NEW Q, NEW R, IsFiniteSet(R), NEW c, NEW p
  PROVE  /\ IsFiniteSet(Newer(S, c)) /\ Cardinality(Newer(S, c)) \in Nat
         /\ IsFiniteSet(Dups(Q, R, p)) /\ Cardinality(Dups(Q, R, p)) \in Nat
<1>1. IsFiniteSet(Ids)
  BY IdsAreNat, FS_Interval DEF Ids
<1>2. Newer(S, c) \in SUBSET Ids /\ Dups(Q, R, p) \in SUBSET R
  BY DEF Newer, Dups
<1>3. IsFiniteSet(Newer(S, c)) /\ IsFiniteSet(Dups(Q, R, p))
  BY <1>1, <1>2, FS_Subset
<1> QED BY <1>3, FS_CardinalityType

LEMMA RoomKept ==
  ASSUME NEW S, NEW T, NEW Q, NEW P, NEW R, IsFiniteSet(R), NEW k \in Nat, NEW c,
         Room(S, Q, R, k, c), T[c].parent = S[c].parent, Newer(T, c) \subseteq Newer(S, c),
         Dups(P, R, S[c].parent) \subseteq Dups(Q, R, S[c].parent)
  PROVE  Room(T, P, R, k, c)
<1>1. Cardinality(Newer(T, c)) <= Cardinality(Newer(S, c))
  BY RoomCounted, FS_Subset
<1>2. Cardinality(Dups(P, R, S[c].parent)) <= Cardinality(Dups(Q, R, S[c].parent))
  BY RoomCounted, FS_Subset
<1> QED BY <1>1, <1>2, RoomCounted DEF Room

(* A request for the token c was rotated from becomes a younger rival n.   *)
TakesRoom(S, T, Q, P, R, c, n, r) ==
  /\ T[c].parent = S[c].parent /\ Newer(T, c) \subseteq Newer(S, c) \union {n}
  /\ r \in Dups(Q, R, S[c].parent)
  /\ Dups(P, R, S[c].parent) \subseteq Dups(Q, R, S[c].parent) \ {r}

LEMMA RoomTaken ==
  ASSUME NEW S, NEW T, NEW Q, NEW P, NEW R, IsFiniteSet(R), NEW k \in Nat, NEW c,
         Room(S, Q, R, k, c), NEW n, NEW r, TakesRoom(S, T, Q, P, R, c, n, r)
  PROVE  /\ Room(T, P, R, k, c)
         /\ IsFiniteSet(Newer(S, c) \union {n}) /\ Cardinality(Newer(S, c) \union {n}) < k
<1> DEFINE D == Dups(Q, R, S[c].parent)
           A == Newer(S, c)
<1>1. /\ IsFiniteSet(A) /\ Cardinality(A) \in Nat /\ IsFiniteSet(D) /\ Cardinality(D) \in Nat
      /\ Cardinality(Newer(T, c)) \in Nat /\ Cardinality(Dups(P, R, S[c].parent)) \in Nat
  BY RoomCounted
<1>2. Cardinality(A) + Cardinality(D) < k
  BY DEF Room
<1> HIDE DEF A, D
<1>3. IsFiniteSet(A \union {n}) /\ Cardinality(A \union {n}) <= Cardinality(A) + 1
  <2>1. CASE n \in A
    <3>1. A \union {n} = A /\ Cardinality(A) <= Cardinality(A) + 1
      BY <1>1, <2>1
    <3> QED BY <1>1, <3>1, Zenon
  <2>2. CASE n \notin A
    <3>1. /\ IsFiniteSet(A \union {n})
          /\ Cardinality(A \union {n}) = Cardinality(A) + 1
      BY <1>1, <2>2, FS_AddElement, Zenon
    <3> QED BY <1>1, <3>1
  <2> QED BY <2>1, <2>2
<1>4. IsFiniteSet(D \ {r}) /\ Cardinality(D \ {r}) = Cardinality(D) - 1
  BY <1>1, FS_RemoveElement DEF D, TakesRoom
<1>5. Cardinality(A \union {n}) \in Nat
  BY <1>3, FS_CardinalityType
<1>6. Cardinality(Newer(T, c)) <= Cardinality(A \union {n})
  BY <1>3, FS_Subset DEF A, TakesRoom
<1>7. Cardinality(Dups(P, R, S[c].parent)) <= Cardinality(D \ {r})
  BY <1>4, FS_Subset DEF D, TakesRoom
<1>8. Cardinality(D) # 0
  <2>1. D # {}
    BY DEF D, TakesRoom
  <2> QED BY <1>1, <2>1, FS_EmptySet
<1>9. Cardinality(A \union {n}) < k
  BY <1>1, <1>2, <1>3, <1>5, <1>8
<1>10. Cardinality(Newer(T, c)) + Cardinality(Dups(P, R, S[c].parent)) < k
  BY <1>1, <1>2, <1>3, <1>4, <1>5, <1>6, <1>7
<1> QED BY <1>3, <1>9, <1>10 DEF Room, A, TakesRoom

(* A step beside the app's session: nothing it holds is taken, and the     *)
(* requests go on or end.                                                  *)
Undisturbed(S, T, h) ==
  /\ \A s \in Ids :
       /\ T[s].root = S[h].root <=> S[s].root = S[h].root
       /\ S[s].root = S[h].root =>
            /\ T[s].parent = S[s].parent /\ T[s].expired = S[s].expired
            /\ IsLive(T, s) => IsLive(S, s)
       /\ S[s].parent = h /\ IsLive(S, s) /\ ~S[s].used => IsLive(T, s) /\ ~T[s].used
  /\ IsLive(S, h) => IsLive(T, h)
  /\ _may_rotate_again(S, h) => _may_rotate_again(T, h)

CarriesOn(old, row) ==
  Open(row) => Open(old) /\ row.kind = old.kind /\ row.target = old.target

CarryOn(Q, P, waiting) ==
  \A q \in Requests :
    /\ CarriesOn(Q[q], P[q])
    /\ waiting = q => /\ P[q].kind = Q[q].kind /\ P[q].target = Q[q].target
                      /\ P[q].phase # "free" /\ (P[q].phase = "done" => P[q] = Q[q])

LEMMA Undisturbing ==
  ASSUME NEW S, Sound(S), NEW h
  PROVE  Undisturbed(S, S, h)
BY DEF Undisturbed

LEMMA OthersUndisturbed ==
  ASSUME NEW S, NEW T, Sound(S), NEW h \in Ids, S[h].root # NoRow,
         \A s \in Ids : T[s].root = S[h].root <=> S[s].root = S[h].root,
         \A s \in Ids : S[s].root = S[h].root => T[s] = S[s]
  PROVE  Undisturbed(S, T, h)
<1>1. S \in [Ids -> SessionRows] /\ Descends(S) /\ RotatedLinks(S)
  BY DEF Sound
<1>2. \A s \in Ids : S[s].parent = h => S[s].root = S[h].root
  BY <1>1, IdsAreNat DEF Descends
<1>3. _may_rotate_again(S, h) => _may_rotate_again(T, h)
  <2>1. _may_rotate_again(S, h) => S[h].next \in Ids /\ S[S[h].next].parent = h
    BY <1>1 DEF _may_rotate_again, RotatedLinks, SessionRows
  <2> QED BY <1>2, <2>1 DEF _may_rotate_again, IsLive
<1> QED BY <1>2, <1>3 DEF Undisturbed, IsLive

LEMMA GoesOnBeside ==
  ASSUME NEW S, NEW T, Sound(S), Sound(T), NEW h, Undisturbed(S, T, h),
         NEW Q, NEW P, NEW w, CarryOn(Q, P, w), NEW R \in SUBSET Requests, IsFiniteSet(R),
         NEW k \in Nat, GoesOn(S, Q, R, k, h, w),
         \A q \in Requests : Open(Q[q]) => Q[q].target \in Ids
  PROVE  GoesOn(T, P, R, k, h, w)
<1>1. h \in Ids /\ S[h].root # NoRow /\ T[h].root = S[h].root
  BY DEF GoesOn, Undisturbed
<1>2. ASSUME NEW c \in Ids, S[c].root = S[h].root, S[c].parent # NoRow, Room(S, Q, R, k, c)
      PROVE  Room(T, P, R, k, c)
  <2>1. T[c].parent = S[c].parent /\ T[c].root = S[h].root /\ S[c].parent \in Ids
    <3>1. S[c].parent \in Ids \union {NoRow}
      BY DEF Sound, SessionRows
    <3> QED BY <1>2, <3>1 DEF Undisturbed
  <2>2. ASSUME NEW x \in Newer(T, c) PROVE x \in Newer(S, c)
    <3>1. x \in Ids /\ T[x].parent = S[c].parent /\ c < x
      BY <2>1 DEF Newer
    <3>2. T[x].root = T[S[c].parent].root /\ T[c].root = T[S[c].parent].root
      BY <1>2, <2>1, <3>1 DEF Sound, Descends
    <3>3. S[x].root = S[h].root
      BY <2>1, <3>1, <3>2 DEF Undisturbed
    <3> QED BY <3>1, <3>3 DEF Undisturbed, Newer
  <2>3. Dups(P, R, S[c].parent) \subseteq Dups(Q, R, S[c].parent)
    BY DEF Dups, CarryOn, CarriesOn
  <2> QED BY <1>2, <2>1, <2>2, <2>3, RoomKept
<1>3. \A s \in Ids : T[s].root = T[h].root => ~T[s].expired
  BY <1>1 DEF GoesOn, Undisturbed
<1>4. IsLive(T, h) \/ _may_rotate_again(T, h)
  BY DEF GoesOn, Undisturbed
<1>5. IsLive(T, h) /\ T[h].parent # NoRow => Room(T, P, R, k, h)
  <2>1. IsLive(T, h) => IsLive(S, h)
    BY <1>1 DEF Undisturbed
  <2>2. T[h].parent = S[h].parent
    BY <1>1 DEF Undisturbed
  <2> QED BY <1>1, <1>2, <2>1, <2>2 DEF GoesOn
<1>6. Targets(T, P, h)
  <2>1. ASSUME NEW q \in Requests, Open(P[q]), T[P[q].target].root = T[h].root
        PROVE  P[q].kind # "logout" /\ (P[q].target # h => ~IsLive(T, P[q].target))
    <3>1. Open(Q[q]) /\ P[q].kind = Q[q].kind /\ P[q].target = Q[q].target /\ Q[q].target \in Ids
      BY <2>1 DEF CarryOn, CarriesOn
    <3>2. S[Q[q].target].root = S[h].root
      BY <1>1, <2>1, <3>1 DEF Undisturbed
    <3>3. Q[q].kind # "logout" /\ (Q[q].target # h => ~IsLive(S, Q[q].target))
      BY <3>1, <3>2 DEF GoesOn, Targets
    <3> QED BY <3>1, <3>2, <3>3 DEF Undisturbed
  <2> QED BY <2>1 DEF Targets
<1>7. ASSUME NEW v \in Requests, w = v PROVE Awaited(T, P, R, k, h, v)
  <2>1. Awaited(S, Q, R, k, h, v)
    BY <1>7 DEF GoesOn
  <2>2. /\ P[v].kind = "refresh" /\ P[v].target = h /\ P[v].phase # "free"
        /\ P[v].phase = "done" => P[v] = Q[v]
    BY <1>7, <2>1 DEF Awaited, CarryOn
  <2>3. CASE P[v].phase # "done"
    BY <2>2, <2>3 DEF Awaited
  <2>4. CASE P[v].phase = "done"
    <3> DEFINE i == Q[v].issued
    <3>1. /\ P[v] = Q[v] /\ Q[v].answer = "ok" /\ i \in Ids /\ S[i].parent = h
          /\ IsLive(S, i) /\ ~S[i].used /\ Room(S, Q, R, k, i)
      BY <2>1, <2>2, <2>4 DEF Awaited
    <3>2. S[i].root = S[h].root /\ S[i].parent # NoRow
      BY <1>1, <3>1, IdsAreNat DEF Sound, Descends
    <3>3. T[i].parent = h /\ IsLive(T, i) /\ ~T[i].used
      BY <3>1, <3>2 DEF Undisturbed
    <3>4. Room(T, P, R, k, i)
      BY <1>2, <3>1, <3>2
    <3> QED BY <2>2, <2>4, <3>1, <3>3, <3>4 DEF Awaited
  <2> QED BY <2>3, <2>4
<1> QED BY <1>1, <1>3, <1>4, <1>5, <1>6, <1>7 DEF GoesOn

(* Request r rotates t into new.                                           *)
Refreshing(S, T, Q, P, R, r, t, new) ==
  /\ Sound(S) /\ Sound(T) /\ Onwards(S, T) /\ RefreshedFrom(S, T, t, new)
  /\ t \in Ids /\ new \in Ids /\ Born(S) = 1..(new - 1) /\ Born(T) = 1..new
  /\ IsLive(S, t) \/ _may_rotate_again(S, t)
  /\ _may_rotate_again(S, t) => Newest(Rivals(S, t) \union {new}) \subseteq Rivals(T, t)
  /\ R \in SUBSET Requests /\ IsFiniteSet(R) /\ r \in R
  /\ Q[r].kind = "refresh" /\ Q[r].target = t /\ Open(Q[r])
  /\ P[r].kind = "refresh" /\ P[r].target = t
  /\ P[r].phase = "done" /\ P[r].answer = "ok" /\ P[r].issued = new
  /\ \A q \in Requests : q # r => P[q] = Q[q]
  /\ \A q \in Requests : Open(Q[q]) => Q[q].target \in Born(S)

LEMMA NewRow ==
  ASSUME NEW S, NEW T, NEW Q, NEW P, NEW R, NEW r, NEW t, NEW new,
         Refreshing(S, T, Q, P, R, r, t, new)
  PROVE  /\ S[new].root = NoRow /\ S[new].parent = NoRow /\ ~IsLive(S, new)
         /\ \A s \in Ids : s # new /\ IsLive(T, s) => IsLive(S, s)
         /\ \A s \in Born(T) : s <= new
         /\ \A q \in Requests : Open(Q[q]) => Q[q].target \in Ids /\ Q[q].target # new
<1> USE IdsAreNat
<1>1. /\ new \in Ids /\ Born(S) = 1..(new - 1) /\ Born(T) = 1..new /\ Descends(S)
      /\ Onwards(S, T)
  BY DEF Refreshing, Sound
<1>2. new \notin Born(S)
  BY <1>1
<1>3. S[new] = Absent
  BY <1>1, <1>2 DEF Born, Descends
<1>4. ASSUME NEW s \in Ids, s # new, IsLive(T, s) PROVE IsLive(S, s)
  <2>1. s \in Born(S)
    BY <1>1, <1>4 DEF Born, IsLive
  <2> QED BY <1>1, <1>4, <2>1 DEF Onwards
<1>5. \A q \in Requests : Open(Q[q]) => Q[q].target \in Ids /\ Q[q].target # new
  BY <1>2 DEF Refreshing, Born
<1> QED BY <1>1, <1>3, <1>4, <1>5 DEF Absent, IsLive

LEMMA RivalStays ==
  ASSUME NEW S, NEW T, NEW Q, NEW P, NEW R, NEW r, NEW t, NEW new,
         Refreshing(S, T, Q, P, R, r, t, new), _may_rotate_again(S, t), Kept \in Nat,
         NEW c \in Ids, IsLive(S, c), S[c].parent = t, Room(S, Q, R, Kept, c)
  PROVE  IsLive(T, c) /\ Room(T, P, R, Kept, c)
<1>1. c # new /\ c # t /\ T[c].parent = S[c].parent
  <2>1. c # new /\ c # t
    BY NewRow DEF _may_rotate_again, IsLive
  <2> QED BY <2>1 DEF Refreshing, RefreshedFrom
<1>2. Newer(T, c) \subseteq Newer(S, c) \union {new}
  BY <1>1 DEF Newer, Refreshing, RefreshedFrom
<1>3. /\ r \in Dups(Q, R, S[c].parent)
      /\ Dups(P, R, S[c].parent) \subseteq Dups(Q, R, S[c].parent) \ {r}
  BY DEF Dups, Refreshing, Open
<1>4. /\ Room(T, P, R, Kept, c) /\ IsFiniteSet(Newer(S, c) \union {new})
      /\ Cardinality(Newer(S, c) \union {new}) < Kept
  <2>1. IsFiniteSet(R) /\ TakesRoom(S, T, Q, P, R, c, new, r)
    BY <1>1, <1>2, <1>3 DEF Refreshing, TakesRoom
  <2> QED BY <2>1, RoomTaken
<1> DEFINE ring == Rivals(S, t) \union {new}
           younger == {x \in ring : x > c}
<1>5. c \in Newest(ring)
  <2>1. younger \in SUBSET (Newer(S, c) \union {new})
    BY IdsAreNat DEF Newer, Rivals, Refreshing
  <2>2. Cardinality(younger) <= Cardinality(Newer(S, c) \union {new})
    BY <1>4, <2>1, FS_Subset
  <2>3. IsFiniteSet(younger)
    BY <1>4, <2>1, FS_Subset
  <2> HIDE DEF younger
  <2>4. Cardinality(younger) < Kept
    BY <1>4, <2>2, <2>3, FS_CardinalityType
  <2> QED BY <2>4 DEF Newest, Rivals, younger
<1> HIDE DEF ring
<1>6. c \in Rivals(T, t)
  BY <1>5 DEF Refreshing, ring
<1> QED BY <1>4, <1>6 DEF Rivals

(* Of another sign-in.                                                     *)
LEMMA RefreshElsewhere ==
  ASSUME NEW S, NEW T, NEW Q, NEW P, NEW R, NEW r, NEW t, NEW new,
         Refreshing(S, T, Q, P, R, r, t, new), Kept \in Nat,
         NEW h, NEW w, GoesOn(S, Q, R, Kept, h, w), S[t].root # S[h].root
  PROVE  GoesOn(T, P, R, Kept, h, w)
<1>1. /\ Sound(S) /\ Sound(T) /\ RefreshedFrom(S, T, t, new) /\ h \in Ids /\ S[h].root # NoRow
  BY DEF Refreshing, GoesOn
<1>2. h # new
  BY <1>1, NewRow
<1>3. \A s \in Ids : S[s].root = S[h].root => T[s] = S[s]
  BY <1>1, NewRow DEF RefreshedFrom
<1>4. \A s \in Ids : T[s].root = S[h].root <=> S[s].root = S[h].root
  BY <1>1, <1>2, NewRow DEF RefreshedFrom
<1>5. Undisturbed(S, T, h)
  BY <1>1, <1>3, <1>4, OthersUndisturbed
<1>6. CarryOn(Q, P, w)
  <2>1. \A v \in Requests : w = v => v # r /\ Q[v].phase # "free"
    BY DEF GoesOn, Awaited, Refreshing
  <2> QED BY <2>1 DEF CarryOn, CarriesOn, Open, Refreshing
<1>7. \A q \in Requests : Open(Q[q]) => Q[q].target \in Ids
  BY NewRow
<1> QED BY <1>1, <1>5, <1>6, <1>7, GoesOnBeside DEF Refreshing

(* What of the sign-in of t stays as it was.                               *)
LEMMA RefreshLeaves ==
  ASSUME NEW S, NEW T, NEW Q, NEW P, NEW R, NEW r, NEW t, NEW new,
         Refreshing(S, T, Q, P, R, r, t, new),
         NEW h, NEW w, GoesOn(S, Q, R, Kept, h, w), S[t].root = S[h].root
  PROVE  /\ h \in Ids /\ h # new /\ T[h].root = S[h].root /\ T[h].root # NoRow
         /\ T[h].parent = S[h].parent
         /\ \A s \in Ids : T[s].root = T[h].root => ~T[s].expired
         /\ Targets(T, P, h)
<1>1. h \in Ids /\ S[h].root # NoRow /\ h # new
  BY NewRow DEF GoesOn
<1>2. T[h].root = S[h].root /\ T[h].parent = S[h].parent
  BY <1>1 DEF Refreshing, RefreshedFrom
<1>3. \A s \in Ids : T[s].root = T[h].root => ~T[s].expired
  BY <1>2 DEF Refreshing, RefreshedFrom, GoesOn
<1>4. ASSUME NEW q \in Requests, Open(P[q]), T[P[q].target].root = T[h].root
      PROVE  P[q].kind # "logout" /\ (P[q].target # h => ~IsLive(T, P[q].target))
  <2>1. q # r /\ P[q] = Q[q]
    BY <1>4 DEF Refreshing, Open
  <2>2. Q[q].target \in Ids /\ Q[q].target # new
    BY <1>4, <2>1, NewRow
  <2>3. S[Q[q].target].root = S[h].root
    BY <1>2, <1>4, <2>1, <2>2 DEF Refreshing, RefreshedFrom
  <2>4. Q[q].kind # "logout" /\ (Q[q].target # h => ~IsLive(S, Q[q].target))
    BY <1>4, <2>1, <2>3 DEF GoesOn, Targets
  <2> QED BY <2>1, <2>2, <2>4, NewRow
<1>5. Targets(T, P, h)
  BY <1>4 DEF Targets
<1> QED BY <1>1, <1>2, <1>3, <1>5

(* Of the token the app's session was rotated from.                        *)
LEMMA RefreshOfParent ==
  ASSUME NEW S, NEW T, NEW Q, NEW P, NEW R, NEW r, NEW t, NEW new,
         Refreshing(S, T, Q, P, R, r, t, new), Kept \in Nat,
         NEW h, NEW w, GoesOn(S, Q, R, Kept, h, w), S[t].root = S[h].root, t # h
  PROVE  GoesOn(T, P, R, Kept, h, w)
<1>1. /\ t \in Ids /\ h \in Ids /\ OneRing(S) /\ Descends(S) /\ RotatedLinks(S)
      /\ S \in [Ids -> SessionRows] /\ r \in Requests
  BY DEF Refreshing, Sound, GoesOn
<1>2. _may_rotate_again(S, t)
  BY <1>1 DEF GoesOn, Targets, Refreshing
<1>3. \A x \in Ids : _may_rotate_again(S, x) =>
        /\ S[x].next \in Ids /\ IsLive(S, S[x].next)
        /\ S[S[x].next].parent = x /\ S[S[x].next].root = S[x].root
  <2>1. ASSUME NEW x \in Ids, _may_rotate_again(S, x)
        PROVE  /\ S[x].next \in Ids /\ IsLive(S, S[x].next)
               /\ S[S[x].next].parent = x /\ S[S[x].next].root = S[x].root
    <3>1. S[x].next \in Ids /\ IsLive(S, S[x].next) /\ S[S[x].next].parent = x
      BY <1>1, <2>1 DEF _may_rotate_again, RotatedLinks, SessionRows
    <3> QED BY <1>1, <3>1, IdsAreNat DEF Descends
  <2> QED BY <2>1
<1>4. IsLive(S, h)
  BY <1>1, <1>2, <1>3 DEF OneRing, GoesOn
<1>5. S[h].parent = t /\ t # NoRow
  <2>1. /\ S[t].next \in Ids /\ IsLive(S, S[t].next)
        /\ S[S[t].next].parent = t /\ S[S[t].next].root = S[h].root
    BY <1>1, <1>2, <1>3
  <2> QED BY <1>1, <1>4, <2>1, IdsAreNat DEF OneRing
<1>6. IsLive(T, h) /\ Room(T, P, R, Kept, h)
  <2>1. Room(S, Q, R, Kept, h)
    BY <1>4, <1>5 DEF GoesOn
  <2> QED BY <1>1, <1>2, <1>4, <1>5, <2>1, RivalStays
<1>7. ASSUME NEW v \in Requests, w = v PROVE Awaited(T, P, R, Kept, h, v)
  <2>1. Awaited(S, Q, R, Kept, h, v)
    BY <1>7 DEF GoesOn
  <2>2. P[v] = Q[v]
    BY <2>1 DEF Awaited, Refreshing
  <2>3. Q[v].phase # "done"
    BY <1>1, <1>4, <2>1 DEF Awaited, RotatedLinks
  <2> QED BY <2>1, <2>2, <2>3 DEF Awaited
<1>8. /\ h \in Ids /\ T[h].root = S[h].root /\ T[h].root # NoRow
      /\ \A s \in Ids : T[s].root = T[h].root => ~T[s].expired
      /\ Targets(T, P, h)
  BY RefreshLeaves
<1> QED BY <1>6, <1>7, <1>8 DEF GoesOn

(* Of the token the app holds itself.                                      *)
LEMMA RefreshOfHeld ==
  ASSUME NEW S, NEW T, NEW Q, NEW P, NEW R, NEW r, NEW t, NEW new,
         Refreshing(S, T, Q, P, R, r, t, new), Kept \in Nat, Cardinality(R) <= Kept,
         NEW w, GoesOn(S, Q, R, Kept, t, w)
  PROVE  GoesOn(T, P, R, Kept, t, w)
<1>1. /\ t \in Ids /\ new \in Ids /\ Descends(T) /\ RotatedLinks(S) /\ Descends(S)
      /\ r \in Requests /\ IsFiniteSet(R) /\ r \in R /\ RefreshedFrom(S, T, t, new)
  BY DEF Refreshing, Sound
<1>2. _may_rotate_again(T, t) /\ ~IsLive(T, t)
  BY <1>1, IdsAreNat DEF RefreshedFrom, _may_rotate_again, IsLive
<1>3. Room(T, P, R, Kept, new)
  <2>1. Newer(T, new) = {}
    <3>1. ASSUME NEW x \in Newer(T, new) PROVE FALSE
      <4>1. x \in Ids /\ T[x].parent = t /\ new < x
        BY <1>1 DEF Newer, RefreshedFrom
      <4>2. x \in Born(T)
        BY <1>1, <4>1, IdsAreNat DEF Born, Descends, Absent
      <4> QED BY <1>1, <4>1, <4>2, NewRow, IdsAreNat
    <3> QED BY <3>1
  <2>2. Cardinality(Newer(T, new)) = 0
    BY <2>1, FS_EmptySet
  <2>3. Dups(P, R, t) \in SUBSET (R \ {r})
    BY DEF Dups, Refreshing, Open
  <2>4. /\ IsFiniteSet(R \ {r}) /\ Cardinality(R \ {r}) = Cardinality(R) - 1
        /\ Cardinality(R) \in Nat
    BY <1>1, FS_RemoveElement, FS_CardinalityType
  <2>5. Cardinality(Dups(P, R, t)) <= Cardinality(R \ {r})
    BY <2>3, <2>4, FS_Subset
  <2>6. Cardinality(Dups(P, R, t)) \in Nat
    BY <1>1, RoomCounted
  <2>7. T[new].parent = t
    BY <1>1 DEF RefreshedFrom
  <2> QED BY <2>2, <2>4, <2>5, <2>6, <2>7 DEF Room
<1>4. ASSUME NEW v \in Requests, w = v PROVE Awaited(T, P, R, Kept, t, v)
  <2>1. Awaited(S, Q, R, Kept, t, v)
    BY <1>4 DEF GoesOn
  <2>2. CASE v = r
    BY <1>1, <1>3, <2>2 DEF Awaited, Refreshing, RefreshedFrom
  <2>3. CASE v # r /\ Q[v].phase # "done"
    BY <2>1, <2>3 DEF Awaited, Refreshing
  <2>4. CASE v # r /\ Q[v].phase = "done"
    <3> DEFINE i == Q[v].issued
    <3>1. /\ P[v] = Q[v] /\ Q[v].answer = "ok" /\ i \in Ids /\ S[i].parent = t
          /\ IsLive(S, i) /\ ~S[i].used /\ Room(S, Q, R, Kept, i)
      BY <2>1, <2>4 DEF Awaited, Refreshing
    <3> HIDE DEF i
    <3>2. _may_rotate_again(S, t)
      BY <1>1, <3>1 DEF RotatedLinks, Refreshing
    <3>3. IsLive(T, i) /\ Room(T, P, R, Kept, i)
      BY <3>1, <3>2, RivalStays
    <3>4. i # new /\ i # t
      BY <3>1, <3>2, NewRow DEF _may_rotate_again, IsLive
    <3>5. T[i].parent = t /\ ~T[i].used
      BY <1>1, <3>1, <3>4 DEF RefreshedFrom
    <3> QED BY <2>1, <3>1, <3>3, <3>5 DEF Awaited, i
  <2> QED BY <2>2, <2>3, <2>4
<1> QED BY <1>2, <1>4, RefreshLeaves DEF GoesOn

(***************************************************************************)
(* Step by step.                                                           *)
(***************************************************************************)
LEMMA LateFacts ==
  ASSUME IndInv
  PROVE  /\ Kept \in Nat \ {0} /\ mix.requests \in SUBSET Requests /\ IsFiniteSet(mix.requests)
         /\ \A q \in Requests : Open(req[q]) => req[q].target \in Born(sess)
         /\ Born(sess) \in SUBSET Ids
<1>1. Kept \in Nat \ {0} /\ mix.requests \in SUBSET Requests
  BY MixFacts, AuthAssumption DEF IndInv, AuthType
<1>2. IsFiniteSet(mix.requests)
  BY <1>1, AuthAssumption, FS_Subset
<1> QED BY <1>1, <1>2 DEF IndInv, RequestsSound, RequestSound, Open, Born

(* How one request gets on.                                                *)
Advances(old, row) ==
  /\ Open(old) /\ row.kind = old.kind /\ row.target = old.target
  /\ \/ row.phase = "done"
     \/ Open(row) /\ row.answer = old.answer
        /\ (row.kind = "refresh" => row.phase \in {"contest", "locking"})

LEMMA KindsAdvance ==
  ASSUME IndInv, RequestKinds, mix' = mix, NEW r \in Requests, NEW row,
         Advances(req[r], row), req' = [req EXCEPT ![r] = row]
  PROVE  RequestKinds'
<1>1. \A q \in Requests : req'[q] = IF q = r THEN row ELSE req[q]
  BY DEF IndInv, AuthType
<1>2. RequestKind(row) /\ r \in mix.requests
  BY DEF RequestKinds, RequestKind, Advances, Open
<1> QED BY <1>1, <1>2 DEF RequestKinds

LEMMA LateBeside ==
  ASSUME IndInv, IndInv', LateInv, NEW r \in Requests, NEW row,
         Advances(req[r], row), req' = [req EXCEPT ![r] = row],
         UNCHANGED <<mix, active, client, cut>>,
         Going => /\ Undisturbed(sess, sess', client.held)
                  /\ client.waiting = r => row.phase # "done"
  PROVE  LateInv'
<1>1. RequestKinds'
  BY KindsAdvance DEF LateInv
<1>2. ASSUME ~cut', Cardinality(mix'.requests) <= Kept' PROVE Going'
  <2>1. Going
    BY <1>2 DEF LateInv, Kept
  <2>2. CarryOn(req, req', client.waiting)
    <3>1. \A q \in Requests : req'[q] = IF q = r THEN row ELSE req[q]
      BY DEF IndInv, AuthType
    <3>2. \A q \in Requests : client.waiting = q => req[q].phase # "free"
      BY <2>1 DEF Going, GoesOn, Awaited
    <3>3. CarriesOn(req[r], row) /\ row.kind = req[r].kind /\ row.target = req[r].target
          /\ row.phase # "free"
      BY DEF CarriesOn, Advances, Open
    <3> QED BY <2>1, <3>1, <3>2, <3>3 DEF CarryOn, CarriesOn
  <2>3. GoesOn(sess', req', mix.requests, Kept, client.held, client.waiting)
    <3>1. Sound(sess) /\ Sound(sess')
      BY DEF IndInv
    <3>2. GoesOn(sess, req, mix.requests, Kept, client.held, client.waiting)
      BY <2>1 DEF Going
    <3>3. \A q \in Requests : Open(req[q]) => req[q].target \in Ids
      BY LateFacts
    <3>4. Undisturbed(sess, sess', client.held) /\ Kept \in Nat
      BY <2>1, LateFacts
    <3> QED BY <2>2, <3>1, <3>2, <3>3, <3>4, LateFacts, GoesOnBeside
  <2> QED BY <2>1, <2>3 DEF Going, Kept
<1> QED BY <1>1, <1>2 DEF LateInv

LEMMA AdvancingRows ==
  ASSUME NEW old \in RequestRows, Open(old)
  PROVE  /\ \A a, n : Advances(old, Ended(old, a, n)) /\ Ended(old, a, n).phase = "done"
         /\ old.kind # "refresh" => Advances(old, AcceptedRow(old))
<1>1. \A a, n : LET e == Ended(old, a, n)
                IN  e.kind = old.kind /\ e.target = old.target /\ e.phase = "done"
  BY DEF Ended, RequestRows
<1>2. LET a == [old EXCEPT !.phase = "logout", !.locked = {}]
      IN  /\ a.kind = old.kind /\ a.target = old.target /\ a.phase = "logout"
          /\ a.answer = old.answer
  BY DEF RequestRows
<1>3. \A a, n : Advances(old, Ended(old, a, n))
  BY <1>1 DEF Advances
<1>4. ASSUME old.kind # "refresh" PROVE Advances(old, AcceptedRow(old))
  <2>1. CASE old.kind = "logout"
    BY <1>2, <1>4, <2>1 DEF AcceptedRow, Advances, Open
  <2>2. CASE old.kind # "logout"
    BY <1>3, <2>2 DEF AcceptedRow
  <2> QED BY <2>1, <2>2
<1> QED BY <1>1, <1>3, <1>4

LEMMA NotWaitedFor ==
  ASSUME Going, NEW r \in Requests, req[r].kind # "refresh"
  PROVE  client.waiting # r
BY DEF Going, GoesOn, Awaited

LEMMA WalkLate ==
  ASSUME IndInv, IndInv', LateInv, NEW r \in Requests, Walk(r)
  PROVE  LateInv'
<1> DEFINE old == req[r]
           row == [old EXCEPT !.phase = "locking", !.want = Missing(r)]
<1>1. old \in RequestRows /\ RequestKind(old) /\ old.phase = "contest"
  BY DEF IndInv, AuthType, LateInv, RequestKinds, Walk
<1>2. req' = [req EXCEPT ![r] = row]
  BY DEF Walk, IndInv, AuthType
<1>3. Advances(old, row) /\ row.phase # "done"
  BY <1>1 DEF RequestRows, Advances, Open
<1>4. UNCHANGED <<mix, active, client, cut>> /\ Undisturbed(sess, sess', client.held)
  BY Undisturbing DEF Walk, IndInv
<1> HIDE DEF row, old
<1> QED BY <1>2, <1>3, <1>4, LateBeside DEF old

LEMMA LockRowLate ==
  ASSUME IndInv, IndInv', LateInv, NEW r \in Requests, LockRow(r)
  PROVE  LateInv'
<1> DEFINE old == req[r]
           s == Lowest(old.want)
           row == [old EXCEPT !.locked = @ \union {s}, !.want = @ \ {s},
                              !.phase = IF old.want = {s} THEN "contest" ELSE @]
<1>1. old \in RequestRows /\ RequestKind(old) /\ old.phase = "locking"
  BY DEF IndInv, AuthType, LateInv, RequestKinds, LockRow
<1>2. req' = [req EXCEPT ![r] = row]
  BY DEF LockRow, IndInv, AuthType
<1> HIDE DEF s
<1>3. Advances(old, row) /\ row.phase # "done"
  BY <1>1 DEF RequestRows, Advances, Open
<1>4. UNCHANGED <<mix, active, client, cut>> /\ Undisturbed(sess, sess', client.held)
  BY Undisturbing DEF LockRow, IndInv
<1> HIDE DEF row, old
<1> QED BY <1>2, <1>3, <1>4, LateBeside DEF old

LEMMA RequireUserLate ==
  ASSUME IndInv, IndInv', LateInv, NEW r \in Requests, require_user(r)
  PROVE  LateInv'
<1> DEFINE old == req[r]
           t == old.target
           row == [old EXCEPT !.phase = IF sess[t].next = NoRow THEN "own" ELSE "contest"]
<1>1. /\ old \in RequestRows /\ RequestKind(old) /\ old.phase = "queued" /\ AuthType
  BY DEF IndInv, AuthType, LateInv, RequestKinds, require_user
<1>2. Open(old) /\ old.kind # "refresh"
  BY <1>1 DEF Open, RequestKind
<1>3. UNCHANGED <<mix, active, client, cut>> /\ Undisturbed(sess, sess', client.held)
  BY Undisturbing DEF require_user, IndInv
<1>4. \E n : Advances(old, n) /\ req' = [req EXCEPT ![r] = n]
  <2>1. CASE ~IsLive(sess, t) \/ ~active
    <3>1. req' = [req EXCEPT ![r] = Ended(old, "refused", NoRow)]
      BY <1>1, <2>1, AnsweredIsEnded DEF require_user
    <3> QED BY <1>1, <1>2, <3>1, AdvancingRows
  <2>2. CASE IsLive(sess, t) /\ active /\ sess[t].used
    <3>1. req' = [req EXCEPT ![r] = AcceptedRow(old)]
      BY <1>1, <2>2, AcceptedIs DEF require_user
    <3> QED BY <1>1, <1>2, <3>1, AdvancingRows
  <2>3. CASE IsLive(sess, t) /\ active /\ ~sess[t].used
    <3>1. req' = [req EXCEPT ![r] = row]
      BY <1>1, <2>3 DEF require_user, AuthType
    <3>2. Advances(old, row)
      BY <1>1, <1>2 DEF RequestRows, Advances, Open
    <3> QED BY <3>1, <3>2
  <2> QED BY <2>1, <2>2, <2>3
<1> HIDE DEF old
<1>5. PICK n : Advances(old, n) /\ req' = [req EXCEPT ![r] = n]
  BY <1>4
<1> QED BY <1>2, <1>3, <1>5, NotWaitedFor, LateBeside DEF old

(* A first use leaves the app's session alone, unless it is its own.       *)
LEMMA UseBeside ==
  ASSUME NEW S, NEW T, Sound(S), NEW t \in Ids, IsLive(S, t),
         T = UsedAt(IF S[t].next # NoRow THEN settle_contest(S, t) ELSE S, t),
         NEW h \in Ids, S[h].root # NoRow, S[t].root = S[h].root => t = h
  PROVE  Undisturbed(S, T, h)
<1> DEFINE C == IF S[t].next # NoRow THEN settle_contest(S, t) ELSE S
<1>1. /\ C \in [Ids -> SessionRows]
      /\ \A s \in Ids : SameOrigin(C[s], S[s])
      /\ \A s \in Ids : S[s].root # S[t].root => C[s] = S[s]
      /\ \A s \in Ids : IsLive(C, s) => IsLive(S, s)
      /\ IsLive(C, t)
  <2>1. CASE S[t].next # NoRow
    <3>1. C = settle_contest(S, t)
      BY <2>1
    <3> HIDE DEF C
    <3>2. Sound(C) /\ Onwards(S, C) /\ Born(C) = Born(S) /\ IsLive(C, t)
      BY <2>1, <3>1, SettleStep
    <3>3. \A s \in Ids : IsLive(C, s) => IsLive(S, s)
      BY <3>2 DEF Onwards, Born, IsLive
    <3> QED BY <2>1, <3>1, <3>2, <3>3, SettledElsewhere DEF Sound
  <2>2. CASE S[t].next = NoRow
    BY <2>2 DEF Sound, SameOrigin
  <2> QED BY <2>1, <2>2
<1>2. T = UsedAt(C, t)
  OBVIOUS
<1> HIDE DEF C
<1>3. /\ \A s \in Ids : s # t => T[s] = C[s]
      /\ T[t].parent = C[t].parent /\ T[t].root = C[t].root /\ T[t].expired = C[t].expired
      /\ T[t].status = C[t].status
  <2>1. ASSUME NEW row \in SessionRows
        PROVE  LET n == [row EXCEPT !.used = TRUE]
               IN  /\ n.parent = row.parent /\ n.root = row.root /\ n.expired = row.expired
                   /\ n.status = row.status
    BY DEF SessionRows
  <2>2. T = [s \in Ids |-> IF s = t THEN [C[t] EXCEPT !.used = TRUE] ELSE C[s]]
    BY <1>1, <1>2 DEF UsedAt
  <2> QED BY <1>1, <2>1, <2>2
<1>4. \A s \in Ids : /\ T[s].parent = S[s].parent /\ T[s].root = S[s].root
                     /\ T[s].expired = S[s].expired /\ (IsLive(T, s) => IsLive(S, s))
  BY <1>1, <1>3 DEF SameOrigin, IsLive
<1>5. CASE S[t].root # S[h].root
  <2>1. \A s \in Ids : S[s].root = S[h].root => T[s] = S[s]
    BY <1>1, <1>3, <1>5
  <2> QED BY <1>4, <2>1, OthersUndisturbed
<1>6. CASE t = h
  <2>1. \A s \in Ids : S[s].parent # h
    BY <1>6 DEF Sound, RotatedLinks
  <2>2. IsLive(T, h) /\ ~_may_rotate_again(S, h)
    BY <1>1, <1>3, <1>6 DEF IsLive, _may_rotate_again
  <2> QED BY <1>4, <2>1, <2>2 DEF Undisturbed
<1> QED BY <1>5, <1>6

LEMMA OnTarget ==
  ASSUME Going, NEW r \in Requests, Open(req[r]),
         sess[req[r].target].root = sess[client.held].root
  PROVE  /\ req[r].kind # "logout"
         /\ IsLive(sess, req[r].target) => req[r].target = client.held
BY DEF Going, GoesOn, Targets

LEMMA FirstUseLate ==
  ASSUME IndInv, IndInv', LateInv, NEW r \in Requests,
         _record_first_use(r) \/ _claim_contest(r)
  PROVE  LateInv'
<1> DEFINE old == req[r]
           t == old.target
<1>1. /\ old \in RequestRows /\ RequestKind(old) /\ old.phase \in {"own", "contest"}
      /\ AuthType /\ Sound(sess)
  BY DEF IndInv, AuthType, LateInv, RequestKinds, _record_first_use, _claim_contest,
     ContestLocked
<1>2. Open(old) /\ old.kind # "refresh" /\ t \in Ids
  <2>1. Open(old)
    BY <1>1 DEF Open
  <2>2. t \in Ids
    BY <2>1, LateFacts
  <2>3. old.kind # "refresh"
    BY <1>1 DEF RequestKind, _record_first_use, _claim_contest
  <2> QED BY <2>1, <2>2, <2>3
<1>3. UNCHANGED <<mix, active, client, cut>>
  BY DEF _record_first_use, _claim_contest
<1>4. \E n : Advances(old, n) /\ req' = [req EXCEPT ![r] = n]
  <2>1. CASE req' = Answered(r, "refused", NoRow)
    <3>1. req' = [req EXCEPT ![r] = Ended(old, "refused", NoRow)]
      BY <1>1, <2>1, AnsweredIsEnded
    <3> QED BY <1>1, <1>2, <3>1, AdvancingRows
  <2>2. CASE req' = Accepted(r)
    <3>1. req' = [req EXCEPT ![r] = AcceptedRow(old)]
      BY <1>1, <2>2, AcceptedIs
    <3> QED BY <1>1, <1>2, <3>1, AdvancingRows
  <2>3. CASE req' = [req EXCEPT ![r].phase = "contest", ![r].locked = {t}]
    <3> DEFINE n == [old EXCEPT !.phase = "contest", !.locked = {t}]
    <3>1. req' = [req EXCEPT ![r] = n]
      BY <1>1, <2>3 DEF AuthType
    <3>2. Advances(old, n)
      BY <1>1, <1>2 DEF RequestRows, Advances, Open
    <3> QED BY <3>1, <3>2
  <2> QED BY <2>1, <2>2, <2>3 DEF _record_first_use, _claim_contest
<1>5. ASSUME Going PROVE Undisturbed(sess, sess', client.held)
  <2>1. client.held \in Ids /\ sess[client.held].root # NoRow
    BY <1>5 DEF Going, GoesOn
  <2>2. CASE sess' = sess
    BY <1>1, <2>2, Undisturbing
  <2>3. CASE sess' # sess
    <3>1. /\ IsLive(sess, t)
          /\ sess' = UsedAt(IF sess[t].next # NoRow THEN settle_contest(sess, t) ELSE sess, t)
      BY <2>3 DEF _record_first_use, _claim_contest, UsedAt
    <3>2. sess[t].root = sess[client.held].root => t = client.held
      BY <1>2, <1>5, <3>1, OnTarget
    <3> HIDE DEF t
    <3> QED BY <1>1, <1>2, <2>1, <3>1, <3>2, UseBeside
  <2> QED BY <2>2, <2>3
<1> HIDE DEF old
<1>6. PICK n : Advances(old, n) /\ req' = [req EXCEPT ![r] = n]
  BY <1>4
<1> QED BY <1>2, <1>3, <1>5, <1>6, NotWaitedFor, LateBeside DEF old

LEMMA LogoutLate ==
  ASSUME IndInv, IndInv', LateInv, NEW r \in Requests, logout(r)
  PROVE  LateInv'
<1> DEFINE old == req[r]
           t == old.target
<1>1. /\ old \in RequestRows /\ RequestKind(old) /\ old.phase = "logout" /\ old.kind = "logout"
      /\ AuthType /\ Sound(sess) /\ sess \in [Ids -> SessionRows] /\ Open(old)
  BY DEF IndInv, AuthType, LateInv, RequestKinds, logout, RequestsSound, RequestSound,
     Sound, Open
<1>2. req' = [req EXCEPT ![r] = Ended(old, "ok", NoRow)]
  BY <1>1, AnsweredIsEnded DEF logout
<1>3. Advances(old, Ended(old, "ok", NoRow))
  BY <1>1, AdvancingRows
<1>4. UNCHANGED <<mix, active, client, cut>> /\ sess' = [sess EXCEPT ![t].status = "logout"]
  BY DEF logout
<1>5. ASSUME Going PROVE Undisturbed(sess, sess', client.held)
  <2>1. client.held \in Ids /\ sess[client.held].root # NoRow
    BY <1>5 DEF Going, GoesOn
  <2>2. sess[t].root # sess[client.held].root
    BY <1>1, <1>5, OnTarget
  <2> HIDE DEF t
  <2>3. \A s \in Ids : (s # t => sess'[s] = sess[s]) /\ sess'[s].root = sess[s].root
    <3>1. ASSUME NEW row \in SessionRows PROVE [row EXCEPT !.status = "logout"].root = row.root
      BY DEF SessionRows
    <3>2. sess' = [s \in Ids |-> IF s = t THEN [sess[t] EXCEPT !.status = "logout"] ELSE sess[s]]
      BY <1>1, <1>4
    <3> QED BY <1>1, <3>1, <3>2
  <2> QED BY <1>1, <2>1, <2>2, <2>3, OthersUndisturbed
<1> HIDE DEF old
<1> QED BY <1>1, <1>2, <1>3, <1>4, <1>5, NotWaitedFor, LateBeside DEF old

(* While the app's sign-in goes on, a token of it is refused only to a     *)
(* request the app does not wait for, and nothing is revoked.              *)
LEMMA RefusedLate ==
  ASSUME IndInv, IndInv', LateInv, NEW r \in Requests, refresh_refused(r)
  PROVE  LateInv'
<1> DEFINE old == req[r]
           t == old.target
<1>1. /\ old \in RequestRows /\ old.phase = "contest" /\ Open(old) /\ t \in Ids
      /\ AuthType /\ Sound(sess) /\ sess \in [Ids -> SessionRows]
  <2>1. old \in RequestRows /\ old.phase = "contest" /\ AuthType /\ Sound(sess) /\ Open(old)
    BY DEF IndInv, AuthType, refresh_refused, ContestLocked, Open
  <2>2. t \in Ids
    BY <2>1, LateFacts
  <2> QED BY <2>1, <2>2 DEF Sound
<1>2. req' = [req EXCEPT ![r] = Ended(old, "refused", NoRow)]
  BY <1>1, AnsweredIsEnded DEF refresh_refused
<1>3. Advances(old, Ended(old, "refused", NoRow))
  BY <1>1, AdvancingRows
<1>4. /\ UNCHANGED <<mix, active, client, cut>>
      /\ sess' = sess \/ (IsLive(sess, t) /\ sess' = [sess EXCEPT ![t].status = "expired"])
  BY DEF refresh_refused
<1>5. ASSUME Going PROVE Undisturbed(sess, sess', client.held) /\ client.waiting # r
  <2>1. client.held \in Ids /\ sess[client.held].root # NoRow
    BY <1>5 DEF Going, GoesOn
  <2>2. t # client.held
    <3>1. /\ active /\ ~sess[client.held].expired
          /\ IsLive(sess, client.held) \/ _may_rotate_again(sess, client.held)
      BY <1>5 DEF Going, GoesOn
    <3>2. ~Refused(client.held)
      BY <3>1 DEF Refused, Exists, IsLive, _may_rotate_again
    <3> QED BY <3>2 DEF refresh_refused
  <2>3. client.waiting # r
    BY <1>5, <2>2 DEF Going, GoesOn, Awaited
  <2>4. CASE sess' = sess
    BY <1>1, <2>3, <2>4, Undisturbing
  <2>5. CASE IsLive(sess, t) /\ sess' = [sess EXCEPT ![t].status = "expired"]
    <3>1. sess[t].root # sess[client.held].root
      BY <1>1, <1>5, <2>2, <2>5, OnTarget
    <3> HIDE DEF t
    <3>2. \A s \in Ids : (s # t => sess'[s] = sess[s]) /\ sess'[s].root = sess[s].root
      <4>1. ASSUME NEW row \in SessionRows
            PROVE  [row EXCEPT !.status = "expired"].root = row.root
        BY DEF SessionRows
      <4>2. sess' = [s \in Ids |-> IF s = t THEN [sess[t] EXCEPT !.status = "expired"]
                                   ELSE sess[s]]
        BY <1>1, <2>5
      <4> QED BY <1>1, <4>1, <4>2
    <3> QED BY <1>1, <2>1, <2>3, <3>1, <3>2, OthersUndisturbed
  <2> QED BY <1>4, <2>4, <2>5
<1> HIDE DEF old
<1> QED BY <1>2, <1>3, <1>4, <1>5, LateBeside DEF old

LEMMA RotatedLate ==
  ASSUME IndInv, IndInv', LateInv, NEW r \in Requests, refresh_rotated(r)
  PROVE  LateInv'
<1> DEFINE old == req[r]
           t == old.target
           row == Ended(old, "ok", NewId)
<1>1. /\ old \in RequestRows /\ old.phase = "contest" /\ old.kind = "refresh" /\ Open(old)
      /\ AuthType /\ Sound(sess) /\ Sound(sess') /\ FewRivals(sess, Kept)
      /\ Kept \in Nat \ {0}
  BY LateFacts DEF IndInv, AuthType, refresh_rotated, ContestLocked, Open, Kept
<1>2. /\ NewId \in Ids /\ Born(sess) = 1..(NewId - 1)
      /\ sess' = Refreshed(sess, t, NewId) /\ Reissued(sess, sess', t, NewId)
  BY RefreshGranted
<1>3. t \in Ids /\ (IsLive(sess, t) \/ _may_rotate_again(sess, t))
  BY RefreshGranted
<1>4. req' = [req EXCEPT ![r] = row] /\ UNCHANGED <<mix, active, client, cut>>
  BY <1>1, AnsweredIsEnded DEF refresh_rotated
<1>5. /\ row.kind = "refresh" /\ row.target = t /\ row.phase = "done" /\ row.answer = "ok"
      /\ row.issued = NewId
  BY <1>1 DEF Ended, RequestRows
<1>6. Advances(old, row)
  BY <1>1, AdvancingRows
<1>7. \A q \in Requests : req'[q] = IF q = r THEN row ELSE req[q]
  BY <1>1, <1>4 DEF AuthType
<1> HIDE DEF row
<1>8. RequestKinds'
  BY <1>4, <1>6, KindsAdvance DEF LateInv
<1>9. RefreshedFrom(sess, sess', t, NewId)
  BY <1>1, <1>2, <1>3, RefreshedRows
<1>10. _may_rotate_again(sess, t) =>
         Newest(Rivals(sess, t) \union {NewId}) \subseteq Rivals(sess', t)
  <2>1. ASSUME _may_rotate_again(sess, t) PROVE sess' = _rotate_again(sess, t, NewId)
    BY <1>2, <2>1 DEF Refreshed, _may_rotate_again, IsLive
  <2> HIDE DEF t
  <2> QED BY <1>1, <1>2, <1>3, <2>1, RotateAgainStep
<1>11. Refreshing(sess, sess', req, req', mix.requests, r, t, NewId)
  <2>1. r \in mix.requests
    BY <1>1 DEF LateInv, RequestKinds
  <2>2. Onwards(sess, sess') /\ Born(sess') = 1..NewId
    BY <1>2 DEF Reissued
  <2> QED BY <1>1, <1>2, <1>3, <1>5, <1>7, <1>9, <1>10, <2>1, <2>2, LateFacts DEF Refreshing
<1>12. ASSUME ~cut', Cardinality(mix'.requests) <= Kept' PROVE Going'
  <2>1. Going /\ Cardinality(mix.requests) <= Kept
    BY <1>4, <1>12 DEF LateInv, Kept
  <2>2. GoesOn(sess, req, mix.requests, Kept, client.held, client.waiting) /\ Kept \in Nat
    BY <1>1, <2>1 DEF Going
  <2> HIDE DEF t
  <2>3. GoesOn(sess', req', mix.requests, Kept, client.held, client.waiting)
    <3>1. CASE sess[t].root # sess[client.held].root
      BY <1>11, <2>2, <3>1, RefreshElsewhere
    <3>2. CASE sess[t].root = sess[client.held].root /\ t # client.held
      BY <1>11, <2>2, <3>2, RefreshOfParent
    <3>3. CASE t = client.held
      BY <1>11, <2>1, <2>2, <3>3, RefreshOfHeld
    <3> QED BY <3>1, <3>2, <3>3
  <2> QED BY <1>4, <2>1, <2>3 DEF Going, Kept
<1> QED BY <1>8, <1>12 DEF LateInv

(* The app itself: it sends the token it holds, and stores a reply only    *)
(* while it waits for it.                                                  *)
LEMMA SendRefreshLate ==
  ASSUME IndInv, LateInv, NEW r \in Requests, NEW kind \in mix.kinds, Send(r, kind)
  PROVE  LateInv'
<1> DEFINE row == [Free EXCEPT !.kind = kind, !.target = client.held,
                               !.phase = IF kind = "refresh" THEN "contest" ELSE "queued"]
           h == client.held
<1>1. /\ kind \in {"refresh", "use", "logout"} /\ req[r].phase = "free" /\ r \in mix.requests
      /\ client \in [held : Ids \union {NoRow}, waiting : Requests \union {NoRequest}]
      /\ UNCHANGED <<mix, sess, active>> /\ cut' = (cut \/ kind = "logout")
      /\ Sound(sess)
  BY AuthAssumption DEF IndInv, AuthType, Send
<1>2. /\ row.kind = kind /\ row.target = h /\ row.answer = "none"
      /\ row.phase = IF kind = "refresh" THEN "contest" ELSE "queued"
  BY DEF Free
<1>3. req' = [req EXCEPT ![r] = row]
  BY DEF Send
<1> HIDE DEF row
<1>4. \A q \in Requests : req'[q] = IF q = r THEN row ELSE req[q]
  BY <1>3 DEF IndInv, AuthType
<1>5. RequestKinds'
  BY <1>1, <1>2, <1>4 DEF LateInv, RequestKinds, RequestKind, Open
<1>6. ASSUME ~cut', Cardinality(mix'.requests) <= Kept' PROVE Going'
  <2>1. Going /\ kind # "logout" /\ kind \in {"refresh", "use"}
    BY <1>1, <1>6 DEF LateInv, Kept
  <2>2. /\ h \in Ids /\ sess[h].root # NoRow
        /\ \A s \in Ids : sess[s].root = sess[h].root => ~sess[s].expired
        /\ IsLive(sess, h) \/ _may_rotate_again(sess, h)
    BY <2>1 DEF Going, GoesOn
  <2>3. client'.held = h /\ client'.waiting = IF kind = "refresh" THEN r ELSE client.waiting
    BY <1>1, <2>1 DEF Send
  <2>4. ASSUME NEW p \in Ids, p # h \/ kind = "use"
        PROVE  Dups(req', mix.requests, p) \subseteq Dups(req, mix.requests, p)
    BY <1>2, <1>4, <2>4, LateFacts DEF Dups
  <2>5. ASSUME NEW c \in Ids, sess[c].parent \in Ids, sess[c].parent # h \/ kind = "use",
               Room(sess, req, mix.requests, Kept, c)
        PROVE  Room(sess, req', mix.requests, Kept, c)
    BY <2>4, <2>5, LateFacts, RoomKept
  <2>6. IsLive(sess, h) /\ sess[h].parent # NoRow => Room(sess, req', mix.requests, Kept, h)
    <3>1. sess[h].parent \in Ids \union {NoRow} /\ sess[h].parent < h
      BY <1>1, <2>2 DEF Sound, Descends, SessionRows
    <3>2. sess[h].parent # h
      BY <2>2, <3>1, IdsAreNat, LessDiffers
    <3> QED BY <2>1, <2>2, <2>5, <3>1, <3>2 DEF Going, GoesOn
  <2>7. Targets(sess, req', h)
    BY <1>2, <1>4, <2>1 DEF Targets, Going, GoesOn
  <2>8. ASSUME NEW v \in Requests, client'.waiting = v
        PROVE  Awaited(sess, req', mix.requests, Kept, h, v)
    <3>1. CASE kind = "refresh"
      BY <1>2, <1>4, <2>3, <2>8, <3>1 DEF Awaited
    <3>2. CASE kind = "use"
      <4>1. Awaited(sess, req, mix.requests, Kept, h, v)
        BY <2>1, <2>3, <2>8, <3>2 DEF Going, GoesOn
      <4>2. req'[v] = req[v]
        BY <1>1, <1>4, <4>1 DEF Awaited
      <4> HIDE DEF h
      <4> QED BY <2>2, <2>5, <3>2, <4>1, <4>2 DEF Awaited
    <3> QED BY <2>1, <3>1, <3>2
  <2> HIDE DEF h
  <2>9. GoesOn(sess, req', mix.requests, Kept, h, client'.waiting)
    BY <2>2, <2>6, <2>7, <2>8 DEF GoesOn
  <2> QED BY <1>1, <2>1, <2>3, <2>9 DEF Going, Kept
<1> QED BY <1>5, <1>6 DEF LateInv

LEMMA GiveUpLate ==
  ASSUME IndInv, LateInv, GiveUp
  PROVE  LateInv'
<1>1. /\ client'.held = client.held /\ client'.waiting = NoRequest
      /\ UNCHANGED <<mix, sess, req, active, cut>>
  BY DEF GiveUp, IndInv, AuthType
<1>2. Going => Going'
  BY <1>1, AuthAssumption DEF Going, GoesOn, Kept
<1> QED BY <1>1, <1>2 DEF LateInv, RequestKinds, Kept

LEMMA FreedLate ==
  ASSUME IndInv, LateInv, NEW r \in Requests, req' = [req EXCEPT ![r] = Free],
         UNCHANGED <<mix, sess, active, cut>>, client'.held = client.held,
         client'.waiting \in {client.waiting, NoRequest} \ {r}
  PROVE  LateInv'
<1>1. \A q \in Requests : req'[q] = IF q = r THEN Free ELSE req[q]
  BY DEF IndInv, AuthType
<1>2. Free.kind = "none" /\ Free.phase = "free"
  BY DEF Free
<1>3. RequestKinds'
  BY <1>1, <1>2 DEF LateInv, RequestKinds, RequestKind, Open
<1>4. ASSUME Going PROVE Going'
  <2>1. GoesOn(sess, req, mix.requests, Kept, client.held, client'.waiting)
    BY <1>4, AuthAssumption DEF Going, GoesOn
  <2>2. CarryOn(req, req', client'.waiting)
    <3>1. \A q \in Requests : client'.waiting = q => req[q].phase # "free" /\ q # r
      BY <2>1 DEF GoesOn, Awaited
    <3> QED BY <1>1, <1>2, <3>1 DEF CarryOn, CarriesOn, Open
  <2>3. Sound(sess) /\ Undisturbed(sess, sess, client.held) /\ Kept \in Nat
        /\ \A q \in Requests : Open(req[q]) => req[q].target \in Ids
    BY LateFacts, Undisturbing DEF IndInv
  <2>4. GoesOn(sess, req', mix.requests, Kept, client.held, client'.waiting)
    BY <2>1, <2>2, <2>3, LateFacts, GoesOnBeside
  <2> QED BY <1>4, <2>4 DEF Going, Kept
<1> QED BY <1>3, <1>4 DEF LateInv, Kept

LEMMA ReplyLate ==
  ASSUME IndInv, LateInv, NEW r \in Requests, Reply(r)
  PROVE  LateInv'
<1>1. /\ req[r].phase = "done" /\ req' = [req EXCEPT ![r] = Free]
      /\ UNCHANGED <<mix, sess, active, cut>>
  BY DEF Reply
<1>2. \A q \in Requests : req'[q] = IF q = r THEN Free ELSE req[q]
  BY <1>1 DEF IndInv, AuthType
<1>3. NoRequest # r
  BY AuthAssumption
<1>4. CASE client.waiting # r
  <2>1. client' = client
    BY <1>4 DEF Reply
  <2> QED BY <1>1, <1>4, <2>1, FreedLate
<1>5. CASE client.waiting = r
  <2> DEFINE h == client.held
             i == req[r].issued
  <2>1. client'.held = i /\ client'.waiting = NoRequest
    BY <1>5 DEF Reply
  <2>2. Free.kind = "none" /\ Free.phase = "free"
    BY DEF Free
  <2>3. RequestKinds'
    BY <1>1, <1>2, <2>2 DEF LateInv, RequestKinds, RequestKind, Open
  <2>4. ASSUME Going PROVE Going'
    <3>1. Awaited(sess, req, mix.requests, Kept, h, r)
      BY <1>5, <2>4 DEF Going, GoesOn
    <3>2. /\ i \in Ids /\ sess[i].parent = h /\ IsLive(sess, i) /\ ~sess[i].used
          /\ Room(sess, req, mix.requests, Kept, i)
      BY <1>1, <3>1 DEF Awaited
    <3>3. h \in Ids /\ sess[h].root # NoRow
      BY <2>4 DEF Going, GoesOn
    <3>4. /\ Descends(sess) /\ RotatedLinks(sess)
      BY DEF IndInv, Sound
    <3>5. sess[i].root = sess[h].root /\ ~IsLive(sess, h)
      <4>1. h # NoRow
        BY <3>3, IdsAreNat
      <4> HIDE DEF i, h
      <4>2. sess[i].root = sess[h].root
        BY <3>2, <3>4, <4>1 DEF Descends
      <4>3. ~IsLive(sess, h)
        BY <3>2, <3>3, <3>4 DEF RotatedLinks
      <4> QED BY <4>2, <4>3
    <3>6. Room(sess, req', mix.requests, Kept, i)
      <4>1. Dups(req', mix.requests, sess[i].parent) \subseteq Dups(req, mix.requests, sess[i].parent)
        BY <1>2, <2>2, LateFacts DEF Dups
      <4> QED BY <3>2, <4>1, LateFacts, RoomKept
    <3>7. Targets(sess, req', i)
      BY <1>2, <2>2, <2>4, <3>5 DEF Targets, Going, GoesOn, Open
    <3>8. \A s \in Ids : sess[s].root = sess[i].root => ~sess[s].expired
      BY <2>4, <3>5 DEF Going, GoesOn
    <3> HIDE DEF i, h
    <3>9. GoesOn(sess, req', mix.requests, Kept, i, NoRequest)
      BY <3>2, <3>3, <3>5, <3>6, <3>7, <3>8, AuthAssumption DEF GoesOn
    <3> QED BY <1>1, <2>1, <2>4, <3>9 DEF Going, Kept
  <2> QED BY <1>1, <2>3, <2>4 DEF LateInv, Kept
<1> QED BY <1>4, <1>5

LEMMA AbortLate ==
  ASSUME IndInv, LateInv, NEW r \in Requests, Abort(r)
  PROVE  LateInv'
<1>1. /\ req' = [req EXCEPT ![r] = Free] /\ UNCHANGED <<mix, sess, active, cut>>
      /\ NoRequest # r
  BY AuthAssumption DEF Abort
<1>2. /\ client'.held = client.held
      /\ client'.waiting \in {client.waiting, NoRequest} \ {r}
  BY <1>1 DEF Abort, IndInv, AuthType
<1> QED BY <1>1, <1>2, FreedLate

(* A new sign-in starts a lineage of its own.                              *)
LEMMA LoginLate ==
  ASSUME IndInv, LateInv, login
  PROVE  LateInv'
<1>1. /\ NewId \in Ids /\ Born(sess) = 1..(NewId - 1) /\ Sound(sess) /\ Sound(sess')
      /\ Born(sess') = 1..NewId
      /\ \A s \in Ids : s # NewId => sess'[s] = sess[s]
  BY LoginIs DEF IndInv
<1>2. /\ UNCHANGED <<mix, req, active>> /\ active
      /\ client'.held = NewId /\ client'.waiting = NoRequest
      /\ sess' = [sess EXCEPT ![NewId] = Issued(NoRow, NewId)]
  BY DEF login
<1>3. /\ sess'[NewId].status = "live" /\ ~sess'[NewId].expired
      /\ sess'[NewId].parent = NoRow /\ sess'[NewId].root = NewId
  <2>1. sess'[NewId] = Issued(NoRow, NewId)
    BY <1>1, <1>2 DEF Sound
  <2>2. \A n \in Ids : LET row == Issued(NoRow, n)
                       IN  /\ row.status = "live" /\ ~row.expired
                           /\ row.parent = NoRow /\ row.root = n
    BY IssuedRow
  <2> QED BY <1>1, <2>1, <2>2
<1>4. \A s \in Ids : s # NewId => sess'[s].root # NewId
  <2>1. ASSUME NEW s \in Ids, s # NewId PROVE sess'[s].root # NewId
    <3>1. CASE s \in Born(sess)
      <4>1. sess[s].root <= s /\ sess[s].root \in Ids \union {NoRow}
        BY <1>1 DEF Sound, Descends, SessionRows
      <4>2. s < NewId /\ s \in Nat /\ NewId \in Nat /\ sess[s].root \in Nat
        BY <1>1, <3>1, <4>1, IdsAreNat
      <4>3. sess[s].root < NewId
        BY <4>1, <4>2
      <4> QED BY <1>1, <2>1, <4>2, <4>3, LessDiffers
    <3>2. CASE s \notin Born(sess)
      <4>1. sess[s] = Absent
        BY <1>1, <3>2 DEF Born, Sound, Descends
      <4> QED BY <1>1, <2>1, <4>1, IdsAreNat DEF Absent
    <3> QED BY <3>1, <3>2
  <2> QED BY <2>1
<1>5. Targets(sess', req', NewId)
  <2>1. ASSUME NEW q \in Requests, Open(req[q]) PROVE sess'[req[q].target].root # NewId
    <3>1. req[q].target \in Ids /\ req[q].target # NewId
      BY <1>1, <2>1, LateFacts, IdsAreNat
    <3> QED BY <1>4, <3>1
  <2> QED BY <1>2, <1>3, <2>1 DEF Targets
<1>6. GoesOn(sess', req', mix.requests, Kept, NewId, NoRequest)
  BY <1>1, <1>3, <1>4, <1>5, AuthAssumption, IdsAreNat DEF GoesOn, IsLive
<1>7. Going'
  BY <1>2, <1>6 DEF Going, Kept
<1> QED BY <1>2, <1>7 DEF LateInv, RequestKinds

(* Only what expired is deleted, so nothing of a sign-in that goes on.     *)
LEMMA PruneLate ==
  ASSUME IndInv, IndInv', LateInv, NEW s \in Ids, prune_expired_sessions(s)
  PROVE  LateInv'
<1>1. /\ sess \in [Ids -> SessionRows] /\ Sound(sess) /\ Sound(sess') /\ RotatedLinks(sess)
      /\ UNCHANGED <<mix, req, active, client, cut>> /\ sess[s].expired
  BY DEF IndInv, Sound, prune_expired_sessions
<1>2. sess' = [t \in Ids |-> IF t = s THEN [sess[s] EXCEPT !.status = "pruned", !.next = NoRow]
                             ELSE IF sess[t].next = s THEN [sess[t] EXCEPT !.next = NoRow]
                             ELSE sess[t]]
  BY DEF prune_expired_sessions, _delete_batch
<1>3. \A t \in Ids :
        /\ SameOrigin(sess'[t], sess[t])
        /\ t # s => sess'[t].status = sess[t].status
        /\ t # s /\ sess[t].next # s => sess'[t] = sess[t]
        /\ t = s => sess'[t].status = "pruned"
  <2>1. ASSUME NEW row \in SessionRows
        PROVE  /\ SameOrigin([row EXCEPT !.status = "pruned", !.next = NoRow], row)
               /\ [row EXCEPT !.status = "pruned", !.next = NoRow].status = "pruned"
               /\ SameOrigin([row EXCEPT !.next = NoRow], row) /\ SameOrigin(row, row)
               /\ [row EXCEPT !.next = NoRow].status = row.status
    BY DEF SessionRows, SameOrigin
  <2> QED BY <1>1, <1>2, <2>1
<1>4. ASSUME Going PROVE Going'
  <2> DEFINE h == client.held
  <2>1. /\ h \in Ids /\ sess[h].root # NoRow
        /\ \A t \in Ids : sess[t].root = sess[h].root => ~sess[t].expired
        /\ GoesOn(sess, req, mix.requests, Kept, h, client.waiting)
    BY <1>4 DEF Going, GoesOn
  <2> HIDE DEF h
  <2>2. sess[s].root # sess[h].root
    BY <1>1, <2>1
  <2>3. \A t \in Ids : sess[t].parent = h => t # s
    BY <1>1, <2>1, <2>2, IdsAreNat DEF Sound, Descends
  <2>4. _may_rotate_again(sess, h) => _may_rotate_again(sess', h)
    <3>1. ASSUME _may_rotate_again(sess, h) PROVE _may_rotate_again(sess', h)
      <4>1. sess[h].next \in Ids /\ sess[sess[h].next].parent = h
        BY <1>1, <2>1, <3>1 DEF _may_rotate_again, RotatedLinks, SessionRows
      <4>2. h # s /\ sess[h].next # s
        BY <2>2, <2>3, <4>1
      <4>3. sess'[h] = sess[h]
        BY <1>3, <2>1, <4>2
      <4>4. /\ sess'[sess[h].next].status = sess[sess[h].next].status
            /\ sess'[sess[h].next].used = sess[sess[h].next].used
        BY <1>3, <4>1, <4>2 DEF SameOrigin
      <4> QED BY <3>1, <4>3, <4>4 DEF _may_rotate_again, IsLive
    <3> QED BY <3>1
  <2>5. Undisturbed(sess, sess', h)
    BY <1>3, <2>1, <2>2, <2>3, <2>4 DEF Undisturbed, SameOrigin, IsLive
  <2>6. CarryOn(req, req, client.waiting)
    BY <2>1 DEF CarryOn, CarriesOn, GoesOn, Awaited
  <2>7. Kept \in Nat /\ \A q \in Requests : Open(req[q]) => req[q].target \in Ids
    BY LateFacts
  <2>8. GoesOn(sess', req, mix.requests, Kept, h, client.waiting)
    BY <1>1, <2>1, <2>5, <2>6, <2>7, LateFacts, GoesOnBeside
  <2> QED BY <1>1, <1>4, <2>8 DEF Going, Kept, h
<1> QED BY <1>1, <1>4 DEF LateInv, RequestKinds, Kept

LEMMA LateInitially ==
  ASSUME Init
  PROVE  LateInv
<1>1. IndInv
  BY Initially
<1>2. /\ 1 \in Ids /\ \A s \in Ids : s # 1 => sess[s].root # 1
      /\ sess[1].status = "live" /\ ~sess[1].expired /\ sess[1].parent = NoRow
      /\ sess[1].root = 1
  <2>1. 1 \in Ids
    BY AuthAssumption DEF Ids
  <2>2. sess = [s \in Ids |-> IF s = 1 THEN Issued(NoRow, 1) ELSE Absent]
    BY DEF Init
  <2>3. \A n \in Ids : LET row == Issued(NoRow, n)
                       IN  /\ row.status = "live" /\ ~row.expired
                           /\ row.parent = NoRow /\ row.root = n
    BY IssuedRow
  <2>4. Absent.root = NoRow /\ NoRow # 1
    BY DEF Absent, NoRow
  <2> QED BY <2>1, <2>2, <2>3, <2>4
<1>3. \A q \in Requests : req[q].kind = "none" /\ req[q].phase = "free"
  BY DEF Init, Free
<1>4. client.held = 1 /\ client.waiting = NoRequest /\ active
  BY DEF Init
<1>5. GoesOn(sess, req, mix.requests, Kept, 1, NoRequest)
  BY <1>2, <1>3, AuthAssumption, IdsAreNat DEF GoesOn, IsLive, Targets, Open
<1>6. Going
  BY <1>4, <1>5 DEF Going
<1> QED BY <1>3, <1>6 DEF LateInv, RequestKinds, RequestKind, Open

LEMMA LateStep ==
  ASSUME IndInv, IndInv', LateInv, [Next]_vars
  PROVE  LateInv'
<1>1. ASSUME UNCHANGED <<mix, sess, req, active, client, cut>> PROVE LateInv'
  BY <1>1, Zenon DEF LateInv, RequestKinds, Going, Kept
<1>2. ASSUME UNCHANGED <<mix, req>>, cut' PROVE LateInv'
  BY <1>2, Zenon DEF LateInv, RequestKinds
<1>3. CASE UNCHANGED vars
  BY <1>1, <1>3 DEF vars
<1>4. ASSUME NEW r \in Requests, NEW kind \in mix.kinds, Send(r, kind) PROVE LateInv'
  BY <1>4, SendRefreshLate
<1>5. ASSUME NEW r \in Requests, Reply(r) \/ Abort(r) PROVE LateInv'
  BY <1>5, ReplyLate, AbortLate
<1>6. ASSUME NEW r \in Requests, RequestStep(r) PROVE LateInv'
  BY <1>6, WalkLate, LockRowLate, RefusedLate, RotatedLate, RequireUserLate, FirstUseLate,
     LogoutLate DEF RequestStep
<1>7. CASE delete_device \/ RemoverPass \/ RemoverLock
  BY <1>1, <1>7 DEF delete_device, RemoverPass, RemoverLock
<1>8. CASE RemoverCommit \/ SetStatus
  BY <1>2, <1>8 DEF RemoverCommit, SetStatus
<1>9. ASSUME NEW s \in Ids, Expire(s) \/ prune_expired_sessions(s) PROVE LateInv'
  BY <1>2, <1>9, PruneLate DEF Expire
<1> QED BY <1>3, <1>4, <1>5, <1>6, <1>7, <1>8, <1>9, GiveUpLate, LoginLate DEF Next

(* A late duplicate of a refresh does not invalidate the pair the app      *)
(* holds: an app that only ever sends the token it holds, with no more     *)
(* requests in flight than unused sessions are kept, is never refused      *)
(* unless it was signed out, removed, suspended or expired (README.md, on  *)
(* refresh; service.py: refresh, _may_rotate_again, _rotate_again).        *)
THEOREM LateDuplicatesAreHarmless == Spec => []LateDuplicateHarmless
<1>1. Init => LateInv
  BY LateInitially
<1>2. IndInv /\ IndInv' /\ LateInv /\ [Next]_vars => LateInv'
  BY LateStep
<1>3. LateInv => LateDuplicateHarmless
  BY DEF LateInv, LateDuplicateHarmless, Going, GoesOn, Awaited, RequestKinds, RequestKind, Open
<1> QED BY <1>1, <1>2, <1>3, SessionsSound, PTL DEF Spec
=============================================================================
