--------------------------- MODULE ChangelogProofs ---------------------------
(* Proofs about Changelog, for every number of users, writers, clients and  *)
(* revisions: the feed skips nothing unless a purge overtakes a read, and   *)
(* commits follow revision order.                                           *)
EXTENDS Changelog, FiniteSetTheorems, TLAPS

-----------------------------------------------------------------------------
(* What one page holds.                                                     *)

\* A page ends nowhere in the middle: with a row it also has every earlier
\* unread row (ORDER BY revision LIMIT of read_changes).
LEMMA PageClosedDownward ==
    ASSUME NEW c \in Clients, TypeOK,
           NEW until \in Page(c), NEW r \in Unread(c), r <= until
    PROVE  r \in Page(c)
<1> DEFINE Before(x) == {s \in Unread(c) : s < x}
<1>1. Unread(c) \subseteq 1..MaxRevision
  BY ChangelogAssumption DEF TypeOK, Unread, Revisions
<1>2. IsFiniteSet(Before(until))
  <2>1. IsFiniteSet(1..MaxRevision)
    BY FS_Interval, ChangelogAssumption
  <2>2. Before(until) \subseteq 1..MaxRevision
    BY <1>1
  <2> QED BY <2>1, <2>2, FS_Subset
<1>3. Before(r) \subseteq Before(until)
  BY <1>1, ChangelogAssumption DEF Page
<1>4. /\ Cardinality(Before(r)) \in Nat
      /\ Cardinality(Before(until)) \in Nat
      /\ Cardinality(Before(r)) <= Cardinality(Before(until))
  BY <1>2, <1>3, FS_Subset, FS_CardinalityType
<1>5. Cardinality(Before(until)) < PageLimit
  BY DEF Page
<1>6. Cardinality(Before(r)) < PageLimit
  BY <1>4, <1>5, ChangelogAssumption
<1> QED BY <1>6 DEF Page

\* A read with no further page returns every unread row.
LEMMA LastPageIsAll ==
    ASSUME NEW c \in Clients, TypeOK, ~HasMore(c), NEW r \in Unread(c)
    PROVE  r \in Page(c)
<1> DEFINE Before == {s \in Unread(c) : s < r}
<1>1. Unread(c) \subseteq 1..MaxRevision
  BY ChangelogAssumption DEF TypeOK, Unread, Revisions
<1>2. IsFiniteSet(Unread(c))
  BY <1>1, FS_Interval, FS_Subset, ChangelogAssumption
<1>3. /\ Cardinality(Unread(c)) \in Nat
      /\ Cardinality(Before) \in Nat
      /\ Cardinality(Before) <= Cardinality(Unread(c))
  BY <1>2, FS_Subset, FS_CardinalityType
<1>4. Cardinality(Before) # Cardinality(Unread(c))
  <2>1. Before \subseteq Unread(c) /\ Before # Unread(c)
    BY <1>1
  <2> QED BY <1>2, <2>1, FS_Subset
<1>5. Cardinality(Unread(c)) <= PageLimit
  BY <1>3, ChangelogAssumption DEF HasMore
<1>6. Cardinality(Before) < PageLimit
  BY <1>3, <1>4, <1>5, ChangelogAssumption
<1> QED BY <1>6 DEF Page

-----------------------------------------------------------------------------
(* The inductive step, one action at a time.                                *)

\* The initial state of the feed satisfies the inductive invariant.
LEMMA InitIndInv == Init => IndInv
  BY ChangelogAssumption DEF Init, IndInv, TypeOK, LocksHeld,
     UncommittedAboveCurrent, CommittedWithinCurrent, CompactedWithinCurrent,
     LogCompleteAboveCompacted, ReadsServable, NoGapUnlessOvertaken, Idle,
     NoPurge, Revisions

\* Every step of a writer, a client or the purge keeps the inductive invariant.
LEMMA NextIndInv == IndInv /\ [Next]_vars => IndInv'
<1> SUFFICES ASSUME IndInv, [Next]_vars PROVE IndInv'
  OBVIOUS
<1> USE ChangelogAssumption DEF IndInv, Revisions
<1>1. ASSUME NEW w \in Writers, NEW u \in Users, lock_sync_state(w, u) PROVE IndInv'
  <2>1. (TypeOK /\ CommittedWithinCurrent /\ CompactedWithinCurrent /\
        LogCompleteAboveCompacted /\ ReadsServable /\ NoGapUnlessOvertaken)'
    BY <1>1 DEF lock_sync_state, history, TypeOK, CommittedWithinCurrent,
       CompactedWithinCurrent, LogCompleteAboveCompacted, ReadsServable,
       NoGapUnlessOvertaken
  <2>2. LocksHeld'
    BY <1>1 DEF lock_sync_state, history, TypeOK, Revisions, LocksHeld
  <2>3. UncommittedAboveCurrent'
    BY <1>1 DEF lock_sync_state, history, TypeOK, Revisions,
       CommittedWithinCurrent, UncommittedAboveCurrent
  <2> QED BY <2>1, <2>2, <2>3
<1>2. ASSUME NEW w \in Writers, append_change(w) PROVE IndInv'
  <2>1. TypeOK'
    BY <1>2 DEF append_change, history, TypeOK, Revisions
  <2>2. (LocksHeld /\ CompactedWithinCurrent /\ LogCompleteAboveCompacted /\
        ReadsServable /\ NoGapUnlessOvertaken)'
    BY <1>2 DEF append_change, history, LocksHeld, CompactedWithinCurrent,
       LogCompleteAboveCompacted, ReadsServable, NoGapUnlessOvertaken
  <2>3. UncommittedAboveCurrent'
    BY <1>2 DEF append_change, history, TypeOK, Revisions,
       UncommittedAboveCurrent
  <2>4. CommittedWithinCurrent'
    BY <1>2 DEF append_change, history, TypeOK, Revisions,
       CommittedWithinCurrent
  <2> QED BY <2>1, <2>2, <2>3, <2>4
<1>3. ASSUME NEW w \in Writers, CommitWriter(w) PROVE IndInv'
  <2>1. TypeOK'
    BY <1>3 DEF CommitWriter, history, TypeOK, Revisions, Idle
  <2>2. LocksHeld'
    BY <1>3 DEF CommitWriter, history, TypeOK, Revisions, Idle, LocksHeld
  <2>3. UncommittedAboveCurrent'
    BY <1>3 DEF CommitWriter, history, TypeOK, Revisions, LocksHeld, Idle,
       UncommittedAboveCurrent
  <2>4. CommittedWithinCurrent'
    BY <1>3 DEF CommitWriter, history, TypeOK, Revisions,
       CommittedWithinCurrent, UncommittedAboveCurrent, Idle
  <2>5. CompactedWithinCurrent'
    BY <1>3 DEF CommitWriter, history, TypeOK, Revisions,
       CommittedWithinCurrent, UncommittedAboveCurrent, Idle,
       CompactedWithinCurrent
  <2>6. LogCompleteAboveCompacted'
    BY <1>3 DEF CommitWriter, history, TypeOK, Revisions,
       LogCompleteAboveCompacted
  <2>7. ReadsServable'
    BY <1>3 DEF CommitWriter, history, TypeOK, Revisions,
       CommittedWithinCurrent, UncommittedAboveCurrent, Idle, ReadsServable
  <2>8. NoGapUnlessOvertaken'
    BY <1>3 DEF CommitWriter, history, TypeOK, Revisions, ReadsServable,
       CommittedWithinCurrent, UncommittedAboveCurrent, Idle,
       NoGapUnlessOvertaken
  <2> QED BY <2>1, <2>2, <2>3, <2>4, <2>5, <2>6, <2>7, <2>8
<1>4. ASSUME NEW w \in Writers, RollbackWriter(w) PROVE IndInv'
  <2>1. TypeOK'
    BY <1>4 DEF RollbackWriter, history, TypeOK, Revisions, Idle
  <2>2. LocksHeld'
    BY <1>4 DEF RollbackWriter, history, TypeOK, Revisions, Idle, LocksHeld
  <2>3. UncommittedAboveCurrent'
    BY <1>4 DEF RollbackWriter, history, TypeOK, Revisions, Idle,
       UncommittedAboveCurrent
  <2>4. (CommittedWithinCurrent /\ CompactedWithinCurrent /\
        LogCompleteAboveCompacted /\ ReadsServable /\ NoGapUnlessOvertaken)'
    BY <1>4 DEF RollbackWriter, history, CommittedWithinCurrent,
       CompactedWithinCurrent, LogCompleteAboveCompacted, ReadsServable,
       NoGapUnlessOvertaken
  <2> QED BY <2>1, <2>2, <2>3, <2>4
<1>5. ASSUME NEW c \in Clients, ReadState(c) PROVE IndInv'
  <2>1. TypeOK'
    BY <1>5 DEF ReadState, TypeOK, history
  <2>2. (LocksHeld /\ UncommittedAboveCurrent /\ CommittedWithinCurrent /\
        CompactedWithinCurrent /\ LogCompleteAboveCompacted /\
        NoGapUnlessOvertaken)'
    BY <1>5 DEF ReadState, history, LocksHeld, UncommittedAboveCurrent,
       CommittedWithinCurrent, CompactedWithinCurrent,
       LogCompleteAboveCompacted, NoGapUnlessOvertaken
  <2>3. ReadsServable'
    <3>1. CASE client[c].since < state[UserOf[c]].compacted
      BY <1>5, <3>1 DEF ReadState, TypeOK, history, ReadsServable
    <3>2. CASE ~(client[c].since < state[UserOf[c]].compacted)
      <4>1. {r \in published[UserOf[c]] : client[c].since < r /\ r <= state[UserOf[c]].current}
               \subseteq log[UserOf[c]]
        BY <3>2 DEF LogCompleteAboveCompacted, TypeOK
      <4> QED BY <1>5, <3>2, <4>1 DEF ReadState, TypeOK, history, ReadsServable
    <3> QED BY <3>1, <3>2
  <2> QED BY <2>1, <2>2, <2>3
<1>6. ASSUME NEW c \in Clients, ReadRows(c) PROVE IndInv'
  <2>1. TypeOK'
    BY <1>6 DEF ReadRows, Page, Unread, TypeOK
  <2>2. (LocksHeld /\ UncommittedAboveCurrent /\ CommittedWithinCurrent /\
        CompactedWithinCurrent /\ LogCompleteAboveCompacted)'
    BY <1>6 DEF ReadRows, history, LocksHeld, UncommittedAboveCurrent,
       CommittedWithinCurrent, CompactedWithinCurrent,
       LogCompleteAboveCompacted
  <2>3. ReadsServable'
    <3>1. PICK until \in 0..MaxRevision :
              /\ ReturnedUntil(c, until)
              /\ client' = [client EXCEPT ![c] = [phase |-> "idle", since |-> until,
                                                  current |-> 0]]
      BY <1>6 DEF ReadRows
    <3>2. until <= state[UserOf[c]].current
      BY <3>1 DEF ReturnedUntil, Page, Unread, ReadsServable, TypeOK
    <3> QED BY <1>6, <3>1, <3>2 DEF ReadRows, TypeOK, ReadsServable
  <2>4. NoGapUnlessOvertaken'
    <3>1. PICK until \in 0..MaxRevision :
              /\ ReturnedUntil(c, until)
              /\ client' = [client EXCEPT ![c] = [phase |-> "idle", since |-> until,
                                                  current |-> 0]]
      BY <1>6 DEF ReadRows
    <3>2. ASSUME ~overtaken[c], NEW r \in published[UserOf[c]], r <= until
          PROVE  r \in covered[c] \cup Page(c)
      <4>1. CASE r <= client[c].since
        BY <3>2, <4>1 DEF NoGapUnlessOvertaken
      <4>2. CASE ~(r <= client[c].since)
        <5>1. until <= client[c].current
          BY <3>1 DEF ReturnedUntil, Page, Unread, TypeOK
        <5>2. r \in Unread(c)
          BY <1>6, <3>2, <4>2, <5>1 DEF ReadRows, ReadsServable, Unread, TypeOK
        <5>3. CASE HasMore(c)
          BY <3>1, <3>2, <5>2, <5>3, PageClosedDownward DEF ReturnedUntil
        <5>4. CASE ~HasMore(c)
          BY <5>2, <5>4, LastPageIsAll
        <5> QED BY <5>3, <5>4
      <4> QED BY <4>1, <4>2
    <3> QED BY <1>6, <3>1, <3>2 DEF ReadRows, TypeOK, NoGapUnlessOvertaken
  <2> QED BY <2>1, <2>2, <2>3, <2>4
<1>7. ASSUME NEW c \in Clients, full_sync(c) PROVE IndInv'
  <2>1. TypeOK'
    BY <1>7 DEF full_sync, TypeOK
  <2>2. (LocksHeld /\ UncommittedAboveCurrent /\ CommittedWithinCurrent /\
        CompactedWithinCurrent /\ LogCompleteAboveCompacted)'
    BY <1>7 DEF full_sync, history, LocksHeld, UncommittedAboveCurrent,
       CommittedWithinCurrent, CompactedWithinCurrent,
       LogCompleteAboveCompacted
  <2>3. ReadsServable'
    BY <1>7 DEF full_sync, TypeOK, ReadsServable
  <2>4. NoGapUnlessOvertaken'
    BY <1>7 DEF full_sync, history, TypeOK, Revisions, NoGapUnlessOvertaken
  <2> QED BY <2>1, <2>2, <2>3, <2>4
<1>8. ASSUME NEW r \in Revisions, Age(r) PROVE IndInv'
  <2>1. (TypeOK /\ LocksHeld /\ UncommittedAboveCurrent /\
        CommittedWithinCurrent /\ CompactedWithinCurrent /\
        LogCompleteAboveCompacted /\ ReadsServable /\ NoGapUnlessOvertaken)'
    BY <1>8 DEF Age, history, TypeOK, LocksHeld, UncommittedAboveCurrent,
       CommittedWithinCurrent, CompactedWithinCurrent,
       LogCompleteAboveCompacted, ReadsServable, NoGapUnlessOvertaken
  <2> QED BY <2>1
<1>9. CASE PurgeScan
  <2>1. (TypeOK /\ LocksHeld /\ UncommittedAboveCurrent /\
        CompactedWithinCurrent /\ LogCompleteAboveCompacted /\ ReadsServable /\
        NoGapUnlessOvertaken)'
    BY <1>9 DEF PurgeScan, history, TypeOK, LocksHeld, UncommittedAboveCurrent,
       CompactedWithinCurrent, LogCompleteAboveCompacted, ReadsServable,
       NoGapUnlessOvertaken
  <2>2. CommittedWithinCurrent'
    BY <1>9 DEF PurgeScan, history, TypeOK, Revisions, LocksHeld, Expired,
       CommittedWithinCurrent
  <2> QED BY <2>1, <2>2
<1>10. ASSUME NEW u \in Users, PurgeUser(u) PROVE IndInv'
  <2>1. (TypeOK /\ UncommittedAboveCurrent /\ CommittedWithinCurrent /\
        CompactedWithinCurrent /\ LogCompleteAboveCompacted /\ ReadsServable /\
        NoGapUnlessOvertaken)'
    BY <1>10 DEF PurgeUser, history, TypeOK, UncommittedAboveCurrent,
       CommittedWithinCurrent, CompactedWithinCurrent,
       LogCompleteAboveCompacted, ReadsServable, NoGapUnlessOvertaken
  <2>2. LocksHeld'
    BY <1>10 DEF PurgeUser, history, TypeOK, Revisions, LocksHeld
  <2> QED BY <2>1, <2>2
<1>11. CASE PurgeCommit
  <2>1. TypeOK'
    BY <1>11 DEF PurgeCommit, history, TypeOK, Revisions, Doomed, Larger,
       NoPurge, Unread
  <2>2. LocksHeld'
    BY <1>11 DEF PurgeCommit, history, TypeOK, Revisions, Doomed, Larger,
       NoPurge, Unread, LocksHeld
  <2>3. UncommittedAboveCurrent'
    BY <1>11 DEF PurgeCommit, history, TypeOK, Revisions,
       UncommittedAboveCurrent
  <2>4. CommittedWithinCurrent'
    BY <1>11 DEF PurgeCommit, history, TypeOK, Revisions, Doomed, Larger,
       NoPurge, Unread, CommittedWithinCurrent
  <2>5. CompactedWithinCurrent'
    BY <1>11 DEF PurgeCommit, history, TypeOK, Revisions,
       CommittedWithinCurrent, Doomed, Larger, NoPurge, Unread,
       CompactedWithinCurrent
  <2>6. LogCompleteAboveCompacted'
    BY <1>11 DEF PurgeCommit, history, TypeOK, Revisions, Doomed, Larger,
       NoPurge, Unread, LogCompleteAboveCompacted
  <2>7. ReadsServable'
    BY <1>11 DEF PurgeCommit, history, TypeOK, Revisions, Doomed, Larger,
       NoPurge, Unread, ReadsServable
  <2>8. NoGapUnlessOvertaken'
    BY <1>11 DEF PurgeCommit, history, NoGapUnlessOvertaken
  <2> QED BY <2>1, <2>2, <2>3, <2>4, <2>5, <2>6, <2>7, <2>8
<1>12. CASE PurgeAbort
  <2>1. TypeOK'
    BY <1>12 DEF PurgeAbort, history, TypeOK, Revisions, NoPurge
  <2>2. LocksHeld'
    BY <1>12 DEF PurgeAbort, history, TypeOK, Revisions, NoPurge, LocksHeld
  <2>3. (UncommittedAboveCurrent /\ CompactedWithinCurrent /\
        LogCompleteAboveCompacted /\ ReadsServable /\ NoGapUnlessOvertaken)'
    BY <1>12 DEF PurgeAbort, history, UncommittedAboveCurrent,
       CompactedWithinCurrent, LogCompleteAboveCompacted, ReadsServable,
       NoGapUnlessOvertaken
  <2>4. CommittedWithinCurrent'
    BY <1>12 DEF PurgeAbort, history, TypeOK, Revisions, NoPurge,
       CommittedWithinCurrent
  <2> QED BY <2>1, <2>2, <2>3, <2>4
<1>13. CASE UNCHANGED vars
  BY <1>13 DEF vars, history, TypeOK, LocksHeld, UncommittedAboveCurrent,
     CommittedWithinCurrent, CompactedWithinCurrent, LogCompleteAboveCompacted,
     ReadsServable, NoGapUnlessOvertaken, Unread
<1> QED BY <1>1, <1>2, <1>3, <1>4, <1>5, <1>6, <1>7,
       <1>8, <1>9, <1>10, <1>11, <1>12, <1>13 DEF Next

-----------------------------------------------------------------------------
(* The theorems.                                                            *)

\* The inductive invariant holds in every reachable state.
THEOREM Invariance == Spec => []IndInv
<1>1. Init => IndInv
  BY InitIndInv
<1>2. IndInv /\ [Next]_vars => IndInv'
  BY NextIndInv
<1> QED BY <1>1, <1>2, PTL DEF Spec

\* Every variable of the feed keeps its type.
THEOREM TypeCorrect == Spec => []TypeOK
  BY Invariance, PTL DEF IndInv

\* No client ever passes a committed change it was not told of, unless a purge
\* committed between the two statements of one of its reads.
THEOREM NoGap == Spec => []NoGapUnlessOvertaken
  BY Invariance, PTL DEF IndInv

\* The 410 test of read_changes is sufficient: above compacted_revision the log
\* is complete, and compacted_revision never leapfrogs current_revision.
THEOREM RetentionSound ==
    Spec => [](LogCompleteAboveCompacted /\ CompactedWithinCurrent)
  BY Invariance, PTL DEF IndInv

\* Per user, commit order is revision order, for any interleaving of writers on
\* the one global sequence.
THEOREM CommitOrder == Spec => CommitOrderIsRevisionOrder
<1>1. IndInv /\ [Next]_vars =>
        [\A u \in Users : \A new \in published'[u] \ published[u] :
            \A old \in published[u] : old < new]_vars
  <2> SUFFICES ASSUME IndInv, Next,
                      NEW u \in Users, NEW new \in published'[u] \ published[u],
                      NEW old \in published[u]
               PROVE  old < new
    OBVIOUS
  <2>1. CASE \E w \in Writers : CommitWriter(w)
    <3>1. PICK w \in Writers : CommitWriter(w)
      BY <2>1
    <3>2. u = txn[w].user /\ new \in txn[w].rows
      BY <3>1 DEF CommitWriter, IndInv, TypeOK
    <3>3. state[u].current < new
      BY <3>1, <3>2 DEF CommitWriter, IndInv, UncommittedAboveCurrent
    <3>4. old <= state[u].current
      BY DEF IndInv, CommittedWithinCurrent
    <3> QED BY <3>2, <3>3, <3>4, ChangelogAssumption DEF IndInv, TypeOK, Revisions
  <2>2. CASE UNCHANGED published
    BY <2>2
  <2> QED BY <2>1, <2>2 DEF Next, lock_sync_state, append_change, RollbackWriter,
           ReadState, ReadRows, full_sync, Age, PurgeScan, PurgeUser, PurgeCommit,
           PurgeAbort, history
<1> QED BY <1>1, Invariance, PTL DEF Spec, CommitOrderIsRevisionOrder
=============================================================================
