-------------------------- MODULE RefinementProofs --------------------------
(***************************************************************************)
(* The sink implements the delivery specification (module Delivery), for   *)
(* all values of the constants.                                            *)
(*                                                                         *)
(* Custody gives that a commit passes only stored records.  That commits   *)
(* only move forward needs an order of its own: a commit under way is      *)
(* ahead of the committed offset and of those sent before it, because the  *)
(* watermark, which the next one must exceed, is never behind them.        *)
(*                                                                         *)
(* From the same order, where every commit sent arrives, follow that the   *)
(* watermark is not ahead of the committed offset either                   *)
(* (WatermarkCommitted) and that a clean shutdown leaves nothing           *)
(* uncommitted below the first gap (CleanShutdownCommitsAll).              *)
(***************************************************************************)
EXTENDS CustodyProofs

Ahead == CommitsAhead /\ MemberAhead /\ QueueEmptied /\ WatermarksOwned
RInv  == IInv /\ Ahead

-----------------------------------------------------------------------------
(* The order is kept by steps that send no commit.                          *)

\* What is left of a sequence of commits when its head is gone.
LEMMA CommitsTail ==
    ASSUME commits \in Seq(CommitList), commits # << >>
    PROVE  /\ 1 \in 1 .. Len(commits) /\ Head(commits) = commits[1]
           /\ Len(Tail(commits)) \in Nat
           /\ \A i \in 1 .. Len(Tail(commits)) :
                 /\ i + 1 \in 1 .. Len(commits)
                 /\ i + 1 > 1
                 /\ Tail(commits)[i] = commits[i + 1]
<1>1. Len(commits) \in Nat /\ Len(commits) # 0
  BY EmptySeq, LenProperties
<1>2. /\ Head(commits) = commits[1]
      /\ Len(Tail(commits)) = Len(commits) - 1
      /\ \A i \in 1 .. Len(Tail(commits)) : Tail(commits)[i] = commits[i + 1]
  BY HeadTailProperties
<1> QED
  BY <1>1, <1>2

FewerCommits ==
    \/ commits' = commits
    \/ commits' = << >>
    \/ commits # << >> /\ commits' = Tail(commits)

LEMMA CommitsAheadKept ==
    ASSUME RInv, committed' = committed, FewerCommits
    PROVE  CommitsAhead'
<1>0. commits \in Seq(CommitList) /\ CommitsAhead
  BY DEF RInv, IInv, TypeOK, Ahead
<1>1. CASE commits' = commits
  BY <1>0, <1>1 DEF CommitsAhead
<1>2. CASE commits' = << >>
  BY <1>2, EmptySeq DEF CommitsAhead
<1>3. CASE commits # << >> /\ commits' = Tail(commits)
  <2>1. ASSUME NEW p \in Partitions, NEW i \in 1 .. Len(commits'), commits'[i][p] # NoOffset
        PROVE  /\ committed'[p] < commits'[i][p]
               /\ \A j \in 1 .. i - 1 : commits'[j][p] < commits'[i][p]
    <3>1. i + 1 \in 1 .. Len(commits) /\ commits'[i] = commits[i + 1]
      BY <1>0, <1>3, CommitsTail
    <3>2. ASSUME NEW j \in 1 .. i - 1 PROVE commits'[j][p] < commits'[i][p]
      <4>1. j \in 1 .. Len(commits') /\ j + 1 \in 1 .. (i + 1) - 1
        BY <1>0, <1>3, CommitsTail
      <4>2. commits'[j] = commits[j + 1]
        BY <1>0, <1>3, <4>1, CommitsTail
      <4> QED
        BY <1>0, <2>1, <3>1, <4>1, <4>2 DEF CommitsAhead
    <3> QED
      BY <1>0, <2>1, <3>1, <3>2 DEF CommitsAhead
  <2> QED
    BY <2>1 DEF CommitsAhead
<1> QED
  BY <1>1, <1>2, <1>3 DEF FewerCommits

LEMMA NotBehindKept ==
    ASSUME RInv, committed' = committed, FewerCommits,
           NEW p \in Partitions, NEW n, NotBehind(p, n)
    PROVE  NotBehind(p, n)'
<1>0. commits \in Seq(CommitList)
  BY DEF RInv, IInv, TypeOK
<1>1. CASE commits' = commits
  BY <1>1 DEF NotBehind
<1>2. CASE commits' = << >>
  BY <1>2, EmptySeq DEF NotBehind
<1>3. CASE commits # << >> /\ commits' = Tail(commits)
  BY <1>0, <1>3, CommitsTail DEF NotBehind
<1> QED
  BY <1>1, <1>2, <1>3 DEF FewerCommits

\* Nothing is behind an offset at or above one that is not.
LEMMA NotBehindAbove ==
    ASSUME TypeOK, NEW p \in Partitions, NEW m \in Int, NEW n \in Int,
           NotBehind(p, m), m <= n
    PROVE  NotBehind(p, n)
<1>1. committed[p] \in Int
  BY DEF TypeOK, CommitList, MaybeOffset, NoOffset
<1>2. ASSUME NEW i \in 1 .. Len(commits) PROVE commits[i][p] \in Int
  <2>1. commits[i] \in CommitList
    BY ElementOfSeq DEF TypeOK
  <2> QED
    BY <2>1 DEF CommitList, MaybeOffset, NoOffset
<1> QED
  BY <1>1, <1>2 DEF NotBehind

LEMMA AheadKept ==
    ASSUME RInv, committed' = committed, FewerCommits,
           UNCHANGED <<assignment, position, offsets_watermark, rebalance>>,
           evicted => evicted',
           rebalance # << >> /\ status = "running" => status' = "running"
    PROVE  Ahead'
<1>1. CommitsAhead'
  BY CommitsAheadKept
<1>2. ASSUME NEW p \in assignment', ~evicted' PROVE NotBehind(p, Floor(p))'
  <2>1. p \in Partitions /\ NotBehind(p, Floor(p))
    BY <1>2 DEF RInv, Ahead, MemberAhead, IInv, TypeOK
  <2>2. Floor(p)' = Floor(p)
    BY DEF Floor, BeingRevoked
  <2> QED
    BY <2>1, <2>2, NotBehindKept DEF NotBehind
<1>3. MemberAhead'
  BY <1>2 DEF MemberAhead, Floor
<1>4. QueueEmptied' /\ WatermarksOwned'
  BY DEF RInv, Ahead, QueueEmptied, WatermarksOwned, BeingRevoked
<1> QED
  BY <1>1, <1>3, <1>4 DEF Ahead

\* A process that ends has no partition and no watermark.
LEMMA EndsAhead ==
    ASSUME RInv, NEW how, ProcessEnds(how), CommitsAhead'
    PROVE  Ahead'
BY DEF ProcessEnds, StateMachineForgotten, Ahead, MemberAhead, QueueEmptied, WatermarksOwned

LEMMA FatalAhead == RInv /\ Fatal => Ahead'
BY EndsAhead, CommitsAheadKept DEF Fatal, FewerCommits

-----------------------------------------------------------------------------
(* The steps of the group: assignments, revocations, peers, commits.        *)

\* No commit is under way in a new generation: an offset at or above the
\* committed one is not behind.
LEMMA NewGeneration ==
    ASSUME NEW p \in Partitions, NEW n, commits' = << >>, committed'[p] <= n
    PROVE  NotBehind(p, n)'
BY EmptySeq DEF NotBehind

LEMMA AssignAhead ==
    ASSUME RInv, NEW A \in SUBSET Partitions, Assign(A)
    PROVE  Ahead'
<1>1. CommitsAhead'
  BY CommitsAheadKept DEF Assign, FewerCommits
<1>2. \A p : BeingRevoked(p)' <=> BeingRevoked(p)
  BY DEF Assign, procvars, BeingRevoked
<1>3. UNCHANGED <<committed, offsets_watermark, rebalance, evicted, status>> /\ ~evicted
  BY DEF Assign, smvars, procvars
<1>4. ASSUME NEW p \in assignment' PROVE NotBehind(p, Floor(p))'
  <2>1. p \in Partitions
    BY DEF Assign, RInv, IInv, TypeOK
  <2>2. CASE p \in A
    <3>1. p \notin assignment
      BY <2>2 DEF Assign
    <3>2. offsets_watermark[p] = NoOffset \/ BeingRevoked(p)
      BY <2>1, <3>1 DEF RInv, Ahead, WatermarksOwned
    <3>3. Floor(p)' = StartPosition(p)
      BY <1>2, <1>3, <2>1, <2>2, <3>2 DEF Floor, Assign
    <3>4. committed[p] <= StartPosition(p)
      <4>1. committed[p] \in MaybeOffset /\ ResetPosition(p) \in Nat
        BY <2>1, StartType DEF RInv, IInv, TypeOK, CommitList
      <4> QED
        BY <4>1 DEF StartPosition, MaybeOffset, NoOffset
    <3> QED
      BY <1>3, <2>1, <3>3, <3>4, NewGeneration DEF Assign
  <2>3. CASE p \notin A
    <3>1. p \in assignment /\ Floor(p)' = Floor(p)
      BY <1>2, <1>3, <2>1, <2>3 DEF Assign, Floor
    <3>2. NotBehind(p, Floor(p))
      BY <1>3, <3>1 DEF RInv, Ahead, MemberAhead
    <3> QED
      BY <1>3, <2>1, <3>1, <3>2, NewGeneration DEF NotBehind, Assign
  <2> QED
    BY <2>2, <2>3
<1>5. MemberAhead'
  BY <1>4 DEF MemberAhead
<1>6. QueueEmptied' /\ WatermarksOwned'
  BY <1>2, <1>3 DEF Assign, RInv, Ahead, QueueEmptied, WatermarksOwned
<1> QED
  BY <1>1, <1>5, <1>6 DEF Ahead

\* A revocation is queued behind those that wait.
LEMMA RevocationQueued ==
    ASSUME TypeOK, NEW R \in SUBSET Partitions, Revoke(R), NEW p
    PROVE  BeingRevoked(p)' <=> (BeingRevoked(p) \/ p \in R)
<1>0. rebalance \in Seq(SUBSET Partitions) /\ rebalance' = Append(rebalance, R)
  BY DEF Revoke, TypeOK
<1>1. /\ Len(rebalance) \in Nat /\ Len(rebalance') = Len(rebalance) + 1
      /\ rebalance'[Len(rebalance) + 1] = R
      /\ \A i \in 1 .. Len(rebalance) : rebalance'[i] = rebalance[i]
  BY <1>0, AppendProperties, LenProperties
<1>2. \A i : i \in 1 .. Len(rebalance') <=> i \in 1 .. Len(rebalance) \/ i = Len(rebalance) + 1
  BY <1>1
<1> QED
  BY <1>1, <1>2 DEF BeingRevoked

LEMMA RevokeAhead ==
    ASSUME RInv, NEW R \in SUBSET Partitions, Revoke(R)
    PROVE  Ahead'
<1>1. CommitsAhead'
  BY CommitsAheadKept DEF Revoke, FewerCommits
<1>2. \A p : BeingRevoked(p)' <=> (BeingRevoked(p) \/ p \in R)
  BY RevocationQueued DEF RInv, IInv
<1>3. UNCHANGED <<offsets_watermark, committed, commits, status>>
  BY DEF Revoke, smvars
<1>4. ASSUME NEW p \in assignment' PROVE NotBehind(p, Floor(p))'
  <2>1. p \in Partitions /\ p \in assignment /\ p \notin R
    BY DEF Revoke, RInv, IInv, TypeOK
  <2>2. ~evicted
    BY <2>1 DEF Revoke
  <2>3. Floor(p)' = Floor(p)
    BY <1>2, <1>3, <2>1 DEF Floor, Revoke
  <2>4. NotBehind(p, Floor(p))
    BY <2>1, <2>2 DEF RInv, Ahead, MemberAhead
  <2> QED
    BY <1>3, <2>3, <2>4 DEF NotBehind
<1>5. MemberAhead'
  BY <1>4 DEF MemberAhead
<1>6. QueueEmptied' /\ WatermarksOwned'
  BY <1>2, <1>3 DEF Revoke, RInv, Ahead, QueueEmptied, WatermarksOwned
<1> QED
  BY <1>1, <1>5, <1>6 DEF Ahead

LEMMA PeerAhead ==
    ASSUME RInv, NEW p \in Partitions, NEW n \in 1 .. LogSize, PeerProgress(p, n)
    PROVE  Ahead'
<1> USE DEF smvars, procvars
<1>1. CommitsAhead'
  BY EmptySeq DEF PeerProgress, CommitsAhead
<1>2. ASSUME NEW q \in assignment', ~evicted' PROVE NotBehind(q, Floor(q))'
  <2>1. q \in Partitions /\ q \in assignment /\ q # p /\ ~evicted
    BY <1>2 DEF PeerProgress, RInv, IInv, TypeOK
  <2>2. Floor(q)' = Floor(q)
    BY DEF PeerProgress, Floor, BeingRevoked
  <2>3. NotBehind(q, Floor(q))
    BY <2>1 DEF RInv, Ahead, MemberAhead
  <2>4. committed'[q] = committed[q]
    BY <2>1 DEF PeerProgress, RInv, IInv, TypeOK, CommitList
  <2> QED
    BY <2>1, <2>2, <2>3, <2>4, NewGeneration DEF NotBehind, PeerProgress
<1>3. MemberAhead'
  BY <1>2 DEF MemberAhead
<1>4. QueueEmptied' /\ WatermarksOwned'
  BY DEF PeerProgress, RInv, Ahead, QueueEmptied, WatermarksOwned, BeingRevoked
<1> QED
  BY <1>1, <1>3, <1>4 DEF Ahead

\* The commit that is applied was ahead of the committed offset; those after it
\* are ahead of it.
LEMMA CommitAppliedAhead ==
    ASSUME RInv, BrokerAppliesCommit
    PROVE  Ahead'
<1> USE DEF smvars, procvars
<1>0. /\ commits \in Seq(CommitList) /\ commits # << >> /\ commits' = Tail(commits)
      /\ CommitsAhead
  BY DEF BrokerAppliesCommit, RInv, IInv, TypeOK, Ahead
<1>1. \A p \in Partitions :
         committed'[p] = IF commits[1][p] = NoOffset THEN committed[p] ELSE commits[1][p]
  BY <1>0, CommitsTail DEF BrokerAppliesCommit
<1>2. CommitsAhead'
  <2>1. ASSUME NEW p \in Partitions, NEW i \in 1 .. Len(commits'), commits'[i][p] # NoOffset
        PROVE  /\ committed'[p] < commits'[i][p]
               /\ \A j \in 1 .. i - 1 : commits'[j][p] < commits'[i][p]
    <3>1. /\ i + 1 \in 1 .. Len(commits) /\ commits'[i] = commits[i + 1]
          /\ 1 \in 1 .. (i + 1) - 1
      BY <1>0, CommitsTail
    <3>2. committed'[p] < commits'[i][p]
      BY <1>0, <1>1, <2>1, <3>1 DEF CommitsAhead
    <3>3. ASSUME NEW j \in 1 .. i - 1 PROVE commits'[j][p] < commits'[i][p]
      <4>1. j \in 1 .. Len(commits') /\ j + 1 \in 1 .. (i + 1) - 1
        BY <1>0, CommitsTail
      <4>2. commits'[j] = commits[j + 1]
        BY <1>0, <4>1, CommitsTail
      <4> QED
        BY <1>0, <2>1, <3>1, <4>1, <4>2 DEF CommitsAhead
    <3> QED
      BY <3>2, <3>3
  <2> QED
    BY <2>1 DEF CommitsAhead
<1>3. ASSUME NEW p \in assignment', ~evicted' PROVE NotBehind(p, Floor(p))'
  <2>1. p \in Partitions /\ NotBehind(p, Floor(p))
    BY <1>3 DEF BrokerAppliesCommit, RInv, Ahead, MemberAhead, IInv, TypeOK
  <2>2. Floor(p)' = Floor(p)
    BY DEF BrokerAppliesCommit, Floor, BeingRevoked
  <2>3. committed'[p] <= Floor(p)
    BY <1>0, <1>1, <2>1, CommitsTail DEF NotBehind
  <2>4. \A i \in 1 .. Len(commits') : commits'[i][p] <= Floor(p)
    BY <1>0, <2>1, CommitsTail DEF NotBehind
  <2> QED
    BY <2>2, <2>3, <2>4 DEF NotBehind
<1>4. MemberAhead'
  BY <1>3 DEF MemberAhead
<1>5. QueueEmptied' /\ WatermarksOwned'
  BY DEF BrokerAppliesCommit, RInv, Ahead, QueueEmptied, WatermarksOwned, BeingRevoked
<1> QED
  BY <1>2, <1>4, <1>5 DEF Ahead

LEMMA WorldAhead ==
    ASSUME RInv, World
    PROVE  Ahead'
<1> USE DEF smvars, procvars, groupvars, worldvars
<1>1. ASSUME NEW p \in Partitions, Produce(p) PROVE Ahead'
  BY <1>1, AheadKept DEF Produce, FewerCommits
<1>2. CASE TimePasses
  BY <1>2, AheadKept DEF TimePasses, StreamsAge, FewerCommits
<1>3. ASSUME NEW A \in SUBSET Partitions, Assign(A) PROVE Ahead'
  BY <1>3, AssignAhead
<1>4. ASSUME NEW R \in SUBSET Partitions, Revoke(R) PROVE Ahead'
  BY <1>4, RevokeAhead
<1>5. CASE Evict
  BY <1>5, AheadKept DEF Evict, FewerCommits
<1>6. ASSUME NEW p \in Partitions, NEW n \in 1 .. LogSize, PeerProgress(p, n) PROVE Ahead'
  BY <1>6, PeerAhead
<1>7. CASE BrokerAppliesCommit
  BY <1>7, CommitAppliedAhead
<1>8. CASE CommitLost
  BY <1>8, AheadKept DEF CommitLost, FewerCommits
<1>9. ASSUME NEW u \in pool, StoreObject(u) PROVE Ahead'
  BY <1>9, AheadKept DEF StoreObject, FewerCommits
<1>10. CASE Crash
  BY <1>10, FatalAhead DEF Crash
<1>11. CASE Restart
  BY <1>11, AheadKept DEF Restart, FewerCommits
<1> QED
  BY <1>1, <1>2, <1>3, <1>4, <1>5, <1>6, <1>7, <1>8, <1>9, <1>10, <1>11 DEF World

-----------------------------------------------------------------------------
(* The event loop.                                                          *)

\* A revocation that is handled is the first of the queue.
LEMMA RevocationTaken ==
    ASSUME TypeOK, DrainRevocation, NEW p
    PROVE  BeingRevoked(p) <=> (BeingRevoked(p)' \/ p \in Head(rebalance))
<1>0. rebalance \in Seq(SUBSET Partitions) /\ rebalance # << >>
  BY DEF DrainRevocation, TypeOK
<1>1. /\ Len(rebalance) \in Nat /\ Len(rebalance) # 0
      /\ Head(rebalance) = rebalance[1]
      /\ Len(Tail(rebalance)) = Len(rebalance) - 1
      /\ \A k \in 1 .. Len(Tail(rebalance)) : Tail(rebalance)[k] = rebalance[k + 1]
  BY <1>0, EmptySeq, LenProperties, HeadTailProperties
<1>2. rebalance' = Tail(rebalance)
  BY DEF DrainRevocation
<1>3. ASSUME BeingRevoked(p), p \notin Head(rebalance) PROVE BeingRevoked(p)'
  <2>1. PICK i \in 1 .. Len(rebalance) : p \in rebalance[i]
    BY <1>3 DEF BeingRevoked
  <2>2. i # 1
    BY <1>1, <1>3, <2>1
  <2>3. /\ i - 1 \in 1 .. Len(Tail(rebalance))
        /\ (i - 1) + 1 = i
    BY <1>1, <2>1, <2>2
  <2>4. p \in Tail(rebalance)[i - 1]
    BY <1>1, <2>1, <2>3
  <2> QED
    BY <1>2, <2>3, <2>4 DEF BeingRevoked
<1>4. ASSUME BeingRevoked(p)' PROVE BeingRevoked(p)
  <2>1. PICK i \in 1 .. Len(Tail(rebalance)) : p \in Tail(rebalance)[i]
    BY <1>2, <1>4 DEF BeingRevoked
  <2>2. i + 1 \in 1 .. Len(rebalance)
    BY <1>1, <2>1
  <2> QED
    BY <1>1, <2>1, <2>2 DEF BeingRevoked
<1>5. p \in Head(rebalance) => BeingRevoked(p)
  <2>1. 1 \in 1 .. Len(rebalance)
    BY <1>1
  <2> QED
    BY <1>1, <2>1 DEF BeingRevoked
<1> QED
  BY <1>3, <1>4, <1>5

\* A revoked partition has no watermark any more, nor did what its watermark
\* was count: it was about to be lost.
LEMMA RevocationAhead ==
    ASSUME RInv, DrainRevocation
    PROVE  Ahead'
<1> USE DEF groupvars
<1>1. CommitsAhead'
  BY CommitsAheadKept DEF DrainRevocation, FewerCommits
<1>2. \A p : BeingRevoked(p) <=> (BeingRevoked(p)' \/ p \in Head(rebalance))
  BY RevocationTaken DEF RInv, IInv
<1>3. \A p \in Partitions :
         offsets_watermark'[p] =
            IF p \in Head(rebalance) THEN NoOffset ELSE offsets_watermark[p]
  BY DEF DrainRevocation, handle_revoke_partitions
<1>4. ASSUME NEW p \in assignment', ~evicted' PROVE NotBehind(p, Floor(p))'
  <2>1. p \in Partitions /\ NotBehind(p, Floor(p))
    BY <1>4 DEF DrainRevocation, RInv, Ahead, MemberAhead, IInv, TypeOK
  <2>2. Floor(p)' = Floor(p)
    BY <1>2, <1>3, <2>1 DEF Floor, DrainRevocation
  <2> QED
    BY <2>1, <2>2 DEF NotBehind, DrainRevocation
<1>5. MemberAhead'
  BY <1>4 DEF MemberAhead
<1>6. QueueEmptied' /\ WatermarksOwned'
  BY <1>2, <1>3 DEF DrainRevocation, RInv, Ahead, QueueEmptied, WatermarksOwned
<1> QED
  BY <1>1, <1>5, <1>6 DEF Ahead

\* A record that is read either moves nothing or makes the position of its
\* partition its watermark.
LEMMA ReadAhead ==
    ASSUME RInv, NEW p \in Partitions, CanRead(p), ReadPast(p),
           UNCHANGED <<status, rebalance, assignment, evicted, commits, committed>>,
           offsets_watermark' \in
              {offsets_watermark,
               [offsets_watermark EXCEPT ![p] = IF @ = NoOffset THEN position[p] ELSE @]}
    PROVE  Ahead'
<1>1. CommitsAhead'
  BY CommitsAheadKept DEF FewerCommits
<1>2. \A q : ~BeingRevoked(q) /\ ~BeingRevoked(q)'
  BY EmptySeq DEF CanRead, Turn, BeingRevoked
<1>3. position[p] \in Nat /\ p \in assignment
  BY ReadType DEF CanRead, RInv, IInv
<1>4. ASSUME NEW q \in assignment', ~evicted' PROVE NotBehind(q, Floor(q))'
  <2>1. q \in Partitions /\ NotBehind(q, Floor(q)) /\ TypeOK /\ StateMachineTypeOK
    BY <1>4 DEF RInv, Ahead, MemberAhead, IInv, TypeOK
  <2>2. Floor(q) \in Int /\ Floor(q)' \in Int /\ Floor(q) <= Floor(q)'
    <3>1. position[q] \in Int /\ offsets_watermark[q] \in Int
      BY <2>1 DEF TypeOK, StateMachineTypeOK, CommitList, MaybeOffset, NoOffset
    <3>2. CASE q # p
      <4>1. position'[q] = position[q] /\ offsets_watermark'[q] = offsets_watermark[q]
        BY <2>1, <3>2 DEF ReadPast, TypeOK, StateMachineTypeOK, CommitList
      <4> QED
        BY <1>2, <3>1, <4>1 DEF Floor
    <3>3. CASE q = p
      <4>1. /\ position'[p] = position[p] + 1
            /\ offsets_watermark'[p] \in
                  {offsets_watermark[p],
                   IF offsets_watermark[p] = NoOffset THEN position[p]
                                                      ELSE offsets_watermark[p]}
        BY <2>1 DEF ReadPast, TypeOK, StateMachineTypeOK, CommitList
      <4> QED
        BY <1>2, <1>3, <3>1, <3>3, <4>1 DEF Floor
    <3> QED
      BY <3>2, <3>3
  <2>3. NotBehind(q, Floor(q)')
    BY <2>1, <2>2, NotBehindAbove
  <2> QED
    BY <2>3 DEF NotBehind
<1>5. MemberAhead'
  BY <1>4 DEF MemberAhead
<1>6. QueueEmptied'
  BY DEF RInv, Ahead, QueueEmptied
<1>7. WatermarksOwned'
  <2>1. ASSUME NEW q \in Partitions, offsets_watermark'[q] # NoOffset PROVE q \in assignment
    BY <1>2, <1>3, <2>1 DEF RInv, Ahead, WatermarksOwned, IInv, TypeOK, StateMachineTypeOK
  <2> QED
    BY <2>1 DEF WatermarksOwned
<1> QED
  BY <1>1, <1>5, <1>6, <1>7 DEF Ahead

\* The list to commit holds offsets beyond the watermarks of owned partitions.
LEMMA ListBeyond ==
    ASSUME TypeOK, NEW A, NEW p \in Partitions, TopicPartitionList(A)[p] # NoOffset
    PROVE  /\ p \in A /\ offsets_watermark[p] # NoOffset
           /\ offsets_watermark[p] \in Int /\ TopicPartitionList(A)[p] \in Int
           /\ offsets_watermark[p] < TopicPartitionList(A)[p]
<1>1. TopicPartitionList(A) \in CommitList /\ offsets_watermark[p] \in Int
  BY ListType DEF TypeOK, StateMachineTypeOK, MaybeOffset, NoOffset
<1>2. TopicPartitionList(A)[p] \in Int
  BY <1>1 DEF CommitList, MaybeOffset, NoOffset
<1> DEFINE end == ContiguousEnd(offsets_uploaded[p], offsets_watermark[p])
<1>3. TopicPartitionList(A)[p] =
         IF p \in A /\ offsets_watermark[p] # NoOffset /\ end > offsets_watermark[p]
         THEN end ELSE NoOffset
  BY DEF TopicPartitionList
<1> HIDE DEF end
<1> QED
  BY <1>1, <1>2, <1>3

\* So it is ahead of what the group has and of what was sent.
LEMMA CommitTickAhead ==
    ASSUME RInv, CommitTick
    PROVE  Ahead'
<1> DEFINE tpl == TopicPartitionList(assignment)
<1> USE DEF procvars
<1>0. TypeOK /\ commits \in Seq(CommitList) /\ tpl \in CommitList
  BY ListType DEF RInv, IInv, TypeOK
<1>1. \A p : ~BeingRevoked(p) /\ ~BeingRevoked(p)'
  BY EmptySeq DEF CommitTick, Turn, BeingRevoked
<1>2. \A p \in Partitions :
         offsets_watermark'[p] = IF tpl[p] = NoOffset THEN offsets_watermark[p] ELSE tpl[p]
  BY DEF CommitTick, make_topic_partition_list
<1>3. ASSUME NEW p \in Partitions, tpl[p] # NoOffset, ~evicted
      PROVE  committed[p] < tpl[p] /\ \A i \in 1 .. Len(commits) : commits[i][p] < tpl[p]
  <2>1. /\ p \in assignment /\ offsets_watermark[p] # NoOffset
        /\ offsets_watermark[p] \in Int /\ tpl[p] \in Int
        /\ offsets_watermark[p] < tpl[p]
    BY <1>0, <1>3, ListBeyond
  <2>2. NotBehind(p, offsets_watermark[p])
    BY <1>1, <1>3, <2>1 DEF RInv, Ahead, MemberAhead, Floor
  <2>3. committed[p] \in Int
    BY <1>0 DEF TypeOK, CommitList, MaybeOffset, NoOffset
  <2>4. ASSUME NEW i \in 1 .. Len(commits) PROVE commits[i][p] \in Int
    <3>1. commits[i] \in CommitList
      BY <1>0, ElementOfSeq
    <3> QED
      BY <3>1 DEF CommitList, MaybeOffset, NoOffset
  <2> HIDE DEF tpl
  <2> QED
    BY <2>1, <2>2, <2>3, <2>4 DEF NotBehind
<1>4. \/ commits' = commits /\ (IsEmptyList(tpl) \/ evicted)
      \/ commits' = Append(commits, tpl) /\ ~evicted
  BY DEF CommitTick
<1>5. evicted' = evicted /\ committed' = committed /\ assignment' = assignment
      /\ position' = position /\ rebalance' = rebalance /\ status' = status
  BY DEF CommitTick
<1>6. commits' = Append(commits, tpl) =>
         /\ Len(commits) \in Nat /\ Len(commits') = Len(commits) + 1
         /\ commits'[Len(commits) + 1] = tpl
         /\ \A i \in 1 .. Len(commits) : commits'[i] = commits[i]
  BY <1>0, AppendProperties, LenProperties
<1> HIDE DEF tpl
<1>7. CommitsAhead'
  <2>1. CASE commits' = commits
    BY <1>5, <2>1, CommitsAheadKept DEF FewerCommits
  <2>2. CASE commits' = Append(commits, tpl) /\ ~evicted
    <3>1. ASSUME NEW p \in Partitions, NEW i \in 1 .. Len(commits'), commits'[i][p] # NoOffset
          PROVE  /\ committed'[p] < commits'[i][p]
                 /\ \A j \in 1 .. i - 1 : commits'[j][p] < commits'[i][p]
      <4>1. \A j \in 1 .. i - 1 : j \in 1 .. Len(commits) /\ commits'[j] = commits[j]
        BY <1>6, <2>2
      <4>2. CASE i = Len(commits) + 1
        BY <1>3, <1>5, <1>6, <2>2, <3>1, <4>1, <4>2
      <4>3. CASE i # Len(commits) + 1
        <5>1. i \in 1 .. Len(commits) /\ commits'[i] = commits[i]
          BY <1>6, <2>2, <4>3
        <5> QED
          BY <1>5, <3>1, <4>1, <5>1 DEF RInv, Ahead, CommitsAhead
      <4> QED
        BY <4>2, <4>3
    <3> QED
      BY <3>1 DEF CommitsAhead
  <2> QED
    BY <1>4, <2>1, <2>2
<1>8. ASSUME NEW p \in assignment', ~evicted' PROVE NotBehind(p, Floor(p))'
  <2>1. p \in Partitions /\ NotBehind(p, Floor(p)) /\ ~evicted
    BY <1>5, <1>8 DEF RInv, Ahead, MemberAhead, IInv, TypeOK
  <2>2. CASE tpl[p] = NoOffset
    <3>1. Floor(p)' = Floor(p)
      BY <1>1, <1>2, <1>5, <2>1, <2>2 DEF Floor
    <3>2. Floor(p) \in Int /\ NoOffset <= Floor(p)
      BY <1>0, <2>1 DEF Floor, TypeOK, StateMachineTypeOK, CommitList, MaybeOffset, NoOffset
    <3>3. ASSUME NEW i \in 1 .. Len(commits') PROVE commits'[i][p] <= Floor(p)
      <4>1. CASE commits' = commits
        BY <2>1, <3>3, <4>1 DEF NotBehind
      <4>2. CASE commits' = Append(commits, tpl)
        <5>1. CASE i = Len(commits) + 1
          BY <1>6, <2>2, <3>2, <4>2, <5>1
        <5>2. CASE i # Len(commits) + 1
          <6>1. i \in 1 .. Len(commits)
            BY <1>6, <4>2, <5>2
          <6> QED
            BY <1>6, <2>1, <4>2, <6>1 DEF NotBehind
        <5> QED
          BY <5>1, <5>2
      <4> QED
        BY <1>4, <4>1, <4>2
    <3> QED
      BY <1>5, <2>1, <3>1, <3>3 DEF NotBehind
  <2>3. CASE tpl[p] # NoOffset
    <3>1. Floor(p)' = tpl[p]
      BY <1>1, <1>2, <2>1, <2>3 DEF Floor
    <3>2. tpl[p] \in Int /\ commits' = Append(commits, tpl)
      BY <1>0, <1>4, <2>1, <2>3 DEF IsEmptyList, CommitList, MaybeOffset
    <3>3. committed[p] \in Int
      BY <1>0, <2>1 DEF TypeOK, CommitList, MaybeOffset, NoOffset
    <3>4. committed[p] <= tpl[p]
      BY <1>3, <2>1, <2>3, <3>2, <3>3
    <3>5. ASSUME NEW i \in 1 .. Len(commits') PROVE commits'[i][p] <= tpl[p]
      <4>1. CASE i = Len(commits) + 1
        BY <1>6, <3>2, <4>1
      <4>2. CASE i # Len(commits) + 1
        <5>1. i \in 1 .. Len(commits) /\ commits'[i] = commits[i]
          BY <1>6, <3>2, <4>2
        <5>2. commits[i] \in CommitList
          BY <1>0, <5>1, ElementOfSeq
        <5>3. commits[i][p] \in Int
          BY <2>1, <5>2 DEF CommitList, MaybeOffset, NoOffset
        <5> QED
          BY <1>3, <2>1, <2>3, <3>2, <5>1, <5>3
      <4> QED
        BY <4>1, <4>2
    <3> QED
      BY <1>5, <3>1, <3>4, <3>5 DEF NotBehind
  <2> QED
    BY <2>2, <2>3
<1>9. MemberAhead'
  BY <1>8 DEF MemberAhead
<1>10. QueueEmptied' /\ WatermarksOwned'
  <2>1. ASSUME NEW p \in Partitions, offsets_watermark'[p] # NoOffset PROVE p \in assignment
    BY <1>0, <1>1, <1>2, <2>1, ListBeyond DEF RInv, Ahead, WatermarksOwned, tpl
  <2> QED
    BY <1>5, <2>1 DEF RInv, Ahead, QueueEmptied, WatermarksOwned
<1> QED
  BY <1>7, <1>9, <1>10 DEF Ahead

LEMMA EventLoopAhead ==
    ASSUME RInv, EventLoop
    PROVE  Ahead'
<1> USE DEF smvars, procvars, groupvars, worldvars
<1>1. CASE DrainRevocation
  BY <1>1, RevocationAhead
<1>2. ASSUME NEW p \in Partitions, ProcessRecord(p) PROVE Ahead'
  BY <1>2, ReadAhead DEF ProcessRecord, handle_process_record
<1>3. ASSUME NEW p \in Partitions, ProcessRecordFails(p) PROVE Ahead'
  BY <1>3, FatalAhead DEF ProcessRecordFails
<1>4. ASSUME NEW p \in Partitions, SkipGap(p) PROVE Ahead'
  BY <1>4, ReadAhead DEF SkipGap
<1>5. CASE UploadTick
  BY <1>5, FatalAhead, AheadKept
     DEF UploadTick, handle_upload_tick, close_and_upload, FewerCommits
<1>6. CASE SealFails
  BY <1>6, FatalAhead DEF SealFails
<1>7. CASE CommitTick
  BY <1>7, CommitTickAhead
<1>8. ASSUME NEW u \in pool, UploadSucceeds(u) PROVE Ahead'
  BY <1>8, AheadKept DEF UploadSucceeds, upload_success, FewerCommits
<1>9. ASSUME NEW u \in pool, UploadFails(u) PROVE Ahead'
  BY <1>9, FatalAhead, AheadKept DEF UploadFails, FewerCommits
<1>10. CASE ShutdownSignal
  BY <1>10, FatalAhead, AheadKept
     DEF ShutdownSignal, handle_shutdown_signal, close_and_upload, FewerCommits, Turn
<1> QED
  BY <1>1, <1>2, <1>3, <1>4, <1>5, <1>6, <1>7, <1>8, <1>9, <1>10 DEF EventLoop

LEMMA DrainAhead ==
    ASSUME RInv, Drain
    PROVE  Ahead'
<1> USE DEF smvars, procvars, groupvars, worldvars
<1>1. ASSUME NEW u \in pool, DrainUploadSucceeds(u) PROVE Ahead'
  BY <1>1, AheadKept DEF DrainUploadSucceeds, upload_success, FewerCommits
<1>2. ASSUME NEW u \in pool, DrainUploadFails(u) PROVE Ahead'
  BY <1>2, FatalAhead, AheadKept DEF DrainUploadFails, FewerCommits
<1>3. CASE FinalCommit
  <2>1. CommitsAhead' \/ Fatal
    BY <1>3, EmptySeq DEF FinalCommit, CommitsAhead
  <2> QED
    BY <1>3, <2>1, EndsAhead, FatalAhead DEF FinalCommit
<1> QED
  BY <1>1, <1>2, <1>3 DEF Drain

LEMMA AheadInit == Init => Ahead
BY EmptySeq DEF Init, StateMachineInit, Ahead, CommitsAhead, MemberAhead, QueueEmptied,
   WatermarksOwned

LEMMA AheadNext == RInv /\ [Next]_vars => Ahead'
<1> SUFFICES ASSUME RInv, [Next]_vars PROVE Ahead'
  OBVIOUS
<1>1. CASE UNCHANGED vars
  BY <1>1, AheadKept DEF vars, smvars, procvars, groupvars, FewerCommits
<1> QED
  BY <1>1, WorldAhead, EventLoopAhead, DrainAhead DEF Next

-----------------------------------------------------------------------------
(* The steps of the sink are steps of the delivery specification.           *)

\* A committed offset moves forward or not at all.
LEMMA CommittedGrows ==
    ASSUME RInv, [Next]_vars, NEW p \in Partitions
    PROVE  committed'[p] = committed[p] \/ committed'[p] > committed[p]
<1> USE DEF smvars, procvars, groupvars, worldvars
<1>1. ASSUME committed' = committed
      PROVE  committed'[p] = committed[p] \/ committed'[p] > committed[p]
  BY <1>1
<1>2. ASSUME NEW q \in Partitions, NEW n \in 1 .. LogSize, PeerProgress(q, n)
      PROVE  committed'[p] = committed[p] \/ committed'[p] > committed[p]
  <2>1. committed'[p] = IF p = q THEN n ELSE committed[p]
    BY <1>2 DEF PeerProgress, RInv, IInv, TypeOK, CommitList
  <2>2. /\ committed[p] \in MaybeOffset /\ ResetPosition(p) \in Nat
        /\ p = q => StartPosition(p) < n
    BY <1>2, StartType DEF PeerProgress, RInv, IInv, TypeOK, CommitList
  <2> QED
    BY <2>1, <2>2 DEF StartPosition, MaybeOffset, NoOffset
<1>3. CASE BrokerAppliesCommit
  <2>1. commits \in Seq(CommitList) /\ commits # << >>
    BY <1>3 DEF BrokerAppliesCommit, RInv, IInv, TypeOK
  <2>2. /\ 1 \in 1 .. Len(commits)
        /\ committed'[p] = IF commits[1][p] = NoOffset THEN committed[p] ELSE commits[1][p]
    BY <1>3, <2>1, CommitsTail DEF BrokerAppliesCommit
  <2>3. commits[1][p] # NoOffset => committed[p] < commits[1][p]
    BY <2>2 DEF RInv, Ahead, CommitsAhead
  <2> QED
    BY <2>2, <2>3
<1>4. CASE FinalCommit
  <2> DEFINE tpl == TopicPartitionList(assignment)
  <2>1. CASE Fatal
    BY <1>1, <2>1 DEF Fatal
  <2>2. CASE ~Fatal
    <3>1. /\ committed'[p] = IF tpl[p] = NoOffset THEN committed[p] ELSE tpl[p]
          /\ ~evicted \/ IsEmptyList(tpl)
          /\ status = "draining"
      BY <1>4, <2>2 DEF FinalCommit
    <3>2. CASE tpl[p] # NoOffset
      <4>1. /\ p \in assignment /\ offsets_watermark[p] # NoOffset
            /\ offsets_watermark[p] \in Int /\ tpl[p] \in Int
            /\ offsets_watermark[p] < tpl[p]
        BY <3>2, ListBeyond DEF RInv, IInv
      <4>2. ~evicted /\ ~BeingRevoked(p)
        BY <3>1, <3>2, EmptySeq DEF IsEmptyList, RInv, Ahead, QueueEmptied, BeingRevoked
      <4>3. committed[p] <= offsets_watermark[p] /\ committed[p] \in Int
        BY <4>1, <4>2 DEF RInv, Ahead, MemberAhead, Floor, NotBehind, IInv, TypeOK, CommitList,
           MaybeOffset, NoOffset
      <4> HIDE DEF tpl
      <4> QED
        BY <3>1, <3>2, <4>1, <4>3
    <3> QED
      BY <3>1, <3>2
  <2> QED
    BY <2>1, <2>2
<1>5. CASE UNCHANGED vars
  BY <1>1, <1>5 DEF vars
<1>6. CASE World
  <2>1. CASE \E q \in Partitions, n \in 1 .. LogSize : PeerProgress(q, n)
    BY <1>2, <2>1
  <2>2. CASE ~ \E q \in Partitions, n \in 1 .. LogSize : PeerProgress(q, n)
    <3>1. BrokerAppliesCommit \/ committed' = committed
      BY <1>6, <2>2 DEF World, Produce, TimePasses, Assign, Revoke, Evict, CommitLost,
         StoreObject, Crash, Restart, Fatal
    <3> QED
      BY <1>1, <1>3, <3>1
  <2> QED
    BY <2>1, <2>2
<1>7. CASE EventLoop
  <2>1. committed' = committed
    BY <1>7 DEF EventLoop, DrainRevocation, ProcessRecord, ProcessRecordFails, SkipGap,
       UploadTick, SealFails, CommitTick, UploadSucceeds, UploadFails, ShutdownSignal, Fatal
  <2> QED
    BY <1>1, <2>1
<1>8. CASE Drain
  <2>1. FinalCommit \/ committed' = committed
    BY <1>8 DEF Drain, DrainUploadSucceeds, DrainUploadFails, Fatal
  <2> QED
    BY <1>1, <1>4, <2>1
<1> QED
  BY <1>5, <1>6, <1>7, <1>8 DEF Next

\* Reading begins anew only where the group has nothing committed.
LEMMA ResetsGrow ==
    ASSUME [Next]_vars, TypeOK, NEW p \in Partitions
    PROVE  \/ resets'[p] = resets[p]
           \/ committed[p] = NoOffset /\ resets[p] \subseteq resets'[p]
BY ResetsOnlyBegin DEF Resets

\* Every step of the sink is a step of the promise.
LEMMA StepAdvances ==
    ASSUME RInv, RInv', [Next]_vars
    PROVE  Promise!Advance
<1>1. Promise!Store
  <2>1. durable \subseteq durable'
    BY HistoryOnlyGrows DEF RInv, IInv, HistoryGrows
  <2> QED
    BY <2>1 DEF Promise!Store, RInv, IInv, TypeOK, Promise!RecordIds, Promise!Offsets,
       RecordIds, Offsets
<1>2. ASSUME NEW p \in Partitions PROVE Promise!Commit(p)
  <2>1. Promise!Delivered(p)'
    BY DEF Promise!Delivered, Promise!Owed, RInv, IInv, Custody, CommittedSafe, Safe, SafeIn,
       Promise!IsData, Promise!Offsets, IsData, Offsets
  <2> QED
    BY <2>1, CommittedGrows DEF Promise!Commit
<1>3. ASSUME NEW p \in Partitions PROVE Promise!Begin(p)
  BY ResetsGrow DEF Promise!Begin, Promise!NoOffset, RInv, IInv, NoOffset
<1> QED
  BY <1>1, <1>2, <1>3 DEF Promise!Advance

\* "The service has an at-least-once delivery semantic." (README.md): whatever
\* the process, the group, S3 and the disk do, the sink stores records, moves
\* committed offsets forward only, and only past records that are stored.
THEOREM DeliveryImplemented == Spec => Delivers
<1>1. Init => RInv
  BY TypeInit, CustodyInit, AheadInit DEF RInv, IInv
<1>2. RInv /\ [Next]_vars => RInv'
  BY TypeNext, CustodyNext, AheadNext DEF RInv, IInv
<1>3. Init => Promise!DeliveryInit
  BY DEF Init, Promise!DeliveryInit, Promise!NoOffset, NoOffset
<1>4. RInv /\ RInv' /\ [Next]_vars => [Promise!Advance]_(Promise!dvars)
  BY StepAdvances
<1> QED
  BY <1>1, <1>2, <1>3, <1>4, PTL DEF Spec, Delivers, Promise!DeliverySpec

-----------------------------------------------------------------------------
(* The watermark is not ahead of what is committed, where every commit       *)
(* arrives: what lies below the floor of a partition is covered by the       *)
(* committed offset or by a commit under way (CommitsCover), and no reset    *)
(* lies beyond the floor (ResetsBehind).                                     *)

WInv == RInv /\ CommitsArrive /\ CommitsCover /\ ResetsBehind

LEMMA FloorType ==
    ASSUME TypeOK, NEW p \in Partitions
    PROVE  Floor(p) \in Int
BY DEF Floor, TypeOK, StateMachineTypeOK, CommitList, MaybeOffset, NoOffset

\* A reset is an offset of the log.
LEMMA ResetType ==
    ASSUME TypeOK, NEW p \in Partitions
    PROVE  resets[p] \subseteq Nat /\ committed[p] \in Int
BY DEF TypeOK, CommitList, MaybeOffset, NoOffset

\* What a step that commits nothing has to show: a floor may move over offsets
\* that hold no owed record.
FloorsStay ==
    /\ UNCHANGED <<commits, committed, resets>>
    /\ \A p \in Partitions : logEnd[p] <= logEnd'[p] /\ logEnd'[p] \in Nat
    /\ \A p \in assignment' :
          /\ p \in assignment /\ evicted' = evicted
          /\ Floor(p) <= Floor(p)' /\ Floor(p)' \in Int
          /\ \A o \in Offsets : Owed(p, o) /\ o < Floor(p)' => o < Floor(p)

LEMMA CoverKept ==
    ASSUME WInv, FloorsStay
    PROVE  CommitsCover' /\ ResetsBehind'
<1>0. TypeOK
  BY DEF WInv, RInv, IInv
<1>1. CommitsCover'
  <2> SUFFICES ASSUME ~evicted', NEW p \in assignment', NEW o \in Offsets,
                      Owed(p, o)', o < Floor(p)'
               PROVE  Covered(p, o)'
    BY DEF CommitsCover
  <2>1. Owed(p, o)
    BY DEF FloorsStay, Owed
  <2>2. Covered(p, o)
    BY <2>1 DEF FloorsStay, WInv, CommitsCover
  <2> QED
    BY <2>2 DEF FloorsStay, Covered
<1>2. ResetsBehind'
  <2> SUFFICES ASSUME NEW p \in Partitions, NEW r \in resets'[p]
               PROVE  /\ OffsetReset = "earliest" => r = 0
                      /\ r <= logEnd'[p]
                      /\ committed'[p] # NoOffset => r <= committed'[p]
                      /\ \A i \in 1 .. Len(commits') :
                            commits'[i][p] # NoOffset => r <= commits'[i][p]
                      /\ p \in assignment' => r <= Floor(p)'
    BY DEF ResetsBehind
  <2>1. r \in resets[p] /\ r \in Nat /\ Floor(p) \in Int
    BY <1>0, ResetType, FloorType DEF FloorsStay
  <2>2. r <= logEnd'[p]
    <3>1. logEnd[p] \in Nat /\ r <= logEnd[p]
      BY <1>0, <2>1, LogAssumption DEF TypeOK, WInv, ResetsBehind
    <3> QED
      BY <2>1, <3>1 DEF FloorsStay
  <2>3. p \in assignment' => r <= Floor(p)'
    BY <2>1 DEF FloorsStay, WInv, ResetsBehind
  <2> QED
    BY <2>1, <2>2, <2>3 DEF FloorsStay, WInv, ResetsBehind
<1> QED
  BY <1>1, <1>2

\* Steps that leave alone what a floor is made of.
LEMMA CoverFrame ==
    ASSUME WInv, UNCHANGED <<commits, committed, resets, logEnd, assignment, position,
                             offsets_watermark, rebalance, evicted>>
    PROVE  CommitsCover' /\ ResetsBehind'
<1>1. ASSUME NEW p \in assignment' PROVE p \in assignment /\ Floor(p)' = Floor(p) /\ Floor(p) \in Int
  BY FloorType DEF Floor, BeingRevoked, WInv, RInv, IInv, TypeOK
<1>2. \A p \in Partitions : logEnd[p] \in Nat
  BY LogAssumption DEF WInv, RInv, IInv, TypeOK
<1>3. FloorsStay
  BY <1>1, <1>2 DEF FloorsStay
<1> QED
  BY <1>3, CoverKept

\* A process that ends, and a member that gives all back, have no floor.
LEMMA CoverNone ==
    ASSUME WInv, assignment' = {}, UNCHANGED <<commits, committed, resets, logEnd>>
    PROVE  CommitsCover' /\ ResetsBehind'
<1>1. \A p \in Partitions : logEnd[p] \in Nat
  BY LogAssumption DEF WInv, RInv, IInv, TypeOK
<1>2. FloorsStay
  BY <1>1 DEF FloorsStay
<1> QED
  BY <1>2, CoverKept

LEMMA CoverFatal == WInv /\ Fatal => CommitsCover' /\ ResetsBehind'
BY CoverNone DEF Fatal, ProcessEnds, worldvars

\* A member begins at the committed offset, or at the reset that is entered with
\* it; an eager one had no partition before.
LEMMA AssignCovered ==
    ASSUME WInv, NEW A \in SUBSET Partitions, Assign(A)
    PROVE  CommitsCover' /\ ResetsBehind'
<1>0. TypeOK /\ assignment = {} /\ ResetsBehind
  BY DEF Assign, WInv, RInv, IInv, CommitsArrive
<1>1. UNCHANGED <<committed, offsets_watermark, rebalance, evicted, logEnd>> /\ commits' = << >>
  BY DEF Assign, smvars, procvars, worldvars
<1>2. ASSUME NEW p \in assignment'
      PROVE  p \in Partitions /\ p \in A /\ Floor(p)' = StartPosition(p)
  <2>1. p \in Partitions /\ p \in A
    BY <1>0, <1>2 DEF Assign
  <2>2. offsets_watermark[p] = NoOffset \/ BeingRevoked(p)
    BY <1>0, <2>1 DEF WInv, RInv, Ahead, WatermarksOwned
  <2>3. position'[p] = StartPosition(p)
    BY <2>1 DEF Assign
  <2> QED
    BY <1>1, <2>1, <2>2, <2>3 DEF Floor, BeingRevoked
<1>3. ASSUME NEW p \in Partitions
      PROVE  /\ resets'[p] = IF p \in A /\ committed[p] = NoOffset
                             THEN resets[p] \cup {ResetPosition(p)} ELSE resets[p]
             /\ ResetPosition(p) \in Nat /\ ResetPosition(p) <= logEnd[p]
             /\ OffsetReset = "earliest" => ResetPosition(p) = 0
             /\ logEnd[p] \in Nat /\ committed[p] \in Int /\ resets[p] \subseteq Nat
  BY <1>0, ResetType, LogAssumption, SinkAssumption
     DEF Assign, Resets, ResetPosition, TypeOK
<1>4. CommitsCover'
  <2> SUFFICES ASSUME NEW p \in assignment', NEW o \in Offsets, Owed(p, o)', o < Floor(p)'
               PROVE  o < committed[p]
    BY <1>1 DEF CommitsCover, Covered
  <2>1. p \in Partitions /\ p \in A /\ o < StartPosition(p) /\ o \in Nat
    BY <1>2 DEF Offsets
  <2>2. CASE committed[p] = NoOffset
    <3>1. ResetPosition(p) \in resets'[p] /\ StartPosition(p) = ResetPosition(p)
      BY <1>3, <2>1, <2>2 DEF StartPosition
    <3>2. ResetPosition(p) <= o
      BY <3>1 DEF Owed
    <3>3. o < ResetPosition(p) /\ ResetPosition(p) \in Nat
      BY <1>3, <2>1, <3>1
    <3> QED
      BY <2>1, <3>2, <3>3
  <2>3. CASE committed[p] # NoOffset
    BY <2>1, <2>3 DEF StartPosition
  <2> QED
    BY <2>2, <2>3
<1>5. ResetsBehind'
  <2> SUFFICES ASSUME NEW p \in Partitions, NEW r \in resets'[p]
               PROVE  /\ OffsetReset = "earliest" => r = 0
                      /\ r <= logEnd[p]
                      /\ committed[p] # NoOffset => r <= committed[p]
                      /\ p \in assignment' => r <= Floor(p)'
    BY <1>1, EmptySeq DEF ResetsBehind
  <2>1. r \in Nat /\ ResetPosition(p) \in Nat
    BY <1>3
  <2>2. CASE r \in resets[p]
    <3>1. /\ OffsetReset = "earliest" => r = 0
          /\ r <= logEnd[p]
          /\ committed[p] # NoOffset => r <= committed[p]
      BY <1>0, <2>2 DEF ResetsBehind
    <3>2. r <= StartPosition(p)
      BY <2>1, <3>1, SinkAssumption DEF StartPosition, ResetPosition
    <3> QED
      BY <1>2, <3>1, <3>2
  <2>3. CASE r \notin resets[p]
    <3>1. r = ResetPosition(p) /\ committed[p] = NoOffset
      BY <1>3, <2>3
    <3>2. p \in assignment' => r <= Floor(p)'
      BY <1>2, <2>1, <3>1 DEF StartPosition
    <3>3. (OffsetReset = "earliest" => r = 0) /\ r <= logEnd[p]
      BY <1>3, <3>1
    <3> QED
      BY <3>1, <3>2, <3>3
  <2> QED
    BY <2>2, <2>3
<1> QED
  BY <1>4, <1>5

\* The commit that is applied covers what it covered on its way.
LEMMA AppliedCovered ==
    ASSUME WInv, BrokerAppliesCommit
    PROVE  CommitsCover' /\ ResetsBehind'
<1> USE DEF smvars, procvars, worldvars
<1>0. /\ TypeOK /\ commits \in Seq(CommitList) /\ commits # << >> /\ commits' = Tail(commits)
      /\ CommitsAhead /\ CommitsCover /\ ResetsBehind
  BY DEF BrokerAppliesCommit, WInv, RInv, IInv, TypeOK, Ahead
<1>1. \A p \in Partitions :
         committed'[p] = IF commits[1][p] = NoOffset THEN committed[p] ELSE commits[1][p]
  BY <1>0, CommitsTail DEF BrokerAppliesCommit
<1>2. UNCHANGED <<assignment, evicted, resets, logEnd>> /\ \A p : Floor(p)' = Floor(p)
  BY DEF BrokerAppliesCommit, Floor, BeingRevoked
<1>3. CommitsCover'
  <2> SUFFICES ASSUME ~evicted, NEW p \in assignment, NEW o \in Offsets,
                      Owed(p, o), o < Floor(p)
               PROVE  Covered(p, o)'
    BY <1>2 DEF CommitsCover, Owed
  <2>1. p \in Partitions /\ o \in Nat
    BY <1>0 DEF TypeOK, Offsets
  <2>2. committed[p] \in Int /\ \A i \in 1 .. Len(commits) : commits[i] \in CommitList
    BY <1>0, <2>1, ResetType, ElementOfSeq
  <2>3. \A i \in 1 .. Len(commits) : commits[i][p] \in Int
    BY <2>1, <2>2 DEF CommitList, MaybeOffset, NoOffset
  <2>4. CASE o < committed[p]
    <3>1. 1 \in 1 .. Len(commits)
      BY <1>0, CommitsTail
    <3>2. commits[1][p] # NoOffset => committed[p] < commits[1][p]
      BY <1>0, <2>1, <3>1 DEF CommitsAhead
    <3>3. o < committed'[p]
      BY <1>1, <2>1, <2>2, <2>3, <2>4, <3>1, <3>2
    <3> QED
      BY <3>3 DEF Covered
  <2>5. CASE \E i \in 1 .. Len(commits) : o < commits[i][p]
    <3>1. PICK i \in 1 .. Len(commits) : o < commits[i][p]
      BY <2>5
    <3>2. CASE i = 1
      <4>1. o < committed'[p]
        BY <1>1, <2>1, <3>1, <3>2 DEF NoOffset
      <4> QED
        BY <4>1 DEF Covered
    <3>3. CASE i # 1
      <4>1. Len(commits) \in Nat /\ Len(Tail(commits)) = Len(commits) - 1
        BY <1>0, EmptySeq, LenProperties, HeadTailProperties
      <4>2. i - 1 \in 1 .. Len(commits') /\ (i - 1) + 1 = i
        BY <1>0, <3>3, <4>1
      <4>3. commits'[i - 1] = commits[i]
        BY <1>0, <4>2, CommitsTail
      <4> QED
        BY <3>1, <4>2, <4>3 DEF Covered
    <3> QED
      BY <3>2, <3>3
  <2> QED
    BY <1>2, <2>4, <2>5, <1>0 DEF CommitsCover, Covered
<1>4. ResetsBehind'
  <2> SUFFICES ASSUME NEW p \in Partitions, NEW r \in resets[p]
               PROVE  /\ OffsetReset = "earliest" => r = 0
                      /\ r <= logEnd[p]
                      /\ committed'[p] # NoOffset => r <= committed'[p]
                      /\ \A i \in 1 .. Len(commits') :
                            commits'[i][p] # NoOffset => r <= commits'[i][p]
                      /\ p \in assignment => r <= Floor(p)
    BY <1>2 DEF ResetsBehind
  <2>1. \A i \in 1 .. Len(commits) : commits[i][p] # NoOffset => r <= commits[i][p]
    BY <1>0 DEF ResetsBehind
  <2>2. committed'[p] # NoOffset => r <= committed'[p]
    BY <1>0, <1>1, <2>1, CommitsTail DEF ResetsBehind
  <2>3. \A i \in 1 .. Len(commits') : commits'[i][p] # NoOffset => r <= commits'[i][p]
    BY <1>0, <2>1, CommitsTail
  <2> QED
    BY <1>0, <2>2, <2>3 DEF ResetsBehind
<1> QED
  BY <1>3, <1>4

\* Reading moves the floor of a partition without a watermark over a gap, or
\* makes the position its watermark.
LEMMA ReadCovered ==
    ASSUME WInv, NEW p \in Partitions, CanRead(p), ReadPast(p),
           UNCHANGED <<rebalance, assignment, evicted, commits, committed, resets, logEnd>>,
           \/ Log[p][position[p]].kind = "gap" /\ UNCHANGED offsets_watermark
           \/ offsets_watermark' =
                 [offsets_watermark EXCEPT ![p] = IF @ = NoOffset THEN position[p] ELSE @]
    PROVE  CommitsCover' /\ ResetsBehind'
<1>0. TypeOK /\ StateMachineTypeOK
  BY DEF WInv, RInv, IInv, TypeOK
<1>1. \A q : ~BeingRevoked(q) /\ ~BeingRevoked(q)'
  BY EmptySeq DEF CanRead, Turn, BeingRevoked
<1>2. position[p] \in Nat /\ p \in assignment
  BY <1>0, ReadType DEF CanRead
<1>3. ASSUME NEW q \in assignment'
      PROVE  /\ q \in assignment /\ Floor(q)' \in Int /\ Floor(q) <= Floor(q)'
             /\ \A o \in Offsets : Owed(q, o) /\ o < Floor(q)' => o < Floor(q)
  <2>1. q \in Partitions /\ q \in assignment /\ Floor(q) \in Int
    BY <1>0, <1>3, FloorType DEF TypeOK
  <2>2. position[q] \in Int /\ offsets_watermark[q] \in Int
    BY <1>0, <2>1 DEF TypeOK, StateMachineTypeOK, CommitList, MaybeOffset, NoOffset
  <2>3. CASE q # p
    <3>1. position'[q] = position[q] /\ offsets_watermark'[q] = offsets_watermark[q]
      BY <1>0, <2>1, <2>3 DEF ReadPast, TypeOK, StateMachineTypeOK, CommitList
    <3> QED
      BY <1>1, <2>1, <3>1 DEF Floor
  <2>4. CASE q = p
    <3>1. position'[p] = position[p] + 1
      BY <1>0 DEF ReadPast, TypeOK, CommitList
    <3>2. CASE offsets_watermark[p] # NoOffset
      <4>1. offsets_watermark'[p] = offsets_watermark[p]
        BY <1>0, <3>2 DEF StateMachineTypeOK
      <4> QED
        BY <1>1, <2>1, <2>4, <3>2, <4>1 DEF Floor
    <3>3. CASE offsets_watermark[p] = NoOffset
      <4>1. Floor(p) = position[p]
        BY <3>3 DEF Floor
      <4>2. CASE Log[p][position[p]].kind = "gap" /\ UNCHANGED offsets_watermark
        <5>1. Floor(p)' = position[p] + 1
          BY <3>1, <3>3, <4>2 DEF Floor
        <5>2. ~Owed(p, position[p])
          BY <4>2 DEF Owed, IsData
        <5>3. \A o \in Offsets : Owed(p, o) /\ o < position[p] + 1 => o < position[p]
          BY <1>2, <5>2 DEF Offsets
        <5> QED
          BY <1>2, <2>1, <2>4, <4>1, <5>1, <5>3
      <4>3. CASE offsets_watermark' =
                   [offsets_watermark EXCEPT ![p] = IF @ = NoOffset THEN position[p] ELSE @]
        <5>1. offsets_watermark'[p] = position[p]
          BY <1>0, <3>3, <4>3 DEF StateMachineTypeOK
        <5>2. Floor(p)' = position[p]
          BY <1>1, <1>2, <5>1 DEF Floor, NoOffset
        <5> QED
          BY <1>2, <2>1, <2>4, <4>1, <5>2
      <4> QED
        BY <4>2, <4>3
    <3> QED
      BY <3>2, <3>3
  <2> QED
    BY <2>3, <2>4
<1>4. \A q \in Partitions : logEnd[q] \in Nat
  BY <1>0, LogAssumption DEF TypeOK
<1>5. FloorsStay
  BY <1>3, <1>4 DEF FloorsStay
<1> QED
  BY <1>5, CoverKept

\* A revocation that is handled moves no floor.
LEMMA RevocationCovered ==
    ASSUME WInv, DrainRevocation
    PROVE  CommitsCover' /\ ResetsBehind'
<1> USE DEF groupvars, worldvars
<1>0. TypeOK
  BY DEF WInv, RInv, IInv
<1>1. \A p \in Partitions :
         offsets_watermark'[p] =
            IF p \in Head(rebalance) THEN NoOffset ELSE offsets_watermark[p]
  BY DEF DrainRevocation, handle_revoke_partitions
<1>2. ASSUME NEW p \in assignment' PROVE p \in assignment /\ Floor(p)' = Floor(p) /\ Floor(p) \in Int
  <2>1. p \in Partitions /\ p \in assignment
    BY <1>0, <1>2 DEF TypeOK, DrainRevocation
  <2>2. BeingRevoked(p) <=> (BeingRevoked(p)' \/ p \in Head(rebalance))
    BY <1>0, RevocationTaken
  <2> QED
    BY <1>0, <1>1, <2>1, <2>2, FloorType DEF Floor, DrainRevocation
<1>3. \A q \in Partitions : logEnd[q] \in Nat
  BY <1>0, LogAssumption DEF TypeOK
<1>4. FloorsStay
  BY <1>2, <1>3 DEF FloorsStay, DrainRevocation
<1> QED
  BY <1>4, CoverKept

\* A list covers what it moves the watermark over; it lies beyond the floor.
LEMMA ListCovered ==
    ASSUME WInv, CommitTick
    PROVE  CommitsCover' /\ ResetsBehind'
<1> DEFINE tpl == TopicPartitionList(assignment)
<1> USE DEF procvars, worldvars
<1>0. /\ TypeOK /\ commits \in Seq(CommitList) /\ tpl \in CommitList
      /\ CommitsCover /\ ResetsBehind
  BY ListType DEF WInv, RInv, IInv, TypeOK
<1>1. \A p : ~BeingRevoked(p) /\ ~BeingRevoked(p)'
  BY EmptySeq DEF CommitTick, Turn, BeingRevoked
<1>2. \A p \in Partitions :
         offsets_watermark'[p] = IF tpl[p] = NoOffset THEN offsets_watermark[p] ELSE tpl[p]
  BY DEF CommitTick, make_topic_partition_list
<1>3. \/ commits' = commits /\ (IsEmptyList(tpl) \/ evicted)
      \/ commits' = Append(commits, tpl) /\ ~evicted
  BY DEF CommitTick
<1>4. UNCHANGED <<evicted, committed, assignment, position, rebalance, resets, logEnd>>
  BY DEF CommitTick
<1>5. commits' = Append(commits, tpl) =>
         /\ Len(commits) \in Nat /\ Len(commits') = Len(commits) + 1
         /\ commits'[Len(commits) + 1] = tpl
         /\ \A i \in 1 .. Len(commits) : commits'[i] = commits[i]
  BY <1>0, AppendProperties, LenProperties
<1>6. ASSUME NEW p \in Partitions, tpl[p] # NoOffset
      PROVE  p \in assignment /\ Floor(p) < tpl[p] /\ Floor(p) \in Int /\ tpl[p] \in Int
  BY <1>0, <1>1, <1>6, ListBeyond DEF Floor
<1> HIDE DEF tpl
<1>7. ASSUME NEW p \in assignment
      PROVE  /\ p \in Partitions
             /\ Floor(p)' = IF tpl[p] = NoOffset THEN Floor(p) ELSE tpl[p]
  <2>1. p \in Partitions
    BY <1>0 DEF TypeOK
  <2> QED
    BY <1>1, <1>2, <1>4, <2>1 DEF Floor
<1>8. CommitsCover'
  <2> SUFFICES ASSUME ~evicted, NEW p \in assignment, NEW o \in Offsets,
                      Owed(p, o), o < Floor(p)'
               PROVE  Covered(p, o)'
    BY <1>4 DEF CommitsCover, Owed
  <2>1. CASE tpl[p] = NoOffset
    <3>1. Covered(p, o)
      BY <1>0, <1>7, <2>1 DEF CommitsCover
    <3>2. CASE o < committed[p]
      BY <1>4, <3>2 DEF Covered
    <3>3. CASE \E i \in 1 .. Len(commits) : o < commits[i][p]
      <4>1. PICK i \in 1 .. Len(commits) : o < commits[i][p]
        BY <3>3
      <4>2. i \in 1 .. Len(commits') /\ commits'[i] = commits[i]
        BY <1>3, <1>5
      <4> QED
        BY <4>1, <4>2 DEF Covered
    <3> QED
      BY <3>1, <3>2, <3>3 DEF Covered
  <2>2. CASE tpl[p] # NoOffset
    <3>1. commits' = Append(commits, tpl)
      BY <1>3, <1>7, <2>2 DEF IsEmptyList
    <3>2. Len(commits) + 1 \in 1 .. Len(commits') /\ o < commits'[Len(commits) + 1][p]
      BY <1>5, <1>7, <2>2, <3>1
    <3> QED
      BY <3>2 DEF Covered
  <2> QED
    BY <2>1, <2>2
<1>9. ResetsBehind'
  <2> SUFFICES ASSUME NEW p \in Partitions, NEW r \in resets[p]
               PROVE  /\ OffsetReset = "earliest" => r = 0
                      /\ r <= logEnd[p]
                      /\ committed[p] # NoOffset => r <= committed[p]
                      /\ \A i \in 1 .. Len(commits') :
                            commits'[i][p] # NoOffset => r <= commits'[i][p]
                      /\ p \in assignment => r <= Floor(p)'
    BY <1>4 DEF ResetsBehind
  <2>1. r \in Nat /\ Floor(p) \in Int
    BY <1>0, ResetType, FloorType
  <2>2. /\ p \in assignment => r <= Floor(p)
        /\ \A i \in 1 .. Len(commits) : commits[i][p] # NoOffset => r <= commits[i][p]
    BY <1>0 DEF ResetsBehind
  <2>3. tpl[p] # NoOffset => r <= tpl[p]
    BY <1>6, <2>1, <2>2
  <2>4. p \in assignment => r <= Floor(p)'
    BY <1>7, <2>2, <2>3
  <2>5. \A i \in 1 .. Len(commits') : commits'[i][p] # NoOffset => r <= commits'[i][p]
    <3>1. CASE commits' = commits
      BY <2>2, <3>1
    <3>2. CASE commits' = Append(commits, tpl)
      <4>1. ASSUME NEW i \in 1 .. Len(commits'), i # Len(commits) + 1
            PROVE  i \in 1 .. Len(commits) /\ commits'[i] = commits[i]
        BY <1>5, <3>2, <4>1
      <4> QED
        BY <1>5, <2>2, <2>3, <3>2, <4>1
    <3> QED
      BY <1>3, <3>1, <3>2
  <2> QED
    BY <1>0, <2>4, <2>5 DEF ResetsBehind
<1> QED
  BY <1>8, <1>9

\* The last commit, too, lies beyond the floor.
LEMMA FinalCovered ==
    ASSUME WInv, FinalCommit
    PROVE  CommitsCover' /\ ResetsBehind'
<1> DEFINE tpl == TopicPartitionList(assignment)
<1> USE DEF worldvars
<1>0. TypeOK /\ ResetsBehind
  BY DEF WInv, RInv, IInv
<1>1. CASE Fatal
  BY <1>1, CoverFatal
<1>2. CASE ~Fatal
  <2>1. /\ committed' = [p \in Partitions |-> IF tpl[p] = NoOffset THEN committed[p] ELSE tpl[p]]
        /\ assignment' = {}
        /\ commits = << >> /\ commits' = << >>
        /\ UNCHANGED <<resets, logEnd>>
        /\ status = "draining"
    BY <1>2 DEF FinalCommit, ProcessEnds
  <2>2. \A p : ~BeingRevoked(p)
    BY <2>1, EmptySeq DEF WInv, RInv, Ahead, QueueEmptied, BeingRevoked
  <2>3. ASSUME NEW p \in Partitions, tpl[p] # NoOffset
        PROVE  p \in assignment /\ Floor(p) < tpl[p] /\ Floor(p) \in Int /\ tpl[p] \in Int
    BY <1>0, <2>2, <2>3, ListBeyond DEF Floor
  <2> HIDE DEF tpl
  <2>4. ASSUME NEW p \in Partitions, NEW r \in resets[p], tpl[p] # NoOffset
        PROVE  r <= tpl[p]
    <3>1. r \in Nat /\ r <= Floor(p)
      BY <1>0, <2>3, <2>4, ResetType DEF ResetsBehind
    <3> QED
      BY <2>3, <2>4, <3>1
  <2>5. ResetsBehind'
    BY <1>0, <2>1, <2>4, EmptySeq DEF ResetsBehind
  <2>6. CommitsCover'
    BY <2>1 DEF CommitsCover
  <2> QED
    BY <2>5, <2>6
<1> QED
  BY <1>1, <1>2

LEMMA WorldCovered ==
    ASSUME WInv, World
    PROVE  CommitsCover' /\ ResetsBehind'
<1> USE DEF smvars, procvars, groupvars, worldvars
<1>0. CommitsArrive /\ TypeOK
  BY DEF WInv, RInv, IInv
<1>1. ASSUME NEW p \in Partitions, Produce(p) PROVE CommitsCover' /\ ResetsBehind'
  <2>1. \A q \in Partitions : logEnd[q] <= logEnd'[q] /\ logEnd'[q] \in Nat
    BY <1>0, <1>1, LogAssumption DEF Produce, TypeOK
  <2>2. \A q \in assignment' : q \in assignment /\ Floor(q)' = Floor(q) /\ Floor(q) \in Int
    BY <1>0, <1>1, FloorType DEF Produce, Floor, BeingRevoked, TypeOK
  <2>3. FloorsStay
    BY <1>1, <2>1, <2>2 DEF FloorsStay, Produce
  <2> QED
    BY <2>3, CoverKept
<1>2. CASE TimePasses
  BY <1>2, CoverFrame DEF TimePasses, StreamsAge
<1>3. ASSUME NEW A \in SUBSET Partitions, Assign(A) PROVE CommitsCover' /\ ResetsBehind'
  BY <1>3, AssignCovered
<1>4. ASSUME NEW R \in SUBSET Partitions, Revoke(R) PROVE CommitsCover' /\ ResetsBehind'
  <2>1. assignment' = {}
    BY <1>0, <1>4 DEF Revoke, CommitsArrive
  <2> QED
    BY <1>4, <2>1, CoverNone DEF Revoke
<1>5. CASE Evict
  <2>1. evicted' /\ commits' = << >> /\ UNCHANGED <<committed, resets, logEnd, assignment>>
        /\ \A q : Floor(q)' = Floor(q)
    BY <1>5 DEF Evict, Floor, BeingRevoked
  <2>2. ResetsBehind'
    BY <2>1, EmptySeq DEF WInv, ResetsBehind
  <2> QED
    BY <2>1, <2>2 DEF CommitsCover
<1>6. ASSUME NEW p \in Partitions, NEW n \in 1 .. LogSize, PeerProgress(p, n) PROVE FALSE
  BY <1>0, <1>6 DEF PeerProgress, CommitsArrive
<1>7. CASE BrokerAppliesCommit
  BY <1>7, AppliedCovered
<1>8. ~CommitLost
  BY <1>0 DEF CommitLost, CommitsArrive
<1>9. ASSUME NEW u \in pool, StoreObject(u) PROVE CommitsCover' /\ ResetsBehind'
  BY <1>9, CoverFrame DEF StoreObject
<1>10. CASE Crash
  BY <1>10, CoverFatal DEF Crash
<1>11. CASE Restart
  BY <1>11, CoverFrame DEF Restart
<1> QED
  BY <1>1, <1>2, <1>3, <1>4, <1>5, <1>6, <1>7, <1>8, <1>9, <1>10, <1>11 DEF World

LEMMA EventLoopCovered ==
    ASSUME WInv, EventLoop
    PROVE  CommitsCover' /\ ResetsBehind'
<1> USE DEF smvars, procvars, groupvars, worldvars
<1>1. CASE DrainRevocation
  BY <1>1, RevocationCovered
<1>2. ASSUME NEW p \in Partitions, ProcessRecord(p) PROVE CommitsCover' /\ ResetsBehind'
  BY <1>2, ReadCovered DEF ProcessRecord, handle_process_record
<1>3. ASSUME NEW p \in Partitions, ProcessRecordFails(p) PROVE CommitsCover' /\ ResetsBehind'
  BY <1>3, CoverFatal DEF ProcessRecordFails
<1>4. ASSUME NEW p \in Partitions, SkipGap(p) PROVE CommitsCover' /\ ResetsBehind'
  BY <1>4, ReadCovered DEF SkipGap
<1>5. CASE UploadTick
  BY <1>5, CoverFatal, CoverFrame DEF UploadTick, handle_upload_tick, close_and_upload
<1>6. CASE SealFails
  BY <1>6, CoverFatal DEF SealFails
<1>7. CASE CommitTick
  BY <1>7, ListCovered
<1>8. ASSUME NEW u \in pool, UploadSucceeds(u) PROVE CommitsCover' /\ ResetsBehind'
  BY <1>8, CoverFrame DEF UploadSucceeds, upload_success
<1>9. ASSUME NEW u \in pool, UploadFails(u) PROVE CommitsCover' /\ ResetsBehind'
  BY <1>9, CoverFatal, CoverFrame DEF UploadFails
<1>10. CASE ShutdownSignal
  BY <1>10, CoverFatal, CoverFrame DEF ShutdownSignal, handle_shutdown_signal, close_and_upload
<1> QED
  BY <1>1, <1>2, <1>3, <1>4, <1>5, <1>6, <1>7, <1>8, <1>9, <1>10 DEF EventLoop

LEMMA DrainCovered ==
    ASSUME WInv, Drain
    PROVE  CommitsCover' /\ ResetsBehind'
<1> USE DEF smvars, procvars, groupvars, worldvars
<1>1. ASSUME NEW u \in pool, DrainUploadSucceeds(u) PROVE CommitsCover' /\ ResetsBehind'
  BY <1>1, CoverFrame DEF DrainUploadSucceeds, upload_success
<1>2. ASSUME NEW u \in pool, DrainUploadFails(u) PROVE CommitsCover' /\ ResetsBehind'
  BY <1>2, CoverFatal, CoverFrame DEF DrainUploadFails
<1> QED
  BY <1>1, <1>2, FinalCovered DEF Drain

LEMMA CoveredInductive == CommitsArrive /\ Spec => []WInv
<1>1. CommitsArrive /\ Init => WInv
  <2>1. Init => CommitsCover /\ ResetsBehind
    BY DEF Init, CommitsCover, ResetsBehind
  <2> QED
    BY <2>1, TypeInit, CustodyInit, AheadInit DEF WInv, RInv, IInv
<1>2. WInv /\ [Next]_vars => WInv'
  <2> SUFFICES ASSUME WInv, [Next]_vars PROVE WInv'
    OBVIOUS
  <2>1. CommitsArrive' /\ RInv'
    BY TypeNext, CustodyNext, AheadNext DEF WInv, RInv, IInv, CommitsArrive
  <2>2. CASE UNCHANGED vars
    BY <2>1, <2>2, CoverFrame DEF WInv, vars, smvars, procvars, groupvars, worldvars
  <2> QED
    BY <2>1, <2>2, WorldCovered, EventLoopCovered, DrainCovered DEF Next, WInv
<1> QED
  BY <1>1, <1>2, PTL DEF Spec

\* "offset at which we can safely say that all lower offsets have been
\* committed" (the comment at offsets_watermark): so it is whenever no commit is
\* under way, where every commit sent arrives in the end.  The watermark moves
\* when the list is built, so a commit that is lost, or refused because the
\* group went on without this member, leaves it ahead.
THEOREM WatermarkCommittedHolds == CommitsArrive /\ Spec => []WatermarkCommitted
<1>1. ASSUME WInv PROVE WatermarkCommitted
  <2> SUFFICES ASSUME commits = << >>, rebalance = << >>, ~evicted, NEW p \in assignment,
                      NEW o \in Offsets, Owed(p, o), o < offsets_watermark[p]
               PROVE  o < committed[p]
    BY DEF WatermarkCommitted
  <2>1. Floor(p) = offsets_watermark[p]
    BY EmptySeq DEF Floor, BeingRevoked, NoOffset, Offsets
  <2>2. Covered(p, o)
    BY <1>1, <2>1 DEF WInv, CommitsCover
  <2> QED
    BY <2>2, EmptySeq DEF Covered
<1> QED
  BY <1>1, CoveredInductive, PTL

-----------------------------------------------------------------------------
(* A clean shutdown.  From the signal on the drain keeps account of what     *)
(* was read (DrainAccount) and of the offsets from the watermark on          *)
(* (ReadTracked), unless it drops an upload; then the counter stays above    *)
(* the number of uploads for good.                                           *)

SInv ==
    /\ WInv /\ HInv /\ PInv
    /\ "evict" \notin Faults /\ ~evicted
    /\ ReadTracked
    /\ DrainAccount

\* In a set of uploads with paths of their own one may take another one's place.
LEMMA ReplacedUpload ==
    ASSUME NEW P, IsFiniteSet(P), \A u, v \in P : u.path = v.path => u = v,
           NEW old \in P, NEW new, new.path = old.path
    PROVE  /\ Cardinality((P \ {old}) \cup {new}) = Cardinality(P)
           /\ \A u, v \in (P \ {old}) \cup {new} : u.path = v.path => u = v
<1>1. new \notin P \ {old}
  OBVIOUS
<1>2. IsFiniteSet(P \ {old}) /\ Cardinality(P \ {old}) = Cardinality(P) - 1
      /\ Cardinality(P) \in Nat
  BY FS_RemoveElement, FS_CardinalityType
<1>3. Cardinality((P \ {old}) \cup {new}) = Cardinality(P \ {old}) + 1
  BY <1>1, <1>2, FS_AddElement
<1> QED
  BY <1>2, <1>3

\* A step that moves no watermark and no position and lets go of no offset.
LEMMA TrackedKept ==
    ASSUME SInv, KeepsAll' => KeepsAll,
           \A r \in RecordIds : Tracked(r) => Tracked(r)',
           \A p \in assignment' :
              /\ p \in assignment
              /\ position'[p] = position[p]
              /\ offsets_watermark'[p] = offsets_watermark[p]
              /\ BeingRevoked(p) => BeingRevoked(p)'
    PROVE  ReadTracked'
<1> SUFFICES ASSUME KeepsAll', NEW p \in assignment', NEW o \in Offsets,
                    ~BeingRevoked(p)', offsets_watermark'[p] # NoOffset,
                    offsets_watermark'[p] <= o, o < position'[p], Log[p][o].kind # "gap"
             PROVE  Tracked(<<p, o>>)'
  BY DEF ReadTracked
<1>1. p \in Partitions /\ <<p, o>> \in RecordIds
  BY DEF SInv, PInv, TypeOK, RecordIds
<1>2. Tracked(<<p, o>>)
  BY DEF SInv, ReadTracked
<1> QED
  BY <1>1, <1>2

\* Sealed streams take their offsets along.
LEMMA SealedTracked ==
    ASSUME NEW S \in SUBSET Streams, close_and_upload(S),
           pool' = pool \cup UploadsOf(S), NEW r, Tracked(r)
    PROVE  Tracked(r)'
<1>1. ASSUME NEW s \in S, r \in streams[s].offsets PROVE Tracked(r)'
  <2>1. /\ ToUpload(streams[s], files[s]) \in pool'
        /\ ToUpload(streams[s], files[s]).offsets = streams[s].offsets
    BY DEF UploadsOf, ToUpload
  <2> QED
    BY <1>1, <2>1 DEF Tracked
<1>2. ASSUME NEW s \in Streams \ S PROVE streams'[s] = streams[s]
  BY DEF close_and_upload
<1>3. offsets_uploaded' = offsets_uploaded
  BY DEF close_and_upload
<1> QED
  BY <1>1, <1>2, <1>3 DEF Tracked

\* A completed upload leaves its offsets with the state machine.
LEMMA SuccessTracked ==
    ASSUME TypeOK, NEW u \in pool, upload_success(u), pool' = pool \ {u},
           NEW r \in RecordIds, Tracked(r)
    PROVE  Tracked(r)'
<1>1. r[1] \in Partitions /\ r[2] \in Offsets /\ r = <<r[1], r[2]>>
  BY DEF RecordIds
<1>2. offsets_uploaded'[r[1]] = offsets_uploaded[r[1]] \cup UploadedOffsets(u, r[1])
  BY <1>1 DEF upload_success
<1>3. r \in u.offsets => r[2] \in UploadedOffsets(u, r[1])
  BY <1>1 DEF UploadedOffsets
<1>4. streams' = streams
  BY DEF upload_success
<1> QED
  BY <1>2, <1>3, <1>4 DEF Tracked

\* While nothing of it is touched the account of the drain stays right.
LEMMA DrainFrame ==
    ASSUME SInv, UNCHANGED <<status, pool, in_flight_uploads, streams, files, durable,
                             assignment, position, resets>>
    PROVE  DrainAccount'
BY DEF SInv, DrainAccount, OpenStreams, NoneDropped, Owed, Held

LEMMA NotDraining == status' # "draining" => DrainAccount'
BY DEF DrainAccount

\* A process that ends answers for nothing any more.
LEMMA EndsAccount ==
    ASSUME NEW how \in {"stopped", "failed"}, ProcessEnds(how)
    PROVE  ReadTracked' /\ DrainAccount'
BY DEF ProcessEnds, ReadTracked, DrainAccount

LEMMA FatalAccount == Fatal => ReadTracked' /\ DrainAccount'
BY EndsAccount DEF Fatal

\* The object of an upload is stored: the upload stays, and so does its path.
LEMMA StoreAccount ==
    ASSUME SInv, NEW u \in pool, StoreObject(u)
    PROVE  ReadTracked' /\ DrainAccount'
<1> USE DEF smvars, groupvars
<1> DEFINE v == [u EXCEPT !.stored = TRUE]
<1>0. TypeOK /\ IsFiniteSet(pool)
  BY DEF SInv, PInv, TypeOK
<1>1. v.path = u.path /\ v.offsets = u.offsets /\ v.data = u.data
  BY <1>0 DEF TypeOK, Upload
<1>2. /\ pool' = (pool \ {u}) \cup {v} /\ durable' = durable \cup u.data
      /\ UNCHANGED <<streams, files, offsets_uploaded, offsets_watermark, in_flight_uploads,
                     status, rebalance, assignment, position, resets>>
  BY DEF StoreObject
<1> HIDE DEF v
<1>3. status \in {"running", "draining"} =>
         /\ Cardinality(pool') = Cardinality(pool)
         /\ \A a, b \in pool' : a.path = b.path => a = b
  <2>1. status \in {"running", "draining"} => \A a, b \in pool : a.path = b.path => a = b
    BY DEF SInv, PInv, PoolInv, PoolAccount, PathsDistinct, Running, DrainAccount
  <2> QED
    BY <1>0, <1>1, <1>2, <2>1, ReplacedUpload
<1>4. \A r \in RecordIds : Tracked(r) => Tracked(r)'
  BY <1>1, <1>2 DEF Tracked
<1>5. \A r \in RecordIds : Held(r) => Held(r)'
  BY <1>1, <1>2 DEF Held
<1>6. KeepsAll' => KeepsAll
  BY <1>2, <1>3 DEF KeepsAll, NoneDropped, Running
<1>7. ReadTracked'
  BY <1>2, <1>4, <1>6, TrackedKept DEF BeingRevoked
<1>8. DrainAccount'
  <2> SUFFICES ASSUME status = "draining"
               PROVE  /\ OpenStreams' = {}
                      /\ Cardinality(pool) <= in_flight_uploads
                      /\ NoneDropped =>
                            \A p \in assignment, o \in Offsets :
                                Owed(p, o) /\ o < position[p] => Held(<<p, o>>)'
    BY <1>2, <1>3 DEF DrainAccount, NoneDropped, Owed
  <2>1. DrainAccount
    BY DEF SInv
  <2>2. \A p \in assignment, o \in Offsets : <<p, o>> \in RecordIds
    BY <1>0 DEF TypeOK, RecordIds
  <2> QED
    BY <1>2, <1>5, <2>1, <2>2 DEF DrainAccount, OpenStreams
<1> QED
  BY <1>7, <1>8

LEMMA WorldAccount ==
    ASSUME SInv, World
    PROVE  ReadTracked' /\ DrainAccount'
<1> USE DEF smvars, procvars, groupvars, worldvars
<1>0. TypeOK /\ CommitsArrive /\ "evict" \notin Faults
  BY DEF SInv, WInv, PInv
<1>1. ASSUME UNCHANGED <<status, pool, in_flight_uploads, streams, files, offsets_uploaded,
                         offsets_watermark, rebalance, durable, assignment, position, resets>>
      PROVE  ReadTracked' /\ DrainAccount'
  <2>1. \A r \in RecordIds : Tracked(r) => Tracked(r)'
    BY <1>1 DEF Tracked
  <2>2. ReadTracked'
    BY <1>1, <2>1, TrackedKept DEF KeepsAll, NoneDropped, Running, BeingRevoked
  <2> QED
    BY <1>1, <2>2, DrainFrame
<1>2. ASSUME NEW p \in Partitions, Produce(p) PROVE ReadTracked' /\ DrainAccount'
  BY <1>1, <1>2 DEF Produce
<1>3. CASE TimePasses
  <2>1. /\ status = "running" /\ status' = "running"
        /\ UNCHANGED <<pool, offsets_uploaded, offsets_watermark, rebalance, assignment, position>>
    BY <1>3 DEF TimePasses, StreamsAge
  <2>2. ASSUME NEW s \in Streams PROVE streams'[s].offsets = streams[s].offsets
    BY <1>0, <1>3 DEF TimePasses, StreamsAge, TypeOK, StateMachineTypeOK, StreamState
  <2>3. \A r \in RecordIds : Tracked(r) => Tracked(r)'
    BY <2>1, <2>2 DEF Tracked
  <2>4. ReadTracked'
    BY <2>1, <2>3, TrackedKept DEF KeepsAll, Running, BeingRevoked
  <2> QED
    BY <2>1, <2>4, NotDraining
<1>4. ASSUME NEW A \in SUBSET Partitions, Assign(A) PROVE ReadTracked' /\ DrainAccount'
  <2>1. status' # "draining" /\ assignment' = A
    BY <1>0, <1>4 DEF Assign, CommitsArrive
  <2>2. \A p \in A : offsets_watermark'[p] = NoOffset \/ BeingRevoked(p)'
    <3>1. \A p \in A : p \in Partitions /\ p \notin assignment
      BY <1>4 DEF Assign
    <3>2. \A p \in A : offsets_watermark[p] = NoOffset \/ BeingRevoked(p)
      BY <3>1 DEF SInv, WInv, RInv, Ahead, WatermarksOwned
    <3> QED
      BY <1>4, <3>2 DEF Assign, BeingRevoked
  <2>3. ReadTracked'
    BY <2>1, <2>2 DEF ReadTracked
  <2> QED
    BY <2>1, <2>3, NotDraining
<1>5. ASSUME NEW R \in SUBSET Partitions, Revoke(R) PROVE ReadTracked' /\ DrainAccount'
  <2>1. status' # "draining" /\ assignment' = {}
    BY <1>0, <1>5 DEF Revoke, CommitsArrive
  <2> QED
    BY <2>1, NotDraining DEF ReadTracked
<1>6. ~Evict
  BY <1>0 DEF Evict
<1>7. ASSUME NEW p \in Partitions, NEW n \in 1 .. LogSize, PeerProgress(p, n) PROVE FALSE
  BY <1>0, <1>7 DEF PeerProgress, CommitsArrive
<1>8. CASE BrokerAppliesCommit
  BY <1>1, <1>8 DEF BrokerAppliesCommit
<1>9. ~CommitLost
  BY <1>0 DEF CommitLost, CommitsArrive
<1>10. ASSUME NEW u \in pool, StoreObject(u) PROVE ReadTracked' /\ DrainAccount'
  BY <1>10, StoreAccount
<1>11. CASE Crash
  BY <1>11, FatalAccount DEF Crash
<1>12. CASE Restart
  <2>1. assignment' = {} /\ status' # "draining"
    BY <1>12 DEF Restart, SInv, HInv, EndedOwnsNothing
  <2> QED
    BY <2>1, NotDraining DEF ReadTracked
<1> QED
  BY <1>2, <1>3, <1>4, <1>5, <1>6, <1>7, <1>8, <1>9, <1>10, <1>11, <1>12 DEF World

\* Sealing for an upload tick, and for the shutdown signal: then all streams
\* are sealed, and as many uploads counted.
LEMMA CloseAccount ==
    ASSUME SInv, Turn, NEW S \in SUBSET Streams, ~CloseFails(S), close_and_upload(S),
           pool' = pool \cup UploadsOf(S), UNCHANGED <<rebalance, groupvars, worldvars>>,
           status' # "draining" \/ S = OpenStreams,
           status' \in {"running", "draining"}
    PROVE  ReadTracked' /\ DrainAccount'
<1> USE DEF groupvars, worldvars
<1>0. Running /\ rebalance = << >> /\ TypeOK /\ PoolAccount /\ PInv
  BY DEF Turn, Running, SInv, PInv, PoolInv
<1>1. ReadTracked'
  <2>1. \A r \in RecordIds : Tracked(r) => Tracked(r)'
    BY SealedTracked
  <2>2. offsets_watermark' = offsets_watermark
    BY DEF close_and_upload
  <2> QED
    BY <1>0, <2>1, <2>2, TrackedKept DEF KeepsAll, BeingRevoked
<1>2. CASE status' = "draining" /\ S = OpenStreams
  <2>1. Cardinality(pool') = in_flight_uploads'
    BY <1>0, SealedCount DEF close_and_upload
  <2>2. \A u, v \in pool' : u.path = v.path => u = v
    <3>1. \A u \in pool' : \/ u \in pool
                           \/ \E s \in S : u = ToUpload(streams[s], files[s]) /\ u.path = files[s].path
      BY DEF UploadsOf, ToUpload
    <3>2. S \subseteq OpenFiles
      BY <1>0, SealedCount
    <3> QED
      BY <1>0, <3>1, <3>2 DEF PoolAccount, PathsDistinct
  <2>3. OpenStreams' = {}
    BY <1>2 DEF close_and_upload, OpenStreams, NoStream
  <2>4. ASSUME NEW p \in assignment', NEW o \in Offsets, Owed(p, o)', o < position'[p]
        PROVE  Held(<<p, o>>)'
    <3>1. ~BeingRevoked(p) /\ Owed(p, o) /\ p \in assignment /\ o < position[p]
      BY <1>0, <2>4, EmptySeq DEF BeingRevoked, Owed
    <3>2. Held(<<p, o>>)
      BY <1>0, <3>1 DEF SInv, HInv, ReadHeld
    <3> QED
      BY <3>2, SealedHeld
  <2>5. Cardinality(pool') <= in_flight_uploads'
    <3>1. in_flight_uploads' \in Int
      BY <1>0, SealedCount DEF close_and_upload, TypeOK, StateMachineTypeOK
    <3> QED
      BY <2>1, <3>1
  <2> QED
    BY <1>1, <2>2, <2>3, <2>4, <2>5 DEF DrainAccount
<1> QED
  BY <1>1, <1>2, NotDraining

\* A record that is read is one more offset of its stream, or of the upload the
\* stream is sealed into.
LEMMA ProcessRecordTracked ==
    ASSUME SInv, NEW p \in Partitions, ProcessRecord(p)
    PROVE  ReadTracked'
<1> DEFINE n == position[p]
           s == StreamOf(p, n)
           stream == StreamAfter(p, n)
           upload == ToUpload(stream, FileAfter(p, n, FreshPath))
<1>0. TypeOK /\ StateMachineTypeOK
  BY DEF SInv, PInv, TypeOK
<1>1. n \in Offsets /\ n \in Nat /\ s \in Streams /\ Running /\ rebalance = << >>
  <2>1. CanRead(p)
    BY DEF ProcessRecord
  <2>2. n \in Offsets /\ n \in Nat
    BY <1>0, <2>1, ReadType
  <2> QED
    BY <2>1, <2>2, ConstantTypes DEF CanRead, Turn, StreamOf, Running
<1>2. /\ streams' = [streams EXCEPT ![s] = IF Seals(p, n) THEN NoStream ELSE stream]
      /\ pool' = IF Seals(p, n) THEN pool \cup {upload} ELSE pool
      /\ offsets_uploaded' = offsets_uploaded
      /\ offsets_watermark' =
            [offsets_watermark EXCEPT ![p] = IF @ = NoOffset THEN n ELSE @]
      /\ position' = [position EXCEPT ![p] = n + 1]
      /\ UNCHANGED <<status, rebalance, assignment>>
  BY DEF ProcessRecord, handle_process_record, ReadPast
<1>3. stream.offsets = streams[s].offsets \cup {<<p, n>>} /\ upload.offsets = stream.offsets
  BY DEF StreamAfter, ToUpload
<1> HIDE DEF s, stream, upload
<1>4. \A t \in Streams : t # s => streams'[t] = streams[t]
  BY <1>0, <1>2 DEF StateMachineTypeOK
<1>5. \A r \in streams[s].offsets \cup {<<p, n>>} : Tracked(r)'
  <2>1. CASE Seals(p, n)
    <3>1. upload \in pool'
      BY <1>2, <2>1
    <3> QED
      BY <1>3, <3>1 DEF Tracked
  <2>2. CASE ~Seals(p, n)
    <3>1. streams'[s] = stream
      BY <1>0, <1>1, <1>2, <2>2 DEF StateMachineTypeOK
    <3> QED
      BY <1>1, <1>3, <3>1 DEF Tracked
  <2> QED
    BY <2>1, <2>2
<1>6. ASSUME NEW r, Tracked(r) PROVE Tracked(r)'
  <2>1. CASE r[2] \in offsets_uploaded[r[1]] \/ \E u \in pool : r \in u.offsets
    BY <1>2, <2>1 DEF Tracked
  <2>2. ASSUME NEW t \in Streams, r \in streams[t].offsets PROVE Tracked(r)'
    <3>1. CASE t = s
      BY <1>5, <2>2, <3>1
    <3>2. CASE t # s
      BY <1>4, <2>2, <3>2 DEF Tracked
    <3> QED
      BY <3>1, <3>2
  <2> QED
    BY <1>6, <2>1, <2>2 DEF Tracked
<1> SUFFICES ASSUME NEW q \in assignment', NEW o \in Offsets,
                    offsets_watermark'[q] # NoOffset,
                    offsets_watermark'[q] <= o, o < position'[q], Log[q][o].kind # "gap"
             PROVE  Tracked(<<q, o>>)'
  BY DEF ReadTracked
<1>7. q \in Partitions /\ q \in assignment /\ o \in Nat /\ ~BeingRevoked(q)
  BY <1>0, <1>1, <1>2, EmptySeq DEF TypeOK, BeingRevoked, Offsets
<1>8. CASE q # p \/ (q = p /\ o # n)
  <2>1. /\ offsets_watermark[q] # NoOffset
        /\ offsets_watermark[q] <= o /\ o < position[q]
    <3>1. CASE q # p
      BY <1>0, <1>2, <1>7, <3>1 DEF TypeOK, StateMachineTypeOK, CommitList
    <3>2. CASE q = p /\ o # n
      <4>1. position'[p] = n + 1
        BY <1>0, <1>2 DEF TypeOK, CommitList
      <4>2. offsets_watermark'[p] =
               IF offsets_watermark[p] = NoOffset THEN n ELSE offsets_watermark[p]
        BY <1>0, <1>2 DEF StateMachineTypeOK
      <4>3. o < n
        BY <1>1, <1>7, <3>2, <4>1
      <4> QED
        BY <1>1, <1>7, <3>2, <4>2, <4>3
    <3> QED
      BY <1>8, <3>1, <3>2
  <2>2. Tracked(<<q, o>>)
    BY <1>1, <1>7, <2>1 DEF SInv, ReadTracked, KeepsAll
  <2> QED
    BY <1>6, <2>2
<1>9. CASE q = p /\ o = n
  BY <1>5, <1>9
<1> QED
  BY <1>8, <1>9

\* No offset of the log is passed over but those that hold no record.
LEMMA SkipGapTracked ==
    ASSUME SInv, NEW p \in Partitions, SkipGap(p)
    PROVE  ReadTracked'
<1>0. TypeOK /\ position[p] \in Nat /\ Running /\ rebalance = << >>
  <2>1. TypeOK /\ CanRead(p)
    BY DEF SkipGap, SInv, PInv
  <2> QED
    BY <2>1, ReadType DEF CanRead, Turn, Running
<1>1. /\ position' = [position EXCEPT ![p] = @ + 1]
      /\ Log[p][position[p]].kind = "gap"
      /\ UNCHANGED <<streams, pool, offsets_uploaded, offsets_watermark, status, rebalance,
                     assignment>>
  BY DEF SkipGap, ReadPast, smvars, procvars
<1> SUFFICES ASSUME NEW q \in assignment, NEW o \in Offsets,
                    offsets_watermark[q] # NoOffset,
                    offsets_watermark[q] <= o, o < position'[q], Log[q][o].kind # "gap"
             PROVE  Tracked(<<q, o>>)
  BY <1>1 DEF ReadTracked, Tracked
<1>2. q \in Partitions /\ o \in Nat /\ ~BeingRevoked(q)
  BY <1>0, EmptySeq DEF TypeOK, BeingRevoked, Offsets
<1>3. o < position[q]
  <2>1. CASE q # p
    BY <1>0, <1>1, <1>2, <2>1 DEF TypeOK, CommitList
  <2>2. CASE q = p
    <3>1. position'[p] = position[p] + 1 /\ o # position[p]
      BY <1>0, <1>1, <2>2 DEF TypeOK, CommitList
    <3> QED
      BY <1>0, <1>2, <2>2, <3>1
  <2> QED
    BY <2>1, <2>2
<1> QED
  BY <1>0, <1>2, <1>3 DEF SInv, ReadTracked, KeepsAll

\* A stream that goes with a revocation had no offset of a partition that is
\* kept; what a revoked partition has left is not looked at any more.
LEMMA RevocationTracked ==
    ASSUME SInv, DrainRevocation
    PROVE  ReadTracked'
<1> USE DEF groupvars
<1> DEFINE R == Head(rebalance)
<1>0. TypeOK /\ StateMachineTypeOK /\ Running
  BY DEF SInv, PInv, TypeOK, DrainRevocation, Running
<1>1. /\ streams' = [s \in Streams |-> IF s \in RevokedStreams(R) THEN NoStream ELSE streams[s]]
      /\ offsets_watermark' = [p \in Partitions |-> IF p \in R THEN NoOffset
                                                              ELSE offsets_watermark[p]]
      /\ offsets_uploaded' = [p \in Partitions |-> IF p \in R THEN {} ELSE offsets_uploaded[p]]
      /\ UNCHANGED <<pool, assignment, position>>
  BY DEF DrainRevocation, handle_revoke_partitions
<1> SUFFICES ASSUME NEW p \in assignment, NEW o \in Offsets,
                    ~BeingRevoked(p)', offsets_watermark'[p] # NoOffset,
                    offsets_watermark'[p] <= o, o < position[p], Log[p][o].kind # "gap"
             PROVE  Tracked(<<p, o>>)'
  BY <1>1 DEF ReadTracked
<1>2. p \in Partitions
  BY <1>0 DEF TypeOK
<1>3. p \notin R /\ ~BeingRevoked(p)
  BY <1>0, <1>1, <1>2, RevocationTaken
<1>4. Tracked(<<p, o>>)
  BY <1>0, <1>1, <1>2, <1>3 DEF SInv, ReadTracked, KeepsAll
<1>5. \A s \in Streams : <<p, o>> \in streams[s].offsets => s \notin RevokedStreams(R)
  BY <1>3 DEF RevokedStreams, PartitionsOf
<1> HIDE DEF R
<1>6. \A s \in Streams : <<p, o>> \in streams[s].offsets => streams'[s] = streams[s]
  BY <1>1, <1>5
<1>7. offsets_uploaded'[p] = offsets_uploaded[p]
  BY <1>1, <1>2, <1>3
<1> QED
  BY <1>1, <1>4, <1>6, <1>7 DEF Tracked

\* A list trims what is below the watermark it moves.
LEMMA ListTracked ==
    ASSUME SInv, CommitTick
    PROVE  ReadTracked'
<1> DEFINE tpl == TopicPartitionList(assignment)
<1> USE DEF procvars
<1>0. TypeOK /\ Running /\ \A p : ~BeingRevoked(p)
  BY EmptySeq DEF SInv, PInv, CommitTick, Turn, Running, BeingRevoked
<1>1. /\ UNCHANGED <<pool, streams, assignment, position>>
      /\ \A p \in assignment :
            /\ p \in Partitions
            /\ offsets_watermark'[p] = IF tpl[p] = NoOffset THEN offsets_watermark[p] ELSE tpl[p]
            /\ \A o \in offsets_uploaded[p] :
                  o >= offsets_watermark'[p] => o \in offsets_uploaded'[p]
  BY <1>0 DEF CommitTick, make_topic_partition_list, TypeOK
<1>2. ASSUME NEW p \in Partitions
      PROVE  /\ offsets_watermark[p] \in Int
             /\ tpl[p] # NoOffset => /\ offsets_watermark[p] # NoOffset
                                     /\ tpl[p] \in Int /\ offsets_watermark[p] < tpl[p]
  BY <1>0, ListBeyond DEF TypeOK, StateMachineTypeOK, MaybeOffset, NoOffset
<1> HIDE DEF tpl
<1> SUFFICES ASSUME NEW p \in assignment, NEW o \in Offsets,
                    offsets_watermark'[p] # NoOffset,
                    offsets_watermark'[p] <= o, o < position[p], Log[p][o].kind # "gap"
             PROVE  Tracked(<<p, o>>)'
  BY <1>1 DEF ReadTracked
<1>3. p \in Partitions /\ o \in Nat
  BY <1>1 DEF Offsets
<1>4. offsets_watermark[p] # NoOffset /\ offsets_watermark[p] <= o
  BY <1>1, <1>2, <1>3
<1>5. Tracked(<<p, o>>)
  BY <1>0, <1>4 DEF SInv, ReadTracked, KeepsAll
<1>6. offsets_watermark'[p] \in Int
  BY <1>1, <1>2, <1>3
<1>7. o \in offsets_uploaded[p] => o \in offsets_uploaded'[p]
  BY <1>1, <1>3, <1>6
<1> QED
  BY <1>1, <1>5, <1>7 DEF Tracked

LEMMA EventLoopAccount ==
    ASSUME SInv, EventLoop
    PROVE  ReadTracked' /\ DrainAccount'
<1> USE DEF smvars, procvars, groupvars, worldvars
<1>0. TypeOK
  BY DEF SInv, PInv
<1>1. CASE DrainRevocation
  BY <1>1, RevocationTracked, NotDraining DEF DrainRevocation
<1>2. ASSUME NEW p \in Partitions, ProcessRecord(p) PROVE ReadTracked' /\ DrainAccount'
  BY <1>2, ProcessRecordTracked, NotDraining DEF ProcessRecord, CanRead, Turn
<1>3. ASSUME NEW p \in Partitions, ProcessRecordFails(p) PROVE ReadTracked' /\ DrainAccount'
  BY <1>3, FatalAccount DEF ProcessRecordFails
<1>4. ASSUME NEW p \in Partitions, SkipGap(p) PROVE ReadTracked' /\ DrainAccount'
  BY <1>4, SkipGapTracked, NotDraining DEF SkipGap, CanRead, Turn
<1>5. CASE UploadTick
  <2>1. PICK S \in UploadBatches :
           IF CloseFails(S) THEN Fatal
           ELSE /\ handle_upload_tick(S)
                /\ pool' = pool \cup UploadsOf(S)
                /\ UNCHANGED <<status, disk, rebalance, groupvars, worldvars>>
    BY <1>5 DEF UploadTick
  <2>2. S \in SUBSET Streams
    BY DEF UploadBatches, Dormant, OpenStreams
  <2>3. CASE ~CloseFails(S)
    <3>1. /\ Turn /\ close_and_upload(S) /\ pool' = pool \cup UploadsOf(S)
          /\ status' = "running" /\ UNCHANGED <<rebalance, groupvars, worldvars>>
      BY <1>5, <2>1, <2>3 DEF handle_upload_tick, UploadTick, Turn
    <3> QED
      BY <2>2, <2>3, <3>1, CloseAccount
  <2> QED
    BY <2>1, <2>3, FatalAccount
<1>6. CASE SealFails
  BY <1>6, FatalAccount DEF SealFails
<1>7. CASE CommitTick
  BY <1>7, ListTracked, NotDraining DEF CommitTick, Turn
<1>8. ASSUME NEW u \in pool, UploadSucceeds(u) PROVE ReadTracked' /\ DrainAccount'
  <2>1. /\ upload_success(u) /\ pool' = pool \ {u} /\ status = "running" /\ status' = "running"
        /\ UNCHANGED <<rebalance, assignment, position>>
    BY <1>8 DEF UploadSucceeds, Turn
  <2>2. \A r \in RecordIds : Tracked(r) => Tracked(r)'
    BY <1>0, <2>1, SuccessTracked
  <2>3. ReadTracked'
    BY <2>1, <2>2, TrackedKept DEF KeepsAll, Running, BeingRevoked, upload_success
  <2> QED
    BY <2>1, <2>3, NotDraining
<1>9. ASSUME NEW u \in pool, UploadFails(u) PROVE ReadTracked' /\ DrainAccount'
  <2>1. CASE ~Fatal
    <3>1. /\ pool' = (pool \ {u}) \cup {decrement(u)}
          /\ UNCHANGED <<streams, offsets_uploaded, offsets_watermark, status, rebalance,
                         assignment, position>>
          /\ status = "running"
      BY <1>9, <2>1 DEF UploadFails, Turn
    <3>2. decrement(u).offsets = u.offsets
      BY <1>0 DEF decrement, TypeOK, Upload
    <3>3. \A r \in RecordIds : Tracked(r) => Tracked(r)'
      BY <3>1, <3>2 DEF Tracked
    <3>4. ReadTracked'
      BY <3>1, <3>3, TrackedKept DEF KeepsAll, Running, BeingRevoked
    <3> QED
      BY <3>1, <3>4, NotDraining
  <2> QED
    BY <2>1, FatalAccount
<1>10. CASE ShutdownSignal
  <2>1. CASE ~CloseFails(OpenStreams)
    BY <1>10, <2>1, CloseAccount DEF ShutdownSignal, handle_shutdown_signal, OpenStreams
  <2> QED
    BY <1>10, <2>1, FatalAccount DEF ShutdownSignal
<1> QED
  BY <1>1, <1>2, <1>3, <1>4, <1>5, <1>6, <1>7, <1>8, <1>9, <1>10 DEF EventLoop

\* A completion in the drain takes an upload and a count away; a failure takes
\* an upload only, and the two are never equal again.
LEMMA DrainStepAccount ==
    ASSUME SInv, Drain
    PROVE  ReadTracked' /\ DrainAccount'
<1> USE DEF smvars, groupvars, worldvars
<1>0. /\ TypeOK /\ IsFiniteSet(pool) /\ Cardinality(pool) \in Nat /\ in_flight_uploads \in Int
      /\ \A p \in assignment, o \in Offsets : <<p, o>> \in RecordIds
  BY FS_CardinalityType DEF SInv, PInv, TypeOK, StateMachineTypeOK, RecordIds
<1>1. ASSUME NEW u \in pool PROVE Cardinality(pool \ {u}) = Cardinality(pool) - 1
  BY <1>0, FS_RemoveElement
<1>2. ASSUME NEW u \in pool, DrainUploadSucceeds(u) PROVE ReadTracked' /\ DrainAccount'
  <2>1. /\ status = "draining" /\ status' = "draining"
        /\ u.stored /\ upload_success(u) /\ pool' = pool \ {u}
        /\ UNCHANGED <<streams, files, offsets_watermark, rebalance, assignment, position,
                       resets, durable>>
        /\ in_flight_uploads' = in_flight_uploads - 1
    BY <1>2 DEF DrainUploadSucceeds, upload_success
  <2>2. /\ NoneDropped' => NoneDropped
        /\ Cardinality(pool) <= in_flight_uploads => Cardinality(pool') <= in_flight_uploads'
    BY <1>0, <1>1, <2>1 DEF NoneDropped
  <2>3. \A r \in RecordIds : Tracked(r) => Tracked(r)'
    BY <1>0, <2>1, SuccessTracked
  <2>4. ReadTracked'
    BY <2>1, <2>2, <2>3, TrackedKept DEF KeepsAll, Running, BeingRevoked
  <2>5. u.data \subseteq durable
    BY <2>1 DEF SInv, HInv, IInv, Custody, PoolSound
  <2>6. \A r : Held(r) => Held(r)'
    BY <2>1, <2>5 DEF Held
  <2>7. DrainAccount'
    BY <2>1, <2>2, <2>6 DEF SInv, DrainAccount, OpenStreams, Owed
  <2> QED
    BY <2>4, <2>7
<1>3. ASSUME NEW u \in pool, DrainUploadFails(u) PROVE ReadTracked' /\ DrainAccount'
  <2>1. CASE ~Fatal
    <3>1. /\ status = "draining" /\ status' = "draining" /\ pool' = pool \ {u}
          /\ UNCHANGED <<streams, in_flight_uploads>>
      BY <1>3, <2>1 DEF DrainUploadFails
    <3>2. Cardinality(pool') < in_flight_uploads' /\ Cardinality(pool) <= in_flight_uploads
      BY <1>0, <1>1, <3>1 DEF SInv, DrainAccount
    <3>3. Cardinality(pool') <= in_flight_uploads' /\ ~NoneDropped'
      BY <1>0, <1>1, <3>1, <3>2 DEF NoneDropped
    <3>4. DrainAccount'
      BY <3>1, <3>3 DEF SInv, DrainAccount, OpenStreams
    <3> QED
      BY <3>1, <3>3, <3>4 DEF ReadTracked, KeepsAll, Running
  <2> QED
    BY <2>1, FatalAccount
<1>4. CASE FinalCommit
  BY <1>4, FatalAccount, EndsAccount DEF FinalCommit
<1> QED
  BY <1>2, <1>3, <1>4 DEF Drain

\* No member is evicted where the group does not evict.
LEMMA NotEvicted ==
    ASSUME ~evicted, "evict" \notin Faults, [Next]_vars
    PROVE  ~evicted'
BY DEF vars, smvars, procvars, groupvars, worldvars, Next, World, Produce, TimePasses, Assign,
       Revoke, Evict, PeerProgress, BrokerAppliesCommit, CommitLost, StoreObject, Crash, Restart,
       EventLoop, DrainRevocation, ProcessRecord, ProcessRecordFails, SkipGap, UploadTick,
       SealFails, CommitTick, UploadSucceeds, UploadFails, ShutdownSignal, Drain,
       DrainUploadSucceeds, DrainUploadFails, FinalCommit, Fatal, ProcessEnds

LEMMA AccountInductive == CommitsArrive /\ "evict" \notin Faults /\ Spec => []SInv
<1> DEFINE Rest == "evict" \notin Faults /\ ~evicted /\ ReadTracked /\ DrainAccount
<1>1. "evict" \notin Faults /\ Init => Rest
  BY DEF Init, ReadTracked, DrainAccount
<1>2. WInv /\ HInv /\ PInv /\ Rest /\ [Next]_vars => Rest'
  <2> SUFFICES ASSUME SInv, [Next]_vars PROVE ReadTracked' /\ DrainAccount'
    BY NotEvicted DEF SInv
  <2>1. CASE UNCHANGED vars
    <3>1. UNCHANGED <<status, pool, in_flight_uploads, streams, files, offsets_uploaded,
                      offsets_watermark, rebalance, durable, assignment, position, resets>>
      BY <2>1 DEF vars, smvars, procvars, groupvars, worldvars
    <3>2. \A r \in RecordIds : Tracked(r) => Tracked(r)'
      BY <3>1 DEF Tracked
    <3>3. ReadTracked'
      BY <3>1, <3>2, TrackedKept DEF KeepsAll, NoneDropped, Running, BeingRevoked
    <3> QED
      BY <3>1, <3>3, DrainFrame
  <2> QED
    BY <2>1, WorldAccount, EventLoopAccount, DrainStepAccount DEF Next
<1>3. WInv /\ HInv /\ PInv /\ Rest => SInv
  BY DEF SInv
<1> HIDE DEF Rest
<1> QED
  BY <1>1, <1>2, <1>3, CoveredInductive, HeldInductive, PoolInductive, PTL DEF Spec

\* Only the last commit ends a drain well.
LEMMA OnlyFinalCommitStops ==
    ASSUME [Next]_vars, status = "draining", status' = "stopped"
    PROVE  FinalCommit
BY DEF vars, smvars, procvars, groupvars, worldvars, Next, World, Produce, TimePasses, Assign,
       Revoke, Evict, PeerProgress, BrokerAppliesCommit, CommitLost, StoreObject, Crash, Restart,
       EventLoop, DrainRevocation, ProcessRecord, ProcessRecordFails, SkipGap, UploadTick,
       SealFails, CommitTick, UploadSucceeds, UploadFails, ShutdownSignal, Turn, CanRead, Drain,
       DrainUploadSucceeds, DrainUploadFails, Fatal, ProcessEnds

\* When the pool is empty and the counter at zero, all offsets read from the
\* watermark on are uploaded, and the scan for what may be committed stops at
\* none of them.
LEMMA ScanPasses ==
    ASSUME SInv, status = "draining", pool = {}, in_flight_uploads = 0,
           NEW p \in assignment, NEW o \in Offsets, Owed(p, o), o < position[p],
           offsets_watermark[p] # NoOffset, offsets_watermark[p] <= o, NoGapBelow(p, o)
    PROVE  o < TopicPartitionList(assignment)[p]
<1> DEFINE w == offsets_watermark[p]
           end == ContiguousEnd(offsets_uploaded[p], w)
<1>1. /\ TypeOK /\ QueueEmptied /\ ResetsBehind /\ ReadTracked /\ OpenStreams = {} /\ NoneDropped
      /\ p \in Partitions /\ w \in Nat /\ o \in Nat
      /\ offsets_uploaded[p] \in SUBSET Offsets
  BY FS_EmptySet DEF SInv, WInv, RInv, PInv, Ahead, DrainAccount, NoneDropped, TypeOK,
                     StateMachineTypeOK, MaybeOffset, Offsets
<1>2. ~BeingRevoked(p) /\ Floor(p) = w
  BY <1>1, EmptySeq DEF QueueEmptied, BeingRevoked, Floor
<1>3. end \in Nat /\ w <= end /\ end \notin offsets_uploaded[p]
  BY <1>1, ContiguousEndCorrect DEF IsContiguousEnd
<1> HIDE DEF end
<1>4. end > o
  <2> SUFFICES ASSUME end <= o PROVE FALSE
    BY <1>1, <1>3
  <2>1. end \in Offsets /\ end < position[p]
    <3>1. position[p] \in Int /\ LogSize \in Nat /\ o <= LogSize - 1
      BY <1>1, ConstantTypes DEF Offsets, TypeOK, CommitList, MaybeOffset, NoOffset
    <3> QED
      BY <1>1, <1>3, <3>1 DEF Offsets
  <2>2. \A r \in resets[p] : r <= end
    <3>1. \A r \in resets[p] : r \in Nat /\ r <= w
      BY <1>1, <1>2, ResetType DEF ResetsBehind
    <3> QED
      BY <1>1, <1>3, <3>1
  <2>3. Log[p][end].kind # "gap"
    <3>1. CASE end = o
      BY <3>1 DEF Owed, IsData
    <3>2. CASE end < o
      BY <2>1, <2>2, <3>2 DEF NoGapBelow
    <3> QED
      BY <1>1, <1>3, <3>1, <3>2
  <2>4. Tracked(<<p, end>>)
    BY <1>1, <1>2, <1>3, <2>1, <2>3 DEF ReadTracked, KeepsAll
  <2>5. \A s \in Streams : <<p, end>> \notin streams[s].offsets
    BY <1>1 DEF OpenStreams, NoStream
  <2> QED
    BY <1>3, <2>4, <2>5 DEF Tracked
<1>5. TopicPartitionList(assignment)[p] = end
  BY <1>1, <1>4, <1>3 DEF TopicPartitionList, end
<1> QED
  BY <1>4, <1>5

\* A shutdown that ends well, and dropped no upload, leaves no work behind: all
\* that was read is in S3, and committed up to the first gap
\* (handle_shutdown_signal, drain_and_shutdown, handle_final_commit), where every
\* commit arrives and the group does not drop the member.
THEOREM CleanShutdownHolds ==
    CommitsArrive /\ "evict" \notin Faults /\ Spec => CleanShutdownCommitsAll
<1> DEFINE Clean ==
      status = "draining" /\ status' = "stopped" /\ in_flight_uploads = 0 =>
          \A p \in assignment, o \in Offsets :
              Owed(p, o) /\ o < position[p] =>
                  /\ <<p, o>> \in durable'
                  /\ NoGapBelow(p, o) => o < committed'[p]
<1>1. SInv /\ [Next]_vars => Clean
  <2> DEFINE tpl == TopicPartitionList(assignment)
  <2> SUFFICES ASSUME SInv, [Next]_vars, status = "draining", status' = "stopped",
                      in_flight_uploads = 0, NEW p \in assignment, NEW o \in Offsets,
                      Owed(p, o), o < position[p]
               PROVE  /\ <<p, o>> \in durable'
                      /\ NoGapBelow(p, o) => o < committed'[p]
    OBVIOUS
  <2>1. FinalCommit
    BY OnlyFinalCommitStops
  <2>2. /\ pool = {} /\ commits = << >> /\ durable' = durable
        /\ committed' = [q \in Partitions |-> IF tpl[q] = NoOffset THEN committed[q] ELSE tpl[q]]
    BY <2>1 DEF FinalCommit, Fatal, ProcessEnds, worldvars
  <2>3. /\ TypeOK /\ p \in Partitions /\ o \in Nat /\ position[p] \in Int
        /\ QueueEmptied /\ CommitsCover /\ MemberAhead /\ NoneDropped /\ ~evicted /\ OpenStreams = {}
    BY <2>2, FS_EmptySet DEF SInv, WInv, RInv, PInv, Ahead, DrainAccount, NoneDropped, TypeOK,
                             CommitList, MaybeOffset, NoOffset, Offsets
  <2>4. Held(<<p, o>>)
    BY <2>3 DEF SInv, DrainAccount
  <2>5. <<p, o>> \in durable'
    <3>1. \A s \in Streams : files[s].data = {}
      BY <2>3 DEF SInv, HInv, FilesOfOffsets, OpenStreams, NoStream
    <3> QED
      BY <2>2, <2>4, <3>1 DEF Held
  <2>6. committed[p] \in Int /\ Floor(p) \in Int /\ committed[p] <= Floor(p)
    BY <2>3, FloorType DEF MemberAhead, NotBehind, TypeOK, CommitList, MaybeOffset, NoOffset
  <2>7. tpl[p] # NoOffset => Floor(p) < tpl[p] /\ tpl[p] \in Int
    BY <2>3, ListBeyond, EmptySeq DEF Floor, QueueEmptied, BeingRevoked
  <2>8. offsets_watermark[p] # NoOffset => Floor(p) = offsets_watermark[p]
    BY <2>3, EmptySeq DEF Floor, QueueEmptied, BeingRevoked
  <2>9. ASSUME NoGapBelow(p, o) PROVE o < committed'[p]
    <3>1. CASE o < Floor(p)
      <4>1. o < committed[p]
        BY <2>2, <2>3, <3>1, EmptySeq DEF CommitsCover, Covered
      <4> QED
        BY <2>2, <2>3, <2>6, <2>7, <3>1, <4>1
    <3>2. CASE ~(o < Floor(p))
      <4>1. offsets_watermark[p] # NoOffset /\ offsets_watermark[p] <= o
        BY <2>3, <2>6, <2>8, <3>2 DEF Floor
      <4>2. o < tpl[p]
        BY <2>2, <2>9, <4>1, ScanPasses
      <4>3. tpl[p] # NoOffset
        BY <2>3, <4>2 DEF NoOffset
      <4> QED
        BY <2>2, <2>3, <4>2, <4>3
    <3> QED
      BY <3>1, <3>2
  <2> QED
    BY <2>5, <2>9
<1>2. SInv /\ [Next]_vars => [Clean]_vars
  BY <1>1
<1> QED
  BY <1>2, AccountInductive, PTL DEF Spec, CleanShutdownCommitsAll
=============================================================================
