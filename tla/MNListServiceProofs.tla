------------------------- MODULE MNListServiceProofs ------------------------
(***************************************************************************)
(* For every set of masternodes, epoch length, threshold and bound, the    *)
(* service domain of the masternode list is what the chain's commitments   *)
(* say: the counter is the run of missed epochs, an enforced outage leads  *)
(* to the ban, a ban heals only on an ONLINE verdict, one block penalises  *)
(* fewer than the mass-outage share, and no epoch is judged twice.         *)
(*                                                                         *)
(* All of it follows from two facts about the list under construction:     *)
(* Tracks, which ties it to the commitments so far, and BlockInv, which    *)
(* ties it to the list of the last block.                                  *)
(***************************************************************************)
EXTENDS MNListPoSeProofs, FiniteSetTheorems

\* MissedRun over the commitments C.
Run(C, m) ==
    {i \in DOMAIN C :
        /\ Pronounces(C[i], m)
        /\ \A j \in i .. Len(C) : Pronounces(C[j], m) => m \in C[j].missed}

\* A state is what the commitments say of its masternode: the counter, and the
\* ban after an enforced outage.
Tracked(s, C, m) ==
    /\ s.nMissedEpochs = Cardinality(Run(C, m))
    /\ (/\ Cardinality(Run(C, m)) >= BanEpochs
        /\ \E i \in Run(C, m) : C[i].height >= EnforcementHeight) => s.nDSLBan

Tracks(list, C) == \A m \in DOMAIN list : Tracked(list[m], C, m)

\* Commitments of epochs that ended by height h, on masternodes among regs, in
\* the order of their epochs.
RecordsOK(C, regs, h) ==
    /\ \A i \in DOMAIN C :
          /\ C[i].observed \subseteq regs
          /\ C[i].height <= h
          /\ (C[i].epoch + 1) * Interval = C[i].height
    /\ \A i, j \in DOMAIN C : i < j => C[i].epoch < C[j].epoch

SameService(s, t) ==
    /\ s.nMissedEpochs = t.nMissedEpochs
    /\ s.nDSLBan = t.nDSLBan
    /\ s.fRewardSuspended = t.fRewardSuspended

Healed(s, t) == s.nDSLBan /\ ~t.nDSLBan

Hit(s, t) == \/ t.nDSLBan /\ ~s.nDSLBan
             \/ t.fRewardSuspended /\ ~s.fRewardSuspended

\* What a commitment r may do to a masternode's state, from s to t.
Judged(r, m, s, t) ==
    /\ Healed(s, t) => m \in r.observed \ r.missed
    /\ Hit(s, t) => /\ m \in r.missed
                    /\ Cardinality(r.missed) * 100 < Cardinality(r.base) * MassOutagePct

\* The block under construction against the last one: without a commitment the
\* service domain is untouched, with one it is as the commitment says.
BlockInv ==
    /\ dslCommitments = 0 =>
          /\ newCommitments = oldCommitments
          /\ \A m \in DOMAIN oldList \cap DOMAIN newList : SameService(newList[m], oldList[m])
    /\ dslCommitments # 0 =>
          /\ building
          /\ Len(newCommitments) = Len(oldCommitments) + 1
          /\ newCommitments[Len(newCommitments)].base = baseMNs
          /\ newCommitments[Len(newCommitments)].missed \subseteq baseMNs
          /\ \A m \in DOMAIN oldList \cap DOMAIN newList :
                Judged(newCommitments[Len(newCommitments)], m, oldList[m], newList[m])

SInv ==
    /\ IInv
    /\ DOMAIN oldList \subseteq registered /\ baseMNs \subseteq registered
    /\ Tracks(oldList, oldCommitments) /\ Tracks(newList, newCommitments)
    /\ RecordsOK(oldCommitments, registered, height)
    /\ RecordsOK(newCommitments, registered,
                 IF dslCommitments = 0 THEN height ELSE height + 1)
    /\ BlockInv

-----------------------------------------------------------------------------
(* Runs. *)

LEMMA RecordFields ==
    ASSUME NEW C \in Seq(CommitmentRecords)
    PROVE  \A i \in DOMAIN C : C[i].epoch \in Nat /\ C[i].height \in Nat
<1> SUFFICES ASSUME NEW i \in DOMAIN C PROVE C[i].epoch \in Nat /\ C[i].height \in Nat
  BY Zenon
<1>1. C[i] \in CommitmentRecords
  OBVIOUS
<1> QED BY <1>1, Zenon DEF CommitmentRecords

\* A run is finite.
LEMMA RunFinite ==
    ASSUME NEW C \in Seq(CommitmentRecords), NEW m
    PROVE  IsFiniteSet(Run(C, m)) /\ Cardinality(Run(C, m)) \in Nat
<1>1. Run(C, m) \subseteq 1 .. Len(C) /\ Len(C) \in Nat
  BY DEF Run
<1>2. IsFiniteSet(1 .. Len(C))
  BY <1>1, FS_Interval
<1> QED BY <1>1, <1>2, FS_Subset, FS_CardinalityType, Zenon

\* A commitment that says nothing of m leaves its run.
LEMMA RunSilent ==
    ASSUME NEW C \in Seq(CommitmentRecords), NEW r \in CommitmentRecords, NEW m,
           ~Pronounces(r, m)
    PROVE  Run(Append(C, r), m) = Run(C, m)
<1> DEFINE D == Append(C, r)
<1>1. /\ Len(C) \in Nat /\ Len(D) = Len(C) + 1 /\ DOMAIN C = 1 .. Len(C)
      /\ DOMAIN D = 1 .. (Len(C) + 1) /\ D[Len(C) + 1] = r
      /\ \A i \in 1 .. Len(C) : D[i] = C[i]
  OBVIOUS
<1> HIDE DEF D
<1>2. Run(D, m) \subseteq Run(C, m)
  BY <1>1 DEF Run
<1>3. Run(C, m) \subseteq Run(D, m)
  BY <1>1 DEF Run
<1> QED BY <1>2, <1>3, Zenon DEF D

\* One that finds m online ends it.
LEMMA RunOnline ==
    ASSUME NEW C \in Seq(CommitmentRecords), NEW r \in CommitmentRecords, NEW m,
           Pronounces(r, m), m \notin r.missed
    PROVE  Run(Append(C, r), m) = {}
<1> DEFINE D == Append(C, r)
<1>1. /\ Len(C) \in Nat /\ Len(D) = Len(C) + 1
      /\ DOMAIN D = 1 .. (Len(C) + 1) /\ D[Len(C) + 1] = r
  OBVIOUS
<1> HIDE DEF D
<1>2. Run(D, m) = {}
  BY <1>1 DEF Run
<1> QED BY <1>2, Zenon DEF D

\* One that finds m missed makes it longer by one.
LEMMA RunMissed ==
    ASSUME NEW C \in Seq(CommitmentRecords), NEW r \in CommitmentRecords, NEW m,
           Pronounces(r, m), m \in r.missed
    PROVE  /\ Run(Append(C, r), m) = Run(C, m) \cup {Len(C) + 1}
           /\ Cardinality(Run(Append(C, r), m)) = Cardinality(Run(C, m)) + 1
<1> DEFINE D == Append(C, r)
<1>1. /\ Len(C) \in Nat /\ Len(D) = Len(C) + 1 /\ DOMAIN C = 1 .. Len(C)
      /\ DOMAIN D = 1 .. (Len(C) + 1) /\ D[Len(C) + 1] = r
      /\ \A i \in 1 .. Len(C) : D[i] = C[i]
  OBVIOUS
<1> HIDE DEF D
<1>2. Run(D, m) \subseteq Run(C, m) \cup {Len(C) + 1}
  BY <1>1 DEF Run
<1>3. Run(C, m) \subseteq Run(D, m)
  BY <1>1 DEF Run
<1>4. Len(C) + 1 \in Run(D, m)
  BY <1>1 DEF Run
<1>5. Len(C) + 1 \notin Run(C, m)
  BY <1>1 DEF Run
<1>6. Run(D, m) = Run(C, m) \cup {Len(C) + 1}
  BY <1>2, <1>3, <1>4, Zenon
<1>7. Cardinality(Run(C, m) \cup {Len(C) + 1}) = Cardinality(Run(C, m)) + 1
  BY <1>5, RunFinite, FS_AddElement, Zenon
<1> QED BY <1>6, <1>7, Zenon DEF D

\* A masternode that no commitment has observed has no run.
LEMMA RunOfNew ==
    ASSUME NEW C, NEW regs, NEW h, RecordsOK(C, regs, h), NEW m, m \notin regs
    PROVE  Run(C, m) = {}
BY Zenon DEF Run, RecordsOK, Pronounces

-----------------------------------------------------------------------------
(* The state of one masternode. *)

\* The PoSe domain's operations leave the service domain alone.
LEMMA PoSeKeepsService ==
    ASSUME NEW s \in MNState
    PROVE  /\ SameService(BanIfNotBanned(s), s)
           /\ SameService(ResetOperatorFields(s), s)
           /\ SameService(Revive(s), s)
           /\ SameService(PoSePunish(s), s)
           /\ SameService([s EXCEPT !.addr = TRUE], s)
           /\ SameService([s EXCEPT !.pubKeyOperator = TRUE], s)
           /\ SameService([s EXCEPT !.nPoSePenalty = @ - 1], s)
<1> USE DEF SameService, MNState
<1>1. SameService(BanIfNotBanned(s), s)
  BY Zenon DEF BanIfNotBanned
<1>2. SameService(ResetOperatorFields(s), s)
  BY Zenon DEF ResetOperatorFields
<1>3. SameService(Revive(s), s)
  BY Zenon DEF Revive
<1>4. SameService(PoSePunish(s), s)
  BY Zenon DEF PoSePunish, BanIfNotBanned
<1>5. SameService([s EXCEPT !.addr = TRUE], s)
  BY Zenon
<1>6. SameService([s EXCEPT !.pubKeyOperator = TRUE], s)
  BY Zenon
<1>7. SameService([s EXCEPT !.nPoSePenalty = @ - 1], s)
  BY Zenon
<1> QED BY <1>1, <1>2, <1>3, <1>4, <1>5, <1>6, <1>7, ZenonT(30)

LEMMA SameServiceTrans ==
    ASSUME NEW s, NEW t, NEW u, SameService(s, t), SameService(t, u)
    PROVE  SameService(s, u)
BY Zenon DEF SameService

\* What is tracked or judged depends on the service domain only.
LEMMA TrackedSame ==
    ASSUME NEW s, NEW t, NEW C, NEW m, Tracked(s, C, m), SameService(t, s)
    PROVE  Tracked(t, C, m)
BY Zenon DEF Tracked, SameService

LEMMA JudgedSame ==
    ASSUME NEW r, NEW m, NEW s, NEW t, NEW u, Judged(r, m, s, t), SameService(u, t)
    PROVE  Judged(r, m, s, u)
BY Zenon DEF Judged, Healed, Hit, SameService

\* The fields after each verdict.
LEMMA OnlineFields ==
    ASSUME NEW s \in MNState, NEW e \in BOOLEAN
    PROVE  LET t == Online(s, e)
           IN  /\ t.nMissedEpochs = 0
               /\ t.nDSLBan => s.nDSLBan
               /\ t.fRewardSuspended => s.fRewardSuspended
BY Zenon DEF Online, MNState

LEMMA MissedFields ==
    ASSUME NEW s \in MNState, NEW e \in BOOLEAN
    PROVE  LET t == Missed(s, e)
           IN  /\ t.nMissedEpochs = s.nMissedEpochs + 1
               /\ s.nDSLBan => t.nDSLBan
               /\ (e /\ s.nMissedEpochs + 1 >= BanEpochs) => t.nDSLBan
<1> DEFINE n == s.nMissedEpochs + 1
           susp == s.fRewardSuspended \/ (e /\ n >= SuspendEpochs)
           ban == s.nDSLBan \/ (e /\ n >= BanEpochs)
           t == Missed(s, e)
<1>1. ban \in BOOLEAN /\ susp \in BOOLEAN
  BY Zenon DEF MNState
<1>2. t = [s EXCEPT !.nMissedEpochs = n, !.fRewardSuspended = susp, !.nDSLBan = ban]
  BY Zenon DEF Missed
<1> HIDE DEF susp, ban, t, n
<1>3. t.nMissedEpochs = n /\ t.nDSLBan = ban
  BY <1>1, <1>2, Zenon DEF MNState
<1>4. /\ s.nDSLBan => ban
      /\ (e /\ n >= BanEpochs) => ban
  BY Zenon DEF ban
<1> QED BY <1>3, <1>4, Zenon DEF n, t

LEMMA JudgedFrom ==
    ASSUME NEW r, NEW m, NEW s, NEW t, NEW u, Judged(r, m, s, t), SameService(s, u)
    PROVE  Judged(r, m, u, t)
BY Zenon DEF Judged, Healed, Hit, SameService

\* The three verdicts of a commitment r, each against the run r extends.
LEMMA NoneTracks ==
    ASSUME NEW C \in Seq(CommitmentRecords), NEW r \in CommitmentRecords, NEW m, NEW s,
           Tracked(s, C, m), ~Pronounces(r, m)
    PROVE  Tracked(s, Append(C, r), m)
<1> DEFINE D == Append(C, r)
<1>1. Run(D, m) = Run(C, m)
  BY RunSilent, Zenon
<1>2. \A i \in Run(C, m) : D[i] = C[i]
  BY DEF Run
<1> HIDE DEF D
<1>3. Tracked(s, D, m)
  BY <1>1, <1>2, Zenon DEF Tracked
<1> QED BY <1>3, Zenon DEF D

LEMMA OnlineTracks ==
    ASSUME NEW C \in Seq(CommitmentRecords), NEW r \in CommitmentRecords, NEW m,
           NEW s \in MNState, NEW e \in BOOLEAN, Pronounces(r, m), m \notin r.missed
    PROVE  /\ Tracked(Online(s, e), Append(C, r), m)
           /\ Judged(r, m, s, Online(s, e))
<1> DEFINE D == Append(C, r)
           t == Online(s, e)
<1>1. Run(D, m) = {} /\ Cardinality({}) = 0
  BY RunOnline, FS_EmptySet, Zenon
<1>2. /\ t.nMissedEpochs = 0
      /\ t.nDSLBan => s.nDSLBan
      /\ t.fRewardSuspended => s.fRewardSuspended
  BY OnlineFields, Zenon
<1>3. m \in r.observed \ r.missed
  BY Zenon DEF Pronounces
<1> HIDE DEF D, t
<1>4. Tracked(t, D, m)
  BY <1>1, <1>2, Zenon DEF Tracked
<1>5. Judged(r, m, s, t)
  BY <1>2, <1>3, Zenon DEF Judged, Healed, Hit
<1> QED BY <1>4, <1>5, Zenon DEF D, t

LEMMA MissedTracks ==
    ASSUME NEW C \in Seq(CommitmentRecords), NEW r \in CommitmentRecords, NEW m,
           NEW s \in MNState, Tracked(s, C, m), Pronounces(r, m), m \in r.missed,
           \A i \in DOMAIN C : C[i].height <= r.height
    PROVE  /\ Tracked(Missed(s, r.height >= EnforcementHeight), Append(C, r), m)
           /\ Judged(r, m, s, Missed(s, r.height >= EnforcementHeight))
<1> DEFINE D == Append(C, r)
           e == r.height >= EnforcementHeight
           t == Missed(s, e)
<1>1. /\ Run(D, m) = Run(C, m) \cup {Len(C) + 1}
      /\ Cardinality(Run(D, m)) = Cardinality(Run(C, m)) + 1
  BY RunMissed, Zenon
<1>2. e \in BOOLEAN
  OBVIOUS
<1>3. /\ t.nMissedEpochs = s.nMissedEpochs + 1
      /\ s.nDSLBan => t.nDSLBan
      /\ (e /\ s.nMissedEpochs + 1 >= BanEpochs) => t.nDSLBan
  BY <1>2, MissedFields, Zenon
<1>4. s.nMissedEpochs = Cardinality(Run(C, m))
  BY Zenon DEF Tracked
<1>5. ASSUME NEW i \in Run(D, m), D[i].height >= EnforcementHeight
      PROVE  e
  <2>1. Len(C) \in Nat /\ D[Len(C) + 1] = r /\ \A j \in DOMAIN C : D[j] = C[j]
    OBVIOUS
  <2>2. r.height \in Nat /\ \A j \in DOMAIN C : C[j].height \in Nat
    BY RecordFields, Zenon DEF CommitmentRecords
  <2>3. i \in DOMAIN C \/ i = Len(C) + 1
    BY <1>1, Zenon DEF Run
  <2> HIDE DEF D
  <2> QED BY <1>5, <2>2, <2>1, <2>3, EpochAssumption, SMTT(30)
<1> HIDE DEF D, e, t
<1>6. Tracked(t, D, m)
  BY <1>1, <1>3, <1>4, <1>5, ZenonT(30) DEF Tracked
<1>7. Judged(r, m, s, t)
  BY <1>3, Zenon DEF Judged, Healed, Hit, Pronounces
<1> QED BY <1>6, <1>7, Zenon DEF D, e, t

-----------------------------------------------------------------------------
(* The list under construction. *)

\* l2 has the service domain of l1, but for masternodes new to the chain.
QuietList(l2, l1, regs) ==
    \A m \in DOMAIN l2 :
        \/ m \in DOMAIN l1 /\ SameService(l2[m], l1[m])
        \/ m \notin regs /\ l2[m].nMissedEpochs = 0

LEMMA QuietTracks ==
    ASSUME NEW l1, NEW l2, NEW C, NEW regs, NEW h,
           Tracks(l1, C), RecordsOK(C, regs, h), QuietList(l2, l1, regs)
    PROVE  Tracks(l2, C)
<1> SUFFICES ASSUME NEW m \in DOMAIN l2 PROVE Tracked(l2[m], C, m)
  BY Zenon DEF Tracks
<1>1. CASE m \in DOMAIN l1 /\ SameService(l2[m], l1[m])
  BY <1>1, TrackedSame, Zenon DEF Tracks
<1>2. CASE m \notin regs /\ l2[m].nMissedEpochs = 0
  <2>1. Run(C, m) = {} /\ Cardinality({}) = 0
    BY <1>2, RunOfNew, FS_EmptySet, ZenonT(30)
  <2> QED BY <1>2, <2>1, Zenon DEF Tracked
<1> QED BY <1>1, <1>2, Zenon DEF QuietList

\* Records stay in order at a later height and with more registrations.
LEMMA RecordsLater ==
    ASSUME NEW C \in Seq(CommitmentRecords), NEW regs, NEW more,
           NEW h \in Nat, NEW k \in Nat,
           RecordsOK(C, regs, h), h <= k, regs \subseteq more
    PROVE  RecordsOK(C, more, k)
<1>1. \A i \in DOMAIN C : C[i].height \in Nat
  BY RecordFields, Zenon
<1> QED BY <1>1 DEF RecordsOK

\* A transaction that leaves the service domain alone.
LEMMA QuietStep ==
    ASSUME SInv, NextTx, IInv', UNCHANGED <<dslCommitments, newCommitments>>,
           QuietList(newList', newList, registered)
    PROVE  SInv'
<1>1. UNCHANGED <<height, oldList, baseMNs, registered, building, oldCommitments>>
  BY Zenon DEF NextTx
<1>2. Tracks(newList', newCommitments')
  BY QuietTracks, Zenon DEF SInv
<1>3. ASSUME NEW m \in DOMAIN oldList \cap DOMAIN newList'
      PROVE  m \in DOMAIN newList /\ SameService(newList'[m], newList[m])
  BY Zenon DEF SInv, QuietList
<1>4. ASSUME dslCommitments = 0, NEW m \in DOMAIN oldList \cap DOMAIN newList'
      PROVE  SameService(newList'[m], oldList[m])
  BY <1>3, <1>4, SameServiceTrans, Zenon DEF SInv, BlockInv
<1>5. ASSUME dslCommitments # 0, NEW m \in DOMAIN oldList \cap DOMAIN newList'
      PROVE  Judged(newCommitments[Len(newCommitments)], m, oldList[m], newList'[m])
  BY <1>3, <1>5, JudgedSame, Zenon DEF SInv, BlockInv
<1>6. BlockInv'
  BY <1>1, <1>4, <1>5, Zenon DEF SInv, BlockInv
<1> QED BY <1>1, <1>2, <1>6, Zenon DEF SInv

\* One masternode's update in the PoSe domain.
LEMMA UpdateQuiet ==
    ASSUME NEW m \in DOMAIN newList, NEW s, Update(m, s), SameService(s, newList[m])
    PROVE  QuietList(newList', newList, registered)
BY Zenon DEF Update, QuietList, SameService

LEMMA TxQuiet ==
    ASSUME IInv
    PROVE  /\ \A m \in ProTx, replaced \in SUBSET DOMAIN newList, a \in BOOLEAN :
                 ProRegTx(m, replaced, a) => QuietList(newList', newList, registered)
           /\ \A m \in ProTx : ProUpServTx(m) => QuietList(newList', newList, registered)
           /\ \A m \in ProTx : ProUpRegTx(m) => QuietList(newList', newList, registered)
           /\ \A m \in ProTx : ProUpRevTx(m) => QuietList(newList', newList, registered)
           /\ \A invalid : QuorumCommitment(invalid) => QuietList(newList', newList, registered)
<1>0. \A m \in DOMAIN newList : newList[m] \in MNState
  BY Zenon DEF IInv, GoodList, GoodState
<1>1. ASSUME NEW m \in ProTx, NEW replaced \in SUBSET DOMAIN newList, NEW a \in BOOLEAN,
             ProRegTx(m, replaced, a)
      PROVE  QuietList(newList', newList, registered)
  <2>1. FreshState(height + 1, a).nMissedEpochs = 0
    BY Zenon DEF FreshState, BanIfNotBanned
  <2> QED BY <1>1, <2>1, Zenon DEF ProRegTx, Without, QuietList, SameService
<1>2. ASSUME NEW m \in ProTx, ProUpServTx(m)
      PROVE  QuietList(newList', newList, registered)
  <2> DEFINE s == [newList[m] EXCEPT !.addr = TRUE]
  <2>1. m \in DOMAIN newList /\ s \in MNState /\ SameService(s, newList[m])
    BY <1>0, <1>2, PoSeKeepsService, Zenon DEF ProUpServTx, MNState
  <2>2. Update(m, Revive(s)) \/ Update(m, s)
    BY <1>2, Zenon DEF ProUpServTx
  <2> HIDE DEF s
  <2>3. SameService(Revive(s), newList[m])
    BY <2>1, PoSeKeepsService, SameServiceTrans, Zenon
  <2> QED BY <2>1, <2>2, <2>3, UpdateQuiet, ZenonT(30)
<1>3. ASSUME NEW m \in ProTx, ProUpRegTx(m)
      PROVE  QuietList(newList', newList, registered)
  <2> DEFINE q == ResetOperatorFields(newList[m])
             s == BanIfNotBanned(q)
             t == [s EXCEPT !.pubKeyOperator = TRUE]
  <2>1. m \in DOMAIN newList /\ q \in MNState /\ SameService(q, newList[m])
    BY <1>0, <1>3, PoSeKeepsService, Zenon DEF ProUpRegTx, MNState, ResetOperatorFields
  <2>2. Update(m, t)
    BY <1>3, Zenon DEF ProUpRegTx
  <2> HIDE DEF q
  <2>3. s \in MNState
    BY <2>1, Zenon DEF BanIfNotBanned, MNState
  <2>4. SameService(s, newList[m])
    BY <2>1, PoSeKeepsService, SameServiceTrans, Zenon
  <2> HIDE DEF s
  <2>5. SameService(t, newList[m])
    BY <2>3, <2>4, PoSeKeepsService, SameServiceTrans, Zenon
  <2> QED BY <2>1, <2>2, <2>5, UpdateQuiet, ZenonT(30)
<1>4. ASSUME NEW m \in ProTx, ProUpRevTx(m)
      PROVE  QuietList(newList', newList, registered)
  <2> DEFINE q == ResetOperatorFields(newList[m])
  <2>1. m \in DOMAIN newList /\ q \in MNState /\ SameService(q, newList[m])
    BY <1>0, <1>4, PoSeKeepsService, ZenonT(30) DEF ProUpRevTx, MNState, ResetOperatorFields
  <2>2. Update(m, BanIfNotBanned(q))
    BY <1>4, Zenon DEF ProUpRevTx
  <2> HIDE DEF q
  <2>3. SameService(BanIfNotBanned(q), newList[m])
    BY <2>1, PoSeKeepsService, SameServiceTrans, Zenon
  <2> QED BY <2>1, <2>2, <2>3, UpdateQuiet, ZenonT(30)
<1>5. ASSUME NEW invalid, QuorumCommitment(invalid)
      PROVE  QuietList(newList', newList, registered)
  <2>1. ASSUME NEW m \in DOMAIN newList
        PROVE  SameService(PoSePunish(newList[m]), newList[m])
               /\ SameService(newList[m], newList[m])
    BY <1>0, PoSeKeepsService, Zenon DEF SameService
  <2> QED BY <1>5, <2>1, Zenon DEF QuorumCommitment, QuietList
<1> QED BY <1>1, <1>2, <1>3, <1>4, <1>5, ZenonT(30)

\* A refused block.
LEMMA RejectStep ==
    ASSUME SInv, IInv', RejectBlock
    PROVE  SInv'
<1>1. \A m : SameService(oldList[m], oldList[m])
  BY Zenon DEF SameService
<1>2. BlockInv'
  BY <1>1, Zenon DEF RejectBlock, BlockInv
<1> QED BY <1>2, Zenon DEF SInv, RejectBlock, Tracks, RecordsOK

\* A new block: the list is the last one's with lower penalties.
LEMMA BeginStep ==
    ASSUME SInv, IInv', BeginBlock
    PROVE  SInv'
<1>1. ASSUME NEW m \in DOMAIN oldList
      PROVE  SameService(newList'[m], oldList[m])
  <2>1. oldList[m] \in MNState
    BY Zenon DEF SInv, IInv, GoodList, GoodState
  <2>2. /\ SameService([oldList[m] EXCEPT !.nPoSePenalty = @ - 1], oldList[m])
        /\ SameService(oldList[m], oldList[m])
    BY <2>1, PoSeKeepsService, Zenon DEF SameService
  <2> QED BY <2>2, Zenon DEF BeginBlock, DecreaseScores
<1>2. DOMAIN newList' = DOMAIN oldList
  BY Zenon DEF BeginBlock, DecreaseScores
<1>3. dslCommitments = 0 /\ dslCommitments' = 0 /\ newCommitments = oldCommitments
  BY Zenon DEF SInv, BlockInv, BeginBlock
<1>4. QuietList(newList', oldList, registered)
  BY <1>1, <1>2, Zenon DEF QuietList
<1>5. Tracks(newList', newCommitments)
  BY <1>3, <1>4, QuietTracks, ZenonT(30) DEF SInv
<1>6. BlockInv'
  BY <1>1, <1>3, Zenon DEF BeginBlock, BlockInv
<1> QED BY <1>3, <1>5, <1>6, Zenon DEF SInv, BeginBlock

\* The block connected, without the masternodes whose collateral it spends.
LEMMA EndStep ==
    ASSUME SInv, IInv', NEW spent, EndBlock(spent)
    PROVE  SInv'
<1> DEFINE regs == registered \cup DOMAIN newList
<1>1. /\ oldList' = newList' /\ newList' = Without(newList, spent)
      /\ oldCommitments' = newCommitments /\ newCommitments' = newCommitments
      /\ registered' = regs /\ height' = height + 1 /\ dslCommitments' = 0
  BY Zenon DEF EndBlock
<1>2. Tracks(newList', newCommitments)
  BY <1>1, Zenon DEF SInv, Tracks, Without
<1>3. DOMAIN newList' \subseteq regs /\ baseMNs' \subseteq regs
  BY <1>1, Zenon DEF EndBlock, SInv, Without
<1>4. RecordsOK(newCommitments, regs, height + 1)
  <2>1. /\ height \in Nat /\ height + 1 \in Nat
        /\ newCommitments \in Seq(CommitmentRecords)
        /\ height <= height + 1 /\ height + 1 <= height + 1
    BY DEF SInv, IInv
  <2>2. registered \subseteq regs
    BY Zenon
  <2>3. \/ RecordsOK(newCommitments, registered, height)
        \/ RecordsOK(newCommitments, registered, height + 1)
    BY Zenon DEF SInv
  <2> HIDE DEF regs
  <2> QED BY <2>1, <2>2, <2>3, RecordsLater, ZenonT(30)
<1>5. \A m : SameService(newList'[m], newList'[m])
  BY Zenon DEF SameService
<1>6. BlockInv'
  BY <1>1, <1>5, Zenon DEF BlockInv
<1> QED BY <1>1, <1>2, <1>3, <1>4, <1>6, ZenonT(30) DEF SInv

\* The epoch of a commitment, from the height of its block.
LEMMA EpochOfHeight ==
    ASSUME NEW h \in Nat, h % Interval = 0
    PROVE  ((h \div Interval) - 1 + 1) * Interval = h
<1>1. h = Interval * (h \div Interval) + (h % Interval)
  BY EpochAssumption
<1> QED BY <1>1, EpochAssumption

LEMMA EpochOrder ==
    ASSUME NEW a \in Nat, NEW b \in Nat, (a + 1) * Interval < (b + 1) * Interval
    PROVE  a < b
<1>1. ASSUME a >= b PROVE FALSE
  <2>1. PICK d \in Nat : a = b + d
    BY <1>1
  <2>2. (a + 1) * Interval = (b + 1) * Interval + d * Interval
    BY <2>1, EpochAssumption, SMTT(30)
  <2>3. d * Interval >= 0
    BY EpochAssumption
  <2> QED BY <2>2, <2>3, EpochAssumption, SMTT(30)
<1> QED BY <1>1

\* The commitment's record joins the others in order.
LEMMA RecordJoins ==
    ASSUME NEW C \in Seq(CommitmentRecords), NEW r \in CommitmentRecords,
           NEW regs, NEW h \in Nat, RecordsOK(C, regs, h),
           r.observed \subseteq regs, r.height = h + 1,
           (r.epoch + 1) * Interval = r.height
    PROVE  RecordsOK(Append(C, r), regs, h + 1)
<1> DEFINE D == Append(C, r)
<1>1. /\ Len(C) \in Nat /\ DOMAIN C = 1 .. Len(C)
      /\ DOMAIN D = 1 .. (Len(C) + 1) /\ D[Len(C) + 1] = r
      /\ \A i \in 1 .. Len(C) : D[i] = C[i]
  OBVIOUS
<1>2. /\ r.epoch \in Nat
      /\ \A i \in DOMAIN C : C[i].epoch \in Nat /\ C[i].height \in Nat
  BY RecordFields, Zenon DEF CommitmentRecords
<1>3. ASSUME NEW i \in DOMAIN C
      PROVE  C[i].epoch < r.epoch
  <2>1. C[i].height <= h /\ (C[i].epoch + 1) * Interval = C[i].height
    BY Zenon DEF RecordsOK
  <2>2. (C[i].epoch + 1) * Interval < (r.epoch + 1) * Interval
    BY <1>2, <2>1, SMTT(30)
  <2> QED BY <1>2, <2>2, EpochOrder, ZenonT(30)
<1> HIDE DEF D
<1>4. ASSUME NEW i \in DOMAIN D
      PROVE  /\ D[i].observed \subseteq regs
             /\ D[i].height <= h + 1
             /\ (D[i].epoch + 1) * Interval = D[i].height
  <2>1. CASE i \in DOMAIN C
    <3>1. D[i] = C[i]
      BY <1>1, <2>1, Zenon
    <3>2. /\ C[i].observed \subseteq regs /\ C[i].height <= h
          /\ (C[i].epoch + 1) * Interval = C[i].height
      BY <2>1, Zenon DEF RecordsOK
    <3>3. C[i].height <= h + 1
      BY <1>2, <2>1, <3>2
    <3> QED BY <3>1, <3>2, <3>3, Zenon
  <2>2. CASE i = Len(C) + 1
    BY <1>1, <2>2
  <2> QED BY <1>1, <2>1, <2>2, SMTT(30)
<1>5. ASSUME NEW i \in DOMAIN D, NEW j \in DOMAIN D, i < j
      PROVE  D[i].epoch < D[j].epoch
  <2>1. i \in DOMAIN C
    BY <1>1, <1>5, SMTT(30)
  <2>2. CASE j \in DOMAIN C
    BY <1>1, <1>5, <2>1, <2>2, ZenonT(30) DEF RecordsOK
  <2>3. CASE j = Len(C) + 1
    BY <1>1, <1>3, <2>1, <2>3, ZenonT(30)
  <2> QED BY <1>1, <2>2, <2>3, SMTT(30)
<1>6. RecordsOK(D, regs, h + 1)
  BY <1>4, <1>5, ZenonT(30) DEF RecordsOK
<1> QED BY <1>6, Zenon DEF D

\* A commitment that passes the checks: what it does to each masternode.
LEMMA CommitmentKeeps ==
    ASSUME SInv, IInv', NEW c \in Commitments, NextTx, ServiceCommitmentAllowed(c),
           dslCommitments' = dslCommitments + 1,
           newList' = ApplyServiceCommitment(newList, c, height + 1),
           newCommitments' =
             Append(newCommitments, [epoch |-> c.nEpoch, height |-> height + 1,
                                     base |-> baseMNs, missed |-> c.missed,
                                     observed |-> {m \in baseMNs : IsObserved(c, m)}])
    PROVE  SInv'
<1> DEFINE C == newCommitments
           r == [epoch |-> c.nEpoch, height |-> height + 1, base |-> baseMNs,
                 missed |-> c.missed, observed |-> {m \in baseMNs : IsObserved(c, m)}]
           e == r.height >= EnforcementHeight
<1>1. /\ height \in Nat /\ C \in Seq(CommitmentRecords) /\ baseMNs \subseteq ProTx
      /\ dslCommitments = 0 /\ dslCommitments' = 1
      /\ c.nEpoch \in Nat /\ c.missed \subseteq baseMNs
  BY EpochAssumption, BoundAssumption, SMTT(30) DEF SInv, IInv, ServiceCommitmentAllowed, Commitments
<1>2. r \in CommitmentRecords
  BY <1>1 DEF CommitmentRecords
<1>3. UNCHANGED <<height, oldList, baseMNs, registered, building, oldCommitments>> /\ building
  BY Zenon DEF NextTx
<1>4. C = oldCommitments /\ RecordsOK(C, registered, height) /\ Tracks(newList, C)
      /\ \A m \in DOMAIN oldList \cap DOMAIN newList : SameService(newList[m], oldList[m])
  BY <1>1, Zenon DEF SInv, BlockInv
<1>5. (r.epoch + 1) * Interval = r.height
  <2>1. height + 1 \in Nat /\ (height + 1) % Interval = 0
        /\ c.nEpoch = ((height + 1) \div Interval) - 1
    BY <1>1 DEF ServiceCommitmentAllowed, CheckPoSeServiceCommitmentTx
  <2> QED BY <2>1, EpochOfHeight, Zenon
<1>6. r.observed \subseteq registered
  BY Zenon DEF SInv
<1>7. RecordsOK(Append(C, r), registered, height + 1)
  BY <1>1, <1>2, <1>4, <1>5, <1>6, RecordJoins, ZenonT(30)
<1>8. \A i \in DOMAIN C : C[i].height <= r.height
  <2>1. \A i \in DOMAIN C : C[i].height \in Nat /\ C[i].height <= height
    BY <1>1, <1>4, RecordFields, Zenon DEF RecordsOK
  <2> QED BY <1>1, <2>1
<1>9. DOMAIN newList' = DOMAIN newList
  BY Zenon DEF ApplyServiceCommitment
<1>10. Cardinality(c.missed) \in Nat /\ Cardinality(baseMNs) \in Nat
  BY <1>1, BoundAssumption, FS_Subset, FS_CardinalityType, Zenon
<1>11. ASSUME NEW m \in DOMAIN newList
       PROVE  /\ Tracked(newList'[m], Append(C, r), m)
              /\ Judged(r, m, newList[m], newList'[m])
  <2> DEFINE s == [newList[m] EXCEPT !.nLastServiceEpoch = c.nEpoch]
  <2>1. newList[m] \in MNState
    BY Zenon DEF SInv, IInv, GoodList, GoodState
  <2>2. s \in MNState /\ SameService(s, newList[m])
    BY <1>1, <2>1, Zenon DEF MNState, SameService
  <2>3. Tracked(newList[m], C, m)
    BY <1>4, Zenon DEF Tracks
  <2> HIDE DEF s
  <2>4. Tracked(s, C, m)
    BY <2>2, <2>3, TrackedSame, Zenon
  <2>5. CASE m \notin baseMNs
    <3>1. newList'[m] = newList[m]
      BY <2>5, Zenon DEF ApplyServiceCommitment
    <3>2. ~Pronounces(r, m)
      BY <2>5, Zenon DEF Pronounces
    <3>3. Judged(r, m, newList[m], newList[m])
      BY Zenon DEF Judged, Healed, Hit
    <3> QED BY <1>1, <1>2, <2>3, <3>1, <3>2, <3>3, NoneTracks, ZenonT(30)
  <2>6. CASE m \in baseMNs
    <3> DEFINE v == Verdict(c, m)
               t == ApplyVerdict(s, v, e)
    <3>1. newList'[m] = t
      BY <2>6, Zenon DEF ApplyServiceCommitment, s
    <3>2. Pronounces(r, m) <=> ~MassOutage(c) /\ IsObserved(c, m)
      BY <1>10, <2>6, PenaltyAssumption, SMTT(30) DEF Pronounces, MassOutage
    <3> SUFFICES Tracked(t, Append(C, r), m) /\ Judged(r, m, s, t)
      BY <2>2, <3>1, JudgedFrom, Zenon
    <3>3. CASE ~Pronounces(r, m)
      <4>1. v = "none"
        BY <3>2, <3>3, Zenon DEF Verdict
      <4>2. t = s
        BY <4>1, Zenon DEF ApplyVerdict
      <4>3. Judged(r, m, s, s)
        BY Zenon DEF Judged, Healed, Hit
      <4> HIDE DEF r, t
      <4> QED BY <1>1, <1>2, <2>4, <3>3, <4>2, <4>3, NoneTracks, ZenonT(30)
    <3>4. CASE Pronounces(r, m) /\ m \notin r.missed
      <4>1. v = "online"
        BY <3>2, <3>4, Zenon DEF Verdict
      <4>2. t = Online(s, e)
        BY <4>1, Zenon DEF ApplyVerdict
      <4>3. e \in BOOLEAN
        OBVIOUS
      <4> HIDE DEF r, t, e
      <4> QED BY <1>1, <1>2, <2>2, <3>4, <4>2, <4>3, OnlineTracks, ZenonT(30)
    <3>5. CASE Pronounces(r, m) /\ m \in r.missed
      <4>1. v = "missed"
        BY <3>2, <3>5, Zenon DEF Verdict
      <4>2. t = Missed(s, r.height >= EnforcementHeight)
        BY <4>1, Zenon DEF ApplyVerdict
      <4> HIDE DEF r, t
      <4> QED BY <1>1, <1>2, <1>8, <2>2, <2>4, <3>5, <4>2, MissedTracks, ZenonT(30)
    <3> QED BY <3>3, <3>4, <3>5, ZenonT(30)
  <2> QED BY <2>5, <2>6, Zenon
<1>12. Tracks(newList', newCommitments')
  BY <1>9, <1>11, Zenon DEF Tracks
<1>13. /\ Len(newCommitments') = Len(C) + 1
       /\ newCommitments'[Len(newCommitments')] = r
  BY <1>1, <1>2
<1>14. r.base = baseMNs /\ r.missed \subseteq baseMNs
  BY <1>1, Zenon
<1>15. \A m \in DOMAIN oldList \cap DOMAIN newList' : Judged(r, m, oldList[m], newList'[m])
  BY <1>4, <1>9, <1>11, JudgedFrom, Zenon
<1> HIDE DEF r
<1>16. BlockInv'
  <2>1. building' /\ dslCommitments' # 0
    BY <1>1, <1>3
  <2>2. /\ Len(newCommitments') = Len(oldCommitments') + 1
        /\ newCommitments'[Len(newCommitments')].base = baseMNs'
        /\ newCommitments'[Len(newCommitments')].missed \subseteq baseMNs'
    BY <1>3, <1>4, <1>13, <1>14, Zenon
  <2>3. \A m \in DOMAIN oldList' \cap DOMAIN newList' :
           Judged(newCommitments'[Len(newCommitments')], m, oldList'[m], newList'[m])
    BY <1>3, <1>13, <1>15, Zenon
  <2> QED BY <2>1, <2>2, <2>3, Zenon DEF BlockInv
<1>17. RecordsOK(newCommitments', registered, height + 1)
  BY <1>7, Zenon DEF r
<1> QED BY <1>1, <1>3, <1>12, <1>16, <1>17, SMTT(30) DEF SInv

-----------------------------------------------------------------------------

LEMMA InitSInv == Init => SInv
<1> SUFFICES ASSUME Init PROVE SInv
  BY Zenon
<1>1. IInv
  BY InitIInv, Zenon
<1>2. PICK M \in SUBSET ProTx : /\ oldList = [m \in M |-> FreshState(0, TRUE)]
                                /\ baseMNs = M
                                /\ registered = M
  BY Zenon DEF Init
<1>3. /\ newList = oldList /\ dslCommitments = 0 /\ height = 0
      /\ oldCommitments = <<>> /\ newCommitments = <<>>
  BY Zenon DEF Init
<1>4. RecordsOK(<<>>, registered, height)
  BY DEF RecordsOK
<1>5. FreshState(0, TRUE).nMissedEpochs = 0
  BY Zenon DEF FreshState
<1>6. Cardinality({}) = 0 /\ \A m : Run(<<>>, m) = {}
  BY FS_EmptySet DEF Run
<1>7. Tracks(oldList, <<>>)
  BY <1>2, <1>5, <1>6, ZenonT(30) DEF Tracks, Tracked
<1>8. BlockInv
  BY <1>3, Zenon DEF BlockInv, SameService
<1> QED BY <1>1, <1>2, <1>3, <1>4, <1>7, <1>8, ZenonT(30) DEF SInv

LEMMA NextSInv == SInv /\ [Next]_vars => SInv'
<1> SUFFICES ASSUME SInv, [Next]_vars PROVE SInv'
  BY Zenon
<1>1. IInv /\ IInv'
  BY NextIInv, Zenon DEF SInv
<1>2. CASE BeginBlock
  BY <1>1, <1>2, BeginStep, Zenon
<1>3. ASSUME NEW m \in ProTx, NEW replaced \in SUBSET DOMAIN newList, NEW a \in BOOLEAN,
             ProRegTx(m, replaced, a)
      PROVE  SInv'
  <2>1. QuietList(newList', newList, registered)
    BY <1>1, <1>3, TxQuiet, Zenon
  <2> QED BY <1>1, <1>3, <2>1, QuietStep, Zenon DEF ProRegTx
<1>4. ASSUME NEW m \in ProTx, ProUpServTx(m) \/ ProUpRegTx(m) \/ ProUpRevTx(m)
      PROVE  SInv'
  <2>1. QuietList(newList', newList, registered)
    BY <1>1, <1>4, TxQuiet, Zenon
  <2>2. NextTx /\ UNCHANGED <<dslCommitments, newCommitments>>
    BY <1>4, Zenon DEF ProUpServTx, ProUpRegTx, ProUpRevTx
  <2> QED BY <1>1, <2>1, <2>2, QuietStep, ZenonT(30)
<1>5. ASSUME NEW invalid, QuorumCommitment(invalid)
      PROVE  SInv'
  <2>1. QuietList(newList', newList, registered)
    BY <1>1, <1>5, TxQuiet, Zenon
  <2> QED BY <1>1, <1>5, <2>1, QuietStep, Zenon DEF QuorumCommitment
<1>6. ASSUME NEW c \in Commitments, ServiceCommitment(c)
      PROVE  SInv'
  <2>1. CASE RejectBlock
    BY <1>1, <2>1, RejectStep, Zenon
  <2>2. CASE ~RejectBlock
    BY <1>1, <1>6, <2>2, CommitmentKeeps, ZenonT(30) DEF ServiceCommitment
  <2> QED BY <2>1, <2>2, Zenon
<1>7. ASSUME NEW spent, EndBlock(spent)
      PROVE  SInv'
  BY <1>1, <1>7, EndStep, Zenon
<1>8. CASE UNCHANGED vars
  BY <1>1, <1>8, Zenon DEF vars, SInv, BlockInv, Tracks, RecordsOK
<1> QED BY <1>2, <1>3, <1>4, <1>5, <1>6, <1>7, <1>8, ZenonT(30) DEF Next

LEMMA SpecSInv == Spec => []SInv
BY InitSInv, NextSInv, PTL DEF Spec

(***************************************************************************)
(* The counter of every listed masternode is the number of MISSED verdicts *)
(* the chain's commitments pronounced on it since the last ONLINE one,     *)
(* through registrations, revocations, revivals, DKG penalties, removals,  *)
(* mass outages and refused blocks (ApplyServiceCommitment).               *)
(***************************************************************************)
THEOREM CounterCorrect == Spec => []CounterIsMissedRun
<1>1. SInv => CounterIsMissedRun
  BY Zenon DEF SInv, Tracks, Tracked, Run, CounterIsMissedRun, MissedRun
<1> QED BY <1>1, SpecSInv, PTL

(***************************************************************************)
(* An enforced run of nDSLBanEpochs leaves the masternode service-banned,  *)
(* whatever transactions it sends.                                         *)
(***************************************************************************)
THEOREM OutageLeadsToBan == Spec => []OutageIsBanned
<1>1. SInv => OutageIsBanned
  BY Zenon DEF SInv, Tracks, Tracked, Run, OutageIsBanned, MissedRun
<1> QED BY <1>1, SpecSInv, PTL

(***************************************************************************)
(* No epoch is judged twice, on the chain or in the block being built      *)
(* ("bad-dsl-multiple").                                                   *)
(***************************************************************************)
THEOREM EpochJudgedOnce == Spec => []OneCommitmentPerEpoch
<1>1. SInv => OneCommitmentPerEpoch
  BY Zenon DEF SInv, RecordsOK, OneCommitmentPerEpoch
<1> QED BY <1>1, SpecSInv, PTL

\* Only EndBlock connects a list.
LEMMA OldListStep ==
    ASSUME [Next]_vars
    PROVE  oldList' = oldList \/ \E spent : EndBlock(spent)
BY Zenon DEF Next, vars, BeginBlock, ProRegTx, ProUpServTx, ProUpRegTx, ProUpRevTx,
       QuorumCommitment, ServiceCommitment, RejectBlock, NextTx

(***************************************************************************)
(* A service ban disappears from a listed masternode only in a block with  *)
(* a commitment that observed it online (dmnstate.h).                      *)
(***************************************************************************)
THEOREM BanHealsOnlyOnline == Spec => ServiceBanHealsOnline
<1> DEFINE Heals == \A m \in DOMAIN oldList \cap DOMAIN oldList' :
                      (oldList[m].nDSLBan /\ ~oldList'[m].nDSLBan) =>
                         \E i \in DOMAIN oldCommitments' :
                            /\ i > Len(oldCommitments)
                            /\ m \in oldCommitments'[i].observed \ oldCommitments'[i].missed
<1>1. SInv /\ [Next]_vars => Heals
  <2> SUFFICES ASSUME SInv, [Next]_vars,
                      NEW m \in DOMAIN oldList \cap DOMAIN oldList',
                      oldList[m].nDSLBan, ~oldList'[m].nDSLBan
               PROVE  \E i \in DOMAIN oldCommitments' :
                         /\ i > Len(oldCommitments)
                         /\ m \in oldCommitments'[i].observed \ oldCommitments'[i].missed
    BY Zenon
  <2>1. PICK spent : EndBlock(spent)
    BY OldListStep, Zenon
  <2>2. m \in DOMAIN newList /\ oldList'[m] = newList[m] /\ oldCommitments' = newCommitments
    BY <2>1, Zenon DEF EndBlock, Without
  <2>3. dslCommitments # 0
    BY <2>2, Zenon DEF SInv, BlockInv, SameService
  <2>4. m \in newCommitments[Len(newCommitments)].observed
                \ newCommitments[Len(newCommitments)].missed
    BY <2>2, <2>3, Zenon DEF SInv, BlockInv, Judged, Healed
  <2>5. /\ Len(newCommitments) = Len(oldCommitments) + 1
        /\ oldCommitments \in Seq(CommitmentRecords)
        /\ newCommitments \in Seq(CommitmentRecords)
    BY <2>3, Zenon DEF SInv, IInv, BlockInv
  <2>6. Len(newCommitments) \in DOMAIN newCommitments
        /\ Len(newCommitments) > Len(oldCommitments)
    BY <2>5
  <2> QED BY <2>2, <2>4, <2>6, Zenon
<1> QED BY <1>1, SpecSInv, PTL DEF Spec, ServiceBanHealsOnline

(***************************************************************************)
(* The masternodes newly suspended or service-banned in one block are      *)
(* fewer than the nDSLMassOutagePct share of the epoch-base list.          *)
(***************************************************************************)
THEOREM PenaltyWaveBounded == Spec => BanWaveBounded
<1> DEFINE hit == {m \in DOMAIN oldList \cap DOMAIN oldList' :
                      \/ oldList'[m].nDSLBan /\ ~oldList[m].nDSLBan
                      \/ oldList'[m].fRewardSuspended /\ ~oldList[m].fRewardSuspended}
           Bounded == hit # {} =>
                         Cardinality(hit) * 100 < Cardinality(baseMNs) * MassOutagePct
<1>1. SInv /\ [Next]_vars => Bounded
  <2> SUFFICES ASSUME SInv, [Next]_vars, hit # {}
               PROVE  Cardinality(hit) * 100 < Cardinality(baseMNs) * MassOutagePct
    BY Zenon
  <2> DEFINE r == newCommitments[Len(newCommitments)]
  <2>1. PICK spent : EndBlock(spent)
    BY OldListStep, Zenon
  <2>2. \A m \in hit : m \in DOMAIN newList /\ oldList'[m] = newList[m]
    BY <2>1, Zenon DEF EndBlock, Without
  <2>3. dslCommitments # 0
    BY <2>2, Zenon DEF SInv, BlockInv, SameService
  <2>4. \A m \in hit : /\ m \in r.missed
                       /\ Cardinality(r.missed) * 100 < Cardinality(r.base) * MassOutagePct
    BY <2>2, <2>3, Zenon DEF SInv, BlockInv, Judged, Hit
  <2>5. r.base = baseMNs /\ r.missed \subseteq ProTx /\ baseMNs \subseteq ProTx
    BY <2>3, Zenon DEF SInv, IInv, BlockInv
  <2> HIDE DEF hit, r
  <2>6. hit \subseteq r.missed /\ IsFiniteSet(r.missed) /\ IsFiniteSet(baseMNs)
    BY <2>4, <2>5, BoundAssumption, FS_Subset, Zenon
  <2>7. /\ Cardinality(hit) <= Cardinality(r.missed) /\ IsFiniteSet(hit)
    BY <2>6, FS_Subset, Zenon
  <2>8. /\ Cardinality(hit) \in Nat /\ Cardinality(r.missed) \in Nat
        /\ Cardinality(baseMNs) * MassOutagePct \in Nat
    BY <2>6, <2>7, FS_CardinalityType, PenaltyAssumption, SMTT(30)
  <2>9. Cardinality(r.missed) * 100 < Cardinality(baseMNs) * MassOutagePct
    BY <2>4, <2>5, Zenon
  <2> DEFINE b == Cardinality(baseMNs) * MassOutagePct
  <2> HIDE DEF b
  <2>10. b \in Nat /\ Cardinality(r.missed) * 100 < b
    BY <2>8, <2>9, Zenon DEF b
  <2>11. Cardinality(hit) * 100 < b
    BY <2>7, <2>8, <2>10, SMTT(30)
  <2> QED BY <2>11, Zenon DEF b
<1> QED BY <1>1, SpecSInv, PTL DEF Spec, BanWaveBounded
=============================================================================
