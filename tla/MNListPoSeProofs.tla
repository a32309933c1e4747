-------------------------- MODULE MNListPoSeProofs --------------------------
(***************************************************************************)
(* For every set of masternodes, epoch length, threshold and bound: the    *)
(* lists RebuildListFromBlock builds are well typed, every service penalty *)
(* in them is earned (ServicePenaltiesEarned), and until service bans are  *)
(* enforced a masternode that is inoperable or has the maximal penalty is  *)
(* banned (InoperableIsBanned, MaxPenaltyIsBanned).                        *)
(*                                                                         *)
(* The properties are about the connected list; they are not inductive,    *)
(* because the next list is built over several steps.  IInv adds the first *)
(* fact for the list under construction, one block higher, and ShadowInv   *)
(* the last two; a service ban would allow what they exclude, so that      *)
(* there is none before the enforcement height (NoServiceBan) is used.     *)
(***************************************************************************)
EXTENDS MNListPoSe, TLAPS


\* A list all of whose states are well typed and carry only earned penalties.
GoodState(s, h) == s \in MNState /\ Earned(s, h)

GoodList(list, h) ==
    /\ DOMAIN list \subseteq ProTx
    /\ \A m \in DOMAIN list : GoodState(list[m], h)

IInv ==
    /\ height \in Nat
    /\ GoodList(oldList, height)
    /\ GoodList(newList, height + 1)
    /\ baseMNs \subseteq ProTx /\ registered \subseteq ProTx
    /\ building \in BOOLEAN /\ txs \in Nat /\ dslCommitments \in Nat
    /\ oldCommitments \in Seq(CommitmentRecords)
    /\ newCommitments \in Seq(CommitmentRecords)

\* A list stays good in a later block.
LEMMA GoodLater ==
    ASSUME NEW list, NEW h \in Nat, GoodList(list, h)
    PROVE  GoodList(list, h + 1)
BY EpochAssumption DEF GoodList, GoodState, Earned

\* Each operation on one state keeps it good: a registration, the PoSe domain
\* (ban, reset, revive, punish, decrease) and the service domain.
LEMMA FreshGood ==
    ASSUME NEW h \in Nat, NEW a \in BOOLEAN, NEW k \in Nat
    PROVE  GoodState(FreshState(k, a), h)
BY Zenon DEF FreshState, GoodState, Earned, MNState, BanIfNotBanned, IsBanned

LEMMA BanGood ==
    ASSUME NEW h, NEW s, GoodState(s, h)
    PROVE  GoodState(BanIfNotBanned(s), h)
BY Zenon DEF GoodState, Earned, MNState, BanIfNotBanned

LEMMA ResetGood ==
    ASSUME NEW h, NEW s, GoodState(s, h)
    PROVE  GoodState(ResetOperatorFields(s), h)
BY Zenon DEF GoodState, Earned, MNState, ResetOperatorFields

LEMMA ReviveGood ==
    ASSUME NEW h, NEW s, GoodState(s, h)
    PROVE  GoodState(Revive(s), h)
BY Zenon DEF GoodState, Earned, MNState, Revive

LEMMA PunishGood ==
    ASSUME NEW h, NEW s, GoodState(s, h)
    PROVE  GoodState(PoSePunish(s), h)
<1> DEFINE sum == s.nPoSePenalty + DKGPenalty
           p == [s EXCEPT !.nPoSePenalty = IF sum > MaxPenalty THEN MaxPenalty
                                                               ELSE sum]
<1>1. sum \in Nat
  BY PenaltyAssumption DEF GoodState, MNState
<1>2. GoodState(p, h)
  BY <1>1, PenaltyAssumption, Zenon DEF GoodState, Earned, MNState
<1>3. GoodState(BanIfNotBanned(p), h)
  BY <1>2, BanGood, Zenon
<1> QED
  BY <1>2, <1>3, Zenon DEF PoSePunish

LEMMA DecreaseGood ==
    ASSUME NEW h, NEW list, GoodList(list, h)
    PROVE  GoodList(DecreaseScores(list), h)
BY DEF GoodList, GoodState, Earned, MNState, DecreaseScores

LEMMA WithoutGood ==
    ASSUME NEW h, NEW list, NEW M, GoodList(list, h)
    PROVE  GoodList(Without(list, M), h)
BY Zenon DEF GoodList, Without

LEMMA OnlineGood ==
    ASSUME NEW h \in Nat, NEW s, GoodState(s, h)
    PROVE  GoodState(Online(s, h >= EnforcementHeight), h)
BY PenaltyAssumption, EpochAssumption, Zenon DEF GoodState, Earned, MNState, Online

LEMMA MissedGood ==
    ASSUME NEW h \in Nat, NEW s, GoodState(s, h)
    PROVE  GoodState(Missed(s, h >= EnforcementHeight), h)
<1> DEFINE n == s.nMissedEpochs + 1
           susp == s.fRewardSuspended \/ (h >= EnforcementHeight /\ n >= SuspendEpochs)
           ban == s.nDSLBan \/ (h >= EnforcementHeight /\ n >= BanEpochs)
           t == Missed(s, h >= EnforcementHeight)
<1>1. s \in MNState /\ n \in Nat /\ susp \in BOOLEAN /\ ban \in BOOLEAN
  BY DEF GoodState, MNState
<1>2. t = [s EXCEPT !.nMissedEpochs = n, !.fRewardSuspended = susp, !.nDSLBan = ban]
  BY Zenon DEF Missed
<1> HIDE DEF susp, ban, t, n
<1>3. t \in MNState
  BY <1>1, <1>2, Zenon DEF MNState
<1>4. t.nMissedEpochs = n /\ t.fRewardSuspended = susp /\ t.nDSLBan = ban
  BY <1>1, <1>2, Zenon DEF MNState
<1>5. susp => n >= SuspendEpochs /\ h >= EnforcementHeight
  BY PenaltyAssumption, EpochAssumption DEF GoodState, Earned, MNState, susp, n
<1>6. ban => n >= BanEpochs /\ susp
  BY PenaltyAssumption, EpochAssumption DEF GoodState, Earned, MNState, susp, ban, n
<1> QED
  BY <1>3, <1>4, <1>5, <1>6, Zenon DEF GoodState, Earned, t

\* ApplyServiceCommitment, for whatever verdict is pronounced on each masternode.
LEMMA VerdictGood ==
    ASSUME NEW h \in Nat, NEW s, GoodState(s, h), NEW v
    PROVE  GoodState(ApplyVerdict(s, v, h >= EnforcementHeight), h)
BY OnlineGood, MissedGood, Zenon DEF ApplyVerdict

LEMMA ApplyGood ==
    ASSUME NEW h \in Nat, NEW list, GoodList(list, h), NEW c, c.nEpoch \in Nat
    PROVE  GoodList(ApplyServiceCommitment(list, c, h), h)
<1> DEFINE new == ApplyServiceCommitment(list, c, h)
<1>1. DOMAIN new = DOMAIN list
  BY Zenon DEF ApplyServiceCommitment
<1>2. ASSUME NEW m \in DOMAIN list
      PROVE  GoodState(new[m], h)
  <2> DEFINE s == [list[m] EXCEPT !.nLastServiceEpoch = c.nEpoch]
  <2>1. GoodState(list[m], h)
    BY Zenon DEF GoodList
  <2>2. GoodState(s, h)
    BY <2>1, Zenon DEF GoodState, Earned, MNState
  <2>3. GoodState(ApplyVerdict(s, Verdict(c, m), h >= EnforcementHeight), h)
    BY <2>2, VerdictGood, Zenon
  <2> QED
    BY <2>1, <2>3, Zenon DEF ApplyServiceCommitment
<1> QED
  BY <1>1, <1>2, Zenon DEF GoodList

\* The branches that update one masternode of the list under construction.
LEMMA UpdateGood ==
    ASSUME NEW h, NEW m \in DOMAIN newList, NEW s, GoodState(s, h),
           GoodList(newList, h), Update(m, s)
    PROVE  GoodList(newList', h)
BY Zenon DEF GoodList, Update

-----------------------------------------------------------------------------

LEMMA InitIInv == Init => IInv
<1> SUFFICES ASSUME Init PROVE IInv
  BY Zenon
<1>1. PICK M \in SUBSET ProTx : /\ oldList = [m \in M |-> FreshState(0, TRUE)]
                                /\ baseMNs = M
                                /\ registered = M
  BY Zenon DEF Init
<1>2. GoodList(oldList, 0)
  BY <1>1, FreshGood, Zenon DEF GoodList
<1>3. height = 0 /\ newList = oldList
  BY Zenon DEF Init
<1>4. GoodList(oldList, height) /\ GoodList(newList, height + 1)
  BY <1>2, <1>3, GoodLater, Zenon
<1>5. building \in BOOLEAN /\ txs \in Nat /\ dslCommitments \in Nat
  BY Zenon DEF Init
<1>6. /\ oldCommitments \in Seq(CommitmentRecords)
      /\ newCommitments \in Seq(CommitmentRecords)
  BY DEF Init
<1> QED
  BY <1>1, <1>3, <1>4, <1>5, <1>6, Zenon DEF IInv

\* A service commitment adds one well-typed record to the chain's.
LEMMA CommitmentStep ==
    ASSUME IInv, NEW c \in Commitments, ServiceCommitment(c)
    PROVE  IInv'
<1> USE DEF IInv
<1>1. c.nEpoch \in Nat /\ c.missed \subseteq ProTx
  BY EpochAssumption, BoundAssumption DEF Commitments
<1>2. CASE RejectBlock
  BY <1>2, GoodLater, Zenon DEF RejectBlock
<1>3. CASE ~RejectBlock
  <2>1. GoodList(newList', height + 1)
    BY <1>1, <1>3, ApplyGood DEF ServiceCommitment
  <2> DEFINE r == [epoch |-> c.nEpoch, height |-> height + 1,
                   base |-> baseMNs, missed |-> c.missed,
                   observed |-> {m \in baseMNs : IsObserved(c, m)}]
  <2>2. r \in CommitmentRecords
    BY <1>1 DEF CommitmentRecords
  <2>3. newCommitments' \in Seq(CommitmentRecords)
    BY <1>3, <2>2, SMTT(30) DEF ServiceCommitment
  <2> QED
    BY <1>3, <2>1, <2>3 DEF ServiceCommitment, NextTx
<1> QED
  BY <1>2, <1>3, Zenon

LEMMA NextIInv == IInv /\ [Next]_vars => IInv'
<1> SUFFICES ASSUME IInv, [Next]_vars PROVE IInv'
  BY Zenon
<1> USE DEF IInv
<1>1. CASE BeginBlock
  BY <1>1, GoodLater, DecreaseGood, Zenon DEF BeginBlock
<1>2. ASSUME NEW m \in ProTx, NEW replaced \in SUBSET DOMAIN newList, NEW a \in BOOLEAN,
             ProRegTx(m, replaced, a)
      PROVE  IInv'
  <2>1. GoodList(Without(newList, replaced), height + 1)
    BY WithoutGood, Zenon
  <2>2. GoodState(FreshState(height + 1, a), height + 1)
    BY FreshGood
  <2>3. GoodList(newList', height + 1)
    BY <1>2, <2>1, <2>2, Zenon DEF ProRegTx, GoodList
  <2> QED
    BY <1>2, <2>3 DEF ProRegTx, NextTx
<1>3. ASSUME NEW m \in ProTx, ProUpServTx(m)
      PROVE  IInv'
  <2> DEFINE s == [newList[m] EXCEPT !.addr = TRUE]
  <2>1. m \in DOMAIN newList /\ GoodState(s, height + 1)
    BY <1>3, Zenon DEF ProUpServTx, GoodList, GoodState, Earned, MNState
  <2>2. GoodState(Revive(s), height + 1)
    BY <2>1, ReviveGood, Zenon
  <2>3. GoodList(newList', height + 1)
    BY <1>3, <2>1, <2>2, UpdateGood, Zenon DEF ProUpServTx
  <2> QED
    BY <1>3, <2>3 DEF ProUpServTx, NextTx
<1>4. ASSUME NEW m \in ProTx, ProUpRegTx(m)
      PROVE  IInv'
  <2> DEFINE s == BanIfNotBanned(ResetOperatorFields(newList[m]))
             t == [s EXCEPT !.pubKeyOperator = TRUE]
  <2>1. m \in DOMAIN newList /\ GoodState(s, height + 1)
    BY <1>4, ResetGood, BanGood, Zenon DEF ProUpRegTx, GoodList
  <2> HIDE DEF s
  <2>2. GoodState(t, height + 1)
    BY <2>1, Zenon DEF GoodState, Earned, MNState
  <2>3. GoodList(newList', height + 1)
    BY <1>4, <2>1, <2>2, UpdateGood, Zenon DEF ProUpRegTx, s
  <2> QED
    BY <1>4, <2>3 DEF ProUpRegTx, NextTx
<1>5. ASSUME NEW m \in ProTx, ProUpRevTx(m)
      PROVE  IInv'
  <2>1. m \in DOMAIN newList
        /\ GoodState(BanIfNotBanned(ResetOperatorFields(newList[m])), height + 1)
    BY <1>5, ResetGood, BanGood, Zenon DEF ProUpRevTx, GoodList
  <2>2. GoodList(newList', height + 1)
    BY <1>5, <2>1, UpdateGood, Zenon DEF ProUpRevTx
  <2> QED
    BY <1>5, <2>2 DEF ProUpRevTx, NextTx
<1>6. ASSUME NEW invalid, QuorumCommitment(invalid)
      PROVE  IInv'
  <2>1. GoodList(newList', height + 1)
    BY <1>6, PunishGood, Zenon DEF QuorumCommitment, GoodList
  <2> QED
    BY <1>6, <2>1 DEF QuorumCommitment, NextTx
<1>7. ASSUME NEW c \in Commitments, ServiceCommitment(c)
      PROVE  IInv'
  BY <1>7, CommitmentStep, Zenon
<1>8. ASSUME NEW spent, EndBlock(spent)
      PROVE  IInv'
  <2>1. GoodList(newList', height + 1)
    BY <1>8, WithoutGood, Zenon DEF EndBlock
  <2>2. GoodList(newList', height + 1 + 1)
    BY <2>1, GoodLater
  <2>3. baseMNs' \subseteq ProTx /\ registered' \subseteq ProTx
    BY <1>8, <2>1, Zenon DEF EndBlock, GoodList
  <2>4. GoodList(oldList', height') /\ GoodList(newList', height' + 1)
    BY <1>8, <2>1, <2>2, Zenon DEF EndBlock
  <2>5. height' = height + 1 /\ building' = FALSE /\ txs' = 0 /\ dslCommitments' = 0
    BY <1>8, Zenon DEF EndBlock
  <2>6. /\ oldCommitments' \in Seq(CommitmentRecords)
        /\ newCommitments' \in Seq(CommitmentRecords)
    BY <1>8, Zenon DEF EndBlock
  <2>7. height' \in Nat /\ txs' \in Nat /\ dslCommitments' \in Nat
    BY <2>5
  <2>8. building' \in BOOLEAN
    BY <2>5, Zenon
  <2> QED
    BY <2>3, <2>4, <2>6, <2>7, <2>8, Zenon
<1>9. CASE UNCHANGED vars
  BY <1>9, Zenon DEF vars
<1> QED
  BY <1>1, <1>2, <1>3, <1>4, <1>5, <1>6, <1>7, <1>8, <1>9, Zenon DEF Next

(***************************************************************************)
(* The lists and the chain's commitments stay well typed: the penalty      *)
(* arithmetic of PoSePunish / DecreaseScores never leaves the naturals.    *)
(***************************************************************************)
THEOREM TypeCorrect == Spec => []TypeOK
<1>1. IInv => TypeOK
  BY Zenon DEF IInv, TypeOK, GoodList, GoodState, IsMNList
<1> QED
  BY <1>1, InitIInv, NextIInv, PTL DEF Spec

(***************************************************************************)
(* Whatever blocks are connected or refused, a reward suspension needs     *)
(* nDSLSuspendEpochs and a service ban nDSLBanEpochs unhealed missed       *)
(* epochs, and neither exists below the enforcement height.                *)
(***************************************************************************)
THEOREM PenaltiesAreEarned == Spec => []ServicePenaltiesEarned
<1>1. IInv => ServicePenaltiesEarned
  BY Zenon DEF IInv, ServicePenaltiesEarned, PenaltiesEarned, GoodList, GoodState
<1> QED
  BY <1>1, InitIInv, NextIInv, PTL DEF Spec
-----------------------------------------------------------------------------
(* The shadow phase: the PoSe domain alone bans. *)

\* Without a service ban nothing stands in for the PoSe ban.
PoSeOK(s) ==
    /\ ~(s.pubKeyOperator /\ s.addr) => s.nPoSeBan
    /\ s.nPoSePenalty >= MaxPenalty => s.nPoSeBan

ShadowInv ==
    /\ height < EnforcementHeight => \A m \in DOMAIN oldList : PoSeOK(oldList[m])
    /\ building /\ height + 1 < EnforcementHeight =>
          \A m \in DOMAIN newList : PoSeOK(newList[m])

\* A penalty needs the enforcement height.
LEMMA NoServiceBan ==
    ASSUME NEW h \in Nat, h < EnforcementHeight, NEW s, GoodState(s, h)
    PROVE  s \in MNState /\ s.nDSLBan = FALSE
<1>1. ~(h >= EnforcementHeight)
  BY EpochAssumption
<1>2. s \in MNState /\ s.nDSLBan \in BOOLEAN
  BY Zenon DEF GoodState, MNState
<1> QED BY <1>1, <1>2, Zenon DEF GoodState, Earned

\* The operations on one state without a service ban.
LEMMA PoSeOKBanned ==
    ASSUME NEW s \in MNState, s.nDSLBan = FALSE
    PROVE  /\ BanIfNotBanned(s).nPoSeBan
           /\ PoSeOK(BanIfNotBanned(s))
<1>1. CASE s.nPoSeBan
  BY <1>1, Zenon DEF BanIfNotBanned, IsBanned, PoSeOK
<1>2. CASE ~s.nPoSeBan
  <2>1. BanIfNotBanned(s) = [s EXCEPT !.nPoSeBan = TRUE]
    BY <1>2, Zenon DEF BanIfNotBanned, IsBanned
  <2> QED BY <2>1, Zenon DEF MNState, PoSeOK
<1> QED BY <1>1, <1>2, Zenon

LEMMA PoSeOKPunished ==
    ASSUME NEW s \in MNState, s.nDSLBan = FALSE, PoSeOK(s)
    PROVE  PoSeOK(PoSePunish(s))
<1> DEFINE sum == s.nPoSePenalty + DKGPenalty
           p == [s EXCEPT !.nPoSePenalty = IF sum > MaxPenalty THEN MaxPenalty ELSE sum]
<1>1. p \in MNState /\ p.nDSLBan = FALSE /\ p.nPoSeBan = s.nPoSeBan
      /\ p.pubKeyOperator = s.pubKeyOperator /\ p.addr = s.addr
  BY PenaltyAssumption DEF MNState
<1>2. PoSePunish(s) = IF p.nPoSePenalty >= MaxPenalty /\ ~IsBanned(p)
                      THEN BanIfNotBanned(p) ELSE p
  BY Zenon DEF PoSePunish
<1> HIDE DEF p
<1>3. CASE p.nPoSePenalty >= MaxPenalty /\ ~IsBanned(p)
  BY <1>1, <1>2, <1>3, PoSeOKBanned, Zenon
<1>4. CASE ~(p.nPoSePenalty >= MaxPenalty /\ ~IsBanned(p))
  BY <1>1, <1>2, <1>4, Zenon DEF PoSeOK, IsBanned
<1> QED BY <1>3, <1>4, Zenon

LEMMA PoSeOKReset ==
    ASSUME NEW s \in MNState, s.nDSLBan = FALSE
    PROVE  LET r == BanIfNotBanned(ResetOperatorFields(s))
           IN  PoSeOK(r) /\ PoSeOK([r EXCEPT !.pubKeyOperator = TRUE])
<1> DEFINE q == ResetOperatorFields(s)
           r == BanIfNotBanned(q)
<1>1. q \in MNState /\ q.nDSLBan = FALSE
  BY Zenon DEF ResetOperatorFields, MNState
<1>2. r \in MNState
  BY <1>1, Zenon DEF BanIfNotBanned, MNState
<1> HIDE DEF q
<1>3. r.nPoSeBan /\ PoSeOK(r)
  BY <1>1, PoSeOKBanned, Zenon
<1> HIDE DEF r
<1>4. PoSeOK([r EXCEPT !.pubKeyOperator = TRUE])
  BY <1>2, <1>3, Zenon DEF PoSeOK, MNState
<1> QED BY <1>3, <1>4, Zenon DEF r, q

LEMMA PoSeOKServed ==
    ASSUME NEW s \in MNState, PoSeOK(s)
    PROVE  LET t == [s EXCEPT !.addr = TRUE]
           IN  PoSeOK(IF IsBanned(t) /\ t.pubKeyOperator THEN Revive(t) ELSE t)
<1> DEFINE t == [s EXCEPT !.addr = TRUE]
<1>1. /\ t \in MNState /\ t.addr = TRUE /\ t.pubKeyOperator = s.pubKeyOperator
      /\ t.nPoSeBan = s.nPoSeBan /\ t.nPoSePenalty = s.nPoSePenalty
  BY Zenon DEF MNState
<1> HIDE DEF t
<1>2. CASE IsBanned(t) /\ t.pubKeyOperator
  <2>1. Revive(t).addr = TRUE /\ Revive(t).pubKeyOperator /\ Revive(t).nPoSePenalty = 0
    BY <1>1, <1>2, Zenon DEF Revive, MNState
  <2> QED BY <1>2, <2>1, PenaltyAssumption DEF PoSeOK, t
<1>3. CASE ~(IsBanned(t) /\ t.pubKeyOperator)
  <2>1. PoSeOK(t)
    BY <1>1, Zenon DEF PoSeOK
  <2> QED BY <1>3, <2>1, Zenon DEF t
<1> QED BY <1>2, <1>3, Zenon

LEMMA PoSeOKFresh ==
    ASSUME NEW h \in Nat, NEW a \in BOOLEAN
    PROVE  PoSeOK(FreshState(h, a))
<1> DEFINE s == [nRegisteredHeight |-> h, nPoSePenalty |-> 0, nPoSeBan |-> FALSE,
                 nMissedEpochs |-> 0, nLastServiceEpoch |-> 0, fRewardSuspended |-> FALSE,
                 nDSLBan |-> FALSE, pubKeyOperator |-> TRUE, addr |-> a]
<1>1. s \in MNState /\ s.nDSLBan = FALSE
  BY Zenon DEF MNState
<1>2. CASE a
  BY <1>2, PenaltyAssumption DEF FreshState, PoSeOK
<1>3. CASE ~a
  <2>1. FreshState(h, a) = BanIfNotBanned(s)
    BY <1>3, Zenon DEF FreshState
  <2> HIDE DEF s
  <2> QED BY <1>1, <2>1, PoSeOKBanned, Zenon
<1> QED BY <1>2, <1>3, Zenon

LEMMA PoSeOKDecreased ==
    ASSUME NEW s \in MNState, PoSeOK(s), ~IsBanned(s), s.nPoSePenalty > 0
    PROVE  PoSeOK([s EXCEPT !.nPoSePenalty = @ - 1])
<1> DEFINE t == [s EXCEPT !.nPoSePenalty = @ - 1]
<1>1. /\ t.pubKeyOperator = s.pubKeyOperator /\ t.addr = s.addr
      /\ t.nPoSeBan = s.nPoSeBan /\ t.nPoSePenalty = s.nPoSePenalty - 1
      /\ s.nPoSePenalty \in Nat
  BY Zenon DEF MNState
<1> HIDE DEF t
<1>2. ~(s.nPoSePenalty >= MaxPenalty)
  BY Zenon DEF PoSeOK, IsBanned
<1>3. ~(t.nPoSePenalty >= MaxPenalty)
  BY <1>1, <1>2, PenaltyAssumption
<1> QED BY <1>1, <1>3, Zenon DEF PoSeOK, t

\* A verdict does not touch the PoSe domain.
LEMMA PoSeOKJudged ==
    ASSUME NEW s \in MNState, PoSeOK(s), NEW v, NEW e, NEW n \in Nat
    PROVE  PoSeOK(ApplyVerdict([s EXCEPT !.nLastServiceEpoch = n], v, e))
<1> DEFINE u == [s EXCEPT !.nLastServiceEpoch = n]
           t == ApplyVerdict(u, v, e)
<1>1. /\ u \in MNState
      /\ u.pubKeyOperator = s.pubKeyOperator /\ u.addr = s.addr
      /\ u.nPoSeBan = s.nPoSeBan /\ u.nPoSePenalty = s.nPoSePenalty
  BY Zenon DEF MNState
<1> HIDE DEF u
<1>2. /\ t.pubKeyOperator = u.pubKeyOperator /\ t.addr = u.addr
      /\ t.nPoSeBan = u.nPoSeBan /\ t.nPoSePenalty = u.nPoSePenalty
  BY <1>1, Zenon DEF ApplyVerdict, Online, Missed, MNState
<1> HIDE DEF t
<1>3. PoSeOK(t)
  BY <1>1, <1>2, Zenon DEF PoSeOK
<1> QED BY <1>3, Zenon DEF t, u

LEMMA ShadowInvStep ==
    ASSUME IInv, ShadowInv, [Next]_vars
    PROVE  ShadowInv'
<1> USE DEF IInv
<1>1. height \in Nat /\ height + 1 \in Nat
  OBVIOUS
\* The states of the list under construction, in a block of the shadow phase.
<1>2. ASSUME height + 1 < EnforcementHeight, NEW m \in DOMAIN newList
      PROVE  newList[m] \in MNState /\ newList[m].nDSLBan = FALSE
  BY <1>1, <1>2, NoServiceBan, Zenon DEF GoodList
<1>3. ASSUME NextTx,
             building /\ height + 1 < EnforcementHeight =>
                \A m \in DOMAIN newList' : PoSeOK(newList'[m])
      PROVE  ShadowInv'
  BY <1>3, Zenon DEF NextTx, ShadowInv
<1>4. ASSUME NEW m \in DOMAIN newList, NEW s, Update(m, s), NextTx,
             height + 1 < EnforcementHeight => PoSeOK(s)
      PROVE  ShadowInv'
  <2>1. building /\ height + 1 < EnforcementHeight =>
          \A k \in DOMAIN newList' : PoSeOK(newList'[k])
    BY <1>4, Zenon DEF Update, ShadowInv
  <2> QED BY <1>3, <1>4, <2>1, Zenon
<1>5. CASE BeginBlock
  <2>1. height' = height /\ oldList' = oldList /\ newList' = DecreaseScores(oldList)
    BY <1>5, Zenon DEF BeginBlock
  <2>2. ASSUME height + 1 < EnforcementHeight, NEW m \in DOMAIN oldList
        PROVE  PoSeOK(newList'[m])
    <3>1. height < EnforcementHeight
      BY <1>1, <2>2, EpochAssumption
    <3>2. oldList[m] \in MNState /\ PoSeOK(oldList[m])
      BY <3>1, Zenon DEF ShadowInv, GoodList, GoodState
    <3>3. CASE ~IsBanned(oldList[m]) /\ oldList[m].nPoSePenalty > 0
      BY <2>1, <3>2, <3>3, PoSeOKDecreased, Zenon DEF DecreaseScores
    <3>4. CASE ~(~IsBanned(oldList[m]) /\ oldList[m].nPoSePenalty > 0)
      BY <2>1, <3>2, <3>4, Zenon DEF DecreaseScores
    <3> QED BY <3>3, <3>4, Zenon
  <2>3. DOMAIN newList' = DOMAIN oldList
    BY <2>1, Zenon DEF DecreaseScores
  <2> QED BY <2>1, <2>2, <2>3, Zenon DEF ShadowInv
<1>6. ASSUME NEW m \in ProTx, NEW replaced \in SUBSET DOMAIN newList, NEW a \in BOOLEAN,
             ProRegTx(m, replaced, a)
      PROVE  ShadowInv'
  <2>1. building /\ height + 1 < EnforcementHeight =>
          \A k \in DOMAIN newList' : PoSeOK(newList'[k])
    BY <1>1, <1>6, PoSeOKFresh, Zenon DEF ProRegTx, Without, ShadowInv
  <2>2. NextTx
    BY <1>6, Zenon DEF ProRegTx
  <2> QED BY <1>3, <2>1, <2>2, Zenon
<1>7. ASSUME NEW m \in ProTx, ProUpServTx(m)
      PROVE  ShadowInv'
  <2> DEFINE t == [newList[m] EXCEPT !.addr = TRUE]
             s == IF IsBanned(t) /\ t.pubKeyOperator THEN Revive(t) ELSE t
  <2>1. NextTx /\ m \in DOMAIN newList /\ Update(m, s)
    BY <1>7, Zenon DEF ProUpServTx
  <2>2. height + 1 < EnforcementHeight => PoSeOK(s)
    BY <1>2, <2>1, PoSeOKServed, Zenon DEF ShadowInv, NextTx
  <2> HIDE DEF s
  <2> QED BY <1>4, <2>1, <2>2, Zenon
<1>8. ASSUME NEW m \in ProTx, ProUpRegTx(m)
      PROVE  ShadowInv'
  <2> DEFINE s == [BanIfNotBanned(ResetOperatorFields(newList[m]))
                      EXCEPT !.pubKeyOperator = TRUE]
  <2>1. NextTx /\ m \in DOMAIN newList /\ Update(m, s)
    BY <1>8, Zenon DEF ProUpRegTx
  <2>2. height + 1 < EnforcementHeight => PoSeOK(s)
    BY <1>2, <2>1, PoSeOKReset, Zenon
  <2> HIDE DEF s
  <2> QED BY <1>4, <2>1, <2>2, Zenon
<1>9. ASSUME NEW m \in ProTx, ProUpRevTx(m)
      PROVE  ShadowInv'
  <2> DEFINE s == BanIfNotBanned(ResetOperatorFields(newList[m]))
  <2>1. NextTx /\ m \in DOMAIN newList /\ Update(m, s)
    BY <1>9, Zenon DEF ProUpRevTx
  <2>2. height + 1 < EnforcementHeight => PoSeOK(s)
    BY <1>2, <2>1, PoSeOKReset, Zenon
  <2> HIDE DEF s
  <2> QED BY <1>4, <2>1, <2>2, Zenon
<1>10. ASSUME NEW invalid, QuorumCommitment(invalid)
       PROVE  ShadowInv'
  <2>1. building /\ height + 1 < EnforcementHeight =>
          \A k \in DOMAIN newList' : PoSeOK(newList'[k])
    BY <1>2, <1>10, PoSeOKPunished, Zenon DEF QuorumCommitment, ShadowInv
  <2>2. NextTx
    BY <1>10, Zenon DEF QuorumCommitment
  <2> QED BY <1>3, <2>1, <2>2, Zenon
<1>11. ASSUME NEW c \in Commitments, ServiceCommitment(c)
       PROVE  ShadowInv'
  <2>1. CASE RejectBlock
    BY <2>1, Zenon DEF RejectBlock, ShadowInv
  <2>2. CASE ~RejectBlock
    <3>1. NextTx /\ newList' = ApplyServiceCommitment(newList, c, height + 1)
      BY <1>11, <2>2, Zenon DEF ServiceCommitment
    <3>2. c.nEpoch \in Nat
      BY EpochAssumption, BoundAssumption DEF Commitments
    <3>3. ASSUME building, height + 1 < EnforcementHeight, NEW k \in DOMAIN newList'
          PROVE  PoSeOK(newList'[k])
      <4>1. k \in DOMAIN newList
        BY <3>1, <3>3, Zenon DEF ApplyServiceCommitment
      <4>2. newList[k] \in MNState /\ PoSeOK(newList[k])
        BY <1>2, <3>3, <4>1, Zenon DEF ShadowInv
      <4>3. PoSeOK(ApplyVerdict([newList[k] EXCEPT !.nLastServiceEpoch = c.nEpoch],
                                Verdict(c, k), height + 1 >= EnforcementHeight))
        BY <3>2, <4>2, PoSeOKJudged, Zenon
      <4> QED BY <3>1, <4>1, <4>2, <4>3, Zenon DEF ApplyServiceCommitment
    <3> QED BY <1>3, <3>1, <3>3, Zenon
  <2> QED BY <2>1, <2>2, Zenon
<1>12. ASSUME NEW spent, EndBlock(spent)
       PROVE  ShadowInv'
  <2>1. /\ building /\ building' = FALSE /\ height' = height + 1
        /\ oldList' = Without(newList, spent)
    BY <1>12, Zenon DEF EndBlock
  <2>2. ASSUME height + 1 < EnforcementHeight, NEW m \in DOMAIN oldList'
        PROVE  PoSeOK(oldList'[m])
    <3>1. m \in DOMAIN newList /\ oldList'[m] = newList[m]
      BY <2>1, <2>2, Zenon DEF Without
    <3> QED BY <2>1, <2>2, <3>1, Zenon DEF ShadowInv
  <2>3. height' < EnforcementHeight => \A m \in DOMAIN oldList' : PoSeOK(oldList'[m])
    BY <2>1, <2>2, Zenon
  <2> QED BY <2>1, <2>3, Zenon DEF ShadowInv
<1>13. CASE UNCHANGED vars
  BY <1>13, Zenon DEF vars, ShadowInv
<1> QED
  BY <1>5, <1>6, <1>7, <1>8, <1>9, <1>10, <1>11, <1>12, <1>13, Zenon DEF Next

LEMMA SpecShadowInv == Spec => [](IInv /\ ShadowInv)
<1>1. Init => ShadowInv
  <2> SUFFICES ASSUME Init PROVE ShadowInv
    BY Zenon
  <2>1. PICK M \in SUBSET ProTx : oldList = [m \in M |-> FreshState(0, TRUE)]
    BY Zenon DEF Init
  <2>2. newList = oldList
    BY Zenon DEF Init
  <2> QED BY <2>1, <2>2, PoSeOKFresh, Zenon DEF ShadowInv
<1> QED BY <1>1, InitIInv, NextIInv, ShadowInvStep, PTL DEF Spec

(***************************************************************************)
(* Below the enforcement height a masternode without operator key or       *)
(* service address is banned, through every registration, key change,      *)
(* revocation, revival and refused block.  Above it the statement is false *)
(* (BanIfNotBanned leaves a service-banned masternode as it is, and an     *)
(* ONLINE verdict later lifts that ban).                                   *)
(***************************************************************************)
THEOREM ShadowInoperableBanned ==
    Spec => [](height < EnforcementHeight => InoperableIsBanned)
<1>1. ShadowInv => (height < EnforcementHeight => InoperableIsBanned)
  BY Zenon DEF ShadowInv, PoSeOK, InoperableIsBanned, IsBanned
<1> QED BY <1>1, SpecShadowInv, PTL

(***************************************************************************)
(* Below the enforcement height a masternode at the maximum DKG penalty is *)
(* banned: DecreaseScores never has to count one down from there.          *)
(***************************************************************************)
THEOREM ShadowMaxPenaltyBanned ==
    Spec => [](height < EnforcementHeight => MaxPenaltyIsBanned)
<1>1. ShadowInv => (height < EnforcementHeight => MaxPenaltyIsBanned)
  BY Zenon DEF ShadowInv, PoSeOK, MaxPenaltyIsBanned, IsBanned
<1> QED BY <1>1, SpecShadowInv, PTL
=============================================================================
