----------------------------- MODULE MNListPoSe -----------------------------
(***************************************************************************)
(* The penalty and ban state of the deterministic masternode list, as      *)
(* CDeterministicMNManager::RebuildListFromBlock builds it block by block: *)
(* the DKG penalty (nPoSePenalty, nPoSeBanHeight) and the service domain   *)
(* of the sentinel layer (nMissedEpochs, fRewardSuspended, nDSLBanHeight). *)
(*                                                                         *)
(* oldList is the list of pindexPrev, newList the list under construction. *)
(* A block is built by one action per transaction branch; a refused        *)
(* transaction discards newList, as state.Invalid does.  Ban heights are   *)
(* kept as flags (only "# -1" is ever tested); addresses and operator keys *)
(* as "is one set".                                                        *)
(***************************************************************************)
EXTENDS Integers, FiniteSets, Sequences

CONSTANTS
    ProTx,             \* masternode identities (hashes of ProRegTxs)
    Interval,          \* nDSLEpochInterval
    ActivationHeight,  \* nDSLActivationHeight
    EnforcementHeight, \* nDSLEnforcementHeight
    V2Height,          \* nDSLCommitmentV2Height
    SuspendEpochs,     \* nDSLSuspendEpochs
    BanEpochs,         \* nDSLBanEpochs
    MassOutagePct,     \* nDSLMassOutagePct
    MaxPenalty,        \* CalcMaxPoSePenalty(), constant below 100 masternodes
    DKGPenalty,        \* CalcPenalty(66)
    MaxHeight,         \* bound: height of the last block
    MaxTxs             \* bound: special transactions per block

ASSUME EpochAssumption ==
    /\ Interval \in Nat \ {0}
    /\ ActivationHeight \in Nat
    /\ EnforcementHeight \in Nat
    /\ V2Height \in Nat

\* params.h: suspension comes "one step before a ban".
ASSUME PenaltyAssumption ==
    /\ SuspendEpochs \in Nat \ {0}
    /\ BanEpochs \in Nat
    /\ BanEpochs >= SuspendEpochs
    /\ MassOutagePct \in Nat
    /\ MaxPenalty \in Nat \ {0}
    /\ DKGPenalty \in Nat \ {0}

ASSUME BoundAssumption == MaxHeight \in Nat /\ MaxTxs \in Nat /\ IsFiniteSet(ProTx)

VARIABLES
    height,         \* height of pindexPrev
    oldList,        \* masternode -> state, at pindexPrev
    newList,        \* masternode -> state, under construction
    baseMNs,        \* the masternodes listed at the base of the open epoch
    registered,     \* identities registered so far (a ProRegTx hash is unique)
    building,       \* inside RebuildListFromBlock
    txs,            \* special transactions processed in this block
    dslCommitments, \* service commitments processed in this block
    oldCommitments, \* the service commitments of the chain up to pindexPrev
    newCommitments  \* those and the ones of the block being built

vars == <<height, oldList, newList, baseMNs, registered, building, txs,
          dslCommitments, oldCommitments, newCommitments>>

(***************************************************************************)
(* CDeterministicMNState.                                                  *)
(***************************************************************************)
MNState == [nRegisteredHeight : Nat,
            nPoSePenalty : Nat,
            nPoSeBan : BOOLEAN,
            nMissedEpochs : Nat,
            nLastServiceEpoch : Nat,
            fRewardSuspended : BOOLEAN,
            nDSLBan : BOOLEAN,
            pubKeyOperator : BOOLEAN,
            addr : BOOLEAN]

IsBanned(s) == s.nPoSeBan \/ s.nDSLBan

BanIfNotBanned(s) == IF IsBanned(s) THEN s ELSE [s EXCEPT !.nPoSeBan = TRUE]

ResetOperatorFields(s) == [s EXCEPT !.pubKeyOperator = FALSE, !.addr = FALSE]

\* Mutant: a ProUpServTx revive also clears the service ban.
ReviveBothDomains(s) ==
    [s EXCEPT !.nPoSePenalty = 0, !.nPoSeBan = FALSE, !.nDSLBan = FALSE]

Revive(s) == [s EXCEPT !.nPoSePenalty = 0, !.nPoSeBan = FALSE]

\* A ProRegTx without a service address starts banned.
FreshState(h, withAddr) ==
    LET s == [nRegisteredHeight |-> h, nPoSePenalty |-> 0, nPoSeBan |-> FALSE,
              nMissedEpochs |-> 0, nLastServiceEpoch |-> 0,
              fRewardSuspended |-> FALSE, nDSLBan |-> FALSE, pubKeyOperator |-> TRUE, addr |-> withAddr]
    IN  IF withAddr THEN s ELSE BanIfNotBanned(s)

Without(list, M) == [m \in DOMAIN list \ M |-> list[m]]

(***************************************************************************)
(* PoSePunish, DecreaseScores / PoSeDecrease.                              *)
(***************************************************************************)
\* Mutant: the ban needs a penalty above the maximum it is capped to.
PoSePunishAboveMax(s) ==
    LET sum == s.nPoSePenalty + DKGPenalty
        p   == [s EXCEPT !.nPoSePenalty = IF sum > MaxPenalty THEN MaxPenalty
                                                              ELSE sum]
    IN  IF p.nPoSePenalty > MaxPenalty THEN BanIfNotBanned(p) ELSE p

PoSePunish(s) ==
    LET sum == s.nPoSePenalty + DKGPenalty
        p   == [s EXCEPT !.nPoSePenalty = IF sum > MaxPenalty THEN MaxPenalty
                                                              ELSE sum]
    IN  IF p.nPoSePenalty >= MaxPenalty /\ ~IsBanned(p)
        THEN BanIfNotBanned(p)
        ELSE p

\* Mutant: the decrease does not ask for a positive penalty.
DecreaseScoresUnguarded(list) ==
    [m \in DOMAIN list |->
        IF ~IsBanned(list[m]) THEN [list[m] EXCEPT !.nPoSePenalty = @ - 1]
                              ELSE list[m]]

DecreaseScores(list) ==
    [m \in DOMAIN list |->
        IF ~IsBanned(list[m]) /\ list[m].nPoSePenalty > 0
        THEN [list[m] EXCEPT !.nPoSePenalty = @ - 1]
        ELSE list[m]]

(***************************************************************************)
(* The service commitment of an epoch.  missed and observed are the        *)
(* bitfields, as sets of masternodes of the epoch-base list.  attested     *)
(* stands for the checks against data outside this module: the epoch base  *)
(* named, the bitfield sizes, the selected quorum and its signature.       *)
(***************************************************************************)
Commitments ==
    [nVersion : {1, 2}, nEpoch : 0 .. (MaxHeight \div Interval),
     missed : SUBSET baseMNs, observed : SUBSET baseMNs, attested : BOOLEAN]

RequiredServiceCommitmentVersion(h) == IF h >= V2Height THEN 2 ELSE 1

\* CheckPoSeServiceCommitmentTx for a block at height h.
CheckPoSeServiceCommitmentTx(c, h) ==
    /\ c.nVersion = RequiredServiceCommitmentVersion(h)
    /\ c.nVersion >= 2 => c.missed \subseteq c.observed
    /\ h - Interval >= ActivationHeight
    /\ h % Interval = 0
    /\ c.nEpoch = (h \div Interval) - 1
    /\ c.attested

IsObserved(c, m) == c.nVersion < 2 \/ m \in c.observed

\* Mutant: a strict comparison at the threshold.
MassOutageStrict(c) ==
    /\ baseMNs # {}
    /\ Cardinality(c.missed) * 100 > Cardinality(baseMNs) * MassOutagePct

MassOutage(c) ==
    /\ baseMNs # {}
    /\ Cardinality(c.missed) * 100 >= Cardinality(baseMNs) * MassOutagePct

\* Mutant: a masternode nobody observed counts as online.
VerdictUnobservedOnline(c, m) ==
    CASE MassOutage(c) -> "none"
      [] ~MassOutage(c) /\ m \notin c.missed -> "online"
      [] OTHER -> "missed"

\* The verdict a commitment pronounces on a listed masternode.
Verdict(c, m) ==
    CASE MassOutage(c) \/ ~IsObserved(c, m) -> "none"
      [] ~MassOutage(c) /\ IsObserved(c, m) /\ m \notin c.missed -> "online"
      [] OTHER -> "missed"

Online(s, enforce) ==
    [s EXCEPT !.nMissedEpochs = 0,
              !.fRewardSuspended = IF enforce THEN FALSE ELSE @,
              !.nDSLBan = IF enforce THEN FALSE ELSE @]

\* Mutants: penalties already in the shadow phase; a ban one epoch late.
MissedShadowPenalty(s, enforce) ==
    LET n == s.nMissedEpochs + 1 IN
    [s EXCEPT !.nMissedEpochs = n,
              !.fRewardSuspended = @ \/ n >= SuspendEpochs,
              !.nDSLBan = @ \/ n >= BanEpochs]

MissedBanLate(s, enforce) ==
    LET n == s.nMissedEpochs + 1 IN
    [s EXCEPT !.nMissedEpochs = n,
              !.fRewardSuspended = @ \/ (enforce /\ n >= SuspendEpochs),
              !.nDSLBan = @ \/ (enforce /\ n > BanEpochs)]

Missed(s, enforce) ==
    LET n == s.nMissedEpochs + 1 IN
    [s EXCEPT !.nMissedEpochs = n,
              !.fRewardSuspended = @ \/ (enforce /\ n >= SuspendEpochs),
              !.nDSLBan = @ \/ (enforce /\ n >= BanEpochs)]

ApplyVerdict(s, v, enforce) ==
    CASE v = "online" -> Online(s, enforce)
      [] v = "missed" -> Missed(s, enforce)
      [] OTHER -> s

\* ApplyServiceCommitment: every masternode of the base list still listed.
ApplyServiceCommitment(list, c, h) ==
    [m \in DOMAIN list |->
        IF m \in baseMNs
        THEN ApplyVerdict([list[m] EXCEPT !.nLastServiceEpoch = c.nEpoch],
                          Verdict(c, m), h >= EnforcementHeight)
        ELSE list[m]]

-----------------------------------------------------------------------------

\* The window opens on a block at which some masternodes are in service.
Init ==
    /\ height = 0
    /\ \E M \in SUBSET ProTx :
          /\ oldList = [m \in M |-> FreshState(0, TRUE)]
          /\ baseMNs = M
          /\ registered = M
    /\ newList = oldList
    /\ building = FALSE
    /\ txs = 0
    /\ dslCommitments = 0
    /\ oldCommitments = <<>>
    /\ newCommitments = <<>>

\* RebuildListFromBlock up to the transaction loop.
BeginBlock ==
    /\ ~building
    /\ height < MaxHeight
    /\ building' = TRUE
    /\ newList' = DecreaseScores(oldList)
    /\ txs' = 0
    /\ dslCommitments' = 0
    /\ UNCHANGED <<height, oldList, baseMNs, registered, oldCommitments,
                   newCommitments>>

\* One more special transaction of this block.
NextTx ==
    /\ building
    /\ txs < MaxTxs
    /\ txs' = txs + 1
    /\ UNCHANGED <<height, oldList, baseMNs, registered, building, oldCommitments>>

Update(m, s) == newList' = [newList EXCEPT ![m] = s]

\* A registration, replacing the masternode whose collateral it reuses, if any.
ProRegTx(m, replaced, withAddr) ==
    /\ NextTx
    /\ m \notin registered \cup DOMAIN newList
    /\ LET kept == Without(newList, replaced)
       IN  newList' = [n \in DOMAIN kept \cup {m} |->
                          IF n = m THEN FreshState(height + 1, withAddr)
                                   ELSE kept[n]]
    /\ UNCHANGED <<dslCommitments, newCommitments>>

\* Mutant: the revive does not ask whether the keys are set.
ProUpServTxKeyless(m) ==
    /\ NextTx
    /\ m \in DOMAIN newList
    /\ m \in DOMAIN oldList /\ oldList[m].pubKeyOperator
    /\ LET s == [newList[m] EXCEPT !.addr = TRUE]
       IN  Update(m, IF IsBanned(s) THEN Revive(s) ELSE s)
    /\ UNCHANGED <<dslCommitments, newCommitments>>

\* CheckProUpServTx verified the operator's signature against pindexPrev.
ProUpServTx(m) ==
    /\ NextTx
    /\ m \in DOMAIN newList
    /\ m \in DOMAIN oldList /\ oldList[m].pubKeyOperator
    /\ LET s == [newList[m] EXCEPT !.addr = TRUE]
       IN  Update(m, IF IsBanned(s) /\ s.pubKeyOperator THEN Revive(s) ELSE s)
    /\ UNCHANGED <<dslCommitments, newCommitments>>

\* A ProUpRegTx that changes the operator key; one that keeps it changes
\* nothing modelled here.
ProUpRegTx(m) ==
    /\ NextTx
    /\ m \in DOMAIN newList
    /\ m \in DOMAIN oldList
    /\ Update(m, [BanIfNotBanned(ResetOperatorFields(newList[m]))
                     EXCEPT !.pubKeyOperator = TRUE])
    /\ UNCHANGED <<dslCommitments, newCommitments>>

ProUpRevTx(m) ==
    /\ NextTx
    /\ m \in DOMAIN newList
    /\ m \in DOMAIN oldList /\ oldList[m].pubKeyOperator
    /\ Update(m, BanIfNotBanned(ResetOperatorFields(newList[m])))
    /\ UNCHANGED <<dslCommitments, newCommitments>>

\* HandleQuorumCommitment: the members a DKG found invalid that are still listed.
QuorumCommitment(invalid) ==
    /\ NextTx
    /\ newList' = [m \in DOMAIN newList |->
                      IF m \in invalid THEN PoSePunish(newList[m]) ELSE newList[m]]
    /\ UNCHANGED <<dslCommitments, newCommitments>>

\* state.Invalid: the block is refused and its list thrown away.
RejectBlock ==
    /\ building
    /\ building' = FALSE
    /\ newList' = oldList
    /\ newCommitments' = oldCommitments
    /\ txs' = 0
    /\ dslCommitments' = 0
    /\ UNCHANGED <<height, oldList, baseMNs, registered, oldCommitments>>

\* Mutant: no limit of one commitment per block.
ServiceCommitmentAlwaysAllowed(c) == CheckPoSeServiceCommitmentTx(c, height + 1)

ServiceCommitmentAllowed(c) ==
    /\ dslCommitments = 0
    /\ CheckPoSeServiceCommitmentTx(c, height + 1)

ServiceCommitment(c) ==
    \/ /\ NextTx
       /\ ServiceCommitmentAllowed(c)
       /\ dslCommitments' = dslCommitments + 1
       /\ newList' = ApplyServiceCommitment(newList, c, height + 1)
       /\ newCommitments' =
            Append(newCommitments, [epoch |-> c.nEpoch, height |-> height + 1,
                                    base |-> baseMNs, missed |-> c.missed,
                                    observed |-> {m \in baseMNs : IsObserved(c, m)}])
    \/ /\ txs < MaxTxs
       /\ ~ServiceCommitmentAllowed(c)
       /\ RejectBlock

\* The collateral spends after the transaction loop, and the block connected.
EndBlock(spent) ==
    /\ building
    /\ building' = FALSE
    /\ height' = height + 1
    /\ newList' = Without(newList, spent)
    /\ oldList' = newList'
    /\ baseMNs' = IF height' % Interval = 0 THEN DOMAIN newList' ELSE baseMNs
    /\ registered' = registered \cup DOMAIN newList
    /\ oldCommitments' = newCommitments
    /\ txs' = 0
    /\ dslCommitments' = 0
    /\ UNCHANGED newCommitments

Next ==
    \/ BeginBlock
    \/ \E m \in ProTx, replaced \in SUBSET DOMAIN newList, a \in BOOLEAN :
          Cardinality(replaced) <= 1 /\ ProRegTx(m, replaced, a)
    \/ \E m \in ProTx : ProUpServTx(m) \/ ProUpRegTx(m) \/ ProUpRevTx(m)
    \/ \E invalid \in SUBSET DOMAIN newList \ {{}} : QuorumCommitment(invalid)
    \/ \E c \in Commitments : ServiceCommitment(c)
    \/ \E spent \in SUBSET DOMAIN newList : EndBlock(spent)

Spec == Init /\ [][Next]_vars

-----------------------------------------------------------------------------

CommitmentRecords ==
    [epoch : Nat, height : Nat, base : SUBSET ProTx, missed : SUBSET ProTx,
     observed : SUBSET ProTx]

IsMNList(list) ==
    /\ DOMAIN list \subseteq ProTx
    /\ \A m \in DOMAIN list : list[m] \in MNState

\* Every variable has its type; a list is a function on some masternodes.
TypeOK ==
    /\ height \in Nat
    /\ IsMNList(oldList)
    /\ IsMNList(newList)
    /\ baseMNs \subseteq ProTx
    /\ registered \subseteq ProTx
    /\ building \in BOOLEAN
    /\ txs \in Nat
    /\ dslCommitments \in Nat
    /\ oldCommitments \in Seq(CommitmentRecords)
    /\ newCommitments \in Seq(CommitmentRecords)

\* Whether a commitment of the chain pronounces on m: it was in the base list,
\* enough sentinels observed it, and the epoch was no mass outage.
Pronounces(r, m) ==
    /\ m \in r.observed
    /\ Cardinality(r.missed) * 100 < Cardinality(r.base) * MassOutagePct

\* The positions of the commitments that found m missed, since the last one
\* that found it online.
MissedRun(m) ==
    {i \in DOMAIN oldCommitments :
        /\ Pronounces(oldCommitments[i], m)
        /\ \A j \in i .. Len(oldCommitments) :
              Pronounces(oldCommitments[j], m) => m \in oldCommitments[j].missed}

(***************************************************************************)
(* ApplyServiceCommitment keeps its counter per masternode, through        *)
(* registrations, removals, bans of the other domain and refused blocks;   *)
(* the counter is what the commitments of the chain say: the number of     *)
(* MISSED verdicts since the last ONLINE one, epochs that pronounced       *)
(* nothing (mass outage, not observed) neither adding nor healing.         *)
(***************************************************************************)
CounterIsMissedRun ==
    \A m \in DOMAIN oldList : oldList[m].nMissedEpochs = Cardinality(MissedRun(m))

(***************************************************************************)
(* The "bad-dsl-multiple" comment of RebuildListFromBlock: one commitment  *)
(* per block and, since it sits at the boundary closing its own epoch, one *)
(* per epoch -- never two verdicts on the same epoch, even across refused  *)
(* blocks.                                                                 *)
(***************************************************************************)
OneCommitmentPerEpoch ==
    \A i, j \in DOMAIN newCommitments :
        i < j => newCommitments[i].epoch < newCommitments[j].epoch

(***************************************************************************)
(* The service penalties of a list: a suspension needs SuspendEpochs, a    *)
(* service ban BanEpochs missed epochs that no ONLINE verdict has healed;  *)
(* a service-banned masternode is suspended too; and before the            *)
(* enforcement height (the shadow phase) neither exists.                   *)
(***************************************************************************)
Earned(s, h) ==
    /\ s.fRewardSuspended => s.nMissedEpochs >= SuspendEpochs /\ h >= EnforcementHeight
    /\ s.nDSLBan => s.nMissedEpochs >= BanEpochs /\ s.fRewardSuspended

PenaltiesEarned(list, h) == \A m \in DOMAIN list : Earned(list[m], h)

ServicePenaltiesEarned == PenaltiesEarned(oldList, height)

(***************************************************************************)
(* The converse: once enforced, an outage does lead to the penalty.  A     *)
(* masternode whose last MISSED verdict was enforced and completed a run   *)
(* of BanEpochs is service-banned, whatever transactions it sent since.    *)
(***************************************************************************)
OutageIsBanned ==
    \A m \in DOMAIN oldList :
        (/\ Cardinality(MissedRun(m)) >= BanEpochs
         /\ \E i \in MissedRun(m) : oldCommitments[i].height >= EnforcementHeight)
        => oldList[m].nDSLBan

(***************************************************************************)
(* "a service ban clears only via the service path, not a ProUpServTx      *)
(* revive" (dmnstate.h): between two lists of the chain a service ban      *)
(* disappears from a listed masternode only if the block carries a         *)
(* commitment that observed it online.                                     *)
(***************************************************************************)
ServiceBanHealsOnline ==
    [][\A m \in DOMAIN oldList \cap DOMAIN oldList' :
          (oldList[m].nDSLBan /\ ~oldList'[m].nDSLBan) =>
             \E i \in DOMAIN oldCommitments' :
                /\ i > Len(oldCommitments)
                /\ m \in oldCommitments'[i].observed \ oldCommitments'[i].missed]_vars

(***************************************************************************)
(* nDSLMassOutagePct bounds the damage of one block: the masternodes newly *)
(* suspended or service-banned in a block are fewer than that share of the *)
(* epoch-base list.                                                        *)
(***************************************************************************)
BanWaveBounded ==
    [][LET hit == {m \in DOMAIN oldList \cap DOMAIN oldList' :
                      \/ oldList'[m].nDSLBan /\ ~oldList[m].nDSLBan
                      \/ oldList'[m].fRewardSuspended /\ ~oldList[m].fRewardSuspended}
       IN  hit # {} =>
              Cardinality(hit) * 100 < Cardinality(baseMNs) * MassOutagePct]_vars

(***************************************************************************)
(* A masternode without an operator key or without a service address is    *)
(* banned: a ProRegTx without address starts banned, and RebuildListFrom-  *)
(* Block resets the operator fields and "put[s] MN into PoSe-banned state" *)
(* on a key change or a revocation, until a ProUpServTx revives it.        *)
(***************************************************************************)
InoperableIsBanned ==
    \A m \in DOMAIN oldList :
        ~(oldList[m].pubKeyOperator /\ oldList[m].addr) => IsBanned(oldList[m])

(***************************************************************************)
(* DecreaseScores: "if a MN ever reaches the maximum, it stays in PoSe     *)
(* banned state until revived".                                            *)
(***************************************************************************)
MaxPenaltyIsBanned ==
    \A m \in DOMAIN oldList :
        oldList[m].nPoSePenalty >= MaxPenalty => IsBanned(oldList[m])
=============================================================================
