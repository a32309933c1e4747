-------------------------- MODULE PoSeServiceStore --------------------------
(***************************************************************************)
(* CServiceReportStore: the pool of signed sentinel reports a node keeps   *)
(* for the last KeepEpochs epochs, and the memo of sentinel assignments it *)
(* checks them with.  Every operation holds m_mutex, so each is one step.  *)
(*                                                                         *)
(* A report's signature is modelled by the epoch base it was made for; a   *)
(* masternode list by its version.                                         *)
(***************************************************************************)
EXTENDS Integers, FiniteSets

CONSTANTS
    MN,             \* masternodes
    Epochs,         \* bound: epoch numbers
    Bases,          \* epoch-base blocks
    Versions,       \* versions of the masternode list
    Assigned(_, _), \* CalcSentinelsForMN: list version, target -> sentinels
    KeepEpochs      \* retained window, in epochs

ASSUME StoreAssumption ==
    /\ Epochs \subseteq Nat
    /\ KeepEpochs \in Nat \ {0}
    /\ \A v \in Versions, t \in MN : Assigned(v, t) \subseteq MN \ {t}

VARIABLES
    m_reports,      \* the reports held
    m_currentEpoch, \* the store's epoch
    m_assignCache   \* the memo: entries [epoch, base, target, sentinels]

storeVars == <<m_reports, m_currentEpoch, m_assignCache>>

Reports == [nEpoch : Epochs, target : MN, sentinel : MN,
            status : {"online", "missed"}, base : Bases]

OldestKeptEpoch(current) ==
    IF current < KeepEpochs THEN 0 ELSE current - KeepEpochs + 1

StoreInit(e) ==
    /\ m_reports = {}
    /\ m_currentEpoch = e
    /\ m_assignCache = {}

\* One report per sentinel, target and epoch: the base is not part of the key.
SameKey(r, s) ==
    r.nEpoch = s.nEpoch /\ r.target = s.target /\ r.sentinel = s.sentinel

InWindow(r) ==
    r.nEpoch <= m_currentEpoch /\ r.nEpoch >= OldestKeptEpoch(m_currentEpoch)

\* SentinelsFor: a lookup in cache, or the assignment of the caller's list.
SentinelsFor(cache, e, v, target, base) ==
    IF \E a \in cache : a.epoch = e /\ a.base = base /\ a.target = target
    THEN (CHOOSE a \in cache : a.epoch = e /\ a.base = base /\ a.target = target).sentinels
    ELSE Assigned(v, target)

\* Mutant: the duplicate test is lost.
ReachesAgain(r) == InWindow(r)

\* AddReport up to the assignment: window and duplicate.
Reaches(r) == InWindow(r) /\ ~\E s \in m_reports : SameKey(r, s)

\* The whole of AddReport's verdict on r, checked against base and list v.
Acceptable(r, v, base) ==
    /\ Reaches(r)
    /\ r.sentinel \in SentinelsFor(m_assignCache, r.nEpoch, v, r.target, base)
    /\ r.base = base

\* SentinelsFor keeps one base per epoch: another base replaces the entries.
Memoised(R, v, base) ==
    {a \in m_assignCache : a.base = base \/ ~\E r \in R : r.nEpoch = a.epoch}
        \cup {[epoch |-> r.nEpoch, base |-> base, target |-> r.target,
               sentinels |-> SentinelsFor(m_assignCache, r.nEpoch, v, r.target, base)]
                 : r \in R}

\* AddReport, for one report off the wire or for each of this node's own.
AddReports(R, v, base) ==
    /\ m_reports' = m_reports \cup {r \in R : Acceptable(r, v, base)}
    /\ m_assignCache' = Memoised({r \in R : Reaches(r)}, v, base)
    /\ UNCHANGED m_currentEpoch

\* DropEpoch for each stale epoch, then SetCurrentEpoch.
DropAndSetEpoch(stale, e) ==
    LET oldest == OldestKeptEpoch(e) IN
    /\ m_reports' = {r \in m_reports : r.nEpoch \notin stale /\ r.nEpoch >= oldest}
    /\ m_assignCache' = IF e < m_currentEpoch THEN {}
                        ELSE {a \in m_assignCache : a.epoch \notin stale /\ a.epoch >= oldest}
    /\ m_currentEpoch' = e
=============================================================================
