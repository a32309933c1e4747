------------------------- MODULE PoSeServiceManager -------------------------
(***************************************************************************)
(* CPoSeServiceManager: which masternodes announced their liveness in each *)
(* epoch.  BeginEpoch and ProcessResponse release m_mutex half-way, so     *)
(* each is two steps here.  (The commitments the manager also keeps are in *)
(* ServiceCommitments.)                                                    *)
(***************************************************************************)
EXTENDS PoSeServiceStore

VARIABLES
    m_epoch,          \* current epoch
    m_epochBlockHash, \* and its base
    m_responded       \* announcements recorded: records [nEpoch, proTx, base],
                      \* base being the one the signature was verified against

managerVars == <<m_epoch, m_epochBlockHash, m_responded>>

Responses == [nEpoch : Epochs, proTx : MN, base : Bases]

ManagerInit(e, b) ==
    /\ m_epoch = e
    /\ m_epochBlockHash = b
    /\ m_responded = {}

\* Whether m is recorded for epoch e in R, under whatever base.
Recorded(R, e, m) == \E r \in R : r.nEpoch = e /\ r.proTx = m

EpochChange(e, b) ==
    CASE e = m_epoch /\ b = m_epochBlockHash -> "None"
      [] e < m_epoch                         -> "Rewound"
      [] e = m_epoch /\ b # m_epochBlockHash -> "Rebased"
      [] OTHER                               -> "Entered"

\* Mutant: only a rewind makes data stale.
StaleOnRewindOnly(e, b) ==
    IF EpochChange(e, b) = "Rewound"
    THEN {r.nEpoch : r \in {x \in m_responded : x.nEpoch >= e}} ELSE {}

\* The epochs whose data a reorg invalidated, as BeginEpoch collects them.
StaleEpochs(e, b) ==
    CASE EpochChange(e, b) = "Rewound" -> {r.nEpoch : r \in {x \in m_responded : x.nEpoch >= e}}
      [] EpochChange(e, b) = "Rebased" -> {e}
      [] OTHER                         -> {}

\* BeginEpoch under m_mutex; the store is brought along after it is released.
BeginEpochLocked(e, b) ==
    /\ m_epoch' = e
    /\ m_epochBlockHash' = b
    /\ m_responded' = {r \in m_responded : /\ r.nEpoch \notin StaleEpochs(e, b)
                                           /\ r.nEpoch >= OldestKeptEpoch(e)}

\* ProcessResponse, first critical section: the window and the duplicate test.
ResponseInWindow(r) == r.nEpoch + KeepEpochs > m_epoch /\ r.nEpoch <= m_epoch + KeepEpochs

ResponseFresh(r) == ResponseInWindow(r) /\ ~Recorded(m_responded, r.nEpoch, r.proTx)

\* Second critical section: the responses R whose signature verified.
RecordVerified(R) ==
    m_responded' = m_responded \cup
                   {r \in R : ~Recorded(m_responded, r.nEpoch, r.proTx)}

\* ProcessResponse of each of R against base b, with nothing in between.
ProcessResponses(R, b) == RecordVerified({r \in R : ResponseFresh(r) /\ r.base = b})
=============================================================================
