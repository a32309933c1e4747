---------------------------- MODULE SentinelNode ----------------------------
(***************************************************************************)
(* One masternode running the sentinel layer: the active chain (with       *)
(* reorgs between two branches), the ticks UpdatedBlockTip queues for      *)
(* ProcessDSLTick on the scheduler thread, and the message thread's        *)
(* ProcessDSLMessage, interleaved at the points where the code releases a  *)
(* lock.  Liveness announcements and reports come from peers that may be   *)
(* on either branch; the manager and the store are PoSeServiceManager and  *)
(* PoSeServiceStore.                                                       *)
(*                                                                         *)
(* The early hold has room for every entry here: its capacity, and who     *)
(* gives way in it, are left out, and so are injected faults (devnet and   *)
(* regtest).  Aggregation and signing are in ServiceCommitments.           *)
(***************************************************************************)
EXTENDS PoSeServiceManager, Sequences

CONSTANTS
    Me,             \* this masternode
    Interval,       \* nDSLEpochInterval
    ForkHeight,     \* height of the last block common to both branches
    Heights,        \* bound: the heights at which the tip is observed
    StartHeight,    \* the tip at start, below the fork
    ListHeight,     \* the height from which the masternode list is version 2
    Announcers,     \* bound: the peers whose announcements arrive
    Reporters,      \* bound: the peers whose reports arrive
    Targets,        \* bound: the masternodes those reports are about
    MaxTicks,       \* bound: queued ticks
    MaxReorgs,      \* bound: reorgs
    MaxRestarts,    \* bound: restarts of the process
    MaxSyncLosses   \* bound: times the node falls out of sync

ASSUME NodeAssumption ==
    /\ Interval \in Nat \ {0}
    /\ Heights \subseteq Nat /\ StartHeight \in Heights
    /\ ForkHeight \in Nat
    /\ Me \in MN

VARIABLES
    tip,        \* the active chain: [branch, height]
    synced,     \* CMasternodeSync::IsBlockchainSynced
    ticks,      \* UpdatedBlockTip callbacks queued for the scheduler thread
    tick,       \* the tick being run
    msg,        \* the message being handled
    early,      \* m_dsl_early_responses: entries [resp, connected]
    lastAnnounced, lastEmitted, warmup, firstTick, \* the m_dsl_* tick state
    delivered,  \* history: announcements that reached us and had to be kept
    accepted,   \* history: announcements ProcessResponse accepted
    emitted,    \* history: this node's own reports, relayed
    raced,      \* history: a reorg fell into a running tick or message
    reorgs, restarts, losses

tickVars == <<lastAnnounced, lastEmitted, warmup, firstTick>>
chainVars == <<tip, synced, reorgs, restarts, losses>>
history == <<delivered, accepted, emitted, raced>>
vars == <<storeVars, managerVars, tickVars, chainVars, history, ticks, tick, msg, early>>

NoBase == <<"none", 0>>
Idle == [pc |-> "idle"]

EpochOf(h) == h \div Interval
PosOf(h) == h % Interval

\* The base block of epoch e on a branch; common to both below the fork.
Base(branch, e) ==
    IF e * Interval <= ForkHeight THEN <<"common", e>> ELSE <<branch, e>>

BranchNames == {"A", "B"}
AllBases == {Base(b, e) : b \in BranchNames, e \in Epochs}

\* epoch_base: the active chain's block at the height of e's base, if any.
ActiveBase(e) == IF e * Interval <= tip.height THEN Base(tip.branch, e) ELSE NoBase

ListAt(h) == IF h >= ListHeight THEN 2 ELSE 1

Cutoff == Interval - Interval \div 4

-----------------------------------------------------------------------------

\* AppInitMain's bootstrap: BeginEpoch on the loaded tip.
Boot(t) ==
    /\ StoreInit(EpochOf(t.height))
    /\ ManagerInit(EpochOf(t.height), Base(t.branch, EpochOf(t.height)))
    /\ ticks = <<>> /\ tick = Idle /\ msg = Idle /\ early = {}
    /\ lastAnnounced = -1 /\ lastEmitted = -1 /\ warmup = -1 /\ firstTick = TRUE

Init ==
    /\ tip = [branch |-> "A", height |-> StartHeight]
    /\ synced \in BOOLEAN
    /\ reorgs = 0 /\ restarts = 0 /\ losses = 0
    /\ delivered = {} /\ accepted = {} /\ emitted = {} /\ raced = FALSE
    /\ Boot(tip)

\* The process dies and starts again; everything above is in memory only.
Restart ==
    /\ restarts < MaxRestarts
    /\ restarts' = restarts + 1
    /\ m_reports' = {} /\ m_assignCache' = {} /\ m_currentEpoch' = EpochOf(tip.height)
    /\ m_epoch' = EpochOf(tip.height)
    /\ m_epochBlockHash' = Base(tip.branch, EpochOf(tip.height))
    /\ m_responded' = {}
    /\ ticks' = <<>> /\ tick' = Idle /\ msg' = Idle /\ early' = {}
    /\ lastAnnounced' = -1 /\ lastEmitted' = -1 /\ warmup' = -1 /\ firstTick' = TRUE
    /\ synced' = FALSE
    /\ delivered' = {}
    /\ UNCHANGED <<tip, reorgs, losses, accepted, emitted, raced>>

NewTip(t) ==
    /\ Len(ticks) < MaxTicks
    /\ tip' = t
    /\ ticks' = Append(ticks, t)
    /\ UNCHANGED <<storeVars, managerVars, tickVars, synced, restarts, losses, accepted,
                   emitted, tick, msg, early>>

Connect ==
    \E h \in Heights :
        /\ h > tip.height
        /\ \A g \in Heights : g > tip.height => g >= h
        /\ NewTip([tip EXCEPT !.height = h])
        /\ UNCHANGED <<reorgs, delivered, raced>>

Reorg ==
    \E h \in Heights, b \in BranchNames \ {tip.branch} :
        /\ reorgs < MaxReorgs
        /\ tip.height > ForkHeight /\ h > ForkHeight
        /\ NewTip([branch |-> b, height |-> h])
        /\ reorgs' = reorgs + 1
        /\ delivered' = {}
        /\ raced' = (raced \/ tick # Idle \/ msg # Idle)

\* CMasternodeSync finishes the blockchain stage, or is reset.
SyncChange ==
    /\ synced => losses < MaxSyncLosses
    /\ synced' = ~synced
    /\ losses' = losses + (IF synced THEN 1 ELSE 0)
    /\ UNCHANGED <<storeVars, managerVars, tickVars, history, ticks, tick, msg,
                   early, tip, reorgs, restarts>>

-----------------------------------------------------------------------------
\* ProcessDSLTick, on the scheduler thread.

\* The early returns: an unsynced node, or a base that is no longer active.
\* cs_main is released before BeginEpoch is called.
TickStart ==
    /\ tick = Idle /\ ticks # <<>>
    /\ LET t == Head(ticks)
           e == EpochOf(t.height)
       IN  tick' = IF synced /\ ActiveBase(e) = Base(t.branch, e)
                   THEN [pc |-> "begin", t |-> t, change |-> "None", stale |-> {}]
                   ELSE Idle
    /\ ticks' = Tail(ticks)
    /\ UNCHANGED <<storeVars, managerVars, tickVars, chainVars, history, msg, early>>

\* BeginEpoch under the manager's lock.
TickBegin ==
    /\ tick.pc = "begin"
    /\ LET e == EpochOf(tick.t.height)
           b == Base(tick.t.branch, e)
           change == EpochChange(e, b)
       IN  /\ tick' = [tick EXCEPT !.pc = IF change = "None" THEN "drain" ELSE "store",
                                   !.change = change,
                                   !.stale = StaleEpochs(e, b)]
           /\ IF change = "None" THEN UNCHANGED managerVars ELSE BeginEpochLocked(e, b)
    /\ UNCHANGED <<storeVars, tickVars, chainVars, history, ticks, msg, early>>

\* The rest of BeginEpoch.
TickStore ==
    /\ tick.pc = "store"
    /\ DropAndSetEpoch(tick.stale, EpochOf(tick.t.height))
    /\ tick' = [tick EXCEPT !.pc = "drain"]
    /\ UNCHANGED <<managerVars, tickVars, chainVars, history, ticks, msg, early>>

\* The held announcements the drain may leave unchecked: an entry that was
\* never verified is skipped when all that delivered it also delivered a bad
\* signature, which takes one entry whose signature is for another base.
Skippable(E, b) ==
    LET unverified == {x \in E : x.connected = NoBase}
    IN  IF \E x \in unverified : /\ x.resp.base # b
                                 /\ ~Recorded(m_responded, x.resp.nEpoch, x.resp.proTx)
        THEN unverified ELSE {}

\* Mutants: a reorg's epoch, or a restart's, is judged like any other.
WarmupOnStartOnly(reset, h) == IF firstTick /\ PosOf(h) # 0 THEN EpochOf(h) ELSE warmup
WarmupOnReorgOnly(reset, h) == IF reset THEN EpochOf(h) ELSE warmup

\* The epoch that is not judged: one a reorg reset, or the one in progress
\* on the first tick of this process.
WarmupEpoch(reset, h) ==
    IF reset \/ (firstTick /\ PosOf(h) # 0) THEN EpochOf(h) ELSE warmup

\* The warm-up rules and the drain of the early hold.
TickDrain ==
    /\ tick.pc = "drain"
    /\ LET e == EpochOf(tick.t.height)
           b == Base(tick.t.branch, e)
           reset == tick.change \in {"Rebased", "Rewound"}
           E == {x \in early : x.resp.nEpoch = e /\ x.connected \in {NoBase, b}}
       IN  /\ lastAnnounced' = IF reset THEN -1 ELSE lastAnnounced
           /\ lastEmitted' = IF reset THEN -1 ELSE lastEmitted
           /\ warmup' = WarmupEpoch(reset, tick.t.height)
           /\ early' = {x \in early : x.resp.nEpoch > e}
           /\ \E skipped \in SUBSET Skippable(E, b) :
                 /\ ProcessResponses({x.resp : x \in E \ skipped}, b)
                 /\ delivered' = delivered \ {x.resp : x \in skipped}
           /\ accepted' = accepted \cup (m_responded' \ m_responded)
    /\ firstTick' = FALSE
    /\ tick' = [tick EXCEPT !.pc = "act"]
    /\ UNCHANGED <<storeVars, chainVars, m_epoch, m_epochBlockHash, emitted,
                   raced, ticks, msg>>

OwnReports(e, b, v) ==
    {[nEpoch |-> e, target |-> t, sentinel |-> Me, base |-> b,
      status |-> IF Recorded(m_responded, e, t) THEN "online" ELSE "missed"]
        : t \in {x \in MN : Me \in Assigned(v, x)}}

\* The once-per-epoch announcement, and the reports at the cutoff.
TickAct ==
    /\ tick.pc = "act"
    /\ LET e == EpochOf(tick.t.height)
           b == Base(tick.t.branch, e)
           v == ListAt(tip.height)
           mine == [nEpoch |-> e, proTx |-> Me, base |-> b]
           emits == /\ PosOf(tick.t.height) >= Cutoff
                    /\ e # warmup
                    /\ e # lastEmitted
           R == IF emits THEN OwnReports(e, b, v) ELSE {}
       IN  /\ lastAnnounced' = e
           /\ ProcessResponses({r \in {mine} : lastAnnounced # e}, b)
           /\ lastEmitted' = IF emits THEN e ELSE lastEmitted
           /\ AddReports(R, v, b)
           /\ emitted' = emitted \cup {r \in R : Acceptable(r, v, b)}
    /\ accepted' = accepted \cup (m_responded' \ m_responded)
    /\ tick' = Idle
    /\ UNCHANGED <<chainVars, m_epoch, m_epochBlockHash, warmup, firstTick,
                   delivered, raced, ticks, msg, early>>

-----------------------------------------------------------------------------
\* ProcessDSLMessage, on the message thread.

\* POSERESPONSE: the epoch's base and the tip, read under cs_main.
RecvResponse ==
    /\ msg = Idle
    /\ \E r \in Responses :
          /\ r.proTx \in Announcers
          /\ r.base \in {Base(b, r.nEpoch) : b \in BranchNames}
          /\ msg' = [pc |-> "route", r |-> r, base |-> ActiveBase(r.nEpoch),
                     height |-> tip.height]
    /\ UNCHANGED <<storeVars, managerVars, tickVars, chainVars, history, ticks, tick, early>>

\* HoldDSLEarlyResponse, below its capacity.  A response for a connected base
\* is held, or its held copy promoted, only if it is signed for that base.
Hold(r, connected, tipEpoch) ==
    LET kept == {x \in early : x.resp.nEpoch \in {tipEpoch, tipEpoch + 1}}
        copies == {x \in kept : x.resp = r}
        held(E) == E \cup {[resp |-> r, connected |-> connected]}
    IN  CASE connected = NoBase /\ copies # {}  -> kept
          [] connected = NoBase /\ copies = {}  -> held(kept)
          [] connected # NoBase /\ r.base = connected -> held(kept \ copies)
          [] OTHER -> kept

OnEpoch(e, b) == m_epoch = e /\ m_epochBlockHash = b

\* Whether the response outran its base block by up to an epoch.
IsEarly(m) ==
    /\ m.base = NoBase
    /\ m.r.nEpoch * Interval - m.height \in 1 .. Interval

\* Mutant: no recheck whether the tick has drained the epoch meanwhile.
OutranTickUnchecked(m) ==
    m.base # NoBase /\ synced /\ m.r.nEpoch = EpochOf(m.height)

\* Whether it outran the tick of its connected base; rechecked under the
\* hold's lock.
OutranTick(m) ==
    /\ m.base # NoBase
    /\ synced
    /\ m.r.nEpoch = EpochOf(m.height)
    /\ ~OnEpoch(m.r.nEpoch, m.base)

RouteResponse ==
    /\ msg.pc = "route"
    /\ \/ /\ IsEarly(msg) \/ OutranTick(msg)
          /\ early' = Hold(msg.r, msg.base, EpochOf(msg.height))
          /\ msg' = Idle
       \/ /\ msg.base = NoBase /\ ~IsEarly(msg)
          /\ msg' = Idle
          /\ UNCHANGED early
       \/ /\ msg.base # NoBase /\ ~OutranTick(msg)
          /\ msg' = [msg EXCEPT !.pc = "check"]
          /\ UNCHANGED early
    /\ delivered' =
          IF /\ synced
             /\ msg.r.base = Base(tip.branch, msg.r.nEpoch)
             /\ IF msg.base = NoBase THEN IsEarly(msg)
                ELSE msg.base = msg.r.base /\ msg.r.nEpoch = EpochOf(tip.height)
          THEN delivered \cup {msg.r}
          ELSE delivered
    /\ UNCHANGED <<storeVars, managerVars, tickVars, chainVars, accepted, emitted,
                   raced, ticks, tick>>

\* ProcessResponse up to the signature check, outside the second lock.
CheckResponse ==
    /\ msg.pc = "check"
    /\ msg' = IF ResponseFresh(msg.r) /\ msg.r.base = msg.base
              THEN [msg EXCEPT !.pc = "insert"] ELSE Idle
    /\ UNCHANGED <<storeVars, managerVars, tickVars, chainVars, history, ticks, tick, early>>

\* The rest of ProcessResponse.
InsertResponse ==
    /\ msg.pc = "insert"
    /\ RecordVerified({msg.r})
    /\ accepted' = accepted \cup (m_responded' \ m_responded)
    /\ msg' = Idle
    /\ UNCHANGED <<storeVars, m_epoch, m_epochBlockHash, tickVars, chainVars,
                   delivered, emitted, raced, ticks, tick, early>>

\* POSEREPORT: the base is looked up first; no base, no report.
RecvReport ==
    /\ msg = Idle
    /\ \E r \in Reports :
          /\ r.sentinel \in Reporters /\ r.target \in Targets
          /\ r.base \in {Base(b, r.nEpoch) : b \in BranchNames}
          /\ ActiveBase(r.nEpoch) # NoBase
          /\ msg' = [pc |-> "report", r |-> r, base |-> ActiveBase(r.nEpoch)]
    /\ UNCHANGED <<storeVars, managerVars, tickVars, chainVars, history, ticks, tick, early>>

\* AddReport, against the masternode list at the base.
ProcessReport ==
    /\ msg.pc = "report"
    /\ AddReports({msg.r}, ListAt(msg.r.nEpoch * Interval), msg.base)
    /\ msg' = Idle
    /\ UNCHANGED <<managerVars, tickVars, chainVars, history, ticks, tick, early>>

-----------------------------------------------------------------------------

Next ==
    \/ Connect \/ Reorg \/ SyncChange \/ Restart
    \/ TickStart \/ TickBegin \/ TickStore \/ TickDrain \/ TickAct
    \/ RecvResponse \/ RouteResponse \/ CheckResponse \/ InsertResponse
    \/ RecvReport \/ ProcessReport

Spec == Init /\ [][Next]_vars

-----------------------------------------------------------------------------

\* Nothing in flight, and the manager on the tip's epoch.
Settled ==
    /\ tick = Idle /\ ticks = <<>> /\ msg = Idle
    /\ OnEpoch(EpochOf(tip.height), ActiveBase(EpochOf(tip.height)))

\* Manager, store, hold and tick state keep their shape and their windows: no
\* report is held below the store's window nor, until a reorg, above it, and
\* one at most per sentinel, target and epoch (CServiceReportStore::m_reports).
TypeOK ==
    /\ m_reports \subseteq Reports /\ emitted \subseteq Reports
    /\ \A r \in m_reports : /\ r.nEpoch >= OldestKeptEpoch(m_currentEpoch)
                            /\ reorgs = 0 => r.nEpoch <= m_currentEpoch
    /\ \A r, s \in m_reports : SameKey(r, s) => r = s
    /\ m_responded \subseteq Responses
    /\ \A r, s \in m_responded : r.nEpoch = s.nEpoch /\ r.proTx = s.proTx => r = s
    /\ m_epoch \in Epochs /\ m_currentEpoch \in Epochs
    /\ m_epochBlockHash \in Bases
    /\ early \subseteq [resp : Responses, connected : Bases \cup {NoBase}]
    /\ lastAnnounced \in Epochs \cup {-1}
    /\ lastEmitted \in Epochs \cup {-1}
    /\ warmup \in Epochs \cup {-1}

\* The node has r, or still holds it as one that came before its base block:
\* every later tick of the epoch drains those too.
Kept(r) ==
    \/ Recorded(m_responded, r.nEpoch, r.proTx)
    \/ [resp |-> r, connected |-> NoBase] \in early

\* An announcement that reaches a synced node before its base block, before
\* its tick or after it is not lost: once the node has caught up it is kept,
\* whichever of ProcessDSLMessage, the hold and the drain handled it - unless
\* a reorg fell into a running tick or message.
DeliveredIsKept ==
    Settled /\ ~raced => \A r \in delivered : OnEpoch(r.nEpoch, r.base) => Kept(r)

\* The same, with reorgs at any point: a tick queued for a base that a reorg
\* has disconnected leaves the held announcements to the active base's tick.
ObsoleteTickKeepsHold ==
    Settled => \A r \in delivered : OnEpoch(r.nEpoch, r.base) => Kept(r)

\* A sentinel never reports MISSED a masternode whose announcement for that
\* very epoch and base it had accepted: after a reorg, and after a restart in
\* mid-epoch, the epoch is a warm-up that is not judged.
NoFalseMissed ==
    [][\A r \in emitted' \ emitted :
          r.status = "missed" =>
              [nEpoch |-> r.nEpoch, proTx |-> r.target, base |-> r.base] \notin accepted]_vars

\* A sentinel never signs both ONLINE and MISSED for one target, epoch and
\* base, whatever reorgs and restarts do to lastEmitted and the warm-up.
NoEquivocation ==
    \A r, s \in emitted : SameKey(r, s) /\ r.base = s.base => r = s

\* This node's own reports for the current epoch are for its current base:
\* BeginEpoch drops what it had reported on an abandoned chain.
OwnReportsOnBase ==
    Settled => \A r \in m_reports :
        r.sentinel = Me /\ r.nEpoch = m_epoch => r.base = m_epochBlockHash

\* BeginEpoch's discard of stale responses holds: those recorded for the
\* current epoch were made for its base.
RespondedOnBase ==
    Settled => \A r \in m_responded : r.nEpoch = m_epoch => r.base = m_epochBlockHash

\* A rewind drops every report that was made on the abandoned chain, for the
\* new epoch and for those above it: BeginEpoch lists their epochs as stale.
RewindDropsReports ==
    [][tick.pc = "begin" /\ tick'.pc = "store" /\ tick'.change = "Rewound" =>
          \A r \in m_reports :
              r.nEpoch >= m_epoch' =>
                  r.nEpoch \in tick'.stale \/ r.base = Base(tick.t.branch, r.nEpoch)]_vars

\* Reports are checked against the assignment of the list at the epoch base,
\* the one the aggregator uses.
AssignmentOfBaseList ==
    \A a \in m_assignCache : a.sentinels = Assigned(ListAt(a.epoch * Interval), a.target)
=============================================================================
