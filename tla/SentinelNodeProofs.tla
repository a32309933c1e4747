------------------------- MODULE SentinelNodeProofs -------------------------
(***************************************************************************)
(* For every list, epoch length, fork and bound on reorgs, restarts and    *)
(* losses of sync, and every interleaving of the two threads: the state    *)
(* keeps its types and windows, this node's own reports are for the base   *)
(* it is on, it signs one report per target, epoch and base, it reports no *)
(* masternode MISSED that it had accepted, and it loses no announcement    *)
(* that had to be kept. (The last three up to a number of reorgs.)         *)
(*                                                                         *)
(* None of these is inductive. TickInv and StoreInv say where the manager  *)
(* and the store are while a tick runs. OwnInv says that this node         *)
(* announces before it reports, which is what lets BeginEpoch find the     *)
(* epochs to drop. For the reports it signed, Order says in which order    *)
(* tips reach the tick, and NotAgain why no tick to come can report the    *)
(* same again. For the reports of MISSED, AcceptedOK says of every         *)
(* announcement accepted why no tick to come can miss it. For those that   *)
(* had to be kept, Somewhere says which of the threads has them in hand.   *)
(***************************************************************************)
EXTENDS SentinelNode, TLAPS

-----------------------------------------------------------------------------
(* Epochs and heights. *)

LEMMA EpochBounds ==
    ASSUME NEW h \in Nat
    PROVE  /\ EpochOf(h) \in Nat /\ PosOf(h) \in Nat
           /\ h = EpochOf(h) * Interval + PosOf(h)
           /\ PosOf(h) < Interval
<1>1. Interval \in Nat /\ Interval > 0
  BY NodeAssumption
<1> DEFINE q == h \div Interval
           p == h % Interval
<1>2. q \in Int /\ p \in 0 .. (Interval - 1) /\ h = Interval * q + p
  BY <1>1
<1> HIDE DEF q, p
<1>3. q >= 0
  <2> SUFFICES ASSUME q <= -1 PROVE FALSE
    BY <1>2
  <2>1. Interval * q <= -Interval
    BY <1>1, <1>2
  <2> QED BY <1>1, <1>2, <2>1
<1>4. q \in Nat /\ p \in Nat /\ h = q * Interval + p /\ p < Interval
  BY <1>1, <1>2, <1>3
<1> QED BY <1>4, Zenon DEF EpochOf, PosOf, q, p

LEMMA EpochMonotone ==
    ASSUME NEW h \in Nat, NEW g \in Nat, h <= g
    PROVE  EpochOf(h) <= EpochOf(g)
<1> DEFINE e == EpochOf(h)
           f == EpochOf(g)
<1>1. Interval \in Nat /\ Interval > 0
  BY NodeAssumption
<1>2. e \in Nat /\ PosOf(h) \in Nat /\ h = e * Interval + PosOf(h)
  BY EpochBounds, Zenon
<1>3. f \in Nat /\ PosOf(g) \in Nat /\ g = f * Interval + PosOf(g) /\ PosOf(g) < Interval
  BY EpochBounds, Zenon
<1> HIDE DEF e, f
<1>4. ASSUME f + 1 <= e PROVE FALSE
  <2>1. (f + 1) * Interval <= e * Interval
    BY <1>1, <1>2, <1>3, <1>4
  <2>2. (f + 1) * Interval = f * Interval + Interval
    BY <1>1, <1>3
  <2>3. e * Interval \in Nat /\ f * Interval \in Nat
    BY <1>1, <1>2, <1>3
  <2> QED BY <1>1, <1>2, <1>3, <2>1, <2>2, <2>3
<1> QED BY <1>2, <1>3, <1>4 DEF e, f

\* A later epoch begins above h.
LEMMA LaterBase ==
    ASSUME NEW h \in Nat, NEW e \in Nat, EpochOf(h) < e
    PROVE  h < e * Interval
<1> DEFINE f == EpochOf(h)
<1>1. /\ f \in Nat /\ Interval \in Nat /\ Interval > 0
      /\ h < f * Interval + Interval
  BY EpochBounds, NodeAssumption
<1>2. f + 1 <= e
  BY <1>1
<1> HIDE DEF f
<1>3. (f + 1) * Interval <= e * Interval /\ e * Interval \in Nat
  BY <1>1, <1>2
<1>4. (f + 1) * Interval = f * Interval + Interval
  BY <1>1
<1> QED BY <1>1, <1>3, <1>4

\* An epoch that has begun by height h is h's or an earlier one.
LEMMA BegunEpoch ==
    ASSUME NEW h \in Nat, NEW e \in Nat, e * Interval <= h
    PROVE  e <= EpochOf(h)
<1>1. EpochOf(h) \in Nat /\ e * Interval \in Nat
  <2>1. EpochOf(h) \in Nat
    BY EpochBounds, Zenon
  <2>2. Interval \in Nat
    BY NodeAssumption, Zenon
  <2>3. e * Interval \in Nat
    BY <2>2
  <2> QED BY <2>1, <2>3, Zenon
<1>2. ASSUME EpochOf(h) < e PROVE FALSE
  BY <1>1, <1>2, LaterBase
<1> QED BY <1>1, <1>2

\* Reports are due only after the base block.
LEMMA CutoffPositive == Cutoff \in Nat /\ Cutoff > 0
<1>1. Interval \in Nat /\ Interval > 0
  BY NodeAssumption
<1>2. Interval \div 4 \in Nat /\ 4 * (Interval \div 4) <= Interval
  BY <1>1
<1> QED BY <1>1, <1>2 DEF Cutoff
-----------------------------------------------------------------------------
(* The shape of the state, for epochs the tip and the peers may name. *)

Tips == [branch : BranchNames, height : Heights]

SeenEpochs == Epochs \cup {EpochOf(h) : h \in Heights}

SeenBases == Bases \cup {Base(b, e) : b \in BranchNames, e \in SeenEpochs}

SeenResponses == [nEpoch : SeenEpochs, proTx : MN, base : SeenBases]

SeenReports == [nEpoch : SeenEpochs, target : MN, sentinel : MN,
                status : {"online", "missed"}, base : SeenBases]

RunningTicks == [pc : {"begin", "store", "drain", "act"}, t : Tips,
                 change : {"None", "Rewound", "Rebased", "Entered"},
                 stale : SUBSET SeenEpochs]

ResponseMsgs == [pc : {"route", "check", "insert"}, r : Responses,
                 base : SeenBases \cup {NoBase}, height : Heights]

ReportMsgs == [pc : {"report"}, r : {x \in Reports : x.sentinel \in Reporters},
               base : SeenBases]

Shape ==
    /\ tip \in Tips
    /\ ticks \in Seq(Tips)
    /\ tick = Idle \/ tick \in RunningTicks
    /\ msg = Idle \/ msg \in ResponseMsgs \/ msg \in ReportMsgs
    /\ m_reports \subseteq SeenReports /\ emitted \subseteq SeenReports
    /\ m_responded \subseteq SeenResponses
    /\ early \subseteq [resp : SeenResponses, connected : SeenBases \cup {NoBase}]
    /\ m_epoch \in SeenEpochs /\ m_currentEpoch \in SeenEpochs
    /\ m_epochBlockHash \in SeenBases
    /\ lastAnnounced \in SeenEpochs \cup {-1}
    /\ lastEmitted \in SeenEpochs \cup {-1}
    /\ warmup \in SeenEpochs \cup {-1}

-----------------------------------------------------------------------------
(* What the tick thread and the store agree on. *)

Running == tick.pc \in {"store", "drain", "act"}

\* A reset that the drain has yet to carry out.
ResetDue == tick.pc \in {"store", "drain"} /\ tick.change \in {"Rebased", "Rewound"}

\* Past the first half of BeginEpoch the manager is on the tick's epoch; the
\* store follows in the second half.
TickInv ==
    /\ Running => OnEpoch(EpochOf(tick.t.height), Base(tick.t.branch, EpochOf(tick.t.height)))
    /\ tick.pc # "store" => m_currentEpoch = m_epoch
    /\ tick.pc = "act" => firstTick = FALSE
    /\ firstTick \in BOOLEAN /\ (firstTick = TRUE => warmup = -1)

\* The store's reports and the manager's responses: nothing below the window,
\* and one of a kind.
StoreInv ==
    /\ \A r \in m_reports : r.nEpoch >= OldestKeptEpoch(m_currentEpoch)
    /\ \A r, s \in m_reports : SameKey(r, s) => r = s
    /\ \A r, s \in m_responded : r.nEpoch = s.nEpoch /\ r.proTx = s.proTx => r = s

\* This node announces before it reports, so an own report's epoch is among
\* those BeginEpoch finds stale.
OwnReportOK(r) ==
    \/ tick.pc = "store" /\ r.nEpoch \in tick.stale
    \/ /\ r.nEpoch <= m_epoch
       /\ r.nEpoch = m_epoch => r.base = m_epochBlockHash
       /\ r.nEpoch >= OldestKeptEpoch(m_epoch) => Recorded(m_responded, r.nEpoch, Me)

OwnInv ==
    /\ \A r \in m_reports : r.sentinel = Me => OwnReportOK(r)
    /\ ResetDue \/ (lastAnnounced # -1 /\ lastAnnounced >= OldestKeptEpoch(m_epoch)
                       => Recorded(m_responded, lastAnnounced, Me))

-----------------------------------------------------------------------------
(* Shape is invariant. *)

LEMMA SeenTypes ==
    /\ SeenEpochs \subseteq Nat
    /\ Responses \subseteq SeenResponses
    /\ Reports \subseteq SeenReports
<1>1. SeenEpochs \subseteq Nat
  <2>1. Epochs \subseteq Nat /\ Heights \subseteq Nat
    BY StoreAssumption, NodeAssumption, Zenon
  <2>2. \A h \in Heights : EpochOf(h) \in Nat
    BY <2>1, EpochBounds, Zenon
  <2> QED BY <2>1, <2>2, Zenon DEF SeenEpochs
<1>2. Epochs \subseteq SeenEpochs /\ Bases \subseteq SeenBases
  BY DEF SeenEpochs, SeenBases
<1> QED BY <1>1, <1>2, Zenon DEF Responses, SeenResponses, Reports, SeenReports

LEMMA TipFacts ==
    ASSUME NEW t \in Tips
    PROVE  /\ t.branch \in BranchNames /\ t.height \in Heights /\ t.height \in Nat
           /\ EpochOf(t.height) \in SeenEpochs /\ EpochOf(t.height) \in Nat
           /\ Base(t.branch, EpochOf(t.height)) \in SeenBases
<1>1. t.branch \in BranchNames /\ t.height \in Heights /\ t.height \in Nat
  BY NodeAssumption, Zenon DEF Tips
<1>2. EpochOf(t.height) \in SeenEpochs
  BY <1>1, Zenon DEF SeenEpochs
<1> QED BY <1>1, <1>2, EpochBounds DEF SeenBases

LEMMA ActiveBaseType ==
    ASSUME NEW e \in Epochs, tip \in Tips
    PROVE  /\ ActiveBase(e) \in SeenBases \cup {NoBase}
           /\ ActiveBase(e) # NoBase => ActiveBase(e) \in SeenBases
<1>1. tip.branch \in BranchNames /\ e \in SeenEpochs
  BY TipFacts, Zenon DEF SeenEpochs
<1> QED BY <1>1 DEF ActiveBase, SeenBases

LEMMA OwnReportsOf ==
    ASSUME NEW e, NEW b, NEW v, NEW r \in OwnReports(e, b, v)
    PROVE  r.nEpoch = e /\ r.base = b
BY DEF OwnReports

LEMMA OwnReportsType ==
    ASSUME NEW e \in SeenEpochs, NEW b \in SeenBases, NEW v
    PROVE  OwnReports(e, b, v) \subseteq SeenReports
BY NodeAssumption DEF OwnReports, SeenReports

LEMMA RecordedType ==
    ASSUME NEW R, R \subseteq SeenResponses, m_responded \subseteq SeenResponses,
           RecordVerified(R) \/ \E b : ProcessResponses(R, b)
    PROVE  m_responded' \subseteq SeenResponses /\ m_responded \subseteq m_responded'
BY Zenon DEF RecordVerified, ProcessResponses

LEMMA AddedType ==
    ASSUME NEW R, R \subseteq SeenReports, m_reports \subseteq SeenReports,
           NEW v, NEW b, AddReports(R, v, b)
    PROVE  m_reports' \subseteq SeenReports
BY Zenon DEF AddReports

\* The step a running tick takes keeps its tip.
LEMMA TickType ==
    ASSUME tick = Idle \/ tick \in RunningTicks, NEW p \in {"begin", "store", "drain", "act"},
           tick.pc = p
    PROVE  tick \in RunningTicks /\ tick.t \in Tips /\ tick.stale \subseteq SeenEpochs
           /\ tick # Idle
BY DEF Idle, RunningTicks

LEMMA MsgType ==
    ASSUME msg = Idle \/ msg \in ResponseMsgs \/ msg \in ReportMsgs
    PROVE  /\ msg.pc \in {"route", "check", "insert"} =>
                 /\ msg \in ResponseMsgs /\ msg.r \in Responses /\ msg.height \in Heights
                 /\ msg.base \in SeenBases \cup {NoBase}
           /\ msg.pc = "report" =>
                 /\ msg \in ReportMsgs /\ msg.r \in Reports /\ msg.base \in SeenBases
                 /\ msg.r.sentinel \in Reporters
BY DEF Idle, ResponseMsgs, ReportMsgs

LEMMA ShapeInit == Init => Shape
<1> SUFFICES ASSUME Init PROVE Shape
  BY Zenon
<1>1. tip \in Tips
  BY NodeAssumption, Zenon DEF Init, Tips, BranchNames
<1>2. /\ m_reports = {} /\ m_responded = {} /\ early = {} /\ emitted = {}
      /\ ticks = <<>> /\ tick = Idle /\ msg = Idle
      /\ lastAnnounced = -1 /\ lastEmitted = -1 /\ warmup = -1
      /\ m_epoch = EpochOf(tip.height) /\ m_currentEpoch = EpochOf(tip.height)
      /\ m_epochBlockHash = Base(tip.branch, EpochOf(tip.height))
  BY Zenon DEF Init, Boot, StoreInit, ManagerInit
<1> QED BY <1>1, <1>2, TipFacts DEF Shape

LEMMA ShapeTick ==
    ASSUME Shape, TickStart \/ TickBegin \/ TickStore \/ TickDrain \/ TickAct
    PROVE  Shape'
<1> USE DEF Shape
<1>1. CASE TickStart
  <2>1. Head(ticks) \in Tips /\ ticks' \in Seq(Tips)
    BY <1>1 DEF TickStart
  <2>2. tick' = Idle \/ tick' = [pc |-> "begin", t |-> Head(ticks), change |-> "None", stale |-> {}]
    BY <1>1, Zenon DEF TickStart
  <2>3. tick' = Idle \/ tick' \in RunningTicks
    BY <2>1, <2>2 DEF RunningTicks
  <2> QED BY <1>1, <2>1, <2>3, Zenon
       DEF TickStart, storeVars, managerVars, tickVars, chainVars, history
<1>2. CASE TickBegin
  <2> DEFINE e == EpochOf(tick.t.height)
             b == Base(tick.t.branch, e)
             change == EpochChange(e, b)
  <2>1. tick \in RunningTicks /\ tick.t \in Tips
    BY <1>2, TickType, Zenon DEF TickBegin
  <2>2. e \in SeenEpochs /\ b \in SeenBases
    BY <2>1, TipFacts, Zenon
  <2>3. change \in {"None", "Rewound", "Rebased", "Entered"}
    BY Zenon DEF EpochChange
  <2>4. StaleEpochs(e, b) \subseteq SeenEpochs
    BY <2>2, Zenon DEF StaleEpochs, SeenResponses
  <2>5. tick' = [tick EXCEPT !.pc = IF change = "None" THEN "drain" ELSE "store",
                             !.change = change, !.stale = StaleEpochs(e, b)]
    BY <1>2, Zenon DEF TickBegin
  <2>6. UNCHANGED managerVars \/ BeginEpochLocked(e, b)
    BY <1>2, Zenon DEF TickBegin
  <2> HIDE DEF e, b, change
  <2>7. tick' \in RunningTicks
    BY <2>1, <2>3, <2>4, <2>5, Zenon DEF RunningTicks
  <2>8. m_epoch' \in SeenEpochs /\ m_epochBlockHash' \in SeenBases
        /\ m_responded' \subseteq SeenResponses
    BY <2>2, <2>6, Zenon DEF managerVars, BeginEpochLocked
  <2> QED BY <1>2, <2>7, <2>8, Zenon DEF TickBegin, storeVars, tickVars, chainVars, history
<1>3. CASE TickStore
  <2>1. tick \in RunningTicks /\ tick.t \in Tips
    BY <1>3, TickType, Zenon DEF TickStore
  <2>2. tick' \in RunningTicks
    BY <1>3, <2>1, Zenon DEF TickStore, RunningTicks
  <2>3. m_reports' \subseteq SeenReports /\ m_currentEpoch' \in SeenEpochs
    BY <1>3, <2>1, TipFacts, Zenon DEF TickStore, DropAndSetEpoch
  <2> QED BY <1>3, <2>2, <2>3, Zenon DEF TickStore, managerVars, tickVars, chainVars, history
<1>4. CASE TickDrain
  <2> DEFINE e == EpochOf(tick.t.height)
             b == Base(tick.t.branch, e)
             E == {x \in early : x.resp.nEpoch = e /\ x.connected \in {NoBase, b}}
  <2>1. tick \in RunningTicks /\ tick.t \in Tips
    BY <1>4, TickType, Zenon DEF TickDrain
  <2>2. tick' \in RunningTicks
    BY <1>4, <2>1, Zenon DEF TickDrain, RunningTicks
  <2>3. e \in SeenEpochs
    BY <2>1, TipFacts, Zenon
  <2>4. PICK skipped : ProcessResponses({x.resp : x \in E \ skipped}, b)
    BY <1>4, Zenon DEF TickDrain
  <2>5. m_responded' \subseteq SeenResponses
    <3>1. {x.resp : x \in E \ skipped} \subseteq SeenResponses
      BY Zenon
    <3> QED BY <2>4, <3>1, RecordedType, Zenon
  <2>6. /\ early' \subseteq early
        /\ lastAnnounced' \in SeenEpochs \cup {-1} /\ lastEmitted' \in SeenEpochs \cup {-1}
        /\ warmup' \in SeenEpochs \cup {-1}
    BY <1>4, <2>3, Zenon DEF TickDrain, WarmupEpoch
  <2> QED BY <1>4, <2>2, <2>5, <2>6, Zenon DEF TickDrain, storeVars, chainVars
<1>5. CASE TickAct
  <2> DEFINE e == EpochOf(tick.t.height)
             b == Base(tick.t.branch, e)
             v == ListAt(tip.height)
             mine == [nEpoch |-> e, proTx |-> Me, base |-> b]
  <2>1. tick.t \in Tips
    BY <1>5, TickType, Zenon DEF TickAct
  <2>2. e \in SeenEpochs /\ b \in SeenBases
    BY <2>1, TipFacts, Zenon
  <2>3. PICK R : /\ R \subseteq OwnReports(e, b, v)
                 /\ AddReports(R, v, b)
                 /\ emitted' = emitted \cup {r \in R : Acceptable(r, v, b)}
    BY <1>5, Zenon DEF TickAct
  <2>4. R \subseteq SeenReports
    BY <2>2, <2>3, OwnReportsType, Zenon
  <2>5. m_reports' \subseteq SeenReports /\ emitted' \subseteq SeenReports
    BY <2>3, <2>4, AddedType, Zenon
  <2>6. m_responded' \subseteq SeenResponses
    <3>1. mine \in SeenResponses
      BY <2>2, NodeAssumption, Zenon DEF SeenResponses
    <3>2. ProcessResponses({r \in {mine} : lastAnnounced # e}, b)
      BY <1>5, Zenon DEF TickAct
    <3>3. {r \in {mine} : lastAnnounced # e} \subseteq SeenResponses
      BY <3>1, Zenon
    <3> QED BY <3>2, <3>3, RecordedType, Zenon
  <2>7. lastAnnounced' = e /\ lastEmitted' \in {e, lastEmitted}
    BY <1>5, Zenon DEF TickAct
  <2>8. m_currentEpoch' = m_currentEpoch
    BY <2>3, Zenon DEF AddReports
  <2> HIDE DEF e, b, v, mine
  <2>9. lastAnnounced' \in SeenEpochs \cup {-1} /\ lastEmitted' \in SeenEpochs \cup {-1}
    BY <2>2, <2>7, Zenon
  <2> QED BY <1>5, <2>5, <2>6, <2>8, <2>9, ZenonT(30) DEF TickAct, chainVars
<1> QED BY <1>1, <1>2, <1>3, <1>4, <1>5, Zenon

LEMMA HoldType ==
    ASSUME NEW r \in SeenResponses, NEW c \in SeenBases \cup {NoBase}, NEW e,
           early \subseteq [resp : SeenResponses, connected : SeenBases \cup {NoBase}]
    PROVE  Hold(r, c, e) \subseteq [resp : SeenResponses, connected : SeenBases \cup {NoBase}]
BY DEF Hold

LEMMA ShapeMsg ==
    ASSUME Shape, RecvResponse \/ RouteResponse \/ CheckResponse \/ InsertResponse
                  \/ RecvReport \/ ProcessReport
    PROVE  Shape'
<1> USE DEF Shape
<1>1. CASE RecvResponse
  <2>1. PICK r \in Responses : msg' = [pc |-> "route", r |-> r, base |-> ActiveBase(r.nEpoch),
                                       height |-> tip.height]
    BY <1>1, Zenon DEF RecvResponse
  <2>2. r.nEpoch \in Epochs
    BY Zenon DEF Responses
  <2>3. msg' \in ResponseMsgs
    BY <2>1, <2>2, ActiveBaseType, TipFacts, Zenon DEF ResponseMsgs
  <2> QED BY <1>1, <2>3, Zenon DEF RecvResponse, storeVars, managerVars, tickVars, chainVars, history
<1>2. CASE RouteResponse
  <2>1. /\ msg \in ResponseMsgs /\ msg.r \in SeenResponses
        /\ msg.base \in SeenBases \cup {NoBase}
    BY <1>2, MsgType, SeenTypes, Zenon DEF RouteResponse
  <2>2. msg' = Idle \/ msg' = [msg EXCEPT !.pc = "check"]
    BY <1>2, Zenon DEF RouteResponse
  <2>3. msg' = Idle \/ msg' \in ResponseMsgs
    BY <2>1, <2>2, Zenon DEF ResponseMsgs
  <2>4. early' = early \/ early' = Hold(msg.r, msg.base, EpochOf(msg.height))
    BY <1>2, Zenon DEF RouteResponse
  <2>5. early' \subseteq [resp : SeenResponses, connected : SeenBases \cup {NoBase}]
    <3>1. early \subseteq [resp : SeenResponses, connected : SeenBases \cup {NoBase}]
      BY Zenon
    <3>2. Hold(msg.r, msg.base, EpochOf(msg.height))
            \subseteq [resp : SeenResponses, connected : SeenBases \cup {NoBase}]
      BY <2>1, <3>1, HoldType, Zenon
    <3> QED BY <2>4, <3>1, <3>2, Zenon
  <2> QED BY <1>2, <2>3, <2>5, Zenon DEF RouteResponse, storeVars, managerVars, tickVars, chainVars
<1>3. CASE CheckResponse
  <2>1. msg \in ResponseMsgs
    BY <1>3, MsgType, Zenon DEF CheckResponse
  <2>2. msg' = Idle \/ msg' \in ResponseMsgs
    BY <1>3, <2>1, Zenon DEF CheckResponse, ResponseMsgs
  <2> QED BY <1>3, <2>2, Zenon DEF CheckResponse, storeVars, managerVars, tickVars, chainVars, history
<1>4. CASE InsertResponse
  <2>1. {msg.r} \subseteq SeenResponses
    BY <1>4, MsgType, SeenTypes, Zenon DEF InsertResponse
  <2>2. m_responded' \subseteq SeenResponses
    BY <1>4, <2>1, RecordedType, Zenon DEF InsertResponse
  <2> QED BY <1>4, <2>2, Zenon DEF InsertResponse, storeVars, tickVars, chainVars
<1>5. CASE RecvReport
  <2>1. PICK r \in Reports : /\ ActiveBase(r.nEpoch) # NoBase /\ r.sentinel \in Reporters
                             /\ msg' = [pc |-> "report", r |-> r, base |-> ActiveBase(r.nEpoch)]
    BY <1>5, Zenon DEF RecvReport
  <2>2. r.nEpoch \in Epochs
    BY Zenon DEF Reports
  <2>3. msg' \in ReportMsgs
    BY <2>1, <2>2, ActiveBaseType, Zenon DEF ReportMsgs
  <2> QED BY <1>5, <2>3, Zenon DEF RecvReport, storeVars, managerVars, tickVars, chainVars, history
<1>6. CASE ProcessReport
  <2>1. {msg.r} \subseteq SeenReports
    BY <1>6, MsgType, SeenTypes, Zenon DEF ProcessReport
  <2>2. AddReports({msg.r}, ListAt(msg.r.nEpoch * Interval), msg.base)
    BY <1>6, ZenonT(30) DEF ProcessReport
  <2>3. m_reports' \subseteq SeenReports
    BY <2>1, <2>2, AddedType, Zenon
  <2>4. m_currentEpoch' = m_currentEpoch
    BY <2>2, Zenon DEF AddReports
  <2> QED BY <1>6, <2>3, <2>4, ZenonT(30) DEF ProcessReport, managerVars, tickVars, chainVars, history
<1> QED BY <1>1, <1>2, <1>3, <1>4, <1>5, <1>6, Zenon

LEMMA ShapeStep == ASSUME Shape, [Next]_vars PROVE Shape'
<1> USE DEF Shape
<1>1. ASSUME NEW t \in Tips, NewTip(t), UNCHANGED emitted PROVE Shape'
  <2>1. ticks' \in Seq(Tips) /\ tip' \in Tips
    BY <1>1 DEF NewTip
  <2> QED BY <1>1, <2>1, Zenon DEF NewTip, storeVars, managerVars, tickVars
<1>2. CASE Connect
  <2>1. PICK h \in Heights : NewTip([tip EXCEPT !.height = h])
    BY <1>2, Zenon DEF Connect
  <2>2. [tip EXCEPT !.height = h] \in Tips /\ UNCHANGED emitted
    BY <2>1, Zenon DEF Tips, NewTip
  <2> QED BY <1>1, <2>1, <2>2, Zenon
<1>3. CASE Reorg
  <2>1. PICK h \in Heights, b \in BranchNames : NewTip([branch |-> b, height |-> h])
    BY <1>3, Zenon DEF Reorg
  <2>2. [branch |-> b, height |-> h] \in Tips /\ UNCHANGED emitted
    BY <2>1, Zenon DEF Tips, NewTip
  <2> QED BY <1>1, <2>1, <2>2, Zenon
<1>4. CASE SyncChange
  BY <1>4, Zenon DEF SyncChange, storeVars, managerVars, tickVars, history
<1>5. CASE Restart
  <2>1. /\ tip' = tip /\ m_reports' = {} /\ m_responded' = {} /\ early' = {}
        /\ emitted' = emitted /\ ticks' = <<>> /\ tick' = Idle /\ msg' = Idle
        /\ lastAnnounced' = -1 /\ lastEmitted' = -1 /\ warmup' = -1
        /\ m_epoch' = EpochOf(tip.height) /\ m_currentEpoch' = EpochOf(tip.height)
        /\ m_epochBlockHash' = Base(tip.branch, EpochOf(tip.height))
    BY <1>5, Zenon DEF Restart
  <2> QED BY <2>1, TipFacts
<1>6. CASE UNCHANGED vars
  BY <1>6, Zenon DEF vars, storeVars, managerVars, tickVars, chainVars, history
<1> QED
  BY <1>2, <1>3, <1>4, <1>5, <1>6, ShapeTick, ShapeMsg, Zenon DEF Next
-----------------------------------------------------------------------------
(* The tick thread. *)

TickThread == TickStart \/ TickBegin \/ TickStore \/ TickDrain \/ TickAct

\* The other threads leave the tick thread's state alone.
LEMMA ElsewhereKeeps ==
    ASSUME [Next]_vars, ~Restart, ~TickThread
    PROVE  /\ UNCHANGED <<tick, lastAnnounced, lastEmitted, warmup, firstTick>>
           /\ UNCHANGED <<m_epoch, m_epochBlockHash, m_currentEpoch, emitted>>
           /\ m_responded \subseteq m_responded'
           /\ m_reports' = m_reports \/ ProcessReport
<1>1. CASE InsertResponse
  BY <1>1, Zenon DEF InsertResponse, RecordVerified, storeVars, tickVars
<1>2. CASE ProcessReport
  BY <1>2, Zenon DEF ProcessReport, AddReports, managerVars, tickVars, history
<1>3. CASE ~InsertResponse /\ ~ProcessReport
  <2>1. UNCHANGED <<tick, tickVars, storeVars, managerVars, emitted>>
    BY <1>3, Zenon DEF Next, vars, TickThread, Connect, Reorg, NewTip, SyncChange, RecvResponse,
           RouteResponse, CheckResponse, RecvReport, history
  <2> QED BY <2>1, Zenon DEF tickVars, storeVars, managerVars
<1> QED BY <1>1, <1>2, <1>3, Zenon

\* What Restart leaves.
LEMMA Restarted ==
    ASSUME Restart
    PROVE  /\ tip' = tip /\ ticks' = <<>> /\ tick' = Idle /\ msg' = Idle
           /\ m_reports' = {} /\ m_responded' = {}
           /\ m_epoch' = EpochOf(tip.height) /\ m_currentEpoch' = EpochOf(tip.height)
           /\ m_epochBlockHash' = Base(tip.branch, EpochOf(tip.height))
           /\ lastAnnounced' = -1 /\ lastEmitted' = -1 /\ warmup' = -1 /\ firstTick' = TRUE
           /\ UNCHANGED <<emitted, accepted, reorgs>>
BY Zenon DEF Restart

\* The first half of BeginEpoch, by what it finds.
LEMMA TickBegun ==
    ASSUME Shape, TickBegin
    PROVE  LET e == EpochOf(tick.t.height)
               b == Base(tick.t.branch, e)
           IN  /\ tick \in RunningTicks /\ tick.t \in Tips /\ tick' \in RunningTicks
               /\ tick.pc = "begin" /\ tick'.t = tick.t
               /\ tick'.change = EpochChange(e, b) /\ tick'.stale = StaleEpochs(e, b)
               /\ m_epoch' = e /\ m_epochBlockHash' = b
               /\ \/ /\ EpochChange(e, b) = "None" /\ tick'.pc = "drain"
                     /\ UNCHANGED managerVars
                  \/ /\ EpochChange(e, b) # "None" /\ tick'.pc = "store"
                     /\ BeginEpochLocked(e, b)
<1> DEFINE e == EpochOf(tick.t.height)
           b == Base(tick.t.branch, e)
           change == EpochChange(e, b)
<1>1. tick \in RunningTicks /\ tick.t \in Tips /\ tick.pc = "begin"
  BY TickType, Zenon DEF TickBegin, Shape
<1>2. tick' = [tick EXCEPT !.pc = IF change = "None" THEN "drain" ELSE "store",
                           !.change = change, !.stale = StaleEpochs(e, b)]
  BY Zenon DEF TickBegin
<1>3. IF change = "None" THEN UNCHANGED managerVars ELSE BeginEpochLocked(e, b)
  BY Zenon DEF TickBegin
<1>4. change = "None" => m_epoch = e /\ m_epochBlockHash = b
  BY Zenon DEF EpochChange
<1> HIDE DEF e, b, change
<1>5. m_epoch' = e /\ m_epochBlockHash' = b
  BY <1>3, <1>4, Zenon DEF managerVars, BeginEpochLocked
<1>6. /\ tick'.t = tick.t /\ tick'.change = change /\ tick'.stale = StaleEpochs(e, b)
      /\ tick'.pc = IF change = "None" THEN "drain" ELSE "store"
  BY <1>1, <1>2, Zenon DEF RunningTicks
<1>7. Shape'
  BY ShapeTick, Zenon
<1>8. tick' \in RunningTicks
  <2>1. tick' # Idle
    BY <1>6 DEF Idle
  <2> QED BY <1>7, <2>1, Zenon DEF Shape
<1> QED BY <1>1, <1>3, <1>5, <1>6, <1>8, Zenon DEF e, b, change

\* The later steps of a tick go on with the same tip.
LEMMA TickGoesOn ==
    ASSUME Shape
    PROVE  /\ TickStore => /\ tick.pc = "store" /\ tick'.pc = "drain"
                           /\ tick'.t = tick.t /\ tick'.change = tick.change
                           /\ UNCHANGED managerVars /\ UNCHANGED tickVars
                           /\ UNCHANGED <<emitted, accepted>>
           /\ TickDrain => /\ tick.pc = "drain" /\ tick'.pc = "act" /\ tick'.t = tick.t
                           /\ firstTick' = FALSE /\ UNCHANGED storeVars
                           /\ UNCHANGED <<emitted, m_epoch, m_epochBlockHash>>
           /\ TickAct => /\ tick.pc = "act" /\ tick' = Idle
                         /\ UNCHANGED <<warmup, firstTick, m_epoch, m_epochBlockHash>>
                         /\ m_currentEpoch' = m_currentEpoch
           /\ TickStart => /\ tick = Idle /\ tick'.pc \in {"idle", "begin"}
                           /\ UNCHANGED storeVars /\ UNCHANGED managerVars
                           /\ UNCHANGED tickVars /\ UNCHANGED <<emitted, accepted>>
<1>1. ASSUME TickStore \/ TickDrain
      PROVE  tick \in RunningTicks
  BY <1>1, TickType, Zenon DEF Shape, TickStore, TickDrain
<1>2. CASE TickStore
  BY <1>1, <1>2, Zenon DEF TickStore, TickDrain, TickAct, TickStart, RunningTicks, Idle, history
<1>3. CASE TickDrain
  BY <1>1, <1>3, Zenon DEF TickStore, TickDrain, TickAct, TickStart, RunningTicks, Idle
<1>4. CASE TickAct
  <2>1. \E R, v, b : AddReports(R, v, b)
    BY <1>4, Zenon DEF TickAct
  <2>2. m_currentEpoch' = m_currentEpoch
    BY <2>1, Zenon DEF AddReports
  <2> QED BY <1>4, <2>2 DEF TickStore, TickDrain, TickAct, TickStart, Idle
<1>5. CASE TickStart
  <2>1. tick' = Idle \/ tick' = [pc |-> "begin", t |-> Head(ticks), change |-> "None", stale |-> {}]
    BY <1>5, Zenon DEF TickStart
  <2> QED BY <1>5, <2>1, Zenon DEF TickStore, TickDrain, TickAct, TickStart, Idle, history
<1> QED BY <1>2, <1>3, <1>4, <1>5, Zenon

LEMMA TickInvStep ==
    ASSUME Shape, TickInv, [Next]_vars
    PROVE  TickInv'
<1>1. CASE ~Restart /\ ~TickThread
  BY <1>1, ElsewhereKeeps, Zenon DEF TickInv, Running, OnEpoch
<1>2. CASE Restart
  BY <1>2, Restarted DEF TickInv, Running, Idle
<1>3. CASE TickStart
  BY <1>3, TickGoesOn DEF TickInv, Running, Idle, storeVars, managerVars, tickVars
<1>4. CASE TickBegin
  <2>1. UNCHANGED storeVars /\ UNCHANGED tickVars
    BY <1>4, Zenon DEF TickBegin
  <2>2. tick'.pc \in {"drain", "store"} /\ tick.pc = "begin"
    BY <1>4, TickBegun, Zenon
  <2>3. tick'.pc = "drain" => UNCHANGED managerVars
    BY <1>4, TickBegun, Zenon
  <2>4. tick'.t = tick.t /\ m_epoch' = EpochOf(tick.t.height)
        /\ m_epochBlockHash' = Base(tick.t.branch, EpochOf(tick.t.height))
    BY <1>4, TickBegun, Zenon
  <2> QED BY <2>1, <2>2, <2>3, <2>4, Zenon
       DEF TickInv, Running, OnEpoch, storeVars, tickVars, managerVars
<1>5. CASE TickStore
  <2>1. m_currentEpoch' = EpochOf(tick.t.height)
    BY <1>5, Zenon DEF TickStore, DropAndSetEpoch
  <2> QED BY <1>5, <2>1, TickGoesOn, Zenon DEF TickInv, Running, OnEpoch, managerVars, tickVars
<1>6. CASE TickDrain
  BY <1>6, TickGoesOn, Zenon DEF TickInv, Running, OnEpoch, storeVars
<1>7. CASE TickAct
  BY <1>7, TickGoesOn DEF TickInv, Running, Idle
<1> QED BY <1>1, <1>2, <1>3, <1>4, <1>5, <1>6, <1>7, Zenon DEF TickThread

LEMMA TickInvInit == Init => TickInv
BY DEF Init, Boot, StoreInit, ManagerInit, TickInv, Running, Idle
-----------------------------------------------------------------------------
(* The store's window. *)

LEMMA OldestFacts ==
    ASSUME NEW e \in Nat
    PROVE  /\ OldestKeptEpoch(e) \in Nat /\ OldestKeptEpoch(e) <= e
           /\ \A f \in Nat : e <= f => OldestKeptEpoch(e) <= OldestKeptEpoch(f)
BY StoreAssumption DEF OldestKeptEpoch

LEMMA AddedInWindow ==
    ASSUME StoreInv, NEW R, \A r, s \in R : SameKey(r, s) => r = s,
           NEW v, NEW b, AddReports(R, v, b)
    PROVE  /\ \A r \in m_reports' : r.nEpoch >= OldestKeptEpoch(m_currentEpoch')
           /\ \A r, s \in m_reports' : SameKey(r, s) => r = s
           /\ \A r \in m_reports' \ m_reports : r \in R /\ InWindow(r) /\ r.base = b
<1>1. m_currentEpoch' = m_currentEpoch
      /\ m_reports' = m_reports \cup {r \in R : Acceptable(r, v, b)}
  BY Zenon DEF AddReports
<1>2. \A r \in R : Acceptable(r, v, b) =>
          InWindow(r) /\ r.base = b /\ \A s \in m_reports : ~SameKey(r, s)
  BY Zenon DEF Acceptable, Reaches
<1>3. \A r \in m_reports' : r.nEpoch >= OldestKeptEpoch(m_currentEpoch')
  BY <1>1, <1>2, Zenon DEF StoreInv, InWindow
<1>4. \A r, s : SameKey(r, s) => SameKey(s, r)
  BY Zenon DEF SameKey
<1>5. \A r, s \in m_reports' : SameKey(r, s) => r = s
  BY <1>1, <1>2, <1>4, ZenonT(30) DEF StoreInv
<1> QED BY <1>1, <1>2, <1>3, <1>5, Zenon

LEMMA OwnReportFields ==
    ASSUME NEW e, NEW b, NEW v, NEW r \in OwnReports(e, b, v)
    PROVE  /\ r.nEpoch = e
           /\ r.status = "missed" => ~Recorded(m_responded, e, r.target)
<1>1. PICK t \in MN :
          r = [nEpoch |-> e, target |-> t, sentinel |-> Me, base |-> b,
               status |-> IF Recorded(m_responded, e, t) THEN "online" ELSE "missed"]
  BY Zenon DEF OwnReports
<1>2. /\ r.nEpoch = e /\ r.target = t
      /\ r.status = IF Recorded(m_responded, e, t) THEN "online" ELSE "missed"
  BY <1>1, Zenon
<1>3. r.status = "missed" => ~Recorded(m_responded, e, t)
  BY <1>2, Zenon
<1> QED BY <1>1, <1>2, <1>3, Zenon

LEMMA OwnReportsOnePerTarget ==
    ASSUME NEW e, NEW b, NEW v, NEW r \in OwnReports(e, b, v), NEW s \in OwnReports(e, b, v),
           SameKey(r, s)
    PROVE  r = s
<1> DEFINE own(t) == [nEpoch |-> e, target |-> t, sentinel |-> Me, base |-> b,
                      status |-> IF Recorded(m_responded, e, t) THEN "online" ELSE "missed"]
<1>1. PICK t, u \in MN : r = own(t) /\ s = own(u)
  BY Zenon DEF OwnReports
<1>2. r.target = t /\ s.target = u
  BY <1>1, Zenon
<1>3. t = u
  BY <1>2, Zenon DEF SameKey
<1> HIDE DEF own
<1> QED BY <1>1, <1>3, Zenon

\* The responses recorded together are for one base.
LEMMA RecordedOnce ==
    ASSUME StoreInv, NEW R, R \subseteq SeenResponses, NEW b,
           RecordVerified(R), \A r \in R : r.base = b
    PROVE  \A r, s \in m_responded' : r.nEpoch = s.nEpoch /\ r.proTx = s.proTx => r = s
<1>1. \A r, s \in R : r.nEpoch = s.nEpoch /\ r.proTx = s.proTx => r = s
  BY DEF SeenResponses
<1>2. m_responded' = m_responded \cup {r \in R : ~Recorded(m_responded, r.nEpoch, r.proTx)}
  BY Zenon DEF RecordVerified
<1>3. \A r \in R, s \in m_responded :
          ~Recorded(m_responded, r.nEpoch, r.proTx) => ~(r.nEpoch = s.nEpoch /\ r.proTx = s.proTx)
  BY Zenon DEF Recorded
<1> QED BY <1>1, <1>2, <1>3, ZenonT(30) DEF StoreInv

LEMMA ProcessedOnce ==
    ASSUME StoreInv, NEW R, R \subseteq SeenResponses, NEW b, ProcessResponses(R, b)
    PROVE  \A r, s \in m_responded' : r.nEpoch = s.nEpoch /\ r.proTx = s.proTx => r = s
<1> DEFINE Q == {r \in R : ResponseFresh(r) /\ r.base = b}
<1>1. RecordVerified(Q) /\ Q \subseteq SeenResponses /\ \A r \in Q : r.base = b
  BY Zenon DEF ProcessResponses
<1> HIDE DEF Q
<1> QED BY <1>1, RecordedOnce, Zenon

\* The calls of a tick that add responses and reports.
LEMMA TickDrains ==
    ASSUME Shape, TickDrain
    PROVE  LET e == EpochOf(tick.t.height)
               b == Base(tick.t.branch, e)
           IN  \E R : /\ R \subseteq SeenResponses /\ ProcessResponses(R, b)
                      /\ \A r \in R : r.nEpoch = e
<1> DEFINE e == EpochOf(tick.t.height)
           b == Base(tick.t.branch, e)
           E == {x \in early : x.resp.nEpoch = e /\ x.connected \in {NoBase, b}}
<1>1. PICK skipped : ProcessResponses({x.resp : x \in E \ skipped}, b)
  BY Zenon DEF TickDrain
<1>2. /\ {x.resp : x \in E \ skipped} \subseteq SeenResponses
      /\ \A r \in {x.resp : x \in E \ skipped} : r.nEpoch = e
  BY Zenon DEF Shape
<1> QED BY <1>1, <1>2, Zenon

LEMMA TickActs ==
    ASSUME Shape, TickAct
    PROVE  LET e == EpochOf(tick.t.height)
               b == Base(tick.t.branch, e)
               v == ListAt(tip.height)
               mine == [nEpoch |-> e, proTx |-> Me, base |-> b]
           IN  /\ mine \in SeenResponses /\ e \in SeenEpochs /\ b \in SeenBases
               /\ tick.t \in Tips
               /\ ProcessResponses({r \in {mine} : lastAnnounced # e}, b)
               /\ lastAnnounced' = e
               /\ \E R : /\ R \subseteq OwnReports(e, b, v)
                         /\ AddReports(R, v, b)
                         /\ emitted' = emitted \cup {r \in R : Acceptable(r, v, b)}
                         /\ \/ R = {} /\ lastEmitted' = lastEmitted
                            \/ /\ PosOf(tick.t.height) >= Cutoff
                               /\ e # warmup /\ e # lastEmitted /\ lastEmitted' = e
<1> DEFINE e == EpochOf(tick.t.height)
           b == Base(tick.t.branch, e)
           v == ListAt(tip.height)
           mine == [nEpoch |-> e, proTx |-> Me, base |-> b]
           emits == PosOf(tick.t.height) >= Cutoff /\ e # warmup /\ e # lastEmitted
           R == IF emits THEN OwnReports(e, b, v) ELSE {}
<1>1. tick.t \in Tips
  BY TickType, Zenon DEF Shape, TickAct
<1>2. e \in SeenEpochs /\ b \in SeenBases
  BY <1>1, TipFacts, Zenon
<1>3. mine \in SeenResponses
  BY <1>2, NodeAssumption, Zenon DEF SeenResponses
<1>4. /\ ProcessResponses({r \in {mine} : lastAnnounced # e}, b)
      /\ lastAnnounced' = e /\ lastEmitted' = IF emits THEN e ELSE lastEmitted
      /\ AddReports(R, v, b)
      /\ emitted' = emitted \cup {r \in R : Acceptable(r, v, b)}
  BY Zenon DEF TickAct
<1>5. CASE emits
  <2>1. R = OwnReports(e, b, v) /\ lastEmitted' = e
    BY <1>4, <1>5, Zenon
  <2> HIDE DEF R
  <2>2. /\ R \subseteq OwnReports(e, b, v)
        /\ PosOf(tick.t.height) >= Cutoff /\ e # warmup /\ e # lastEmitted /\ lastEmitted' = e
    BY <1>5, <2>1, Zenon
  <2> HIDE DEF e, b, v, mine
  <2> QED BY <1>1, <1>2, <1>3, <1>4, <2>2, Zenon DEF e, b, v, mine
<1>6. CASE ~emits
  <2>1. R = {} /\ lastEmitted' = lastEmitted
    BY <1>4, <1>6, Zenon
  <2> HIDE DEF R
  <2>2. R \subseteq OwnReports(e, b, v)
    BY <2>1, Zenon
  <2> HIDE DEF e, b, v, mine
  <2> QED BY <1>1, <1>2, <1>3, <1>4, <2>1, <2>2, Zenon DEF e, b, v, mine
<1> QED BY <1>5, <1>6, ZenonT(30)

LEMMA StoreInvStep ==
    ASSUME Shape, StoreInv, [Next]_vars
    PROVE  StoreInv'
<1>1. CASE Restart
  BY <1>1, Restarted, Zenon DEF StoreInv
<1>2. CASE TickStart
  BY <1>2, TickGoesOn, Zenon DEF StoreInv, storeVars, managerVars
<1>3. CASE TickBegin
  <2>1. m_responded' \subseteq m_responded
    BY <1>3, TickBegun, Zenon DEF managerVars, BeginEpochLocked
  <2> QED BY <1>3, <2>1, Zenon DEF TickBegin, StoreInv, storeVars
<1>4. CASE TickStore
  <2>1. /\ m_reports' \subseteq m_reports /\ m_responded' = m_responded
        /\ m_currentEpoch' = EpochOf(tick.t.height)
        /\ \A r \in m_reports' : r.nEpoch >= OldestKeptEpoch(EpochOf(tick.t.height))
    BY <1>4, Zenon DEF TickStore, DropAndSetEpoch, managerVars
  <2> QED BY <2>1, Zenon DEF StoreInv
<1>5. CASE TickDrain
  <2> DEFINE b == Base(tick.t.branch, EpochOf(tick.t.height))
  <2>1. PICK R : R \subseteq SeenResponses /\ ProcessResponses(R, b)
    BY <1>5, TickDrains, Zenon
  <2> HIDE DEF b
  <2>2. \A r, s \in m_responded' : r.nEpoch = s.nEpoch /\ r.proTx = s.proTx => r = s
    BY <2>1, ProcessedOnce, Zenon
  <2> QED BY <1>5, <2>2, Zenon DEF TickDrain, StoreInv, storeVars
<1>6. CASE TickAct
  <2> DEFINE e == EpochOf(tick.t.height)
             b == Base(tick.t.branch, e)
             v == ListAt(tip.height)
             mine == [nEpoch |-> e, proTx |-> Me, base |-> b]
  <2>1. mine \in SeenResponses /\ ProcessResponses({r \in {mine} : lastAnnounced # e}, b)
    BY <1>6, TickActs, Zenon
  <2>2. PICK R : R \subseteq OwnReports(e, b, v) /\ AddReports(R, v, b)
    BY <1>6, TickActs, Zenon
  <2> HIDE DEF e, b, v, mine
  <2>3. {r \in {mine} : lastAnnounced # e} \subseteq SeenResponses
    BY <2>1, Zenon
  <2>4. \A r, s \in m_responded' : r.nEpoch = s.nEpoch /\ r.proTx = s.proTx => r = s
    BY <2>1, <2>3, ProcessedOnce, Zenon
  <2>5. \A r, s \in R : SameKey(r, s) => r = s
    BY <2>2, OwnReportsOnePerTarget, Zenon
  <2> QED BY <2>2, <2>4, <2>5, AddedInWindow, Zenon DEF StoreInv
<1>7. CASE InsertResponse
  <2>1. {msg.r} \subseteq SeenResponses /\ \A r \in {msg.r} : r.base = msg.r.base
    BY <1>7, MsgType, SeenTypes, Zenon DEF InsertResponse, Shape
  <2>2. RecordVerified({msg.r}) /\ UNCHANGED storeVars
    BY <1>7, Zenon DEF InsertResponse
  <2>3. \A r, s \in m_responded' : r.nEpoch = s.nEpoch /\ r.proTx = s.proTx => r = s
    BY <2>1, <2>2, RecordedOnce, Zenon
  <2> QED BY <2>2, <2>3, Zenon DEF StoreInv, storeVars
<1>8. CASE ProcessReport
  <2>1. AddReports({msg.r}, ListAt(msg.r.nEpoch * Interval), msg.base) /\ UNCHANGED managerVars
    BY <1>8, Zenon DEF ProcessReport
  <2>2. \A r, s \in {msg.r} : SameKey(r, s) => r = s
    BY Zenon
  <2>3. /\ \A r \in m_reports' : r.nEpoch >= OldestKeptEpoch(m_currentEpoch')
        /\ \A r, s \in m_reports' : SameKey(r, s) => r = s
    BY <2>1, <2>2, AddedInWindow, Zenon
  <2> QED BY <2>1, <2>3, Zenon DEF StoreInv, managerVars
<1>9. CASE ~Restart /\ ~TickThread /\ ~InsertResponse /\ ~ProcessReport
  <2>1. UNCHANGED <<storeVars, managerVars>>
    BY <1>9, Zenon DEF Next, vars, TickThread, Connect, Reorg, NewTip, SyncChange, RecvResponse,
           RouteResponse, CheckResponse, RecvReport
  <2> QED BY <2>1, Zenon DEF StoreInv, storeVars, managerVars
<1> QED BY <1>1, <1>2, <1>3, <1>4, <1>5, <1>6, <1>7, <1>8, <1>9, Zenon DEF TickThread

LEMMA StoreInvInit == Init => StoreInv
BY Zenon DEF Init, Boot, StoreInit, ManagerInit, StoreInv
-----------------------------------------------------------------------------
(* This node's own reports. *)

LEMMA RecordedGrows ==
    ASSUME m_responded \subseteq m_responded', NEW e, NEW m, Recorded(m_responded, e, m)
    PROVE  Recorded(m_responded', e, m)
BY Zenon DEF Recorded

\* What becomes of an own report, and of an announcement, in BeginEpoch.
LEMMA OwnInvBegin ==
    ASSUME Shape, TickInv, StoreInv, OwnInv, TickBegin
    PROVE  OwnInv'
<1> DEFINE e == EpochOf(tick.t.height)
           b == Base(tick.t.branch, e)
           change == EpochChange(e, b)
<1>1. /\ tick.pc = "begin" /\ e \in Nat /\ m_epoch \in Nat
      /\ m_reports' = m_reports /\ lastAnnounced' = lastAnnounced
      /\ lastAnnounced \in Nat \cup {-1}
  <2>1. tick.t \in Tips
    BY TickBegun, Zenon
  <2> QED BY <2>1, TipFacts, SeenTypes, Zenon DEF Shape, TickBegin, storeVars, tickVars
<1>2. \A r \in m_reports : r.nEpoch \in Nat
  BY SeenTypes, Zenon DEF Shape, SeenReports
<1>3. \A r \in m_responded : r.nEpoch \in Nat
  BY SeenTypes, ZenonT(30) DEF Shape, SeenResponses
<1>4. /\ tick'.change = change /\ tick'.stale = StaleEpochs(e, b)
      /\ m_epoch' = e /\ m_epochBlockHash' = b
      /\ \/ /\ change = "None" /\ tick'.pc = "drain" /\ UNCHANGED managerVars
         \/ /\ change # "None" /\ tick'.pc = "store" /\ BeginEpochLocked(e, b)
  BY TickBegun, Zenon
<1>5. ~ResetDue
  BY <1>1, Zenon DEF ResetDue
<1>6. ASSUME NEW r \in m_reports, r.sentinel = Me
      PROVE  /\ r.nEpoch <= m_epoch
             /\ r.nEpoch = m_epoch => r.base = m_epochBlockHash
             /\ Recorded(m_responded, r.nEpoch, Me)
  <2>1. m_currentEpoch = m_epoch
    BY <1>1, Zenon DEF TickInv
  <2>2. r.nEpoch >= OldestKeptEpoch(m_epoch)
    BY <2>1, Zenon DEF StoreInv
  <2> QED BY <1>1, <1>6, <2>2, Zenon DEF OwnInv, OwnReportOK
<1>7. OldestKeptEpoch(e) \in Nat /\ OldestKeptEpoch(m_epoch) \in Nat
  BY <1>1, OldestFacts, Zenon
<1> HIDE DEF e, b, change
<1>8. CASE change = "None"
  <2>1. UNCHANGED managerVars /\ tick'.pc = "drain" /\ ~ResetDue'
    BY <1>4, <1>8, Zenon DEF ResetDue
  <2> QED BY <1>1, <1>5, <1>6, <2>1, Zenon DEF OwnInv, OwnReportOK, managerVars
<1>9. CASE change # "None"
  <2>1. tick'.pc = "store" /\ tick'.stale = StaleEpochs(e, b)
        /\ m_responded' = {r \in m_responded : /\ r.nEpoch \notin StaleEpochs(e, b)
                                               /\ r.nEpoch >= OldestKeptEpoch(e)}
    BY <1>4, <1>9, Zenon DEF BeginEpochLocked
  <2>2. ASSUME NEW x \in Nat, x \notin StaleEpochs(e, b), x >= OldestKeptEpoch(e),
               Recorded(m_responded, x, Me)
        PROVE  Recorded(m_responded', x, Me)
    BY <2>1, <2>2, Zenon DEF Recorded
  <2>3. CASE change = "Entered"
    <3>1. e > m_epoch /\ StaleEpochs(e, b) = {}
      BY <1>1, <2>3 DEF change, EpochChange, StaleEpochs
    <3>2. OldestKeptEpoch(m_epoch) <= OldestKeptEpoch(e)
      BY <1>1, <3>1, OldestFacts
    <3>3. ASSUME NEW r \in m_reports', r.sentinel = Me PROVE OwnReportOK(r)'
      <4>1. r \in m_reports /\ r.nEpoch \in Nat
        BY <1>1, <1>2, Zenon
      <4>2. r.nEpoch <= e /\ r.nEpoch # e
        BY <1>1, <1>6, <3>1, <3>3, <4>1
      <4>3. r.nEpoch >= OldestKeptEpoch(e) => Recorded(m_responded', r.nEpoch, Me)
        BY <1>6, <2>2, <3>1, <3>3, <4>1, Zenon
      <4> QED BY <1>4, <4>2, <4>3, Zenon DEF OwnReportOK
    <3>4. lastAnnounced' # -1 /\ lastAnnounced' >= OldestKeptEpoch(m_epoch')
            => Recorded(m_responded', lastAnnounced', Me)
      BY <1>1, <1>4, <1>5, <1>7, <2>2, <3>1, <3>2 DEF OwnInv
    <3> QED BY <3>3, <3>4, Zenon DEF OwnInv
  <2>4. CASE change # "Entered"
    <3>1. /\ change \in {"Rebased", "Rewound"} /\ e <= m_epoch
          /\ change = "Rebased" => e = m_epoch
      BY <1>1, <1>9, <2>4 DEF change, EpochChange
    <3>2. StaleEpochs(e, b) = IF change = "Rewound"
                              THEN {r.nEpoch : r \in {x \in m_responded : x.nEpoch >= e}}
                              ELSE {e}
      BY <3>1, Zenon DEF change, StaleEpochs
    <3>3. ResetDue'
      BY <1>4, <2>1, <3>1, Zenon DEF ResetDue
    <3>4. ASSUME NEW r \in m_reports', r.sentinel = Me PROVE OwnReportOK(r)'
      <4>1. r \in m_reports /\ r.nEpoch \in Nat
        BY <1>1, <1>2, Zenon
      <4>2. CASE r.nEpoch >= e
        <5>1. r.nEpoch <= m_epoch /\ Recorded(m_responded, r.nEpoch, Me)
          BY <1>6, <3>4, <4>1, Zenon
        <5>2. r.nEpoch \in StaleEpochs(e, b)
          BY <1>1, <3>1, <3>2, <4>1, <4>2, <5>1 DEF Recorded
        <5> QED BY <2>1, <5>2, Zenon DEF OwnReportOK
      <4>3. CASE ~(r.nEpoch >= e)
        <5>1. r.nEpoch \notin StaleEpochs(e, b) /\ r.nEpoch <= e /\ r.nEpoch # e
          BY <1>1, <3>2, <4>1, <4>3
        <5>2. r.nEpoch >= OldestKeptEpoch(e) => Recorded(m_responded', r.nEpoch, Me)
          BY <1>6, <2>2, <3>4, <4>1, <5>1, Zenon
        <5> QED BY <1>4, <5>1, <5>2, Zenon DEF OwnReportOK
      <4> QED BY <4>2, <4>3, Zenon
    <3> QED BY <3>3, <3>4, Zenon DEF OwnInv
  <2> QED BY <2>3, <2>4, Zenon
<1> QED BY <1>8, <1>9, Zenon

\* This node has announced itself once the tick has acted.
LEMMA AnnouncedAtAct ==
    ASSUME Shape, TickInv, OwnInv, TickAct
    PROVE  /\ Recorded(m_responded', m_epoch, Me) /\ m_responded \subseteq m_responded'
           /\ m_epoch = EpochOf(tick.t.height) /\ lastAnnounced' = m_epoch
           /\ m_epochBlockHash = Base(tick.t.branch, EpochOf(tick.t.height))
<1> DEFINE e == EpochOf(tick.t.height)
           b == Base(tick.t.branch, e)
           mine == [nEpoch |-> e, proTx |-> Me, base |-> b]
<1>1. /\ ProcessResponses({r \in {mine} : lastAnnounced # e}, b)
      /\ lastAnnounced' = e /\ e \in SeenEpochs /\ tick.pc = "act"
  BY TickActs, TickGoesOn, Zenon
<1>2. m_epoch = e /\ m_epochBlockHash = b
  BY <1>1, Zenon DEF TickInv, Running, OnEpoch
<1>3. e \in Nat /\ OldestKeptEpoch(e) <= e /\ KeepEpochs \in Nat /\ KeepEpochs > 0
  <2>1. e \in Nat
    BY <1>1, SeenTypes, Zenon
  <2> HIDE DEF e
  <2> QED BY <2>1, OldestFacts, StoreAssumption
<1>4. m_responded \subseteq m_responded'
  BY <1>1, Zenon DEF ProcessResponses, RecordVerified
<1>5. mine.nEpoch = e /\ mine.proTx = Me /\ mine.base = b
  BY Zenon
<1> HIDE DEF e, b, mine
<1>6. CASE Recorded(m_responded, e, Me)
  BY <1>1, <1>2, <1>4, <1>6, RecordedGrows, Zenon DEF e, b
<1>7. CASE ~Recorded(m_responded, e, Me)
  <2>1. lastAnnounced # e
    <3> SUFFICES ASSUME lastAnnounced = e PROVE FALSE
      BY Zenon
    <3>1. ~ResetDue
      BY <1>1, Zenon DEF ResetDue
    <3>2. lastAnnounced # -1 /\ lastAnnounced >= OldestKeptEpoch(m_epoch)
      BY <1>2, <1>3, OldestFacts
    <3> QED BY <1>7, <3>1, <3>2, Zenon DEF OwnInv
  <2>2. ResponseFresh(mine)
    BY <1>2, <1>3, <1>5, <1>7 DEF ResponseFresh, ResponseInWindow
  <2>3. mine \in m_responded'
    BY <1>1, <1>5, <1>7, <2>1, <2>2, Zenon DEF ProcessResponses, RecordVerified
  <2>4. Recorded(m_responded', e, Me)
    BY <1>5, <2>3, Zenon DEF Recorded
  <2> QED BY <1>1, <1>2, <1>4, <2>4, Zenon DEF e, b
<1> QED BY <1>6, <1>7, Zenon

LEMMA OwnInvStep ==
    ASSUME Me \notin Reporters, Shape, TickInv, StoreInv, OwnInv, [Next]_vars
    PROVE  OwnInv'
<1>1. CASE Restart
  BY <1>1, Restarted, Zenon DEF OwnInv
<1>2. CASE ~Restart /\ ~TickThread
  <2>1. /\ UNCHANGED <<tick, lastAnnounced, m_epoch, m_epochBlockHash>>
        /\ m_responded \subseteq m_responded'
    BY <1>2, ElsewhereKeeps, Zenon
  <2>2. \A r \in m_reports' \ m_reports : r.sentinel # Me
    <3>1. CASE ProcessReport
      <4>1. msg.r.sentinel \in Reporters
        BY <3>1, MsgType, Zenon DEF ProcessReport, Shape
      <4>2. m_reports' \subseteq m_reports \cup {msg.r}
        BY <3>1, Zenon DEF ProcessReport, AddReports
      <4> QED BY <4>1, <4>2, Zenon
    <3> QED BY <1>2, <3>1, ElsewhereKeeps, Zenon
  <2> QED BY <2>1, <2>2, RecordedGrows, Zenon DEF OwnInv, OwnReportOK, ResetDue
<1>3. CASE TickStart
  <2>1. tick = Idle /\ tick'.pc \in {"idle", "begin"}
        /\ UNCHANGED <<m_reports, m_responded, m_epoch, m_epochBlockHash, lastAnnounced>>
    BY <1>3, TickGoesOn, Zenon DEF storeVars, managerVars, tickVars
  <2> QED BY <2>1, Zenon DEF OwnInv, OwnReportOK, ResetDue, Idle
<1>4. CASE TickBegin
  BY <1>4, OwnInvBegin, Zenon
<1>5. CASE TickStore
  <2>1. /\ tick.pc = "store" /\ tick'.pc = "drain" /\ tick'.change = tick.change
        /\ UNCHANGED <<m_responded, m_epoch, m_epochBlockHash, lastAnnounced>>
    BY <1>5, TickGoesOn, Zenon DEF managerVars, tickVars
  <2>2. \A r \in m_reports' : r \in m_reports /\ r.nEpoch \notin tick.stale
    BY <1>5, Zenon DEF TickStore, DropAndSetEpoch
  <2> QED BY <2>1, <2>2, Zenon DEF OwnInv, OwnReportOK, ResetDue
<1>6. CASE TickDrain
  <2>1. /\ tick.pc = "drain" /\ tick'.pc = "act"
        /\ UNCHANGED <<m_reports, m_epoch, m_epochBlockHash>>
    BY <1>6, TickGoesOn, Zenon DEF storeVars
  <2>2. lastAnnounced' = IF tick.change \in {"Rebased", "Rewound"} THEN -1 ELSE lastAnnounced
    BY <1>6, Zenon DEF TickDrain
  <2>3. m_responded \subseteq m_responded'
    <3>1. \E R, b : ProcessResponses(R, b)
      BY <1>6, TickDrains, Zenon
    <3> QED BY <3>1, Zenon DEF ProcessResponses, RecordVerified
  <2> QED BY <2>1, <2>2, <2>3, RecordedGrows, Zenon DEF OwnInv, OwnReportOK, ResetDue
<1>7. CASE TickAct
  <2> DEFINE e == EpochOf(tick.t.height)
             b == Base(tick.t.branch, e)
             v == ListAt(tip.height)
  <2>1. tick.pc = "act" /\ tick' = Idle /\ UNCHANGED <<m_epoch, m_epochBlockHash>>
    BY <1>7, TickGoesOn, Zenon
  <2>2. PICK R : R \subseteq OwnReports(e, b, v) /\ AddReports(R, v, b)
    BY <1>7, TickActs, Zenon
  <2>3. /\ Recorded(m_responded', m_epoch, Me) /\ m_responded \subseteq m_responded'
        /\ m_epoch = e /\ lastAnnounced' = m_epoch /\ m_epochBlockHash = b
    BY <1>7, AnnouncedAtAct, ZenonT(30)
  <2>4. \A r \in R : r.nEpoch = e /\ r.base = b
    BY <2>2 DEF OwnReports
  <2>5. m_reports' \subseteq m_reports \cup R
    BY <2>2, Zenon DEF AddReports
  <2> HIDE DEF e, b, v
  <2>6. m_epoch \in Nat
    BY SeenTypes, Zenon DEF Shape
  <2>7. ASSUME NEW r \in m_reports', r.sentinel = Me PROVE OwnReportOK(r)'
    <3>1. CASE r \in R
      BY <2>1, <2>3, <2>4, <2>6, <3>1 DEF OwnReportOK
    <3>2. CASE r \in m_reports
      BY <2>1, <2>3, <2>7, <3>2, RecordedGrows, Zenon DEF OwnInv, OwnReportOK
    <3> QED BY <2>5, <3>1, <3>2, Zenon
  <2> QED BY <2>1, <2>3, <2>7, Zenon DEF OwnInv
<1> QED BY <1>1, <1>2, <1>3, <1>4, <1>5, <1>6, <1>7, Zenon DEF TickThread

LEMMA OwnInvInit == Init => OwnInv
BY Zenon DEF Init, Boot, StoreInit, ManagerInit, OwnInv

(***************************************************************************)
(* Through every reorg, restart, loss of sync and interleaving of the tick *)
(* with the message thread, this node's own reports for the manager's      *)
(* epoch are for the manager's base: what it had reported on an abandoned  *)
(* chain is dropped by BeginEpoch, because it announces itself (and so has *)
(* a response on record) before it reports.  A peer that sends the node    *)
(* its own dropped report back is left out.                                *)
(***************************************************************************)
THEOREM OwnReportsFollowBase ==
    ASSUME Me \notin Reporters
    PROVE  Spec => []OwnReportsOnBase
<1> DEFINE Inv == Shape /\ TickInv /\ StoreInv /\ OwnInv
<1>1. Init => Inv
  BY ShapeInit, TickInvInit, StoreInvInit, OwnInvInit, Zenon
<1>2. Inv /\ [Next]_vars => Inv'
  BY ShapeStep, TickInvStep, StoreInvStep, OwnInvStep, Zenon
<1>3. Inv => OwnReportsOnBase
  BY DEF OwnInv, OwnReportOK, OwnReportsOnBase, Settled, Idle
<1> QED BY <1>1, <1>2, <1>3, PTL DEF Spec
-----------------------------------------------------------------------------
(* The order of tips, up to the first reorg. *)

\* Tip t may come after tip s.
Follows(s, t) ==
    \/ s.branch = t.branch /\ s.height <= t.height
    \/ s.branch = "A" /\ t.branch = "B" /\ ForkHeight < t.height

\* The tips whose ticks are yet to act, and the present one.
Ahead == {tip} \cup {ticks[i] : i \in DOMAIN ticks} \cup
         (IF tick = Idle THEN {} ELSE {tick.t})

Order ==
    /\ reorgs = 0 => tip.branch = "A"
    /\ reorgs = 1 => tip.branch = "B"
    /\ \A t \in Ahead : Follows(t, tip)
    /\ \A i, j \in DOMAIN ticks : i < j => Follows(ticks[i], ticks[j])
    /\ tick # Idle => \A t \in Ahead : Follows(tick.t, t)

\* A report made at a tick that t may come after.
MadeBefore(r, t) ==
    \E s \in Tips : /\ r.nEpoch = EpochOf(s.height) /\ r.base = Base(s.branch, r.nEpoch)
                    /\ PosOf(s.height) >= Cutoff
                    /\ Follows(s, t)

\* A report on branch A when only ticks of branch B are left.
Foreign(r) == r.base = <<"A", r.nEpoch>> /\ \A t \in Ahead : t.branch = "B"

\* Why this node will not report on r's epoch and base again.
NotAgain(r) ==
    \/ m_epoch > r.nEpoch \/ lastEmitted = r.nEpoch \/ warmup = r.nEpoch
    \/ firstTick = TRUE
    \/ ResetDue /\ m_epoch = r.nEpoch
    \/ Foreign(r)

EmitInv ==
    /\ \A r \in emitted, t \in Ahead : MadeBefore(r, t)
    /\ \A r \in emitted : NotAgain(r)

-----------------------------------------------------------------------------
(* One chain only. *)

\* The tips whose ticks are yet to act.
Pending == {ticks[i] : i \in DOMAIN ticks} \cup (IF tick = Idle THEN {} ELSE {tick.t})

\* An announcement accepted is recorded, or its epoch is not to be judged:
\* it is over, a warm-up, or the one a restart left for the first tick.
AcceptedOK(a) ==
    /\ a.nEpoch * Interval <= tip.height
    /\ \/ a.nEpoch < m_epoch
       \/ Recorded(m_responded, a.nEpoch, a.proTx)
       \/ warmup = a.nEpoch
       \/ firstTick = TRUE /\ \A t \in Pending : a.nEpoch * Interval < t.height

\* The manager is never ahead of the ticks, nor the store of the manager.
EpochInv ==
    /\ \A t \in Ahead : m_epoch <= EpochOf(t.height)
    /\ m_epochBlockHash = Base("A", m_epoch)
    /\ m_currentEpoch <= m_epoch
    /\ \A r \in m_reports : r.nEpoch <= m_currentEpoch
    /\ ~ResetDue

\* A message that is past its routing is for an epoch that has begun.
BegunMsg ==
    msg.pc \in {"route", "check", "insert"} =>
        \/ msg.pc = "route" /\ msg.base = NoBase
        \/ msg.r.nEpoch * Interval <= tip.height

AcceptedInv ==
    /\ accepted \subseteq SeenResponses
    /\ \A a \in accepted : AcceptedOK(a)
    /\ BegunMsg

OneChainInv == reorgs = 0 => EpochInv /\ AcceptedInv
-----------------------------------------------------------------------------
(* The order of the tips. *)

LEMMA FollowsTrans ==
    ASSUME NEW s \in Tips, NEW t \in Tips, NEW u \in Tips, Follows(s, t), Follows(t, u)
    PROVE  Follows(s, u)
<1>1. s.height \in Nat /\ t.height \in Nat /\ u.height \in Nat /\ ForkHeight \in Nat
  BY TipFacts, NodeAssumption, Zenon
<1> QED BY <1>1 DEF Follows

LEMMA FollowsSelf == \A t \in Tips : Follows(t, t)
BY TipFacts, SMTT(30) DEF Follows

LEMMA AheadType ==
    ASSUME Shape
    PROVE  Ahead \subseteq Tips /\ tip \in Ahead /\ (tick # Idle => tick.t \in Ahead)
BY DEF Shape, Ahead, RunningTicks

\* What a step does to the tips ahead.
LEMMA AheadStep ==
    ASSUME Shape, [Next]_vars
    PROVE  /\ Ahead' \subseteq Ahead \cup {tip'}
           /\ \/ /\ \/ Connect /\ reorgs' = reorgs
                    \/ Reorg /\ reorgs' = reorgs + 1
                 /\ ticks' = Append(ticks, tip') /\ tick' = tick
              \/ TickStart /\ UNCHANGED <<tip, reorgs>>
              \/ Restart /\ UNCHANGED <<tip, reorgs>>
              \/ /\ UNCHANGED <<tip, ticks, reorgs>>
                 /\ tick' \in {tick, Idle} \/ (tick # Idle /\ tick' # Idle /\ tick'.t = tick.t)
<1>1. CASE Connect \/ Reorg
  <2>1. PICK t : NewTip(t)
    BY <1>1, Zenon DEF Connect, Reorg
  <2>2. ticks' = Append(ticks, tip') /\ tick' = tick
    BY <2>1, Zenon DEF NewTip
  <2>3. Ahead' \subseteq Ahead \cup {tip'}
    BY <2>2 DEF Ahead, Shape
  <2> QED BY <1>1, <2>2, <2>3, Zenon DEF Connect, Reorg
<1>2. CASE TickStart
  <2>1. ticks # <<>> /\ ticks' = Tail(ticks) /\ UNCHANGED <<tip, reorgs>>
    BY <1>2, Zenon DEF TickStart, chainVars
  <2>2. tick' = Idle \/ tick'.t = Head(ticks)
    BY <1>2, Zenon DEF TickStart
  <2>3. Head(ticks) \in Ahead /\ \A i \in DOMAIN ticks' : ticks'[i] \in Ahead
    BY <2>1 DEF Ahead, Shape
  <2>4. Ahead' \subseteq Ahead
    BY <2>1, <2>2, <2>3, SMTT(30) DEF Ahead
  <2> QED BY <1>2, <2>1, <2>4, Zenon
<1>3. CASE Restart
  BY <1>3, Restarted DEF Ahead
<1>4. CASE ~Connect /\ ~Reorg /\ ~TickStart /\ ~Restart
  <2>1. UNCHANGED <<tip, ticks, reorgs>>
    BY <1>4, Zenon DEF Next, vars, SyncChange, TickBegin, TickStore, TickDrain, TickAct,
           RecvResponse, RouteResponse, CheckResponse, InsertResponse, RecvReport,
           ProcessReport, chainVars
  <2>2. tick' \in {tick, Idle} \/ (tick # Idle /\ tick' # Idle /\ tick'.t = tick.t)
    <3>1. CASE TickThread
      <4>1. CASE TickAct
        BY <4>1, TickGoesOn, Zenon
      <4>2. CASE TickBegin \/ TickStore \/ TickDrain
        <5>1. tick.pc \in {"begin", "store", "drain"} /\ tick'.t = tick.t
              /\ tick'.pc \in {"store", "drain", "act"}
          BY <4>2, TickBegun, TickGoesOn, Zenon
        <5> QED BY <5>1 DEF Idle
      <4> QED BY <1>4, <3>1, <4>1, <4>2, Zenon DEF TickThread
    <3>2. CASE ~TickThread
      BY <1>4, <3>2, ElsewhereKeeps, Zenon
    <3> QED BY <3>1, <3>2, Zenon
  <2>3. Ahead' \subseteq Ahead
    BY <2>1, <2>2, Zenon DEF Ahead
  <2> QED BY <2>1, <2>2, <2>3, Zenon
<1> QED BY <1>1, <1>2, <1>3, <1>4, Zenon

OrderInv == reorgs \in Nat /\ (reorgs <= 1 => Order)

\* Up to the first reorg every new tip may come after the one before.
LEMMA NewTipFollows ==
    ASSUME Shape, OrderInv, [Next]_vars, reorgs' <= 1
    PROVE  reorgs <= 1 /\ Follows(tip, tip')
<1>1. reorgs \in Nat /\ (reorgs' = reorgs \/ (Reorg /\ reorgs' = reorgs + 1))
  BY AheadStep, Zenon DEF OrderInv
<1>2. reorgs <= 1
  BY <1>1
<1>3. tip \in Tips
  BY Zenon DEF Shape
<1>4. CASE Connect
  <2>1. PICK h \in Heights : h > tip.height /\ tip' = [tip EXCEPT !.height = h]
    BY <1>4, Zenon DEF Connect, NewTip
  <2>2. tip'.branch = tip.branch /\ tip'.height = h
    BY <1>3, <2>1, Zenon DEF Tips
  <2>3. h \in Nat /\ tip.height \in Nat
    BY <1>3, TipFacts, NodeAssumption, Zenon
  <2> QED BY <1>2, <2>1, <2>2, <2>3 DEF Follows
<1>5. CASE Reorg
  <2>1. reorgs = 0
    BY <1>1, <1>5 DEF Reorg
  <2>2. tip.branch = "A"
    BY <2>1 DEF OrderInv, Order
  <2>3. PICK h \in Heights, b \in BranchNames \ {tip.branch} :
            h > ForkHeight /\ tip' = [branch |-> b, height |-> h]
    BY <1>5, Zenon DEF Reorg, NewTip
  <2>4. h \in Nat
    BY NodeAssumption, Zenon
  <2> QED BY <1>2, <2>2, <2>3, <2>4, NodeAssumption, Zenon DEF Follows, BranchNames
<1>6. CASE ~Connect /\ ~Reorg
  <2>1. tip' = tip
    BY <1>6, AheadStep, Zenon
  <2> QED BY <1>2, <1>3, <2>1, FollowsSelf, Zenon
<1> QED BY <1>4, <1>5, <1>6, Zenon

LEMMA AheadFollows ==
    ASSUME Shape, OrderInv, [Next]_vars, reorgs' <= 1, NEW u \in Ahead'
    PROVE  u \in Ahead \/ Follows(tip, u)
BY NewTipFollows, AheadStep, Zenon

LEMMA OrderInvStep ==
    ASSUME Shape, OrderInv, [Next]_vars
    PROVE  OrderInv'
<1>1. reorgs' \in Nat
  BY AheadStep DEF OrderInv
<1> SUFFICES ASSUME reorgs' <= 1 PROVE Order'
  BY <1>1, Zenon DEF OrderInv
<1>2. Shape'
  BY ShapeStep, Zenon
<1>3. reorgs <= 1 /\ Order /\ Follows(tip, tip') /\ reorgs \in Nat
  BY NewTipFollows, Zenon DEF OrderInv
<1>4. Ahead \subseteq Tips /\ tip \in Tips /\ tip' \in Tips /\ Ahead' \subseteq Tips
  <2>1. Ahead \subseteq Tips /\ tip \in Ahead
    BY AheadType, Zenon
  <2>2. tip' \in Tips
    BY <1>2, Zenon DEF Shape
  <2> QED BY <2>1, <2>2, AheadStep, Zenon
<1>5. (reorgs' = 0 => tip'.branch = "A") /\ (reorgs' = 1 => tip'.branch = "B")
  <2>1. CASE Reorg
    <3>1. reorgs = 0 /\ reorgs' = 1
      BY <1>1, <1>3, <2>1, SMTT(30) DEF Reorg
    <3>2. tip.branch = "A" /\ tip'.branch \in BranchNames \ {tip.branch}
      BY <1>3, <2>1, <3>1 DEF Order, Reorg, NewTip
    <3> QED BY <3>1, <3>2 DEF BranchNames
  <2>2. CASE Connect
    <3>1. tip'.branch = tip.branch /\ reorgs' = reorgs
      BY <1>4, <2>2, Zenon DEF Connect, NewTip, Tips
    <3> QED BY <1>3, <3>1, Zenon DEF Order
  <2>3. CASE ~Reorg /\ ~Connect
    BY <1>3, <2>3, AheadStep, Zenon DEF Order
  <2> QED BY <2>1, <2>2, <2>3, Zenon
<1>6. \A t \in Ahead' : Follows(t, tip')
  <2> SUFFICES ASSUME NEW t \in Ahead' PROVE Follows(t, tip')
    BY Zenon
  <2>1. CASE t \in Ahead
    BY <1>3, <1>4, <2>1, FollowsTrans, Zenon DEF Order
  <2>2. CASE t = tip'
    BY <1>4, <2>2, FollowsSelf, Zenon
  <2> QED BY <2>1, <2>2, AheadStep, Zenon
<1>7. \A i \in DOMAIN ticks : ticks[i] \in Ahead
  BY Zenon DEF Ahead
<1>8. CASE Connect \/ Reorg
  <2>1. ticks' = Append(ticks, tip') /\ tick' = tick
    BY <1>8, AheadStep, Zenon DEF Connect, Reorg, NewTip
  <2>2. \A t \in Ahead : Follows(t, tip')
    BY <1>3, <1>4, FollowsTrans, Zenon DEF Order
  <2>3. \A i, j \in DOMAIN ticks' : i < j => Follows(ticks'[i], ticks'[j])
    <3>1. ticks \in Seq(Tips)
      BY Zenon DEF Shape
    <3>2. /\ Len(ticks) \in Nat /\ DOMAIN ticks = 1 .. Len(ticks)
          /\ DOMAIN ticks' = 1 .. (Len(ticks) + 1) /\ ticks'[Len(ticks) + 1] = tip'
          /\ \A i \in DOMAIN ticks : ticks'[i] = ticks[i]
      BY <2>1, <3>1
    <3> QED BY <1>3, <1>7, <2>2, <3>2 DEF Order
  <2>4. tick' # Idle => \A t \in Ahead' : Follows(tick'.t, t)
    <3> SUFFICES ASSUME tick # Idle, NEW t \in Ahead' PROVE Follows(tick.t, t)
      BY <2>1, Zenon
    <3>1. tick.t \in Ahead
      BY AheadType, Zenon
    <3> QED BY <1>3, <2>2, <3>1, AheadStep, Zenon DEF Order
  <2> QED BY <1>5, <1>6, <2>3, <2>4, Zenon DEF Order
<1>9. CASE TickStart
  <2>1. ticks \in Seq(Tips) /\ ticks # <<>> /\ ticks' = Tail(ticks) /\ tip' = tip
    BY <1>9, Zenon DEF TickStart, Shape, chainVars
  <2>2. tick' = Idle \/ tick'.t = Head(ticks)
    BY <1>9, Zenon DEF TickStart
  <2>3. /\ Len(ticks) \in Nat /\ Len(ticks) > 0 /\ DOMAIN ticks = 1 .. Len(ticks)
        /\ DOMAIN ticks' = 1 .. (Len(ticks) - 1) /\ Head(ticks) = ticks[1]
        /\ \A i \in DOMAIN ticks' : ticks'[i] = ticks[i + 1]
    BY <2>1, SMTT(30)
  <2>4. \A i, j \in DOMAIN ticks' : i < j => Follows(ticks'[i], ticks'[j])
    BY <1>3, <2>3, SMTT(30) DEF Order
  <2>5. tick' # Idle => \A t \in Ahead' : Follows(tick'.t, t)
    <3> SUFFICES ASSUME tick' # Idle, NEW t \in Ahead' PROVE Follows(ticks[1], t)
      BY <2>2, <2>3, Zenon
    <3>1. 1 \in DOMAIN ticks /\ ticks[1] \in Ahead /\ ticks[1] \in Tips
      BY <1>4, <1>7, <2>3
    <3>2. t = tip \/ t = ticks[1] \/ \E i \in DOMAIN ticks' : t = ticks[i + 1]
      BY <2>1, <2>2, <2>3, Zenon DEF Ahead
    <3>3. ASSUME NEW i \in DOMAIN ticks' PROVE Follows(ticks[1], ticks[i + 1])
      <4>1. i + 1 \in DOMAIN ticks /\ 1 < i + 1
        BY <2>3
      <4> QED BY <1>3, <3>1, <4>1, Zenon DEF Order
    <3> QED BY <1>3, <3>1, <3>2, <3>3, FollowsSelf, Zenon DEF Order
  <2> QED BY <1>5, <1>6, <2>4, <2>5, Zenon DEF Order
<1>10. CASE Restart
  <2>1. ticks' = <<>> /\ tick' = Idle
    BY <1>10, Restarted, Zenon
  <2> QED BY <1>5, <1>6, <2>1 DEF Order
<1>11. CASE /\ UNCHANGED <<tip, ticks, reorgs>>
            /\ tick' \in {tick, Idle} \/ (tick # Idle /\ tick' # Idle /\ tick'.t = tick.t)
  <2>1. Ahead' \subseteq Ahead
    BY <1>11, Zenon DEF Ahead
  <2>2. tick' # Idle => tick # Idle /\ tick'.t = tick.t
    BY <1>11, Zenon
  <2>3. tick' # Idle => \A t \in Ahead' : Follows(tick'.t, t)
    BY <1>3, <2>1, <2>2, Zenon DEF Order
  <2> QED BY <1>3, <1>5, <1>6, <1>11, <2>3, Zenon DEF Order
<1> QED BY <1>8, <1>9, <1>10, <1>11, AheadStep, Zenon

LEMMA OrderInvInit == Init => OrderInv
<1> SUFFICES ASSUME Init PROVE OrderInv
  BY Zenon
<1>1. tip.branch = "A" /\ ticks = <<>> /\ tick = Idle /\ reorgs = 0
  BY Zenon DEF Init, Boot
<1>2. Ahead = {tip}
  BY <1>1 DEF Ahead
<1>3. Follows(tip, tip)
  BY ShapeInit, FollowsSelf, Zenon DEF Shape
<1> QED BY <1>1, <1>2, <1>3 DEF OrderInv, Order
-----------------------------------------------------------------------------
(* The reports this node has signed. *)

\* The bases of the two branches are told apart.
LEMMA BaseFacts ==
    ASSUME NEW e
    PROVE  /\ Base("B", e) # <<"A", e>>
           /\ \A b \in BranchNames : Base(b, e) # NoBase
           /\ ~(e * Interval <= ForkHeight) => Base("A", e) = <<"A", e>>
BY Zenon DEF Base, NoBase, BranchNames

LEMMA MadeBeforeLater ==
    ASSUME NEW r, NEW t \in Tips, NEW u \in Tips, MadeBefore(r, t), Follows(t, u)
    PROVE  MadeBefore(r, u)
BY FollowsTrans, Zenon DEF MadeBefore

\* A tick of a lower epoch than a report's, or at the very base of its epoch,
\* is on the other branch, and there the epoch's base is another.
LEMMA BehindIsForeign ==
    ASSUME NEW r, NEW t \in Tips, MadeBefore(r, t),
           \/ EpochOf(t.height) < r.nEpoch
           \/ EpochOf(t.height) = r.nEpoch /\ PosOf(t.height) = 0
    PROVE  t.branch = "B" /\ r.base = <<"A", r.nEpoch>>
<1>1. PICK s \in Tips : /\ r.nEpoch = EpochOf(s.height) /\ r.base = Base(s.branch, r.nEpoch)
                        /\ PosOf(s.height) >= Cutoff /\ Follows(s, t)
  BY Zenon DEF MadeBefore
<1>2. s.height \in Nat /\ t.height \in Nat
  BY TipFacts, Zenon
<1> DEFINE e == EpochOf(s.height)
           f == EpochOf(t.height)
           x == e * Interval
<1>3. /\ e \in Nat /\ f \in Nat /\ x \in Nat
      /\ Cutoff \in Nat /\ Cutoff > 0 /\ ForkHeight \in Nat
  <2>1. e \in Nat /\ f \in Nat
    BY <1>2, EpochBounds, Zenon
  <2> HIDE DEF e, f
  <2> QED BY <2>1, CutoffPositive, NodeAssumption
<1>4. s.height = x + PosOf(s.height) /\ PosOf(s.height) \in Nat
  BY <1>2, EpochBounds, Zenon
<1>5. t.height <= x
  <2>1. CASE f < e
    <3>1. t.height < x
      BY <1>2, <1>3, <2>1, LaterBase, Zenon
    <3> HIDE DEF x, e, f
    <3> QED BY <1>2, <1>3, <3>1
  <2>2. CASE f = e /\ PosOf(t.height) = 0
    <3>1. t.height = f * Interval + PosOf(t.height)
      BY <1>2, EpochBounds, Zenon
    <3>2. t.height = x + 0
      BY <2>2, <3>1, Zenon
    <3> HIDE DEF x, e, f
    <3> QED BY <1>2, <1>3, <3>2
  <2> QED BY <1>1, <2>1, <2>2, Zenon
<1>6. r.nEpoch = e
  BY <1>1, Zenon
<1> HIDE DEF e, f
<1>7. ~(s.branch = t.branch /\ s.height <= t.height)
  <2> HIDE DEF x
  <2> QED BY <1>1, <1>2, <1>3, <1>4, <1>5
<1>8. s.branch = "A" /\ t.branch = "B" /\ ForkHeight < t.height
  BY <1>1, <1>7, Zenon DEF Follows
<1>9. ~(e * Interval <= ForkHeight)
  BY <1>2, <1>3, <1>5, <1>8
<1> QED BY <1>1, <1>6, <1>8, <1>9, BaseFacts, Zenon

\* Once the ticks ahead are on branch B they stay there.
LEMMA ForeignStays ==
    ASSUME Shape, OrderInv, [Next]_vars, reorgs' <= 1, NEW r, Foreign(r)
    PROVE  Foreign(r)'
<1>1. tip.branch = "B"
  BY AheadType, Zenon DEF Foreign
<1>2. \A u \in Ahead' : u.branch = "B"
  BY <1>1, AheadFollows, Zenon DEF Foreign, Follows
<1> QED BY <1>2, Zenon DEF Foreign

LEMMA ForeignFrom ==
    ASSUME Shape, OrderInv, [Next]_vars, reorgs' <= 1, tick # Idle, NEW r,
           MadeBefore(r, tick.t),
           \/ EpochOf(tick.t.height) < r.nEpoch
           \/ EpochOf(tick.t.height) = r.nEpoch /\ PosOf(tick.t.height) = 0
    PROVE  Foreign(r)'
<1>1. tick.t \in Tips
  BY AheadType, Zenon
<1>2. tick.t.branch = "B" /\ r.base = <<"A", r.nEpoch>>
  BY <1>1, BehindIsForeign, Zenon
<1>3. \A u \in Ahead : u.branch = "B"
  <2>1. Order
    BY NewTipFollows, Zenon DEF OrderInv
  <2> QED BY <1>2, <2>1, Zenon DEF Order, Follows
<1>4. Foreign(r)
  BY <1>2, <1>3, Zenon DEF Foreign
<1> QED BY <1>4, ForeignStays, Zenon

LEMMA MadeBeforeStep ==
    ASSUME Shape, OrderInv, EmitInv, [Next]_vars, reorgs' <= 1, NEW r \in emitted,
           NEW u \in Ahead'
    PROVE  MadeBefore(r, u)
<1>1. tip \in Ahead /\ tip \in Tips
  BY AheadType, Zenon
<1>2. u \in Tips
  <2>1. Shape'
    BY ShapeStep, Zenon
  <2>2. tip' \in Tips
    BY <2>1, Zenon DEF Shape
  <2> QED BY <2>2, AheadStep, AheadType, Zenon
<1> QED BY <1>1, <1>2, AheadFollows, MadeBeforeLater, Zenon DEF EmitInv

\* A report stays out of question in the tick thread's steps.
LEMMA NotAgainTick ==
    ASSUME Shape, TickInv, OrderInv, EmitInv, TickThread, [Next]_vars, reorgs' <= 1,
           NEW r \in emitted
    PROVE  NotAgain(r)'
<1>1. Foreign(r) => Foreign(r)'
  BY ForeignStays, Zenon
<1>2. NotAgain(r)
  BY Zenon DEF EmitInv
<1>3. r.nEpoch \in Nat /\ m_epoch \in Nat
  BY SeenTypes, Zenon DEF Shape, SeenReports
<1>4. tick # Idle => MadeBefore(r, tick.t)
  BY AheadType, Zenon DEF EmitInv
<1>5. CASE TickStart
  <2>1. ~ResetDue
    BY <1>5, TickGoesOn DEF ResetDue, Idle
  <2>2. UNCHANGED <<m_epoch, lastEmitted, warmup, firstTick>>
    BY <1>5, TickGoesOn, Zenon DEF managerVars, tickVars
  <2> QED BY <1>1, <1>2, <2>1, <2>2, Zenon DEF NotAgain
<1>6. CASE TickStore
  <2>1. UNCHANGED <<m_epoch, lastEmitted, warmup, firstTick>>
    BY <1>6, TickGoesOn, Zenon DEF managerVars, tickVars
  <2>2. ResetDue => ResetDue'
    BY <1>6, TickGoesOn, Zenon DEF ResetDue
  <2> QED BY <1>1, <1>2, <2>1, <2>2, Zenon DEF NotAgain
<1>7. ASSUME tick # Idle, EpochOf(tick.t.height) = m_epoch', m_epoch' # r.nEpoch
      PROVE  NotAgain(r)'
  <2>1. m_epoch' \in Nat
    BY <1>7, AheadType, TipFacts, Zenon
  <2>2. CASE m_epoch' > r.nEpoch
    BY <2>2, Zenon DEF NotAgain
  <2>3. CASE m_epoch' < r.nEpoch
    <3>1. Foreign(r)'
      BY <1>4, <1>7, <2>3, ForeignFrom, Zenon
    <3> QED BY <3>1, Zenon DEF NotAgain
  <2> QED BY <1>3, <1>7, <2>1, <2>2, <2>3
<1>8. CASE TickBegin
  <2> DEFINE e == EpochOf(tick.t.height)
             b == Base(tick.t.branch, e)
  <2>1. /\ tick.pc = "begin" /\ m_epoch' = e /\ tick'.change = EpochChange(e, b)
        /\ EpochChange(e, b) # "None" => tick'.pc = "store"
    BY <1>8, TickBegun, Zenon
  <2>2. tick # Idle /\ ~ResetDue
    BY <2>1 DEF Idle, ResetDue
  <2>3. UNCHANGED <<lastEmitted, warmup, firstTick>>
    BY <1>8, Zenon DEF TickBegin, tickVars
  <2>4. CASE e # r.nEpoch
    BY <1>7, <2>1, <2>2, <2>4, Zenon
  <2>5. CASE e = r.nEpoch
    <3>1. CASE m_epoch > r.nEpoch
      <4>1. EpochChange(e, b) = "Rewound"
        BY <1>3, <2>5, <3>1 DEF EpochChange
      <4>2. ResetDue'
        BY <2>1, <4>1, Zenon DEF ResetDue
      <4> QED BY <2>1, <2>5, <4>2, Zenon DEF NotAgain
    <3>2. CASE ~(m_epoch > r.nEpoch)
      BY <1>1, <1>2, <2>2, <2>3, <3>2, Zenon DEF NotAgain
    <3> QED BY <3>1, <3>2, Zenon
  <2> QED BY <2>4, <2>5, Zenon
<1>9. CASE TickDrain
  <2>1. /\ tick.pc = "drain" /\ tick'.pc = "act" /\ firstTick' = FALSE /\ m_epoch' = m_epoch
    BY <1>9, TickGoesOn, Zenon
  <2>2. tick # Idle /\ m_epoch = EpochOf(tick.t.height)
    BY <2>1 DEF TickInv, Running, OnEpoch, Idle
  <2> DEFINE reset == tick.change \in {"Rebased", "Rewound"}
  <2>3. /\ lastEmitted' = IF reset THEN -1 ELSE lastEmitted
        /\ warmup' = WarmupEpoch(reset, tick.t.height)
    BY <1>9, Zenon DEF TickDrain
  <2>4. ResetDue <=> reset
    BY <2>1, Zenon DEF ResetDue
  <2> HIDE DEF reset
  <2>5. CASE m_epoch # r.nEpoch
    BY <1>7, <2>1, <2>2, <2>5, Zenon
  <2>6. CASE m_epoch = r.nEpoch
    <3>1. CASE reset \/ (firstTick /\ PosOf(tick.t.height) # 0)
      <4>1. warmup' = r.nEpoch
        BY <2>2, <2>3, <2>6, <3>1, Zenon DEF WarmupEpoch
      <4> QED BY <4>1, Zenon DEF NotAgain
    <3>2. CASE firstTick /\ PosOf(tick.t.height) = 0
      <4>1. Foreign(r)'
        BY <1>4, <2>2, <2>6, <3>2, ForeignFrom, Zenon
      <4> QED BY <4>1, Zenon DEF NotAgain
    <3>3. CASE ~reset /\ ~firstTick
      <4>1. UNCHANGED <<lastEmitted, warmup>> /\ ~ResetDue
        BY <2>3, <2>4, <3>3, Zenon DEF WarmupEpoch
      <4>2. ~(m_epoch > r.nEpoch)
        BY <1>3, <2>6
      <4> QED BY <1>1, <1>2, <3>3, <4>1, <4>2, Zenon DEF NotAgain
    <3> QED BY <3>1, <3>2, <3>3, Zenon
  <2> QED BY <2>5, <2>6, Zenon
<1>10. CASE TickAct
  <2>1. tick.pc = "act" /\ UNCHANGED <<warmup, firstTick, m_epoch>>
    BY <1>10, TickGoesOn, Zenon
  <2>2. tick # Idle /\ m_epoch = EpochOf(tick.t.height) /\ ~ResetDue
    BY <2>1 DEF TickInv, Running, OnEpoch, Idle, ResetDue
  <2>3. lastEmitted' \in {lastEmitted, EpochOf(tick.t.height)}
    BY <1>10, TickActs, Zenon
  <2>4. CASE m_epoch # r.nEpoch
    BY <1>7, <2>1, <2>2, <2>4, Zenon
  <2>5. CASE m_epoch = r.nEpoch
    <3>1. lastEmitted = r.nEpoch => lastEmitted' = r.nEpoch
      BY <2>2, <2>3, <2>5, Zenon
    <3> QED BY <1>1, <1>2, <2>1, <2>2, <3>1, Zenon DEF NotAgain
  <2> QED BY <2>4, <2>5, Zenon
<1> QED BY <1>5, <1>6, <1>8, <1>9, <1>10, Zenon DEF TickThread

\* No report is signed for an epoch and base that has one.
LEMMA SignedAfresh ==
    ASSUME Shape, TickInv, OrderInv, EmitInv, TickAct, reorgs <= 1, NEW r \in emitted,
           PosOf(tick.t.height) >= Cutoff,
           EpochOf(tick.t.height) # warmup, EpochOf(tick.t.height) # lastEmitted,
           r.nEpoch = EpochOf(tick.t.height)
    PROVE  r.base # Base(tick.t.branch, r.nEpoch)
<1>1. tick.pc = "act"
  BY TickGoesOn, Zenon
<1>2. tick # Idle /\ m_epoch = EpochOf(tick.t.height) /\ ~ResetDue /\ firstTick = FALSE
  BY <1>1 DEF TickInv, Running, OnEpoch, Idle, ResetDue
<1>3. r.nEpoch \in Nat
  BY SeenTypes, Zenon DEF Shape, SeenReports
<1>4. Foreign(r)
  <2>1. ~(m_epoch > r.nEpoch)
    BY <1>2, <1>3
  <2>2. NotAgain(r)
    BY Zenon DEF EmitInv
  <2> QED BY <1>2, <2>1, <2>2, Zenon DEF NotAgain
<1>5. tick.t.branch = "B" /\ r.base = <<"A", r.nEpoch>>
  BY <1>2, <1>4, AheadType, Zenon DEF Foreign
<1> QED BY <1>5, BaseFacts, Zenon

SignInv == reorgs <= 1 => EmitInv /\ NoEquivocation

LEMMA SignInvStep ==
    ASSUME Shape, TickInv, OrderInv, SignInv, [Next]_vars
    PROVE  SignInv'
<1> SUFFICES ASSUME reorgs' <= 1 PROVE EmitInv' /\ NoEquivocation'
  BY Zenon DEF SignInv
<1>1. reorgs <= 1 /\ EmitInv /\ NoEquivocation
  BY NewTipFollows, Zenon DEF SignInv
<1>2. \A r \in emitted, u \in Ahead' : MadeBefore(r, u)
  BY <1>1, MadeBeforeStep, Zenon
<1>3. CASE ~TickThread
  <2>1. emitted' = emitted
    <3>1. CASE Restart
      BY <3>1, Restarted, Zenon
    <3>2. CASE ~Restart
      BY <1>3, <3>2, ElsewhereKeeps, Zenon
    <3> QED BY <3>1, <3>2, Zenon
  <2>2. ASSUME NEW r \in emitted PROVE NotAgain(r)'
    <3>1. CASE Restart
      BY <3>1, Restarted, Zenon DEF NotAgain
    <3>2. CASE ~Restart
      <4>1. UNCHANGED <<tick, m_epoch, lastEmitted, warmup, firstTick>>
        BY <1>3, <3>2, ElsewhereKeeps, Zenon
      <4>2. Foreign(r) => Foreign(r)'
        BY ForeignStays, Zenon
      <4>3. NotAgain(r) /\ (ResetDue => ResetDue')
        BY <1>1, <4>1, Zenon DEF EmitInv, ResetDue
      <4> QED BY <4>1, <4>2, <4>3, Zenon DEF NotAgain
    <3> QED BY <3>1, <3>2, Zenon
  <2> QED BY <1>1, <1>2, <2>1, <2>2, Zenon DEF EmitInv, NoEquivocation
<1>4. CASE TickThread /\ ~TickAct
  <2>1. emitted' = emitted
    <3>1. CASE TickBegin
      BY <3>1, Zenon DEF TickBegin, history
    <3> QED BY <1>4, <3>1, TickGoesOn, Zenon DEF TickThread
  <2> QED BY <1>1, <1>2, <1>4, <2>1, NotAgainTick, Zenon DEF EmitInv, NoEquivocation
<1>5. CASE TickAct
  <2> DEFINE e == EpochOf(tick.t.height)
             b == Base(tick.t.branch, e)
             v == ListAt(tip.height)
  <2>1. PICK R : /\ R \subseteq OwnReports(e, b, v)
                 /\ emitted' = emitted \cup {r \in R : Acceptable(r, v, b)}
                 /\ \/ R = {}
                    \/ /\ PosOf(tick.t.height) >= Cutoff
                       /\ e # warmup /\ e # lastEmitted /\ lastEmitted' = e
    BY <1>5, TickActs, ZenonT(30)
  <2>2. ASSUME NEW r \in R PROVE r.nEpoch = e /\ r.base = b
    <3> HIDE DEF e, b, v
    <3>1. r \in OwnReports(e, b, v)
      BY <2>1, Zenon
    <3> QED BY <3>1, OwnReportsOf, Zenon
  <2>3. tick # Idle /\ tick.t \in Tips
    <3>1. tick.pc = "act"
      BY <1>5, TickGoesOn, Zenon
    <3> QED BY <3>1, AheadType DEF Idle
  <2>4. ASSUME NEW r \in R, NEW u \in Ahead' PROVE MadeBefore(r, u)
    <3>1. u \in Ahead
      <4>1. tip' = tip
        BY <1>5, Zenon DEF TickAct, chainVars
      <4> QED BY <4>1, AheadStep, AheadType, Zenon
    <3>2. Follows(tick.t, u)
      BY <1>1, <2>3, <3>1, Zenon DEF OrderInv, Order
    <3> QED BY <2>1, <2>2, <2>3, <3>2, Zenon DEF MadeBefore
  <2>5. \A r \in R : NotAgain(r)'
    BY <2>1, <2>2, Zenon DEF NotAgain
  <2>6. \A r \in emitted : NotAgain(r)'
    BY <1>1, <1>5, NotAgainTick, Zenon DEF TickThread
  <2>7. ASSUME NEW r \in R, NEW s \in emitted, r.nEpoch = s.nEpoch PROVE r.base # s.base
    BY <1>1, <1>5, <2>1, <2>2, <2>7, SignedAfresh, Zenon
  <2>8. \A r, s \in R : SameKey(r, s) => r = s
    BY <2>1, OwnReportsOnePerTarget, Zenon
  <2> HIDE DEF e, b, v
  <2>9. emitted' \subseteq emitted \cup R
    BY <2>1, Zenon
  <2>10. EmitInv'
    BY <1>2, <2>4, <2>5, <2>6, <2>9, Zenon DEF EmitInv
  <2>11. NoEquivocation'
    BY <1>1, <2>7, <2>8, <2>9, Zenon DEF NoEquivocation, SameKey
  <2> QED BY <2>10, <2>11, Zenon
<1> QED BY <1>3, <1>4, <1>5, Zenon DEF TickThread

LEMMA SignInvInit == Init => SignInv
BY Zenon DEF Init, SignInv, EmitInv, NoEquivocation

(***************************************************************************)
(* Through one reorg, of whatever length, and any number of restarts and   *)
(* losses of sync, this node never signs both ONLINE and MISSED for one    *)
(* target, epoch and base: lastEmitted, the warm-up epoch of a reset and   *)
(* that of a restart in mid-epoch between them leave no second chance to   *)
(* report.                                                                 *)
(***************************************************************************)
THEOREM OneReportSigned == Spec => [](reorgs <= 1 => NoEquivocation)
<1> DEFINE Inv == Shape /\ TickInv /\ OrderInv /\ SignInv
<1>1. Init => Inv
  BY ShapeInit, TickInvInit, OrderInvInit, SignInvInit, Zenon
<1>2. Inv /\ [Next]_vars => Inv'
  BY ShapeStep, TickInvStep, OrderInvStep, SignInvStep, Zenon
<1>3. Inv => (reorgs <= 1 => NoEquivocation)
  BY Zenon DEF SignInv
<1> QED BY <1>1, <1>2, <1>3, PTL DEF Spec-----------------------------------------------------------------------------
(* Before the first reorg. *)

LEMMA OneBranch ==
    ASSUME Shape, OrderInv, [Next]_vars, reorgs' = 0
    PROVE  /\ reorgs = 0 /\ Order
           /\ \A u \in Ahead : u.branch = "A"
           /\ tip.height \in Nat /\ tip'.height \in Nat /\ tip.height <= tip'.height
           /\ tip'.branch = "A"
<1>1. reorgs \in Nat /\ (reorgs' = reorgs \/ reorgs' = reorgs + 1)
  BY AheadStep, Zenon DEF OrderInv
<1>2. reorgs = 0 /\ Order
  BY <1>1 DEF OrderInv
<1>3. tip.branch = "A" /\ \A u \in Ahead : u.branch = "A"
  BY <1>2, Zenon DEF Order, Follows
<1>4. tip'.branch = "A"
  <2>1. OrderInv'
    BY OrderInvStep, Zenon
  <2>2. Order'
    BY <2>1 DEF OrderInv
  <2> QED BY <2>2, Zenon DEF Order
<1>5. Follows(tip, tip')
  BY NewTipFollows
<1>6. tip.height \in Nat /\ tip'.height \in Nat
  <2>1. tip \in Tips /\ tip' \in Tips
    BY ShapeStep, Zenon DEF Shape
  <2> QED BY <2>1, TipFacts, Zenon
<1> QED BY <1>2, <1>3, <1>4, <1>5, <1>6, Zenon DEF Follows

\* The manager's epoch never goes back.
LEMMA EpochGrows ==
    ASSUME Shape, TickInv, OrderInv, EpochInv, [Next]_vars, reorgs' = 0
    PROVE  /\ m_epoch \in Nat /\ m_epoch' \in Nat /\ m_epoch <= m_epoch'
           /\ m_epochBlockHash' = Base("A", m_epoch')
           /\ \A u \in Ahead' : m_epoch' <= EpochOf(u.height)
<1>1. m_epoch \in Nat /\ m_epoch' \in Nat
  <2>1. m_epoch \in SeenEpochs
    BY Zenon DEF Shape
  <2>2. m_epoch' \in SeenEpochs
    BY ShapeStep, Zenon DEF Shape
  <2> QED BY <2>1, <2>2, SeenTypes, Zenon
<1>2. ASSUME NEW u \in Ahead'
      PROVE  u \in Ahead \/ (u = tip' /\ EpochOf(tip.height) <= EpochOf(u.height))
  BY AheadStep, OneBranch, EpochMonotone, Zenon
<1>3. tip \in Ahead /\ tip \in Tips
  BY AheadType, Zenon
<1>4. CASE UNCHANGED <<m_epoch, m_epochBlockHash>>
  <2>1. m_epoch <= EpochOf(tip.height) /\ EpochOf(tip.height) \in Nat
    BY <1>3, TipFacts, Zenon DEF EpochInv
  <2>2. EpochOf(tip'.height) \in Nat
    BY OneBranch, EpochBounds, Zenon
  <2> QED BY <1>1, <1>2, <1>4, <2>1, <2>2 DEF EpochInv
<1>5. CASE Restart
  <2>1. Ahead' = {tip}
    BY <1>5, Restarted DEF Ahead
  <2>2. m_epoch' = EpochOf(tip.height) /\ m_epochBlockHash' = Base("A", m_epoch')
    BY <1>3, <1>5, Restarted, OneBranch, Zenon
  <2>3. m_epoch <= EpochOf(tip.height)
    BY <1>3, Zenon DEF EpochInv
  <2> QED BY <1>1, <2>1, <2>2, <2>3
<1>6. CASE TickBegin
  <2>1. tick.t \in Tips /\ m_epoch' = EpochOf(tick.t.height) /\ tick # Idle
        /\ m_epochBlockHash' = Base(tick.t.branch, EpochOf(tick.t.height))
    BY <1>6, TickBegun DEF Idle
  <2>2. tick.t \in Ahead
    BY <2>1, AheadType, Zenon
  <2>3. Ahead' \subseteq Ahead
    <3>1. tip' = tip
      BY <1>6, Zenon DEF TickBegin, chainVars
    <3> QED BY <1>3, <3>1, AheadStep, Zenon
  <2>4. ASSUME NEW u \in Ahead PROVE EpochOf(tick.t.height) <= EpochOf(u.height)
    <3>1. Follows(tick.t, u) /\ u.branch = "A" /\ tick.t.branch = "A"
      BY <2>1, <2>2, OneBranch, Zenon DEF Order
    <3>2. tick.t.height \in Nat /\ u.height \in Nat /\ tick.t.height <= u.height
      BY <2>1, <3>1, TipFacts, AheadType, Zenon DEF Follows
    <3> QED BY <3>2, EpochMonotone, Zenon
  <2>5. m_epoch <= m_epoch' /\ m_epochBlockHash' = Base("A", m_epoch')
    BY <2>1, <2>2, OneBranch, Zenon DEF EpochInv
  <2> QED BY <1>1, <2>1, <2>3, <2>4, <2>5, ZenonT(30)
<1> QED
  <2>1. CASE TickThread /\ ~TickBegin
    BY <1>4, <2>1, TickGoesOn, Zenon DEF TickThread, managerVars
  <2>2. CASE ~TickThread /\ ~Restart
    BY <1>4, <2>2, ElsewhereKeeps, Zenon
  <2> QED BY <1>5, <1>6, <2>1, <2>2, Zenon

LEMMA NoReset ==
    ASSUME Shape, OrderInv, EpochInv, TickBegin, [Next]_vars, reorgs' = 0
    PROVE  /\ tick'.change \in {"None", "Entered"} /\ tick'.stale = {}
<1> DEFINE e == EpochOf(tick.t.height)
           b == Base(tick.t.branch, e)
<1>1. /\ tick.t \in Tips /\ tick # Idle
      /\ tick'.change = EpochChange(e, b) /\ tick'.stale = StaleEpochs(e, b)
  BY TickBegun DEF Idle
<1>2. tick.t \in Ahead /\ tick.t.branch = "A"
  BY <1>1, AheadType, OneBranch, ZenonT(30)
<1>3. m_epoch <= e /\ m_epoch \in Nat /\ e \in Nat
  BY <1>1, <1>2, TipFacts, SeenTypes, Zenon DEF EpochInv, Shape
<1>4. e = m_epoch => b = m_epochBlockHash
  BY <1>2, Zenon DEF EpochInv
<1> HIDE DEF e, b
<1>5. EpochChange(e, b) \in {"None", "Entered"}
  BY <1>3, <1>4 DEF EpochChange
<1>6. StaleEpochs(e, b) = {}
  BY <1>5, Zenon DEF StaleEpochs
<1> QED BY <1>1, <1>5, <1>6, ZenonT(30)

LEMMA EpochInvStep ==
    ASSUME Shape, TickInv, StoreInv, OrderInv, EpochInv, [Next]_vars, reorgs' = 0
    PROVE  EpochInv'
<1>1. /\ m_epoch \in Nat /\ m_epoch' \in Nat /\ m_epoch <= m_epoch'
      /\ m_epochBlockHash' = Base("A", m_epoch')
      /\ \A u \in Ahead' : m_epoch' <= EpochOf(u.height)
  BY EpochGrows, Zenon
<1>2. /\ m_currentEpoch \in Nat /\ m_currentEpoch' \in Nat
      /\ \A r \in m_reports : r.nEpoch \in Nat
  <2>1. m_currentEpoch' \in SeenEpochs
    BY ShapeStep, Zenon DEF Shape
  <2> QED BY <2>1, SeenTypes, Zenon DEF Shape, SeenReports
<1>3. ASSUME NEW R, \A r, s \in R : SameKey(r, s) => r = s, NEW v, NEW b, AddReports(R, v, b)
      PROVE  \A r \in m_reports' : r.nEpoch <= m_currentEpoch'
  <2>1. m_currentEpoch' = m_currentEpoch
    BY <1>3, Zenon DEF AddReports
  <2>2. \A r \in m_reports' \ m_reports : InWindow(r)
    BY <1>3, AddedInWindow, ZenonT(30)
  <2> QED BY <2>1, <2>2, Zenon DEF InWindow, EpochInv
<1>4. CASE ~TickThread /\ ~Restart
  <2>1. UNCHANGED <<tick, m_currentEpoch>> /\ (m_reports' = m_reports \/ ProcessReport)
    BY <1>4, ElsewhereKeeps, Zenon
  <2>2. \A r \in m_reports' : r.nEpoch <= m_currentEpoch'
    <3>1. CASE ProcessReport
      <4>1. AddReports({msg.r}, ListAt(msg.r.nEpoch * Interval), msg.base)
        BY <3>1, Zenon DEF ProcessReport
      <4> QED BY <1>3, <4>1, Zenon
    <3> QED BY <2>1, <3>1, Zenon DEF EpochInv
  <2> QED BY <1>1, <1>2, <2>1, <2>2 DEF EpochInv, ResetDue
<1>5. CASE Restart
  BY <1>1, <1>2, <1>5, Restarted DEF EpochInv, ResetDue, Idle
<1>6. CASE TickStart
  BY <1>1, <1>6, TickGoesOn, Zenon DEF EpochInv, ResetDue, storeVars, managerVars
<1>7. CASE TickBegin
  <2>1. UNCHANGED storeVars /\ ~ResetDue'
    BY <1>7, NoReset, Zenon DEF TickBegin, ResetDue
  <2> QED BY <1>1, <1>2, <2>1 DEF EpochInv, storeVars
<1>8. CASE TickStore
  <2>1. /\ tick.pc = "store" /\ tick'.change = tick.change /\ UNCHANGED managerVars
        /\ m_epoch = EpochOf(tick.t.height)
    BY <1>8, TickGoesOn, Zenon DEF TickInv, Running, OnEpoch
  <2>2. m_reports' \subseteq m_reports /\ m_currentEpoch' = m_epoch
    BY <1>8, <2>1, Zenon DEF TickStore, DropAndSetEpoch
  <2> QED BY <1>1, <1>2, <2>1, <2>2 DEF EpochInv, ResetDue, managerVars
<1>9. CASE TickDrain
  BY <1>1, <1>9, TickGoesOn, Zenon DEF EpochInv, ResetDue, storeVars
<1>10. CASE TickAct
  <2>1. tick' = Idle /\ m_epoch' = m_epoch /\ m_currentEpoch' = m_currentEpoch
    BY <1>10, TickGoesOn, Zenon
  <2>2. \A r \in m_reports' : r.nEpoch <= m_currentEpoch'
    <3> DEFINE e == EpochOf(tick.t.height)
               b == Base(tick.t.branch, e)
               v == ListAt(tip.height)
    <3>1. PICK R : R \subseteq OwnReports(e, b, v) /\ AddReports(R, v, b)
      BY <1>10, TickActs, Zenon
    <3>2. \A r, s \in R : SameKey(r, s) => r = s
      BY <3>1, OwnReportsOnePerTarget, Zenon
    <3> QED BY <1>3, <3>1, <3>2, Zenon
  <2> QED BY <1>1, <2>1, <2>2, Zenon DEF EpochInv, ResetDue, Idle
<1> QED BY <1>4, <1>5, <1>6, <1>7, <1>8, <1>9, <1>10, Zenon DEF TickThread

LEMMA BegunMsgStep ==
    ASSUME Shape, OrderInv, BegunMsg, [Next]_vars, reorgs' = 0
    PROVE  BegunMsg'
<1>1. tip.height \in Nat /\ tip'.height \in Nat /\ tip.height <= tip'.height
  BY OneBranch, Zenon
<1>2. CASE RecvResponse
  <2>1. PICK r \in Responses :
           msg' = [pc |-> "route", r |-> r, base |-> ActiveBase(r.nEpoch), height |-> tip.height]
    BY <1>2, Zenon DEF RecvResponse
  <2>2. tip' = tip
    BY <1>2, Zenon DEF RecvResponse, chainVars
  <2> QED BY <2>1, <2>2, Zenon DEF BegunMsg, ActiveBase
<1>3. CASE RouteResponse \/ CheckResponse
  <2>1. tip' = tip
    BY <1>3, Zenon DEF RouteResponse, CheckResponse, chainVars
  <2>2. /\ msg.pc \in {"route", "check"} /\ msg \in ResponseMsgs
        /\ msg.pc = "route" => \/ msg' = Idle
                               \/ msg.base # NoBase /\ msg' = [msg EXCEPT !.pc = "check"]
        /\ msg.pc = "check" => msg' = Idle \/ msg' = [msg EXCEPT !.pc = "insert"]
    BY <1>3, MsgType, Zenon DEF RouteResponse, CheckResponse, Shape
  <2>3. msg' = Idle \/ (msg'.r = msg.r /\ msg'.base = msg.base
                           /\ msg'.pc # "route" /\ (msg.pc = "route" => msg.base # NoBase))
    BY <2>2, Zenon DEF ResponseMsgs
  <2> QED BY <2>1, <2>2, <2>3 DEF BegunMsg, Idle
<1>4. CASE InsertResponse \/ RecvReport \/ ProcessReport \/ Restart
  <2>1. msg' = Idle \/ msg'.pc = "report"
    BY <1>4 DEF InsertResponse, RecvReport, ProcessReport, Restart
  <2> QED BY <2>1, SMTT(30) DEF BegunMsg, Idle
<1>5. CASE UNCHANGED msg
  <2>1. CASE msg.pc \in {"route", "check", "insert"}
    <3>1. msg.r.nEpoch * Interval \in Nat
      <4>1. msg.r.nEpoch \in Nat
        BY <2>1, MsgType, StoreAssumption, ZenonT(30) DEF Shape, Responses
      <4> QED BY <4>1, NodeAssumption
    <3> QED BY <1>1, <1>5, <3>1, SMTT(30) DEF BegunMsg
  <2> QED BY <1>5, <2>1, ZenonT(30) DEF BegunMsg
<1>6. \/ RecvResponse \/ RouteResponse \/ CheckResponse \/ InsertResponse \/ RecvReport
      \/ ProcessReport \/ Restart \/ UNCHANGED msg
  BY Zenon DEF Next, vars, Connect, Reorg, NewTip, SyncChange, TickStart, TickBegin, TickStore,
         TickDrain, TickAct
<1> QED BY <1>2, <1>3, <1>4, <1>5, <1>6, Zenon

LEMMA PendingStep ==
    ASSUME Shape, [Next]_vars, NEW u \in Pending'
    PROVE  u \in Pending \/ (u = tip' /\ Connect) \/ Reorg
<1>1. ticks \in Seq(Tips)
  BY Zenon DEF Shape
<1>2. CASE Connect \/ Reorg
  <2>1. ticks' = Append(ticks, tip') /\ tick' = tick
    <3>1. PICK t : NewTip(t)
      BY <1>2, Zenon DEF Connect, Reorg
    <3> QED BY <3>1, Zenon DEF NewTip
  <2>2. \A i \in DOMAIN ticks' : ticks'[i] = tip' \/ \E j \in DOMAIN ticks : ticks'[i] = ticks[j]
    BY <1>1, <2>1
  <2> QED BY <1>2, <2>1, <2>2, ZenonT(30) DEF Pending
<1>3. CASE TickStart
  <2>1. /\ ticks # <<>> /\ ticks' = Tail(ticks)
        /\ tick' = Idle \/ tick' = [pc |-> "begin", t |-> Head(ticks), change |-> "None", stale |-> {}]
    BY <1>3, Zenon DEF TickStart
  <2>2. /\ \A i \in DOMAIN ticks' : \E j \in DOMAIN ticks : ticks'[i] = ticks[j]
        /\ \E j \in DOMAIN ticks : Head(ticks) = ticks[j]
    BY <1>1, <2>1
  <2>3. tick' = Idle \/ tick'.t = Head(ticks)
    BY <2>1, SMTT(30)
  <2> HIDE <2>1
  <2> QED BY <2>2, <2>3, ZenonT(30) DEF Pending
<1>4. CASE Restart
  BY <1>4, Restarted DEF Pending
<1>5. CASE ~(Connect \/ Reorg \/ TickStart \/ Restart)
  <2>1. /\ ticks' = ticks
        /\ tick' \in {tick, Idle} \/ (tick # Idle /\ tick' # Idle /\ tick'.t = tick.t)
    BY <1>5, AheadStep, Zenon
  <2> QED BY <2>1, Zenon DEF Pending
<1> QED BY <1>2, <1>3, <1>4, <1>5, Zenon

\* What was accepted stays accounted for, where nothing of it is forgotten.
LEMMA AcceptedStays ==
    ASSUME Shape, TickInv, OrderInv, EpochInv, [Next]_vars, reorgs' = 0,
           NEW a \in SeenResponses, AcceptedOK(a)
    PROVE  AcceptedOK(a)'
<1> DEFINE x == a.nEpoch * Interval
<1>1. a.nEpoch \in Nat /\ x \in Nat
  <2>1. a.nEpoch \in Nat
    BY SeenTypes, Zenon DEF SeenResponses
  <2> QED BY <2>1, NodeAssumption
<1>2. /\ tip.height \in Nat /\ tip'.height \in Nat /\ tip.height <= tip'.height
      /\ m_epoch \in Nat /\ m_epoch' \in Nat /\ m_epoch <= m_epoch'
  BY OneBranch, EpochGrows, Zenon
<1>3. x <= tip.height
  BY Zenon DEF AcceptedOK
<1> HIDE DEF x
<1>4. x <= tip'.height
  BY <1>1, <1>2, <1>3
<1>5. a.nEpoch < m_epoch => a.nEpoch < m_epoch'
  BY <1>1, <1>2
<1>6. CASE Restart
  <2>1. firstTick' = TRUE /\ Pending' = {}
    BY <1>6, Restarted DEF Pending
  <2> QED BY <1>4, <2>1, Zenon DEF AcceptedOK, x
<1>7. ~Reorg
  <2>1. reorgs = 0
    BY OneBranch, Zenon
  <2>2. Reorg => reorgs' = reorgs + 1
    BY Zenon DEF Reorg
  <2> QED BY <2>1, <2>2
<1>8. ASSUME \A t \in Pending : x < t.height, NEW u \in Pending' PROVE x < u.height
  <2>1. CASE Connect /\ u = tip'
    <3>1. PICK h \in Heights : h > tip.height /\ tip' = [tip EXCEPT !.height = h]
      BY <2>1, Zenon DEF Connect, NewTip
    <3>2. tip'.height = h /\ h \in Nat
      BY <3>1, NodeAssumption, Zenon DEF Shape, Tips
    <3> QED BY <1>1, <1>2, <1>3, <2>1, <3>1, <3>2, SMTT(30)
  <2> QED BY <1>7, <1>8, <2>1, PendingStep, Zenon
<1>9. CASE TickBegin
  <2>1. UNCHANGED <<warmup, firstTick>>
    BY <1>9, Zenon DEF TickBegin, tickVars
  <2>2. CASE Recorded(m_responded, a.nEpoch, a.proTx) /\ ~(a.nEpoch < m_epoch')
    <3> DEFINE e == EpochOf(tick.t.height)
               b == Base(tick.t.branch, e)
    <3>1. /\ m_epoch' = e /\ StaleEpochs(e, b) = {}
          /\ UNCHANGED managerVars \/ BeginEpochLocked(e, b)
      BY <1>9, TickBegun, NoReset, Zenon
    <3>2. e \in Nat /\ OldestKeptEpoch(e) \in Nat /\ OldestKeptEpoch(e) <= e
      BY <1>2, <3>1, OldestFacts, Zenon
    <3> HIDE DEF e, b
    <3>3. a.nEpoch >= OldestKeptEpoch(e)
      BY <1>1, <2>2, <3>1, <3>2
    <3>4. Recorded(m_responded', a.nEpoch, a.proTx)
      BY <2>2, <3>1, <3>3, Zenon DEF BeginEpochLocked, Recorded, managerVars
    <3> QED BY <1>4, <3>4, Zenon DEF AcceptedOK, x
  <2> QED BY <1>4, <1>5, <1>8, <2>1, <2>2, Zenon DEF AcceptedOK, x
<1>10. CASE TickDrain
  <2>1. /\ tick.pc = "drain" /\ m_epoch' = m_epoch /\ tick # Idle
        /\ m_epoch = EpochOf(tick.t.height)
    BY <1>10, TickGoesOn DEF TickInv, Running, OnEpoch, Idle
  <2>2. m_responded \subseteq m_responded'
    BY <1>10, TickDrains, RecordedType, Zenon DEF Shape
  <2>3. warmup' = IF firstTick /\ PosOf(tick.t.height) # 0 THEN m_epoch ELSE warmup
    <3>1. ~(tick.change \in {"Rebased", "Rewound"})
      BY <2>1, Zenon DEF EpochInv, ResetDue
    <3>2. warmup' = WarmupEpoch(tick.change \in {"Rebased", "Rewound"}, tick.t.height)
      BY <1>10, Zenon DEF TickDrain
    <3> QED BY <2>1, <3>1, <3>2, Zenon DEF WarmupEpoch
  <2>4. CASE warmup = a.nEpoch
    <3>1. warmup # -1
      BY <1>1, <2>4
    <3>2. firstTick = FALSE
      BY <3>1, Zenon DEF TickInv
    <3> QED BY <1>4, <2>3, <2>4, <3>2, Zenon DEF AcceptedOK, x
  <2>5. CASE firstTick = TRUE /\ \A t \in Pending : x < t.height
    <3>1. tick.t \in Pending /\ tick.t \in Tips
      BY <2>1, AheadType, Zenon DEF Pending
    <3>2. x < tick.t.height /\ tick.t.height \in Nat
      BY <2>5, <3>1, TipFacts, Zenon
    <3>3. a.nEpoch <= m_epoch
      BY <1>1, <2>1, <3>2, BegunEpoch, SMTT(30) DEF x
    <3>4. a.nEpoch = m_epoch => PosOf(tick.t.height) # 0
      <4>1. tick.t.height = m_epoch * Interval + PosOf(tick.t.height)
        BY <2>1, <3>2, EpochBounds, Zenon
      <4>2. a.nEpoch = m_epoch => tick.t.height = x + PosOf(tick.t.height)
        BY <4>1, Zenon DEF x
      <4> QED BY <1>1, <3>2, <4>2
    <3>5. a.nEpoch < m_epoch' \/ warmup' = a.nEpoch
      BY <1>1, <1>2, <2>1, <2>3, <2>5, <3>3, <3>4, SMTT(30)
    <3> QED BY <1>4, <3>5, Zenon DEF AcceptedOK, x
  <2>6. CASE Recorded(m_responded, a.nEpoch, a.proTx)
    BY <1>4, <2>2, <2>6, RecordedGrows, Zenon DEF AcceptedOK, x
  <2>7. CASE a.nEpoch < m_epoch
    BY <1>4, <1>5, <2>7, Zenon DEF AcceptedOK, x
  <2> QED BY <2>4, <2>5, <2>6, <2>7, Zenon DEF AcceptedOK, x
<1>11. CASE ~(Restart \/ TickBegin \/ TickDrain)
  <2>1. UNCHANGED <<warmup, firstTick>> /\ m_responded \subseteq m_responded'
    <3>1. CASE TickAct
      <4>1. m_responded \subseteq m_responded'
        BY <3>1, TickActs, Zenon DEF ProcessResponses, RecordVerified
      <4> QED BY <3>1, <4>1, TickGoesOn, Zenon
    <3>2. CASE TickStart \/ TickStore
      BY <3>2, TickGoesOn, Zenon DEF managerVars, tickVars
    <3>3. CASE ~TickThread
      BY <1>11, <3>3, ElsewhereKeeps, Zenon
    <3> QED BY <1>11, <3>1, <3>2, <3>3, Zenon DEF TickThread
  <2>2. Recorded(m_responded, a.nEpoch, a.proTx) => Recorded(m_responded', a.nEpoch, a.proTx)
    BY <2>1, RecordedGrows, Zenon
  <2> QED BY <1>4, <1>5, <1>8, <2>1, <2>2, Zenon DEF AcceptedOK, x
<1> QED BY <1>6, <1>9, <1>10, <1>11, Zenon

\* What a step accepts is recorded, and of an epoch that has begun.
LEMMA NewlyAccepted ==
    ASSUME Shape, TickInv, OrderInv, BegunMsg, [Next]_vars, reorgs' = 0
    PROVE  /\ accepted' \subseteq accepted \cup m_responded'
           /\ \A a \in accepted' \ accepted : a.nEpoch * Interval <= tip.height
<1>1. CASE TickDrain \/ TickAct
  <2> DEFINE e == EpochOf(tick.t.height)
             b == Base(tick.t.branch, e)
  <2>1. PICK R : ProcessResponses(R, b) /\ \A r \in R : r.nEpoch = e
    <3>1. CASE TickDrain
      BY <3>1, TickDrains, Zenon
    <3>2. CASE TickAct
      <4> DEFINE mine == [nEpoch |-> e, proTx |-> Me, base |-> b]
      <4>1. ProcessResponses({r \in {mine} : lastAnnounced # e}, b)
        BY <3>2, TickActs, Zenon
      <4>2. \A r \in {r \in {mine} : lastAnnounced # e} : r.nEpoch = e
        OBVIOUS
      <4> HIDE DEF mine
      <4> QED BY <4>1, <4>2, Zenon
    <3> QED BY <1>1, <3>1, <3>2, Zenon
  <2>2. accepted' = accepted \cup (m_responded' \ m_responded)
    BY <1>1, Zenon DEF TickDrain, TickAct
  <2>3. \A a \in m_responded' \ m_responded : a.nEpoch = e
    BY <2>1, Zenon DEF ProcessResponses, RecordVerified
  <2>4. tick # Idle /\ tick.t \in Ahead /\ tick.t \in Tips
    <3>1. tick.pc \in {"drain", "act"}
      BY <1>1, TickGoesOn, Zenon
    <3>2. tick # Idle
      BY <3>1 DEF Idle
    <3> QED BY <3>2, AheadType, Zenon
  <2>5. e * Interval <= tip.height
    <3>1. tick.t.height \in Nat /\ tip.height \in Nat /\ tick.t.height <= tip.height
      <4>1. Follows(tick.t, tip) /\ tick.t.branch = "A" /\ tip.branch = "A"
        BY <2>4, OneBranch, AheadType, Zenon DEF Order
      <4> QED BY <2>4, <4>1, TipFacts, OneBranch, Zenon DEF Follows
    <3>2. e \in Nat /\ tick.t.height = e * Interval + PosOf(tick.t.height)
          /\ PosOf(tick.t.height) \in Nat
      BY <3>1, EpochBounds, Zenon
    <3> HIDE DEF e
    <3>3. e * Interval \in Nat
      BY <3>2, NodeAssumption
    <3> QED BY <3>1, <3>2, <3>3
  <2> HIDE DEF e, b
  <2> QED BY <2>2, <2>3, <2>5, Zenon
<1>2. CASE InsertResponse
  <2>1. /\ msg.pc = "insert" /\ accepted' = accepted \cup (m_responded' \ m_responded)
        /\ m_responded' \subseteq m_responded \cup {msg.r}
    BY <1>2, Zenon DEF InsertResponse, RecordVerified
  <2>2. msg.r.nEpoch * Interval <= tip.height
    BY <2>1, Zenon DEF BegunMsg
  <2> QED BY <2>1, <2>2, Zenon
<1>3. CASE ~(TickDrain \/ TickAct \/ InsertResponse)
  <2>1. accepted' = accepted
    BY <1>3, ZenonT(30) DEF Next, vars, history, Connect, Reorg, NewTip, SyncChange, Restart, TickStart,
           TickBegin, TickStore, RecvResponse, RouteResponse, CheckResponse, RecvReport,
           ProcessReport
  <2> QED BY <2>1, ZenonT(30)
<1> QED BY <1>1, <1>2, <1>3, Zenon

LEMMA AcceptedInvStep ==
    ASSUME Shape, TickInv, OrderInv, EpochInv, AcceptedInv, [Next]_vars, reorgs' = 0
    PROVE  AcceptedInv'
<1>1. BegunMsg'
  BY BegunMsgStep, Zenon DEF AcceptedInv
<1>2. accepted' \subseteq SeenResponses
  BY ShapeStep, NewlyAccepted, Zenon DEF AcceptedInv, Shape
<1>3. ASSUME NEW a \in accepted' \ accepted PROVE AcceptedOK(a)'
  <2>1. a \in m_responded' /\ a.nEpoch * Interval <= tip.height
    BY <1>3, NewlyAccepted, Zenon DEF AcceptedInv
  <2>2. Recorded(m_responded', a.nEpoch, a.proTx)
    BY <2>1, Zenon DEF Recorded
  <2>3. a.nEpoch * Interval <= tip'.height
    <3>1. a.nEpoch * Interval \in Nat
      <4>1. a.nEpoch \in Nat
        BY <1>2, <1>3, SeenTypes, Zenon DEF SeenResponses
      <4> QED BY <4>1, NodeAssumption
    <3> QED BY <2>1, <3>1, OneBranch
  <2> QED BY <2>2, <2>3, Zenon DEF AcceptedOK
<1>4. \A a \in accepted : AcceptedOK(a)'
  BY AcceptedStays, Zenon DEF AcceptedInv
<1> QED BY <1>1, <1>2, <1>3, <1>4, Zenon DEF AcceptedInv

LEMMA OneChainInvStep ==
    ASSUME Shape, TickInv, StoreInv, OrderInv, OneChainInv, [Next]_vars
    PROVE  OneChainInv'
<1> SUFFICES ASSUME reorgs' = 0 PROVE EpochInv' /\ AcceptedInv'
  BY Zenon DEF OneChainInv
<1>1. EpochInv /\ AcceptedInv
  BY OneBranch, Zenon DEF OneChainInv
<1> QED BY <1>1, EpochInvStep, AcceptedInvStep, Zenon

LEMMA OneChainInvInit == Init => OneChainInv
<1> SUFFICES ASSUME Init PROVE OneChainInv
  BY Zenon
<1>1. /\ tip.branch = "A" /\ ticks = <<>> /\ tick = Idle /\ msg = Idle /\ accepted = {}
      /\ m_reports = {} /\ m_epoch = EpochOf(tip.height) /\ m_currentEpoch = m_epoch
      /\ m_epochBlockHash = Base(tip.branch, m_epoch)
  BY Zenon DEF Init, Boot, StoreInit, ManagerInit
<1>2. Ahead = {tip}
  BY <1>1 DEF Ahead
<1>3. EpochOf(tip.height) \in Nat
  BY ShapeInit, TipFacts, Zenon DEF Shape
<1>4. EpochInv
  BY <1>1, <1>2, <1>3 DEF EpochInv, ResetDue, Idle
<1>5. AcceptedInv
  BY <1>1, Zenon DEF AcceptedInv, BegunMsg, Idle
<1> QED BY <1>4, <1>5, Zenon DEF OneChainInv

ChainInv == Shape /\ TickInv /\ StoreInv /\ OrderInv /\ OneChainInv

LEMMA SpecChainInv == Spec => []ChainInv
<1>1. Init => ChainInv
  BY ShapeInit, TickInvInit, StoreInvInit, OrderInvInit, OneChainInvInit, Zenon DEF ChainInv
<1>2. ChainInv /\ [Next]_vars => ChainInv'
  BY ShapeStep, TickInvStep, StoreInvStep, OrderInvStep, OneChainInvStep, Zenon DEF ChainInv
<1> QED BY <1>1, <1>2, PTL DEF Spec

(***************************************************************************)
(* The manager, the store, the hold and the tick state keep their types,   *)
(* whatever reorgs, restarts and interleavings there are: the store holds  *)
(* no report below its window (nor, until a reorg, above it), and at most  *)
(* one per sentinel, target and epoch; the manager records at most one     *)
(* announcement per masternode and epoch.  The epochs and the bases have   *)
(* to include those of the heights at which the tip is seen.               *)
(***************************************************************************)
THEOREM TypeCorrect ==
    ASSUME \A h \in Heights : EpochOf(h) \in Epochs, AllBases \subseteq Bases
    PROVE  Spec => []TypeOK
<1>1. SeenEpochs = Epochs
  BY Zenon DEF SeenEpochs
<1>2. SeenBases = Bases
  BY <1>1 DEF SeenBases, AllBases
<1>3. SeenReports = Reports /\ SeenResponses = Responses
  BY <1>1, <1>2, Zenon DEF SeenReports, Reports, SeenResponses, Responses
<1>4. ASSUME ChainInv PROVE TypeOK
  <2>1. \A r \in m_reports : reorgs = 0 => r.nEpoch <= m_currentEpoch
    BY <1>4, ZenonT(30) DEF ChainInv, OneChainInv, EpochInv
  <2> QED BY <1>1, <1>2, <1>3, <1>4, <2>1, Zenon DEF ChainInv, Shape, StoreInv, TypeOK
<1> QED BY <1>4, SpecChainInv, PTL

\* A report of MISSED is of a masternode whose announcement is not recorded.
LEMMA MissedNotAccepted ==
    ASSUME ChainInv, [Next]_vars, reorgs = 0, NEW r \in emitted' \ emitted, r.status = "missed"
    PROVE  [nEpoch |-> r.nEpoch, proTx |-> r.target, base |-> r.base] \notin accepted
<1> USE DEF ChainInv
<1>1. TickAct
  <2>1. CASE TickBegin
    BY <2>1, Zenon DEF TickBegin, history
  <2>2. CASE Restart
    BY <2>2, Restarted, Zenon
  <2>3. CASE ~TickThread /\ ~Restart
    BY <2>3, ElsewhereKeeps, Zenon
  <2> QED BY <2>1, <2>2, <2>3, TickGoesOn, Zenon DEF TickThread
<1> DEFINE e == EpochOf(tick.t.height)
           b == Base(tick.t.branch, e)
           v == ListAt(tip.height)
<1>2. r \in OwnReports(e, b, v) /\ e # warmup
  <2>1. PICK R : /\ R \subseteq OwnReports(e, b, v)
                 /\ emitted' = emitted \cup {q \in R : Acceptable(q, v, b)}
                 /\ R = {} \/ e # warmup
    BY <1>1, TickActs, ZenonT(30)
  <2> QED BY <2>1, Zenon
<1>3. r.nEpoch = e /\ ~Recorded(m_responded, e, r.target)
  BY <1>2, OwnReportFields, Zenon
<1>4. tick.pc = "act" /\ m_epoch = e /\ firstTick = FALSE
  BY <1>1, TickGoesOn, Zenon DEF TickInv, Running, OnEpoch
<1>5. e \in Nat
  BY <1>4, SeenTypes, Zenon DEF Shape
<1> DEFINE a == [nEpoch |-> r.nEpoch, proTx |-> r.target, base |-> r.base]
<1>6. a.nEpoch = e /\ a.proTx = r.target
  BY <1>3, Zenon
<1> SUFFICES ASSUME a \in accepted PROVE FALSE
  BY Zenon
<1>7. AcceptedOK(a)
  BY Zenon DEF OneChainInv, AcceptedInv
<1>8. a.nEpoch < m_epoch
  BY <1>2, <1>3, <1>4, <1>6, <1>7, Zenon DEF AcceptedOK
<1> HIDE DEF a, e, b, v
<1>9. e < e
  BY <1>4, <1>6, <1>8, Zenon
<1> QED BY <1>5, <1>9

(***************************************************************************)
(* Until a reorg, and through any number of restarts and losses of sync,   *)
(* the node does not report MISSED a masternode whose announcement it had  *)
(* accepted, even before the restart: the first tick after it either finds *)
(* a new epoch or makes the one in progress a warm-up.                     *)
(***************************************************************************)
THEOREM NoFalseMissedBeforeReorg ==
    Spec => [][reorgs = 0 =>
                  \A r \in emitted' \ emitted :
                     r.status = "missed" =>
                        [nEpoch |-> r.nEpoch, proTx |-> r.target, base |-> r.base] \notin accepted]_vars
<1>1. ChainInv /\ [Next]_vars =>
         [reorgs = 0 =>
             \A r \in emitted' \ emitted :
                r.status = "missed" =>
                   [nEpoch |-> r.nEpoch, proTx |-> r.target, base |-> r.base] \notin accepted]_vars
  BY MissedNotAccepted, Zenon
<1> QED BY <1>1, SpecChainInv, PTL DEF Spec

(***************************************************************************)
(* The same of a chain without reorgs: NoFalseMissed holds of it however   *)
(* often the node restarts and whenever the announcements arrive.          *)
(***************************************************************************)
THEOREM RestartsNeverFalselyMiss ==
    ASSUME MaxReorgs = 0
    PROVE  Spec => NoFalseMissed
<1>1. Init => reorgs = 0
  BY Zenon DEF Init
<1>2. reorgs = 0 /\ ChainInv /\ [Next]_vars => (reorgs = 0)'
  <2> SUFFICES ASSUME reorgs = 0, ChainInv, [Next]_vars PROVE reorgs' = 0
    BY Zenon
  <2>1. ~Reorg
    BY DEF Reorg
  <2> QED BY <2>1, AheadStep, Zenon DEF ChainInv
<1>3. reorgs = 0 /\ ChainInv /\ [Next]_vars =>
         [\A r \in emitted' \ emitted :
             r.status = "missed" =>
                [nEpoch |-> r.nEpoch, proTx |-> r.target, base |-> r.base] \notin accepted]_vars
  BY MissedNotAccepted, Zenon
<1> QED BY <1>1, <1>2, <1>3, SpecChainInv, PTL DEF Spec, NoFalseMissed
-----------------------------------------------------------------------------
(* The announcements delivered. *)

\* The manager was put on its epoch by a tip that those ahead may come after.
ManagerFrom(s) ==
    /\ m_epoch = EpochOf(s.height) /\ m_epochBlockHash = Base(s.branch, m_epoch)
    /\ \A t \in Ahead : Follows(s, t)

ManagerInv == reorgs <= 1 => \E s \in Tips : ManagerFrom(s)

\* An entry held for a connected base is for the base it is signed for, and
\* leaves the hold when the manager is on that base and the drain is done.
HeldInv ==
    \A x \in early :
        /\ x.connected \in {NoBase, x.resp.base}
        /\ x.connected # NoBase /\ OnEpoch(x.resp.nEpoch, x.connected)
              => tick.pc \in {"store", "drain"}

\* The base a response's epoch had on the active chain when it was received.
SteadyMsg ==
    /\ msg.height <= tip.height
    /\ msg.base = IF msg.r.nEpoch * Interval <= msg.height
                  THEN Base(tip.branch, msg.r.nEpoch) ELSE NoBase
    /\ msg.pc # "route" => msg.base # NoBase

\* The base of the running tick is still active.
SteadyTick ==
    LET e == EpochOf(tick.t.height)
    IN  e * Interval <= tip.height /\ Base(tick.t.branch, e) = Base(tip.branch, e)

\* As long as no reorg falls into a running tick or message.
SteadyInv ==
    ~raced => /\ tick # Idle => SteadyTick
              /\ msg.pc \in {"route", "check", "insert"} => SteadyMsg

\* Past its routing, with the manager on its epoch and base.
InHand(r) == msg.pc \in {"check", "insert"} /\ msg.r = r /\ OnEpoch(r.nEpoch, r.base)

\* Where an announcement that had to be kept is: its epoch is over, or it is
\* recorded, held or about to be recorded.
Somewhere(r) ==
    \/ r.nEpoch < EpochOf(tip.height)
    \/ OnEpoch(r.nEpoch, r.base) /\ Recorded(m_responded, r.nEpoch, r.proTx)
    \/ \E x \in early : x.resp = r
    \/ InHand(r)

DeliveredOK(r) ==
    /\ r.base = Base(tip.branch, r.nEpoch)
    /\ msg.pc = "route" => r.nEpoch * Interval <= msg.height + Interval
    /\ r.nEpoch * Interval <= tip.height + Interval
    /\ Somewhere(r)

DeliveredInv ==
    /\ delivered \subseteq Responses
    /\ ~raced /\ reorgs <= 1 => \A r \in delivered : DeliveredOK(r)

LEMMA ManagerInvStep ==
    ASSUME Shape, TickInv, OrderInv, ManagerInv, [Next]_vars
    PROVE  ManagerInv'
<1> SUFFICES ASSUME reorgs' <= 1 PROVE (\E s \in Tips : ManagerFrom(s))'
  BY Zenon DEF ManagerInv
<1>1. reorgs <= 1 /\ Order /\ Shape' /\ OrderInv' /\ Order'
  BY NewTipFollows, ShapeStep, OrderInvStep, Zenon DEF OrderInv
<1>2. Ahead \subseteq Tips /\ Ahead' \subseteq Tips /\ tip \in Ahead /\ tip' \in Tips
  BY <1>1, AheadType, AheadStep, Zenon DEF Shape
<1> DEFINE From(s) == /\ m_epoch' = EpochOf(s.height) /\ m_epochBlockHash' = Base(s.branch, m_epoch')
                      /\ \A t \in Ahead' : Follows(s, t)
<1> SUFFICES \E s \in Tips : From(s)
  BY Zenon DEF ManagerFrom
<1>3. CASE Restart
  <2>1. tip' = tip /\ ticks' = <<>> /\ tick' = Idle
        /\ m_epoch' = EpochOf(tip.height)
        /\ m_epochBlockHash' = Base(tip.branch, EpochOf(tip.height))
    BY <1>3, Restarted, Zenon
  <2>2. \A t \in Ahead' : Follows(tip, t)
    <3>1. \A t \in Ahead' : t = tip
      BY <2>1 DEF Ahead
    <3> QED BY <1>2, <3>1, FollowsSelf, Zenon
  <2>3. tip \in Tips /\ From(tip)
    BY <1>2, <2>1, <2>2, Zenon
  <2> QED BY <2>3, Zenon
<1>4. CASE TickBegin
  <2>1. tick.t \in Tips /\ tick'.t = tick.t /\ tick' \in RunningTicks
        /\ m_epoch' = EpochOf(tick.t.height)
        /\ m_epochBlockHash' = Base(tick.t.branch, EpochOf(tick.t.height))
    BY <1>4, TickBegun, Zenon
  <2>2. tick' # Idle
    BY <2>1 DEF RunningTicks, Idle
  <2>3. \A t \in Ahead' : Follows(tick.t, t)
    BY <1>1, <2>1, <2>2, Zenon DEF Order
  <2>4. From(tick.t)
    BY <2>1, <2>3, Zenon
  <2> QED BY <2>1, <2>4, Zenon
<1>5. CASE ~Restart /\ ~TickBegin
  <2>1. UNCHANGED <<m_epoch, m_epochBlockHash>>
    <3>1. CASE ~TickThread
      BY <1>5, <3>1, ElsewhereKeeps, Zenon
    <3>2. CASE TickThread
      BY <1>5, <3>2, TickGoesOn, Zenon DEF TickThread, managerVars
    <3> QED BY <3>1, <3>2, Zenon
  <2>2. PICK s \in Tips : ManagerFrom(s)
    BY <1>1, Zenon DEF ManagerInv
  <2>3. ASSUME NEW t \in Ahead' PROVE Follows(s, t)
    <3>1. CASE t \in Ahead
      BY <2>2, <3>1, Zenon DEF ManagerFrom
    <3>2. CASE Follows(tip, t)
      BY <1>2, <2>2, <3>2, FollowsTrans, Zenon DEF ManagerFrom
    <3> QED BY <3>1, <3>2, AheadFollows, Zenon
  <2>4. From(s)
    BY <2>1, <2>2, <2>3, Zenon DEF ManagerFrom
  <2> QED BY <2>4, Zenon
<1> QED BY <1>3, <1>4, <1>5, Zenon

LEMMA ManagerInvInit == Init => ManagerInv
<1> SUFFICES ASSUME Init PROVE ManagerInv
  BY Zenon
<1>1. /\ ticks = <<>> /\ tick = Idle
      /\ m_epoch = EpochOf(tip.height) /\ m_epochBlockHash = Base(tip.branch, m_epoch)
  BY Zenon DEF Init, Boot, ManagerInit
<1>2. \A t \in Ahead : t = tip
  BY <1>1 DEF Ahead
<1>3. tip \in Tips
  BY ShapeInit, Zenon DEF Shape
<1>4. ManagerFrom(tip)
  BY <1>1, <1>2, <1>3, FollowsSelf, Zenon DEF ManagerFrom
<1> QED BY <1>3, <1>4, Zenon DEF ManagerInv

\* What HoldDSLEarlyResponse keeps and adds.
HoldOnly(H, r, c) ==
    \A x \in H :
        \/ x \in early
        \/ /\ x.resp = r /\ x.connected = c
           /\ c = NoBase \/ r.base = c

LEMMA HoldKeeps ==
    ASSUME NEW r, NEW c, NEW e
    PROVE  /\ HoldOnly(Hold(r, c, e), r, c)
           /\ \A x \in early : x.resp.nEpoch \in {e, e + 1} =>
                  \E y \in Hold(r, c, e) : y.resp = x.resp
           /\ c = NoBase \/ r.base = c => \E y \in Hold(r, c, e) : y.resp = r
<1> DEFINE kept == {x \in early : x.resp.nEpoch \in {e, e + 1}}
           copies == {x \in kept : x.resp = r}
           new == [resp |-> r, connected |-> c]
<1>1. /\ c = NoBase /\ copies # {} => Hold(r, c, e) = kept
      /\ c = NoBase /\ copies = {} => Hold(r, c, e) = kept \cup {new}
      /\ c # NoBase /\ r.base = c => Hold(r, c, e) = (kept \ copies) \cup {new}
      /\ c # NoBase /\ r.base # c => Hold(r, c, e) = kept
  BY Zenon DEF Hold
<1>2. new.resp = r /\ new.connected = c
  BY Zenon
<1> HIDE DEF new
<1>3. HoldOnly(Hold(r, c, e), r, c)
  <2>1. CASE c = NoBase \/ r.base = c
    <3>1. Hold(r, c, e) \subseteq early \cup {new}
      BY <1>1, <2>1, Zenon
    <3> QED BY <1>2, <2>1, <3>1, Zenon DEF HoldOnly
  <2>2. CASE c # NoBase /\ r.base # c
    BY <1>1, <2>2, Zenon DEF HoldOnly
  <2> QED BY <2>1, <2>2, Zenon
<1>4. ASSUME NEW x \in kept PROVE \E y \in Hold(r, c, e) : y.resp = x.resp
  <2>1. CASE x \in copies
    BY <1>1, <1>2, <2>1, Zenon
  <2>2. CASE x \notin copies
    BY <1>1, <2>2, Zenon
  <2> QED BY <2>1, <2>2, Zenon
<1>5. c = NoBase \/ r.base = c => \E y \in Hold(r, c, e) : y.resp = r
  BY <1>1, <1>2, Zenon
<1> QED BY <1>3, <1>4, <1>5, Zenon

LEMMA HeldInvStep ==
    ASSUME Shape, TickInv, HeldInv, [Next]_vars
    PROVE  HeldInv'
<1>1. CASE Restart
  BY <1>1, Zenon DEF Restart, HeldInv
<1>2. CASE RouteResponse
  <2>1. UNCHANGED <<tick, m_epoch, m_epochBlockHash>>
    BY <1>2, Zenon DEF RouteResponse, managerVars
  <2>2. CASE early' = early
    BY <2>1, <2>2, Zenon DEF HeldInv, OnEpoch
  <2>3. CASE early' # early
    <3>1. early' = Hold(msg.r, msg.base, EpochOf(msg.height))
          /\ (IsEarly(msg) \/ OutranTick(msg))
      BY <1>2, <2>3, Zenon DEF RouteResponse
    <3>2. msg.base # NoBase => ~OnEpoch(msg.r.nEpoch, msg.base)
      BY <3>1, Zenon DEF IsEarly, OutranTick
    <3>3. ASSUME NEW x \in early'
          PROVE  x \in early \/ /\ x.resp = msg.r /\ x.connected = msg.base
                                /\ msg.base = NoBase \/ msg.r.base = msg.base
      <4>1. HoldOnly(Hold(msg.r, msg.base, EpochOf(msg.height)), msg.r, msg.base)
        BY HoldKeeps, Zenon
      <4>2. x \in Hold(msg.r, msg.base, EpochOf(msg.height))
        BY <3>1, <3>3, Zenon
      <4> QED BY <4>1, <4>2, Zenon DEF HoldOnly
    <3> QED BY <2>1, <3>2, <3>3, Zenon DEF HeldInv, OnEpoch
  <2> QED BY <2>2, <2>3, Zenon
<1>3. CASE TickBegin
  <2>1. tick'.pc \in {"store", "drain"} /\ early' = early
    BY <1>3, TickBegun, Zenon DEF TickBegin
  <2> QED BY <2>1, Zenon DEF HeldInv
<1>4. CASE TickStore
  BY <1>4, TickGoesOn, Zenon DEF TickStore, HeldInv, OnEpoch, managerVars
<1>5. CASE TickDrain
  <2>1. early' = {x \in early : x.resp.nEpoch > EpochOf(tick.t.height)}
    BY <1>5, Zenon DEF TickDrain
  <2>2. m_epoch' = EpochOf(tick.t.height)
    BY <1>5, TickGoesOn, Zenon DEF TickInv, Running, OnEpoch
  <2>3. EpochOf(tick.t.height) \in Nat
    BY <1>5, TickType, TipFacts, Zenon DEF Shape, TickDrain
  <2>4. ~(EpochOf(tick.t.height) > EpochOf(tick.t.height))
    BY <2>3
  <2> QED BY <2>1, <2>2, <2>4, Zenon DEF HeldInv, OnEpoch
<1>6. CASE TickAct \/ TickStart
  <2>1. UNCHANGED <<early, m_epoch, m_epochBlockHash>> /\ (tick = Idle \/ tick.pc = "act")
    BY <1>6, Zenon DEF TickAct, TickStart, managerVars
  <2>2. tick.pc \notin {"store", "drain"}
    BY <2>1 DEF Idle
  <2> QED BY <2>1, <2>2, Zenon DEF HeldInv, OnEpoch
<1>7. CASE ~Restart /\ ~RouteResponse /\ ~TickThread
  <2>1. UNCHANGED <<tick, m_epoch, m_epochBlockHash>>
    BY <1>7, ElsewhereKeeps, Zenon
  <2>2. early' = early
    BY <1>7, Zenon DEF Next, vars, Connect, Reorg, NewTip, SyncChange, RecvResponse,
           CheckResponse, InsertResponse, RecvReport, ProcessReport, TickThread
  <2> QED BY <2>1, <2>2, Zenon DEF HeldInv, OnEpoch
<1> QED BY <1>1, <1>2, <1>3, <1>4, <1>5, <1>6, <1>7, Zenon DEF TickThread

LEMMA HeldInvInit == Init => HeldInv
BY Zenon DEF Init, Boot, HeldInv

\* What the steps of the message thread leave in hand.
LEMMA MsgSteps ==
    ASSUME Shape, [Next]_vars
    PROVE  \/ msg' = msg \/ msg' = Idle \/ msg'.pc = "report"
           \/ RecvResponse
           \/ /\ msg.pc = "route" /\ msg \in ResponseMsgs /\ msg.base # NoBase /\ RouteResponse
              /\ msg' = [msg EXCEPT !.pc = "check"]
           \/ /\ msg.pc = "check" /\ msg \in ResponseMsgs /\ CheckResponse
              /\ msg' = [msg EXCEPT !.pc = "insert"]
<1>1. CASE RouteResponse \/ CheckResponse
  <2>1. msg \in ResponseMsgs
    BY <1>1, MsgType, Zenon DEF RouteResponse, CheckResponse, Shape
  <2> QED BY <1>1, <2>1, Zenon DEF RouteResponse, CheckResponse
<1>2. CASE RecvReport
  <2>1. \E r, b : msg' = [pc |-> "report", r |-> r, base |-> b]
    BY <1>2, Zenon DEF RecvReport
  <2> QED BY <2>1
<1>3. CASE ~RouteResponse /\ ~CheckResponse /\ ~RecvReport /\ ~RecvResponse
  BY <1>3, Zenon DEF Next, vars, Connect, Reorg, NewTip, SyncChange, Restart, InsertResponse,
         ProcessReport, TickStart, TickBegin, TickStore, TickDrain, TickAct
<1> QED BY <1>1, <1>2, <1>3, Zenon

\* What a step does to the tip when no reorg races with it.
LEMMA TipSteps ==
    ASSUME Shape, [Next]_vars, ~raced'
    PROVE  /\ ~raced
           /\ \/ /\ tip'.branch = tip.branch /\ tip.height <= tip'.height
                 /\ tip' = tip \/ (Connect /\ UNCHANGED <<msg, tick>>)
              \/ Reorg /\ tick = Idle /\ msg = Idle /\ UNCHANGED <<tick, msg>>
<1>1. tip \in Tips /\ tip.height \in Nat
  BY TipFacts, Zenon DEF Shape
<1>2. CASE Connect
  <2>1. PICK h \in Heights : h > tip.height /\ NewTip([tip EXCEPT !.height = h]) /\ raced' = raced
    BY <1>2, Zenon DEF Connect
  <2>2. tip'.branch = tip.branch /\ tip'.height = h /\ UNCHANGED <<tick, msg>>
    BY <1>1, <2>1, Zenon DEF NewTip, Tips
  <2>3. h \in Nat
    BY NodeAssumption, Zenon
  <2>4. tip.height <= h
    BY <1>1, <2>1, <2>3
  <2> QED BY <1>2, <2>1, <2>2, <2>4, Zenon
<1>3. CASE Reorg
  BY <1>3, Zenon DEF Reorg, NewTip
<1>4. CASE ~Connect /\ ~Reorg
  <2>1. UNCHANGED <<tip, raced>>
    BY <1>4, Zenon DEF Next, vars, SyncChange, Restart, TickStart, TickBegin, TickStore, TickDrain,
           TickAct, RecvResponse, RouteResponse, CheckResponse, InsertResponse, RecvReport,
           ProcessReport, chainVars, history
  <2>2. tip.height <= tip.height
    BY <1>1
  <2> QED BY <2>1, <2>2, Zenon
<1> QED BY <1>2, <1>3, <1>4, Zenon

LEMMA SteadyInvStep ==
    ASSUME Shape, SteadyInv, [Next]_vars
    PROVE  SteadyInv'
<1> SUFFICES ASSUME ~raced'
             PROVE  /\ tick' # Idle => SteadyTick'
                    /\ msg'.pc \in {"route", "check", "insert"} => SteadyMsg'
  BY Zenon DEF SteadyInv
<1>1. ~raced /\ tip \in Tips /\ tip' \in Tips
  BY TipSteps, ShapeStep, Zenon DEF Shape
<1>2. tip.height \in Nat /\ tip'.height \in Nat
  BY <1>1, TipFacts, Zenon
<1>3. CASE Reorg /\ tick = Idle /\ msg = Idle /\ UNCHANGED <<tick, msg>>
  <2>1. msg'.pc = "idle"
    BY <1>3 DEF Idle
  <2> QED BY <1>3, <2>1
<1>4. CASE tip'.branch = tip.branch /\ tip.height <= tip'.height
           /\ (tip' = tip \/ (Connect /\ UNCHANGED <<msg, tick>>))
  <2>1. ASSUME NEW h \in Nat, h <= tip.height PROVE h <= tip'.height
    BY <1>2, <1>4, <2>1
  <2>2. ASSUME tick' # Idle PROVE SteadyTick'
    <3> DEFINE e == EpochOf(tick'.t.height)
    <3>1. CASE tick # Idle /\ tick'.t = tick.t
      <4>1. e * Interval <= tip.height /\ Base(tick'.t.branch, e) = Base(tip.branch, e)
        BY <1>1, <3>1, Zenon DEF SteadyInv, SteadyTick
      <4>2. e * Interval \in Nat
        <5>1. tick.t \in Tips
          BY <3>1, Zenon DEF Shape, RunningTicks
        <5>2. e \in Nat
          BY <3>1, <5>1, TipFacts, Zenon
        <5> HIDE DEF e
        <5> QED BY <5>2, NodeAssumption
      <4> HIDE DEF e
      <4>3. e * Interval <= tip'.height /\ Base(tick'.t.branch, e) = Base(tip'.branch, e)
        BY <1>4, <2>1, <4>1, <4>2, Zenon
      <4> QED BY <4>3, Zenon DEF SteadyTick, e
    <3>2. CASE TickStart
      <4>1. tick'.t = Head(ticks) /\ ActiveBase(e) = Base(tick'.t.branch, e)
        <5>1. tick' = [pc |-> "begin", t |-> Head(ticks), change |-> "None", stale |-> {}]
              /\ ActiveBase(EpochOf(Head(ticks).height))
                    = Base(Head(ticks).branch, EpochOf(Head(ticks).height))
          BY <2>2, <3>2, Zenon DEF TickStart
        <5> QED BY <5>1, Zenon
      <4>2. tick'.t \in Tips
        BY <2>2, ShapeStep, Zenon DEF Shape, RunningTicks
      <4>3. Base(tick'.t.branch, e) # NoBase
        BY <4>2, TipFacts, BaseFacts, Zenon
      <4>4. tip' = tip
        BY <3>2, Zenon DEF TickStart, chainVars
      <4> QED BY <4>1, <4>3, <4>4, Zenon DEF SteadyTick, ActiveBase
    <3>3. TickStart \/ (tick # Idle /\ tick'.t = tick.t)
      <4>1. CASE Restart
        BY <2>2, <4>1, Restarted, Zenon
      <4>2. CASE ~Restart
        BY <2>2, <4>2, AheadStep, Zenon
      <4> QED BY <4>1, <4>2, Zenon
    <3> QED BY <3>1, <3>2, <3>3, Zenon
  <2>3. ASSUME msg'.pc \in {"route", "check", "insert"} PROVE SteadyMsg'
    <3>1. CASE msg' = msg
      <4>1. SteadyMsg
        BY <1>1, <2>3, <3>1, Zenon DEF SteadyInv
      <4>2. msg.height \in Nat
        BY <2>3, <3>1, MsgType, NodeAssumption, Zenon DEF Shape
      <4>3. msg.height <= tip'.height
        BY <2>1, <4>1, <4>2, Zenon DEF SteadyMsg
      <4> QED BY <1>4, <3>1, <4>1, <4>3, Zenon DEF SteadyMsg
    <3>2. CASE RecvResponse
      <4>1. PICK r \in Responses : msg' = [pc |-> "route", r |-> r, base |-> ActiveBase(r.nEpoch),
                                           height |-> tip.height]
        BY <3>2, Zenon DEF RecvResponse
      <4>2. msg'.pc = "route" /\ msg'.r = r /\ msg'.base = ActiveBase(r.nEpoch)
            /\ msg'.height = tip.height
        BY <4>1, Zenon
      <4>3. tip' = tip /\ tip.height <= tip.height
        BY <1>2, <3>2 DEF RecvResponse, chainVars
      <4> QED BY <4>2, <4>3, Zenon DEF SteadyMsg, ActiveBase
    <3>3. ASSUME NEW p \in {"check", "insert"}, msg' = [msg EXCEPT !.pc = p], msg \in ResponseMsgs,
                 msg.base # NoBase, tip' = tip
          PROVE  SteadyMsg'
      <4>1. msg.pc \in {"route", "check", "insert"}
        BY <3>3, Zenon DEF ResponseMsgs
      <4>2. SteadyMsg
        BY <1>1, <4>1, Zenon DEF SteadyInv
      <4>3. msg'.r = msg.r /\ msg'.base = msg.base /\ msg'.height = msg.height
        BY <3>3, Zenon DEF ResponseMsgs
      <4> QED BY <3>3, <4>2, <4>3, Zenon DEF SteadyMsg
    <3>4. CASE /\ msg.pc = "route" /\ msg \in ResponseMsgs /\ msg.base # NoBase /\ RouteResponse
               /\ msg' = [msg EXCEPT !.pc = "check"]
      <4>1. tip' = tip
        BY <3>4, Zenon DEF RouteResponse, chainVars
      <4> QED BY <3>3, <3>4, <4>1, Zenon
    <3>5. CASE /\ msg.pc = "check" /\ msg \in ResponseMsgs /\ CheckResponse
               /\ msg' = [msg EXCEPT !.pc = "insert"]
      <4>1. tip' = tip
        BY <3>5, Zenon DEF CheckResponse, chainVars
      <4>2. msg.base # NoBase
        <5>1. msg.pc \in {"route", "check", "insert"} /\ msg.pc # "route"
          BY <3>5
        <5> QED BY <1>1, <5>1, Zenon DEF SteadyInv, SteadyMsg
      <4> QED BY <3>3, <3>5, <4>1, <4>2, Zenon
    <3>6. ~(msg' = Idle \/ msg'.pc = "report")
      BY <2>3 DEF Idle
    <3> QED BY <3>1, <3>2, <3>4, <3>5, <3>6, MsgSteps, Zenon
  <2> QED BY <2>2, <2>3, Zenon
<1> QED BY <1>3, <1>4, TipSteps, Zenon

LEMMA SteadyInvInit == Init => SteadyInv
<1> SUFFICES ASSUME Init PROVE tick = Idle /\ msg.pc = "idle"
  BY DEF SteadyInv
<1> QED BY DEF Init, Boot, Idle

LEMMA ResponseFacts ==
    ASSUME NEW r \in Responses
    PROVE  r.nEpoch \in Nat /\ r.nEpoch * Interval \in Nat
<1>1. r.nEpoch \in Nat
  BY StoreAssumption, Zenon DEF Responses
<1> QED BY <1>1, NodeAssumption

\* An announcement for a base on the active chain: the manager is not beyond
\* the tick that is about to begin.
LEMMA ManagerBehind ==
    ASSUME Shape, OrderInv, ManagerInv, reorgs <= 1, tick # Idle,
           m_epochBlockHash = Base(tip.branch, m_epoch)
    PROVE  m_epoch <= EpochOf(tick.t.height)
<1>1. PICK s \in Tips : ManagerFrom(s)
  BY Zenon DEF ManagerInv
<1>2. tick.t \in Tips /\ tip \in Tips /\ tick.t \in Ahead /\ Follows(s, tick.t) /\ Follows(tick.t, tip)
  BY <1>1, AheadType, Zenon DEF OrderInv, Order, ManagerFrom, Shape
<1>3. s.height \in Nat /\ tick.t.height \in Nat /\ m_epoch = EpochOf(s.height) /\ m_epoch \in Nat
  BY <1>1, <1>2, TipFacts, Zenon DEF ManagerFrom
<1>4. CASE s.branch = tick.t.branch /\ s.height <= tick.t.height
  BY <1>3, <1>4, EpochMonotone, Zenon
<1>5. CASE s.branch = "A" /\ tick.t.branch = "B" /\ ForkHeight < tick.t.height
  <2>1. tip.branch = "B"
    BY <1>2, <1>5 DEF Follows
  <2>2. Base("A", m_epoch) = Base("B", m_epoch)
    BY <1>1, <1>5, <2>1, Zenon DEF ManagerFrom
  <2>3. m_epoch * Interval <= ForkHeight
    BY <2>2, BaseFacts, Zenon
  <2>4. m_epoch * Interval \in Nat /\ ForkHeight \in Nat
    BY <1>3, NodeAssumption
  <2>5. m_epoch * Interval <= tick.t.height
    BY <1>3, <1>5, <2>3, <2>4
  <2> QED BY <1>3, <2>5, BegunEpoch, Zenon
<1> QED BY <1>2, <1>4, <1>5, Zenon DEF Follows

\* Whatever ProcessResponse is given for the manager's epoch and base is
\* recorded after it.
LEMMA ProcessedIsRecorded ==
    ASSUME NEW R, NEW r \in R, r.nEpoch = m_epoch, m_epoch \in Nat,
           ProcessResponses(R, r.base)
    PROVE  Recorded(m_responded', r.nEpoch, r.proTx)
<1>1. ResponseInWindow(r)
  BY StoreAssumption DEF ResponseInWindow
<1>2. CASE Recorded(m_responded, r.nEpoch, r.proTx)
  BY <1>2, Zenon DEF ProcessResponses, RecordVerified, Recorded
<1>3. CASE ~Recorded(m_responded, r.nEpoch, r.proTx)
  <2>1. r \in m_responded'
    BY <1>1, <1>3, Zenon DEF ProcessResponses, RecordVerified, ResponseFresh
  <2> QED BY <2>1, Zenon DEF Recorded
<1> QED BY <1>2, <1>3, Zenon

\* BeginEpoch.
LEMMA SomewhereBegin ==
    ASSUME Shape, OrderInv, ManagerInv, SteadyInv, TickBegin, ~raced, reorgs <= 1,
           NEW r \in Responses, r.base = Base(tip.branch, r.nEpoch), Somewhere(r)
    PROVE  Somewhere(r)'
<1> DEFINE e == EpochOf(tick.t.height)
           b == Base(tick.t.branch, e)
<1>1. UNCHANGED <<tip, msg, early>>
  BY Zenon DEF TickBegin, chainVars
<1>2. CASE r.nEpoch < EpochOf(tip.height) \/ \E x \in early : x.resp = r
  BY <1>1, <1>2, Zenon DEF Somewhere
<1>3. CASE OnEpoch(r.nEpoch, r.base)
  <2>1. tick \in RunningTicks /\ tick.t \in Tips /\ tick # Idle
    BY TickType, Zenon DEF TickBegin, Shape
  <2>2. e * Interval <= tip.height /\ b = Base(tip.branch, e)
    BY <2>1, Zenon DEF SteadyInv, SteadyTick
  <2>3. r.nEpoch <= e
    BY <1>3, <2>1, ManagerBehind, Zenon DEF OnEpoch
  <2>4. e \in Nat /\ r.nEpoch \in Nat /\ tip.height \in Nat /\ EpochOf(tip.height) \in Nat
    BY <2>1, TipFacts, ResponseFacts, Zenon DEF Shape
  <2>5. e <= EpochOf(tip.height)
    BY <2>2, <2>4, BegunEpoch, Zenon
  <2>6. CASE r.nEpoch = e
    <3>1. EpochChange(e, b) = "None"
      <4>1. e = m_epoch /\ b = m_epochBlockHash
        BY <1>3, <2>2, <2>6, Zenon DEF OnEpoch
      <4> HIDE DEF e, b
      <4> QED BY <2>4, <4>1 DEF EpochChange
    <3>2. UNCHANGED managerVars
      BY <3>1, Zenon DEF TickBegin
    <3> QED BY <1>1, <3>2, Zenon DEF Somewhere, InHand, OnEpoch, managerVars
  <2>7. CASE r.nEpoch # e
    <3> HIDE DEF e, b
    <3>1. r.nEpoch < EpochOf(tip.height)
      BY <2>3, <2>4, <2>5, <2>7
    <3> QED BY <1>1, <3>1, Zenon DEF Somewhere
  <2> QED BY <2>6, <2>7, Zenon
<1> QED BY <1>2, <1>3, Zenon DEF Somewhere, InHand

\* The drain.
LEMMA SomewhereDrain ==
    ASSUME Shape, TickInv, HeldInv, SteadyInv, TickDrain, ~raced,
           NEW r \in delivered, r \in delivered', r \in Responses,
           r.base = Base(tip.branch, r.nEpoch), Somewhere(r)
    PROVE  Somewhere(r)'
<1> DEFINE e == EpochOf(tick.t.height)
           b == Base(tick.t.branch, e)
           E == {x \in early : x.resp.nEpoch = e /\ x.connected \in {NoBase, b}}
<1>1. /\ UNCHANGED <<tip, msg, m_epoch, m_epochBlockHash>> /\ tick.pc = "drain"
      /\ early' = {x \in early : x.resp.nEpoch > e}
  BY Zenon DEF TickDrain, chainVars
<1>2. m_responded \subseteq m_responded'
  BY TickDrains, RecordedType, Zenon DEF Shape
<1>3. CASE \/ r.nEpoch < EpochOf(tip.height)
           \/ OnEpoch(r.nEpoch, r.base) /\ Recorded(m_responded, r.nEpoch, r.proTx)
           \/ InHand(r)
  BY <1>1, <1>2, <1>3, RecordedGrows, Zenon DEF Somewhere, InHand, OnEpoch
<1>4. ASSUME NEW x \in early, x.resp = r
      PROVE  Somewhere(r)'
  <2>1. tick.t \in Tips /\ tick # Idle
    BY <1>1, TickType, Zenon DEF Shape
  <2>2. e * Interval <= tip.height /\ b = Base(tip.branch, e)
    BY <2>1, Zenon DEF SteadyInv, SteadyTick
  <2>3. e \in Nat /\ r.nEpoch \in Nat /\ tip.height \in Nat /\ EpochOf(tip.height) \in Nat
    BY <2>1, TipFacts, ResponseFacts, Zenon DEF Shape
  <2>4. e <= EpochOf(tip.height)
    BY <2>2, <2>3, BegunEpoch, Zenon
  <2>5. m_epoch = e /\ m_epochBlockHash = b
    BY <1>1, Zenon DEF TickInv, Running, OnEpoch
  <2>6. CASE r.nEpoch = e
    <3>1. r.base = b /\ x \in E
      BY <1>4, <2>2, <2>6, Zenon DEF HeldInv
    <3>2. PICK skipped : /\ ProcessResponses({y.resp : y \in E \ skipped}, b)
                         /\ delivered' = delivered \ {y.resp : y \in skipped}
      BY Zenon DEF TickDrain
    <3>3. x \notin skipped
      BY <1>4, <3>2, Zenon
    <3>4. r \in {y.resp : y \in E \ skipped}
      BY <1>4, <3>1, <3>3, Zenon
    <3> HIDE DEF e, b, E
    <3>5. Recorded(m_responded', r.nEpoch, r.proTx)
      BY <2>3, <2>5, <2>6, <3>1, <3>2, <3>4, ProcessedIsRecorded, Zenon
    <3> QED BY <1>1, <2>5, <2>6, <3>1, <3>5, Zenon DEF Somewhere, OnEpoch
  <2>7. CASE r.nEpoch > e
    BY <1>1, <1>4, <2>7, Zenon DEF Somewhere
  <2>8. CASE r.nEpoch < e
    <3> HIDE DEF e, b
    <3>1. r.nEpoch < EpochOf(tip.height)
      BY <2>3, <2>4, <2>8
    <3> QED BY <1>1, <3>1, Zenon DEF Somewhere
  <2>9. r.nEpoch = e \/ r.nEpoch > e \/ r.nEpoch < e
    <3> HIDE DEF e
    <3> QED BY <2>3
  <2> QED BY <2>6, <2>7, <2>8, <2>9, Zenon
<1> QED BY <1>3, <1>4, Zenon DEF Somewhere

\* ProcessDSLMessage up to the hold: what is held already.
LEMMA SomewhereRoute ==
    ASSUME Shape, SteadyInv, RouteResponse, ~raced,
           NEW r \in Responses, DeliveredOK(r)
    PROVE  Somewhere(r)'
<1>1. UNCHANGED <<tip, m_epoch, m_epochBlockHash, m_responded>> /\ msg.pc = "route"
  BY Zenon DEF RouteResponse, chainVars, managerVars
<1>2. Somewhere(r) /\ r.nEpoch * Interval <= msg.height + Interval
  BY <1>1, Zenon DEF DeliveredOK
<1>3. CASE \/ r.nEpoch < EpochOf(tip.height)
           \/ OnEpoch(r.nEpoch, r.base) /\ Recorded(m_responded, r.nEpoch, r.proTx)
  BY <1>1, <1>3, Zenon DEF Somewhere, OnEpoch
<1>4. ASSUME NEW x \in early, x.resp = r
      PROVE  Somewhere(r)'
  <2> DEFINE e == EpochOf(msg.height)
             h == msg.height
  <2>1. CASE early' = early
    BY <1>4, <2>1, Zenon DEF Somewhere
  <2>2. CASE early' = Hold(msg.r, msg.base, e)
    <3>1. msg \in ResponseMsgs /\ h \in Heights
      BY <1>1, MsgType, Zenon DEF Shape
    <3>2. h \in Nat /\ r.nEpoch \in Nat /\ r.nEpoch * Interval \in Nat
          /\ tip.height \in Nat /\ EpochOf(tip.height) \in Nat
      BY <3>1, TipFacts, NodeAssumption, ResponseFacts, Zenon DEF Shape
    <3>3. h <= tip.height
      BY <1>1, Zenon DEF SteadyInv, SteadyMsg
    <3>4. e <= EpochOf(tip.height) /\ e \in Nat
      BY <3>2, <3>3, EpochMonotone, EpochBounds, Zenon
    <3>5. ~(e + 1 < r.nEpoch)
      <4> SUFFICES ASSUME e + 1 < r.nEpoch PROVE FALSE
        BY Zenon
      <4> DEFINE f == r.nEpoch - 1
      <4>0. Interval \in Nat
        BY NodeAssumption
      <4>1. f \in Nat /\ e < f /\ r.nEpoch = f + 1
        BY <3>2, <3>4
      <4> HIDE DEF f
      <4>2. h < f * Interval
        BY <3>2, <4>1, LaterBase, Zenon
      <4>3. r.nEpoch * Interval = f * Interval + Interval /\ f * Interval \in Nat
        BY <4>0, <4>1
      <4>4. r.nEpoch * Interval <= h + Interval
        BY <1>2, Zenon
      <4> HIDE DEF h
      <4> QED BY <3>2, <4>0, <4>2, <4>3, <4>4
    <3> HIDE DEF e
    <3>6. r.nEpoch < e \/ r.nEpoch \in {e, e + 1}
      BY <3>2, <3>4, <3>5
    <3>7. CASE r.nEpoch < e
      <4>1. r.nEpoch < EpochOf(tip.height)
        BY <3>2, <3>4, <3>7
      <4> QED BY <1>1, <4>1, Zenon DEF Somewhere
    <3>8. CASE r.nEpoch \in {e, e + 1}
      <4>1. \E y \in early' : y.resp = r
        <5>1. x.resp.nEpoch \in {e, e + 1}
          BY <1>4, <3>8, Zenon
        <5>2. \E y \in Hold(msg.r, msg.base, e) : y.resp = x.resp
          BY <1>4, <5>1, HoldKeeps
        <5> QED BY <1>4, <2>2, <5>2, Zenon
      <4> QED BY <4>1, Zenon DEF Somewhere
    <3> QED BY <3>6, <3>7, <3>8, Zenon
  <2> QED BY <2>1, <2>2, Zenon DEF RouteResponse
<1>5. ~InHand(r)
  BY <1>1 DEF InHand
<1> QED BY <1>2, <1>3, <1>4, <1>5, Zenon DEF Somewhere

\* The announcement routed, when it has to be kept.
LEMMA RoutedIsSomewhere ==
    ASSUME Shape, SteadyInv, RouteResponse, ~raced,
           NEW r, r \in delivered', r \notin delivered
    PROVE  r \in Responses /\ DeliveredOK(r)'
<1>1. UNCHANGED <<tip, m_epoch, m_epochBlockHash, m_responded>> /\ msg.pc = "route"
  BY Zenon DEF RouteResponse, chainVars, managerVars
<1>2. /\ r = msg.r /\ synced /\ r.base = Base(tip.branch, r.nEpoch)
      /\ IF msg.base = NoBase THEN IsEarly(msg)
         ELSE msg.base = r.base /\ r.nEpoch = EpochOf(tip.height)
  BY Zenon DEF RouteResponse
<1>3. msg \in ResponseMsgs /\ r \in Responses /\ msg.height \in Heights
  BY <1>1, <1>2, MsgType, Zenon DEF Shape
<1> DEFINE h == msg.height
<1>4. h \in Nat /\ r.nEpoch \in Nat /\ r.nEpoch * Interval \in Nat
      /\ tip.height \in Nat /\ EpochOf(tip.height) \in Nat /\ Interval \in Nat
  BY <1>3, TipFacts, NodeAssumption, ResponseFacts, Zenon DEF Shape
<1>5. SteadyMsg
  BY <1>1, Zenon DEF SteadyInv
<1>6. h <= tip.height /\ (msg.base # NoBase => r.nEpoch * Interval <= h)
  BY <1>2, <1>5, Zenon DEF SteadyMsg
<1>7. r.nEpoch * Interval <= h + Interval
  <2>1. CASE msg.base = NoBase
    <3>1. r.nEpoch * Interval - h \in 1 .. Interval
      BY <1>2, <2>1, Zenon DEF IsEarly
    <3> HIDE DEF h
    <3> QED BY <1>4, <3>1
  <2>2. CASE msg.base # NoBase
    <3> HIDE DEF h
    <3> QED BY <1>4, <1>6, <2>2
  <2> QED BY <2>1, <2>2, Zenon
<1>8. r.nEpoch * Interval <= tip.height + Interval
  <2> HIDE DEF h
  <2> QED BY <1>4, <1>6, <1>7
<1>9. msg'.pc # "route"
  <2>1. msg' = Idle \/ msg' = [msg EXCEPT !.pc = "check"]
    BY Zenon DEF RouteResponse
  <2> QED BY <1>3, <2>1 DEF Idle, ResponseMsgs
<1>10. Somewhere(r)'
  <2>1. CASE IsEarly(msg) \/ OutranTick(msg)
    <3>1. early' = Hold(r, msg.base, EpochOf(msg.height))
      BY <1>2, <2>1, Zenon DEF RouteResponse, IsEarly, OutranTick
    <3>2. msg.base = NoBase \/ r.base = msg.base
      BY <1>2, Zenon
    <3>3. \E y \in early' : y.resp = r
      BY <3>1, <3>2, HoldKeeps, Zenon
    <3> QED BY <3>3, Zenon DEF Somewhere
  <2>2. CASE ~IsEarly(msg) /\ ~OutranTick(msg)
    <3>1. msg.base # NoBase /\ msg.base = r.base /\ r.nEpoch = EpochOf(tip.height)
      BY <1>2, <2>2, Zenon
    <3>2. r.nEpoch <= EpochOf(h)
      BY <1>4, <1>6, <3>1, BegunEpoch, Zenon
    <3>3. EpochOf(h) <= EpochOf(tip.height) /\ EpochOf(h) \in Nat
      BY <1>4, <1>6, EpochMonotone, EpochBounds, Zenon
    <3>4. r.nEpoch = EpochOf(h)
      BY <1>4, <3>1, <3>2, <3>3
    <3>5. OnEpoch(r.nEpoch, r.base)
      BY <1>2, <2>2, <3>1, <3>4, Zenon DEF OutranTick
    <3>6. msg' = [msg EXCEPT !.pc = "check"]
      BY <2>2, <3>1, Zenon DEF RouteResponse
    <3>7. msg'.pc = "check" /\ msg'.r = r
      BY <1>2, <1>3, <3>6, Zenon DEF ResponseMsgs
    <3> QED BY <1>1, <3>5, <3>7, Zenon DEF Somewhere, InHand, OnEpoch
  <2> QED BY <2>1, <2>2, Zenon
<1> QED BY <1>1, <1>2, <1>3, <1>8, <1>9, <1>10, Zenon DEF DeliveredOK

\* ProcessResponse.
LEMMA SomewhereProcess ==
    ASSUME Shape, SteadyInv, CheckResponse \/ InsertResponse, ~raced,
           NEW r \in Responses, r.base = Base(tip.branch, r.nEpoch), Somewhere(r)
    PROVE  Somewhere(r)'
<1>1. UNCHANGED <<tip, m_epoch, m_epochBlockHash, early>> /\ m_responded \subseteq m_responded'
  BY Zenon DEF CheckResponse, InsertResponse, RecordVerified, chainVars, managerVars
<1>2. CASE ~InHand(r)
  BY <1>1, <1>2, RecordedGrows, Zenon DEF Somewhere, OnEpoch
<1>3. CASE InHand(r) /\ CheckResponse
  <2>1. msg.pc = "check" /\ msg.r = r /\ OnEpoch(r.nEpoch, r.base) /\ msg \in ResponseMsgs
    BY <1>3, MsgType, Zenon DEF CheckResponse, InHand, Shape
  <2>2. msg.base = r.base
    <3>1. SteadyMsg /\ msg.base # NoBase
      BY <2>1 DEF SteadyInv, SteadyMsg
    <3> QED BY <2>1, <3>1, Zenon DEF SteadyMsg
  <2>3. ResponseInWindow(r)
    <3>1. m_epoch = r.nEpoch /\ r.nEpoch \in Nat
      BY <2>1, ResponseFacts, Zenon DEF OnEpoch
    <3> QED BY <3>1, StoreAssumption DEF ResponseInWindow
  <2>4. CASE Recorded(m_responded, r.nEpoch, r.proTx)
    BY <1>1, <2>1, <2>4, RecordedGrows, Zenon DEF Somewhere, OnEpoch
  <2>5. CASE ~Recorded(m_responded, r.nEpoch, r.proTx)
    <3>1. msg' = [msg EXCEPT !.pc = "insert"]
      BY <1>3, <2>1, <2>2, <2>3, <2>5, Zenon DEF CheckResponse, ResponseFresh
    <3>2. msg'.pc = "insert" /\ msg'.r = r
      BY <2>1, <3>1, Zenon DEF ResponseMsgs
    <3> QED BY <1>1, <2>1, <3>2, Zenon DEF Somewhere, InHand, OnEpoch
  <2> QED BY <2>4, <2>5, Zenon
<1>4. CASE InHand(r) /\ InsertResponse
  <2>1. RecordVerified({r}) /\ OnEpoch(r.nEpoch, r.base)
    BY <1>4, Zenon DEF InHand, InsertResponse
  <2>2. Recorded(m_responded', r.nEpoch, r.proTx)
    BY <2>1, Zenon DEF RecordVerified, Recorded
  <2> QED BY <1>1, <2>1, <2>2, Zenon DEF Somewhere, OnEpoch
<1> QED BY <1>2, <1>3, <1>4, Zenon

LEMMA DeliveredInvStep ==
    ASSUME Shape, TickInv, OrderInv, ManagerInv, HeldInv, SteadyInv, DeliveredInv, [Next]_vars
    PROVE  DeliveredInv'
<1>1. CASE RouteResponse
  <2>1. UNCHANGED <<tip, raced, reorgs>>
    BY <1>1, Zenon DEF RouteResponse, chainVars
  <2>2. delivered' \subseteq Responses
    <3>1. msg.r \in Responses
      BY <1>1, MsgType, Zenon DEF RouteResponse, Shape
    <3> QED BY <1>1, <3>1, Zenon DEF RouteResponse, DeliveredInv
  <2>3. ASSUME ~raced, reorgs <= 1, NEW r \in delivered'
        PROVE  DeliveredOK(r)'
    <3>1. CASE r \notin delivered
      BY <1>1, <2>3, <3>1, RoutedIsSomewhere, Zenon
    <3>2. CASE r \in delivered
      <4>1. DeliveredOK(r) /\ r \in Responses
        BY <2>3, <3>2, Zenon DEF DeliveredInv
      <4>2. Somewhere(r)'
        BY <1>1, <2>3, <4>1, SomewhereRoute, Zenon
      <4>3. msg'.pc # "route"
        <5>1. msg \in ResponseMsgs
          BY <1>1, MsgType, Zenon DEF RouteResponse, Shape
        <5>2. msg' = Idle \/ msg' = [msg EXCEPT !.pc = "check"]
          BY <1>1, Zenon DEF RouteResponse
        <5> QED BY <5>1, <5>2 DEF Idle, ResponseMsgs
      <4> QED BY <2>1, <4>1, <4>2, <4>3, Zenon DEF DeliveredOK
    <3> QED BY <3>1, <3>2, Zenon
  <2> QED BY <2>1, <2>2, <2>3, Zenon DEF DeliveredInv
<1>2. CASE Reorg \/ Restart
  <2>1. delivered' = {}
    BY <1>2, Zenon DEF Reorg, Restart
  <2> QED BY <2>1, Zenon DEF DeliveredInv
<1>3. CASE ~RouteResponse /\ ~Reorg /\ ~Restart
  <2>1. delivered' \subseteq delivered /\ UNCHANGED <<raced, reorgs>>
    <3>1. CASE TickDrain
      BY <3>1, Zenon DEF TickDrain, chainVars
    <3>2. CASE ~TickDrain
      BY <1>3, <3>2, Zenon DEF Next, vars, Connect, NewTip, SyncChange, TickStart, TickBegin,
             TickStore, TickAct, RecvResponse, CheckResponse, InsertResponse, RecvReport,
             ProcessReport, chainVars, history
    <3> QED BY <3>1, <3>2, Zenon
  <2> SUFFICES ASSUME ~raced, reorgs <= 1, NEW r \in delivered, r \in delivered'
               PROVE  DeliveredOK(r)'
    BY <2>1, Zenon DEF DeliveredInv
  <2>2. DeliveredOK(r) /\ r \in Responses
    BY Zenon DEF DeliveredInv
  <2>3. tip'.branch = tip.branch /\ tip.height <= tip'.height
        /\ (tip' = tip \/ (Connect /\ UNCHANGED <<msg, tick>>))
    BY <1>3, <2>1, TipSteps, Zenon
  <2>4. tip.height \in Nat /\ tip'.height \in Nat /\ r.nEpoch \in Nat
        /\ r.nEpoch * Interval \in Nat /\ Interval \in Nat
    BY <2>2, ShapeStep, TipFacts, ResponseFacts, NodeAssumption, Zenon DEF Shape
  <2>5. r.nEpoch * Interval <= tip'.height + Interval
    <3>1. r.nEpoch * Interval <= tip.height + Interval
      BY <2>2, Zenon DEF DeliveredOK
    <3> QED BY <2>3, <2>4, <3>1
  <2>6. r.base = Base(tip'.branch, r.nEpoch)
    BY <2>2, <2>3, Zenon DEF DeliveredOK
  <2>7. msg'.pc = "route" => r.nEpoch * Interval <= msg'.height + Interval
    <3>1. CASE RecvResponse
      <4>1. \E q, b : msg' = [pc |-> "route", r |-> q, base |-> b, height |-> tip.height]
        BY <3>1, Zenon DEF RecvResponse
      <4>2. msg'.height = tip.height
        BY <4>1
      <4> QED BY <2>2, <4>2, Zenon DEF DeliveredOK
    <3>2. CASE msg' = msg
      BY <2>2, <3>2, Zenon DEF DeliveredOK
    <3>3. CASE msg' = Idle \/ msg'.pc = "report"
      BY <3>3 DEF Idle
    <3>4. CASE /\ msg.pc = "check" /\ msg \in ResponseMsgs /\ CheckResponse
               /\ msg' = [msg EXCEPT !.pc = "insert"]
      <4>1. msg'.pc = "insert"
        BY <3>4, Zenon DEF ResponseMsgs
      <4> QED BY <4>1
    <3> QED BY <1>3, <3>1, <3>2, <3>3, <3>4, MsgSteps, Zenon
  <2>8. Somewhere(r)'
    <3>1. CASE TickBegin
      BY <2>2, <3>1, SomewhereBegin, Zenon DEF DeliveredOK
    <3>2. CASE TickDrain
      BY <2>2, <3>2, SomewhereDrain, Zenon DEF DeliveredOK
    <3>3. CASE CheckResponse \/ InsertResponse
      BY <2>2, <3>3, SomewhereProcess, Zenon DEF DeliveredOK
    <3>4. CASE ~TickBegin /\ ~TickDrain /\ ~CheckResponse /\ ~InsertResponse
      <4>1. UNCHANGED <<m_epoch, m_epochBlockHash, early>> /\ m_responded \subseteq m_responded'
        <5>1. CASE TickAct
          <6>1. m_responded \subseteq m_responded'
            BY <5>1, Zenon DEF TickAct, ProcessResponses, RecordVerified
          <6> QED BY <5>1, <6>1, Zenon DEF TickAct
        <5>2. CASE ~TickAct
          BY <1>3, <3>4, <5>2, Zenon DEF Next, vars, Connect, NewTip, SyncChange, TickStart,
                 TickStore, RecvResponse, RecvReport, ProcessReport, managerVars
        <5> QED BY <5>1, <5>2, Zenon
      <4>2. EpochOf(tip.height) <= EpochOf(tip'.height)
        BY <2>3, <2>4, EpochMonotone, Zenon
      <4>3. r.nEpoch < EpochOf(tip.height) => r.nEpoch < EpochOf(tip'.height)
        <5>1. EpochOf(tip.height) \in Nat /\ EpochOf(tip'.height) \in Nat
          BY <2>4, EpochBounds, Zenon
        <5> QED BY <2>4, <4>2, <5>1
      <4>4. InHand(r) => InHand(r)'
        <5> SUFFICES ASSUME InHand(r) PROVE msg' = msg
          BY <4>1, Zenon DEF InHand, OnEpoch
        <5>1. msg.pc \in {"check", "insert"} /\ msg # Idle /\ msg.pc # "report"
          BY DEF InHand, Idle
        <5> QED BY <1>3, <3>4, <5>1, Zenon DEF Next, vars, Connect, NewTip, SyncChange, TickStart,
               TickStore, TickAct, RecvResponse, RecvReport, ProcessReport
      <4> QED BY <2>2, <4>1, <4>3, <4>4, RecordedGrows, Zenon DEF DeliveredOK, Somewhere, OnEpoch
    <3> QED BY <3>1, <3>2, <3>3, <3>4, Zenon
  <2> QED BY <2>5, <2>6, <2>7, <2>8, Zenon DEF DeliveredOK
<1> QED BY <1>1, <1>2, <1>3, Zenon

LEMMA DeliveredInvInit == Init => DeliveredInv
BY Zenon DEF Init, DeliveredInv

\* Once the node has caught up, what is somewhere is kept.
LEMMA SettledIsKept ==
    ASSUME Shape, HeldInv, Settled, NEW r, DeliveredOK(r), OnEpoch(r.nEpoch, r.base)
    PROVE  Kept(r)
<1>1. tick.pc = "idle" /\ msg.pc = "idle"
  BY DEF Settled, Idle
<1>2. EpochOf(tip.height) \in Nat /\ r.nEpoch = EpochOf(tip.height)
  BY TipFacts, Zenon DEF Shape, Settled, OnEpoch
<1>3. ~(r.nEpoch < EpochOf(tip.height)) /\ ~InHand(r) /\ tick.pc \notin {"store", "drain"}
  BY <1>1, <1>2 DEF InHand
<1>4. ASSUME NEW x \in early, x.resp = r
      PROVE  [resp |-> r, connected |-> NoBase] \in early
  <2>1. x.connected = NoBase
    BY <1>3, <1>4, Zenon DEF HeldInv
  <2>2. x = [resp |-> r, connected |-> NoBase]
    BY <1>4, <2>1 DEF Shape
  <2> QED BY <2>2, Zenon
<1> QED BY <1>3, <1>4, Zenon DEF DeliveredOK, Somewhere, Kept

(***************************************************************************)
(* Up to the second reorg, no announcement that had to be kept is lost     *)
(* between ProcessDSLMessage, the hold and the drain of ProcessDSLTick,    *)
(* whichever comes first of the announcement, its base block and the tick  *)
(* of that block, and whatever restarts and losses of sync there are.      *)
(***************************************************************************)
THEOREM DeliveredAnnouncementsKept == Spec => [](reorgs <= 1 => DeliveredIsKept)
<1> DEFINE Inv == /\ Shape /\ TickInv /\ OrderInv
                  /\ ManagerInv /\ HeldInv /\ SteadyInv /\ DeliveredInv
<1>1. Init => Inv
  BY ShapeInit, TickInvInit, OrderInvInit, ManagerInvInit, HeldInvInit, SteadyInvInit,
     DeliveredInvInit, Zenon
<1>2. Inv /\ [Next]_vars => Inv'
  BY ShapeStep, TickInvStep, OrderInvStep, ManagerInvStep, HeldInvStep, SteadyInvStep,
     DeliveredInvStep, Zenon
<1>3. Inv => (reorgs <= 1 => DeliveredIsKept)
  BY SettledIsKept, Zenon DEF DeliveredIsKept, DeliveredInv
<1> QED BY <1>1, <1>2, <1>3, PTL DEF Spec
=============================================================================
