-------------------------- MODULE InstantSendProofs -------------------------
(***************************************************************************)
(* Proofs about InstantSend for every set of transactions, tree of blocks  *)
(* and bounds: the state keeps its types, the mempool never keeps a        *)
(* transaction that conflicts with a stored lock beyond the processing of  *)
(* that lock, the maps of tracked transactions agree, and every failed     *)
(* block has a cause as long as the queues have room for the locks.        *)
(*                                                                         *)
(* For the last one, what failed a block must stay known: HandInv says     *)
(* that a lock the work thread has stored is not lost when it leaves its   *)
(* hands.                                                                  *)
(***************************************************************************)
EXTENDS InstantSend, BlockTreeProofs

WorkerSteps == {"idle", "store", "untrack", "resolve", "invalidate", "activate",
                "mempool", "done"}

WorkerFields == {"at", "lock", "known", "mined", "conflicts", "reset", "batch"}

\* The work thread's locals: a lock it has not stored is not stored at all, so
\* it may leave a lock without evicting only when the lock is not in the store.
WorkerOK ==
    /\ DOMAIN worker = WorkerFields
    /\ worker.at \in WorkerSteps
    /\ worker.known \in BOOLEAN
    /\ worker.at = "idle" => worker.lock = None
    /\ worker.at # "idle" => worker.lock \in Txs
    /\ worker.at = "store" \/ worker.known = FALSE => worker.lock \notin islocks
    /\ worker.at = "done" => worker.known = FALSE

\* The inductive invariant for MempoolRespectsLocks.
PoolInv ==
    /\ mempool \subseteq Txs
    /\ islocks \subseteq Txs
    /\ WorkerOK
    /\ MempoolRespectsLocks

-----------------------------------------------------------------------------
\* A family has the transactions it was made from.
LEMMA FamilyHasRoots ==
    ASSUME NEW W, NEW S
    PROVE  S \subseteq FamilyIn(W, S)
BY Zenon DEF FamilyIn

\* Two transactions conflict both ways.
LEMMA ConflictsSymmetric ==
    ASSUME NEW t \in Txs, NEW u \in Conflicts(t)
    PROVE  u \in Txs /\ t \in Conflicts(u)
BY Zenon DEF Conflicts

\* A lock that is given up never adds to the store.
LEMMA RemovedLocksShrink ==
    ASSUME NEW S, RemoveConflictingLocks(S)
    PROVE  islocks' \subseteq islocks
BY Zenon DEF RemoveConflictingLocks

\* What a move of the tip brings back to the mempool conflicts with no lock.
LEMMA MoveTipRespectsLocks ==
    ASSUME NEW n, NEW locks, MoveTip(n, locks), mempool \subseteq Txs
    PROVE  /\ mempool' \subseteq Txs
           /\ \A t \in mempool' : t \in mempool \/ Conflicts(t) \cap locks = {}
<1> DEFINE up == Path(tip, n)
           down == Path(n, tip)
           conflicted == mempool \cap Family(UNION {Conflicts(t) : t \in TxsOf(up)})
           left == mempool \ (TxsOf(up) \cup conflicted)
           back == TxsOf(down) \ TxsOf(up)
           bad == {t \in back :
                      \/ Conflicts(t) \cap locks # {}
                      \/ \E u \in Conflicts(t) : Mined(u, n)
                      \/ \E p \in Parents(t) \ back : p \notin left /\ ~Mined(p, n)}
           valid == back \ Family(bad)
           orphaned == left \cap Family(bad)
<1>1. mempool' = (left \cup valid) \ orphaned
  BY Zenon DEF MoveTip
<1>2. back \subseteq Txs
  BY Zenon DEF TxsOf, Txids
<1>3. bad \subseteq Family(bad)
  BY FamilyHasRoots, Zenon DEF Family
<1>4. \A t \in valid : Conflicts(t) \cap locks = {}
  <2> SUFFICES ASSUME NEW t \in valid, Conflicts(t) \cap locks # {} PROVE FALSE
    BY Zenon
  <2>1. t \in bad
    BY Zenon
  <2> QED
    BY <2>1, <1>3, Zenon
<1> HIDE DEF left, valid, orphaned, bad, back
<1>5. left \subseteq mempool /\ valid \subseteq back
  BY Zenon DEF left, valid
<1> QED
  BY <1>1, <1>2, <1>4, <1>5, Zenon

\* A step that stores no lock, adds nothing to the mempool and leaves the work
\* thread alone keeps PoolInv.
LEMMA PoolShrinks ==
    ASSUME PoolInv, mempool' \subseteq mempool, islocks' \subseteq islocks, worker' = worker
    PROVE  PoolInv'
BY Zenon DEF PoolInv, WorkerOK, MempoolRespectsLocks, LockConflicts

\* So does one that adds transactions without a conflict.
LEMMA PoolGrows ==
    ASSUME PoolInv, mempool' \subseteq Txs, islocks' \subseteq islocks, worker' = worker,
           \A t \in mempool' : t \in mempool \/ Conflicts(t) \cap islocks' = {}
    PROVE  PoolInv'
BY Zenon DEF PoolInv, WorkerOK, MempoolRespectsLocks, LockConflicts

-----------------------------------------------------------------------------
\* A node that starts has no lock and an empty mempool.
LEMMA PoolInvInit == Init => PoolInv
BY ConstantsTyped DEF Init, PoolInv, WorkerOK, WorkerFields, WorkerSteps, WorkerIdle,
                      MempoolRespectsLocks

\* The messages and the chain state.
LEMMA PoolInvMessages ==
    ASSUME PoolInv,
           \/ \E t \in Txs : ReceiveTx(t)
           \/ \E b \in Blocks \ {Genesis} : ReceiveBlock(b)
           \/ \E l \in Lockable : ReceiveLock(l) \/ RecoverLock(l)
           \/ \E b \in Final : ChainLock(b)
           \/ EnforceChainLock \/ AnnounceChainLock \/ ActivateBestChain
    PROVE  PoolInv'
<1>1. ASSUME NEW t \in Txs, ReceiveTx(t) PROVE PoolInv'
  <2>1. worker' = worker
    BY <1>1, Zenon DEF ReceiveTx
  <2>2. islocks' \subseteq islocks
    BY <1>1, RemovedLocksShrink, Zenon DEF ReceiveTx
  <2>3. mempool' \subseteq mempool \cup {t} /\ (t \in mempool' => LockConflicts(t) = {})
    BY <1>1, Zenon DEF ReceiveTx
  <2> QED
    BY <2>1, <2>2, <2>3, PoolGrows, Zenon DEF PoolInv, LockConflicts
<1>2. ASSUME NEW b \in Blocks \ {Genesis}, ReceiveBlock(b) PROVE PoolInv'
  BY <1>2, PoolShrinks, Zenon DEF ReceiveBlock, pool, db
<1>3. ASSUME NEW l \in Lockable, ReceiveLock(l) \/ RecoverLock(l) PROVE PoolInv'
  BY <1>3, PoolShrinks, Zenon DEF ReceiveLock, RecoverLock, pool, db
<1>4. ASSUME NEW b \in Final, ChainLock(b) PROVE PoolInv'
  BY <1>4, PoolShrinks, Zenon DEF ChainLock, pool, db
<1>5. ASSUME EnforceChainLock PROVE PoolInv'
  <2>1. islocks' = islocks /\ worker' = worker
    BY <1>5, Zenon DEF EnforceChainLock, db
  <2>2. MoveTip(Highest(Chain[tip] \cap Chain[clsig]), islocks)
    BY <1>5, Zenon DEF EnforceChainLock
  <2> QED
    BY <2>1, <2>2, MoveTipRespectsLocks, PoolGrows, Zenon DEF PoolInv
<1>6. ASSUME AnnounceChainLock PROVE PoolInv'
  BY <1>6, PoolShrinks, Zenon DEF AnnounceChainLock, db
<1>7. ASSUME ActivateBestChain PROVE PoolInv'
  <2>1. worker' = worker
    BY <1>7, Zenon DEF ActivateBestChain
  <2>2. \E S, n : RemoveConflictingLocks(S) /\ MoveTip(n, islocks')
    BY <1>7, Zenon DEF ActivateBestChain
  <2>3. PICK S, n : RemoveConflictingLocks(S) /\ MoveTip(n, islocks')
    BY <2>2, Zenon
  <2>4. islocks' \subseteq islocks
    BY <2>3, RemovedLocksShrink, Zenon
  <2> QED
    BY <2>1, <2>3, <2>4, MoveTipRespectsLocks, PoolGrows, Zenon DEF PoolInv
<1> QED
  BY <1>1, <1>2, <1>3, <1>4, <1>5, <1>6, <1>7, ZenonT(30)

\* The scheduler thread only evicts transactions and gives up locks.
LEMMA PoolInvScheduler ==
    ASSUME PoolInv, Scheduler
    PROVE  PoolInv'
<1>1. worker' = worker
  BY Zenon DEF Scheduler, TransactionAddedToMempool, TransactionRemovedFromMempool,
         AddedRemovesConflicts, TrackTx, UnparkLock, BlockConnected, BlockDisconnected,
         NotifyChainLock, BlockConnectedTx, BlockConnectedMarks
<1>2. mempool' \subseteq mempool
  BY Zenon DEF Scheduler, TransactionAddedToMempool, TransactionRemovedFromMempool,
         AddedRemovesConflicts, TrackTx, UnparkLock, BlockConnected, BlockDisconnected,
         NotifyChainLock, BlockConnectedTx, BlockConnectedMarks, RemoveMempoolConflicts, pool
<1>3. islocks' \subseteq islocks
  <2>1. CASE \E t \in Txs : TransactionRemovedFromMempool(t)
    BY <2>1, RemovedLocksShrink, Zenon DEF TransactionRemovedFromMempool
  <2>2. CASE \E b \in Blocks : NotifyChainLock(b)
    BY <2>2, Zenon DEF NotifyChainLock
  <2>3. CASE ~(\E t \in Txs : TransactionRemovedFromMempool(t))
             /\ ~(\E b \in Blocks : NotifyChainLock(b))
    BY <2>3, Zenon DEF Scheduler, TransactionAddedToMempool,
         AddedRemovesConflicts, TrackTx, UnparkLock, BlockConnected, BlockDisconnected,
         BlockConnectedTx, BlockConnectedMarks, db
  <2> QED
    BY <2>1, <2>2, <2>3, Zenon
<1> QED
  BY <1>1, <1>2, <1>3, PoolShrinks, Zenon

\* The work thread: a lock it is done with has no rival left in the mempool.
LEMMA PoolInvWorker ==
    ASSUME PoolInv, WorkThread
    PROVE  PoolInv'
<1> USE DEF WorkerFields, WorkerSteps
<1>1. ASSUME ProcessPendingInstantSendLocks PROVE PoolInv'
  <2>1. mempool' = mempool /\ islocks' = islocks /\ worker = WorkerIdle
        /\ worker' = [WorkerIdle EXCEPT !.batch = pending]
    BY <1>1, Zenon DEF ProcessPendingInstantSendLocks, pool, db
  <2> QED
    BY <2>1, Zenon DEF PoolInv, WorkerOK, WorkerIdle, MempoolRespectsLocks, LockConflicts
<1>2. ASSUME NEW l \in Lockable, ProcessInstantSendLock(l) PROVE PoolInv'
  <2>1. mempool' = mempool /\ islocks' = islocks /\ worker.at = "idle"
    BY <1>2, Zenon DEF ProcessInstantSendLock, pool, db
  <2>2. worker.lock = None /\ \A t \in mempool : LockConflicts(t) = {}
    BY <2>1, ConstantsTyped DEF PoolInv, WorkerOK, MempoolRespectsLocks, LockConflicts
  <2>3. \A t \in mempool' : LockConflicts(t)' = {}
    BY <2>1, <2>2, Zenon DEF LockConflicts
  <2>4. WorkerOK'
    <3>1. CASE KnownInstantSendLock(l)
      BY <1>2, <2>1, <3>1, Zenon DEF ProcessInstantSendLock, PoolInv, WorkerOK
    <3>2. CASE ~KnownInstantSendLock(l)
      <4>1. l \notin islocks /\ l \in Txs
        BY <3>2, ConstantsTyped, Zenon DEF KnownInstantSendLock
      <4> QED
        BY <1>2, <2>1, <4>1, Zenon DEF ProcessInstantSendLock, PoolInv, WorkerOK
    <3> QED
      BY <3>1, <3>2, Zenon
  <2> QED
    BY <2>1, <2>3, <2>4, Zenon DEF PoolInv, MempoolRespectsLocks
<1>3. ASSUME StoreLock PROVE PoolInv'
  <2>1. mempool' = mempool /\ worker.at = "store" /\ worker.lock \notin islocks
        /\ worker.lock \in Txs
    BY <1>3, Zenon DEF StoreLock, PoolInv, WorkerOK, pool
  <2>2. worker' = [worker EXCEPT !.at = "untrack"]
        /\ islocks' = IF worker.known THEN islocks \cup {worker.lock} ELSE islocks
    BY <1>3, <2>1, Zenon DEF StoreLock, WorkerGoto
  <2>3. WorkerOK'
    BY <2>1, <2>2, Zenon DEF PoolInv, WorkerOK
  <2> QED
    BY <2>1, <2>2, <2>3, Zenon DEF PoolInv, WorkerOK, MempoolRespectsLocks, LockConflicts
<1>4. ASSUME UntrackLocked PROVE PoolInv'
  BY <1>4, Zenon DEF UntrackLocked, WorkerGoto, pool, db, PoolInv, WorkerOK,
              MempoolRespectsLocks, LockConflicts
<1>5. ASSUME ResolveBlockConflicts PROVE PoolInv'
  <2>1. mempool' = mempool /\ worker.at = "resolve"
    BY <1>5, Zenon DEF ResolveBlockConflicts, pool
  <2>2. islocks' \subseteq islocks
    BY <1>5, RemovedLocksShrink, Zenon DEF ResolveBlockConflicts
  <2>3. /\ DOMAIN worker' = WorkerFields
        /\ worker'.lock = worker.lock /\ worker'.known = worker.known
        /\ worker'.at \in {AfterResolve, "invalidate"}
    BY <1>5, ZenonT(30) DEF ResolveBlockConflicts, WorkerGoto, PoolInv, WorkerOK
  <2> QED
    BY <2>1, <2>2, <2>3, Zenon DEF AfterResolve, PoolInv, WorkerOK, MempoolRespectsLocks,
                            LockConflicts
<1>6. ASSUME NEW b \in Blocks, InvalidateConflicting(b) PROVE PoolInv'
  <2>1. islocks' = islocks /\ worker.at = "invalidate"
    BY <1>6, Zenon DEF InvalidateConflicting, db
  <2>2. /\ DOMAIN worker' = WorkerFields
        /\ worker'.lock = worker.lock /\ worker'.known = worker.known
        /\ worker'.at \in {"activate", "invalidate"}
    BY <1>6, Zenon DEF InvalidateConflicting, PoolInv, WorkerOK
  <2>3. \E n : MoveTip(n, islocks)
    BY <1>6, Zenon DEF InvalidateConflicting, InvalidateBlock
  <2>4. /\ mempool' \subseteq Txs
        /\ \A t \in mempool' : t \in mempool \/ Conflicts(t) \cap islocks = {}
    BY <2>3, MoveTipRespectsLocks, Zenon DEF PoolInv
  <2> QED
    BY <2>1, <2>2, <2>4, Zenon DEF PoolInv, WorkerOK, MempoolRespectsLocks, LockConflicts
<1>7. ASSUME ResolveActivated PROVE PoolInv'
  BY <1>7, Zenon DEF ResolveActivated, WorkerGoto, AfterResolve, pool, db, PoolInv, WorkerOK,
              MempoolRespectsLocks, LockConflicts
<1>8. ASSUME FinishLock PROVE PoolInv'
  <2>1. /\ islocks' = islocks
        /\ worker' = [WorkerIdle EXCEPT !.batch = worker.batch]
        /\ worker.at \in {"mempool", "done"}
        /\ worker.lock \in Txs
    BY <1>8, Zenon DEF FinishLock, LockDone, db, PoolInv, WorkerOK
  <2>2. WorkerOK'
    BY <2>1, ConstantsTyped, Zenon DEF WorkerOK, WorkerIdle, PoolInv
  <2>3. mempool' \subseteq mempool
    BY <1>8, Zenon DEF FinishLock, RemoveMempoolConflicts, pool
  <2>4. ASSUME NEW t \in mempool' PROVE LockConflicts(t) = {}
    <3>1. LockConflicts(t) \subseteq {worker.lock} /\ t \in Txs
      BY <2>3, Zenon DEF PoolInv, MempoolRespectsLocks
    <3>2. CASE worker.at = "done"
      BY <3>1, <3>2, Zenon DEF PoolInv, WorkerOK, LockConflicts
    <3>3. CASE worker.at = "mempool"
      <4>1. mempool' = mempool \ (mempool \cap Family(mempool \cap Conflicts(worker.lock)))
        BY <1>8, <3>3, Zenon DEF FinishLock, RemoveMempoolConflicts
      <4>2. t \notin Conflicts(worker.lock)
        BY <4>1, <2>3, FamilyHasRoots, Zenon DEF Family
      <4>3. worker.lock \notin Conflicts(t)
        BY <4>2, <3>1, ConflictsSymmetric, Zenon
      <4> QED
        BY <4>3, <3>1, Zenon DEF LockConflicts
    <3> QED
      BY <2>1, <3>2, <3>3, Zenon
  <2> QED
    BY <2>1, <2>2, <2>3, <2>4, Zenon DEF PoolInv, MempoolRespectsLocks, LockConflicts
<1>9. ASSUME NEW t \in Txs, RetryLockTx(t) PROVE PoolInv'
  BY <1>9, PoolShrinks, Zenon DEF RetryLockTx, pool, db
<1> QED
  BY <1>1, <1>2, <1>3, <1>4, <1>5, <1>6, <1>7, <1>8, <1>9, ZenonT(30) DEF WorkThread

\* The mempool keeps no transaction that conflicts with a stored lock once the
\* work thread is done with the lock, whatever the transactions, the blocks and
\* the order in which the three threads run.
THEOREM MempoolSafe == Spec => []MempoolRespectsLocks
<1>1. Init => PoolInv
  BY PoolInvInit, Zenon
<1>2. PoolInv /\ [Next]_vars => PoolInv'
  <2> SUFFICES ASSUME PoolInv, [Next]_vars PROVE PoolInv'
    BY Zenon
  <2>1. CASE Next
    BY <2>1, PoolInvMessages, PoolInvScheduler, PoolInvWorker, Zenon DEF Next
  <2>2. CASE UNCHANGED vars
    BY <2>2, PoolShrinks, Zenon DEF vars
  <2> QED
    BY <2>1, <2>2, Zenon
<1>3. PoolInv => MempoolRespectsLocks
  BY Zenon DEF PoolInv
<1> QED
  BY <1>1, <1>2, <1>3, PTL DEF Spec

-----------------------------------------------------------------------------
(* The maps of tracked transactions. *)

EntryType == [entry : BOOLEAN, tx : BOOLEAN, mined : Blocks \cup {None},
              children : SUBSET Txs]

SchedFields == {"at", "tx", "block", "todo"}

\* The scheduler thread's locals, as far as AddNonLockedTx uses them.
SchedOK ==
    /\ DOMAIN sched = SchedFields
    /\ sched.at = "track" => sched.tx \in Txs
    /\ sched.block \in Blocks \cup {None}
    /\ sched.todo \in Seq(Txs)

EntriesOK ==
    /\ nonLocked \in [Txs -> EntryType]
    /\ byOutpoint \in [Outpoints -> Txs \cup {None}]

\* The conflicts the work thread collected are transactions.
ConflictsOK == \A c \in worker.conflicts : c[1] \in Txs

\* The inductive invariant for TrackingConsistent.
TrackInv == SchedOK /\ EntriesOK /\ ConflictsOK /\ TrackingConsistent

\* A node that starts tracks nothing.
LEMMA TrackInvInit == Init => TrackInv
BY ConstantsTyped DEF Init, TrackInv, SchedOK, SchedFields, SchedIdle, EntriesOK, EntryType,
                      NoEntry, ConflictsOK, WorkerIdle, TrackingConsistent

\* AddNonLockedTx keeps the maps in agreement.
LEMMA AddKeepsTracking ==
    ASSUME EntriesOK, TrackingConsistent, NEW t \in Txs, NEW b \in Blocks \cup {None},
           AddNonLockedTx(t, b), retry' = retry
    PROVE  EntriesOK' /\ TrackingConsistent'
<1>1. CASE nonLocked[t].entry
  <2>1. nonLocked' = [nonLocked EXCEPT ![t].mined = b] /\ byOutpoint' = byOutpoint
    BY <1>1, Zenon DEF AddNonLockedTx
  <2>2. nonLocked' \in [Txs -> EntryType]
    BY <2>1, ZenonT(30) DEF EntriesOK, EntryType
  <2>3. \A u \in Txs : /\ nonLocked'[u].tx = nonLocked[u].tx
                       /\ nonLocked'[u].children = nonLocked[u].children
    BY <2>1 DEF EntriesOK, EntryType
  <2>4. EntriesOK'
    BY <2>1, <2>2, Zenon DEF EntriesOK
  <2> QED
    BY <2>1, <2>3, <2>4 DEF TrackingConsistent, EntriesOK, EntryType
<1>2. CASE ~nonLocked[t].entry
  <2>1. /\ nonLocked' = [u \in Txs |->
             IF u = t THEN [entry |-> TRUE, tx |-> TRUE, mined |-> b,
                            children |-> nonLocked[t].children]
             ELSE IF u \in Parents(t)
             THEN [nonLocked[u] EXCEPT !.entry = TRUE, !.children = @ \cup {t}]
             ELSE nonLocked[u]]
        /\ byOutpoint' = [o \in Outpoints |->
             IF o \in Inputs[t] /\ byOutpoint[o] = None THEN t ELSE byOutpoint[o]]
    BY <1>2, Zenon DEF AddNonLockedTx
  <2>2. ASSUME NEW u \in Txs
        PROVE  /\ nonLocked'[u] \in EntryType
               /\ nonLocked[u].tx => nonLocked'[u].tx
               /\ nonLocked'[u].children \subseteq
                     nonLocked[u].children \cup (IF u \in Parents(t) THEN {t} ELSE {})
    <3>1. nonLocked[u] \in EntryType
      BY Zenon DEF EntriesOK
    <3>2. CASE u = t
      <4>1. nonLocked'[u] = [entry |-> TRUE, tx |-> TRUE, mined |-> b,
                             children |-> nonLocked[u].children]
        BY <2>1, <3>2, Zenon
      <4> QED
        BY <3>1, <4>1 DEF EntryType
    <3>3. CASE u # t /\ u \in Parents(t)
      <4>1. nonLocked'[u] = [nonLocked[u] EXCEPT !.entry = TRUE,
                                !.children = nonLocked[u].children \cup {t}]
        BY <2>1, <3>3, Zenon
      <4>2. nonLocked'[u] = [entry |-> TRUE, tx |-> nonLocked[u].tx,
                             mined |-> nonLocked[u].mined,
                             children |-> nonLocked[u].children \cup {t}]
        BY <3>1, <4>1, Zenon DEF EntryType
      <4> QED
        BY <3>1, <3>3, <4>2 DEF EntryType
    <3>4. CASE u # t /\ u \notin Parents(t)
      <4>1. nonLocked'[u] = nonLocked[u]
        BY <2>1, <3>4, Zenon
      <4> QED
        BY <3>1, <4>1, Zenon
    <3> QED
      BY <3>2, <3>3, <3>4, Zenon
  <2>3. byOutpoint' \in [Outpoints -> Txs \cup {None}]
    BY <2>1, Zenon DEF EntriesOK
  <2>4. \A u \in Txs : nonLocked[u].tx => nonLocked'[u].tx
    BY <2>2, Zenon
  <2>5. nonLocked'[t].tx
    BY <2>1, Zenon
  <2>6. EntriesOK'
    <3>1. nonLocked' \in [Txs -> EntryType]
      BY <2>1, <2>2, Zenon
    <3> QED
      BY <2>3, <3>1, Zenon DEF EntriesOK
  <2>7. ASSUME NEW u \in Txs, NEW c \in nonLocked'[u].children
        PROVE  c \in nonLocked[u].children \/ (c = t /\ u \in Parents(t))
    BY <2>2, <2>7, Zenon
  <2>8. \A u \in Txs : \A c \in nonLocked'[u].children :
            nonLocked'[c].tx /\ u \in Parents(c)
    BY <2>4, <2>5, <2>7, Zenon DEF TrackingConsistent, EntriesOK, EntryType
  <2>9. \A o \in Outpoints : byOutpoint'[o] # None =>
            nonLocked'[byOutpoint'[o]].tx /\ o \in Inputs[byOutpoint'[o]]
    BY <2>1, <2>4, <2>5, Zenon DEF TrackingConsistent, EntriesOK
  <2>10. retry' \subseteq {u \in Txs : nonLocked'[u].tx}
    BY <2>4, Zenon DEF TrackingConsistent
  <2> QED
    BY <2>6, <2>8, <2>9, <2>10, Zenon DEF TrackingConsistent
<1> QED
  BY <1>1, <1>2, Zenon

\* So does RemoveNonLockedTx.
LEMMA RemoveKeepsTracking ==
    ASSUME EntriesOK, TrackingConsistent, NEW S, NEW again \in BOOLEAN,
           RemoveNonLockedTxs(S, again), S \subseteq Txs
    PROVE  EntriesOK' /\ TrackingConsistent'
<1> DEFINE gone == {t \in S : nonLocked[t].entry}
           spent == UNION {Inputs[t] : t \in {u \in gone : nonLocked[u].tx}}
           children == UNION {nonLocked[t].children : t \in gone}
           left(u) == nonLocked[u].children \ {t \in gone : nonLocked[t].tx}
<1>1. /\ nonLocked' = [u \in Txs |->
             IF u \in gone \/ (nonLocked[u].entry /\ ~nonLocked[u].tx /\ left(u) = {})
             THEN NoEntry
             ELSE [nonLocked[u] EXCEPT !.children = left(u)]]
      /\ byOutpoint' = [o \in Outpoints |-> IF o \in spent THEN None ELSE byOutpoint[o]]
      /\ retry' \subseteq (retry \cup children) \ gone
  BY Zenon DEF RemoveNonLockedTxs, Untracked
<1>2. \A u \in Txs : left(u) \subseteq nonLocked[u].children /\ left(u) \in SUBSET Txs
  BY Zenon DEF EntriesOK, EntryType
<1>3. \A u \in Txs : nonLocked[u].tx /\ u \notin gone => nonLocked'[u].tx
  BY <1>1, Zenon DEF EntriesOK, EntryType
<1>4. \A u \in Txs : nonLocked'[u].children \subseteq left(u)
  BY <1>1, <1>2, SMTT(30) DEF EntriesOK, EntryType, NoEntry
<1>5. nonLocked' \in [Txs -> EntryType]
  BY <1>1, <1>2, SMTT(30) DEF EntriesOK, EntryType, NoEntry
<1>6. byOutpoint' \in [Outpoints -> Txs \cup {None}]
  BY <1>1, Zenon DEF EntriesOK
<1>7. ASSUME NEW o \in Outpoints, byOutpoint'[o] # None
      PROVE  nonLocked'[byOutpoint'[o]].tx /\ o \in Inputs[byOutpoint'[o]]
  <2>1. o \notin spent /\ byOutpoint'[o] = byOutpoint[o]
    BY <1>1, <1>7, Zenon
  <2>2. byOutpoint[o] \in Txs /\ nonLocked[byOutpoint[o]].tx /\ o \in Inputs[byOutpoint[o]]
    BY <1>7, <2>1, Zenon DEF EntriesOK, TrackingConsistent
  <2>3. byOutpoint[o] \notin gone
    BY <2>1, <2>2, Zenon
  <2> QED
    BY <1>3, <2>1, <2>2, <2>3, Zenon
<1>8. ASSUME NEW u \in Txs, NEW c \in nonLocked'[u].children
      PROVE  nonLocked'[c].tx /\ u \in Parents(c)
  <2>1. c \in left(u) /\ c \in nonLocked[u].children /\ c \in Txs
    BY <1>2, <1>4, <1>8, Zenon
  <2>2. nonLocked[c].tx /\ u \in Parents(c)
    BY <2>1, Zenon DEF TrackingConsistent
  <2>3. c \notin gone
    BY <2>1, <2>2, Zenon
  <2> QED
    BY <1>3, <2>1, <2>2, <2>3, Zenon
<1>9. ASSUME NEW t \in retry' PROVE t \in Txs /\ nonLocked'[t].tx
  <2>1. t \notin gone /\ t \in retry \cup children
    BY <1>1, <1>9, Zenon
  <2>2. t \in Txs /\ nonLocked[t].tx
    BY <2>1 DEF TrackingConsistent, EntriesOK, EntryType
  <2> QED
    BY <1>3, <2>1, <2>2, Zenon
<1>10. EntriesOK'
  BY <1>5, <1>6, Zenon DEF EntriesOK
<1>11. TrackingConsistent'
  BY <1>7, <1>8, <1>9, Zenon DEF TrackingConsistent
<1> QED
  BY <1>10, <1>11, Zenon

\* The scheduler thread tracks a transaction of its own locals.
LEMMA TrackInvScheduler ==
    ASSUME TrackInv, Scheduler
    PROVE  TrackInv'
<1> USE DEF TrackInv
<1>1. SchedOK'
  <2> USE DEF SchedOK, SchedFields
  <2>1. ASSUME NEW t \in Txs, TransactionAddedToMempool(t) PROVE SchedOK'
    BY <2>1 DEF TransactionAddedToMempool, SchedIdle
  <2>2. ASSUME NEW t \in Txs, TransactionRemovedFromMempool(t) PROVE SchedOK'
    BY <2>2, Zenon DEF TransactionRemovedFromMempool
  <2>3. ASSUME AddedRemovesConflicts PROVE SchedOK'
    BY <2>3 DEF AddedRemovesConflicts, SchedIdle
  <2>4. ASSUME TrackTx PROVE SchedOK'
    BY <2>4, Zenon DEF TrackTx, SchedGoto
  <2>5. ASSUME UnparkLock PROVE SchedOK'
    BY <2>5 DEF UnparkLock, SchedIdle
  <2>6. ASSUME NEW b \in Blocks, BlockConnected(b) PROVE SchedOK'
    BY <2>6, ConstantsTyped, Zenon DEF BlockConnected, SchedIdle
  <2>7. ASSUME NEW b \in Blocks, BlockDisconnected(b) \/ NotifyChainLock(b) PROVE SchedOK'
    BY <2>7, Zenon DEF BlockDisconnected, NotifyChainLock
  <2>8. ASSUME BlockConnectedTx PROVE SchedOK'
    <3>1. Head(sched.todo) \in Txs /\ Tail(sched.todo) \in Seq(Txs)
      BY <2>8 DEF BlockConnectedTx
    <3> QED
      BY <2>8, <3>1, Zenon DEF BlockConnectedTx
  <2>9. ASSUME BlockConnectedMarks PROVE SchedOK'
    BY <2>9, Zenon DEF BlockConnectedMarks, SchedIdle
  <2> QED
    BY <2>1, <2>2, <2>3, <2>4, <2>5, <2>6, <2>7, <2>8, <2>9, ZenonT(30) DEF Scheduler
<1>2. EntriesOK' /\ TrackingConsistent'
  <2>1. CASE UNCHANGED tracked
    BY <2>1, Zenon DEF tracked, EntriesOK, TrackingConsistent
  <2>2. CASE TrackTx
    BY <2>2, AddKeepsTracking, Zenon DEF TrackTx, SchedOK
  <2>3. ASSUME NEW S, NEW again \in BOOLEAN, S \subseteq Txs, RemoveNonLockedTxs(S, again)
        PROVE  EntriesOK' /\ TrackingConsistent'
    BY <2>3, RemoveKeepsTracking, Zenon
  <2>4. CASE AddedRemovesConflicts
    <3>1. RemoveNonLockedTxs(mempool \cap Conflicts(sched.tx), FALSE)
      BY <2>4, Zenon DEF AddedRemovesConflicts, RemoveMempoolConflicts
    <3> QED
      BY <2>3, <3>1, Zenon DEF Conflicts
  <2>5. CASE BlockConnectedTx
    <3>1. Head(sched.todo) \in Txs
      BY <2>5 DEF BlockConnectedTx, SchedOK
    <3>2. UNCHANGED tracked \/ RemoveNonLockedTxs({Head(sched.todo)}, TRUE)
      BY <2>5, Zenon DEF BlockConnectedTx
    <3> QED
      BY <2>1, <2>3, <3>1, <3>2, Zenon
  <2>6. ASSUME NEW b \in Blocks, NotifyChainLock(b) PROVE EntriesOK' /\ TrackingConsistent'
    <3>1. RemoveNonLockedTxs({t \in Txs : nonLocked[t].mined \in Chain[b]}, TRUE)
      BY <2>6, Zenon DEF NotifyChainLock
    <3> QED
      BY <2>3, <3>1, Zenon
  <2>7. \/ UNCHANGED tracked \/ TrackTx \/ AddedRemovesConflicts \/ BlockConnectedTx
        \/ \E b \in Blocks : NotifyChainLock(b)
    BY Zenon DEF Scheduler, TransactionAddedToMempool, TransactionRemovedFromMempool,
           UnparkLock, BlockConnected, BlockDisconnected, BlockConnectedMarks
  <2> QED
    BY <2>1, <2>2, <2>4, <2>5, <2>6, <2>7, Zenon
<1>3. worker' = worker
  BY Zenon DEF Scheduler, TransactionAddedToMempool, TransactionRemovedFromMempool,
         AddedRemovesConflicts, TrackTx, UnparkLock, BlockConnected, BlockDisconnected,
         NotifyChainLock, BlockConnectedTx, BlockConnectedMarks
<1> QED
  BY <1>1, <1>2, <1>3, Zenon DEF ConflictsOK

\* The work thread untracks the transaction of its lock and its conflicts.
LEMMA TrackInvWorker ==
    ASSUME TrackInv, PoolInv, WorkThread
    PROVE  TrackInv'
<1> USE DEF TrackInv
<1>1. SchedOK'
  <2>1. sched' = sched
    BY Zenon DEF WorkThread, ProcessPendingInstantSendLocks, ProcessInstantSendLock, StoreLock,
           UntrackLocked, ResolveBlockConflicts, InvalidateConflicting, ResolveActivated,
           FinishLock, RetryLockTx
  <2> QED
    BY <2>1, Zenon DEF SchedOK
<1>2. ConflictsOK'
  <2> USE DEF ConflictsOK, PoolInv, WorkerOK, WorkerFields
  <2>1. ASSUME ProcessPendingInstantSendLocks PROVE ConflictsOK'
    BY <2>1, Zenon DEF ProcessPendingInstantSendLocks, WorkerIdle
  <2>2. ASSUME NEW l \in Lockable, ProcessInstantSendLock(l) PROVE ConflictsOK'
    <3>1. worker'.conflicts = worker.conflicts
      BY <2>2, Zenon DEF ProcessInstantSendLock
    <3> QED
      BY <3>1, Zenon
  <2>3. ASSUME StoreLock PROVE ConflictsOK'
    <3>1. worker'.conflicts \in {worker.conflicts, {}}
      BY <2>3, Zenon DEF StoreLock, WorkerGoto, LockDone, WorkerIdle
    <3> QED
      BY <3>1, Zenon
  <2>4. ASSUME UntrackLocked \/ ResolveActivated PROVE ConflictsOK'
    BY <2>4, Zenon DEF UntrackLocked, ResolveActivated, WorkerGoto
  <2>5. ASSUME ResolveBlockConflicts PROVE ConflictsOK'
    <3> DEFINE found == {<<t, nonLocked[t].mined>> : t \in TrackedConflicts(worker.lock)}
    <3>1. worker'.conflicts \in {worker.conflicts, found}
      BY <2>5, ZenonT(30) DEF ResolveBlockConflicts, WorkerGoto
    <3>2. worker.lock \in Txs
      BY <2>5, Zenon DEF ResolveBlockConflicts
    <3>3. TrackedConflicts(worker.lock) \subseteq Txs
      BY <3>2, ConstantsTyped DEF TrackedConflicts, EntriesOK
    <3>4. \A c \in found : c[1] \in Txs
      BY <3>3
    <3> QED
      BY <3>1, <3>4, Zenon
  <2>6. ASSUME NEW b \in Blocks, InvalidateConflicting(b) PROVE ConflictsOK'
    <3>1. worker'.conflicts \subseteq worker.conflicts
      BY <2>6, Zenon DEF InvalidateConflicting
    <3> QED
      BY <3>1, Zenon
  <2>7. ASSUME FinishLock PROVE ConflictsOK'
    BY <2>7, Zenon DEF FinishLock, LockDone, WorkerIdle
  <2>8. ASSUME NEW t \in Txs, RetryLockTx(t) PROVE ConflictsOK'
    BY <2>8, Zenon DEF RetryLockTx
  <2> QED
    BY <2>1, <2>2, <2>3, <2>4, <2>5, <2>6, <2>7, <2>8, ZenonT(30) DEF WorkThread
<1>3. CASE UNCHANGED tracked
  BY <1>1, <1>2, <1>3, Zenon DEF tracked, EntriesOK, TrackingConsistent
<1>4. ASSUME NEW S, NEW again \in BOOLEAN, RemoveNonLockedTxs(S, again), S \subseteq Txs
      PROVE  TrackInv'
  BY <1>1, <1>2, <1>4, RemoveKeepsTracking, Zenon
<1>5. CASE UntrackLocked
  <2> DEFINE S == {worker.lock}
  <2>1. RemoveNonLockedTxs(S, TRUE)
    BY <1>5, Zenon DEF UntrackLocked
  <2>2. S \subseteq Txs
    BY <1>5, Zenon DEF UntrackLocked, PoolInv, WorkerOK
  <2> HIDE DEF S
  <2> QED
    BY <1>4, <2>1, <2>2, Zenon
<1>6. ASSUME NEW b \in Blocks, InvalidateConflicting(b) PROVE TrackInv'
  <2> DEFINE S == {c[1] : c \in {d \in worker.conflicts : d[2] = b}}
  <2>1. RemoveNonLockedTxs(S, FALSE)
    BY <1>6, Zenon DEF InvalidateConflicting
  <2>2. S \subseteq Txs
    BY Zenon DEF ConflictsOK
  <2> QED
    BY <1>4, <2>1, <2>2, Zenon
<1>7. CASE FinishLock
  <2>1. UNCHANGED tracked \/ RemoveNonLockedTxs(mempool \cap Conflicts(worker.lock), FALSE)
    BY <1>7, Zenon DEF FinishLock, RemoveMempoolConflicts
  <2>2. mempool \cap Conflicts(worker.lock) \subseteq Txs
    BY Zenon DEF Conflicts
  <2> QED
    BY <1>3, <1>4, <2>1, <2>2, Zenon
<1>8. \/ UNCHANGED tracked \/ UntrackLocked \/ FinishLock
      \/ \E b \in Blocks : InvalidateConflicting(b)
  BY Zenon DEF WorkThread, ProcessPendingInstantSendLocks, ProcessInstantSendLock, StoreLock,
         ResolveBlockConflicts, ResolveActivated, RetryLockTx
<1> QED
  BY <1>3, <1>5, <1>6, <1>7, <1>8, Zenon

LEMMA TrackInvStep ==
    ASSUME PoolInv, TrackInv, [Next]_vars
    PROVE  PoolInv' /\ TrackInv'
<1>1. PoolInv'
  BY PoolInvMessages, PoolInvScheduler, PoolInvWorker, PoolShrinks, Zenon DEF Next, vars
<1>2. CASE Scheduler
  BY <1>1, <1>2, TrackInvScheduler, Zenon
<1>3. CASE WorkThread
  BY <1>1, <1>3, TrackInvWorker, Zenon
<1>4. CASE UNCHANGED <<tracked, sched, worker>>
  BY <1>1, <1>4, Zenon DEF TrackInv, tracked, SchedOK, EntriesOK, ConflictsOK, TrackingConsistent
<1>5. Scheduler \/ WorkThread \/ UNCHANGED <<tracked, sched, worker>>
  BY Zenon DEF Next, vars, tracked, ReceiveTx, ReceiveBlock, ReceiveLock, RecoverLock, ChainLock,
         EnforceChainLock, AnnounceChainLock, ActivateBestChain
<1> QED
  BY <1>1, <1>2, <1>3, <1>4, <1>5, Zenon

\* The three maps of tracked transactions agree at every step of every thread.
THEOREM TrackingSafe == Spec => []TrackingConsistent
<1> DEFINE Inv == PoolInv /\ TrackInv
<1>1. Init => Inv
  BY PoolInvInit, TrackInvInit, Zenon
<1>2. Inv /\ [Next]_vars => Inv'
  BY TrackInvStep, Zenon
<1>3. Inv => TrackingConsistent
  BY Zenon DEF TrackInv
<1> QED
  BY <1>1, <1>2, <1>3, PTL DEF Spec

-----------------------------------------------------------------------------
(* Where the transactions are mined. *)

\* The transaction index leads to a block with the transaction.
IndexOK ==
    /\ txindex \in [Txs -> Blocks \cup {None}]
    /\ \A t \in Txs : txindex[t] # None => t \in Txids(txindex[t])

\* So does the block of a tracked transaction.
EntriesMined ==
    \A t \in Txs : nonLocked[t].mined # None => t \in Txids(nonLocked[t].mined)

\* The transactions of the block the scheduler thread works on.
SchedBlockOK ==
    sched.block # None =>
        /\ sched.at = "track" => sched.tx \in Txids(sched.block)
        /\ \A i \in 1 .. Len(sched.todo) : sched.todo[i] \in Txids(sched.block)

\* The conflicts the work thread is about to invalidate are with its lock.
ConflictsKnown ==
    /\ worker.at # "invalidate" => worker.conflicts = {}
    /\ \A c \in worker.conflicts : /\ c[1] \in Txids(c[2])
                                   /\ worker.lock \in Conflicts(c[1])

MinedInv == IndexOK /\ EntriesMined /\ SchedBlockOK /\ ConflictsKnown

\* A node that starts has indexed and tracked nothing.
LEMMA MinedInvInit == Init => MinedInv
BY DEF Init, MinedInv, IndexOK, EntriesMined, SchedBlockOK, ConflictsKnown, NoEntry, SchedIdle,
       WorkerIdle

\* RemoveNonLockedTx moves no transaction to another block.
LEMMA RemoveKeepsMined ==
    ASSUME EntriesOK, EntriesMined, NEW S, NEW again, RemoveNonLockedTxs(S, again)
    PROVE  EntriesMined'
<1> DEFINE gone == {t \in S : nonLocked[t].entry}
           left(u) == nonLocked[u].children \ {t \in gone : nonLocked[t].tx}
<1>1. nonLocked' = [u \in Txs |->
             IF u \in gone \/ (nonLocked[u].entry /\ ~nonLocked[u].tx /\ left(u) = {})
             THEN NoEntry
             ELSE [nonLocked[u] EXCEPT !.children = left(u)]]
  BY Zenon DEF RemoveNonLockedTxs, Untracked
<1>2. ASSUME NEW u \in Txs PROVE nonLocked'[u].mined \in {nonLocked[u].mined, None}
  <2>1. nonLocked[u] \in EntryType
    BY Zenon DEF EntriesOK
  <2>2. nonLocked'[u] \in {NoEntry, [nonLocked[u] EXCEPT !.children = left(u)]}
    BY <1>1, Zenon
  <2> HIDE DEF left
  <2> QED BY <2>1, <2>2 DEF NoEntry, EntryType
<1> QED BY <1>2, Zenon DEF EntriesMined

\* AddNonLockedTx writes the block it is called for.
LEMMA AddKeepsMined ==
    ASSUME EntriesOK, EntriesMined, NEW t \in Txs, NEW b, AddNonLockedTx(t, b),
           b # None => t \in Txids(b)
    PROVE  EntriesMined'
<1>1. ASSUME NEW u \in Txs
      PROVE  nonLocked'[u].mined = nonLocked[u].mined \/ (u = t /\ nonLocked'[u].mined = b)
  <2>1. nonLocked[u] \in EntryType /\ nonLocked[t] \in EntryType
    BY Zenon DEF EntriesOK
  <2>2. CASE nonLocked[t].entry
    <3>1. nonLocked' = [nonLocked EXCEPT ![t].mined = b]
      BY <2>2, Zenon DEF AddNonLockedTx
    <3> QED BY <2>1, <3>1, Zenon DEF EntriesOK, EntryType
  <2>3. CASE ~nonLocked[t].entry
    <3>1. nonLocked' = [v \in Txs |->
             IF v = t THEN [entry |-> TRUE, tx |-> TRUE, mined |-> b,
                            children |-> nonLocked[t].children]
             ELSE IF v \in Parents(t)
             THEN [nonLocked[v] EXCEPT !.entry = TRUE, !.children = @ \cup {t}]
             ELSE nonLocked[v]]
      BY <2>3, Zenon DEF AddNonLockedTx
    <3>2. CASE u = t
      <4>1. nonLocked'[u] = [entry |-> TRUE, tx |-> TRUE, mined |-> b,
                             children |-> nonLocked[t].children]
        BY <3>1, <3>2, Zenon
      <4> QED BY <3>2, <4>1
    <3>3. CASE u # t
      <4>1. nonLocked'[u] \in {nonLocked[u],
               [nonLocked[u] EXCEPT !.entry = TRUE, !.children = nonLocked[u].children \cup {t}]}
        BY <3>1, <3>3, Zenon
      <4> QED BY <2>1, <4>1, Zenon DEF EntryType
    <3> QED BY <3>2, <3>3, Zenon
  <2> QED BY <2>2, <2>3, Zenon
<1> QED BY <1>1, Zenon DEF EntriesMined

LEMMA MinedInvScheduler ==
    ASSUME TrackInv, MinedInv, Scheduler
    PROVE  MinedInv'
<1> USE DEF TrackInv, MinedInv
<1>1. ConflictsKnown'
  <2>1. worker' = worker
    BY Zenon DEF Scheduler, TransactionAddedToMempool, TransactionRemovedFromMempool,
           AddedRemovesConflicts, TrackTx, UnparkLock, BlockConnected, BlockDisconnected,
           NotifyChainLock, BlockConnectedTx, BlockConnectedMarks
  <2> QED BY <2>1, Zenon DEF ConflictsKnown
<1>2. IndexOK'
  <2>1. ASSUME NEW b \in Blocks, BlockConnected(b) PROVE IndexOK'
    BY <2>1, Zenon DEF BlockConnected, IndexOK
  <2>2. CASE txindex' = txindex
    BY <2>2, Zenon DEF IndexOK
  <2>3. txindex' = txindex \/ \E b \in Blocks : BlockConnected(b)
    BY Zenon DEF Scheduler, TransactionAddedToMempool, TransactionRemovedFromMempool,
           AddedRemovesConflicts, TrackTx, UnparkLock, BlockDisconnected,
           NotifyChainLock, BlockConnectedTx, BlockConnectedMarks
  <2> QED BY <2>1, <2>2, <2>3, Zenon
<1>3. EntriesMined'
  <2>1. ASSUME NEW S, NEW again, RemoveNonLockedTxs(S, again) PROVE EntriesMined'
    BY <2>1, RemoveKeepsMined, Zenon
  <2>2. CASE TrackTx
    <3>1. /\ AddNonLockedTx(sched.tx, sched.block) /\ sched.tx \in Txs
          /\ sched.block # None => sched.tx \in Txids(sched.block)
      BY <2>2, Zenon DEF TrackTx, SchedOK, SchedBlockOK
    <3> QED BY <3>1, AddKeepsMined, Zenon
  <2>3. CASE UNCHANGED tracked
    BY <2>3, Zenon DEF tracked, EntriesMined
  <2>4. \/ UNCHANGED tracked \/ TrackTx
        \/ \E S, again : RemoveNonLockedTxs(S, again)
    BY ZenonT(30) DEF Scheduler, TransactionAddedToMempool, TransactionRemovedFromMempool,
           AddedRemovesConflicts, RemoveMempoolConflicts, UnparkLock, BlockConnected,
           BlockDisconnected, NotifyChainLock, BlockConnectedTx, BlockConnectedMarks
  <2> QED BY <2>1, <2>2, <2>3, <2>4, Zenon
<1>4. SchedBlockOK'
  <2> USE DEF SchedBlockOK, SchedOK, SchedFields
  <2>1. ASSUME NEW t \in Txs, TransactionAddedToMempool(t) PROVE SchedBlockOK'
    BY <2>1, Zenon DEF TransactionAddedToMempool, SchedIdle
  <2>2. CASE sched' = sched \/ sched' = SchedIdle
    BY <2>2 DEF SchedIdle
  <2>3. CASE TrackTx
    BY <2>3, Zenon DEF TrackTx, SchedGoto
  <2>4. CASE UnparkLock
    BY <2>4, Zenon DEF UnparkLock, SchedIdle
  <2>5. ASSUME NEW b \in Blocks, BlockConnected(b) PROVE SchedBlockOK'
    <3>1. BlockTxs[b] \in Seq(Txs)
      BY ConstantsTyped, Zenon
    <3>2. \A i \in 1 .. Len(BlockTxs[b]) : BlockTxs[b][i] \in Txids(b)
      BY <3>1 DEF Txids
    <3>3. sched'.block = b /\ sched'.at = "block" /\ sched'.todo = BlockTxs[b]
      BY <2>5, Zenon DEF BlockConnected, SchedIdle
    <3> QED BY <3>2, <3>3, Zenon
  <2>6. CASE BlockConnectedTx
    <3> DEFINE t == Head(sched.todo)
    <3>1. sched.todo \in Seq(Txs) /\ sched.todo # <<>>
      BY <2>6, Zenon DEF BlockConnectedTx
    <3>2. /\ sched'.block = sched.block /\ sched'.todo = Tail(sched.todo)
          /\ sched'.at = "track" => sched'.tx = t
      BY <2>6, Zenon DEF BlockConnectedTx
    <3>3. /\ t = sched.todo[1] /\ 1 \in 1 .. Len(sched.todo)
          /\ \A i \in 1 .. Len(Tail(sched.todo)) :
                Tail(sched.todo)[i] = sched.todo[i + 1] /\ i + 1 \in 1 .. Len(sched.todo)
      BY <3>1
    <3> HIDE DEF t
    <3> QED BY <3>2, <3>3, Zenon
  <2>7. \/ sched' = sched \/ sched' = SchedIdle \/ TrackTx \/ UnparkLock \/ BlockConnectedTx
        \/ \E t \in Txs : TransactionAddedToMempool(t)
        \/ \E b \in Blocks : BlockConnected(b)
    BY Zenon DEF Scheduler, TransactionRemovedFromMempool, AddedRemovesConflicts,
           BlockDisconnected, NotifyChainLock, BlockConnectedMarks
  <2> QED BY <2>1, <2>2, <2>3, <2>4, <2>5, <2>6, <2>7, ZenonT(30)
<1> QED BY <1>1, <1>2, <1>3, <1>4, Zenon

\* A mined transaction that is tracked on an input of the lock conflicts with it.
LEMMA TrackedConflictsKnown ==
    ASSUME EntriesOK, TrackingConsistent, EntriesMined, NEW l \in Txs,
           NEW t \in TrackedConflicts(l)
    PROVE  t \in Txs /\ t \in Txids(nonLocked[t].mined) /\ l \in Conflicts(t)
<1>1. PICK o \in Inputs[l] : t = byOutpoint[o] /\ t # None /\ t # l
  BY Zenon DEF TrackedConflicts
<1>2. o \in Outpoints
  BY ConstantsTyped, Zenon
<1>3. t \in Txs /\ o \in Inputs[t]
  BY <1>1, <1>2, Zenon DEF EntriesOK, TrackingConsistent
<1>4. nonLocked[t].mined # None
  BY Zenon DEF TrackedConflicts
<1> QED BY <1>1, <1>3, <1>4, Zenon DEF EntriesMined, Conflicts

LEMMA MinedInvWorker ==
    ASSUME PoolInv, TrackInv, MinedInv, WorkThread
    PROVE  MinedInv'
<1> USE DEF TrackInv, MinedInv
<1>1. IndexOK' /\ SchedBlockOK'
  <2>1. txindex' = txindex /\ sched' = sched
    BY Zenon DEF WorkThread, ProcessPendingInstantSendLocks, ProcessInstantSendLock, StoreLock,
           UntrackLocked, ResolveBlockConflicts, InvalidateConflicting, ResolveActivated,
           FinishLock, RetryLockTx
  <2> QED BY <2>1, Zenon DEF IndexOK, SchedBlockOK
<1>2. EntriesMined'
  <2>1. ASSUME NEW S, NEW again, RemoveNonLockedTxs(S, again) PROVE EntriesMined'
    BY <2>1, RemoveKeepsMined, Zenon
  <2>2. CASE UNCHANGED tracked
    BY <2>2, Zenon DEF tracked, EntriesMined
  <2>3. UNCHANGED tracked \/ \E S, again : RemoveNonLockedTxs(S, again)
    BY Zenon DEF WorkThread, ProcessPendingInstantSendLocks, ProcessInstantSendLock, StoreLock,
           UntrackLocked, ResolveBlockConflicts, InvalidateConflicting, ResolveActivated,
           FinishLock, RemoveMempoolConflicts, RetryLockTx
  <2> QED BY <2>1, <2>2, <2>3, Zenon
<1>3. ConflictsKnown'
  <2> USE DEF PoolInv, WorkerOK, WorkerFields
  <2>1. CASE worker' = worker
    BY <2>1, Zenon DEF ConflictsKnown
  <2>2. CASE worker'.conflicts = {}
    BY <2>2, Zenon DEF ConflictsKnown
  <2>3. ASSUME NEW l \in Lockable, ProcessInstantSendLock(l) PROVE ConflictsKnown'
    <3>1. worker'.conflicts = worker.conflicts /\ worker.at = "idle"
      BY <2>3, Zenon DEF ProcessInstantSendLock
    <3> QED BY <3>1, Zenon DEF ConflictsKnown
  <2>4. CASE StoreLock \/ UntrackLocked \/ ResolveActivated
    <3>1. worker'.conflicts \in {worker.conflicts, {}} /\ worker.at # "invalidate"
      BY <2>4, Zenon DEF StoreLock, UntrackLocked, ResolveActivated, WorkerGoto, LockDone, WorkerIdle
    <3> QED BY <3>1, Zenon DEF ConflictsKnown
  <2>5. CASE ResolveBlockConflicts
    <3> DEFINE found == {<<t, nonLocked[t].mined>> : t \in TrackedConflicts(worker.lock)}
    <3>1. worker.lock \in Txs /\ worker.at = "resolve" /\ worker'.lock = worker.lock
      BY <2>5, Zenon DEF ResolveBlockConflicts, WorkerGoto
    <3>2. \/ worker'.conflicts = worker.conflicts
          \/ worker'.conflicts = found /\ (found # {} => worker'.at = "invalidate")
      BY <2>5, ZenonT(30) DEF ResolveBlockConflicts, WorkerGoto
    <3>3. \A c \in found : c[1] \in Txids(c[2]) /\ worker.lock \in Conflicts(c[1])
      BY <3>1, TrackedConflictsKnown
    <3> HIDE DEF found
    <3> QED BY <3>1, <3>2, <3>3, Zenon DEF ConflictsKnown
  <2>6. ASSUME NEW b \in Blocks, InvalidateConflicting(b) PROVE ConflictsKnown'
    <3> DEFINE here == {c \in worker.conflicts : c[2] = b}
    <3>1. /\ worker'.conflicts = worker.conflicts \ here /\ worker'.lock = worker.lock
          /\ worker'.at = IF worker.conflicts = here THEN "activate" ELSE "invalidate"
      BY <2>6, Zenon DEF InvalidateConflicting
    <3>2. worker'.at # "invalidate" => worker'.conflicts = {}
      BY <3>1, Zenon
    <3> QED BY <3>1, <3>2, Zenon DEF ConflictsKnown
  <2>7. CASE ProcessPendingInstantSendLocks \/ FinishLock
    BY <2>2, <2>7, Zenon DEF ProcessPendingInstantSendLocks, FinishLock, LockDone, WorkerIdle
  <2>8. ASSUME NEW t \in Txs, RetryLockTx(t) PROVE ConflictsKnown'
    BY <2>1, <2>8, Zenon DEF RetryLockTx
  <2> QED BY <2>3, <2>4, <2>5, <2>6, <2>7, <2>8, ZenonT(30) DEF WorkThread
<1> QED BY <1>1, <1>2, <1>3, Zenon
-----------------------------------------------------------------------------
(* The queues and the stored locks. *)

LocksOK ==
    /\ pending \subseteq Lockable /\ noTx \subseteq Lockable
    /\ Cardinality(pending) <= MaxPending /\ Cardinality(noTx) <= MaxPending
    /\ islocks \subseteq Lockable /\ archived \subseteq Lockable
    /\ \A m \in mined : m[1] \in Lockable
    /\ worker.batch \subseteq Lockable
    /\ worker.lock \in Lockable \cup {None}

\* A set of locks is finite.
LEMMA LocksFinite ==
    ASSUME NEW S \in SUBSET Lockable
    PROVE  IsFiniteSet(S) /\ Cardinality(S) \in Nat
BY ConstantsTyped, FS_Subset, FS_CardinalityType, Zenon

\* One more lock takes one more place.
LEMMA OneMoreLock ==
    ASSUME NEW S \in SUBSET Lockable, NEW l \in Lockable
    PROVE  Cardinality(S \cup {l}) = IF l \in S THEN Cardinality(S) ELSE Cardinality(S) + 1
BY LocksFinite, FS_AddElement, Zenon

\* A lock the node enqueues itself never makes the queue longer than its bound.
LEMMA EnqueuedOK ==
    ASSUME pending \subseteq Lockable, Cardinality(pending) <= MaxPending,
           NEW l \in Lockable, NEW Q \in Enqueued(l)
    PROVE  Q \subseteq Lockable /\ Cardinality(Q) <= MaxPending
<1>1. Cardinality(pending) \in Nat /\ MaxPending \in Nat
  BY LocksFinite, ConstantsTyped, Zenon
<1>2. CASE l \in pending \/ Cardinality(pending) < MaxPending
  <2>1. Q = pending \cup {l}
    BY <1>2, Zenon DEF Enqueued
  <2> QED BY <1>1, <1>2, <2>1, OneMoreLock
<1>3. CASE l \notin pending /\ ~(Cardinality(pending) < MaxPending)
  <2>1. PICK m \in pending : Q = (pending \ {m}) \cup {l}
    BY <1>3, Zenon DEF Enqueued
  <2> DEFINE R == pending \ {m}
  <2>2. R \in SUBSET Lockable /\ l \notin R
    BY <1>3, Zenon
  <2>3. Cardinality(R) = Cardinality(pending) - 1
    BY LocksFinite, FS_RemoveElement, Zenon
  <2> HIDE DEF R
  <2>4. Cardinality(R \cup {l}) = Cardinality(R) + 1
    BY <2>2, OneMoreLock, Zenon
  <2>5. Q = R \cup {l}
    BY <2>1, Zenon DEF R
  <2> QED BY <1>1, <2>2, <2>3, <2>4, <2>5, SMTT(30)
<1> QED BY <1>2, <1>3, Zenon

\* What is given up was a lock.
LEMMA RemovedLocksOK ==
    ASSUME NEW S \in SUBSET Lockable, islocks \subseteq Lockable, archived \subseteq Lockable,
           RemoveConflictingLocks(S)
    PROVE  islocks' \subseteq Lockable /\ archived' \subseteq Lockable
BY Zenon DEF RemoveConflictingLocks, FamilyIn

\* A waiting lock that moves to the pending queue.
LEMMA MoveNoTxOK ==
    ASSUME LocksOK, NEW t, MoveNoTx(t)
    PROVE  /\ pending' \subseteq Lockable /\ noTx' \subseteq Lockable
           /\ Cardinality(pending') <= MaxPending /\ Cardinality(noTx') <= MaxPending
<1>1. CASE t \in noTx
  <2>1. pending' \in Enqueued(t) /\ noTx' = noTx \ {t} /\ t \in Lockable
    BY <1>1, Zenon DEF MoveNoTx, LocksOK
  <2>2. Cardinality(noTx \ {t}) = Cardinality(noTx) - 1 /\ Cardinality(noTx) \in Nat
    BY <1>1, LocksFinite, FS_RemoveElement, Zenon DEF LocksOK
  <2> QED BY <2>1, <2>2, EnqueuedOK, ConstantsTyped, SMTT(30) DEF LocksOK
<1>2. CASE t \notin noTx
  BY <1>2, Zenon DEF MoveNoTx, LocksOK
<1> QED BY <1>1, <1>2, Zenon

\* A node that starts has no lock.
LEMMA LocksOKInit == Init => LocksOK
<1> SUFFICES ASSUME Init PROVE LocksOK
  BY Zenon
<1>1. Cardinality({}) = 0
  BY FS_EmptySet, Zenon
<1> QED BY <1>1, ConstantsTyped DEF Init, LocksOK, WorkerIdle

LEMMA LocksOKMessages ==
    ASSUME LocksOK,
           \/ \E t \in Txs : ReceiveTx(t)
           \/ \E l \in Lockable : ReceiveLock(l) \/ RecoverLock(l)
           \/ ActivateBestChain
    PROVE  LocksOK'
<1>1. ASSUME NEW t \in Txs, ReceiveTx(t) PROVE LocksOK'
  <2>1. /\ UNCHANGED <<pending, noTx, mined, worker>>
        /\ UNCHANGED <<islocks, archived>> \/ (t \in islocks /\ RemoveConflictingLocks({t}))
    BY <1>1, Zenon DEF ReceiveTx, queues
  <2>2. islocks' \subseteq Lockable /\ archived' \subseteq Lockable
    <3>1. CASE t \in islocks /\ RemoveConflictingLocks({t})
      <4>1. {t} \in SUBSET Lockable
        BY <3>1, Zenon DEF LocksOK
      <4> QED BY <3>1, <4>1, RemovedLocksOK, Zenon DEF LocksOK
    <3> QED BY <2>1, <3>1, Zenon DEF LocksOK
  <2> QED BY <2>1, <2>2, Zenon DEF LocksOK
<1>2. ASSUME NEW l \in Lockable, ReceiveLock(l) PROVE LocksOK'
  <2>1. /\ l \notin pending /\ Cardinality(pending) < MaxPending /\ pending' = pending \cup {l}
        /\ UNCHANGED <<noTx, islocks, archived, mined, worker>>
    BY <1>2, Zenon DEF ReceiveLock, db
  <2>2. Cardinality(pending') <= MaxPending
    BY <2>1, LocksFinite, OneMoreLock, ConstantsTyped, SMTT(30) DEF LocksOK
  <2> QED BY <2>1, <2>2, Zenon DEF LocksOK
<1>3. ASSUME NEW l \in Lockable, RecoverLock(l) PROVE LocksOK'
  <2>1. pending' \in Enqueued(l) /\ UNCHANGED <<noTx, islocks, archived, mined, worker>>
    BY <1>3, Zenon DEF RecoverLock, db
  <2> QED BY <2>1, EnqueuedOK, Zenon DEF LocksOK
<1>4. CASE ActivateBestChain
  <2>1. UNCHANGED <<pending, noTx, mined, worker>>
    BY <1>4, Zenon DEF ActivateBestChain, queues
  <2>2. \E n : RemoveConflictingLocks(UNION {LockConflicts(t) : t \in TxsOf(Path(tip, n))})
    BY <1>4, Zenon DEF ActivateBestChain
  <2>3. PICK n : RemoveConflictingLocks(UNION {LockConflicts(t) : t \in TxsOf(Path(tip, n))})
    BY <2>2, ZenonT(30)
  <2> DEFINE S == UNION {LockConflicts(t) : t \in TxsOf(Path(tip, n))}
  <2>4. S \in SUBSET Lockable /\ RemoveConflictingLocks(S)
    BY <2>3, Zenon DEF LockConflicts, LocksOK
  <2> HIDE DEF S
  <2> QED BY <2>1, <2>4, RemovedLocksOK, Zenon DEF LocksOK
<1> QED BY <1>1, <1>2, <1>3, <1>4, Zenon

LEMMA LocksOKScheduler ==
    ASSUME LocksOK, Scheduler
    PROVE  LocksOK'
<1>1. worker' = worker
  BY Zenon DEF Scheduler, TransactionAddedToMempool, TransactionRemovedFromMempool,
         AddedRemovesConflicts, TrackTx, UnparkLock, BlockConnected, BlockDisconnected,
         NotifyChainLock, BlockConnectedTx, BlockConnectedMarks
<1>2. CASE UNCHANGED <<pending, noTx, islocks, archived, mined>>
  BY <1>1, <1>2, Zenon DEF LocksOK
<1>3. CASE UNCHANGED db /\ \E t : MoveNoTx(t)
  <2>1. UNCHANGED <<islocks, archived, mined>>
    BY <1>3, Zenon DEF db
  <2> QED BY <1>1, <1>3, <2>1, MoveNoTxOK, Zenon DEF LocksOK
<1>4. ASSUME NEW t \in Txs, TransactionRemovedFromMempool(t) PROVE LocksOK'
  <2>1. /\ UNCHANGED <<pending, noTx, mined>>
        /\ UNCHANGED <<islocks, archived>> \/ (t \in islocks /\ RemoveConflictingLocks({t}))
    BY <1>4, Zenon DEF TransactionRemovedFromMempool, queues
  <2>2. islocks' \subseteq Lockable /\ archived' \subseteq Lockable
    <3>1. CASE t \in islocks /\ RemoveConflictingLocks({t})
      <4>1. {t} \in SUBSET Lockable
        BY <3>1, Zenon DEF LocksOK
      <4> QED BY <3>1, <4>1, RemovedLocksOK, Zenon DEF LocksOK
    <3> QED BY <2>1, <3>1, Zenon DEF LocksOK
  <2> QED BY <1>1, <2>1, <2>2, Zenon DEF LocksOK
<1>5. ASSUME NEW b \in Blocks, NotifyChainLock(b) PROVE LocksOK'
  <2> DEFINE done == {m \in mined : m[2] <= Height(b)}
  <2>1. /\ UNCHANGED <<pending, noTx>>
        /\ islocks' \subseteq islocks /\ mined' \subseteq mined
        /\ archived' \subseteq archived \cup {m[1] : m \in done}
    BY <1>5, Zenon DEF NotifyChainLock, queues
  <2>2. {m[1] : m \in done} \subseteq Lockable
    BY Zenon DEF LocksOK
  <2> HIDE DEF done
  <2> QED BY <1>1, <2>1, <2>2, Zenon DEF LocksOK
<1>6. CASE BlockConnectedMarks
  <2>1. /\ UNCHANGED <<pending, noTx, islocks, archived>>
        /\ mined' = mined \cup {<<l, Height(sched.block)>> : l \in islocks \cap Txids(sched.block)}
    BY <1>6, Zenon DEF BlockConnectedMarks, queues
  <2>2. \A m \in mined' : m[1] \in Lockable
    BY <2>1 DEF LocksOK
  <2> QED BY <1>1, <2>1, <2>2, Zenon DEF LocksOK
<1>7. ASSUME NEW b \in Blocks, BlockDisconnected(b) PROVE LocksOK'
  <2>1. UNCHANGED <<pending, noTx, islocks, archived>> /\ mined' \subseteq mined
    BY <1>7, Zenon DEF BlockDisconnected, queues
  <2> QED BY <1>1, <2>1, Zenon DEF LocksOK
<1>8. \/ UNCHANGED <<pending, noTx, islocks, archived, mined>>
      \/ UNCHANGED db /\ \E t : MoveNoTx(t)
      \/ \E t \in Txs : TransactionRemovedFromMempool(t)
      \/ \E b \in Blocks : NotifyChainLock(b) \/ BlockDisconnected(b)
      \/ BlockConnectedMarks
  BY Zenon DEF Scheduler, TransactionAddedToMempool, AddedRemovesConflicts, TrackTx,
         UnparkLock, BlockConnected, BlockConnectedTx, queues, db
<1> QED BY <1>2, <1>3, <1>4, <1>5, <1>6, <1>7, <1>8, ZenonT(30)

LEMMA LocksOKWorker ==
    ASSUME PoolInv, LocksOK, WorkThread
    PROVE  LocksOK'
<1> USE DEF PoolInv, WorkerOK, WorkerFields
<1>1. CASE ProcessPendingInstantSendLocks
  <2>1. /\ UNCHANGED <<noTx, islocks, archived, mined>> /\ pending' = {}
        /\ worker'.batch = pending /\ worker'.lock = None
    BY <1>1, Zenon DEF ProcessPendingInstantSendLocks, db, WorkerIdle
  <2> QED BY <2>1, FS_EmptySet, ConstantsTyped DEF LocksOK
<1>2. ASSUME NEW l \in Lockable, ProcessInstantSendLock(l) PROVE LocksOK'
  <2>1. UNCHANGED <<pending, noTx, islocks, archived, mined>>
    BY <1>2, Zenon DEF ProcessInstantSendLock, queues, db
  <2>2. worker'.batch = worker.batch \ {l} /\ worker'.lock \in {worker.lock, l}
    BY <1>2, Zenon DEF ProcessInstantSendLock
  <2> QED BY <2>1, <2>2, Zenon DEF LocksOK
<1>3. CASE StoreLock
  <2>1. worker.at = "store" /\ worker.lock \in Lockable
    BY <1>3, ConstantsTyped, Zenon DEF StoreLock, LocksOK
  <2>2. UNCHANGED <<pending, archived>>
    BY <1>3, Zenon DEF StoreLock
  <2>3. /\ islocks' \subseteq islocks \cup {worker.lock}
        /\ \A m \in mined' : m \in mined \/ m[1] = worker.lock
        /\ noTx' = noTx \/ (noTx' = noTx \cup {worker.lock} /\ Cardinality(noTx) < MaxPending)
    BY <1>3 DEF StoreLock
  <2>4. worker'.batch = worker.batch /\ worker'.lock \in {worker.lock, None}
    BY <1>3, Zenon DEF StoreLock, LockDone, WorkerGoto, WorkerIdle
  <2>5. noTx' \subseteq Lockable /\ Cardinality(noTx') <= MaxPending
    <3>1. noTx \in SUBSET Lockable /\ Cardinality(noTx) \in Nat /\ MaxPending \in Nat
      BY LocksFinite, ConstantsTyped, Zenon DEF LocksOK
    <3>2. Cardinality(noTx \cup {worker.lock}) \in {Cardinality(noTx), Cardinality(noTx) + 1}
      BY <2>1, <3>1, OneMoreLock, Zenon
    <3>3. CASE noTx' = noTx
      BY <3>3, Zenon DEF LocksOK
    <3>4. CASE noTx' = noTx \cup {worker.lock} /\ Cardinality(noTx) < MaxPending
      BY <2>1, <3>1, <3>2, <3>4, SMTT(30)
    <3> QED BY <2>3, <3>3, <3>4, Zenon
  <2> QED BY <2>1, <2>2, <2>3, <2>4, <2>5, ZenonT(30) DEF LocksOK
<1>4. CASE ResolveBlockConflicts
  <2>1. worker.lock \in Lockable
    BY <1>4, ConstantsTyped, Zenon DEF ResolveBlockConflicts, LocksOK
  <2>2. /\ UNCHANGED <<pending, noTx, mined>>
        /\ worker'.batch = worker.batch /\ worker'.lock = worker.lock
    BY <1>4, Zenon DEF ResolveBlockConflicts, queues, WorkerGoto
  <2>3. UNCHANGED <<islocks, archived>> \/ RemoveConflictingLocks({worker.lock})
    BY <1>4, Zenon DEF ResolveBlockConflicts
  <2> DEFINE S == {worker.lock}
  <2>4. S \in SUBSET Lockable
    BY <2>1, Zenon
  <2> HIDE DEF S
  <2>5. islocks' \subseteq Lockable /\ archived' \subseteq Lockable
    <3>1. CASE RemoveConflictingLocks({worker.lock})
      <4>1. RemoveConflictingLocks(S)
        BY <3>1, Zenon DEF S
      <4> QED BY <2>4, <4>1, RemovedLocksOK, Zenon DEF LocksOK
    <3> QED BY <2>3, <3>1, Zenon DEF LocksOK
  <2> QED BY <2>2, <2>5, Zenon DEF LocksOK
<1>5. CASE /\ UNCHANGED <<pending, noTx, islocks, archived, mined>>
           /\ worker'.batch = worker.batch /\ worker'.lock \in {worker.lock, None}
  BY <1>5, Zenon DEF LocksOK
<1>6. ASSUME NEW b \in Blocks, InvalidateConflicting(b) PROVE LocksOK'
  <2>1. /\ UNCHANGED <<pending, noTx, islocks, archived, mined>>
        /\ worker'.batch = worker.batch /\ worker'.lock = worker.lock
    BY <1>6, Zenon DEF InvalidateConflicting, queues, db
  <2> QED BY <1>5, <2>1, Zenon
<1>7. CASE UntrackLocked \/ ResolveActivated
  <2>1. /\ UNCHANGED <<pending, noTx, islocks, archived, mined>>
        /\ worker'.batch = worker.batch /\ worker'.lock = worker.lock
    BY <1>7, Zenon DEF UntrackLocked, ResolveActivated, WorkerGoto, queues, db
  <2> QED BY <1>5, <2>1, Zenon
<1>8. CASE FinishLock
  <2>1. /\ UNCHANGED <<pending, noTx, islocks, archived, mined>>
        /\ worker'.batch = worker.batch /\ worker'.lock = None
    BY <1>8, Zenon DEF FinishLock, LockDone, WorkerIdle, queues, db
  <2> QED BY <1>5, <2>1, Zenon
<1>9. ASSUME NEW t \in Txs, RetryLockTx(t) PROVE LocksOK'
  BY <1>5, <1>9, Zenon DEF RetryLockTx, queues, db
<1> QED BY <1>1, <1>2, <1>3, <1>4, <1>6, <1>7, <1>8, <1>9, ZenonT(30) DEF WorkThread
-----------------------------------------------------------------------------
(* The chain state. *)

\* The stored blocks are connected, and no block of the active chain is failed.
ChainOK ==
    /\ data \subseteq Blocks /\ failed \subseteq data
    /\ \A b \in data : Chain[b] \subseteq data
    /\ tip \in data /\ Chain[tip] \cap failed = {}
    /\ clsig \in Final \cup {None}

\* A round of ActivateBestChain ends on a usable chain, or below its first block
\* that is refused.
LEMMA ActivateFacts ==
    ASSUME ChainOK, ActivateBestChain
    PROVE  \E m \in data :
              LET R == {b \in Path(tip, m) : Refused(b)}
              IN  /\ Chain[m] \cap failed = {}
                  /\ tip' = IF R = {} THEN m ELSE Parent[Lowest(R)]
                  /\ failed' = IF R = {} THEN failed
                               ELSE failed \cup {b \in data : Lowest(R) \in Chain[b]}
<1> DEFINE usable == {b \in data : Path(tip, b) \cap (failed \cup (Blocks \ data)) = {}}
           most == MostWork(usable)
<1>1. PICK m \in IF tip \in most THEN {tip} ELSE most :
          LET R == {b \in Path(tip, m) : Refused(b)}
              n == IF R = {} THEN m ELSE Parent[Lowest(R)]
          IN  /\ MoveTip(n, islocks')
              /\ failed' = IF R = {} THEN failed
                           ELSE failed \cup {b \in data : Lowest(R) \in Chain[b]}
  BY ZenonT(30) DEF ActivateBestChain
<1>2. m \in usable \/ m = tip
  <2>1. most \subseteq usable
    BY Zenon DEF MostWork
  <2> QED BY <1>1, <2>1, Zenon
<1> HIDE DEF most
<1>3. m \in data /\ Chain[m] \cap failed = {}
  BY <1>2, Zenon DEF ChainOK, Path
<1>4. LET R == {b \in Path(tip, m) : Refused(b)}
      IN  /\ tip' = IF R = {} THEN m ELSE Parent[Lowest(R)]
          /\ failed' = IF R = {} THEN failed
                       ELSE failed \cup {b \in data : Lowest(R) \in Chain[b]}
  BY <1>1, Zenon DEF MoveTip
<1> QED BY <1>3, <1>4, Zenon

\* Blocks above b are not below its parent.
LEMMA ParentBelow ==
    ASSUME NEW b \in Blocks, b # Genesis, NEW c \in Chain[Parent[b]]
    PROVE  Parent[b] \in Blocks /\ c \in Blocks /\ b \notin Chain[c]
<1>1. Parent[b] \in Blocks
  BY TreeAssumption, Zenon
<1>2. c \in Blocks /\ Chain[c] \subseteq Chain[Parent[b]]
  BY <1>1, ChainTransitive, Zenon
<1> QED BY <1>1, <1>2, TreeAssumption, Zenon

\* A node that starts has the genesis block.
LEMMA ChainOKInit == Init => ChainOK
BY ChainOfGenesis, TreeAssumption, Zenon DEF Init, ChainOK

LEMMA ChainOKStep ==
    ASSUME MinedInv, ChainOK, [Next]_vars
    PROVE  ChainOK'
<1>1. CASE UNCHANGED <<data, failed, tip, clsig>>
  BY <1>1, Zenon DEF ChainOK
<1>2. ASSUME NEW b \in Blocks \ {Genesis}, ReceiveBlock(b) PROVE ChainOK'
  <2>1. /\ data' = data \cup {b} /\ Parent[b] \in data /\ b \notin data
        /\ UNCHANGED <<failed, tip, clsig>>
    BY <1>2, Zenon DEF ReceiveBlock
  <2>2. Chain[b] \subseteq data'
    BY <2>1, ChainOfParent, Zenon DEF ChainOK
  <2> QED BY <2>1, <2>2, Zenon DEF ChainOK
<1>3. ASSUME NEW b \in Final, ChainLock(b) PROVE ChainOK'
  BY <1>3, Zenon DEF ChainLock, ChainOK
<1>4. CASE EnforceChainLock
  <2> DEFINE S == Chain[tip] \cap Chain[clsig]
             n == Highest(S)
  <2>1. clsig # None /\ clsig \in Blocks /\ tip \in Blocks
    BY <1>4, ConstantsTyped, Zenon DEF EnforceChainLock, ChainOK
  <2>2. S \in SUBSET Chain[tip] /\ S # {}
    BY <2>1, TreeAssumption, Zenon
  <2>3. n \in S
    <3> HIDE DEF S
    <3> QED BY <2>1, <2>2, HighestIn, Zenon
  <2>4. /\ tip' = n /\ UNCHANGED <<data, clsig>>
        /\ failed' \subseteq failed \cup {b \in data : b \notin Chain[clsig]}
        /\ failed' \subseteq data
    BY <1>4, Zenon DEF EnforceChainLock, MoveTip, ChainOK
  <2>5. Chain[n] \subseteq Chain[tip] /\ Chain[n] \subseteq Chain[clsig] /\ n \in Chain[tip]
    BY <2>1, <2>3, ChainTransitive, Zenon
  <2> HIDE DEF n
  <2> QED BY <2>4, <2>5, Zenon DEF ChainOK
<1>5. CASE ActivateBestChain
  <2>1. PICK m \in data :
              LET R == {b \in Path(tip, m) : Refused(b)}
              IN  /\ Chain[m] \cap failed = {}
                  /\ tip' = IF R = {} THEN m ELSE Parent[Lowest(R)]
                  /\ failed' = IF R = {} THEN failed
                               ELSE failed \cup {b \in data : Lowest(R) \in Chain[b]}
    BY <1>5, ActivateFacts, Zenon
  <2> DEFINE R == {b \in Path(tip, m) : Refused(b)}
  <2>2. UNCHANGED <<data, clsig>> /\ m \in Blocks /\ tip \in Blocks
    BY <1>5, Zenon DEF ActivateBestChain, ChainOK
  <2>3. R \in SUBSET Blocks /\ R \subseteq Chain[m] \ Chain[tip]
    BY <2>2, ChainSelf, Zenon DEF Path
  <2>4. CASE R = {}
    BY <2>1, <2>2, <2>4, Zenon DEF ChainOK
  <2>5. CASE R # {}
    <3> DEFINE v == Lowest(R)
    <3>1. v \in R
      <4> HIDE DEF R
      <4> QED BY <2>3, <2>5, LowestIn, Zenon
    <3>2. v \in Blocks /\ v # Genesis /\ v \in Chain[m]
      BY <2>2, <2>3, <3>1, TreeAssumption, Zenon
    <3>3. tip' = Parent[v] /\ failed' = failed \cup {b \in data : v \in Chain[b]}
      BY <2>1, <2>5, Zenon
    <3> HIDE DEF v
    <3>4. Parent[v] \in Chain[m] /\ Chain[Parent[v]] \subseteq Chain[m]
      BY <2>2, <3>2, ChainClosed, ChainTransitive, Zenon
    <3>5. \A c \in Chain[Parent[v]] : v \notin Chain[c]
      BY <3>2, ParentBelow, Zenon
    <3> QED BY <2>1, <2>2, <3>3, <3>4, <3>5, ZenonT(30) DEF ChainOK
  <2> QED BY <2>4, <2>5, Zenon
<1>6. ASSUME NEW b \in Blocks, InvalidateConflicting(b) PROVE ChainOK'
  <2>1. PICK c \in worker.conflicts : c[2] = b
    BY <1>6, Zenon DEF InvalidateConflicting
  <2>2. b # Genesis
    BY <2>1, ChainsConsistent, Zenon DEF MinedInv, ConflictsKnown
  <2>3. /\ UNCHANGED <<data, clsig>>
        /\ tip' = IF b \in Chain[tip] THEN Parent[b] ELSE tip
        /\ failed' \subseteq failed \cup {x \in data : b \in Chain[x] /\ (x = b \/ x \in Chain[tip])}
    BY <1>6, ZenonT(30) DEF InvalidateConflicting, InvalidateBlock, MoveTip
  <2>4. tip \in Blocks
    BY Zenon DEF ChainOK
  <2>5. CASE b \in Chain[tip]
    <3>1. Parent[b] \in Chain[tip] /\ Chain[Parent[b]] \subseteq Chain[tip]
      BY <2>2, <2>4, <2>5, ChainClosed, ChainTransitive, Zenon
    <3>2. \A x \in Chain[Parent[b]] : b \notin Chain[x]
      BY <2>2, ParentBelow, Zenon
    <3> QED BY <2>3, <2>5, <3>1, <3>2, Zenon DEF ChainOK
  <2>6. CASE b \notin Chain[tip]
    <3>1. \A x \in Chain[tip] : b \notin Chain[x]
      BY <2>4, <2>6, ChainTransitive, Zenon
    <3> QED BY <2>3, <2>6, <3>1, Zenon DEF ChainOK
  <2> QED BY <2>5, <2>6, Zenon
<1>7. \/ UNCHANGED <<data, failed, tip, clsig>>
      \/ \E b \in Blocks \ {Genesis} : ReceiveBlock(b)
      \/ \E b \in Final : ChainLock(b)
      \/ EnforceChainLock \/ ActivateBestChain
      \/ \E b \in Blocks : InvalidateConflicting(b)
  <2>1. CASE Scheduler
    BY <2>1, Zenon DEF Scheduler, TransactionAddedToMempool, TransactionRemovedFromMempool,
           AddedRemovesConflicts, TrackTx, UnparkLock, BlockConnected, BlockDisconnected,
           NotifyChainLock, BlockConnectedTx, BlockConnectedMarks, chain
  <2>2. CASE WorkThread
    BY <2>2, Zenon DEF WorkThread, ProcessPendingInstantSendLocks, ProcessInstantSendLock,
           StoreLock, UntrackLocked, ResolveBlockConflicts, ResolveActivated, FinishLock,
           RetryLockTx, chain
  <2>3. CASE ~Scheduler /\ ~WorkThread
    BY <2>3, Zenon DEF Next, vars, chain, ReceiveTx, ReceiveLock, RecoverLock, AnnounceChainLock
  <2> QED BY <2>1, <2>2, <2>3, Zenon
<1> QED BY <1>1, <1>2, <1>3, <1>4, <1>5, <1>6, <1>7, ZenonT(30)

\* The invariants together.
NodeInv == PoolInv /\ TrackInv /\ MinedInv /\ LocksOK /\ ChainOK

LEMMA NodeInvStep == NodeInv /\ [Next]_vars => NodeInv'
<1> SUFFICES ASSUME NodeInv, [Next]_vars PROVE NodeInv'
  BY Zenon
<1> USE DEF NodeInv
<1>1. PoolInv' /\ TrackInv'
  BY TrackInvStep, Zenon
<1>2. ChainOK'
  BY ChainOKStep, Zenon
<1>3. MinedInv'
  <2>1. CASE Scheduler
    BY <2>1, MinedInvScheduler, Zenon
  <2>2. CASE WorkThread
    BY <2>2, MinedInvWorker, Zenon
  <2>3. CASE UNCHANGED <<tracked, txindex, sched, worker>>
    BY <2>3, Zenon DEF tracked, MinedInv, IndexOK, EntriesMined, SchedBlockOK, ConflictsKnown
  <2>4. Scheduler \/ WorkThread \/ UNCHANGED <<tracked, txindex, sched, worker>>
    BY Zenon DEF Next, vars, tracked, ReceiveTx, ReceiveBlock, ReceiveLock, RecoverLock, ChainLock,
           EnforceChainLock, AnnounceChainLock, ActivateBestChain
  <2> QED BY <2>1, <2>2, <2>3, <2>4, Zenon
<1>4. LocksOK'
  <2>1. CASE Scheduler \/ WorkThread
    BY <2>1, LocksOKScheduler, LocksOKWorker, Zenon
  <2>2. CASE UNCHANGED <<pending, noTx, islocks, archived, mined, worker>>
    BY <2>2, Zenon DEF LocksOK
  <2>3. CASE \/ \E t \in Txs : ReceiveTx(t)
             \/ \E l \in Lockable : ReceiveLock(l) \/ RecoverLock(l)
             \/ ActivateBestChain
    BY <2>3, LocksOKMessages, Zenon
  <2>4. \/ Scheduler \/ WorkThread
        \/ UNCHANGED <<pending, noTx, islocks, archived, mined, worker>>
        \/ \E t \in Txs : ReceiveTx(t)
        \/ \E l \in Lockable : ReceiveLock(l) \/ RecoverLock(l)
        \/ ActivateBestChain
    BY Zenon DEF Next, vars, queues, db, ReceiveBlock, ChainLock, EnforceChainLock, AnnounceChainLock
  <2> QED BY <2>1, <2>2, <2>3, <2>4, Zenon
<1> QED BY <1>1, <1>2, <1>3, <1>4, Zenon

LEMMA NodeInvInit == Init => NodeInv
BY PoolInvInit, TrackInvInit, MinedInvInit, LocksOKInit, ChainOKInit, Zenon DEF NodeInv

\* The queues never exceed MAX_PENDING_INSTANTSEND_LOCKS, locks that are stored,
\* archived or waiting are ones a quorum made, and the active tip is a stored
\* block that no thread has marked as failed: InvalidateBlock on the work thread
\* and ActivateBestChain on the others leave no failed block in the active chain.
THEOREM TypeCorrect == Spec => []TypeOK
<1>1. NodeInv => TypeOK
  <2> SUFFICES ASSUME NodeInv PROVE TypeOK
    BY Zenon
  <2>1. tip \in data \ failed
    BY ChainSelf, Zenon DEF NodeInv, ChainOK
  <2>2. retry \subseteq Txs /\ mempool \subseteq Txs
    BY Zenon DEF NodeInv, TrackInv, TrackingConsistent, PoolInv
  <2> QED BY <2>1, <2>2, Zenon DEF NodeInv, ChainOK, LocksOK, TypeOK
<1> QED BY <1>1, NodeInvInit, NodeInvStep, PTL DEF Spec
-----------------------------------------------------------------------------
(* The failed blocks. *)

\* The cause of a failed block b: the chain lock l, or a lock of S.
HasCause(b, l, S) ==
    \E k \in Chain[b] :
        \/ l # None /\ Height(k) <= Height(l) /\ k \notin Chain[l]
        \/ \E t \in Txids(k) : Conflicts(t) \cap S # {}

\* Where a lock is kept when the work thread is not on it.
Stored == islocks \cup archived \cup pending \cup noTx \cup worker.batch

Seen == Stored \cup {worker.lock}

\* Past StoreLock the work thread's lock is kept somewhere, so that nothing is
\* lost when it is done with it.
HandInv == worker.at \notin {"idle", "store"} => worker.lock \in Stored

\* Both queues have room for every lock there is.
RoomForAll == Cardinality(Lockable) <= MaxPending

\* More locks are more causes.
LEMMA CauseGrows ==
    ASSUME NEW b, NEW l, NEW S, NEW T, S \ {None} \subseteq T, HasCause(b, l, S)
    PROVE  HasCause(b, l, T)
<1>1. \A t : None \notin Conflicts(t)
  BY ConstantsTyped, Zenon DEF Conflicts
<1> QED BY <1>1, Zenon DEF HasCause

\* A block beside the locked branch has a block as low as the lock beside it.
LEMMA OffBranch ==
    ASSUME NEW l \in Blocks, NEW b \in Blocks, b \notin Chain[l], l \notin Chain[b]
    PROVE  \E k \in Chain[b] : Height(k) <= Height(l) /\ k \notin Chain[l]
<1>1. Height(l) \in Nat /\ Height(b) \in Nat
  BY HeightType, Zenon
<1>2. CASE Height(b) <= Height(l)
  BY <1>2, ChainSelf, Zenon
<1>3. CASE Height(l) < Height(b)
  <2>1. PICK a \in Chain[b] : Height(a) = Height(l)
    BY <1>1, <1>3, ChainHasHeight
  <2>2. a \notin Chain[l]
    <3> SUFFICES ASSUME a \in Chain[l] PROVE FALSE
      BY Zenon
    <3>1. a = l
      BY <2>1, ChainSelf, SameHeight, Zenon
    <3> QED BY <2>1, <3>1, Zenon
  <2> QED BY <1>1, <2>1, <2>2
<1> QED BY <1>1, <1>2, <1>3

\* A chain lock further up the branch is beside the same blocks.
LEMMA CauseRises ==
    ASSUME NEW b \in Blocks, NEW l \in Blocks \cup {None}, NEW m \in Blocks,
           l # None => l \in Chain[m], NEW S, HasCause(b, l, S)
    PROVE  HasCause(b, m, S)
<1>1. PICK k \in Chain[b] :
        \/ l # None /\ Height(k) <= Height(l) /\ k \notin Chain[l]
        \/ \E t \in Txids(k) : Conflicts(t) \cap S # {}
  BY Zenon DEF HasCause
<1>2. CASE l # None /\ Height(k) <= Height(l) /\ k \notin Chain[l]
  <2>1. /\ k \in Blocks /\ l \in Blocks /\ Height(l) <= Height(m)
        /\ Height(k) \in Nat /\ Height(l) \in Nat /\ Height(m) \in Nat
    BY <1>2, ChainSelf, HeightOfAncestor, HeightType, Zenon
  <2>2. k \notin Chain[m]
    BY <1>2, LowerIsAncestor, Zenon
  <2>3. m # None /\ Height(k) <= Height(m)
    BY <1>2, <2>1, ConstantsTyped
  <2> QED BY <1>1, <2>2, <2>3, Zenon DEF HasCause
<1>3. CASE \E t \in Txids(k) : Conflicts(t) \cap S # {}
  BY <1>1, <1>3, Zenon DEF HasCause
<1> QED BY <1>1, <1>2, <1>3, Zenon

\* A lock is dropped when its transaction is mined under the chain lock; what
\* conflicts with it is then beside the chain lock.
LEMMA MinedInstead ==
    ASSUME NEW b \in Blocks, NEW m \in Blocks, NEW S, NEW T, HasCause(b, m, S),
           \A l \in S \ {None} : l \in T \/ \E c \in Chain[m] : l \in Txids(c)
    PROVE  HasCause(b, m, T)
<1>1. PICK k \in Chain[b] :
        \/ m # None /\ Height(k) <= Height(m) /\ k \notin Chain[m]
        \/ \E t \in Txids(k) : Conflicts(t) \cap S # {}
  BY Zenon DEF HasCause
<1>2. CASE m # None /\ Height(k) <= Height(m) /\ k \notin Chain[m]
  BY <1>1, <1>2, Zenon DEF HasCause
<1>3. ASSUME NEW t \in Txids(k), Conflicts(t) \cap S # {} PROVE HasCause(b, m, T)
  <2>1. PICK l \in S : l \in Conflicts(t) /\ l # None
    BY <1>3, ConstantsTyped, Zenon DEF Conflicts
  <2>2. CASE l \in T
    BY <1>1, <2>1, <2>2, Zenon DEF HasCause
  <2>3. ASSUME NEW c \in Chain[m], l \in Txids(c) PROVE HasCause(b, m, T)
    <3>1. k \in Blocks /\ Chain[k] \subseteq Chain[b]
      BY <1>1, ChainTransitive, Zenon
    <3>2. k \notin Chain[m]
      BY <2>1, <2>3, ChainsConsistent, Zenon
    <3>3. m \notin Chain[k]
      <4> SUFFICES ASSUME m \in Chain[k] PROVE FALSE
        BY Zenon
      <4>1. c \in Chain[k] /\ k \in Chain[k]
        BY <3>1, ChainTransitive, ChainSelf, Zenon
      <4> QED BY <2>1, <2>3, <3>1, <4>1, ChainsConsistent, Zenon
    <3>4. PICK x \in Chain[k] : Height(x) <= Height(m) /\ x \notin Chain[m]
      BY <3>1, <3>2, <3>3, OffBranch, Zenon
    <3>5. m # None
      BY ConstantsTyped, Zenon
    <3> QED BY <3>1, <3>4, <3>5, Zenon DEF HasCause
  <2> QED BY <2>1, <2>2, <2>3, Zenon
<1> QED BY <1>1, <1>2, <1>3, Zenon

\* With room for all, the queue displaces nothing.
LEMMA NothingDisplaced ==
    ASSUME RoomForAll, NEW S \in SUBSET Lockable, NEW l \in Lockable, l \notin S
    PROVE  Cardinality(S) < MaxPending
<1>1. IsFiniteSet(Lockable) /\ Cardinality(Lockable) \in Nat /\ Cardinality(S) \in Nat
      /\ MaxPending \in Nat
  BY LocksFinite, ConstantsTyped, Zenon
<1>2. Cardinality(S \cup {l}) = Cardinality(S) + 1
  BY OneMoreLock, Zenon
<1>3. S \cup {l} \in SUBSET Lockable
  BY Zenon
<1>4. Cardinality(S \cup {l}) <= Cardinality(Lockable)
  BY <1>1, <1>3, FS_Subset, Zenon
<1> QED BY <1>1, <1>2, <1>4 DEF RoomForAll

LEMMA EnqueuedAll ==
    ASSUME RoomForAll, pending \subseteq Lockable, NEW l \in Lockable, NEW Q \in Enqueued(l)
    PROVE  Q = pending \cup {l}
BY NothingDisplaced, Zenon DEF Enqueued

\* A lock that is given up stays known.
LEMMA RemovedStayKnown ==
    ASSUME NEW S, RemoveConflictingLocks(S)
    PROVE  islocks \cup archived \subseteq islocks' \cup archived'
BY Zenon DEF RemoveConflictingLocks, FamilyIn

\* The other threads move locks between the queues and the stores.
LEMMA StoredGrows ==
    ASSUME RoomForAll, LocksOK, Next, ~WorkThread
    PROVE  worker' = worker /\ Stored \subseteq Stored'
<1>1. worker' = worker
  BY Zenon DEF Next, Scheduler, TransactionAddedToMempool, TransactionRemovedFromMempool,
         AddedRemovesConflicts, TrackTx, UnparkLock, BlockConnected, BlockDisconnected,
         NotifyChainLock, BlockConnectedTx, BlockConnectedMarks, ReceiveTx, ReceiveBlock,
         ReceiveLock, RecoverLock, ChainLock, EnforceChainLock, AnnounceChainLock,
         ActivateBestChain
<1>2. CASE UNCHANGED <<pending, noTx, islocks, archived>>
  BY <1>1, <1>2, Zenon DEF Stored
<1>3. CASE UNCHANGED <<pending, noTx>> /\ \E S : RemoveConflictingLocks(S)
  BY <1>1, <1>3, RemovedStayKnown, Zenon DEF Stored
<1>4. CASE UNCHANGED <<islocks, archived>> /\ \E t : MoveNoTx(t)
  <2>1. PICK t : MoveNoTx(t)
    BY <1>4, Zenon
  <2>2. CASE t \in noTx
    <3>1. pending' = pending \cup {t} /\ noTx' = noTx \ {t}
      BY <2>1, <2>2, EnqueuedAll, Zenon DEF MoveNoTx, LocksOK
    <3> QED BY <1>1, <1>4, <3>1, Zenon DEF Stored
  <2>3. CASE t \notin noTx
    BY <1>1, <1>4, <2>1, <2>3, Zenon DEF MoveNoTx, Stored
  <2> QED BY <2>2, <2>3, Zenon
<1>5. ASSUME NEW l \in Lockable, ReceiveLock(l) PROVE Stored \subseteq Stored'
  BY <1>1, <1>5, Zenon DEF ReceiveLock, db, Stored
<1>6. ASSUME NEW l \in Lockable, RecoverLock(l) PROVE Stored \subseteq Stored'
  <2>1. pending' \in Enqueued(l) /\ UNCHANGED <<noTx, islocks, archived>>
    BY <1>6, Zenon DEF RecoverLock, db
  <2>2. pending' = pending \cup {l}
    BY <2>1, EnqueuedAll, Zenon DEF LocksOK
  <2> QED BY <1>1, <2>1, <2>2, Zenon DEF Stored
<1>7. ASSUME NEW b \in Blocks, NotifyChainLock(b) PROVE Stored \subseteq Stored'
  <2> DEFINE names == {m[1] : m \in {x \in mined : x[2] <= Height(b)}}
  <2>1. /\ UNCHANGED <<pending, noTx>>
        /\ \/ UNCHANGED <<islocks, archived>>
           \/ archived' = archived \cup names /\ islocks' \in {islocks, islocks \ names}
    BY <1>7, Zenon DEF NotifyChainLock, queues
  <2> HIDE DEF names
  <2> QED BY <1>1, <2>1, Zenon DEF Stored
<1>8. \/ UNCHANGED <<pending, noTx, islocks, archived>>
      \/ UNCHANGED <<pending, noTx>> /\ \E S : RemoveConflictingLocks(S)
      \/ UNCHANGED <<islocks, archived>> /\ \E t : MoveNoTx(t)
      \/ \E l \in Lockable : ReceiveLock(l) \/ RecoverLock(l)
      \/ \E b \in Blocks : NotifyChainLock(b)
  <2>1. CASE Scheduler
    BY <2>1, Zenon DEF Scheduler, TransactionAddedToMempool, TransactionRemovedFromMempool,
           AddedRemovesConflicts, TrackTx, UnparkLock, BlockConnected, BlockDisconnected,
           BlockConnectedTx, BlockConnectedMarks, queues, db
  <2>2. CASE ~Scheduler
    BY <2>2, Zenon DEF Next, ReceiveTx, ReceiveBlock, ChainLock, EnforceChainLock,
           AnnounceChainLock, ActivateBestChain, queues, db
  <2> QED BY <2>1, <2>2, Zenon
<1> QED BY <1>1, <1>2, <1>3, <1>4, <1>5, <1>6, <1>7, <1>8, ZenonT(30)

\* The work thread lets go of a lock only when it is kept elsewhere or its
\* transaction is mined under the chain lock.
LEMMA WorkerKeepsSeen ==
    ASSUME RoomForAll, PoolInv, LocksOK, IndexOK, HandInv, WorkThread
    PROVE  /\ HandInv'
           /\ \A l \in Seen \ {None} :
                 l \in Seen' \/ (clsig # None /\ \E c \in Chain[clsig] : l \in Txids(c))
<1> DEFINE Dropped(l) == clsig # None /\ \E c \in Chain[clsig] : l \in Txids(c)
           Goal == HandInv' /\ \A l \in Seen \ {None} : l \in Seen' \/ Dropped(l)
<1> SUFFICES Goal
  BY Zenon
<1> USE DEF PoolInv, WorkerOK, WorkerFields, WorkerSteps
<1>1. CASE ProcessPendingInstantSendLocks
  <2>1. /\ UNCHANGED <<noTx, islocks, archived>> /\ pending' = {} /\ worker.lock = None
        /\ worker'.batch = pending /\ worker'.at = "idle" /\ worker.batch = {}
    BY <1>1, Zenon DEF ProcessPendingInstantSendLocks, db, WorkerIdle
  <2> QED BY <2>1, Zenon DEF Seen, Stored, HandInv
<1>2. ASSUME NEW l \in Lockable, ProcessInstantSendLock(l) PROVE Goal
  <2>1. UNCHANGED <<pending, noTx, islocks, archived>> /\ worker.at = "idle" /\ worker.lock = None
    BY <1>2, Zenon DEF ProcessInstantSendLock, queues, db
  <2>2. worker'.batch = worker.batch \ {l}
    BY <1>2, ZenonT(30) DEF ProcessInstantSendLock
  <2>3. \/ worker'.at = "store" /\ worker'.lock = l
        \/ worker'.at = "idle" /\ (KnownInstantSendLock(l) \/ Dropped(l))
    <3> DEFINE in == IF l \in mempool THEN None ELSE txindex[l]
    <3>1. in # None /\ HasChainLock(in) => Dropped(l)
      <4> SUFFICES ASSUME in # None, HasChainLock(in) PROVE Dropped(l)
        BY Zenon
      <4>1. in = txindex[l] /\ l \in Txs
        BY ConstantsTyped, Zenon
      <4> QED BY <4>1, ZenonT(30) DEF HasChainLock, IndexOK
    <3>2. CASE KnownInstantSendLock(l) \/ (in # None /\ HasChainLock(in))
      <4>1. worker' = [worker EXCEPT !.batch = worker.batch \ {l}]
        BY <1>2, <3>2, Zenon DEF ProcessInstantSendLock
      <4>2. worker'.at = "idle"
        BY <2>1, <4>1, Zenon
      <4> QED BY <3>1, <3>2, <4>2, Zenon
    <3>3. CASE ~(KnownInstantSendLock(l) \/ (in # None /\ HasChainLock(in)))
      <4>1. worker' = [worker EXCEPT !.batch = @ \ {l}, !.at = "store", !.lock = l,
                             !.known = (l \in mempool \/ in # None), !.mined = in]
        BY <1>2, <3>3, Zenon DEF ProcessInstantSendLock
      <4> HIDE DEF in
      <4> QED BY <4>1, Zenon
    <3> QED BY <3>2, <3>3, Zenon
  <2> HIDE DEF Dropped
  <2>4. HandInv'
    BY <2>3, Zenon DEF HandInv
  <2>5. \A x \in Seen \ {None} : x \in Seen' \/ Dropped(x)
    BY <2>1, <2>2, <2>3, Zenon DEF Seen, Stored, KnownInstantSendLock
  <2> QED BY <2>4, <2>5, Zenon
<1>3. CASE StoreLock
  <2>1. worker.at = "store" /\ worker.lock \in Lockable /\ worker.lock \notin islocks
    BY <1>3, ConstantsTyped, Zenon DEF StoreLock, LocksOK
  <2>2. /\ worker'.lock = worker.lock /\ worker'.batch = worker.batch
        /\ UNCHANGED <<pending, archived>>
    BY <1>3, <2>1, Zenon DEF StoreLock, WorkerGoto
  <2>3. worker.lock \notin noTx => Cardinality(noTx) < MaxPending
    BY <2>1, NothingDisplaced, Zenon DEF LocksOK
  <2>4. \/ islocks' = islocks \cup {worker.lock} /\ noTx' = noTx
        \/ islocks' = islocks /\ noTx' = noTx \cup {worker.lock}
        \/ islocks' = islocks /\ noTx' = noTx /\ worker.lock \in noTx
    BY <1>3, <2>1, <2>3, ZenonT(30) DEF StoreLock
  <2> HIDE DEF Dropped
  <2> QED BY <2>2, <2>4, Zenon DEF Seen, Stored, HandInv
<1>4. CASE ResolveBlockConflicts
  <2>1. /\ worker.at = "resolve" /\ UNCHANGED <<pending, noTx>>
        /\ worker'.lock = worker.lock /\ worker'.batch = worker.batch
    BY <1>4, Zenon DEF ResolveBlockConflicts, WorkerGoto, queues
  <2>2. islocks \cup archived \subseteq islocks' \cup archived'
    <3>1. UNCHANGED <<islocks, archived>> \/ RemoveConflictingLocks({worker.lock})
      BY <1>4, ZenonT(30) DEF ResolveBlockConflicts
    <3> QED BY <3>1, RemovedStayKnown, Zenon
  <2> HIDE DEF Dropped
  <2> QED BY <2>1, <2>2, Zenon DEF Seen, Stored, HandInv
<1>5. CASE UntrackLocked \/ ResolveActivated
  <2>1. /\ worker.at \notin {"idle", "store"} /\ UNCHANGED <<pending, noTx, islocks, archived>>
        /\ worker'.lock = worker.lock /\ worker'.batch = worker.batch
    BY <1>5, ZenonT(30) DEF UntrackLocked, ResolveActivated, WorkerGoto, queues, db
  <2> HIDE DEF Dropped
  <2> QED BY <2>1, Zenon DEF Seen, Stored, HandInv
<1>6. ASSUME NEW b \in Blocks, InvalidateConflicting(b) PROVE Goal
  <2>1. /\ worker.at \notin {"idle", "store"} /\ UNCHANGED <<pending, noTx, islocks, archived>>
        /\ worker'.lock = worker.lock /\ worker'.batch = worker.batch
    BY <1>6, Zenon DEF InvalidateConflicting, queues, db
  <2> HIDE DEF Dropped
  <2> QED BY <2>1, Zenon DEF Seen, Stored, HandInv
<1>7. CASE FinishLock
  <2>1. /\ worker.at \in {"mempool", "done"} /\ UNCHANGED <<pending, noTx, islocks, archived>>
        /\ worker'.at = "idle" /\ worker'.batch = worker.batch
    BY <1>7, Zenon DEF FinishLock, LockDone, WorkerIdle, queues, db
  <2>2. worker.lock \in Stored
    BY <2>1, Zenon DEF HandInv
  <2> HIDE DEF Dropped
  <2> QED BY <2>1, <2>2, Zenon DEF Seen, Stored, HandInv
<1>8. ASSUME NEW t \in Txs, RetryLockTx(t) PROVE Goal
  <2> HIDE DEF Dropped
  <2> QED BY <1>8, Zenon DEF RetryLockTx, queues, db, Seen, Stored, HandInv
<1> QED BY <1>1, <1>2, <1>3, <1>4, <1>5, <1>6, <1>7, <1>8, ZenonT(30) DEF WorkThread

\* A block is marked as failed for the chain lock, or for a lock the node has.
LEMMA NewlyFailed ==
    ASSUME NodeInv, [Next]_vars, NEW b \in failed', b \notin failed
    PROVE  clsig' = clsig /\ HasCause(b, clsig, Seen)
<1> USE DEF NodeInv
<1>1. CASE ActivateBestChain
  <2>1. PICK m \in data :
              LET R == {x \in Path(tip, m) : Refused(x)}
              IN  /\ Chain[m] \cap failed = {}
                  /\ tip' = IF R = {} THEN m ELSE Parent[Lowest(R)]
                  /\ failed' = IF R = {} THEN failed
                               ELSE failed \cup {x \in data : Lowest(R) \in Chain[x]}
    BY <1>1, ActivateFacts, ZenonT(30)
  <2> DEFINE R == {x \in Path(tip, m) : Refused(x)}
             v == Lowest(R)
  <2>2. R # {} /\ v \in Chain[b]
    BY <2>1, Zenon
  <2>3. R \in SUBSET Blocks
    BY ChainSelf, Zenon DEF Path, ChainOK
  <2>4. v \in R
    <3> HIDE DEF R
    <3> QED BY <2>2, <2>3, LowestIn, Zenon
  <2>5. Refused(v)
    BY <2>4, Zenon
  <2> HIDE DEF v, R
  <2>6. clsig' = clsig
    BY <1>1, ZenonT(30) DEF ActivateBestChain
  <2> QED BY <2>2, <2>5, <2>6, Zenon DEF Refused, LockConflicts, HasCause, Seen, Stored
<1>2. CASE EnforceChainLock
  <2>1. /\ clsig' = clsig /\ clsig # None
        /\ b \in data /\ b \notin Chain[clsig] /\ clsig \notin Chain[b]
    BY <1>2, Zenon DEF EnforceChainLock
  <2>2. clsig \in Blocks /\ b \in Blocks
    BY <2>1, ConstantsTyped, Zenon DEF ChainOK
  <2> QED BY <2>1, <2>2, OffBranch, Zenon DEF HasCause
<1>3. ASSUME NEW k \in Blocks, InvalidateConflicting(k)
      PROVE  clsig' = clsig /\ HasCause(b, clsig, Seen)
  <2>1. PICK c \in worker.conflicts : c[2] = k
    BY <1>3, Zenon DEF InvalidateConflicting
  <2>2. k \in Chain[b] /\ clsig' = clsig
    BY <1>3, Zenon DEF InvalidateConflicting, InvalidateBlock
  <2>3. c[1] \in Txids(k) /\ worker.lock \in Conflicts(c[1])
    BY <2>1, Zenon DEF MinedInv, ConflictsKnown
  <2> QED BY <2>2, <2>3, Zenon DEF HasCause, Seen
<1>4. failed' = failed \/ EnforceChainLock \/ ActivateBestChain
      \/ \E k \in Blocks : InvalidateConflicting(k)
  <2>1. CASE Scheduler
    BY <2>1, Zenon DEF Scheduler, TransactionAddedToMempool, TransactionRemovedFromMempool,
           AddedRemovesConflicts, TrackTx, UnparkLock, BlockConnected, BlockDisconnected,
           NotifyChainLock, BlockConnectedTx, BlockConnectedMarks, chain
  <2>2. CASE WorkThread
    BY <2>2, Zenon DEF WorkThread, ProcessPendingInstantSendLocks, ProcessInstantSendLock,
           StoreLock, UntrackLocked, ResolveBlockConflicts, ResolveActivated, FinishLock,
           RetryLockTx, chain
  <2>3. CASE ~Scheduler /\ ~WorkThread
    BY <2>3, Zenon DEF Next, vars, chain, ReceiveTx, ReceiveBlock, ReceiveLock, RecoverLock,
           ChainLock, AnnounceChainLock
  <2> QED BY <2>1, <2>2, <2>3, Zenon
<1> QED BY <1>1, <1>2, <1>3, <1>4, Zenon

\* FailedForCause in the terms of the lemmas.
LEMMA FailedForCauseIs == FailedForCause <=> \A b \in failed : HasCause(b, clsig, Seen)
BY Zenon DEF FailedForCause, HasCause, Seen, Stored

LEMMA FailedForCauseStep ==
    ASSUME RoomForAll, NodeInv, HandInv, FailedForCause, [Next]_vars
    PROVE  HandInv' /\ FailedForCause'
<1> USE DEF NodeInv
<1> DEFINE Dropped(l) == clsig # None /\ \E c \in Chain[clsig] : l \in Txids(c)
<1>1. HandInv' /\ \A l \in Seen \ {None} : l \in Seen' \/ Dropped(l)
  <2>1. CASE WorkThread
    BY <2>1, WorkerKeepsSeen, Zenon DEF MinedInv
  <2>2. CASE Next /\ ~WorkThread
    <3>1. worker' = worker /\ Stored \subseteq Stored'
      BY <2>2, StoredGrows, Zenon
    <3>2. HandInv'
      BY <3>1, Zenon DEF HandInv
    <3>3. Seen \subseteq Seen'
      BY <3>1, Zenon DEF Seen
    <3> QED BY <3>2, <3>3, Zenon
  <2>3. CASE UNCHANGED vars
    <3>1. HandInv' /\ Seen' = Seen
      BY <2>3, Zenon DEF vars, HandInv, Seen, Stored
    <3> QED BY <3>1, ZenonT(30)
  <2> QED BY <2>1, <2>2, <2>3, Zenon
<1>2. clsig \in Blocks \cup {None}
  BY ConstantsTyped, Zenon DEF ChainOK
<1>3. ASSUME NEW b \in Blocks, HasCause(b, clsig, Seen) PROVE HasCause(b, clsig, Seen')
  <2>1. CASE clsig = None
    <3>1. Seen \ {None} \subseteq Seen'
      BY <1>1, <2>1, ZenonT(30)
    <3> QED BY <1>3, <3>1, CauseGrows, Zenon
  <2>2. CASE clsig \in Blocks
    <3>1. \A l \in Seen \ {None} : l \in Seen' \/ \E c \in Chain[clsig] : l \in Txids(c)
      BY <1>1, Zenon
    <3> QED BY <1>3, <2>2, <3>1, MinedInstead, Zenon
  <2> QED BY <1>2, <2>1, <2>2, Zenon
<1> HIDE DEF Dropped
<1>4. ASSUME NEW b \in failed' PROVE HasCause(b, clsig', Seen')
  <2>1. b \in Blocks
    <3>1. ChainOK'
      BY ChainOKStep, Zenon
    <3> QED BY <3>1, Zenon DEF ChainOK
  <2>2. CASE b \notin failed
    BY <1>3, <2>1, <2>2, NewlyFailed, Zenon
  <2>3. CASE b \in failed
    <3>1. HasCause(b, clsig, Seen')
      BY <1>3, <2>1, <2>3, FailedForCauseIs, Zenon
    <3>2. CASE clsig' = clsig
      BY <3>1, <3>2, Zenon
    <3>3. ASSUME NEW m \in Final, ChainLock(m) PROVE HasCause(b, clsig', Seen')
      <4>1. m \in Blocks /\ clsig' = m /\ (clsig # None => clsig \in Chain[m])
        BY <3>3, ConstantsTyped, Zenon DEF ChainLock
      <4> QED BY <1>2, <2>1, <3>1, <4>1, CauseRises, Zenon
    <3>4. clsig' = clsig \/ \E m \in Final : ChainLock(m)
      <4>1. CASE Scheduler
        BY <4>1, Zenon DEF Scheduler, TransactionAddedToMempool, TransactionRemovedFromMempool,
               AddedRemovesConflicts, TrackTx, UnparkLock, BlockConnected, BlockDisconnected,
               NotifyChainLock, BlockConnectedTx, BlockConnectedMarks, chain
      <4>2. CASE WorkThread
        BY <4>2, Zenon DEF WorkThread, ProcessPendingInstantSendLocks, ProcessInstantSendLock,
               StoreLock, UntrackLocked, ResolveBlockConflicts, InvalidateConflicting,
               ResolveActivated, FinishLock, RetryLockTx, chain
      <4>3. CASE ~Scheduler /\ ~WorkThread
        BY <4>3, Zenon DEF Next, vars, chain, ReceiveTx, ReceiveBlock, ReceiveLock, RecoverLock,
               EnforceChainLock, AnnounceChainLock, ActivateBestChain
      <4> QED BY <4>1, <4>2, <4>3, Zenon
    <3> QED BY <3>2, <3>3, <3>4, Zenon
  <2> QED BY <2>2, <2>3, Zenon
<1>5. FailedForCause'
  BY <1>4, Zenon DEF FailedForCause, HasCause, Seen, Stored
<1> QED BY <1>1, <1>5, Zenon

\* As long as the two queues have room for every lock, a block is marked failed
\* only beside the chain lock or for a lock the node has stored, archived or in
\* hand, for every tree of blocks, set of transactions and interleaving of
\* InvalidateBlock, ResetBlockFailureFlags, the queues and the chain locks.  A
\* full queue drops locks, and their blocks stay failed without a cause.
THEOREM FailedBlocksHaveCause ==
    ASSUME Cardinality(Lockable) <= MaxPending
    PROVE  Spec => []FailedForCause
<1> DEFINE Inv == NodeInv /\ HandInv /\ FailedForCause
<1>1. Init => Inv
  BY NodeInvInit DEF Init, HandInv, WorkerIdle, FailedForCause
<1>2. Inv /\ [Next]_vars => Inv'
  BY NodeInvStep, FailedForCauseStep, Zenon DEF RoomForAll
<1>3. Inv => FailedForCause
  BY Zenon
<1> QED BY <1>1, <1>2, <1>3, PTL DEF Spec
=============================================================================
