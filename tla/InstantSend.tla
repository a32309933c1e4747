----------------------------- MODULE InstantSend ----------------------------
(***************************************************************************)
(* The InstantSend manager of one masternode (CInstantSendManager of       *)
(* llmq/instantsend.cpp) with what it acts on: the mempool and the active  *)
(* chain.                                                                  *)
(*                                                                         *)
(* Three threads meet here.  Peers' transactions, blocks and locks come in *)
(* on the message thread.  The mempool and the chain state queue           *)
(* notifications that the scheduler thread delivers later, in order.  The  *)
(* manager's own work thread takes the pending locks.  Each step below is  *)
(* one critical section, and the threads interleave between them.          *)
(*                                                                         *)
(* A lock is named by its transaction: the quorum signs one lock per       *)
(* transaction and never two that conflict (LocksAgree).                   *)
(*                                                                         *)
(* Left out: invalid signatures, the spork, the quorum's cycle, the depth  *)
(* that stands in for chain locks while they are switched off, the expiry  *)
(* of archived locks after 100 blocks, the batches of 32 locks, orphan     *)
(* transactions and fees.                                                  *)
(***************************************************************************)
EXTENDS BlockTree, Sequences, Functions

CONSTANTS
    TxOrder,        \* the transactions, parents before children
    Outpoints,
    Inputs,         \* Inputs[t]: the outpoints t spends
    Source,         \* Source[o]: the transaction that made o, None for an old coin
    Lockable,       \* the transactions a quorum has locked
    BlockTxs,       \* BlockTxs[b]: the transactions of b, in order
    Final,          \* the blocks a quorum may chain-lock
    Confirmations,  \* nInstantSendConfirmationsRequired
    MaxPending,     \* MAX_PENDING_INSTANTSEND_LOCKS
    MaxEvents,      \* bound: queued notifications when a peer's message is taken
    None

Txs == Range(TxOrder)

Txids(b) == {t \in Txs : \E i \in DOMAIN BlockTxs[b] : BlockTxs[b][i] = t}

ASSUME ConstantsTyped ==
    /\ IsFiniteSet(Txs) /\ None \notin Txs \cup Blocks
    /\ Lockable \subseteq Txs /\ Final \subseteq Blocks
    /\ \A t \in Txs : Inputs[t] \subseteq Outpoints
    /\ \A o \in Outpoints : Source[o] \in Txs \cup {None}
    /\ \A b \in Blocks : BlockTxs[b] \in Seq(Txs)
    /\ MaxPending \in Nat

\* A quorum member votes once per input, so no two locks spend the same coin.
ASSUME LocksAgree ==
    \A t, u \in Lockable : t # u => Inputs[t] \cap Inputs[u] = {}

VARIABLES
    mempool,
    data,       \* blocks with BLOCK_HAVE_DATA
    failed,     \* blocks that may not be connected (failed or conflicting)
    tip,
    activating, \* an ActivateBestChain is due
    clsig,      \* the best chain lock
    txindex,    \* txindex[t]: the block t was last indexed in
    events,     \* the notifications not yet delivered
    pending, noTx,   \* pendingInstantSendLocks, pendingNoTxInstantSendLocks
    islocks,         \* the locks of CInstantSendDb
    archived,        \* DB_ARCHIVED_BY_HASH
    mined,           \* DB_MINED_BY_HEIGHT_AND_HASH
    confirmed,       \* best_confirmed_height
    nonLocked,       \* nonLockedTxs
    byOutpoint,      \* nonLockedTxsByOutpoints
    retry,           \* pendingRetryTxs
    voted,           \* voted[o]: the transaction this member voted for
    sched, worker    \* what the two threads are doing

pool == <<mempool, events>>
chain == <<data, failed, tip, activating, clsig>>
queues == <<pending, noTx>>
db == <<islocks, archived, mined, confirmed>>
tracked == <<nonLocked, byOutpoint, retry>>
vars == <<mempool, events, data, failed, tip, activating, clsig, txindex,
          pending, noTx, islocks, archived, mined, confirmed, nonLocked,
          byOutpoint, retry, voted, sched, worker>>

NoEntry == [entry |-> FALSE, tx |-> FALSE, mined |-> None, children |-> {}]

SchedIdle == [at |-> "idle", tx |-> None, block |-> None, todo |-> <<>>]

WorkerIdle == [at |-> "idle", lock |-> None, known |-> FALSE, mined |-> None,
               conflicts |-> {}, reset |-> FALSE, batch |-> {}]

-----------------------------------------------------------------------------
(* Transactions. *)

Conflicts(t) == {u \in Txs \ {t} : Inputs[u] \cap Inputs[t] # {}}

\* No chain of valid blocks spends a coin twice, and the genesis block spends none.
ASSUME ChainsConsistent ==
    /\ Txids(Genesis) = {}
    /\ \A k \in Blocks : \A c, d \in Chain[k] : \A t \in Txids(c) :
          Txids(d) \cap Conflicts(t) = {}

Parents(t) == {Source[o] : o \in Inputs[t]} \ {None}

\* The transactions of S and those of W that spend them, directly or through
\* others of W.
FamilyIn(W, S) ==
    {t \in S \cup W : \A U \in SUBSET Txs :
        S \subseteq U /\ (\A u \in W : Parents(u) \cap U # {} => u \in U) => t \in U}

Family(S) == FamilyIn(Txs, S)

Mined(t, b) == \E c \in Chain[b] : t \in Txids(c)

InOrder(S) == SelectSeq(TxOrder, LAMBDA t : t \in S)

Notify(kind, s) == [i \in DOMAIN s |-> [kind |-> kind, of |-> s[i]]]

HasChainLock(b) == clsig # None /\ b \in Chain[clsig]

IsLocked(t) == t \in islocks

\* A lock that was stored once is not taken again.
KnownInstantSendLock(l) == l \in islocks \cup archived

\* GetConflictingLock: a stored lock on an input of t.
LockConflicts(t) == Conflicts(t) \cap islocks

CheckCanLock(t) ==
    \A p \in Parents(t) :
        \/ IsLocked(p)
        \/ /\ p \notin mempool
           /\ txindex[p] # None
           /\ \/ Height(tip) - Height(txindex[p]) + 1 >= Confirmations
              \/ HasChainLock(txindex[p])

\* ProcessTx with TrySignInputLocks: the member votes for every input, unless
\* it has voted for another transaction on one of them.
ProcessTx(t) ==
    IF /\ CheckCanLock(t) /\ LockConflicts(t) = {}
       /\ \A o \in Inputs[t] : voted[o] \in {None, t}
    THEN voted' = [o \in Outpoints |-> IF o \in Inputs[t] THEN t ELSE voted[o]]
    ELSE UNCHANGED voted

-----------------------------------------------------------------------------
(* The tracked transactions (cs_nonLocked). *)

\* AddNonLockedTx.  An entry made for a child is not filled in.
AddNonLockedTx(t, b) ==
    IF nonLocked[t].entry
    THEN /\ nonLocked' = [nonLocked EXCEPT ![t].mined = b]
         /\ UNCHANGED byOutpoint
    ELSE /\ nonLocked' =
              [u \in Txs |->
                 IF u = t THEN [entry |-> TRUE, tx |-> TRUE, mined |-> b,
                                children |-> nonLocked[t].children]
                 ELSE IF u \in Parents(t)
                 THEN [nonLocked[u] EXCEPT !.entry = TRUE, !.children = @ \cup {t}]
                 ELSE nonLocked[u]]
         /\ byOutpoint' = [o \in Outpoints |->
              IF o \in Inputs[t] /\ byOutpoint[o] = None THEN t ELSE byOutpoint[o]]

\* What nonLockedTxs is without the transactions of S: they leave their parents,
\* and an empty placeholder goes with its last child.
Untracked(S) ==
    LET gone == {t \in S : nonLocked[t].entry}
        left(u) == nonLocked[u].children \ {t \in gone : nonLocked[t].tx}
    IN  [u \in Txs |->
           IF u \in gone \/ (nonLocked[u].entry /\ ~nonLocked[u].tx /\ left(u) = {})
           THEN NoEntry
           ELSE [nonLocked[u] EXCEPT !.children = left(u)]]

\* Mutant: a removed transaction stays in nonLockedTxsByOutpoints.
OutpointsKept(S, retryChildren) ==
    LET gone == {t \in S : nonLocked[t].entry}
        children == UNION {nonLocked[t].children : t \in gone}
    IN  /\ nonLocked' = Untracked(S)
        /\ byOutpoint' = byOutpoint
        /\ retry' = (retry \cup (IF retryChildren THEN children ELSE {})) \ gone

\* RemoveNonLockedTx of all of S.
RemoveNonLockedTxs(S, retryChildren) ==
    LET gone == {t \in S : nonLocked[t].entry}
        spent == UNION {Inputs[t] : t \in {u \in gone : nonLocked[u].tx}}
        children == UNION {nonLocked[t].children : t \in gone}
    IN  /\ nonLocked' = Untracked(S)
        /\ byOutpoint' = [o \in Outpoints |-> IF o \in spent THEN None ELSE byOutpoint[o]]
        /\ retry' = (retry \cup (IF retryChildren THEN children ELSE {})) \ gone

-----------------------------------------------------------------------------
(* The locks (cs_db, cs_pendingLocks). *)

\* RemoveConflictingLock: the locks go with the locks chained to them, and stay
\* known as archived.
RemoveConflictingLocks(S) ==
    /\ islocks' = islocks \ FamilyIn(islocks, S)
    /\ archived' = archived \cup FamilyIn(islocks, S)

\* A lock put into the pending queue by the node itself displaces another when
\* the queue is full.
Enqueued(l) ==
    IF l \in pending \/ Cardinality(pending) < MaxPending THEN {pending \cup {l}}
    ELSE {(pending \ {m}) \cup {l} : m \in pending}

\* The lock of t, if it waits for t, goes back to the pending queue.
MoveNoTx(t) ==
    IF t \in noTx
    THEN pending' \in Enqueued(t) /\ noTx' = noTx \ {t}
    ELSE UNCHANGED <<pending, noTx>>

-----------------------------------------------------------------------------
(* The chain state. *)

\* The blocks of a path, from the lowest to the tip and back.
Upward(S) ==
    CHOOSE s \in [1 .. Cardinality(S) -> S] :
        \A i, j \in DOMAIN s : i < j => Height(s[i]) < Height(s[j])

Downward(S) == [i \in 1 .. Cardinality(S) |-> Upward(S)[Cardinality(S) + 1 - i]]

TxsOf(B) == UNION {Txids(b) : b \in B}

\* The active chain moves to n: the mempool loses what the new blocks have or
\* spend, gets back the transactions of the disconnected ones that are still
\* valid, and the notifications are queued in the order of ActivateBestChainStep.
\* locks are the stored ones after the new blocks.
MoveTip(n, locks) ==
    LET up == Path(tip, n)
        down == Path(n, tip)
        conflicted == mempool \cap Family(UNION {Conflicts(t) : t \in TxsOf(up)})
        left == mempool \ (TxsOf(up) \cup conflicted)
        back == TxsOf(down) \ TxsOf(up)
        bad == {t \in back :
                   \/ Conflicts(t) \cap locks # {}
                   \/ \E u \in Conflicts(t) : Mined(u, n)
                   \/ \E p \in Parents(t) \ back : p \notin left /\ ~Mined(p, n)}
        valid == back \ Family(bad)
        orphaned == left \cap Family(bad)
    IN  /\ tip' = n
        /\ mempool' = (left \cup valid) \ orphaned
        /\ events' = events \o Notify("disconnected", Downward(down))
                            \o Notify("removed", InOrder(conflicted))
                            \o Notify("added", InOrder(valid))
                            \o Notify("removed", InOrder(orphaned))
                            \o Notify("connected", Upward(up))

\* Mutant: a block is refused for the node's own votes.
RefuseVotedAgainst(b) ==
    \/ ~HasChainLock(b) /\ \E t \in Txids(b), o \in Outpoints :
          o \in Inputs[t] /\ voted[o] \notin {None, t}
    \/ clsig # None /\ Height(b) <= Height(clsig) /\ b \notin Chain[clsig]

\* ConnectBlock: a block with a transaction that conflicts with a stored lock is
\* refused, unless it has a chain lock; so is one that conflicts with the chain
\* lock.
Refused(b) ==
    \/ ~HasChainLock(b) /\ \E t \in Txids(b) : LockConflicts(t) # {}
    \/ clsig # None /\ Height(b) <= Height(clsig) /\ b \notin Chain[clsig]

\* One round of ActivateBestChain: to the chain with the most work, or to the
\* block below the first that is refused.
ActivateBestChain ==
    LET usable == {b \in data : Path(tip, b) \cap (failed \cup (Blocks \ data)) = {}}
        most == MostWork(usable)
    IN  /\ activating
        /\ \E m \in IF tip \in most THEN {tip} ELSE most :
              LET refused == {b \in Path(tip, m) : Refused(b)}
                  n == IF refused = {} THEN m ELSE Parent[Lowest(refused)]
                  overridden == UNION {LockConflicts(t) : t \in TxsOf(Path(tip, n))}
              IN  /\ RemoveConflictingLocks(overridden)
                  /\ MoveTip(n, islocks')
                  /\ failed' = IF refused = {} THEN failed
                               ELSE failed \cup {b \in data : Lowest(refused) \in Chain[b]}
                  /\ activating' = (refused # {})
        /\ UNCHANGED <<data, clsig, txindex, queues, mined, confirmed, tracked,
                       voted, sched, worker>>

\* Mutant: the block is marked and its chain stays active.
InvalidateKeepsTip(b, reset) ==
    /\ MoveTip(tip, islocks)
    /\ failed' = IF reset THEN {c \in failed : c \notin Chain[b] /\ b \notin Chain[c]}
                 ELSE failed \cup {c \in data : b \in Chain[c] /\ (c = b \/ c \in Chain[tip])}

\* InvalidateBlock of b with, when the locked transaction is not known yet,
\* ResetBlockFailureFlags after it.
InvalidateBlock(b, reset) ==
    /\ MoveTip(IF b \in Chain[tip] THEN Parent[b] ELSE tip, islocks)
    /\ failed' = IF reset THEN {c \in failed : c \notin Chain[b] /\ b \notin Chain[c]}
                 ELSE failed \cup {c \in data : b \in Chain[c] /\ (c = b \/ c \in Chain[tip])}

-----------------------------------------------------------------------------
Init ==
    /\ mempool = {} /\ events = <<>>
    /\ data = {Genesis} /\ failed = {} /\ tip = Genesis
    /\ activating = FALSE
    /\ clsig = None
    /\ txindex = [t \in Txs |-> None]
    /\ pending = {} /\ noTx = {}
    /\ islocks = {} /\ archived = {} /\ mined = {} /\ confirmed = 0
    /\ nonLocked = [t \in Txs |-> NoEntry]
    /\ byOutpoint = [o \in Outpoints |-> None]
    /\ retry = {}
    /\ voted = [o \in Outpoints |-> None]
    /\ sched = SchedIdle /\ worker = WorkerIdle

-----------------------------------------------------------------------------
(* Messages. *)


\* ProcessMessage of a transaction with AcceptToMemoryPool.  A lock that waits
\* for the transaction makes room for it.  A refused transaction loses its lock.
ReceiveTx(t) ==
    LET available == \A o \in Inputs[t] :
                        /\ Source[o] \in mempool \cup {None} \/ Mined(Source[o], tip)
                        /\ \A u \in Txs : o \in Inputs[u] => ~Mined(u, tip)
        rivals == mempool \cap Conflicts(t)
        accepted == LockConflicts(t) = {} /\ available /\ (rivals = {} \/ t \in noTx)
        evicted == IF t \in noTx /\ LockConflicts(t) = {} THEN mempool \cap Family(rivals)
                   ELSE {}
    IN  /\ Len(events) < MaxEvents
        /\ t \notin mempool /\ txindex[t] = None
        /\ mempool' = (mempool \ evicted) \cup (IF accepted THEN {t} ELSE {})
        /\ events' = events \o Notify("removed", InOrder(evicted))
                            \o Notify("added", IF accepted THEN <<t>> ELSE <<>>)
        /\ IF ~accepted /\ t \in islocks THEN RemoveConflictingLocks({t})
           ELSE UNCHANGED <<islocks, archived>>
        /\ UNCHANGED <<chain, txindex, queues, mined, confirmed, tracked, voted,
                       sched, worker>>

ReceiveBlock(b) ==
    /\ Len(events) < MaxEvents
    /\ b \notin data /\ Parent[b] \in data
    /\ Chain[Parent[b]] \cap failed = {}
    /\ ~(clsig # None /\ Height(b) <= Height(clsig) /\ b \notin Chain[clsig])
    /\ data' = data \cup {b}
    /\ activating' = TRUE
    /\ UNCHANGED <<pool, failed, tip, clsig, txindex, queues, db, tracked, voted,
                   sched, worker>>

\* ProcessMessageInstantSendLock: a known lock, or one for a full queue, is dropped.
ReceiveLock(l) ==
    /\ l \notin pending \cup noTx /\ ~KnownInstantSendLock(l)
    /\ Cardinality(pending) < MaxPending
    /\ pending' = pending \cup {l}
    /\ UNCHANGED <<pool, chain, txindex, noTx, db, tracked, voted, sched, worker>>

\* HandleNewInstantSendLockRecoveredSig: the lock this member helped to sign.
RecoverLock(l) ==
    /\ \A o \in Inputs[l] : voted[o] = l
    /\ l \notin pending /\ ~KnownInstantSendLock(l)
    /\ pending' \in Enqueued(l)
    /\ UNCHANGED <<pool, chain, txindex, noTx, db, tracked, voted, sched, worker>>

\* The ChainLocks handler records a lock and enforces it (see ChainLocks).  The
\* chain locks of the quorums are on one branch.
ChainLock(b) ==
    /\ b \in data
    /\ clsig # None => b # clsig /\ clsig \in Chain[b]
    /\ clsig' = b
    /\ UNCHANGED <<pool, data, failed, tip, activating, txindex, queues, db, tracked,
                   voted, sched, worker>>

EnforceChainLock ==
    /\ clsig # None /\ clsig \notin Chain[tip]
    /\ Len(events) < MaxEvents
    /\ ~activating
    /\ MoveTip(Highest(Chain[tip] \cap Chain[clsig]), islocks)
    /\ failed' = {b \in failed : b \notin Chain[clsig] /\ clsig \notin Chain[b]}
                    \cup {b \in data : b \notin Chain[clsig] /\ clsig \notin Chain[b]}
    /\ activating' = TRUE
    /\ UNCHANGED <<data, clsig, txindex, queues, db, tracked, voted, sched, worker>>

\* NotifyChainLock, once the locked block is active.
AnnounceChainLock ==
    /\ clsig # None /\ clsig \in Chain[tip]
    /\ Len(events) < MaxEvents
    /\ Height(clsig) > confirmed
    /\ [kind |-> "chainlock", of |-> clsig] \notin Range(events)
    /\ events' = Append(events, [kind |-> "chainlock", of |-> clsig])
    /\ UNCHANGED <<mempool, chain, txindex, queues, db, tracked, voted, sched, worker>>

-----------------------------------------------------------------------------
(* The scheduler thread delivers the notifications. *)

SchedGoto(step) == sched' = [sched EXCEPT !.at = step]

\* The next notification goes to the free thread.
Delivers(kind, of) ==
    /\ sched.at = "idle" /\ events # <<>>
    /\ Head(events) = [kind |-> kind, of |-> of]
    /\ events' = Tail(events)

\* TransactionAddedToMempool: a waiting lock goes back to the queue, otherwise
\* the member votes.
TransactionAddedToMempool(t) ==
    /\ Delivers("added", t)
    /\ MoveNoTx(t)
    /\ IF t \in noTx THEN UNCHANGED voted ELSE ProcessTx(t)
    /\ sched' = [SchedIdle EXCEPT !.at = IF t \in noTx THEN "conflicts" ELSE "track",
                                  !.tx = t]
    /\ UNCHANGED <<mempool, chain, txindex, db, tracked, worker>>

\* RemoveMempoolConflictsForLock for the lock of t, RemoveConflictedTx included.
RemoveMempoolConflicts(t) ==
    LET rivals == mempool \cap Conflicts(t)
        evicted == mempool \cap Family(rivals)
    IN  /\ mempool' = mempool \ evicted
        /\ events' = events \o Notify("removed", InOrder(evicted))
        /\ RemoveNonLockedTxs(rivals, FALSE)

AddedRemovesConflicts ==
    /\ sched.at = "conflicts"
    /\ RemoveMempoolConflicts(sched.tx)
    /\ sched' = SchedIdle
    /\ UNCHANGED <<chain, txindex, queues, db, voted, worker>>

\* The two critical sections of AddNonLockedTx, for a transaction of the mempool
\* or of a connected block.
TrackTx ==
    /\ sched.at = "track"
    /\ AddNonLockedTx(sched.tx, sched.block)
    /\ SchedGoto("unpark")
    /\ UNCHANGED <<pool, chain, txindex, queues, db, retry, voted, worker>>

UnparkLock ==
    /\ sched.at = "unpark"
    /\ MoveNoTx(sched.tx)
    /\ sched' = IF sched.block = None THEN SchedIdle
                ELSE [sched EXCEPT !.at = "block", !.tx = None]
    /\ UNCHANGED <<pool, chain, txindex, db, tracked, voted, worker>>

TransactionRemovedFromMempool(t) ==
    /\ Delivers("removed", t)
    /\ IF t \in islocks THEN RemoveConflictingLocks({t}) ELSE UNCHANGED <<islocks, archived>>
    /\ UNCHANGED <<mempool, chain, txindex, queues, mined, confirmed, tracked, voted,
                   sched, worker>>

\* BlockConnected, after the transaction index has the block.
BlockConnected(b) ==
    /\ Delivers("connected", b)
    /\ txindex' = [t \in Txs |-> IF t \in Txids(b) THEN b ELSE txindex[t]]
    /\ sched' = [SchedIdle EXCEPT !.at = "block", !.block = b, !.todo = BlockTxs[b]]
    /\ UNCHANGED <<mempool, chain, queues, db, tracked, voted, worker>>

\* The next transaction of the block: voted for and tracked, or locked and
\* tracked no more.
BlockConnectedTx ==
    LET t == Head(sched.todo)
        locked == IsLocked(t) \/ HasChainLock(sched.block)
    IN
    /\ sched.at = "block" /\ sched.todo # <<>>
    /\ sched' = [sched EXCEPT !.todo = Tail(@), !.tx = IF locked THEN None ELSE t,
                              !.at = IF locked THEN "block" ELSE "track"]
    /\ IF locked THEN RemoveNonLockedTxs({t}, TRUE) /\ UNCHANGED voted
       ELSE ProcessTx(t) /\ UNCHANGED tracked
    /\ UNCHANGED <<pool, chain, txindex, queues, db, worker>>

\* WriteBlockInstantSendLocks.
BlockConnectedMarks ==
    /\ sched.at = "block" /\ sched.todo = <<>>
    /\ mined' = mined \cup {<<l, Height(sched.block)>> : l \in islocks \cap Txids(sched.block)}
    /\ sched' = SchedIdle
    /\ UNCHANGED <<pool, chain, txindex, queues, islocks, archived, confirmed,
                   tracked, voted, worker>>

BlockDisconnected(b) ==
    /\ Delivers("disconnected", b)
    /\ mined' = mined \ {<<l, Height(b)>> : l \in islocks \cap Txids(b)}
    /\ UNCHANGED <<mempool, chain, txindex, queues, islocks, archived, confirmed,
                   tracked, voted, sched, worker>>

\* NotifyChainLock, HandleFullyConfirmedBlock: mined locks up to the height are
\* archived (the caches may answer for them a while longer), and transactions
\* of the chain are tracked no more.
NotifyChainLock(b) ==
    LET done == {m \in mined : m[2] <= Height(b)}
        settled == {t \in Txs : nonLocked[t].mined \in Chain[b]}
    IN
    /\ Delivers("chainlock", b)
    /\ IF Height(b) > confirmed
       THEN /\ confirmed' = Height(b)
            /\ mined' = mined \ done
            /\ archived' = archived \cup {m[1] : m \in done}
            /\ islocks' \in {islocks, islocks \ {m[1] : m \in done}}
       ELSE UNCHANGED <<islocks, archived, mined, confirmed>>
    /\ RemoveNonLockedTxs(settled, TRUE)
    /\ UNCHANGED <<mempool, chain, txindex, queues, voted, sched, worker>>

-----------------------------------------------------------------------------
(* The work thread. *)

WorkerGoto(step) == worker' = [worker EXCEPT !.at = step]

LockDone == worker' = [WorkerIdle EXCEPT !.batch = worker.batch]

ProcessPendingInstantSendLocks ==
    /\ worker = WorkerIdle
    /\ pending # {}
    /\ worker' = [WorkerIdle EXCEPT !.batch = pending]
    /\ pending' = {}
    /\ UNCHANGED <<pool, chain, txindex, noTx, db, tracked, voted, sched>>

\* ProcessInstantSendLock, up to the first tests.  The transaction of a lock that
\* is mined under a chain lock needs none.
ProcessInstantSendLock(l) ==
    LET in == IF l \in mempool THEN None ELSE txindex[l] IN
    /\ worker.at = "idle" /\ l \in worker.batch
    /\ worker' =
         IF KnownInstantSendLock(l) \/ (in # None /\ HasChainLock(in))
         THEN [worker EXCEPT !.batch = @ \ {l}]
         ELSE [worker EXCEPT !.batch = @ \ {l}, !.at = "store", !.lock = l,
                             !.known = (l \in mempool \/ in # None), !.mined = in]
    /\ UNCHANGED <<pool, chain, txindex, queues, db, tracked, voted, sched>>

StoreLock ==
    LET l == worker.lock IN
    /\ worker.at = "store"
    /\ IF l \in islocks
       THEN LockDone /\ UNCHANGED <<noTx, islocks, mined>>
       ELSE /\ WorkerGoto("untrack")
            /\ IF worker.known
               THEN /\ islocks' = islocks \cup {l}
                    /\ mined' = IF worker.mined = None THEN mined
                                ELSE mined \cup {<<l, Height(worker.mined)>>}
                    /\ UNCHANGED noTx
               ELSE /\ noTx' = IF Cardinality(noTx) < MaxPending THEN noTx \cup {l} ELSE noTx
                    /\ UNCHANGED <<islocks, mined>>
    /\ UNCHANGED <<pool, chain, txindex, pending, archived, confirmed, tracked,
                   voted, sched>>

UntrackLocked ==
    /\ worker.at = "untrack"
    /\ RemoveNonLockedTxs({worker.lock}, TRUE)
    /\ WorkerGoto("resolve")
    /\ UNCHANGED <<pool, chain, txindex, queues, db, voted, sched>>

\* The mined transactions the manager has on the inputs of the lock.
TrackedConflicts(l) ==
    {t \in {byOutpoint[o] : o \in Inputs[l]} \ {None, l} :
        nonLocked[t].tx /\ nonLocked[t].mined # None}

AfterResolve == IF worker.known THEN "mempool" ELSE "done"

\* ResolveBlockConflicts: a chain-locked conflict prunes the lock.  The blocks
\* are reset afterwards while the lock waits for its transaction.
ResolveBlockConflicts ==
    LET conflicts == {<<t, nonLocked[t].mined>> : t \in TrackedConflicts(worker.lock)} IN
    /\ worker.at = "resolve"
    /\ IF \E c \in conflicts : HasChainLock(c[2])
       THEN RemoveConflictingLocks({worker.lock}) /\ WorkerGoto(AfterResolve)
       ELSE /\ worker' = [worker EXCEPT !.conflicts = conflicts,
                             !.reset = (worker.lock \in noTx),
                             !.at = IF conflicts = {} THEN AfterResolve ELSE "invalidate"]
            /\ UNCHANGED <<islocks, archived>>
    /\ UNCHANGED <<pool, chain, txindex, queues, mined, confirmed, tracked, voted, sched>>

\* One conflicting block: its transactions are untracked, and it is invalidated.
InvalidateConflicting(b) ==
    LET here == {c \in worker.conflicts : c[2] = b} IN
    /\ worker.at = "invalidate" /\ here # {}
    /\ RemoveNonLockedTxs({c[1] : c \in here}, FALSE)
    /\ InvalidateBlock(b, worker.reset)
    /\ activating' = (activating \/ ~worker.reset)
    /\ worker' = [worker EXCEPT !.conflicts = @ \ here,
                     !.at = IF worker.conflicts = here THEN "activate" ELSE "invalidate"]
    /\ UNCHANGED <<data, clsig, txindex, queues, db, voted, sched>>

ResolveActivated ==
    /\ worker.at = "activate" /\ ~activating
    /\ WorkerGoto(AfterResolve)
    /\ UNCHANGED <<pool, chain, txindex, queues, db, tracked, voted, sched>>

\* Mutant: the transactions that conflict with the lock stay in the mempool.
FinishWithoutEviction ==
    /\ worker.at \in {"mempool", "done"}
    /\ LockDone
    /\ UNCHANGED <<pool, tracked, chain, txindex, queues, db, voted, sched>>

FinishLock ==
    /\ worker.at \in {"mempool", "done"}
    /\ IF worker.at = "mempool" THEN RemoveMempoolConflicts(worker.lock)
       ELSE UNCHANGED <<pool, tracked>>
    /\ LockDone
    /\ UNCHANGED <<chain, txindex, queues, db, voted, sched>>

\* ProcessPendingRetryLockTxs.
RetryLockTx(t) ==
    /\ worker = WorkerIdle
    /\ t \in retry /\ nonLocked[t].tx
    /\ ~IsLocked(t)
    /\ ProcessTx(t)
    /\ UNCHANGED <<pool, chain, txindex, queues, db, tracked, sched, worker>>

Scheduler ==
    \/ \E t \in Txs : TransactionAddedToMempool(t) \/ TransactionRemovedFromMempool(t)
    \/ AddedRemovesConflicts \/ TrackTx \/ UnparkLock
    \/ \E b \in Blocks : BlockConnected(b) \/ BlockDisconnected(b) \/ NotifyChainLock(b)
    \/ BlockConnectedTx \/ BlockConnectedMarks

WorkThread ==
    \/ ProcessPendingInstantSendLocks
    \/ \E l \in Lockable : ProcessInstantSendLock(l)
    \/ StoreLock \/ UntrackLocked \/ ResolveBlockConflicts
    \/ \E b \in Blocks : InvalidateConflicting(b)
    \/ ResolveActivated \/ FinishLock
    \/ \E t \in Txs : RetryLockTx(t)

Next ==
    \/ \E t \in Txs : ReceiveTx(t)
    \/ \E b \in Blocks \ {Genesis} : ReceiveBlock(b)
    \/ \E l \in Lockable : ReceiveLock(l) \/ RecoverLock(l)
    \/ \E b \in Final : ChainLock(b)
    \/ EnforceChainLock \/ AnnounceChainLock \/ ActivateBestChain
    \/ Scheduler \/ WorkThread

Spec == Init /\ [][Next]_vars /\ WF_vars(Scheduler) /\ WF_vars(WorkThread)
             /\ WF_vars(ActivateBestChain)

-----------------------------------------------------------------------------
(* Properties. *)

\* Every variable stays in its type.
TypeOK ==
    /\ mempool \subseteq Txs
    /\ data \subseteq Blocks /\ failed \subseteq data /\ tip \in data \ failed
    /\ clsig \in Final \cup {None}
    /\ pending \subseteq Lockable /\ noTx \subseteq Lockable
    /\ Cardinality(pending) <= MaxPending /\ Cardinality(noTx) <= MaxPending
    /\ islocks \subseteq Lockable /\ archived \subseteq Lockable
    /\ retry \subseteq Txs

\* A transaction of the mempool conflicts with no stored lock, except with the
\* one the work thread is still processing: AcceptToMemoryPool and the reorg
\* path ask GetConflictingLock, ProcessInstantSendLock stores the lock before
\* RemoveMempoolConflictsForLock evicts, and nothing comes back in between.
MempoolRespectsLocks ==
    \A t \in mempool : LockConflicts(t) \subseteq {worker.lock}

\* nonLockedTxs, nonLockedTxsByOutpoints and pendingRetryTxs agree: an outpoint
\* leads to a tracked transaction that spends it, a child is tracked and spends
\* its parent, and only tracked transactions wait for a retry (entries of
\* pendingRetryTxs leave it with RemoveNonLockedTx alone).
TrackingConsistent ==
    /\ \A o \in Outpoints : byOutpoint[o] # None =>
          nonLocked[byOutpoint[o]].tx /\ o \in Inputs[byOutpoint[o]]
    /\ \A p \in Txs : \A t \in nonLocked[p].children : nonLocked[t].tx /\ p \in Parents(t)
    /\ retry \subseteq {t \in Txs : nonLocked[t].tx}

\* A block is marked failed only for a reason: it, or one below it, conflicts
\* with the chain lock or has a transaction that conflicts with a lock the node
\* has stored, archived or still has in hand.  InvalidateBlock and
\* ResetBlockFailureFlags run while the scheduler moves the lock between queues.
FailedForCause ==
    LET seen == islocks \cup archived \cup pending \cup noTx
                   \cup worker.batch \cup {worker.lock}
    IN  \A b \in failed : \E k \in Chain[b] :
           \/ clsig # None /\ Height(k) <= Height(clsig) /\ k \notin Chain[clsig]
           \/ \E t \in Txids(k) : Conflicts(t) \cap seen # {}


\* The work thread always comes back for the next lock: ActivateBestChain, which
\* it waits for, ends.
WorkerReturns == []<>(worker = WorkerIdle)

\* "collect all non-locked TXs which conflict with the given ISLOCK", the locked
\* transaction not known: when the scheduler has delivered everything,
\* ResolveBlockConflicts finds the mined transactions of the active chain that
\* conflict with the lock.
ConflictsCollected ==
    worker.at = "resolve" /\ worker.lock \in noTx /\ events = <<>> /\ sched = SchedIdle =>
        \A b \in Chain[tip] :
            Txids(b) \cap Conflicts(worker.lock) \subseteq TrackedConflicts(worker.lock)

\* No thread is at work and nothing is queued.
Quiet ==
    /\ events = <<>> /\ pending = {} /\ ~activating
    /\ sched = SchedIdle /\ worker = WorkerIdle

\* "Do not strand it in the no-tx queue": at rest no lock waits for a
\* transaction of the mempool.
NotStranded == Quiet => noTx \cap mempool = {}

\* "TX got locked, so we can retry locking children": at rest a transaction of
\* the mempool that can be locked and was not voted for is in pendingRetryTxs.
ChildrenRetried ==
    Quiet => \A t \in mempool :
        /\ Parents(t) # {} /\ CheckCanLock(t) /\ ~IsLocked(t)
        /\ LockConflicts(t) = {}
        /\ \A o \in Inputs[t] : voted[o] = None
        => t \in retry

\* "update DB about when an IS lock was mined": at rest a stored lock whose
\* transaction is mined has its mark, without which it is never archived.
MinedLocksMarked ==
    Quiet => \A l \in islocks : \A b \in Chain[tip] :
        l \in Txids(b) /\ Height(b) > confirmed => <<l, Height(b)>> \in mined
=============================================================================
