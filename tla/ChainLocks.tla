----------------------------- MODULE ChainLocks -----------------------------
(***************************************************************************)
(* The ChainLocks handler of one node (CChainLocksHandler of               *)
(* llmq/chainlocks.cpp) together with the part of the chain state it acts  *)
(* on (validation.cpp): header and block acceptance, ActivateBestChain,    *)
(* EnforceBlock.                                                           *)
(*                                                                         *)
(* Three threads run the handler: the message thread (CLSIG from a peer),  *)
(* the signing thread (HandleNewRecoveredSig) and the scheduler            *)
(* (EnforceBestChainLock, TrySignChainTip).  The handler's mutex cs and    *)
(* cs_main are held only for the steps below, so the threads interleave    *)
(* between them.  A thread is a record: the step it is at and its locals.  *)
(*                                                                         *)
(* Left out: transactions and their ages (the InstantSend walk of          *)
(* TrySignChainTip either lets the tip pass or stops it), peers' scores,   *)
(* failures of blocks for other reasons than a lock, and pruning.          *)
(***************************************************************************)
EXTENDS BlockTree

CONSTANTS Locked,          \* the blocks a quorum has signed
          HeaderFirst,     \* bound: the blocks whose header may come before them
          Paused,          \* heights inside the Q60 formation lead
          SeenExpires,     \* whether CLEANUP_SEEN_TIMEOUT may pass in the run
          MaxSporkChanges, \* bound on the changes of spork 19
          None

VARIABLES
    index,      \* blocks whose header is in m_block_index
    data,       \* blocks with BLOCK_HAVE_DATA
    conflict,   \* blocks with BLOCK_CONFLICT_CHAINLOCK
    failed,     \* blocks with a flag of BLOCK_FAILED_MASK
    tip,        \* m_chain.Tip()
    activating, \* a block was stored and ActivateBestChain not yet called
    act,        \* the caller inside ActivateBestChain, its pindexMostWork and,
                \* while it keeps cs_main, its starting_tip
    spork,      \* AreChainLocksEnabled(spork_manager)
    isEnabled, best, bestIndex, lastNotify, seen, lastSigned,
    thread,
    sporkChanges,
    disturbed   \* a lock has been wiped or the spork moved (history)

chain == <<index, data, conflict, failed, tip, activating, act>>
locks == <<best, bestIndex, lastNotify>>
history == <<sporkChanges, disturbed>>
vars == <<index, data, conflict, failed, tip, activating, act, spork,
          isEnabled, best, bestIndex, lastNotify, seen, lastSigned, thread,
          sporkChanges, disturbed>>

Handlers == {"net", "sig"}
Threads == Handlers \cup {"sched"}

-----------------------------------------------------------------------------
(* Locks. *)

\* A null CLSIG has height -1.
LockHeight(l) == IF l = None THEN -1 ELSE Height(l)

\* A quorum's honest majority locks blocks of one branch only.
ASSUME LockedOneBranch ==
    /\ Locked \subseteq Blocks /\ None \notin Blocks
    /\ \A l, m \in Locked : l \in Chain[m] \/ m \in Chain[l]

ASSUME SporkBound == MaxSporkChanges \in Nat

-----------------------------------------------------------------------------
(* The handler's answers to validation. *)

\* Mutant: a block at the lock's own height passes.
ConflictBelowLock(b) ==
    /\ isEnabled
    /\ bestIndex # None
    /\ Height(b) < Height(bestIndex)
    /\ b \notin Chain[bestIndex]

HasConflictingChainLock(b) ==
    /\ isEnabled
    /\ bestIndex # None
    /\ Height(b) <= Height(bestIndex)
    /\ b \notin Chain[bestIndex]

ChainLockSupersedesBest(l) == Height(l) > LockHeight(best)

-----------------------------------------------------------------------------
(* The chain state. *)

\* Mutant: takes a chain of headers for a chain of blocks.
CandidatesByHeader(t, F) ==
    {b \in index : Path(t, b) \subseteq index \ (conflict \cup F)}

\* FindMostWorkChain from the active tip t: every block on the way must have
\* its data and no flag.
Candidates(t, F) ==
    {b \in data : Path(t, b) \subseteq data \ (conflict \cup F)}

\* CBlockIndexWorkComparator, of a new tip and the one before it: of two blocks
\* with equal work the one received later is worse.
Worse(new, old) == new # old /\ Height(new) <= Height(old)

\* FindMostWorkChain.  Of chains with equal work the active one stays.
FindMostWorkChain ==
    LET most == MostWork(Candidates(tip, failed))
    IN  IF tip \in most THEN {tip} ELSE most

\* The blocks FindMostWorkChain strikes out on its way down to the candidate m:
\* those above a flagged block on a chain with more work.
StruckOut(m) ==
    {c \in data \ (conflict \cup failed) :
        /\ Path(tip, c) \cap (conflict \cup failed) # {}
        /\ \E b \in data : /\ c \in Chain[b] /\ Height(b) > Height(m)
                           /\ Path(tip, b) \subseteq data}

\* The flagged block nearest below c: its kind of flag is the one c gets.
NearestFlagged(c) == Highest(Path(tip, c) \cap (conflict \cup failed))

\* Whether cs_main is free: ActivateBestChain keeps it until the tip is no worse
\* than the one it started from.
CsMainFree == act.start = None

NoActivation == [by |-> "none", target |-> None, start |-> None]

\* ActivateBestChainStep toward m: disconnects down to the fork and connects
\* block by block until the chain has more work than before.  ConnectBlock
\* refuses a block that conflicts with the lock; the chain then ends below it
\* and the refused branch is flagged.
StepToward(m) ==
    LET goal == IF Height(m) <= Height(tip) THEN m
                ELSE CHOOSE b \in Chain[m] : Height(b) = Height(tip) + 1
        refused == {b \in Path(tip, goal) : HasConflictingChainLock(b)}
        base == Parent[Lowest(refused)]
    IN  IF refused = {}
        THEN [tip |-> goal, failed |-> failed, target |-> m]
        ELSE [tip |-> base, failed |-> failed \cup (Chain[m] \ Chain[base]),
              target |-> None]

\* One iteration of ActivateBestChain for the caller a, which has
\* m_chainstate_mutex: cs_main is released once the tip is no worse than at the
\* start, and the caller is done when the tip is the most-work block it set out
\* for.
Iterate(a) ==
    \E m \in IF a.target = None THEN FindMostWorkChain ELSE {a.target} :
        LET struck == IF a.target = None THEN StruckOut(m) ELSE {}
            unusable == {c \in struck : NearestFlagged(c) \in failed}
            step == IF m = tip THEN [tip |-> tip, failed |-> failed, target |-> m]
                    ELSE StepToward(m)
            start == IF a.start = None THEN tip ELSE a.start
            behind == m # tip /\ Worse(step.tip, start)
        IN  /\ tip' = step.tip
            /\ failed' = step.failed \cup unusable
            /\ conflict' = conflict \cup (struck \ unusable)
            /\ act' = IF step.tip = step.target /\ ~behind THEN NoActivation
                      ELSE [a EXCEPT !.target = step.target,
                                     !.start = IF behind THEN start ELSE None]

\* AcceptBlockHeader.  A conflicting header leaves an entry only when its block
\* came with it; an accepted one is announced to the handler before cs_main is
\* released.
AcceptBlockHeader(b, withBlock) ==
    /\ CsMainFree
    /\ b \notin index
    /\ Parent[b] \in index \ conflict
    /\ Chain[Parent[b]] \cap failed = {}
    /\ IF HasConflictingChainLock(b)
       THEN /\ withBlock
            /\ index' = index \cup {b}
            /\ conflict' = conflict \cup {b}
            /\ UNCHANGED bestIndex
       ELSE /\ index' = index \cup {b}
            /\ bestIndex' = IF best = b THEN b ELSE bestIndex
            /\ UNCHANGED conflict

\* Mutant: marks the children of the locked block's ancestors, its own branch
\* included.
EnforceAllChildren(l) ==
    LET walked == Chain[l] \ Chain[tip]
        parents == {Parent[w] : w \in walked}
    IN  /\ conflict' = conflict \cup {s \in index : s # Genesis /\ Parent[s] \in parents}
        /\ tip' = IF walked = {} THEN tip ELSE Highest(Chain[tip] \cap Chain[l])
        /\ UNCHANGED failed

\* Mutant: marks the siblings and leaves the active chain where it is.
EnforceWithoutDisconnect(l) ==
    /\ conflict' = conflict
          \cup {s \in index \ Chain[l] : s # Genesis
                  /\ Parent[s] \in {Parent[w] : w \in Chain[l] \ Chain[tip]}}
    /\ UNCHANGED <<tip, failed>>

\* EnforceBlock: the siblings of the locked branch, down to the active chain,
\* are conflicting; an active one is disconnected with all that is above it.
EnforceBlock(l) ==
    LET walked == Chain[l] \ Chain[tip]
        parents == {Parent[w] : w \in walked}
        siblings == {s \in index \ Chain[l] : s # Genesis /\ Parent[s] \in parents}
        cut == siblings \cap Chain[tip] # {}
        disconnected == IF cut THEN Chain[tip] \ Chain[l] ELSE {}
    IN  /\ conflict' = conflict \cup siblings \cup disconnected
        /\ tip' = IF cut THEN Highest(Chain[tip] \cap Chain[l]) ELSE tip
        /\ failed' = IF l \in failed \/ l \notin data
                     THEN {b \in failed : b \notin Chain[l] /\ l \notin Chain[b]}
                     ELSE failed

-----------------------------------------------------------------------------
Idle == [at |-> "idle", old |-> FALSE, block |-> None, known |-> FALSE]

Init ==
    /\ index = {Genesis} /\ data = {Genesis}
    /\ conflict = {} /\ failed = {}
    /\ tip = Genesis
    /\ activating = FALSE
    /\ act = NoActivation
    /\ spork = TRUE
    /\ isEnabled = FALSE
    /\ best = None /\ bestIndex = None /\ lastNotify = None
    /\ seen = {}
    /\ lastSigned = None
    /\ thread = [t \in Threads |-> Idle]
    /\ sporkChanges = 0
    /\ disturbed = FALSE

Goto(t, step) == thread' = [thread EXCEPT ![t].at = step]

Return(t) == thread' = [thread EXCEPT ![t] = Idle]

-----------------------------------------------------------------------------
(* Headers, blocks and the spork. *)

ReceiveHeader(b) ==
    /\ b \in HeaderFirst
    /\ AcceptBlockHeader(b, FALSE)
    /\ UNCHANGED <<data, failed, tip, activating, act, spork, isEnabled, best,
                   lastNotify, seen, lastSigned, thread, history>>

\* ProcessNewBlock: AcceptBlock stores the block under cs_main, then
\* ActivateBestChain is called.
ReceiveBlock(b) ==
    /\ CsMainFree
    /\ b \notin data
    /\ \/ AcceptBlockHeader(b, TRUE)
       \/ /\ b \in index \ (conflict \cup failed)
          /\ UNCHANGED <<index, conflict, bestIndex>>
    /\ IF b \in conflict' THEN UNCHANGED <<data, activating>>
       ELSE data' = data \cup {b} /\ activating' = TRUE
    /\ UNCHANGED <<failed, tip, act, spork, isEnabled, best, lastNotify, seen,
                   lastSigned, thread, history>>

ProcessNewBlockActivates ==
    /\ activating
    /\ act = NoActivation
    /\ Iterate([NoActivation EXCEPT !.by = "block"])
    /\ activating' = FALSE
    /\ UNCHANGED <<index, data, spork, isEnabled, locks, seen,
                   lastSigned, thread, history>>

ActivateBestChain ==
    /\ act # NoActivation
    /\ Iterate(act)
    /\ UNCHANGED <<index, data, activating, spork, isEnabled, locks,
                   seen, lastSigned, thread, history>>

ChangeSpork ==
    /\ sporkChanges < MaxSporkChanges
    /\ spork' = ~spork
    /\ sporkChanges' = sporkChanges + 1
    /\ disturbed' = TRUE
    /\ UNCHANGED <<chain, isEnabled, locks, seen, lastSigned, thread>>

-----------------------------------------------------------------------------
(* CheckActiveState: isEnabled is an atomic read and then written without   *)
(* cs, and the reset takes cs afterwards.                                   *)

AfterCheck(t) == IF t = "sched" THEN "enforce" ELSE "seen"

\* The thread t enters CheckActiveState, on behalf of the lock l if it has one.
EnterCheck(t, l) ==
    /\ thread[t].at = "idle"
    /\ thread' = [thread EXCEPT ![t] = [Idle EXCEPT !.at = "write", !.old = isEnabled,
                                                    !.block = l]]

WriteEnabled(t) ==
    /\ thread[t].at = "write"
    /\ isEnabled' = spork
    /\ thread' = [thread EXCEPT ![t].old = FALSE,
                     ![t].at = IF ~thread[t].old /\ spork THEN "reset" ELSE AfterCheck(t)]
    /\ UNCHANGED <<chain, spork, locks, seen, lastSigned, history>>

\* Mutant: the reset forgets the block index of the lock.
ResetKeepsIndex(t) ==
    /\ thread[t].at = "reset"
    /\ best' = None /\ lastNotify' = None
    /\ disturbed' = TRUE
    /\ Goto(t, AfterCheck(t))
    /\ UNCHANGED <<chain, spork, isEnabled, bestIndex, seen, lastSigned,
                   sporkChanges>>

ResetLocks(t) ==
    /\ thread[t].at = "reset"
    /\ best' = None /\ bestIndex' = None /\ lastNotify' = None
    /\ disturbed' = (disturbed \/ best # None \/ lastNotify # None)
    /\ Goto(t, AfterCheck(t))
    /\ UNCHANGED <<chain, spork, isEnabled, seen, lastSigned, sporkChanges>>

-----------------------------------------------------------------------------
(* ProcessNewChainLock, for a CLSIG message or a recovered signature. *)

ReceiveClsig(l) ==
    /\ spork
    /\ EnterCheck("net", l)
    /\ UNCHANGED <<chain, spork, isEnabled, locks, seen, lastSigned, history>>

HandleNewRecoveredSig ==
    /\ isEnabled
    /\ lastSigned \in Locked
    /\ LockHeight(best) < Height(lastSigned)
    /\ EnterCheck("sig", lastSigned)
    /\ UNCHANGED <<chain, spork, isEnabled, locks, seen, lastSigned, history>>

CheckSeen(t) ==
    LET l == thread[t].block IN
    /\ thread[t].at = "seen"
    /\ seen' = seen \cup {l}
    /\ IF l \in seen \/ ~ChainLockSupersedesBest(l)
       THEN Return(t)
       ELSE Goto(t, "verify")
    /\ UNCHANGED <<chain, spork, isEnabled, locks, lastSigned, history>>

\* A paused height is dropped and stays seen.  Without the quorum that signed it
\* the lock cannot be checked and is forgotten, to be offered again.
LockNotVerified(t) ==
    LET l == thread[t].block IN
    /\ thread[t].at = "verify"
    /\ seen' = IF Height(l) \in Paused THEN seen ELSE seen \ {l}
    /\ Return(t)
    /\ UNCHANGED <<chain, spork, isEnabled, locks, lastSigned, history>>

\* The signature holds; the block is looked up under cs_main.
LockVerified(t) ==
    LET l == thread[t].block IN
    /\ CsMainFree
    /\ thread[t].at = "verify"
    /\ Height(l) \notin Paused
    /\ thread' = [thread EXCEPT ![t].known = (l \in index), ![t].at = "record"]
    /\ UNCHANGED <<chain, spork, isEnabled, locks, seen, lastSigned, history>>

RecordLock(t) ==
    LET l == thread[t].block IN
    /\ thread[t].at = "record"
    /\ IF ChainLockSupersedesBest(l)
       THEN /\ best' = l
            /\ bestIndex' = IF thread[t].known THEN l ELSE bestIndex
       ELSE UNCHANGED <<best, bestIndex>>
    /\ Return(t)
    /\ UNCHANGED <<chain, spork, isEnabled, lastNotify, seen, lastSigned, history>>

-----------------------------------------------------------------------------
(* The scheduler: CheckActiveState, EnforceBestChainLock, TrySignChainTip. *)

EnforceReturns == thread' = [thread EXCEPT !["sched"] = [Idle EXCEPT !.at = "sign"]]

ScheduledRun ==
    /\ EnterCheck("sched", None)
    /\ UNCHANGED <<chain, spork, isEnabled, locks, seen, lastSigned, history>>

EnforceReadsLock ==
    /\ thread["sched"].at = "enforce"
    /\ IF isEnabled /\ bestIndex # None
       THEN thread' = [thread EXCEPT !["sched"].block = bestIndex,
                                     !["sched"].at = "enforceBlock"]
       ELSE Goto("sched", "sign")
    /\ UNCHANGED <<chain, spork, isEnabled, locks, seen, lastSigned, history>>

EnforceMarks ==
    /\ thread["sched"].at = "enforceBlock"
    /\ act = NoActivation
    /\ EnforceBlock(thread["sched"].block)
    /\ Goto("sched", "activate")
    /\ UNCHANGED <<index, data, activating, act, spork, isEnabled, locks, seen,
                   lastSigned, history>>

EnforceActivates ==
    /\ thread["sched"].at = "activate"
    /\ CsMainFree
    /\ IF thread["sched"].block \in Chain[tip]
       THEN Goto("sched", "notify") /\ UNCHANGED <<tip, conflict, failed, act>>
       ELSE /\ act = NoActivation
            /\ Iterate([NoActivation EXCEPT !.by = "sched"])
            /\ Goto("sched", "activated")
    /\ UNCHANGED <<index, data, activating, spork, isEnabled, locks,
                   seen, lastSigned, history>>

\* Back from ActivateBestChain.
EnforceRechecks ==
    /\ thread["sched"].at = "activated"
    /\ act.by # "sched"
    /\ CsMainFree
    /\ IF thread["sched"].block \in Chain[tip] THEN Goto("sched", "notify")
       ELSE EnforceReturns
    /\ UNCHANGED <<chain, spork, isEnabled, locks, seen, lastSigned, history>>

EnforceNotifies ==
    /\ thread["sched"].at = "notify"
    /\ lastNotify' = thread["sched"].block
    /\ EnforceReturns
    /\ UNCHANGED <<chain, spork, isEnabled, best, bestIndex, seen, lastSigned,
                   history>>

SignableTip ==
    /\ isEnabled
    /\ spork
    /\ tip # Genesis
    /\ LockHeight(lastSigned) # Height(tip)
    /\ LockHeight(best) < Height(tip)
    /\ ~HasConflictingChainLock(tip)
    /\ Height(tip) \notin Paused

\* TrySignChainTip up to the InstantSend walk, Cleanup of the seen locks
\* included.
TrySignChecks ==
    /\ thread["sched"].at = "sign"
    /\ seen' \in IF SeenExpires THEN {seen, {}} ELSE {seen}
    /\ \/ Return("sched")
       \/ /\ SignableTip
          /\ CsMainFree
          /\ thread' = [thread EXCEPT !["sched"].block = tip, !["sched"].at = "signTip"]
    /\ UNCHANGED <<chain, spork, isEnabled, locks, lastSigned, history>>

\* After the walk only the best lock's height is looked at again.
TrySignSigns ==
    LET b == thread["sched"].block IN
    /\ thread["sched"].at = "signTip"
    /\ IF LockHeight(best) < Height(b)
       THEN lastSigned' = b
       ELSE UNCHANGED lastSigned
    /\ Return("sched")
    /\ UNCHANGED <<chain, spork, isEnabled, locks, seen, history>>

Scheduler ==
    \/ ScheduledRun \/ WriteEnabled("sched")
    \/ ResetLocks("sched") \/ EnforceReadsLock \/ EnforceMarks
    \/ EnforceActivates \/ EnforceRechecks \/ EnforceNotifies
    \/ TrySignChecks \/ TrySignSigns

ProcessNewChainLock(t) ==
    \/ WriteEnabled(t) \/ ResetLocks(t) \/ CheckSeen(t)
    \/ LockNotVerified(t) \/ LockVerified(t) \/ RecordLock(t)

Next ==
    \/ \E b \in Blocks \ {Genesis} : ReceiveHeader(b) \/ ReceiveBlock(b)
    \/ ProcessNewBlockActivates \/ ActivateBestChain
    \/ ChangeSpork
    \/ \E l \in Locked : ReceiveClsig(l)
    \/ HandleNewRecoveredSig
    \/ \E t \in Handlers : ProcessNewChainLock(t)
    \/ Scheduler

\* The scheduler runs the enforcement every five seconds (Start), and a caller
\* inside ActivateBestChain goes on.
Spec == Init /\ [][Next]_vars /\ WF_vars(Scheduler) /\ WF_vars(ActivateBestChain)

-----------------------------------------------------------------------------
(* Properties. *)

\* Every variable stays in its type.
TypeOK ==
    /\ index \subseteq Blocks /\ data \subseteq index
    /\ conflict \subseteq index /\ failed \subseteq data
    /\ tip \in data
    /\ act \in [by : {"none", "block", "sched"}, target : data \cup {None},
               start : data \cup {None}]
    /\ {activating, spork, isEnabled, disturbed} \subseteq BOOLEAN
    /\ {best, bestIndex, lastNotify} \subseteq Locked \cup {None}
    /\ seen \subseteq Locked
    /\ lastSigned \in Blocks \cup {None}
    /\ \A t \in Threads : thread[t].block \in Blocks \cup {None}
    /\ sporkChanges \in 0 .. MaxSporkChanges

\* No order of locks, headers, enforcements and resets makes the node flag a
\* block of the locked branch as conflicting or failed (EnforceBlock,
\* AcceptBlockHeader, ConnectBlock): such a flag is never taken back by the
\* handler, and the node would be off the locked chain for good.
LockedBranchUsable ==
    \A l \in Locked : Chain[l] \cap (conflict \cup failed) = {}

\* The lock that is enforced (bestChainLockBlockIndex) is the best lock or an
\* ancestor of it, and its header is known, whichever of the three threads
\* wrote or reset the two.
EnforcedLockOfBest ==
    bestIndex # None => best # None /\ bestIndex \in index \cap Chain[best]

\* The active tip as others see it: while cs_main is held, the one of before.
SeenTip == IF CsMainFree THEN tip ELSE act.start

\* The handler's state read as the abstract one.
Final == INSTANCE Finality WITH lock <- best, final <- lastNotify, tip <- SeenTip,
                                suspended <- disturbed, HeightOf <- Height

\* The handler implements the abstract finality: recorded locks rise although cs
\* is released between the first test and the record (ProcessNewChainLock),
\* announced ones move to descendants on the way to the best, and no
\* interleaving of blocks, headers, enforcement and the message threads takes
\* the active chain off an announced lock, unless the spork moves or
\* CheckActiveState's reset throws a lock away.
ImplementsFinality == Final!Spec

\* A lock whose chain the node holds does not stay off the active chain: again
\* and again the scheduled EnforceBestChainLock brings the tip onto it, unless
\* the lock is reset, a newer one has no block yet or the spork is off.
LockEventuallyActive ==
    []<>(isEnabled /\ bestIndex # None /\ Chain[bestIndex] \subseteq data
            => bestIndex \in Chain[tip])

\* "when the block or the header later comes in, we will enforce the correct
\* chain" (ProcessNewChainLock): the best lock whose header is known is the one
\* that is enforced, whenever no thread is inside ProcessNewChainLock.
LateHeaderEnforced ==
    (\A t \in Handlers : thread[t].at = "idle") /\ best \in index => bestIndex = best
=============================================================================
