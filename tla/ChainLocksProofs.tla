-------------------------- MODULE ChainLocksProofs --------------------------
(***************************************************************************)
(* For every tree of blocks, set of locks of one branch and number of      *)
(* spork changes: the enforced lock belongs to the best one, no block of   *)
(* the locked branch is ever flagged, and the handler implements Finality. *)
(***************************************************************************)
EXTENDS ChainLocks, BlockTreeProofs

Steps == {"idle", "write", "reset", "seen", "verify", "record", "enforce",
          "enforceBlock", "activate", "activated", "notify", "sign", "signTip"}

ThreadRecord == [at : Steps, old : BOOLEAN, block : Blocks \cup {None}, known : BOOLEAN]

Activations == [by : {"none", "block", "sched"}, target : Blocks \cup {None},
                start : Blocks \cup {None}]

\* The steps of EnforceBestChainLock that work on a lock.
Enforcing == {"enforceBlock", "activate", "activated", "notify"}

\* What the record r of the thread t may be: the lock of a handler in a call, and
\* of the scheduler that enforces, is one a quorum has signed.
RecordOK(t, r, headers) ==
    /\ r \in ThreadRecord
    /\ t \in Handlers => /\ r.at # "idle" => r.block \in Locked
                         /\ r.known => r.block \in headers
    /\ t = "sched" /\ r.at \in Enforcing => r.block \in Locked

ThreadsInv ==
    /\ thread \in [Threads -> ThreadRecord]
    /\ \A t \in Threads : RecordOK(t, thread[t], index)

\* Types.
TypeInv ==
    /\ index \subseteq Blocks /\ data \subseteq Blocks /\ tip \in Blocks
    /\ act \in Activations
    /\ spork \in BOOLEAN /\ isEnabled \in BOOLEAN /\ disturbed \in BOOLEAN
    /\ best \in Locked \cup {None} /\ bestIndex \in Locked \cup {None}
    /\ lastNotify \in Locked \cup {None}
    /\ ThreadsInv

\* The active chain and the one being activated have their blocks, and an
\* activation never aims below the tip.
ActiveInv ==
    /\ Chain[tip] \subseteq data
    /\ act.target # None => Chain[act.target] \subseteq data /\ Height(act.target) >= Height(tip)

SafeInv == TypeInv /\ ActiveInv /\ EnforcedLockOfBest /\ LockedBranchUsable

-----------------------------------------------------------------------------
(* Locks and conflicts. *)

\* Of two locks the lower one is an ancestor of the higher.
LEMMA LocksOrdered ==
    ASSUME NEW l \in Locked, NEW m \in Locked, Height(l) > Height(m)
    PROVE  m \in Chain[l]
<1>1. l \in Blocks /\ m \in Blocks /\ Height(l) \in Nat /\ Height(m) \in Nat
  BY LockedOneBranch, HeightType, Zenon
<1>2. l \notin Chain[m]
  BY <1>1, HeightOfAncestor
<1> QED BY <1>2, LockedOneBranch, Zenon

\* A block of the locked branch conflicts with no lock.
LEMMA LockedNeverConflicts ==
    ASSUME NEW l \in Locked, NEW b \in Chain[l], bestIndex \in Locked \cup {None}
    PROVE  ~HasConflictingChainLock(b)
<1> SUFFICES ASSUME bestIndex \in Locked, Height(b) <= Height(bestIndex),
                    b \notin Chain[bestIndex]
             PROVE  FALSE
  BY Zenon DEF HasConflictingChainLock
<1>1. l \in Blocks /\ bestIndex \in Blocks
  BY LockedOneBranch, Zenon
<1>2. CASE l \in Chain[bestIndex]
  BY <1>1, <1>2, ChainTransitive, Zenon
<1>3. CASE bestIndex \in Chain[l]
  BY <1>1, <1>3, LowerIsAncestor, Zenon
<1> QED BY <1>2, <1>3, LockedOneBranch, Zenon

\* A block as low as an announced lock that does not conflict is in its chain.
LEMMA NoConflictBelow ==
    ASSUME isEnabled, bestIndex \in Locked, NEW p \in Chain[bestIndex], NEW y \in Blocks,
           Height(y) = Height(p), ~HasConflictingChainLock(y)
    PROVE  y = p
<1>1. bestIndex \in Blocks /\ bestIndex # None
  BY LockedOneBranch, Zenon
<1>2. Height(p) <= Height(bestIndex)
  BY <1>1, HeightOfAncestor, Zenon
<1>3. y \in Chain[bestIndex]
  BY <1>1, <1>2, Zenon DEF HasConflictingChainLock
<1> QED BY <1>1, <1>3, SameHeight, Zenon

-----------------------------------------------------------------------------
(* EnforceBlock. *)

\* The siblings and the disconnected blocks are not on the locked branch.
LEMMA EnforceSparesLocked ==
    ASSUME TypeInv, LockedBranchUsable, NEW l \in Locked, EnforceBlock(l)
    PROVE  LockedBranchUsable'
<1> DEFINE walked == Chain[l] \ Chain[tip]
           parents == {Parent[w] : w \in walked}
           siblings == {s \in index \ Chain[l] : s # Genesis /\ Parent[s] \in parents}
           cut == siblings \cap Chain[tip] # {}
           disconnected == IF cut THEN Chain[tip] \ Chain[l] ELSE {}
<1>1. /\ conflict' = conflict \cup siblings \cup disconnected
      /\ failed' \subseteq failed
  BY Zenon DEF EnforceBlock
<1>2. l \in Blocks /\ tip \in Blocks /\ index \subseteq Blocks
  BY LockedOneBranch, Zenon DEF TypeInv
<1> SUFFICES ASSUME NEW m \in Locked, NEW c \in Chain[m], c \in siblings \cup disconnected
             PROVE  FALSE
  BY <1>1, Zenon DEF LockedBranchUsable
<1>3. m \in Blocks /\ c \in Blocks /\ c \notin Chain[l]
  BY LockedOneBranch, ChainSelf, Zenon
<1>4. l \in Chain[m]
  <2>1. m \notin Chain[l]
    BY <1>2, <1>3, ChainTransitive, Zenon
  <2> QED BY <2>1, LockedOneBranch, Zenon
<1>5. l \in Chain[c]
  BY <1>3, <1>4, ChainLinear, Zenon
<1>6. CASE c \in siblings
  <2>1. PICK w \in walked : Parent[c] = Parent[w]
    BY <1>6, Zenon
  <2>2. w \in Blocks /\ w # Genesis /\ c # Genesis /\ w \in Chain[l]
    BY <1>2, <1>6, ChainSelf, TreeAssumption, Zenon
  <2>3. w \in Chain[c] /\ w # c
    BY <1>3, <1>5, <2>2, ChainTransitive, Zenon
  <2>4. w \in Chain[Parent[c]]
    BY <1>3, <2>2, <2>3, ChainOfParent, Zenon
  <2> QED BY <2>1, <2>2, <2>4, TreeAssumption, Zenon
<1>7. CASE c \in disconnected
  <2>1. cut /\ c \in Chain[tip]
    BY <1>7, Zenon
  <2>2. l \in Chain[tip]
    BY <1>2, <1>5, <2>1, ChainTransitive, Zenon
  <2>3. walked = {}
    BY <1>2, <2>2, ChainTransitive, Zenon
  <2> QED BY <2>1, <2>3, Zenon
<1> QED BY <1>6, <1>7, Zenon

\* The tip moves down the active chain if at all, to the highest block it shares
\* with the lock.
LEMMA EnforceMovesTip ==
    ASSUME tip \in Blocks, NEW l \in Blocks, EnforceBlock(l)
    PROVE  /\ tip' \in Chain[tip]
           /\ \A p \in Chain[tip] : p \in Chain[l] => p \in Chain[tip']
<1> DEFINE S == Chain[tip] \cap Chain[l]
<1>1. tip' = tip \/ tip' = Highest(S)
  BY Zenon DEF EnforceBlock
<1>2. CASE tip' = tip
  BY <1>2, ChainSelf, Zenon
<1>3. CASE tip' = Highest(S)
  <2>1. S \in SUBSET Chain[tip] /\ S # {}
    BY TreeAssumption, Zenon
  <2>2. Highest(S) \in S /\ \A c \in S : Height(Highest(S)) >= Height(c)
    <3> HIDE DEF S
    <3> QED BY <2>1, HighestIn, Zenon
  <2>3. ASSUME NEW p \in Chain[tip], p \in Chain[l]
        PROVE  p \in Chain[Highest(S)]
    <3>1. Height(p) <= Height(Highest(S)) /\ Highest(S) \in Chain[tip]
      <4>1. Height(p) \in Nat /\ Height(Highest(S)) \in Nat
        BY <2>2, ChainSelf, HeightType, Zenon
      <4> QED BY <2>2, <2>3, <4>1, Zenon
    <3> QED BY <3>1, LowerIsAncestor
  <2> QED BY <1>3, <2>2, <2>3, Zenon
<1> QED BY <1>1, <1>2, <1>3, Zenon

-----------------------------------------------------------------------------
(* ActivateBestChain. *)

\* A step toward m ends on m's chain, connects only blocks that conflict with no
\* lock, and what it flags is not on the locked branch.
LEMMA StepKeeps ==
    ASSUME TypeInv, NEW m \in Blocks, Height(m) >= Height(tip)
    PROVE  LET step == StepToward(m)
           IN  /\ step.tip \in Chain[m] /\ step.target \in {m, None}
               /\ \A y \in Path(tip, step.tip) : ~HasConflictingChainLock(y)
               /\ \A l \in Locked : \A c \in Chain[l] : c \in step.failed => c \in failed
<1> DEFINE goal == IF Height(m) <= Height(tip) THEN m
                   ELSE CHOOSE b \in Chain[m] : Height(b) = Height(tip) + 1
           refused == {b \in Path(tip, goal) : HasConflictingChainLock(b)}
           r == Lowest(refused)
           base == Parent[r]
           step == StepToward(m)
<1>1. tip \in Blocks /\ bestIndex \in Locked \cup {None}
  BY Zenon DEF TypeInv
<1>2. Height(m) \in Nat /\ Height(tip) \in Nat
  BY <1>1, HeightType, Zenon
<1>3. goal \in Chain[m]
  <2>1. CASE Height(m) <= Height(tip)
    BY <2>1, ChainSelf, Zenon
  <2>2. CASE ~(Height(m) <= Height(tip))
    <3>1. \E b \in Chain[m] : Height(b) = Height(tip) + 1
      <4> DEFINE k == Height(tip) + 1
      <4>1. k \in Nat /\ k <= Height(m)
        BY <1>2, <2>2
      <4> HIDE DEF k
      <4>2. \E b \in Chain[m] : Height(b) = k
        BY <4>1, ChainHasHeight, Zenon
      <4> QED BY <4>2, Zenon DEF k
    <3> QED BY <2>2, <3>1, Zenon
  <2> QED BY <2>1, <2>2, Zenon
<1>4. step = IF refused = {} THEN [tip |-> goal, failed |-> failed, target |-> m]
             ELSE [tip |-> base, failed |-> failed \cup (Chain[m] \ Chain[base]),
                   target |-> None]
  BY Zenon DEF StepToward
<1> HIDE DEF goal, step
<1>5. goal \in Blocks /\ Chain[goal] \subseteq Chain[m]
  BY <1>3, ChainTransitive, Zenon
<1>6. CASE refused = {}
  <2>1. step.tip = goal /\ step.failed = failed /\ step.target = m
    BY <1>4, <1>6, Zenon
  <2> QED BY <1>3, <1>6, <2>1, Zenon DEF step
<1>7. CASE refused # {}
  <2>1. /\ step.tip = base /\ step.failed = failed \cup (Chain[m] \ Chain[base])
        /\ step.target = None
    BY <1>4, <1>7, Zenon
  <2>2. refused \in SUBSET Blocks
    BY <1>5, ChainSelf, Zenon DEF Path
  <2>3. r \in refused /\ \A c \in refused : Height(r) <= Height(c)
    <3> HIDE DEF refused
    <3> QED BY <1>7, <2>2, LowestIn, Zenon
  <2> HIDE DEF r
  <2>4. /\ r \in Blocks /\ r # Genesis /\ r \in Chain[goal] /\ r \in Chain[m]
        /\ HasConflictingChainLock(r)
    BY <1>1, <1>5, <2>2, <2>3, TreeAssumption, Zenon DEF Path
  <2>5. base \in Blocks /\ base \in Chain[goal] /\ Chain[r] = {r} \cup Chain[base]
    BY <1>5, <2>4, ChainClosed, ChainOfParent, Zenon
  <2>6. base \in Chain[m] /\ Height(r) = Height(base) + 1 /\ Height(base) \in Nat
    BY <1>5, <2>4, <2>5, HeightOfParent, HeightType, Zenon
  <2> HIDE DEF base
  <2>7. ASSUME NEW y \in Path(tip, base)
        PROVE  ~HasConflictingChainLock(y)
    <3>1. y \in Chain[base] /\ y \in Path(tip, goal)
      BY <1>5, <2>5, ChainTransitive, Zenon DEF Path
    <3>2. Height(y) <= Height(base) /\ Height(y) \in Nat
      BY <2>5, <3>1, HeightOfAncestor, HeightType, Zenon
    <3>3. y \notin refused
      BY <2>3, <2>6, <3>2
    <3> QED BY <3>1, <3>3, Zenon
  <2>8. ASSUME NEW l \in Locked, NEW c \in Chain[l], c \in Chain[m], c \notin Chain[base]
        PROVE  FALSE
    <3>1. l \in Blocks /\ c \in Blocks
      BY LockedOneBranch, ChainSelf, Zenon
    <3>2. r \notin Chain[l]
      BY <1>1, <2>4, LockedNeverConflicts, Zenon
    <3>3. r \notin Chain[c]
      BY <3>1, <3>2, ChainTransitive, Zenon
    <3>4. c \in Chain[r]
      BY <2>4, <2>8, <3>3, ChainLinear, Zenon
    <3>5. c = r
      BY <2>5, <2>8, <3>4, Zenon
    <3> QED BY <3>2, <3>5, <2>8, Zenon
  <2> QED BY <2>1, <2>6, <2>7, <2>8, Zenon DEF step
<1> QED BY <1>6, <1>7, Zenon

\* What the handler promises of a lock p that is announced or about to be: it is
\* below the enforced lock, its chain is there, it is in the active chain as
\* others see it, no chain of its height or higher is without it, and no
\* activation aims below it.
Kept(p) ==
    /\ p \in Locked /\ isEnabled
    /\ bestIndex # None /\ p \in Chain[bestIndex]
    /\ Chain[p] \subseteq data
    /\ p \in Chain[SeenTip]
    /\ Height(tip) >= Height(p) => p \in Chain[tip]
    /\ act.target # None => Height(act.target) >= Height(p)

\* The most-work chain is at least as high as the tip and as every kept lock,
\* which is a candidate because its branch is never flagged.
LEMMA MostWorkHigh ==
    ASSUME SafeInv, NEW m \in FindMostWorkChain
    PROVE  /\ m \in Blocks /\ Chain[m] \subseteq data /\ Height(m) >= Height(tip)
           /\ \A p \in Locked : Chain[p] \subseteq data => Height(m) >= Height(p)
<1> DEFINE C == Candidates(tip, failed)
<1>1. /\ tip \in Blocks /\ data \subseteq Blocks /\ Chain[tip] \subseteq data
      /\ Height(tip) \in Nat
  BY HeightType, Zenon DEF SafeInv, TypeInv, ActiveInv
<1>2. C \subseteq Blocks
  BY <1>1, Zenon DEF Candidates
<1>3. tip \in C
  BY <1>1, ChainSelf, Zenon DEF Candidates, Path
<1>4. ASSUME NEW p \in Locked, Chain[p] \subseteq data
      PROVE  p \in C
  <2>1. p \in data /\ Chain[p] \cap (conflict \cup failed) = {}
    BY <1>4, LockedOneBranch, ChainSelf, Zenon DEF SafeInv, LockedBranchUsable
  <2> QED BY <1>4, <2>1, Zenon DEF Candidates, Path
<1>5. m \in C /\ \A c \in C : Height(m) >= Height(c)
  <2>1. m \in MostWork(C)
    BY Zenon DEF FindMostWorkChain
  <2>2. \A c \in C : Height(c) \in Nat
    BY <1>2, HeightType, Zenon
  <2> QED BY <2>1, <2>2, Zenon DEF MostWork
<1>6. Chain[m] \subseteq data
  BY <1>1, <1>5, Zenon DEF Candidates, Path
<1> QED BY <1>2, <1>3, <1>4, <1>5, <1>6, Zenon

\* What FindMostWorkChain strikes out is above a flagged block, so it is not on
\* the locked branch.
LEMMA StruckOutSparesLocked ==
    ASSUME TypeInv, LockedBranchUsable, NEW m, NEW l \in Locked
    PROVE  Chain[l] \cap StruckOut(m) = {}
<1> SUFFICES ASSUME NEW c \in Chain[l], c \in StruckOut(m)
             PROVE  FALSE
  BY Zenon
<1>1. PICK f \in Chain[c] : f \in conflict \cup failed
  BY Zenon DEF StruckOut, Path
<1>2. f \in Chain[l]
  BY <1>1, LockedOneBranch, ChainTransitive, Zenon
<1> QED BY <1>1, <1>2, Zenon DEF LockedBranchUsable

\* One iteration, for the caller a that is inside or enters.
LEMMA IterateFacts ==
    ASSUME SafeInv, NEW a \in Activations, Iterate(a),
           a.target = act.target, a.start = act.start
    PROVE  \E m \in Blocks :
              /\ Chain[m] \subseteq data /\ Height(m) >= Height(tip)
              /\ act.target # None => m = act.target
              /\ act.target = None => \A p \in Locked : Chain[p] \subseteq data => Height(m) >= Height(p)
              /\ tip' \in Chain[m]
              /\ m = tip => tip' = tip
              /\ \A y \in Path(tip, tip') : ~HasConflictingChainLock(y)
              /\ \A l \in Locked : \A c \in Chain[l] :
                     (c \in conflict' => c \in conflict) /\ (c \in failed' => c \in failed)
              /\ act' \in Activations
              /\ act'.target \in {m, None}
              /\ \/ act'.start = SeenTip
                 \/ /\ act'.start = None
                    /\ m = tip \/ tip' = SeenTip \/ Height(tip') > Height(SeenTip)
<1>1. /\ tip \in Blocks /\ act \in Activations /\ None \notin Blocks
      /\ SeenTip \in Blocks /\ SeenTip = IF a.start = None THEN tip ELSE a.start
  BY LockedOneBranch, Zenon DEF SafeInv, TypeInv, Activations, SeenTip, CsMainFree
<1>2. PICK m \in IF a.target = None THEN FindMostWorkChain ELSE {a.target} :
        LET struck == IF a.target = None THEN StruckOut(m) ELSE {}
            unusable == {c \in struck : NearestFlagged(c) \in failed}
            step == IF m = tip THEN [tip |-> tip, failed |-> failed, target |-> m]
                    ELSE StepToward(m)
            start == IF a.start = None THEN tip ELSE a.start
            behind == m # tip /\ Worse(step.tip, start)
        IN  /\ tip' = step.tip
            /\ failed' = step.failed \cup unusable
            /\ conflict' = conflict \cup (struck \ unusable)
            /\ act' = IF step.tip = step.target /\ ~behind THEN NoActivation
                      ELSE [a EXCEPT !.target = step.target,
                                     !.start = IF behind THEN start ELSE None]
  BY Zenon DEF Iterate
<1> DEFINE struck == IF a.target = None THEN StruckOut(m) ELSE {}
           step == IF m = tip THEN [tip |-> tip, failed |-> failed, target |-> m]
                   ELSE StepToward(m)
           behind == m # tip /\ Worse(step.tip, SeenTip)
<1>3. /\ tip' = step.tip
      /\ failed' \subseteq step.failed \cup struck
      /\ conflict' \subseteq conflict \cup struck
      /\ act' = IF step.tip = step.target /\ ~behind THEN NoActivation
                ELSE [a EXCEPT !.target = step.target,
                               !.start = IF behind THEN SeenTip ELSE None]
  BY <1>1, <1>2, Zenon
<1>4. /\ m \in Blocks /\ Chain[m] \subseteq data /\ Height(m) >= Height(tip)
      /\ act.target # None => m = act.target
      /\ act.target = None => \A p \in Locked : Chain[p] \subseteq data => Height(m) >= Height(p)
  <2>1. CASE a.target = None
    BY <2>1, MostWorkHigh, Zenon
  <2>2. CASE a.target # None
    BY <1>1, <2>2, Zenon DEF SafeInv, ActiveInv, Activations
  <2> QED BY <2>1, <2>2, Zenon
<1>5. /\ step.tip \in Chain[m] /\ step.target \in {m, None}
      /\ \A y \in Path(tip, step.tip) : ~HasConflictingChainLock(y)
      /\ \A l \in Locked : \A c \in Chain[l] : c \in step.failed => c \in failed
  <2>1. CASE m = tip
    BY <1>4, <2>1, ChainSelf, Zenon DEF Path
  <2>2. CASE m # tip
    BY <1>4, <2>2, StepKeeps, Zenon DEF SafeInv
  <2> QED BY <2>1, <2>2, Zenon
<1>6. m = tip => step.tip = tip
  BY Zenon
<1>7. \A l \in Locked : Chain[l] \cap struck = {}
  BY StruckOutSparesLocked, Zenon DEF SafeInv
<1> HIDE DEF step, struck
<1>8. step.tip \in Blocks /\ Height(step.tip) \in Nat /\ Height(SeenTip) \in Nat
  BY <1>1, <1>4, <1>5, ChainSelf, HeightType, Zenon
<1>9. /\ act' \in Activations
      /\ act'.target \in {m, None}
      /\ \/ act'.start = SeenTip
         \/ /\ act'.start = None
            /\ m = tip \/ step.tip = SeenTip \/ Height(step.tip) > Height(SeenTip)
  <2>1. ~behind => m = tip \/ step.tip = SeenTip \/ Height(step.tip) > Height(SeenTip)
    BY <1>8 DEF Worse
  <2> HIDE DEF behind
  <2>2. CASE behind
    <3>1. act' = [a EXCEPT !.target = step.target, !.start = SeenTip]
      BY <1>3, <2>2, Zenon
    <3> QED BY <1>1, <1>4, <1>5, <3>1, Zenon DEF Activations
  <2>3. CASE ~behind
    <3>1. act' = NoActivation \/ act' = [a EXCEPT !.target = step.target, !.start = None]
      BY <1>3, <2>3, Zenon
    <3>2. CASE act' = NoActivation
      BY <2>1, <2>3, <3>2, Zenon DEF Activations, NoActivation
    <3>3. CASE act' = [a EXCEPT !.target = step.target, !.start = None]
      BY <1>4, <1>5, <2>1, <2>3, <3>3, Zenon DEF Activations
    <3> QED BY <3>1, <3>2, <3>3, Zenon
  <2> QED BY <2>2, <2>3, Zenon
<1>10. \A l \in Locked : \A c \in Chain[l] :
           (c \in conflict' => c \in conflict) /\ (c \in failed' => c \in failed)
  BY <1>3, <1>5, <1>7, Zenon
<1> QED BY <1>3, <1>4, <1>5, <1>6, <1>8, <1>9, <1>10, Zenon

\* An iteration keeps the active chain stored, the locked branch unflagged and
\* every kept lock kept.
LEMMA IterateKeeps ==
    ASSUME SafeInv, NEW a \in Activations, Iterate(a),
           a.target = act.target, a.start = act.start,
           data' = data, isEnabled' = isEnabled, bestIndex' = bestIndex
    PROVE  /\ tip' \in Blocks /\ act' \in Activations
           /\ ActiveInv' /\ LockedBranchUsable'
           /\ \A p \in Locked : Kept(p) => Kept(p)'
           /\ SeenTip \in Blocks /\ SeenTip' \in Blocks
<1>1. PICK m \in Blocks :
              /\ Chain[m] \subseteq data /\ Height(m) >= Height(tip)
              /\ act.target # None => m = act.target
              /\ act.target = None => \A p \in Locked : Chain[p] \subseteq data => Height(m) >= Height(p)
              /\ tip' \in Chain[m]
              /\ m = tip => tip' = tip
              /\ \A y \in Path(tip, tip') : ~HasConflictingChainLock(y)
              /\ \A l \in Locked : \A c \in Chain[l] :
                     (c \in conflict' => c \in conflict) /\ (c \in failed' => c \in failed)
              /\ act' \in Activations
              /\ act'.target \in {m, None}
              /\ \/ act'.start = SeenTip
                 \/ /\ act'.start = None
                    /\ m = tip \/ tip' = SeenTip \/ Height(tip') > Height(SeenTip)
  BY IterateFacts, Zenon
<1>2. /\ tip \in Blocks /\ act \in Activations /\ None \notin Blocks /\ SeenTip \in Blocks
      /\ bestIndex \in Locked \cup {None}
  BY LockedOneBranch, Zenon DEF SafeInv, TypeInv, Activations, SeenTip, CsMainFree
<1>3. tip' \in Blocks /\ Chain[tip'] \subseteq Chain[m]
  BY <1>1, ChainTransitive, Zenon
<1>4. /\ Height(tip) \in Nat /\ Height(tip') \in Nat /\ Height(SeenTip) \in Nat
      /\ Height(m) \in Nat /\ Height(tip') <= Height(m)
  BY <1>1, <1>2, <1>3, HeightType, HeightOfAncestor, Zenon
<1>5. ActiveInv'
  BY <1>1, <1>3, <1>4, Zenon DEF ActiveInv
<1>6. LockedBranchUsable'
  BY <1>1, Zenon DEF SafeInv, LockedBranchUsable
<1>7. SeenTip' = IF act'.start = None THEN tip' ELSE act'.start
  BY Zenon DEF SeenTip, CsMainFree
<1>8. SeenTip' \in Blocks
  BY <1>1, <1>2, <1>3, <1>7, Zenon
<1>9. ASSUME NEW p \in Locked, Kept(p)
      PROVE  Kept(p)'
  <2>1. /\ p \in Blocks /\ Height(p) \in Nat /\ isEnabled /\ bestIndex \in Locked
        /\ p \in Chain[bestIndex] /\ Chain[p] \subseteq data /\ p \in Chain[SeenTip]
        /\ Height(tip) >= Height(p) => p \in Chain[tip]
    BY <1>2, <1>9, LockedOneBranch, HeightType, Zenon DEF Kept
  <2>2. Height(m) >= Height(p)
    BY <1>1, <1>9, <2>1, Zenon DEF Kept
  <2>3. Height(SeenTip) >= Height(p)
    BY <1>2, <1>4, <2>1, HeightOfAncestor, Zenon
  <2>4. ASSUME Height(tip') >= Height(p)
        PROVE  p \in Chain[tip']
    <3>1. PICK y \in Chain[tip'] : Height(y) = Height(p)
      BY <1>3, <1>4, <2>1, <2>4, ChainHasHeight, Zenon
    <3>2. y \in Blocks
      BY <1>3, <3>1, ChainSelf, Zenon
    <3>3. CASE y \in Chain[tip]
      <4>1. Height(tip) >= Height(p)
        BY <1>2, <1>4, <2>1, <3>1, <3>3, HeightOfAncestor, ZenonT(30)
      <4> QED BY <1>2, <2>1, <3>1, <3>3, <4>1, SameHeight, ZenonT(30)
    <3>4. CASE y \notin Chain[tip]
      <4>1. ~HasConflictingChainLock(y)
        BY <1>1, <3>1, <3>4, Zenon DEF Path
      <4> QED BY <2>1, <3>1, <3>2, <4>1, NoConflictBelow, Zenon
    <3> QED BY <3>3, <3>4, Zenon
  <2>5. p \in Chain[SeenTip']
    <3>1. CASE act'.start = SeenTip
      BY <1>2, <1>7, <2>1, <3>1, Zenon
    <3>2. CASE act'.start = None /\ m = tip
      BY <1>1, <1>7, <2>2, <2>4, <3>2, ZenonT(30)
    <3>3. CASE act'.start = None /\ tip' = SeenTip
      BY <1>7, <2>1, <3>3, Zenon
    <3>4. CASE act'.start = None /\ Height(tip') > Height(SeenTip)
      <4>1. Height(tip') >= Height(p)
        BY <1>4, <2>1, <2>3, <3>4, SMTT(30)
      <4> QED BY <1>7, <2>4, <3>4, <4>1, Zenon
    <3> QED BY <1>1, <3>1, <3>2, <3>3, <3>4, Zenon
  <2>6. act'.target # None => Height(act'.target) >= Height(p)
    BY <1>1, <2>2, Zenon
  <2> QED BY <2>1, <2>4, <2>5, <2>6, LockedOneBranch, ZenonT(30) DEF Kept
<1> QED BY <1>1, <1>2, <1>3, <1>5, <1>6, <1>8, <1>9, Zenon

-----------------------------------------------------------------------------
(* Steps of the threads. *)

\* A thread that gets a proper record.
LEMMA ThreadStep ==
    ASSUME ThreadsInv, NEW t \in Threads, NEW r, RecordOK(t, r, index'),
           thread' = [thread EXCEPT ![t] = r], index \subseteq index'
    PROVE  ThreadsInv' /\ thread'[t] = r /\ \A u \in Threads \ {t} : thread'[u] = thread[u]
<1>1. thread'[t] = r /\ \A u \in Threads \ {t} : thread'[u] = thread[u]
  BY Zenon DEF ThreadsInv
<1>2. thread' \in [Threads -> ThreadRecord]
  BY Zenon DEF ThreadsInv, RecordOK
<1>3. \A u \in Threads : RecordOK(u, thread'[u], index')
  BY <1>1, Zenon DEF ThreadsInv, RecordOK
<1> QED BY <1>1, <1>2, <1>3, Zenon DEF ThreadsInv

\* A thread that goes on with its lock.
LEMMA GotoKeeps ==
    ASSUME ThreadsInv, NEW t \in Threads, NEW step \in Steps, Goto(t, step),
           index' = index, thread[t].at # "idle",
           t = "sched" /\ step \in Enforcing => thread[t].at \in Enforcing
    PROVE  /\ ThreadsInv' /\ thread'[t] = [thread[t] EXCEPT !.at = step]
           /\ \A u \in Threads \ {t} : thread'[u] = thread[u]
<1> DEFINE r == [thread[t] EXCEPT !.at = step]
<1>1. thread' = [thread EXCEPT ![t] = r]
  BY Zenon DEF Goto
<1>2. RecordOK(t, thread[t], index)
  BY Zenon DEF ThreadsInv
<1>3. RecordOK(t, r, index')
  BY <1>2, Zenon DEF RecordOK, ThreadRecord
<1> HIDE DEF r
<1>4. ThreadsInv' /\ thread'[t] = r /\ \A u \in Threads \ {t} : thread'[u] = thread[u]
  BY <1>1, <1>3, ThreadStep, Zenon
<1> QED BY <1>4, Zenon DEF r

\* A thread that is back.
LEMMA ReturnKeeps ==
    ASSUME ThreadsInv, NEW t \in Threads, index' = index, Return(t)
    PROVE  /\ ThreadsInv' /\ thread'[t].at = "idle"
           /\ \A u \in Threads \ {t} : thread'[u] = thread[u]
<1>1. RecordOK(t, Idle, index')
  BY Zenon DEF RecordOK, ThreadRecord, Idle, Steps, Enforcing
<1>2. thread' = [thread EXCEPT ![t] = Idle]
  BY Zenon DEF Return
<1>3. /\ ThreadsInv' /\ thread'[t] = Idle
      /\ \A u \in Threads \ {t} : thread'[u] = thread[u]
  BY <1>1, <1>2, ThreadStep, Zenon
<1> QED BY <1>3 DEF Idle

\* The scheduler that leaves the enforcement.
LEMMA EnforceReturnsKeeps ==
    ASSUME ThreadsInv, index' = index, EnforceReturns
    PROVE  ThreadsInv' /\ thread'["sched"].at = "sign"
<1> DEFINE back == [Idle EXCEPT !.at = "sign"]
<1>1. back \in ThreadRecord /\ back.at = "sign" /\ ~back.known
  BY Zenon DEF ThreadRecord, Idle, Steps
<1>2. thread' = [thread EXCEPT !["sched"] = back] /\ "sched" \in Threads
  BY Zenon DEF EnforceReturns, Threads
<1> HIDE DEF back
<1>3. RecordOK("sched", back, index')
  BY <1>1, Zenon DEF RecordOK, Handlers, Enforcing
<1> QED BY <1>1, <1>2, <1>3, ThreadStep, Zenon

-----------------------------------------------------------------------------
(* The inductive invariant. *)

\* As long as no lock was wiped and the spork has not moved: the announced lock
\* is kept; the lock the scheduler works on is below the enforced one and above
\* the announced one; and once it is about to be announced it is kept.
FinalInv ==
    ~disturbed =>
        /\ spork
        /\ lastNotify # None => Kept(lastNotify)
        /\ thread["sched"].at \in Enforcing =>
               /\ isEnabled /\ bestIndex # None
               /\ thread["sched"].block \in Chain[bestIndex]
               /\ lastNotify # None => lastNotify \in Chain[thread["sched"].block]
        /\ thread["sched"].at = "notify" => Kept(thread["sched"].block)

\* A step that leaves the active chain where it is, and the enforced lock where
\* it is or on a descendant.
LocksRise ==
    /\ tip' = tip /\ act' = act /\ data \subseteq data'
    /\ lastNotify' = lastNotify /\ spork' = spork /\ disturbed' = disturbed
    /\ ~disturbed /\ isEnabled => isEnabled'
    /\ bestIndex' \in Locked \cup {None}
    /\ bestIndex # None => bestIndex' # None /\ bestIndex \in Chain[bestIndex']
    /\ thread'["sched"] = thread["sched"] \/ thread'["sched"].at \notin Enforcing

\* What is kept below the enforced lock stays kept below a descendant of it.
LEMMA LocksRiseKeeps ==
    ASSUME TypeInv, FinalInv, LocksRise
    PROVE  FinalInv'
<1> SUFFICES ASSUME ~disturbed
             PROVE  FinalInv'
  BY Zenon DEF FinalInv, LocksRise
<1>1. ASSUME NEW x, bestIndex # None, x \in Chain[bestIndex]
      PROVE  bestIndex' # None /\ x \in Chain[bestIndex']
  <2>1. bestIndex' \in Blocks /\ bestIndex \in Chain[bestIndex']
    BY <1>1, LockedOneBranch, Zenon DEF LocksRise
  <2>2. Chain[bestIndex] \subseteq Chain[bestIndex']
    BY <2>1, ChainTransitive, Zenon
  <2> QED BY <1>1, <2>1, <2>2, LockedOneBranch, Zenon
<1>2. SeenTip' = SeenTip
  BY Zenon DEF SeenTip, CsMainFree, LocksRise
<1>3. ASSUME NEW p, Kept(p)
      PROVE  Kept(p)'
  <2>1. bestIndex' # None /\ p \in Chain[bestIndex']
    BY <1>1, <1>3, Zenon DEF Kept
  <2> QED BY <1>2, <1>3, <2>1, Zenon DEF Kept, LocksRise
<1>4. spork' /\ (lastNotify' # None => Kept(lastNotify)')
  <2>1. CASE lastNotify = None
    BY <2>1, Zenon DEF FinalInv, LocksRise
  <2>2. CASE lastNotify # None
    <3>1. Kept(lastNotify)
      BY <2>2, Zenon DEF FinalInv
    <3> QED BY <1>2, <1>1, <3>1, Zenon DEF Kept, LocksRise, FinalInv
  <2> QED BY <2>1, <2>2, Zenon
<1>5. CASE thread'["sched"].at \notin Enforcing
  BY <1>4, <1>5, Zenon DEF FinalInv, Enforcing
<1>6. CASE thread'["sched"] = thread["sched"] /\ thread["sched"].at \in Enforcing
  <2> DEFINE b == thread["sched"].block
  <2>1. /\ isEnabled /\ bestIndex # None /\ b \in Chain[bestIndex]
        /\ lastNotify # None => lastNotify \in Chain[b]
    BY <1>6, Zenon DEF FinalInv
  <2>2. isEnabled' /\ bestIndex' # None /\ b \in Chain[bestIndex']
    BY <1>1, <2>1, Zenon DEF LocksRise
  <2>3. thread'["sched"].at = "notify" => Kept(thread["sched"].block)'
    <3>1. CASE thread["sched"].at = "notify"
      <4>1. Kept(b)
        BY <3>1, Zenon DEF FinalInv
      <4> QED BY <1>1, <1>2, <1>6, <4>1, Zenon DEF Kept, LocksRise
    <3> QED BY <1>6, <3>1, Zenon
  <2> QED BY <1>4, <1>6, <2>1, <2>2, <2>3, Zenon DEF FinalInv, LocksRise
<1> QED BY <1>5, <1>6, Zenon DEF LocksRise

\* A step of a thread that touches nothing but its record.
LEMMA ThreadMoves ==
    ASSUME SafeInv, FinalInv, ThreadsInv', UNCHANGED <<chain, spork, isEnabled, locks, disturbed>>,
           thread'["sched"] = thread["sched"] \/ thread'["sched"].at \notin Enforcing
    PROVE  SafeInv' /\ FinalInv'
<1>1. SafeInv'
  BY Zenon DEF SafeInv, TypeInv, ActiveInv, EnforcedLockOfBest, LockedBranchUsable, chain, locks
<1>2. LocksRise
  BY LockedOneBranch, ChainSelf, Zenon DEF SafeInv, TypeInv, LocksRise, chain, locks
<1> QED BY <1>1, <1>2, LocksRiseKeeps, Zenon DEF SafeInv

-----------------------------------------------------------------------------
(* The abstract states and steps. *)

\* The initial states map to the initial states of Finality.
LEMMA FinalityInit ==
    ASSUME Init
    PROVE  Final!Init
BY Zenon DEF Init, Final!Init, SeenTip, CsMainFree, NoActivation

\* A step that leaves both locks alone moves the tip in Finality, or nothing.
LEMMA MovesInFinality ==
    ASSUME FinalInv', SeenTip' \in Blocks,
           best' = best, lastNotify' = lastNotify, disturbed' = disturbed
    PROVE  [Final!Next]_(Final!vars)
<1>1. ~disturbed => Final!Above(lastNotify, SeenTip')
  BY Zenon DEF Final!Above, FinalInv, Kept
<1>2. Final!MoveTip(SeenTip')
  BY <1>1, Zenon DEF Final!MoveTip
<1> QED BY <1>2, Zenon DEF Final!Next

\* What every step does: it keeps the invariant and is a step of Finality.
StepOK == SafeInv' /\ FinalInv' /\ [Final!Next]_(Final!vars)

\* A step that keeps the invariant and leaves both locks alone.
LEMMA MovesOK ==
    ASSUME SafeInv', FinalInv', best' = best, lastNotify' = lastNotify, disturbed' = disturbed
    PROVE  StepOK
<1>1. SeenTip' \in Blocks
  <2>1. TypeInv'
    BY Zenon DEF SafeInv
  <2> QED BY <2>1, Zenon DEF TypeInv, Activations, SeenTip, CsMainFree
<1> QED BY <1>1, MovesInFinality, Zenon DEF StepOK

-----------------------------------------------------------------------------
(* One lemma per action. *)

\* What AcceptBlockHeader does to the flags and the enforced lock.
LEMMA AcceptBlockHeaderKeeps ==
    ASSUME SafeInv, NEW b \in Blocks, NEW w, AcceptBlockHeader(b, w),
           best' = best, failed' = failed
    PROVE  /\ index \subseteq index' /\ index' \subseteq Blocks
           /\ bestIndex' \in Locked \cup {None}
           /\ bestIndex # None => bestIndex' # None /\ bestIndex \in Chain[bestIndex']
           /\ EnforcedLockOfBest' /\ LockedBranchUsable'
<1>1. /\ index \subseteq Blocks /\ index' = index \cup {b} /\ None \notin Blocks
      /\ best \in Locked \cup {None} /\ bestIndex \in Locked \cup {None}
  BY LockedOneBranch, Zenon DEF SafeInv, TypeInv, AcceptBlockHeader
<1>2. CASE HasConflictingChainLock(b)
  <2>1. conflict' = conflict \cup {b} /\ bestIndex' = bestIndex
    BY <1>2, Zenon DEF AcceptBlockHeader
  <2>2. \A l \in Locked : b \notin Chain[l]
    BY <1>1, <1>2, LockedNeverConflicts, Zenon
  <2>3. LockedBranchUsable'
    BY <2>1, <2>2, Zenon DEF LockedBranchUsable, SafeInv
  <2>4. EnforcedLockOfBest'
    BY <1>1, <2>1, Zenon DEF EnforcedLockOfBest, SafeInv
  <2>5. bestIndex # None => bestIndex \in Chain[bestIndex]
    BY <1>1, LockedOneBranch, ChainSelf, Zenon
  <2> QED BY <1>1, <2>1, <2>3, <2>4, <2>5, Zenon
<1>3. CASE ~HasConflictingChainLock(b)
  <2>1. conflict' = conflict /\ bestIndex' = IF best = b THEN b ELSE bestIndex
    BY <1>3, Zenon DEF AcceptBlockHeader
  <2>2. LockedBranchUsable'
    BY <2>1, Zenon DEF LockedBranchUsable, SafeInv
  <2>3. CASE best = b
    BY <1>1, <2>1, <2>2, <2>3, ChainSelf, Zenon DEF EnforcedLockOfBest, SafeInv
  <2>4. CASE best # b
    <3>1. bestIndex # None => bestIndex \in Chain[bestIndex]
      BY <1>1, LockedOneBranch, ChainSelf, Zenon
    <3>2. EnforcedLockOfBest'
      BY <1>1, <2>1, <2>4, Zenon DEF EnforcedLockOfBest, SafeInv
    <3> QED BY <1>1, <2>1, <2>2, <2>4, <3>1, <3>2, ZenonT(30)
  <2> QED BY <2>3, <2>4, Zenon
<1> QED BY <1>2, <1>3, Zenon

\* The records of the threads stay proper when headers come.
LEMMA ThreadsStay ==
    ASSUME ThreadsInv, thread' = thread, index \subseteq index'
    PROVE  ThreadsInv'
BY Zenon DEF ThreadsInv, RecordOK

\* A header may make the best lock the enforced one, or be flagged.
LEMMA ReceiveHeaderOK ==
    ASSUME SafeInv, FinalInv, NEW b \in Blocks, ReceiveHeader(b)
    PROVE  StepOK
<1>1. /\ AcceptBlockHeader(b, FALSE)
      /\ UNCHANGED <<data, failed, tip, act, spork, isEnabled, best, lastNotify, thread, disturbed>>
  BY Zenon DEF ReceiveHeader, history
<1>2. /\ index \subseteq index' /\ index' \subseteq Blocks
      /\ bestIndex' \in Locked \cup {None}
      /\ bestIndex # None => bestIndex' # None /\ bestIndex \in Chain[bestIndex']
      /\ EnforcedLockOfBest' /\ LockedBranchUsable'
  BY <1>1, AcceptBlockHeaderKeeps, Zenon
<1>3. TypeInv'
  BY <1>1, <1>2, ThreadsStay, Zenon DEF SafeInv, TypeInv
<1>4. ActiveInv'
  BY <1>1, Zenon DEF SafeInv, ActiveInv
<1>5. FinalInv'
  <2>1. LocksRise
    BY <1>1, <1>2, Zenon DEF LocksRise
  <2> QED BY <2>1, LocksRiseKeeps, Zenon DEF SafeInv
<1> QED BY <1>1, <1>2, <1>3, <1>4, <1>5, MovesOK, Zenon DEF SafeInv

\* A block adds data; with its header it acts as the header does.
LEMMA ReceiveBlockOK ==
    ASSUME SafeInv, FinalInv, NEW b \in Blocks, ReceiveBlock(b)
    PROVE  StepOK
<1>1. /\ UNCHANGED <<failed, tip, act, spork, isEnabled, best, lastNotify, thread, disturbed>>
      /\ data \subseteq data' /\ data' \subseteq data \cup {b}
  BY Zenon DEF ReceiveBlock, history
<1>2. /\ index \subseteq index' /\ index' \subseteq Blocks
      /\ bestIndex' \in Locked \cup {None}
      /\ bestIndex # None => bestIndex' # None /\ bestIndex \in Chain[bestIndex']
      /\ EnforcedLockOfBest' /\ LockedBranchUsable'
  <2>1. CASE AcceptBlockHeader(b, TRUE)
    BY <1>1, <2>1, AcceptBlockHeaderKeeps, Zenon
  <2>2. CASE UNCHANGED <<index, conflict, bestIndex>>
    <3>1. bestIndex # None => bestIndex \in Chain[bestIndex]
      BY LockedOneBranch, ChainSelf, Zenon DEF SafeInv, TypeInv
    <3>2. EnforcedLockOfBest' /\ LockedBranchUsable'
      BY <1>1, <2>2, Zenon DEF SafeInv, EnforcedLockOfBest, LockedBranchUsable
    <3> QED BY <2>2, <3>1, <3>2, Zenon DEF SafeInv, TypeInv
  <2> QED BY <2>1, <2>2, Zenon DEF ReceiveBlock
<1>3. TypeInv'
  BY <1>1, <1>2, ThreadsStay, Zenon DEF SafeInv, TypeInv
<1>4. ActiveInv'
  BY <1>1, Zenon DEF SafeInv, ActiveInv
<1>5. FinalInv'
  <2>1. LocksRise
    BY <1>1, <1>2, Zenon DEF LocksRise
  <2> QED BY <2>1, LocksRiseKeeps, Zenon DEF SafeInv
<1> QED BY <1>1, <1>2, <1>3, <1>4, <1>5, MovesOK, Zenon DEF SafeInv

\* The scheduler stays with its lock, and is not on the way to announce it if it
\* was not before.
SchedStays ==
    thread'["sched"].at \in Enforcing =>
        /\ thread["sched"].at \in Enforcing
        /\ thread'["sched"].block = thread["sched"].block
        /\ thread'["sched"].at = "notify" => thread["sched"].at = "notify"

\* An iteration of ActivateBestChain, whoever the caller is.
LEMMA IterateOK ==
    ASSUME SafeInv, FinalInv, NEW a \in Activations, Iterate(a),
           a.target = act.target, a.start = act.start,
           UNCHANGED <<index, data, spork, isEnabled, locks, disturbed>>,
           ThreadsInv', SchedStays
    PROVE  StepOK
<1>1. UNCHANGED <<best, bestIndex, lastNotify>>
  BY Zenon DEF locks
<1>2. /\ tip' \in Blocks /\ act' \in Activations
      /\ ActiveInv' /\ LockedBranchUsable'
      /\ \A p \in Locked : Kept(p) => Kept(p)'
  BY <1>1, IterateKeeps, Zenon
<1>3. TypeInv'
  BY <1>1, <1>2, Zenon DEF SafeInv, TypeInv
<1>4. EnforcedLockOfBest'
  BY <1>1, Zenon DEF SafeInv, EnforcedLockOfBest
<1>5. FinalInv'
  <2> SUFFICES ASSUME ~disturbed
               PROVE  FinalInv'
    BY Zenon DEF FinalInv
  <2> DEFINE b == thread["sched"].block
  <2>1. spork /\ (lastNotify # None => Kept(lastNotify) /\ lastNotify \in Locked)
    BY Zenon DEF FinalInv, SafeInv, TypeInv
  <2>2. lastNotify' # None => Kept(lastNotify)'
    BY <1>1, <1>2, <2>1, Zenon DEF Kept
  <2>3. CASE thread'["sched"].at \notin Enforcing
    BY <1>1, <2>1, <2>2, <2>3, Zenon DEF FinalInv, Enforcing
  <2>4. CASE thread'["sched"].at \in Enforcing
    <3>1. /\ thread["sched"].at \in Enforcing /\ thread'["sched"].block = b
          /\ thread'["sched"].at = "notify" => thread["sched"].at = "notify"
      BY <2>4, Zenon DEF SchedStays
    <3>2. /\ isEnabled /\ bestIndex # None /\ b \in Chain[bestIndex]
          /\ lastNotify # None => lastNotify \in Chain[b]
          /\ thread["sched"].at = "notify" => Kept(b)
      BY <3>1, Zenon DEF FinalInv
    <3>3. thread'["sched"].at = "notify" => Kept(thread["sched"].block)'
      <4> SUFFICES ASSUME thread'["sched"].at = "notify"
                   PROVE  Kept(thread["sched"].block)'
        BY Zenon
      <4>1. Kept(b) /\ b \in Locked
        BY <3>1, <3>2, Zenon DEF Kept
      <4> HIDE DEF b
      <4>2. ASSUME NEW p \in Locked, p = thread'["sched"].block, Kept(p)
            PROVE  Kept(thread["sched"].block)'
        <5>1. Kept(p)'
          BY <1>2, <4>2, Zenon
        <5> QED BY <4>2, <5>1, Zenon DEF Kept
      <4> QED BY <3>1, <4>1, <4>2, Zenon
    <3> HIDE DEF b
    <3> QED BY <1>1, <2>1, <2>2, <3>1, <3>2, <3>3, Zenon DEF FinalInv
  <2> QED BY <2>3, <2>4, Zenon
<1> QED BY <1>1, <1>2, <1>3, <1>4, <1>5, MovesOK, Zenon DEF SafeInv

\* The first iteration after a block was stored.
LEMMA ProcessNewBlockActivatesOK ==
    ASSUME SafeInv, FinalInv, ProcessNewBlockActivates
    PROVE  StepOK
<1> DEFINE a == [NoActivation EXCEPT !.by = "block"]
<1>1. /\ a \in Activations /\ Iterate(a) /\ a.target = act.target /\ a.start = act.start
  BY Zenon DEF ProcessNewBlockActivates, NoActivation, Activations
<1>2. UNCHANGED <<index, data, spork, isEnabled, locks, disturbed, thread>>
  BY Zenon DEF ProcessNewBlockActivates, history
<1>3. ThreadsInv' /\ SchedStays
  BY <1>2, ThreadsStay, Zenon DEF SchedStays, SafeInv, TypeInv
<1> HIDE DEF a
<1> QED BY <1>1, <1>2, <1>3, IterateOK, Zenon

\* A further iteration of the caller inside.
LEMMA ActivateBestChainOK ==
    ASSUME SafeInv, FinalInv, ActivateBestChain
    PROVE  StepOK
<1>1. act \in Activations /\ Iterate(act)
  BY Zenon DEF ActivateBestChain, SafeInv, TypeInv
<1>2. UNCHANGED <<index, data, spork, isEnabled, locks, disturbed, thread>>
  BY Zenon DEF ActivateBestChain, history
<1>3. ThreadsInv' /\ SchedStays
  BY <1>2, ThreadsStay, Zenon DEF SchedStays, SafeInv, TypeInv
<1> QED BY <1>1, <1>2, <1>3, IterateOK, Zenon

\* The spork suspends the promise.
LEMMA ChangeSporkOK ==
    ASSUME SafeInv, FinalInv, ChangeSpork
    PROVE  StepOK
<1>1. /\ UNCHANGED <<chain, isEnabled, locks, thread>> /\ disturbed' = TRUE
      /\ spork' = ~spork
  BY Zenon DEF ChangeSpork
<1>2. ThreadsInv'
  BY <1>1, ThreadsStay, Zenon DEF SafeInv, TypeInv, chain
<1>3. TypeInv'
  BY <1>1, <1>2, Zenon DEF SafeInv, TypeInv, chain, locks
<1>4. ActiveInv' /\ EnforcedLockOfBest' /\ LockedBranchUsable'
  BY <1>1, Zenon DEF SafeInv, ActiveInv, EnforcedLockOfBest, LockedBranchUsable, chain, locks
<1>5. FinalInv'
  BY <1>1, Zenon DEF FinalInv
<1>6. SeenTip' = SeenTip
  BY <1>1, Zenon DEF SeenTip, CsMainFree, chain
<1>7. Final!Suspend
  BY <1>1, <1>6, Zenon DEF Final!Suspend, locks
<1> QED BY <1>3, <1>4, <1>5, <1>7, Zenon DEF StepOK, SafeInv, Final!Next

\* A step of a thread that touches nothing but its record, the seen locks and
\* the last signed one.
LEMMA ThreadOK ==
    ASSUME SafeInv, FinalInv, ThreadsInv', UNCHANGED <<chain, spork, isEnabled, locks, disturbed>>,
           thread'["sched"] = thread["sched"] \/ thread'["sched"].at \notin Enforcing
    PROVE  StepOK
<1>1. SafeInv' /\ FinalInv'
  BY ThreadMoves, Zenon
<1> QED BY <1>1, MovesOK, Zenon DEF locks

\* A thread that enters CheckActiveState carries a signed lock or none.
LEMMA EnterCheckKeeps ==
    ASSUME ThreadsInv, index' = index, isEnabled \in BOOLEAN, NEW t \in Threads,
           NEW l \in Locked \cup {None}, t \in Handlers => l \in Locked, EnterCheck(t, l)
    PROVE  /\ ThreadsInv'
           /\ thread'["sched"] = thread["sched"] \/ thread'["sched"].at \notin Enforcing
<1> DEFINE r == [Idle EXCEPT !.at = "write", !.old = isEnabled, !.block = l]
<1>1. thread' = [thread EXCEPT ![t] = r]
  BY Zenon DEF EnterCheck
<1>2. r \in ThreadRecord /\ r.at = "write" /\ r.block = l /\ r.known = FALSE
  BY LockedOneBranch, Zenon DEF Idle, ThreadRecord, Steps
<1> HIDE DEF r
<1>3. RecordOK(t, r, index')
  BY <1>2, Zenon DEF RecordOK, Enforcing
<1>4. ThreadsInv' /\ thread'[t] = r /\ \A u \in Threads \ {t} : thread'[u] = thread[u]
  BY <1>1, <1>3, ThreadStep, Zenon
<1>5. "sched" \in Threads
  BY Zenon DEF Threads
<1>6. CASE t = "sched"
  BY <1>2, <1>4, <1>6, Zenon DEF Enforcing
<1>7. CASE t # "sched"
  BY <1>4, <1>5, <1>7, Zenon
<1> QED BY <1>4, <1>6, <1>7, Zenon

\* The three entries into CheckActiveState.
LEMMA EntersOK ==
    ASSUME SafeInv, FinalInv, (\E l \in Locked : ReceiveClsig(l)) \/ HandleNewRecoveredSig \/ ScheduledRun
    PROVE  StepOK
<1>1. /\ ThreadsInv /\ isEnabled \in BOOLEAN
      /\ Threads = {"net", "sig", "sched"} /\ Handlers = {"net", "sig"}
  BY Zenon DEF SafeInv, TypeInv, Threads, Handlers
<1>2. UNCHANGED <<chain, spork, isEnabled, locks, disturbed>> /\ index' = index
  BY Zenon DEF ReceiveClsig, HandleNewRecoveredSig, ScheduledRun, history, chain
<1>3. PICK t \in Threads, l \in Locked \cup {None} : EnterCheck(t, l) /\ (t \in Handlers => l \in Locked)
  BY <1>1, Zenon DEF ReceiveClsig, HandleNewRecoveredSig, ScheduledRun
<1>4. /\ ThreadsInv'
      /\ thread'["sched"] = thread["sched"] \/ thread'["sched"].at \notin Enforcing
  BY <1>1, <1>2, <1>3, EnterCheckKeeps, Zenon
<1> QED BY <1>2, <1>4, ThreadOK, Zenon

\* CheckActiveState does not lead into the enforcement of a lock.
LEMMA AfterCheckStep ==
    ASSUME NEW t \in Threads
    PROVE  AfterCheck(t) \in Steps \ Enforcing /\ AfterCheck(t) # "idle"
BY Zenon DEF AfterCheck, Steps, Enforcing

\* While the spork is on, the write can only switch the handler on.
LEMMA WriteEnabledOK ==
    ASSUME SafeInv, FinalInv, NEW t \in Threads, WriteEnabled(t)
    PROVE  StepOK
<1> DEFINE next == IF ~thread[t].old /\ spork THEN "reset" ELSE AfterCheck(t)
           r == [thread[t] EXCEPT !.old = FALSE, !.at = next]
<1>1. /\ UNCHANGED <<index, data, conflict, failed, tip, act, spork, best, bestIndex, lastNotify, disturbed>>
      /\ isEnabled' = spork /\ thread[t].at = "write"
  BY Zenon DEF WriteEnabled, chain, locks, history
<1>2. RecordOK(t, thread[t], index) /\ thread[t] \in ThreadRecord
  BY Zenon DEF SafeInv, TypeInv, ThreadsInv
<1>3. thread' = [thread EXCEPT ![t] = r]
  BY Zenon DEF WriteEnabled
<1>4. next \in Steps \ Enforcing
  BY AfterCheckStep, Zenon DEF Steps, Enforcing
<1> HIDE DEF next
<1>5. /\ r \in ThreadRecord /\ r.at = next /\ r.block = thread[t].block
      /\ r.known = thread[t].known
  BY <1>2, <1>4, Zenon DEF ThreadRecord
<1> HIDE DEF r
<1>6. RecordOK(t, r, index')
  BY <1>1, <1>2, <1>4, <1>5, Zenon DEF RecordOK
<1>7. ThreadsInv' /\ thread'[t] = r /\ \A u \in Threads \ {t} : thread'[u] = thread[u]
  <2>1. ThreadsInv /\ index \subseteq index'
    BY <1>1, Zenon DEF SafeInv, TypeInv
  <2> QED BY <1>3, <1>6, <2>1, ThreadStep, Zenon
<1>8. thread'["sched"] = thread["sched"] \/ thread'["sched"].at \notin Enforcing
  <2>1. CASE t = "sched"
    BY <1>4, <1>5, <1>7, <2>1, Zenon
  <2>2. CASE t # "sched"
    BY <1>7, <2>2, Zenon DEF Threads
  <2> QED BY <2>1, <2>2, Zenon
<1>9. TypeInv'
  BY <1>1, <1>7, Zenon DEF SafeInv, TypeInv
<1>10. ActiveInv' /\ EnforcedLockOfBest' /\ LockedBranchUsable'
  BY <1>1, Zenon DEF SafeInv, ActiveInv, EnforcedLockOfBest, LockedBranchUsable
<1>11. FinalInv'
  <2>1. bestIndex # None => bestIndex \in Chain[bestIndex]
    BY LockedOneBranch, ChainSelf, Zenon DEF SafeInv, TypeInv
  <2>2. ~disturbed => isEnabled'
    BY <1>1, Zenon DEF FinalInv
  <2>3. LocksRise
    BY <1>1, <1>8, <2>1, <2>2, Zenon DEF SafeInv, TypeInv, LocksRise
  <2> QED BY <2>3, LocksRiseKeeps, Zenon DEF SafeInv
<1> QED BY <1>1, <1>9, <1>10, <1>11, MovesOK, Zenon DEF SafeInv

\* The reset suspends the promise unless there is no lock to lose, and then
\* the scheduler is not enforcing one.
LEMMA ResetLocksOK ==
    ASSUME SafeInv, FinalInv, NEW t \in Threads, ResetLocks(t)
    PROVE  StepOK
<1>1. /\ UNCHANGED <<index, data, conflict, failed, tip, act, spork, isEnabled>>
      /\ best' = None /\ bestIndex' = None /\ lastNotify' = None
      /\ disturbed' = (disturbed \/ best # None \/ lastNotify # None)
      /\ thread[t].at = "reset" /\ Goto(t, AfterCheck(t))
  BY Zenon DEF ResetLocks, chain
<1>2. /\ ThreadsInv' /\ thread'[t] = [thread[t] EXCEPT !.at = AfterCheck(t)]
      /\ \A u \in Threads \ {t} : thread'[u] = thread[u]
  <2>1. ThreadsInv /\ AfterCheck(t) \in Steps \ Enforcing
    BY AfterCheckStep, Zenon DEF SafeInv, TypeInv
  <2> QED BY <1>1, <2>1, GotoKeeps, Zenon
<1>3. thread'["sched"] = thread["sched"] \/ thread'["sched"].at \notin Enforcing
  <2>1. thread[t] \in ThreadRecord
    BY Zenon DEF SafeInv, TypeInv, ThreadsInv
  <2>2. CASE t = "sched"
    BY <1>2, <2>1, <2>2, AfterCheckStep, Zenon DEF ThreadRecord
  <2>3. CASE t # "sched"
    BY <1>2, <2>3, Zenon DEF Threads
  <2> QED BY <2>2, <2>3, Zenon
<1>4. TypeInv'
  BY <1>1, <1>2, Zenon DEF SafeInv, TypeInv
<1>5. ActiveInv' /\ EnforcedLockOfBest' /\ LockedBranchUsable'
  BY <1>1, Zenon DEF SafeInv, ActiveInv, EnforcedLockOfBest, LockedBranchUsable
<1>6. FinalInv'
  <2> SUFFICES ASSUME ~disturbed, best = None, lastNotify = None
               PROVE  FinalInv'
    BY <1>1, Zenon DEF FinalInv
  <2>1. bestIndex = None
    BY Zenon DEF SafeInv, EnforcedLockOfBest
  <2>2. thread["sched"].at \notin Enforcing
    BY <2>1, Zenon DEF FinalInv
  <2>3. thread'["sched"].at \notin Enforcing
    BY <1>3, <2>2, Zenon
  <2> QED BY <1>1, <2>3, Zenon DEF FinalInv, Enforcing
<1>7. SeenTip' = SeenTip
  BY <1>1, Zenon DEF SeenTip, CsMainFree
<1>8. [Final!Next]_(Final!vars)
  <2>1. CASE disturbed'
    <3>1. Final!Suspend
      BY <1>1, <1>7, <2>1, Zenon DEF Final!Suspend
    <3> QED BY <3>1, Zenon DEF Final!Next
  <2>2. CASE ~disturbed'
    <3>1. best = None /\ lastNotify = None /\ disturbed' = disturbed
      BY <1>1, <2>2, Zenon DEF SafeInv, TypeInv
    <3> QED BY <1>1, <1>7, <3>1, Zenon DEF Final!vars
  <2> QED BY <2>1, <2>2, Zenon
<1> QED BY <1>4, <1>5, <1>6, <1>8, Zenon DEF StepOK, SafeInv

\* The first test of a lock, and the drop of one that is not verified.
LEMMA CheckSeenOK ==
    ASSUME SafeInv, FinalInv, NEW t \in Handlers, CheckSeen(t) \/ LockNotVerified(t)
    PROVE  StepOK
<1>1. /\ UNCHANGED <<chain, spork, isEnabled, locks, disturbed>> /\ index' = index
      /\ thread[t].at \in {"seen", "verify"}
      /\ Return(t) \/ Goto(t, "verify")
  BY Zenon DEF CheckSeen, LockNotVerified, history, chain
<1>2. t \in Threads /\ "sched" \in Threads \ {t} /\ ThreadsInv
  BY Zenon DEF Threads, Handlers, SafeInv, TypeInv
<1>3. ThreadsInv' /\ \A u \in Threads \ {t} : thread'[u] = thread[u]
  <2>1. CASE Return(t)
    BY <1>1, <1>2, <2>1, ReturnKeeps, Zenon
  <2>2. CASE Goto(t, "verify")
    <3>1. "verify" \in Steps \ Enforcing /\ thread[t].at # "idle"
      BY <1>1, Zenon DEF Steps, Enforcing
    <3> QED BY <1>1, <1>2, <2>2, <3>1, GotoKeeps, Zenon
  <2> QED BY <1>1, <2>1, <2>2, Zenon
<1> QED BY <1>1, <1>2, <1>3, ThreadOK, Zenon

\* The lookup of the lock's block.
LEMMA LockVerifiedOK ==
    ASSUME SafeInv, FinalInv, NEW t \in Handlers, LockVerified(t)
    PROVE  StepOK
<1> DEFINE k == thread[t].block \in index
           r == [thread[t] EXCEPT !.known = k, !.at = "record"]
<1>1. /\ UNCHANGED <<chain, spork, isEnabled, locks, disturbed>> /\ index' = index
      /\ thread[t].at = "verify" /\ thread' = [thread EXCEPT ![t] = r]
  BY Zenon DEF LockVerified, history, chain
<1>2. t \in Threads /\ "sched" \in Threads \ {t} /\ ThreadsInv
  BY Zenon DEF Threads, Handlers, SafeInv, TypeInv
<1>3. thread[t] \in ThreadRecord /\ thread[t].block \in Locked
  BY <1>1, <1>2, Zenon DEF ThreadsInv, RecordOK
<1>4. k \in BOOLEAN /\ "record" \in Steps
  BY DEF Steps
<1>5. RecordOK(t, r, index')
  <2> HIDE DEF k
  <2>1. r \in ThreadRecord /\ r.block = thread[t].block /\ r.known = k
    BY <1>3, <1>4, Zenon DEF ThreadRecord
  <2> HIDE DEF r
  <2>2. r.known => r.block \in index'
    BY <1>1, <2>1, Zenon DEF k
  <2> QED BY <1>2, <1>3, <2>1, <2>2, Zenon DEF RecordOK
<1> HIDE DEF r
<1>6. ThreadsInv' /\ \A u \in Threads \ {t} : thread'[u] = thread[u]
  BY <1>1, <1>2, <1>5, ThreadStep, Zenon
<1> QED BY <1>1, <1>2, <1>6, ThreadOK, Zenon

\* The best lock rises, and the enforced one with it or stays below it.
LEMMA RecordLockOK ==
    ASSUME SafeInv, FinalInv, NEW t \in Handlers, RecordLock(t)
    PROVE  StepOK
<1> DEFINE l == thread[t].block
<1>1. /\ UNCHANGED <<index, data, conflict, failed, tip, act, spork, isEnabled, lastNotify, disturbed>>
      /\ thread[t].at = "record" /\ Return(t)
      /\ \/ /\ ChainLockSupersedesBest(l) /\ best' = l
            /\ bestIndex' = IF thread[t].known THEN l ELSE bestIndex
         \/ best' = best /\ bestIndex' = bestIndex
  BY Zenon DEF RecordLock, chain, history
<1>2. t \in Threads /\ "sched" \in Threads \ {t} /\ ThreadsInv
  BY Zenon DEF Threads, Handlers, SafeInv, TypeInv
<1>3. /\ l \in Locked /\ (thread[t].known => l \in index)
      /\ best \in Locked \cup {None} /\ bestIndex \in Locked \cup {None}
  BY <1>1, <1>2, Zenon DEF ThreadsInv, RecordOK, SafeInv, TypeInv
<1>4. ThreadsInv' /\ thread'["sched"] = thread["sched"]
  BY <1>1, <1>2, ReturnKeeps, Zenon
<1> HIDE DEF l
<1>5. l \in Blocks /\ l \in Chain[l] /\ (bestIndex # None => bestIndex \in Chain[bestIndex])
  BY <1>3, LockedOneBranch, ChainSelf, Zenon
<1>6. ASSUME bestIndex # None
      PROVE  best # None /\ bestIndex \in index /\ bestIndex \in Chain[best]
  BY <1>6, Zenon DEF SafeInv, EnforcedLockOfBest
<1>7. ASSUME ChainLockSupersedesBest(l), bestIndex # None
      PROVE  bestIndex \in Chain[l]
  <2>1. best \in Locked /\ best # None /\ Height(l) > Height(best)
    BY <1>3, <1>6, <1>7, Zenon DEF ChainLockSupersedesBest, LockHeight
  <2>2. best \in Chain[l]
    BY <1>3, <2>1, LocksOrdered, Zenon
  <2> QED BY <1>5, <1>6, <1>7, <2>2, ChainTransitive, Zenon
<1>8. /\ best' \in Locked \cup {None} /\ bestIndex' \in Locked \cup {None}
      /\ bestIndex # None => bestIndex' # None /\ bestIndex \in Chain[bestIndex']
      /\ bestIndex' # None => best' # None /\ bestIndex' \in index /\ bestIndex' \in Chain[best']
  <2>1. CASE best' = best /\ bestIndex' = bestIndex
    BY <1>3, <1>5, <1>6, <2>1, Zenon
  <2>2. CASE ChainLockSupersedesBest(l) /\ best' = l /\ thread[t].known /\ bestIndex' = l
    BY <1>3, <1>5, <1>7, <2>2, LockedOneBranch, Zenon
  <2>3. CASE ChainLockSupersedesBest(l) /\ best' = l /\ bestIndex' = bestIndex
    BY <1>3, <1>5, <1>6, <1>7, <2>3, LockedOneBranch, Zenon
  <2> QED BY <1>1, <2>1, <2>2, <2>3, Zenon
<1>9. TypeInv'
  BY <1>1, <1>4, <1>8, Zenon DEF SafeInv, TypeInv
<1>10. ActiveInv' /\ EnforcedLockOfBest' /\ LockedBranchUsable'
  BY <1>1, <1>8, Zenon DEF SafeInv, ActiveInv, EnforcedLockOfBest, LockedBranchUsable
<1>11. FinalInv'
  <2>1. LocksRise
    BY <1>1, <1>4, <1>8, Zenon DEF LocksRise
  <2> QED BY <2>1, LocksRiseKeeps, Zenon DEF SafeInv
<1>12. CASE best' = best
  BY <1>1, <1>9, <1>10, <1>11, <1>12, MovesOK, ZenonT(30) DEF SafeInv
<1>13. CASE ChainLockSupersedesBest(l) /\ best' = l
  <2>1. best # None => Height(l) > Height(best)
    BY <1>13, Zenon DEF ChainLockSupersedesBest, LockHeight
  <2>2. SeenTip' = SeenTip
    BY <1>1, Zenon DEF SeenTip, CsMainFree
  <2>3. Final!Record(l)
    BY <1>1, <1>13, <2>1, <2>2, Zenon DEF Final!Record
  <2> QED BY <1>3, <1>9, <1>10, <1>11, <2>3, ZenonT(30) DEF StepOK, SafeInv, Final!Next
<1> QED BY <1>1, <1>12, <1>13, Zenon

\* The enforced lock is above the announced one.
LEMMA EnforceReadsLockOK ==
    ASSUME SafeInv, FinalInv, EnforceReadsLock
    PROVE  StepOK
<1>1. /\ UNCHANGED <<chain, spork, isEnabled, locks, disturbed>>
      /\ UNCHANGED <<index, data, tip, act, bestIndex, best, lastNotify>>
      /\ thread["sched"].at = "enforce"
  BY Zenon DEF EnforceReadsLock, history, chain, locks
<1>2. /\ ThreadsInv /\ "sched" \in Threads /\ thread["sched"] \in ThreadRecord
      /\ bestIndex \in Locked \cup {None}
  BY Zenon DEF SafeInv, TypeInv, ThreadsInv, Threads
<1>3. CASE isEnabled /\ bestIndex # None
  <2> DEFINE r == [thread["sched"] EXCEPT !.block = bestIndex, !.at = "enforceBlock"]
  <2>1. thread' = [thread EXCEPT !["sched"] = r]
    BY <1>3, Zenon DEF EnforceReadsLock
  <2>2. /\ r \in ThreadRecord /\ r.at = "enforceBlock" /\ r.block = bestIndex
        /\ bestIndex \in Locked
    BY <1>2, <1>3, LockedOneBranch, Zenon DEF ThreadRecord, Steps
  <2> HIDE DEF r
  <2>3. RecordOK("sched", r, index')
    BY <2>2, Zenon DEF RecordOK, Handlers
  <2>4. ThreadsInv' /\ thread'["sched"] = r
    BY <1>1, <1>2, <2>1, <2>3, ThreadStep, Zenon
  <2>5. SafeInv'
    BY <1>1, <2>4, Zenon DEF SafeInv, TypeInv, ActiveInv, EnforcedLockOfBest, LockedBranchUsable, chain, locks
  <2>6. SeenTip' = SeenTip
    BY <1>1, Zenon DEF SeenTip, CsMainFree
  <2>7. FinalInv'
    <3> SUFFICES ASSUME ~disturbed
                 PROVE  FinalInv'
      BY <1>1, Zenon DEF FinalInv
    <3>1. spork /\ (lastNotify # None => Kept(lastNotify))
      BY Zenon DEF FinalInv
    <3>2. lastNotify' # None => Kept(lastNotify)'
      BY <1>1, <2>6, <3>1, Zenon DEF Kept
    <3>3. lastNotify # None => lastNotify \in Chain[bestIndex]
      BY <3>1, Zenon DEF Kept
    <3>4. bestIndex \in Chain[bestIndex]
      BY <2>2, LockedOneBranch, ChainSelf, Zenon
    <3> QED BY <1>1, <1>3, <2>2, <2>4, <3>1, <3>2, <3>3, <3>4, Zenon DEF FinalInv
  <2> QED BY <1>1, <2>5, <2>7, MovesOK, Zenon
<1>4. CASE ~(isEnabled /\ bestIndex # None)
  <2>1. Goto("sched", "sign") /\ "sign" \in Steps \ Enforcing
    BY <1>4, Zenon DEF EnforceReadsLock, Steps, Enforcing
  <2>2. ThreadsInv' /\ thread'["sched"] = [thread["sched"] EXCEPT !.at = "sign"]
    BY <1>1, <1>2, <2>1, GotoKeeps, Zenon
  <2>3. thread'["sched"].at \notin Enforcing
    BY <1>2, <2>1, <2>2, Zenon DEF ThreadRecord
  <2> QED BY <1>1, <2>2, <2>3, ThreadOK, Zenon
<1> QED BY <1>3, <1>4, Zenon

\* The tip goes down to the fork with the lock, which is above the announced
\* one.
LEMMA EnforceMarksOK ==
    ASSUME SafeInv, FinalInv, EnforceMarks
    PROVE  StepOK
<1> DEFINE b == thread["sched"].block
<1>1. /\ UNCHANGED <<index, data, act, spork, isEnabled, best, bestIndex, lastNotify, disturbed>>
      /\ thread["sched"].at = "enforceBlock" /\ act = NoActivation
      /\ EnforceBlock(b) /\ Goto("sched", "activate")
  BY Zenon DEF EnforceMarks, history, locks
<1>2. /\ ThreadsInv /\ "sched" \in Threads /\ thread["sched"] \in ThreadRecord
      /\ b \in Locked /\ b \in Blocks /\ tip \in Blocks
  BY <1>1, LockedOneBranch, Zenon DEF SafeInv, TypeInv, ThreadsInv, RecordOK, Threads, Enforcing
<1>3. /\ "activate" \in Steps /\ "activate" \in Enforcing
      /\ thread["sched"].at \in Enforcing /\ thread["sched"].at # "idle"
  BY <1>1, Zenon DEF Steps, Enforcing
<1>4. ThreadsInv' /\ thread'["sched"] = [thread["sched"] EXCEPT !.at = "activate"]
  BY <1>1, <1>2, <1>3, GotoKeeps, Zenon
<1>5. thread'["sched"].at = "activate" /\ thread'["sched"].block = b
  BY <1>2, <1>4, Zenon DEF ThreadRecord
<1> HIDE DEF b
<1>6. tip' \in Chain[tip] /\ \A p \in Chain[tip] : p \in Chain[b] => p \in Chain[tip']
  BY <1>1, <1>2, EnforceMovesTip, Zenon
<1>7. tip' \in Blocks /\ Chain[tip'] \subseteq Chain[tip] /\ Height(tip') <= Height(tip)
  BY <1>2, <1>6, ChainTransitive, HeightOfAncestor, Zenon
<1>8. LockedBranchUsable'
  BY <1>1, <1>2, EnforceSparesLocked, Zenon DEF SafeInv
<1>9. TypeInv'
  BY <1>1, <1>4, <1>7, Zenon DEF SafeInv, TypeInv
<1>10. ActiveInv' /\ EnforcedLockOfBest'
  BY <1>1, <1>7, Zenon DEF SafeInv, ActiveInv, EnforcedLockOfBest, NoActivation
<1>11. SeenTip = tip /\ SeenTip' = tip'
  BY <1>1, Zenon DEF SeenTip, CsMainFree, NoActivation
<1>12. FinalInv'
  <2> SUFFICES ASSUME ~disturbed
               PROVE  FinalInv'
    BY <1>1, Zenon DEF FinalInv
  <2>1. /\ spork /\ (lastNotify # None => Kept(lastNotify))
        /\ isEnabled /\ bestIndex # None /\ b \in Chain[bestIndex]
        /\ lastNotify # None => lastNotify \in Chain[b]
    BY <1>3, Zenon DEF FinalInv, b
  <2>2. lastNotify' # None => Kept(lastNotify)'
    <3> SUFFICES ASSUME lastNotify # None
                 PROVE  Kept(lastNotify)'
      BY <1>1, Zenon
    <3>1. Kept(lastNotify) /\ lastNotify \in Chain[tip']
      BY <1>6, <1>11, <2>1, Zenon DEF Kept
    <3> QED BY <1>1, <1>11, <3>1, Zenon DEF Kept, NoActivation
  <2> QED BY <1>1, <1>5, <2>1, <2>2, Zenon DEF FinalInv
<1> QED BY <1>1, <1>8, <1>9, <1>10, <1>12, MovesOK, Zenon DEF SafeInv

\* The scheduler finds its lock in the active chain.
LEMMA ToNotifyOK ==
    ASSUME SafeInv, FinalInv, thread["sched"].at \in Enforcing, CsMainFree,
           thread["sched"].block \in Chain[tip], Goto("sched", "notify"),
           UNCHANGED <<chain, spork, isEnabled, locks, disturbed>>
    PROVE  StepOK
<1> DEFINE b == thread["sched"].block
<1>1. UNCHANGED <<index, data, tip, act, bestIndex, best, lastNotify>>
  BY Zenon DEF chain, locks
<1>2. /\ ThreadsInv /\ "sched" \in Threads /\ thread["sched"] \in ThreadRecord
      /\ b \in Locked /\ b \in Blocks /\ tip \in Blocks /\ act \in Activations
  BY LockedOneBranch, Zenon DEF SafeInv, TypeInv, ThreadsInv, RecordOK, Threads
<1>3. "notify" \in Steps /\ "notify" \in Enforcing /\ thread["sched"].at # "idle"
  BY Zenon DEF Steps, Enforcing
<1>4. ThreadsInv' /\ thread'["sched"] = [thread["sched"] EXCEPT !.at = "notify"]
  BY <1>1, <1>2, <1>3, GotoKeeps, Zenon
<1>5. thread'["sched"].at = "notify" /\ thread'["sched"].block = b
  BY <1>2, <1>4, Zenon DEF ThreadRecord
<1> HIDE DEF b
<1>6. SafeInv'
  BY <1>1, <1>4, Zenon DEF SafeInv, TypeInv, ActiveInv, EnforcedLockOfBest, LockedBranchUsable, chain, locks
<1>7. SeenTip = tip /\ SeenTip' = tip
  BY <1>1, Zenon DEF SeenTip, CsMainFree
<1>8. FinalInv'
  <2> SUFFICES ASSUME ~disturbed
               PROVE  FinalInv'
    BY Zenon DEF FinalInv
  <2>1. /\ spork /\ (lastNotify # None => Kept(lastNotify))
        /\ isEnabled /\ bestIndex # None /\ b \in Chain[bestIndex]
        /\ lastNotify # None => lastNotify \in Chain[b]
    BY Zenon DEF FinalInv, b
  <2>2. lastNotify' # None => Kept(lastNotify)'
    BY <1>1, <1>7, <2>1, Zenon DEF Kept
  <2>3. Kept(thread["sched"].block)'
    <3>1. b \in Chain[tip] /\ Chain[b] \subseteq data /\ Height(b) <= Height(tip)
      BY <1>2, ChainTransitive, HeightOfAncestor, Zenon DEF b, SafeInv, ActiveInv
    <3>2. act.target # None => Height(act.target) >= Height(b)
      <4>1. Height(b) \in Nat /\ Height(tip) \in Nat
        BY <1>2, HeightType, Zenon
      <4>2. act.target # None => Height(act.target) >= Height(tip) /\ Height(act.target) \in Nat
        BY <1>2, HeightType, Zenon DEF SafeInv, ActiveInv, Activations
      <4> QED BY <3>1, <4>1, <4>2
    <3> QED BY <1>1, <1>2, <1>5, <1>7, <2>1, <3>1, <3>2, Zenon DEF Kept
  <2> QED BY <1>1, <1>5, <2>1, <2>2, <2>3, Zenon DEF FinalInv
<1> QED BY <1>1, <1>6, <1>8, MovesOK, Zenon

\* The scheduler finds the lock active or enters ActivateBestChain.
LEMMA EnforceActivatesOK ==
    ASSUME SafeInv, FinalInv, EnforceActivates
    PROVE  StepOK
<1>1. /\ UNCHANGED <<index, data, activating, spork, isEnabled, locks, disturbed>>
      /\ thread["sched"].at = "activate" /\ CsMainFree
  BY Zenon DEF EnforceActivates, history
<1>2. thread["sched"].at \in Enforcing
  BY <1>1, Zenon DEF Enforcing
<1>3. CASE thread["sched"].block \in Chain[tip]
  <2>1. Goto("sched", "notify") /\ UNCHANGED chain
    BY <1>1, <1>3, Zenon DEF EnforceActivates, chain
  <2> QED BY <1>1, <1>2, <1>3, <2>1, ToNotifyOK, Zenon
<1>4. CASE thread["sched"].block \notin Chain[tip]
  <2> DEFINE a == [NoActivation EXCEPT !.by = "sched"]
  <2>1. Iterate(a) /\ Goto("sched", "activated") /\ act = NoActivation
    BY <1>4, Zenon DEF EnforceActivates
  <2>2. a \in Activations /\ a.target = act.target /\ a.start = act.start
    BY <2>1, Zenon DEF NoActivation, Activations
  <2> HIDE DEF a
  <2>3. ThreadsInv /\ "sched" \in Threads /\ thread["sched"] \in ThreadRecord
    BY Zenon DEF SafeInv, TypeInv, ThreadsInv, Threads
  <2>4. "activated" \in Steps /\ "activated" \in Enforcing /\ thread["sched"].at # "idle"
    BY <1>1, Zenon DEF Steps, Enforcing
  <2>5. ThreadsInv' /\ thread'["sched"] = [thread["sched"] EXCEPT !.at = "activated"]
    BY <1>1, <1>2, <2>1, <2>3, <2>4, GotoKeeps, Zenon
  <2>6. SchedStays
    BY <1>2, <2>3, <2>5, Zenon DEF SchedStays, ThreadRecord
  <2> QED BY <1>1, <2>1, <2>2, <2>5, <2>6, IterateOK, Zenon
<1> QED BY <1>3, <1>4, Zenon

\* Back from ActivateBestChain, the lock is active or the run ends.
LEMMA EnforceRechecksOK ==
    ASSUME SafeInv, FinalInv, EnforceRechecks
    PROVE  StepOK
<1>1. /\ UNCHANGED <<chain, spork, isEnabled, locks, disturbed>> /\ index' = index
      /\ thread["sched"].at = "activated" /\ CsMainFree
  BY Zenon DEF EnforceRechecks, history, chain
<1>2. thread["sched"].at \in Enforcing
  BY <1>1, Zenon DEF Enforcing
<1>3. CASE thread["sched"].block \in Chain[tip]
  <2>1. Goto("sched", "notify")
    BY <1>3, Zenon DEF EnforceRechecks
  <2> QED BY <1>1, <1>2, <1>3, <2>1, ToNotifyOK, Zenon
<1>4. CASE thread["sched"].block \notin Chain[tip]
  <2>1. EnforceReturns /\ ThreadsInv
    BY <1>4, Zenon DEF EnforceRechecks, SafeInv, TypeInv
  <2>2. ThreadsInv' /\ thread'["sched"].at = "sign"
    BY <1>1, <2>1, EnforceReturnsKeeps, Zenon
  <2>3. thread'["sched"].at \notin Enforcing
    BY <2>2, Zenon DEF Enforcing
  <2> QED BY <1>1, <2>2, <2>3, ThreadOK, Zenon
<1> QED BY <1>3, <1>4, Zenon

\* The lock that is announced is active, and above the one before.
LEMMA EnforceNotifiesOK ==
    ASSUME SafeInv, FinalInv, EnforceNotifies
    PROVE  StepOK
<1> DEFINE b == thread["sched"].block
<1>1. /\ UNCHANGED <<index, data, conflict, failed, tip, act, spork, isEnabled, best, bestIndex, disturbed>>
      /\ thread["sched"].at = "notify" /\ lastNotify' = b /\ EnforceReturns
  BY Zenon DEF EnforceNotifies, history, chain
<1>2. thread["sched"].at \in Enforcing /\ "sched" \in Threads
  BY <1>1, Zenon DEF Enforcing, Threads
<1>3. ThreadsInv /\ b \in Locked
  BY <1>2, Zenon DEF SafeInv, TypeInv, ThreadsInv, RecordOK
<1>4. ThreadsInv' /\ thread'["sched"].at = "sign"
  BY <1>1, <1>3, EnforceReturnsKeeps, Zenon
<1> HIDE DEF b
<1>5. TypeInv'
  BY <1>1, <1>3, <1>4, Zenon DEF SafeInv, TypeInv
<1>6. ActiveInv' /\ EnforcedLockOfBest' /\ LockedBranchUsable'
  BY <1>1, Zenon DEF SafeInv, ActiveInv, EnforcedLockOfBest, LockedBranchUsable
<1>7. SeenTip' = SeenTip
  BY <1>1, Zenon DEF SeenTip, CsMainFree
<1>8. ~disturbed => /\ spork /\ Kept(b) /\ bestIndex # None /\ b \in Chain[bestIndex]
                    /\ lastNotify # None => lastNotify \in Chain[b]
  BY <1>1, <1>2, Zenon DEF FinalInv, b
<1>9. FinalInv'
  <2> SUFFICES ASSUME ~disturbed
               PROVE  FinalInv'
    BY <1>1, Zenon DEF FinalInv
  <2>1. Kept(lastNotify)'
    BY <1>1, <1>7, <1>8, Zenon DEF Kept
  <2> QED BY <1>1, <1>4, <1>8, <2>1, Zenon DEF FinalInv, Enforcing
<1>10. Final!Announce(b)
  <2>1. ASSUME ~disturbed
        PROVE  /\ b \in Chain[SeenTip] /\ Final!Above(lastNotify, b)
               /\ best # None /\ b \in Chain[best]
    <3>1. b \in Chain[SeenTip] /\ Final!Above(lastNotify, b)
      BY <1>8, <2>1, Zenon DEF Kept, Final!Above
    <3>2. best # None /\ bestIndex \in Chain[best] /\ best \in Blocks
      BY <1>8, <2>1, LockedOneBranch, Zenon DEF SafeInv, TypeInv, EnforcedLockOfBest
    <3> QED BY <1>8, <2>1, <3>1, <3>2, ChainTransitive, Zenon
  <2> QED BY <1>1, <1>7, <2>1, Zenon DEF Final!Announce
<1> QED BY <1>3, <1>5, <1>6, <1>9, <1>10, Zenon DEF StepOK, SafeInv, Final!Next

\* The signing of the tip touches neither the locks nor the chain.
LEMMA TrySignOK ==
    ASSUME SafeInv, FinalInv, TrySignChecks \/ TrySignSigns
    PROVE  StepOK
<1>1. /\ UNCHANGED <<chain, spork, isEnabled, locks, disturbed>> /\ index' = index
  BY Zenon DEF TrySignChecks, TrySignSigns, history, chain
<1>2. /\ ThreadsInv /\ "sched" \in Threads /\ thread["sched"] \in ThreadRecord /\ tip \in Blocks
  BY Zenon DEF SafeInv, TypeInv, ThreadsInv, Threads
<1>3. ThreadsInv' /\ thread'["sched"].at \notin Enforcing
  <2>1. CASE Return("sched")
    <3>1. ThreadsInv' /\ thread'["sched"].at = "idle"
      BY <1>1, <1>2, <2>1, ReturnKeeps, Zenon
    <3> QED BY <3>1, Zenon DEF Enforcing
  <2>2. CASE thread' = [thread EXCEPT !["sched"].block = tip, !["sched"].at = "signTip"]
    <3> DEFINE r == [thread["sched"] EXCEPT !.block = tip, !.at = "signTip"]
    <3>1. thread' = [thread EXCEPT !["sched"] = r]
      BY <2>2, Zenon
    <3>2. r \in ThreadRecord /\ r.at = "signTip"
      BY <1>2, Zenon DEF ThreadRecord, Steps
    <3> HIDE DEF r
    <3>3. RecordOK("sched", r, index')
      BY <3>2, Zenon DEF RecordOK, Handlers, Enforcing
    <3>4. ThreadsInv' /\ thread'["sched"] = r
      BY <1>1, <1>2, <3>1, <3>3, ThreadStep, Zenon
    <3> QED BY <3>2, <3>4, Zenon DEF Enforcing
  <2> QED BY <2>1, <2>2, Zenon DEF TrySignChecks, TrySignSigns
<1> QED BY <1>1, <1>3, ThreadOK, Zenon

-----------------------------------------------------------------------------
(* The theorems. *)

\* The invariant holds at the start.
LEMMA InitOK ==
    ASSUME Init
    PROVE  SafeInv /\ FinalInv /\ Final!Init
<1>1. ThreadsInv
  BY Zenon DEF Init, ThreadsInv, RecordOK, ThreadRecord, Idle, Steps, Enforcing
<1>2. TypeInv
  BY <1>1, TreeAssumption, Zenon DEF Init, TypeInv, Activations, NoActivation
<1>3. ActiveInv /\ EnforcedLockOfBest /\ LockedBranchUsable
  BY ChainOfGenesis, Zenon DEF Init, ActiveInv, EnforcedLockOfBest, LockedBranchUsable, NoActivation
<1>4. FinalInv
  <2>1. thread["sched"].at = "idle"
    BY Zenon DEF Init, Threads, Idle
  <2> QED BY <2>1, Zenon DEF Init, FinalInv, Enforcing
<1> QED BY <1>2, <1>3, <1>4, FinalityInit, Zenon DEF SafeInv

\* Every step keeps the invariant and is a step of Finality or none.
LEMMA NextOK ==
    ASSUME SafeInv, FinalInv, [Next]_vars
    PROVE  StepOK
<1>1. CASE \E b \in Blocks \ {Genesis} : ReceiveHeader(b) \/ ReceiveBlock(b)
  BY <1>1, ReceiveHeaderOK, ReceiveBlockOK, Zenon
<1>2. CASE ProcessNewBlockActivates \/ ActivateBestChain \/ ChangeSpork
  BY <1>2, ProcessNewBlockActivatesOK, ActivateBestChainOK, ChangeSporkOK, Zenon
<1>3. CASE (\E l \in Locked : ReceiveClsig(l)) \/ HandleNewRecoveredSig \/ ScheduledRun
  BY <1>3, EntersOK, Zenon
<1>4. CASE \E t \in Handlers : ProcessNewChainLock(t)
  <2>1. PICK t \in Handlers : ProcessNewChainLock(t)
    BY <1>4, Zenon
  <2>2. t \in Threads
    BY Zenon DEF Threads
  <2>3. CASE WriteEnabled(t) \/ ResetLocks(t)
    BY <2>2, <2>3, WriteEnabledOK, ResetLocksOK, Zenon
  <2>4. CASE CheckSeen(t) \/ LockNotVerified(t)
    BY <2>4, CheckSeenOK, Zenon
  <2>5. CASE LockVerified(t) \/ RecordLock(t)
    BY <2>5, LockVerifiedOK, RecordLockOK, Zenon
  <2> QED BY <2>1, <2>3, <2>4, <2>5, Zenon DEF ProcessNewChainLock
<1>5. CASE WriteEnabled("sched") \/ ResetLocks("sched")
  BY <1>5, WriteEnabledOK, ResetLocksOK, Zenon DEF Threads
<1>6. CASE EnforceReadsLock \/ EnforceMarks \/ EnforceActivates
  BY <1>6, EnforceReadsLockOK, EnforceMarksOK, EnforceActivatesOK, Zenon
<1>7. CASE EnforceRechecks \/ EnforceNotifies
  BY <1>7, EnforceRechecksOK, EnforceNotifiesOK, Zenon
<1>8. CASE TrySignChecks \/ TrySignSigns
  BY <1>8, TrySignOK, Zenon
<1>9. CASE UNCHANGED vars
  <2>1. /\ UNCHANGED <<chain, spork, isEnabled, locks, disturbed>> /\ index' = index
        /\ thread' = thread
    BY <1>9, Zenon DEF vars, chain, locks
  <2>2. ThreadsInv'
    BY <2>1, ThreadsStay, Zenon DEF SafeInv, TypeInv
  <2> QED BY <2>1, <2>2, ThreadOK, Zenon
<1> QED BY <1>1, <1>2, <1>3, <1>4, <1>5, <1>6, <1>7, <1>8, <1>9, ZenonT(30) DEF Next, Scheduler

\* The enforced lock (bestChainLockBlockIndex) is the best one or an ancestor of
\* it with a known header, whichever thread wrote or reset the two.
THEOREM EnforcedLockCorrect == Spec => []EnforcedLockOfBest
<1>1. Init => SafeInv /\ FinalInv
  BY InitOK, Zenon
<1>2. SafeInv /\ FinalInv /\ [Next]_vars => SafeInv' /\ FinalInv'
  BY NextOK, Zenon DEF StepOK
<1>3. SafeInv => EnforcedLockOfBest
  BY Zenon DEF SafeInv
<1> QED BY <1>1, <1>2, <1>3, PTL DEF Spec

\* No block of the locked branch is ever flagged as conflicting or failed, in any
\* tree and under any order of headers, blocks, locks, resets and enforcements.
THEOREM LockedBranchStaysUsable == Spec => []LockedBranchUsable
<1>1. Init => SafeInv /\ FinalInv
  BY InitOK, Zenon
<1>2. SafeInv /\ FinalInv /\ [Next]_vars => SafeInv' /\ FinalInv'
  BY NextOK, Zenon DEF StepOK
<1>3. SafeInv => LockedBranchUsable
  BY Zenon DEF SafeInv
<1> QED BY <1>1, <1>2, <1>3, PTL DEF Spec

\* The handler implements Finality: initial states map to initial states and
\* every step to a step or a stutter, so the locks that are recorded rise and no
\* interleaving takes the active chain off an announced one.
THEOREM FinalityImplemented == Spec => ImplementsFinality
<1>1. Init => SafeInv /\ FinalInv /\ Final!Init
  BY InitOK, Zenon
<1>2. SafeInv /\ FinalInv /\ [Next]_vars
        => SafeInv' /\ FinalInv' /\ [Final!Next]_(Final!vars)
  BY NextOK, Zenon DEF StepOK
<1> QED BY <1>1, <1>2, PTL DEF Spec, ImplementsFinality, Final!Spec
-----------------------------------------------------------------------------
(* Types. *)

\* What TypeOK says beyond SafeInv: a flagged block has its entry, and one that
\* was refused its data.
StoreInv ==
    /\ data \subseteq index /\ conflict \subseteq index /\ failed \subseteq data
    /\ act.start \in data \cup {None}
    /\ activating \in BOOLEAN
    /\ seen \subseteq Locked
    /\ lastSigned \in Blocks \cup {None}
    /\ sporkChanges \in 0 .. MaxSporkChanges

\* ActivateBestChain flags blocks it has the data of.
LEMMA IterateFlagsStored ==
    ASSUME SafeInv, StoreInv, NEW a \in Activations, Iterate(a),
           a.target = act.target, a.start = act.start, UNCHANGED <<index, data>>
    PROVE  /\ conflict' \subseteq index' /\ failed' \subseteq data'
           /\ act'.start \in data' \cup {None}
<1>1. PICK m \in IF a.target = None THEN FindMostWorkChain ELSE {a.target} :
        LET struck == IF a.target = None THEN StruckOut(m) ELSE {}
            unusable == {c \in struck : NearestFlagged(c) \in failed}
            step == IF m = tip THEN [tip |-> tip, failed |-> failed, target |-> m]
                    ELSE StepToward(m)
            start == IF a.start = None THEN tip ELSE a.start
            behind == m # tip /\ Worse(step.tip, start)
        IN  /\ failed' = step.failed \cup unusable
            /\ conflict' = conflict \cup (struck \ unusable)
            /\ act' = IF step.tip = step.target /\ ~behind THEN NoActivation
                      ELSE [a EXCEPT !.target = step.target,
                                     !.start = IF behind THEN start ELSE None]
  BY Zenon DEF Iterate
<1> DEFINE struck == IF a.target = None THEN StruckOut(m) ELSE {}
           unusable == {c \in struck : NearestFlagged(c) \in failed}
           step == IF m = tip THEN [tip |-> tip, failed |-> failed, target |-> m]
                   ELSE StepToward(m)
           start == IF a.start = None THEN tip ELSE a.start
           behind == m # tip /\ Worse(step.tip, start)
<1>2. /\ failed' = step.failed \cup unusable
      /\ conflict' = conflict \cup (struck \ unusable)
      /\ act' = IF step.tip = step.target /\ ~behind THEN NoActivation
                ELSE [a EXCEPT !.target = step.target, !.start = IF behind THEN start ELSE None]
  BY <1>1, Zenon
<1>3. Chain[m] \subseteq data
  <2>1. CASE a.target = None
    BY <1>1, <2>1, MostWorkHigh, Zenon
  <2>2. CASE a.target # None
    BY <1>1, <2>2, Zenon DEF SafeInv, ActiveInv
  <2> QED BY <2>1, <2>2, Zenon
<1>4. struck \subseteq data
  BY Zenon DEF StruckOut
<1>5. step.failed \subseteq data
  <2>1. CASE m = tip
    BY <2>1, Zenon DEF StoreInv
  <2>2. CASE m # tip
    <3>1. step = StepToward(m)
      BY <2>2, Zenon
    <3>2. StepToward(m).failed \subseteq failed \cup Chain[m]
      BY Zenon DEF StepToward
    <3> HIDE DEF step
    <3> QED BY <3>1, <3>2, <1>3, Zenon DEF StoreInv
  <2> QED BY <2>1, <2>2, Zenon
<1>6. start \in data
  BY ChainSelf, Zenon DEF SafeInv, TypeInv, ActiveInv, StoreInv
<1> HIDE DEF struck, step, start
<1>7. act'.start \in {start, None}
  BY <1>2, Zenon DEF NoActivation, Activations
<1>8. unusable \subseteq struck
  BY Zenon
<1> HIDE DEF unusable
<1> QED BY <1>2, <1>4, <1>5, <1>6, <1>7, <1>8 DEF StoreInv

\* Every step keeps the flags on blocks that are known.
LEMMA StoreInvStep ==
    ASSUME SafeInv, StoreInv, [Next]_vars
    PROVE  StoreInv'
<1>1. ASSUME NEW b \in Blocks \ {Genesis}, ReceiveHeader(b) PROVE StoreInv'
  BY <1>1, Zenon DEF ReceiveHeader, AcceptBlockHeader, history, StoreInv
<1>2. ASSUME NEW b \in Blocks \ {Genesis}, ReceiveBlock(b) PROVE StoreInv'
  <2>1. index \subseteq index' /\ b \in index' /\ conflict' \subseteq index'
    BY <1>2, Zenon DEF ReceiveBlock, AcceptBlockHeader, StoreInv
  <2>2. data \subseteq data' /\ data' \subseteq data \cup {b} /\ activating' \in BOOLEAN
    BY <1>2, Zenon DEF ReceiveBlock, StoreInv
  <2>3. UNCHANGED <<failed, act, seen, lastSigned, sporkChanges>>
    BY <1>2, Zenon DEF ReceiveBlock, history
  <2> QED BY <2>1, <2>2, <2>3, Zenon DEF StoreInv
<1>3. CASE ProcessNewBlockActivates
  <2> DEFINE a == [NoActivation EXCEPT !.by = "block"]
  <2>1. /\ Iterate(a) /\ act = NoActivation /\ activating' = FALSE
        /\ UNCHANGED <<index, data, seen, lastSigned, sporkChanges>>
    BY <1>3, Zenon DEF ProcessNewBlockActivates, history
  <2>2. a \in Activations /\ a.target = act.target /\ a.start = act.start
    BY <2>1, Zenon DEF NoActivation, Activations
  <2> HIDE DEF a
  <2>3. conflict' \subseteq index' /\ failed' \subseteq data' /\ act'.start \in data' \cup {None}
    BY <2>1, <2>2, IterateFlagsStored, Zenon
  <2> QED BY <2>1, <2>3, Zenon DEF StoreInv
<1>4. CASE ActivateBestChain
  <2>1. Iterate(act) /\ UNCHANGED <<index, data, activating, seen, lastSigned, sporkChanges>>
    BY <1>4, Zenon DEF ActivateBestChain, history
  <2>2. act \in Activations
    BY Zenon DEF SafeInv, TypeInv
  <2>3. conflict' \subseteq index' /\ failed' \subseteq data' /\ act'.start \in data' \cup {None}
    BY <2>1, <2>2, IterateFlagsStored, Zenon
  <2> QED BY <2>1, <2>3, Zenon DEF StoreInv
<1>5. CASE EnforceActivates
  <2>1. UNCHANGED <<index, data, activating, seen, lastSigned, sporkChanges>>
    BY <1>5, Zenon DEF EnforceActivates, history
  <2>2. CASE UNCHANGED <<tip, conflict, failed, act>>
    BY <2>1, <2>2, Zenon DEF StoreInv
  <2>3. CASE act = NoActivation /\ Iterate([NoActivation EXCEPT !.by = "sched"])
    <3> DEFINE a == [NoActivation EXCEPT !.by = "sched"]
    <3>1. a \in Activations /\ a.target = act.target /\ a.start = act.start /\ Iterate(a)
      BY <2>3, Zenon DEF NoActivation, Activations
    <3> HIDE DEF a
    <3>2. conflict' \subseteq index' /\ failed' \subseteq data' /\ act'.start \in data' \cup {None}
      BY <2>1, <3>1, IterateFlagsStored, Zenon
    <3> QED BY <2>1, <3>2, Zenon DEF StoreInv
  <2> QED BY <1>5, <2>2, <2>3, Zenon DEF EnforceActivates
<1>6. CASE EnforceMarks
  <2>1. /\ EnforceBlock(thread["sched"].block)
        /\ UNCHANGED <<index, data, activating, act, seen, lastSigned, sporkChanges>>
    BY <1>6, Zenon DEF EnforceMarks, history
  <2>2. Chain[tip] \subseteq index
    BY Zenon DEF SafeInv, ActiveInv, StoreInv
  <2>3. conflict' \subseteq index /\ failed' \subseteq failed
    BY <2>1, <2>2, Zenon DEF EnforceBlock, StoreInv
  <2> QED BY <2>1, <2>3, Zenon DEF StoreInv
<1>7. CASE ChangeSpork
  BY <1>7, SporkBound DEF ChangeSpork, chain, StoreInv
<1>8. ASSUME NEW t \in Handlers, CheckSeen(t) PROVE StoreInv'
  <2>1. thread[t].block \in Locked
    BY <1>8, Zenon DEF CheckSeen, SafeInv, TypeInv, ThreadsInv, RecordOK, Threads
  <2> QED BY <1>8, <2>1, Zenon DEF CheckSeen, chain, history, StoreInv
<1>9. ASSUME NEW t \in Handlers, LockNotVerified(t) PROVE StoreInv'
  BY <1>9, Zenon DEF LockNotVerified, chain, history, StoreInv
<1>10. CASE TrySignChecks
  BY <1>10, Zenon DEF TrySignChecks, chain, history, StoreInv
<1>11. CASE TrySignSigns
  <2>1. thread["sched"].block \in Blocks \cup {None}
    BY Zenon DEF SafeInv, TypeInv, ThreadsInv, ThreadRecord, Threads
  <2> QED BY <1>11, <2>1, Zenon DEF TrySignSigns, chain, history, StoreInv
<1>12. CASE UNCHANGED <<chain, seen, lastSigned, sporkChanges>>
  BY <1>12, Zenon DEF chain, StoreInv
<1>13. \/ UNCHANGED <<chain, seen, lastSigned, sporkChanges>>
       \/ \E b \in Blocks \ {Genesis} : ReceiveHeader(b) \/ ReceiveBlock(b)
       \/ ProcessNewBlockActivates \/ ActivateBestChain \/ EnforceActivates \/ EnforceMarks
       \/ ChangeSpork \/ TrySignChecks \/ TrySignSigns
       \/ \E t \in Handlers : CheckSeen(t) \/ LockNotVerified(t)
  BY ZenonT(30) DEF Next, vars, chain, history, Scheduler, ProcessNewChainLock, ReceiveClsig,
         HandleNewRecoveredSig, WriteEnabled, ResetLocks, LockVerified, RecordLock,
         ScheduledRun, EnforceReadsLock, EnforceRechecks, EnforceNotifies
<1> QED BY <1>1, <1>2, <1>3, <1>4, <1>5, <1>6, <1>7, <1>8, <1>9, <1>10, <1>11, <1>12, <1>13, ZenonT(30)

\* The block index and the handler's state are well typed for every tree: only
\* known blocks are flagged, the active chain is stored, and the seen, best and
\* announced locks are ones a quorum signed.
THEOREM TypeCorrect == Spec => []TypeOK
<1>1. Init => SafeInv /\ FinalInv /\ StoreInv
  <2> SUFFICES ASSUME Init PROVE StoreInv
    BY InitOK, Zenon
  <2>1. sporkChanges \in 0 .. MaxSporkChanges /\ act.start = None
    BY SporkBound DEF Init, NoActivation
  <2> QED BY <2>1, Zenon DEF Init, StoreInv
<1>2. SafeInv /\ FinalInv /\ StoreInv /\ [Next]_vars => SafeInv' /\ FinalInv' /\ StoreInv'
  BY NextOK, StoreInvStep, Zenon DEF StepOK
<1>3. SafeInv /\ StoreInv => TypeOK
  <2> SUFFICES ASSUME SafeInv, StoreInv PROVE TypeOK
    BY Zenon
  <2>1. tip \in data /\ act.target \in data \cup {None}
    BY ChainSelf, Zenon DEF SafeInv, TypeInv, ActiveInv, Activations
  <2>2. act \in [by : {"none", "block", "sched"}, target : data \cup {None},
                 start : data \cup {None}]
    BY <2>1, Zenon DEF SafeInv, TypeInv, Activations, StoreInv
  <2>3. \A t \in Threads : thread[t].block \in Blocks \cup {None}
    BY Zenon DEF SafeInv, TypeInv, ThreadsInv, ThreadRecord
  <2>4. {activating, spork, isEnabled, disturbed} \subseteq BOOLEAN
    <3>1. /\ activating \in BOOLEAN /\ spork \in BOOLEAN
          /\ isEnabled \in BOOLEAN /\ disturbed \in BOOLEAN
      BY Zenon DEF SafeInv, TypeInv, StoreInv
    <3> QED BY <3>1, SMT
  <2>5. {best, bestIndex, lastNotify} \subseteq Locked \cup {None}
    BY Zenon DEF SafeInv, TypeInv
  <2> QED BY <2>1, <2>2, <2>3, <2>4, <2>5, Zenon DEF SafeInv, TypeInv, StoreInv, TypeOK
<1> QED BY <1>1, <1>2, <1>3, PTL DEF Spec
=============================================================================
