------------------------------ MODULE Finality ------------------------------
(***************************************************************************)
(* What the ChainLocks handler promises, without headers, flags, threads   *)
(* or enforcement: a recorded lock that only rises, an announced one that  *)
(* only moves to descendants, and an active chain that stays above it.     *)
(* The promise is suspended when an administrator moves the spork or the   *)
(* handler's start-up reset throws a lock away.                            *)
(***************************************************************************)
EXTENDS Integers

CONSTANTS Blocks, Genesis, Locked, None,
          Chain,           \* the ancestors of every block, itself included
          HeightOf(_)

VARIABLES lock,            \* the best lock the node has recorded
          final,           \* the lock it has announced
          tip,
          suspended

vars == <<lock, final, tip, suspended>>

Above(l, b) == l # None => l \in Chain[b]

Init ==
    /\ lock = None /\ final = None
    /\ tip = Genesis
    /\ suspended = FALSE

\* A lock is recorded over a lower one; nothing else moves with it.
Record(l) ==
    /\ lock # None => HeightOf(l) > HeightOf(lock)
    /\ lock' = l
    /\ UNCHANGED <<final, tip, suspended>>

\* Blocks come, go and are enforced; the announced lock stays below the tip.
MoveTip(b) ==
    /\ ~suspended => Above(final, b)
    /\ tip' = b
    /\ UNCHANGED <<lock, final, suspended>>

\* Only a lock that is active, and is the best or an ancestor of it, is
\* announced, and only above the one announced before.
Announce(l) ==
    /\ ~suspended => /\ l \in Chain[tip] /\ Above(final, l)
                     /\ lock # None /\ l \in Chain[lock]
    /\ final' = l
    /\ UNCHANGED <<lock, tip, suspended>>

Suspend ==
    /\ suspended' = TRUE
    /\ \/ UNCHANGED <<lock, final>>
       \/ lock' = None /\ final' = None
    /\ UNCHANGED tip

Next ==
    \/ \E l \in Locked : Record(l) \/ Announce(l)
    \/ \E b \in Blocks : MoveTip(b)
    \/ Suspend

Spec == Init /\ [][Next]_vars
=============================================================================
